CONSTANTS
    Shapes <- MCShapes
    MaxBytes = 5
SPECIFICATION Spec
INVARIANTS BytesInPlace WriteResultTrue ReadResultTrue
PROPERTY CallsReturn
CHECK_DEADLOCK FALSE
