CONSTANTS
    Body <- MCBody
    Own <- MCOwn
    Incoming <- MCIncoming
    MaxHandles = 4
SPECIFICATION Spec
INVARIANTS DecisionCurrent ChosenIsNearest DecodesAsReported
CHECK_DEADLOCK FALSE
