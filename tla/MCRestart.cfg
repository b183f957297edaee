SPECIFICATION Spec
CONSTANTS
    r1 = r1
    r2 = r2
    r3 = r3
    Reps = {r1, r2, r3}
    Size <- MCSize
    LittleEndian = FALSE
    ByteBase = 256
    Reload = TRUE
    MaxNodes = 4
    MaxCrashes = 2
INVARIANTS
    EntriesIntact
PROPERTIES
    SavedRestored
CHECK_DEADLOCK FALSE
