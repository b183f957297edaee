SPECIFICATION Spec
CONSTANTS
  Formats = {"A", "B"}
  AppContext <- MCContext
  BlockSize = 92
  AttrLen = 8
  WithAttrs = {"A"}
  Targets = {{}, {"A"}}
  Uses = {"append"}
  MaxCells = 6
  MaxData = 3
  MaxBlocks = 2
INVARIANTS IndexExact AttrsInStep CallsReturn
PROPERTY KeepsRecords
CHECK_DEADLOCK FALSE
