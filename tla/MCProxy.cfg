SPECIFICATION FairSpec
CONSTANTS
  Formats <- MCFormats
  MaxFaults = 3
  MaxPending = 3
INVARIANTS MasterInStep PendingOnlyAlone
PROPERTY PendingRetried
CHECK_DEADLOCK FALSE
