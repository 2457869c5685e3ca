SPECIFICATION Spec
CONSTANTS
  ItemCount = 2
  MaxRecords = 8
INVARIANT EveryItemIsJournaled
CHECK_DEADLOCK FALSE
