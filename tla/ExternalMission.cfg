\* Two items, any two leftover messages, one retry.
SPECIFICATION FairSpec
CONSTANTS
  ItemCount = 2
  MaxIdle = 1
  MaxAttempts = 1
  MaxStale = 2
INVARIANT VerifiedMissionIsStored
PROPERTY RunEnds
\* The run ends.
CHECK_DEADLOCK FALSE
