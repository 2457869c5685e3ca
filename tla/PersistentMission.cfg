\* Two items; item requests and repairs stop at eight lines, so a file has at
\* most MaxRecords + 5.
SPECIFICATION Spec
CONSTANTS
  ItemCount = 2
  MaxRecords = 8
INVARIANTS JournalReloads WritableHandleIsCurrent
INVARIANTS PermitIsDurable DivergenceIsOneStep
PROPERTIES CommittedRecordsKept
PROPERTIES ExpiredGrantWritesNoProgress ImplementsCheckpoint
\* A creation that dies before its header line is complete leaves an unusable
\* path: the system may really stop.
CHECK_DEADLOCK FALSE
