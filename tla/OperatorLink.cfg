SPECIFICATION FairSpec
CONSTANTS
  MaxCommands = 2
  MaxChallenges = 2
  MaxLives = 2
  Modulus = 8
  FirstSequence = 6
  Jump = 2
  Window = 1
  QueueLimit = 1
  FrameLimit = 1
  Selection = Selection
  None = None
INVARIANTS
  TakenOnce
  SelectionsInOrder
  OneAcceptedDecision
  AppliedIsItsOwn
  TakenWasAcknowledged
  AcceptedIsRecorded
PROPERTIES
  ImplementsPromise
  QueuedIsTaken
