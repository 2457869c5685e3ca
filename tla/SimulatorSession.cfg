\* Streams stale after two ticks, with a manual watchdog; up to two datagrams waiting.
SPECIFICATION FairSpec
CONSTANTS
  Watchdog = 2
  ManualWatchdog = TRUE
  QueueLimit = 2
  None = None
INVARIANTS AiFrameHasAuthority AiOutputIsWatched AiEndsWithStop
PROPERTIES StopEndsTheRun StaleAiIsNeutralized
