SPECIFICATION Spec
CONSTANTS
  Watchdog = 2
  ManualWatchdog = TRUE
  QueueLimit = 1
  None = None
PROPERTY EnableKeepsTakeover
