\* Two alerts of which a start retries one and the receiver remembers one, two
\* sends per publish; both kinds of store.
SPECIFICATION FairSpec
CONSTANTS
  AlertCount = 2
  MaximumAttempts = 2
  Limit = 1
  Capacity = 1
  None = None
INVARIANTS OutcomeFindsItsRow DeliveredIsShown DuplicateWindow
PROPERTIES ImplementsPromise StartupEnds PendingIsDelivered
