SPECIFICATION FairSpec
CONSTANTS
  Slots = {s1, s2}
  Scenes = {c1, c2}
  Releases = {r1, r2, r3}
  None = None
  NoChallenge = NoChallenge
  Challenges = {a1, a2}
  MaxTime = 5
  Timeout = 2
  Ttl = 2
  Tolerance = 1
  TerminateAfterFirst = FALSE
INVARIANTS
  PortRequestsAreAuthorized
  ConfirmedNeedsBoth
  PhaseMatchesBays
  BindingsAgree
  EveryReleaseWasGranted
PROPERTIES
  ImplementsTransaction
  AuthorizationEnds
  ReleaseEnds
