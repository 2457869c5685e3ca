SPECIFICATION Spec
CONSTANTS
  Slots = {s1}
  Scenes = {c1}
  Releases = {r1, r2}
  None = None
  NoChallenge = NoChallenge
  Challenges = {a1, a2}
  MaxTime = 4
  Timeout = 2
  Ttl = 2
  Tolerance = 1
  TerminateAfterFirst = FALSE
INVARIANT
  FaultComesFromPayload
