-------------------------- MODULE PayloadTransaction --------------------------
(***************************************************************************)
(* What the payload controller promises (docs/safety-case.md, items 5, 6   *)
(* and 10): bays are released one at a time, each at most once, a release  *)
(* ends confirmed or failed, and after a failure nothing is released any   *)
(* more.                                                                   *)
(***************************************************************************)
CONSTANT Slots

VARIABLES inFlight,     \* bays whose release was requested and has not ended
          confirmed,    \* bays whose release is confirmed
          failed,       \* bays whose release failed
          stopped       \* a fault has ended the controller's life

Init == inFlight = {} /\ confirmed = {} /\ failed = {} /\ stopped = FALSE

Start(s) ==
  /\ ~stopped
  /\ inFlight = {}
  /\ s \notin confirmed
  /\ inFlight' = {s}
  /\ UNCHANGED <<confirmed, failed, stopped>>

Confirm(s) ==
  /\ ~stopped
  /\ s \in inFlight
  /\ inFlight' = {}
  /\ confirmed' = confirmed \union {s}
  /\ UNCHANGED <<failed, stopped>>

Stop ==
  /\ stopped' = TRUE
  /\ failed' = failed \union inFlight
  /\ inFlight' = {}
  /\ UNCHANGED confirmed

Next == Stop \/ \E s \in Slots : Start(s) \/ Confirm(s)

Spec == Init /\ [][Next]_<<inFlight, confirmed, failed, stopped>>
==============================================================================
