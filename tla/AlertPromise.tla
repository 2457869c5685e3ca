----------------------------- MODULE AlertPromise -----------------------------
(***************************************************************************)
(* What the aircraft's outbox, the acknowledged link and the ground        *)
(* receiver promise together about a confirmed fire alert: it is durable   *)
(* before the ground can have heard of it, it stays owed until the ground  *)
(* has recorded it, and then it is settled for good.                       *)
(***************************************************************************)
CONSTANT Alerts

VARIABLES owed,         \* durable on the aircraft, not yet acknowledged
          recorded,     \* recorded by the ground receiver at some time
          settled       \* acknowledged

Init == owed = {} /\ recorded = {} /\ settled = {}

Owe(a) ==
  /\ a \notin owed \union settled
  /\ owed' = owed \union {a}
  /\ UNCHANGED <<recorded, settled>>

Record(a) ==
  /\ a \in owed \union settled
  /\ recorded' = recorded \union {a}
  /\ UNCHANGED <<owed, settled>>

Settle(a) ==
  /\ a \in owed \intersect recorded
  /\ owed' = owed \ {a}
  /\ settled' = settled \union {a}
  /\ UNCHANGED recorded

Next == \E a \in Alerts : Owe(a) \/ Record(a) \/ Settle(a)

Spec == Init /\ [][Next]_<<owed, recorded, settled>>
==============================================================================
