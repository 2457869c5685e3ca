---------------------------- MODULE CommandPromise ----------------------------
(***************************************************************************)
(* What the operator link promises about every command, with one mark per  *)
(* kind of command in place of datagrams, caches, the sidecar and its      *)
(* processes: a command passes the mark at most once and in the order of   *)
(* issue; the operator is told of an acceptance only after that, and of    *)
(* one decision per challenge; what takes effect was told; and a decision  *)
(* is carried out once, on its own challenge.                              *)
(***************************************************************************)
EXTENDS Naturals, Sequences

CONSTANTS Commands, Challenges, Selection, None

VARIABLES
  about,    \* what an issued command is about: Selection or a challenge
  mark,     \* the latest command let through, by kind; 0 before the first
  told,     \* commands the operator was told are accepted
  taken,    \* commands that took effect, by kind, in their order
  applied   \* decisions carried out: [command, challenge]

promised == <<about, mark, told, taken, applied>>

Kind(i) == IF about[i] = Selection THEN "selection" ELSE "authorization"

Init ==
  /\ about = [i \in Commands |-> None]
  /\ mark = [k \in {"selection", "authorization"} |-> 0]
  /\ told = {}
  /\ taken = [k \in {"selection", "authorization"} |-> <<>>]
  /\ applied = <<>>

Issue(i) ==
  /\ about[i] = None
  /\ \E what \in Challenges \union {Selection} : about' = [about EXCEPT ![i] = what]
  /\ UNCHANGED <<mark, told, taken, applied>>

Pass(i) ==
  /\ about[i] # None
  /\ i > mark[Kind(i)]
  /\ mark' = [mark EXCEPT ![Kind(i)] = i]
  /\ UNCHANGED <<about, told, taken, applied>>

Tell(i) ==
  /\ about[i] # None
  /\ i <= mark[Kind(i)]
  /\ \A j \in told : about[j] = about[i] => about[i] = Selection \/ j = i
  /\ told' = told \union {i}
  /\ UNCHANGED <<about, mark, taken, applied>>

\* Commands of both kinds may take effect together.
Take ==
  /\ \A k \in DOMAIN taken :
       /\ Len(taken[k]) <= Len(taken'[k])
       /\ \A m \in DOMAIN taken[k] : taken'[k][m] = taken[k][m]
       /\ \A m \in DOMAIN taken'[k] : taken'[k][m] \in told /\ Kind(taken'[k][m]) = k
       /\ \A m, n \in DOMAIN taken'[k] : m < n => taken'[k][m] < taken'[k][n]
  /\ UNCHANGED <<about, mark, told, applied>>

Carry(i) ==
  /\ \E m \in DOMAIN taken["authorization"] : taken["authorization"][m] = i
  /\ \A j \in DOMAIN applied : applied[j].challenge # about[i]
  /\ applied' = Append(applied, [command |-> i, challenge |-> about[i]])
  /\ UNCHANGED <<about, mark, told, taken>>

Next ==
  \/ \E i \in Commands : Issue(i) \/ Pass(i) \/ Tell(i) \/ Carry(i)
  \/ Take

Spec == Init /\ [][Next]_promised
===============================================================================
