---------------------------- MODULE MissionStates ----------------------------
(***************************************************************************)
(* The life cycle of one PX4 Mission transaction: the states of            *)
(* px4_mission.MissionTransactionState and the transition table that       *)
(* mission_journal._STATE_TRANSITIONS enforces on every journal record.    *)
(***************************************************************************)
EXTENDS Integers

CONSTANT ItemCount      \* number of wire items of the compiled mission

ASSUME ItemCountAssumption == ItemCount \in Nat \ {0}

\* The sequence numbers of the plan's items.
Items == 0 .. ItemCount - 1

\* MissionTransactionState
States == {"authorized", "uploading", "uploaded", "readback_verified",
           "committed", "start_permitted", "denied"}

\* A journal accepts no further transition once one of these is recorded.
Terminal == {"start_permitted", "denied"}

\* _STATE_TRANSITIONS: forward one stage at a time, or to "denied".
StateTransitions ==
  [s \in States |->
     CASE s = "authorized"        -> {"uploading", "denied"}
       [] s = "uploading"         -> {"uploaded", "denied"}
       [] s = "uploaded"          -> {"readback_verified", "denied"}
       [] s = "readback_verified" -> {"committed", "denied"}
       [] s = "committed"         -> {"start_permitted", "denied"}
       [] s \in Terminal          -> {}]

\* The stages that lie behind the vehicle's upload acknowledgement.
AfterUpload == {"uploaded", "readback_verified", "committed", "start_permitted"}
==============================================================================
