------------------------------ MODULE SessionMC ------------------------------
(* Instances of Session and ShardManager for TLC.                           *)
EXTENDS ShardManager, TLC

CONSTANTS s1, s2, u1, u2, m1, r1

(* Sessions on their own.                                                   *)
Alone == Init /\ NewManager /\ [][SessionNext /\ UNCHANGED manager]_vars
FairAlone == Alone /\ SessionFairness
=============================================================================
