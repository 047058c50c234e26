---------------------------- MODULE MCTaskBroker ----------------------------
(* Instances of TaskBroker for TLC. *)
EXTENDS TaskBroker

CONSTANTS r1, l1, q1, q2
=============================================================================
