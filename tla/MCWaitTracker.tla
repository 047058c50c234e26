---------------------------- MODULE MCWaitTracker ----------------------------
(* Instances of WaitTracker for TLC. *)
EXTENDS WaitTracker

CONSTANTS h1, h2, e1
=============================================================================
