-------------------------- MODULE MCMultiMainSetup --------------------------
(* Instances of MultiMainSetup for TLC. *)
EXTENDS MultiMainSetup, TLC

CONSTANTS h1, h2

\* One instance may be restarted.
MCMaxStarts == (h1 :> 2) @@ (h2 :> 1)
=============================================================================
