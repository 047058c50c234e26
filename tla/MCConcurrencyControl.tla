------------------------- MODULE MCConcurrencyControl -------------------------
EXTENDS ConcurrencyControl, TLC

CONSTANTS w1, w2, ev, mn, r1, r2, r3, r4

\* Two production executions, an evaluation and a manual execution.
MCMode == (w1 :> "webhook") @@ (w2 :> "trigger") @@ (ev :> "evaluation") @@ (mn :> "manual")

\* One production slot, two evaluation slots.
MCLimit == [t \in QueueType |-> IF t = "production" THEN 1 ELSE 2]
=============================================================================
