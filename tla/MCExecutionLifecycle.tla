------------------------- MODULE MCExecutionLifecycle -------------------------
EXTENDS ExecutionLifecycle, TLC

CONSTANTS e1, e2, r1, r2, r3

\* Webhook executions: they share the production queue.
MCMode == [e \in Exec |-> "webhook"]

\* One production slot: the second execution always waits for the first.
MCLimit == [t \in QueueType |-> IF t = "production" THEN 1 ELSE -1]

Symmetry == Permutations(Run) \cup Permutations(Exec)
=============================================================================
