---------------------------- MODULE ExecutionStatus ----------------------------
(***************************************************************************)
(* The life of the `status` column of an execution as its readers take it: *)
(* the REST API, WaitTracker.getWaitingExecutions (status 'waiting'),      *)
(* Start.runEnqueuedExecutions (status 'new'), ExecutionService            *)
(* .assertStoppable ('new', 'unknown', 'waiting', 'running') and the crash *)
(* recovery of MessageEventBus.initialize ('running', 'unknown').  A       *)
(* finished execution stays finished.  ExecutionLifecycle, with the        *)
(* process that writes the column, is checked against it.                  *)
(***************************************************************************)
CONSTANT Exec

VARIABLE status

Finished == {"success", "error", "canceled", "crashed"}
Stoppable == {"new", "waiting", "running"}

Init == status = [e \in Exec |-> "none"]

Become(e, s) == status' = [status EXCEPT ![e] = s]

Enqueue(e) == status[e] = "none" /\ Become(e, "new")
Start(e) == status[e] = "new" /\ Become(e, "running")
Suspend(e) == status[e] = "running" /\ Become(e, "waiting")
Resume(e) == status[e] = "waiting" /\ Become(e, "running")
Finish(e) == status[e] = "running" /\ \E s \in {"success", "error"} : Become(e, s)
Cancel(e) == status[e] \in Stoppable /\ Become(e, "canceled")

\* At startup, after a crash: what was running is found dead.
Recover ==
  \E dead \in SUBSET {e \in Exec : status[e] = "running"} :
    status' = [e \in Exec |-> IF e \in dead THEN "crashed" ELSE status[e]]

Next ==
  \/ \E e \in Exec : \/ Enqueue(e) \/ Start(e) \/ Suspend(e) \/ Resume(e)
                     \/ Finish(e) \/ Cancel(e)
  \/ Recover

Spec == Init /\ [][Next]_status
=============================================================================
