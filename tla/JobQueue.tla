------------------------------ MODULE JobQueue ------------------------------
(***************************************************************************)
(* Queue mode: a main process enqueues executions as jobs of a Bull queue  *)
(* (workflow-runner.ts, scaling.service.ts), workers process them          *)
(* (job-processor.ts), the main waits for the outcome, and a periodic      *)
(* recovery of the leader marks executions that the queue does not have    *)
(* as crashed.  Main, workers, queue and database act on their own; every  *)
(* await is a point where the others go on, and processes crash.           *)
(*                                                                         *)
(* Bull is external: what it does here is what scaling.service.ts relies   *)
(* on, with maxStalledCount 0.                                             *)
(***************************************************************************)
EXTENDS Integers, FiniteSets

CONSTANTS Execution,
          BatchSize,     \* executions that a recovery looks at
          MaxFaults,     \* bound: crashes, and jobs that Bull believes stalled while processed
          MaxTerms,      \* bound: times that the main process is told to recover
          CanStepDown    \* whether the main process may lose the leadership

ASSUME QueueAssumption ==
    /\ BatchSize \in Nat \ {0} /\ MaxFaults \in Nat
    /\ MaxTerms \in Nat \ {0} /\ CanStepDown \in BOOLEAN

VARIABLES row,        \* the status column, or "none"
          running,    \* the main process runs
          enqueuing,  \* where run() of the main process is
          entry,      \* executions in activeExecutions
          stopping,   \* where stop() of a user is
          aborted,    \* the abort-job message is under way
          job,        \* the job in the queue
          outcome,    \* what job.finished() of the main process will say
          worker,     \* where processJob() is
          isLeader, term,
          recovery,   \* the chain of recoveries of each term: where it is
          handle,     \* queueRecoveryContext.timeout: the chain it was set by, or 0
          stored,     \* storedIds, then danglingIds of a recovery in flight
          faults, stalled,   \* crashes and stalls; the executions whose jobs stalled
          starts      \* how often the code of the execution was started

enqueue == <<enqueuing, entry, stopping>>
queue == <<job, outcome>>
recover == <<isLeader, term, recovery, handle, stored>>
counts == <<faults, stalled>>
vars == <<row, running, enqueue, aborted, queue, worker, recover, counts, starts>>

InProgress == {"new", "running"}
Final == {"success", "error", "canceled", "crashed"}
Term == 1 .. MaxTerms

Init ==
    /\ row = [e \in Execution |-> "none"]
    /\ running = TRUE
    /\ enqueuing = [e \in Execution |-> "no"]
    /\ entry = {}
    /\ stopping = [e \in Execution |-> "no"]
    /\ aborted = {}
    /\ job = [e \in Execution |-> "none"] /\ outcome = [e \in Execution |-> "none"]
    /\ worker = [e \in Execution |-> "no"]
    /\ isLeader = TRUE /\ term = 1 /\ handle = 1
    /\ recovery = [t \in Term |-> IF t = 1 THEN "armed" ELSE "no"]
    /\ stored = [t \in Term |-> {}]
    /\ faults = 0 /\ stalled = {}
    /\ starts = [e \in Execution |-> 0]

----------------------------------------------------------------------------
(* Main process: run() and enqueueExecution().                             *)

\* add() of the active executions: the row, then the entry.
Create(e) ==
    /\ running /\ row[e] = "none"
    /\ row' = [row EXCEPT ![e] = "new"]
    /\ enqueuing' = [enqueuing EXCEPT ![e] = "created"]
    /\ entry' = entry \cup {e}
    /\ UNCHANGED <<running, stopping, aborted, queue, worker, recover, counts, starts>>

AddJob(e) ==
    /\ running /\ enqueuing[e] = "created"
    /\ enqueuing' = [enqueuing EXCEPT ![e] = "added"]
    /\ job' = [job EXCEPT ![e] = "waiting"]
    /\ UNCHANGED <<row, running, entry, stopping, aborted, outcome, worker, recover, counts,
                   starts>>

\* processError() of an error that is no cancellation: a successful row makes it a false
\* positive, and the entry stays; otherwise the entry is settled, and the row written next.
ProcessError(e, next) ==
    IF row[e] = "success"
    THEN enqueuing' = [enqueuing EXCEPT ![e] = "positive"] /\ UNCHANGED entry
    ELSE enqueuing' = [enqueuing EXCEPT ![e] = next] /\ entry' = entry \ {e}

\* The queue refuses the job, or the hook workflowExecuteBefore fails, which leaves the job
\* in the queue.
AddJobFails(e) ==
    /\ running /\ enqueuing[e] \in {"created", "added"}
    /\ ProcessError(e, "refused")
    /\ UNCHANGED <<row, running, stopping, aborted, queue, worker, recover, counts, starts>>

\* A call of the database by the main process fails: the look at the row in processError(),
\* the reading of the result, or the save after an error.  Nobody tries again.
DatabaseFails(e) ==
    /\ running
    /\ \/ enqueuing[e] \in {"created", "added", "refused", "failed"}
       \/ enqueuing[e] = "attached" /\ outcome[e] \in {"completed", "failed"}
    /\ enqueuing' = [enqueuing EXCEPT ![e] = "abandoned"]
    /\ UNCHANGED <<row, running, entry, stopping, aborted, queue, worker, recover, counts, starts>>

\* After the hook workflowExecuteBefore the main waits for the job.  The entry may be gone
\* (stop()): attachWorkflowExecution() throws, and the wait goes on.
Attach(e) ==
    /\ running /\ enqueuing[e] = "added"
    /\ enqueuing' = [enqueuing EXCEPT ![e] = "attached"]
    /\ UNCHANGED <<row, running, entry, stopping, aborted, queue, worker, recover, counts, starts>>


\* job.finished() resolves: the result is taken and the entry settled.
JobCompleted(e) ==
    /\ running /\ enqueuing[e] = "attached" /\ outcome[e] = "completed"
    /\ enqueuing' = [enqueuing EXCEPT ![e] = "done"]
    /\ entry' = entry \ {e}
    /\ UNCHANGED <<row, running, stopping, aborted, queue, worker, recover, counts, starts>>

\* Mutant: processError() does not look at the row first.
JobFailedUnchecked(e) ==
    /\ running /\ enqueuing[e] = "attached"
    /\ \/ outcome[e] = "cancelled" /\ enqueuing' = [enqueuing EXCEPT ![e] = "done"]
       \/ outcome[e] = "failed" /\ enqueuing' = [enqueuing EXCEPT ![e] = "failed"]
    /\ entry' = entry \ {e}
    /\ UNCHANGED <<row, running, stopping, aborted, queue, worker, recover, counts, starts>>

\* Mutant: every failure is taken for a cancellation.
JobFailedSilently(e) ==
    /\ running /\ enqueuing[e] = "attached" /\ outcome[e] \in {"failed", "cancelled"}
    /\ enqueuing' = [enqueuing EXCEPT ![e] = "done"]
    /\ UNCHANGED <<row, running, entry, stopping, aborted, queue, worker, recover, counts, starts>>

\* job.finished() rejects; processError() returns at once for a cancellation.
JobFailed(e) ==
    /\ running /\ enqueuing[e] = "attached"
    /\ \/ outcome[e] = "cancelled" /\ enqueuing' = [enqueuing EXCEPT ![e] = "done"] /\ UNCHANGED entry
       \/ outcome[e] = "failed" /\ ProcessError(e, "failed")
    /\ UNCHANGED <<row, running, stopping, aborted, queue, worker, recover, counts, starts>>

\* The hook workflowExecuteAfter of processError() saves the error.
WriteError(e) ==
    /\ running /\ enqueuing[e] \in {"refused", "failed"}
    /\ row' = [row EXCEPT ![e] = "error"]
    /\ enqueuing' = [enqueuing EXCEPT ![e] = IF @ = "refused" THEN "dropped" ELSE "done"]
    /\ UNCHANGED <<running, entry, stopping, aborted, queue, worker, recover, counts, starts>>

----------------------------------------------------------------------------
(* Main process: a user stops an execution (stopInScalingMode()).          *)

\* The row is stoppable; the entry is cancelled.  Only an execution that is attached has
\* something to cancel, the job; that goes on beside the write of the row.
Stop(e) ==
    /\ running /\ stopping[e] = "no" /\ row[e] \in InProgress
    /\ stopping' = [stopping EXCEPT ![e] =
                        IF e \in entry /\ enqueuing[e] = "attached" THEN "both" ELSE "row"]
    /\ entry' = entry \ {e}
    /\ UNCHANGED <<row, running, enqueuing, aborted, queue, worker, recover, counts, starts>>

\* stopJob(): a job that is processed gets a message, another one is removed, unless it has
\* been picked up since it was looked at.
StopJob(e) ==
    /\ running /\ stopping[e] \in {"both", "job"}
    /\ stopping' = [stopping EXCEPT ![e] = IF @ = "both" THEN "row" ELSE "done"]
    /\ \/ aborted' = IF job[e] = "active" THEN aborted \cup {e} ELSE aborted
       \/ job[e] = "active" /\ UNCHANGED aborted
    /\ job' = [job EXCEPT ![e] = IF @ = "waiting" THEN "none" ELSE @]
    /\ UNCHANGED <<row, running, enqueuing, entry, outcome, worker, recover, counts, starts>>

\* stopDuringRun().
StopRow(e) ==
    /\ running /\ stopping[e] \in {"both", "row"}
    /\ row' = [row EXCEPT ![e] = "canceled"]
    /\ stopping' = [stopping EXCEPT ![e] = IF @ = "both" THEN "job" ELSE "done"]
    /\ UNCHANGED <<running, enqueuing, entry, aborted, queue, worker, recover, counts, starts>>

----------------------------------------------------------------------------
(* Worker: processJob().                                                   *)

Dequeue(e) ==
    /\ worker[e] = "no" /\ job[e] = "waiting"
    /\ job' = [job EXCEPT ![e] = "active"]
    /\ worker' = [worker EXCEPT ![e] = "dequeued"]
    /\ UNCHANGED <<row, running, enqueue, aborted, outcome, recover, counts, starts>>

\* The job leaves the queue with this outcome, unless Bull has taken it from the worker.
Settle(e, result) ==
    /\ job' = [job EXCEPT ![e] = IF @ = "active" THEN "none" ELSE @]
    /\ outcome' = [outcome EXCEPT ![e] = IF job[e] = "active" THEN result ELSE @]

\* findSingleExecution(): an execution that crashed is not processed.
Fetch(e) ==
    /\ worker[e] = "dequeued"
    /\ IF row[e] = "crashed"
       THEN /\ worker' = [worker EXCEPT ![e] = "no"]
            /\ Settle(e, "completed")
       ELSE /\ worker' = [worker EXCEPT ![e] = "fetched"]
            /\ UNCHANGED queue
    /\ UNCHANGED <<row, running, enqueue, aborted, recover, counts, starts>>

SetRunning(e) ==
    /\ worker[e] = "fetched"
    /\ row' = [row EXCEPT ![e] = "running"]
    /\ worker' = [worker EXCEPT ![e] = "starting"]
    /\ UNCHANGED <<running, enqueue, aborted, queue, recover, counts, starts>>

\* An await of processJob() throws: the job fails.
Throw(e) ==
    /\ worker[e] \in {"dequeued", "fetched", "starting", "saved"}
    /\ Settle(e, "failed")
    /\ worker' = [worker EXCEPT ![e] = "no"]
    /\ UNCHANGED <<row, running, enqueue, aborted, recover, counts, starts>>

\* The code starts, and the job is registered in runningJobs.
StartRun(e) ==
    /\ worker[e] = "starting"
    /\ worker' = [worker EXCEPT ![e] = "running"]
    /\ starts' = [starts EXCEPT ![e] = @ + 1]
    /\ UNCHANGED <<row, running, enqueue, aborted, queue, recover, counts>>

\* The abort-job message arrives; a job that is not in runningJobs does not hear it.
Abort(e) ==
    /\ e \in aborted
    /\ aborted' = aborted \ {e}
    /\ worker' = [worker EXCEPT ![e] = IF @ = "running" THEN "cancelling" ELSE @]
    /\ UNCHANGED <<row, running, enqueue, queue, recover, counts, starts>>

\* The code ends and the hook workflowExecuteAfter saves the execution.
EndRun(e) ==
    /\ \/ /\ worker[e] = "running"
          /\ \E result \in {"success", "error"} : row' = [row EXCEPT ![e] = result]
          /\ worker' = [worker EXCEPT ![e] = "saved"]
       \/ /\ worker[e] = "cancelling"
          /\ row' = [row EXCEPT ![e] = "canceled"]
          /\ worker' = [worker EXCEPT ![e] = "savedCanceled"]
    /\ UNCHANGED <<running, enqueue, aborted, queue, recover, counts, starts>>

\* The job-finished message, and the end of the job; a cancelled job fails.
EndJob(e) ==
    /\ worker[e] \in {"saved", "savedCanceled"}
    /\ Settle(e, IF worker[e] = "saved" THEN "completed" ELSE "cancelled")
    /\ worker' = [worker EXCEPT ![e] = "no"]
    /\ UNCHANGED <<row, running, enqueue, aborted, recover, counts, starts>>

----------------------------------------------------------------------------
(* Bull, and crashes.                                                      *)

\* Mutant: maxStalledCount 1: the job is processed again.
StalledRetries(e) ==
    /\ job[e] = "active"
    /\ worker[e] # "no" => faults < MaxFaults
    /\ job' = [job EXCEPT ![e] = "waiting"]
    /\ IF worker[e] = "no" THEN UNCHANGED counts
                           ELSE stalled' = stalled \cup {e} /\ faults' = faults + 1
    /\ UNCHANGED <<row, running, enqueue, aborted, outcome, worker, recover, starts>>

\* The lock of an active job has run out: its worker is gone, or too busy to renew it.
\* With maxStalledCount 0 the job fails.
Stalled(e) ==
    /\ job[e] = "active"
    /\ worker[e] # "no" => faults < MaxFaults
    /\ job' = [job EXCEPT ![e] = "none"]
    /\ outcome' = [outcome EXCEPT ![e] = "failed"]
    /\ IF worker[e] = "no" THEN UNCHANGED counts
                           ELSE stalled' = stalled \cup {e} /\ faults' = faults + 1
    /\ UNCHANGED <<row, running, enqueue, aborted, worker, recover, starts>>

\* The worker crashes; another one takes the next jobs.
WorkerCrash ==
    /\ faults < MaxFaults
    /\ faults' = faults + 1
    /\ worker' = [e \in Execution |-> "no"]
    /\ UNCHANGED <<row, running, enqueue, aborted, queue, recover, stalled, starts>>

MainCrash ==
    /\ running /\ faults < MaxFaults
    /\ faults' = faults + 1
    /\ running' = FALSE
    /\ enqueuing' = [e \in Execution |-> IF enqueuing[e] = "no" THEN "no" ELSE "done"]
    /\ entry' = {}
    /\ stopping' = [e \in Execution |-> IF stopping[e] = "no" THEN "no" ELSE "done"]
    /\ recovery' = [t \in Term |-> "no"] /\ stored' = [t \in Term |-> {}] /\ handle' = 0
    /\ UNCHANGED <<row, aborted, queue, worker, isLeader, term, stalled, starts>>

\* The next process: setupQueue() starts the recovery of a leader at once.
MainStart ==
    /\ ~running
    /\ running' = TRUE
    /\ IF isLeader THEN recovery' = [recovery EXCEPT ![term] = "armed"] /\ handle' = term
                   ELSE UNCHANGED <<recovery, handle>>
    /\ UNCHANGED <<row, enqueue, aborted, queue, worker, isLeader, term, stored, counts, starts>>

----------------------------------------------------------------------------
(* Main process: the queue recovery of a leader.                           *)

\* The timeout fires: recoverFromQueue() reads some executions in progress.
RecoverRead(t) ==
    /\ running /\ recovery[t] = "armed"
    /\ \E ids \in SUBSET {e \in Execution : row[e] \in InProgress} :
        /\ \/ Cardinality(ids) = BatchSize
           \/ ids = {e \in Execution : row[e] \in InProgress} /\ Cardinality(ids) < BatchSize
        /\ stored' = [stored EXCEPT ![t] = ids]
    /\ recovery' = [recovery EXCEPT ![t] = "read"]
    /\ UNCHANGED <<row, running, enqueue, aborted, queue, worker, isLeader, term, handle, counts,
                   starts>>

\* findJobsByStatus(): those that the queue does not have are dangling.
RecoverCheck(t) ==
    /\ running /\ recovery[t] = "read"
    /\ stored' = [stored EXCEPT ![t] = {e \in @ : job[e] \notin {"waiting", "active"}}]
    /\ recovery' = [recovery EXCEPT ![t] = "checked"]
    /\ UNCHANGED <<row, running, enqueue, aborted, queue, worker, isLeader, term, handle, counts,
                   starts>>

\* Mutant: only executions that never ran are marked.
RecoverMarkNew(t) ==
    /\ running /\ recovery[t] = "checked"
    /\ row' = [e \in Execution |-> IF e \in stored[t] /\ row[e] = "new" THEN "crashed" ELSE row[e]]
    /\ recovery' = [recovery EXCEPT ![t] = "armed"]
    /\ stored' = [stored EXCEPT ![t] = {}]
    /\ handle' = t
    /\ UNCHANGED <<running, enqueue, aborted, queue, worker, isLeader, term, counts, starts>>

\* markAsCrashed(), whatever the rows have become; then the next recovery is scheduled,
\* whether or not this process still leads.
RecoverMark(t) ==
    /\ running /\ recovery[t] = "checked"
    /\ row' = [e \in Execution |-> IF e \in stored[t] THEN "crashed" ELSE row[e]]
    /\ recovery' = [recovery EXCEPT ![t] = "armed"]
    /\ stored' = [stored EXCEPT ![t] = {}]
    /\ handle' = t
    /\ UNCHANGED <<running, enqueue, aborted, queue, worker, isLeader, term, counts, starts>>

\* stopQueueRecovery(): clears the timeout; a recovery in flight goes on.
Stepdown ==
    /\ CanStepDown /\ running /\ isLeader /\ term < MaxTerms
    /\ isLeader' = FALSE
    /\ recovery' = [t \in Term |-> IF t = handle /\ recovery[t] = "armed" THEN "no" ELSE recovery[t]]
    /\ UNCHANGED <<row, running, enqueue, aborted, queue, worker, term, handle, stored, counts,
                   starts>>

\* scheduleQueueRecovery(): a timeout of its own.
Takeover ==
    /\ running /\ ~isLeader /\ term < MaxTerms
    /\ isLeader' = TRUE
    /\ term' = term + 1
    /\ recovery' = [recovery EXCEPT ![term + 1] = "armed"]
    /\ handle' = term + 1
    /\ UNCHANGED <<row, running, enqueue, aborted, queue, worker, stored, counts, starts>>

----------------------------------------------------------------------------
(* The system.                                                             *)

MainStep(e) == AddJob(e) \/ Attach(e) \/ JobCompleted(e) \/ JobFailed(e) \/ WriteError(e)
StopStep(e) == StopJob(e) \/ StopRow(e)
WorkerStep(e) ==
    \/ Dequeue(e) \/ Fetch(e) \/ SetRunning(e) \/ StartRun(e) \/ EndRun(e) \/ EndJob(e)
LostJob(e) == worker[e] = "no" /\ Stalled(e)
Recover == \E t \in Term : RecoverRead(t) \/ RecoverCheck(t) \/ RecoverMark(t)

Next ==
    \/ \E e \in Execution :
        \/ Create(e) \/ MainStep(e) \/ AddJobFails(e) \/ DatabaseFails(e)
        \/ Stop(e) \/ StopStep(e)
        \/ WorkerStep(e) \/ Throw(e) \/ Abort(e) \/ Stalled(e)
    \/ WorkerCrash \/ MainCrash \/ MainStart
    \/ Recover \/ Stepdown \/ Takeover

Spec == Init /\ [][Next]_vars

FairSpec ==
    /\ Spec
    /\ WF_vars(\E e \in Execution :
                MainStep(e) \/ StopStep(e) \/ WorkerStep(e) \/ Abort(e) \/ LostJob(e))
    /\ WF_vars(MainStart) /\ WF_vars(Takeover) /\ WF_vars(Recover)

----------------------------------------------------------------------------
(* Properties.                                                             *)

\* Types of the variables.
TypeOK ==
    /\ row \in [Execution -> {"none"} \cup InProgress \cup Final]
    /\ running \in BOOLEAN
    /\ enqueuing \in [Execution -> {"no", "created", "added", "refused", "attached", "failed",
                                    "done", "dropped", "positive", "abandoned"}]
    /\ entry \subseteq Execution
    /\ stopping \in [Execution -> {"no", "both", "job", "row", "done"}]
    /\ aborted \subseteq Execution
    /\ job \in [Execution -> {"none", "waiting", "active"}]
    /\ outcome \in [Execution -> {"none", "completed", "failed", "cancelled"}]
    /\ worker \in [Execution -> {"no", "dequeued", "fetched", "starting", "running", "cancelling",
                                 "saved", "savedCanceled"}]
    /\ isLeader \in BOOLEAN /\ term \in Term /\ handle \in {0} \cup Term
    /\ recovery \in [Term -> {"no", "armed", "read", "checked"}]
    /\ stored \in [Term -> SUBSET Execution]
    /\ stalled \subseteq Execution /\ faults \in Cardinality(stalled) .. MaxFaults
    /\ starts \in [Execution -> Nat]

\* Whatever crashes, stalls or is recovered, the code of an execution that does not wait,
\* and so is not resumed by a job of its own, starts once at most.
RunsOnce == \A e \in Execution : starts[e] <= 1

\* An execution in progress is in somebody's hands, unless a process crashed or lost
\* its job, or the main process wrote it off and left its job in the queue, or could not write
\* at all: this is what lets the recovery take an execution without a job for a dangling one.
InProgressIsHeld ==
    \A e \in Execution :
        row[e] \in InProgress =>
            \/ running /\ enqueuing[e] \in {"created", "refused", "failed"}
            \/ enqueuing[e] = "dropped"
            \/ enqueuing[e] = "abandoned" /\ outcome[e] # "completed"
            \/ job[e] # "none" \/ worker[e] # "no"
            \/ outcome[e] = "failed" /\ enqueuing[e] \in {"added", "attached"}
            \/ stopping[e] = "row"
            \/ faults > 0

\* A final status changes only where somebody writes without looking again: a recovery or a
\* stop that was under way, a worker that Bull gave up, the enqueuing that failed.  An
\* execution that was stopped or written off may change with its job, one that was
\* successful does not.
FinalStatusSticks ==
    [][\A e \in Execution :
            row[e] \in Final /\ row'[e] # row[e] =>
                \/ \E t \in Term : e \in stored[t]
                \/ stopping[e] \in {"both", "row"}
                \/ enqueuing[e] = "refused" \/ e \in stalled
                \/ row[e] # "success" /\ (enqueuing[e] = "failed" \/ worker[e] # "no")]_vars

\* Every execution reaches a final status, whatever crashes.
EveryExecutionEnds == \A e \in Execution : []<>(row[e] \notin InProgress)


\* scaling.service.ts:600, "Mark in-progress executions as `crashed` if stored in DB as
\* `new` or `running` but absent from the queue": only such rows are marked.
OnlyInProgressIsMarked ==
    [][\A e \in Execution : row'[e] = "crashed" => row[e] \in InProgress \cup {"crashed"}]_vars

\* multi-main-setup.ee.ts:18: on the loss of leadership services stop the queue recovery; a
\* follower starts none.
FollowersDoNotRecover ==
    [][\A t \in Term : recovery[t] = "armed" /\ recovery'[t] = "read" => isLeader]_vars
=============================================================================
