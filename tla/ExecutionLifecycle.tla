-------------------------- MODULE ExecutionLifecycle --------------------------
(***************************************************************************)
(* Executions in regular mode, from WorkflowRunner.run() to the release of *)
(* their capacity: one main process, its database, its clients.            *)
(*                                                                         *)
(*   packages/cli/src/active-executions.ts          the map of entries     *)
(*   packages/cli/src/workflow-runner.ts            run, runMainProcess     *)
(*   packages/cli/src/executions/execution.service.ts   stop                *)
(*   packages/cli/src/execution-lifecycle/...       the saving hooks        *)
(*   packages/cli/src/commands/start.ts             startup and shutdown    *)
(*   packages/@n8n/db/.../execution.repository.ts   the status column       *)
(*   packages/core/.../workflow-execute.ts          how a run ends          *)
(*                                                                         *)
(* A Run is one call of ActiveExecutions.add() and what follows from it;   *)
(* it makes one capacity reservation (module ConcurrencyControl, where it  *)
(* is the Reservation).  Several runs may be about one execution: each     *)
(* resumption of a waiting execution is a run of its own.  JavaScript is   *)
(* single threaded: an action is what happens between two awaits, and the  *)
(* write of a row is a step of its own.                                    *)
(***************************************************************************)
EXTENDS ConcurrencyControl

CONSTANTS
  NoRun,        \* no entry, or nothing attached
  CanWait,      \* do the workflows contain Wait nodes
  CanStop,      \* do users stop executions
  CanTimeOut,   \* is an execution timeout configured
  CanShutDown,  \* is the process stopped gracefully
  CrashBudget   \* bound: how many times the process dies

Run == Reservation

ASSUME NoRunAssumption == NoRun \notin Run
ASSUME OptionAssumption == {CanWait, CanStop, CanTimeOut, CanShutDown} \subseteq BOOLEAN
ASSUME CrashBudgetAssumption == CrashBudget \in Nat

RowStatus == {"none", "new", "running", "waiting", "success", "error", "canceled", "crashed"}
RunPhase == {"idle", "created", "reserving", "marked", "refused", "added",
             "starting", "executing", "waiting", "saving", "saved", "done"}

VARIABLES
  row,          \* the status column of each execution
  phase,        \* how far each run has come
  execOf,       \* the execution a run is about
  restart,      \* maybeExecutionId was given: the run resumes an execution
  outcome,      \* the final status a run's workflowExecuteAfter hook will save
  entry,        \* ActiveExecutions.activeExecutions: the run of each entry
  entryStatus,  \* IExecutingWorkflowData.status of a run's entry
  post,         \* its postExecutePromise: "none", "pending", "settled", "closed"
  attached,     \* its workflowExecution: the run whose PCancelable it holds
  aborted,      \* the PCancelable of a run has been cancelled
  cancelSave,   \* onCancel's workflowExecuteAfter hook has its save pending
  timer,        \* the executionTimeout of a run is armed
  detached,     \* its engine could not be attached, and nobody waits for its result
  stopper,      \* ExecutionService.stop(): "none", "found", "writing", "done"
  server,       \* "starting", "up", "stopping" (ActiveExecutions.shutdown), "down"
  toRerun,      \* what runEnqueuedExecutions() has found and not run yet
  crashes

runVars == <<phase, execOf, restart, outcome>>
entryVars == <<entry, entryStatus, post, attached>>
abortVars == <<aborted, cancelSave, timer, detached>>
processVars == <<stopper, server, toRerun, crashes>>
vars == <<ccVars, row, runVars, entryVars, abortVars, processVars>>

\* Types of the rows, the runs, the entries and the process (active-executions.ts);
\* the outcome of a run is one of the final statuses.
LifecycleTypeOK ==
  /\ TypeOK
  /\ row \in [Exec -> RowStatus]
  /\ phase \in [Run -> RunPhase]
  /\ execOf \in [Run -> Exec \cup {NoExec}]
  /\ restart \in [Run -> BOOLEAN]
  /\ outcome \in [Run -> {"none", "success", "error", "waiting", "canceled"}]
  /\ entry \in [Exec -> Run \cup {NoRun}]
  /\ entryStatus \in [Run -> {"running", "waiting"}]
  /\ post \in [Run -> {"none", "pending", "settled", "closed"}]
  /\ attached \in [Run -> Run \cup {NoRun}]
  /\ aborted \in [Run -> BOOLEAN]
  /\ cancelSave \in [Run -> BOOLEAN]
  /\ timer \in [Run -> BOOLEAN]
  /\ detached \in [Run -> BOOLEAN]
  /\ stopper \in [Exec -> {"none", "found", "writing", "done"}]
  /\ server \in {"starting", "up", "stopping", "down"}
  /\ toRerun \subseteq Exec
  /\ crashes \in 0..CrashBudget

\* What a process has in memory when it starts.
Nowhere == [r \in Run |-> "idle"]
Nobody == [e \in Exec |-> NoRun]
NotYet == [r \in Run |-> FALSE]

Init ==
  /\ CCInit
  /\ row = [e \in Exec |-> "none"]
  /\ phase = Nowhere
  /\ execOf = [r \in Run |-> NoExec]
  /\ restart = NotYet
  /\ outcome = [r \in Run |-> "none"]
  /\ entry = Nobody
  /\ entryStatus = [r \in Run |-> "running"]
  /\ post = [r \in Run |-> "none"]
  /\ attached = [r \in Run |-> NoRun]
  /\ aborted = NotYet
  /\ cancelSave = NotYet
  /\ timer = NotYet
  /\ detached = NotYet
  /\ stopper = [e \in Exec |-> "none"]
  /\ server = "starting"
  /\ toRerun = {}
  /\ crashes = 0

Alive == server # "down"
Open == server \in {"starting", "up"}

Goto(r, from, to) ==
  /\ Alive
  /\ phase[r] = from
  /\ phase' = [phase EXCEPT ![r] = to]

Write(e, s) == row' = [row EXCEPT ![e] = s]

-----------------------------------------------------------------------------
(* ActiveExecutions.add() *)

\* add() without an id: executionPersistence.create() inserts a row, 'new'.
Create(r, e) ==
  /\ Open /\ row[e] = "none"
  /\ Goto(r, "idle", "created")
  /\ execOf' = [execOf EXCEPT ![r] = e]
  /\ Write(e, "new")
  /\ UNCHANGED <<ccVars, restart, outcome, entryVars, abortVars, processVars>>

\* WaitTracker.startExecution() or a waiting webhook has read a row 'waiting'
\* and calls WorkflowRunner.run() with its id.
RequestResume(r, e) ==
  /\ Open /\ row[e] = "waiting"
  /\ Goto(r, "idle", "created")
  /\ execOf' = [execOf EXCEPT ![r] = e]
  /\ restart' = [restart EXCEPT ![r] = TRUE]
  /\ UNCHANGED <<ccVars, row, outcome, entryVars, abortVars, processVars>>

\* runEnqueuedExecutions() calls WorkflowRunner.run() with the id of a row that
\* was 'new' at startup.
RunEnqueued(r, e) ==
  /\ server = "up" /\ e \in toRerun
  /\ Goto(r, "idle", "created")
  /\ execOf' = [execOf EXCEPT ![r] = e]
  /\ restart' = [restart EXCEPT ![r] = TRUE]
  /\ toRerun' = toRerun \ {e}
  /\ UNCHANGED <<ccVars, row, outcome, entryVars, abortVars, stopper, server, crashes>>

\* await capacityReservation.reserve(...)
Reserve(r) ==
  /\ Goto(r, "created", "reserving")
  /\ Throttle(r, execOf[r])
  /\ UNCHANGED <<row, execOf, restart, outcome, entryVars, abortVars, processVars>>

\* A new execution: setRunning() writes 'running' whatever the row says.
MarkNew(r) ==
  /\ reservation[r] = "acquired" /\ ~restart[r]
  /\ Goto(r, "reserving", "marked")
  /\ Write(execOf[r], "running")

\* updateExistingExecution() without requireStatus.
MarkAnyStatus(r) ==
  /\ reservation[r] = "acquired" /\ restart[r]
  /\ Goto(r, "reserving", "marked")
  /\ Write(execOf[r], "running")

\* updateExistingExecution(..., { requireStatus: 'waiting' }): the write that
\* decides which of two resumptions wins.  No row is matched otherwise.
MarkExisting(r) ==
  /\ reservation[r] = "acquired" /\ restart[r]
  /\ \/ /\ row[execOf[r]] = "waiting"
        /\ Goto(r, "reserving", "marked")
        /\ Write(execOf[r], "running")
     \/ /\ row[execOf[r]] # "waiting"
        /\ Goto(r, "reserving", "refused")
        /\ UNCHANGED row

Mark(r) ==
  /\ MarkNew(r) \/ MarkExisting(r)
  /\ UNCHANGED <<ccVars, execOf, restart, outcome, entryVars, abortVars, processVars>>

\* The catch of add() forgets capacityReservation.release().
RefuseKeepsCapacity(r) ==
  /\ Goto(r, "refused", "done")
  /\ UNCHANGED <<ccVars, row, execOf, restart, outcome, entryVars, abortVars, processVars>>

\* throw new ExecutionAlreadyResumingError, caught by add(), which releases.
Refuse(r) ==
  /\ Goto(r, "refused", "done")
  /\ Release(r)
  /\ UNCHANGED <<row, execOf, restart, outcome, entryVars, abortVars, processVars>>

\* The entry is put into the map, over that of an earlier run if there is one.
AddEntry(r) ==
  /\ Goto(r, "marked", "added")
  /\ entry' = [entry EXCEPT ![execOf[r]] = r]
  /\ post' = [post EXCEPT ![r] = "pending"]
  /\ UNCHANGED <<ccVars, row, execOf, restart, outcome, entryStatus, attached,
                 abortVars, processVars>>

-----------------------------------------------------------------------------
(* WorkflowRunner.run() and runMainProcess() *)

\* The permission error path saves the execution and forgets to finalize it.
DenyWithoutFinalize(r) ==
  /\ Goto(r, "added", "done")
  /\ Write(execOf[r], "error")
  /\ UNCHANGED <<ccVars, execOf, restart, outcome, entryVars, abortVars, processVars>>

\* credentialsPermissionChecker.check() throws: an execution that failed is
\* saved by the hooks and finalized, without any workflow being run.
Deny(r) ==
  /\ Goto(r, "added", "saving")
  /\ outcome' = [outcome EXCEPT ![r] = "error"]
  /\ UNCHANGED <<ccVars, row, execOf, restart, entryVars, abortVars, processVars>>

\* await executionRepository.setRunning(), whatever the row says.
SetRunning(r) ==
  /\ Goto(r, "added", "starting")
  /\ Write(execOf[r], "running")
  /\ UNCHANGED <<ccVars, execOf, restart, outcome, entryVars, abortVars, processVars>>

\* processRunExecutionData() starts the engine; attachWorkflowExecution() hands
\* its PCancelable to the entry and arms the timeout.  Without an entry it
\* throws ExecutionNotFoundError, which processError() drops: the engine goes
\* on, out of reach of stopExecution(), and its end finalizes nothing.
Execute(r) ==
  LET q == entry[execOf[r]]
  IN  /\ Goto(r, "starting", "executing")
      /\ \/ /\ q # NoRun
            /\ attached' = [attached EXCEPT ![q] = r]
            /\ timer' = [timer EXCEPT ![r] = CanTimeOut]
            /\ UNCHANGED detached
         \/ /\ q = NoRun
            /\ detached' = [detached EXCEPT ![r] = TRUE]
            /\ UNCHANGED <<attached, timer>>
      /\ UNCHANGED <<ccVars, row, execOf, restart, outcome, entry, entryStatus,
                     post, aborted, cancelSave, processVars>>

\* A node calls putExecutionToWait(): setStatus(executionId, 'waiting') on the
\* entry.  (It throws when there is none: the node fails, see FinishEngine.)
PutToWait(r) ==
  LET q == entry[execOf[r]]
  IN  /\ Goto(r, "executing", "waiting")
      /\ CanWait /\ ~aborted[r] /\ q # NoRun
      /\ entryStatus' = [entryStatus EXCEPT ![q] = "waiting"]
      /\ UNCHANGED <<ccVars, row, execOf, restart, outcome, entry, post, attached,
                     abortVars, processVars>>

\* processSuccessExecution(): the status of the run.  The soft timeout ends the
\* loop with 'canceled'.  A run that was aborted does not run the hook again.
FinishEngine(r) ==
  /\ \/ /\ ~aborted[r]
        /\ \/ /\ Goto(r, "executing", "saving")
              /\ \E s \in {"success", "error"} \cup (IF CanTimeOut THEN {"canceled"} ELSE {}) :
                   outcome' = [outcome EXCEPT ![r] = s]
           \/ /\ Goto(r, "waiting", "saving")
              /\ outcome' = [outcome EXCEPT ![r] = "waiting"]
     \/ /\ aborted[r]
        /\ Goto(r, "executing", "saved") \/ Goto(r, "waiting", "saved")
        /\ UNCHANGED outcome
  /\ UNCHANGED <<ccVars, row, execOf, restart, entryVars, abortVars, processVars>>

\* shouldNotSave returns without deleting the row of a failed execution.
FinalSaveSkipsErrors(r) ==
  /\ Goto(r, "saving", "saved")
  /\ IF outcome[r] = "error" THEN UNCHANGED row ELSE Write(execOf[r], outcome[r])
  /\ UNCHANGED <<ccVars, execOf, restart, outcome, entryVars, abortVars, processVars>>

\* The workflowExecuteAfter hook writes the final status, whatever the row says.
FinalSave(r) ==
  /\ Goto(r, "saving", "saved")
  /\ Write(execOf[r], outcome[r])
  /\ UNCHANGED <<ccVars, execOf, restart, outcome, entryVars, abortVars, processVars>>

Pending(q) == q # NoRun /\ post[q] = "pending"

\* finalizeExecution(executionId), by the then() of an engine that was attached: it settles
\* the promise of the entry there is.
Complete(r) ==
  LET q == entry[execOf[r]]
  IN  /\ Goto(r, "saved", "done")
      /\ timer' = [timer EXCEPT ![r] = FALSE]
      /\ \/ Pending(q) /\ ~detached[r] /\ post' = [post EXCEPT ![q] = "settled"]
         \/ (~Pending(q) \/ detached[r]) /\ UNCHANGED post
      /\ UNCHANGED <<ccVars, row, execOf, restart, outcome, entry, entryStatus,
                     attached, aborted, cancelSave, detached, processVars>>

\* postExecutePromise.finally() forgets capacityReservation.release().
FinallyKeepsCapacity(q) ==
  /\ Alive
  /\ post[q] = "settled"
  /\ post' = [post EXCEPT ![q] = "closed"]
  /\ entry' = [entry EXCEPT ![execOf[q]] = NoRun]
  /\ UNCHANGED <<ccVars, row, runVars, entryStatus, attached, abortVars, processVars>>

\* postExecutePromise.finally(): the capacity is released; a waiting entry is
\* kept without its engine, any other is deleted by its execution id.
Finally(q) ==
  /\ Alive
  /\ post[q] = "settled"
  /\ post' = [post EXCEPT ![q] = "closed"]
  /\ Release(q)
  /\ \/ /\ entryStatus[q] = "waiting"
        /\ attached' = [attached EXCEPT ![q] = NoRun]
        /\ UNCHANGED entry
     \/ /\ entryStatus[q] # "waiting"
        /\ entry' = [entry EXCEPT ![execOf[q]] = NoRun]
        /\ UNCHANGED attached
  /\ UNCHANGED <<row, runVars, entryStatus, abortVars, processVars>>

-----------------------------------------------------------------------------
(* Stopping an execution *)

\* An engine whose PCancelable has not resolved.
Cancellable(r) ==
  r # NoRun /\ ~aborted[r] /\ phase[r] \in {"executing", "waiting", "saving", "saved"}

\* ActiveExecutions.stopExecution(executionId).  An entry whose status is
\* 'waiting' is only deleted; of any other the engine is cancelled, when there
\* is one and it has not returned, and the promise rejected.
StopExecution(e) ==
  LET q == entry[e]
  IN  \/ q = NoRun /\ UNCHANGED <<entry, post, aborted, cancelSave>>
      \/ /\ q # NoRun /\ entryStatus[q] = "waiting"
         /\ entry' = [entry EXCEPT ![e] = NoRun]
         /\ UNCHANGED <<post, aborted, cancelSave>>
      \/ /\ q # NoRun /\ entryStatus[q] # "waiting"
         /\ \/ /\ Cancellable(attached[q])
               /\ aborted' = [aborted EXCEPT ![attached[q]] = TRUE]
               /\ cancelSave' = [cancelSave EXCEPT ![attached[q]] = TRUE]
            \/ ~Cancellable(attached[q]) /\ UNCHANGED <<aborted, cancelSave>>
         /\ \/ Pending(q) /\ post' = [post EXCEPT ![q] = "settled"]
            \/ ~Pending(q) /\ UNCHANGED post
         /\ UNCHANGED entry

\* onCancel runs the workflowExecuteAfter hook without awaiting it.
CancelSave(r) ==
  /\ Alive /\ cancelSave[r]
  /\ cancelSave' = [cancelSave EXCEPT ![r] = FALSE]
  /\ Write(execOf[r], "canceled")
  /\ UNCHANGED <<ccVars, runVars, entryVars, aborted, timer, detached, processVars>>

\* The executionTimeout fires.
Timeout(r) ==
  /\ Alive /\ timer[r]
  /\ timer' = [timer EXCEPT ![r] = FALSE]
  /\ StopExecution(execOf[r])
  /\ UNCHANGED <<ccVars, row, runVars, entryStatus, attached, detached, processVars>>

\* ExecutionService.stop() reads the row and finds it stoppable.  Bound: one
\* stop of each execution in the life of a process.
StopRead(e) ==
  /\ CanStop /\ Open
  /\ stopper[e] = "none"
  /\ row[e] \in {"new", "waiting", "running"}
  /\ stopper' = [stopper EXCEPT ![e] = "found"]
  /\ UNCHANGED <<ccVars, row, runVars, entryVars, abortVars, server, toRerun, crashes>>

\* stopInRegularMode(), up to the write of the row.
StopAct(e) ==
  /\ Alive /\ stopper[e] = "found"
  /\ stopper' = [stopper EXCEPT ![e] = "writing"]
  /\ \/ /\ Has(e)
        /\ RemoveQueued(e)
        /\ UNCHANGED <<entry, post, aborted, cancelSave>>
     \/ /\ ~Has(e)
        /\ StopExecution(e)
        /\ UNCHANGED ccVars
  /\ UNCHANGED <<row, runVars, entryStatus, attached, timer, detached, server, toRerun,
                 crashes>>

\* stopBeforeRun() or stopDuringRun(): 'canceled', whatever the row says.
StopWrite(e) ==
  /\ Alive /\ stopper[e] = "writing"
  /\ stopper' = [stopper EXCEPT ![e] = "done"]
  /\ Write(e, "canceled")
  /\ UNCHANGED <<ccVars, runVars, entryVars, abortVars, server, toRerun, crashes>>

-----------------------------------------------------------------------------
(* The process *)

\* shutdown() does not disable the concurrency control.
ShutdownKeepsControl ==
  /\ CanShutDown /\ server = "up"
  /\ server' = "stopping"
  /\ UNCHANGED <<ccVars, row, runVars, entryVars, abortVars, stopper, toRerun, crashes>>

\* shutdown() deletes every entry, running or not.
ShutdownForgetsAll ==
  /\ CanShutDown /\ server = "up"
  /\ server' = "stopping"
  /\ isEnabled' = FALSE
  /\ entry' = Nobody
  /\ UNCHANGED <<capacity, queue, reservation, target, row, runVars, entryStatus,
                 post, attached, abortVars, stopper, toRerun, crashes>>

\* ActiveExecutions.shutdown(): the concurrency control is disabled and the
\* waiting entries are deleted.  (removeAll() that follows does nothing, since
\* the service is disabled.)  No request and no timer of WaitTracker comes in
\* any more.
BeginShutdown ==
  /\ CanShutDown /\ server = "up"
  /\ server' = "stopping"
  /\ isEnabled' = FALSE
  /\ entry' = [e \in Exec |->
                 IF entry[e] # NoRun /\ entryStatus[entry[e]] = "waiting"
                 THEN NoRun ELSE entry[e]]
  /\ UNCHANGED <<capacity, queue, reservation, target, row, runVars, entryStatus,
                 post, attached, abortVars, stopper, toRerun, crashes>>

\* The memory of the process is gone.
Forget ==
  /\ phase' = Nowhere
  /\ execOf' = [r \in Run |-> NoExec]
  /\ restart' = NotYet
  /\ outcome' = [r \in Run |-> "none"]
  /\ entry' = Nobody
  /\ entryStatus' = [r \in Run |-> "running"]
  /\ post' = [r \in Run |-> "none"]
  /\ attached' = [r \in Run |-> NoRun]
  /\ aborted' = NotYet
  /\ cancelSave' = NotYet
  /\ timer' = NotYet
  /\ detached' = NotYet
  /\ stopper' = [e \in Exec |-> "none"]
  /\ isEnabled' = (Limited # {} /\ ExecutionsMode # "queue")
  /\ capacity' = [t \in Limited |-> Limit[t]]
  /\ queue' = [t \in Limited |-> <<>>]
  /\ reservation' = [r \in Run |-> "none"]
  /\ target' = [r \in Run |-> NoExec]
  /\ toRerun' = {}
  /\ server' = "down"

\* The loop of shutdown() finds no entry left: stopProcess() exits.
Exit ==
  /\ server = "stopping"
  /\ \A e \in Exec : entry[e] = NoRun
  /\ Forget
  /\ UNCHANGED <<row, crashes>>

\* The process dies, or is killed when its graceful shutdown takes too long.
Crash ==
  /\ Alive /\ crashes < CrashBudget
  /\ crashes' = crashes + 1
  /\ Forget
  /\ UNCHANGED row

\* MessageEventBus.initialize(): every row 'running' is marked 'crashed', but
\* those whose event log has no message about a node (amend() returns null).
Start ==
  /\ server = "down"
  /\ server' = "starting"
  /\ \E dead \in SUBSET {e \in Exec : row[e] = "running"} :
       row' = [e \in Exec |-> IF e \in dead THEN "crashed" ELSE row[e]]
  /\ UNCHANGED <<ccVars, runVars, entryVars, abortVars, stopper, toRerun, crashes>>

\* findAllEnqueuedExecutions(), once the server answers requests.
FindEnqueued ==
  /\ server = "starting"
  /\ server' = "up"
  /\ toRerun' = {e \in Exec : row[e] = "new"}
  /\ UNCHANGED <<ccVars, row, runVars, entryVars, abortVars, stopper, crashes>>

-----------------------------------------------------------------------------
RunStep(r) ==
  \/ Reserve(r) \/ Mark(r) \/ Refuse(r) \/ AddEntry(r)
  \/ Deny(r) \/ SetRunning(r) \/ Execute(r) \/ PutToWait(r)
  \/ FinishEngine(r) \/ FinalSave(r) \/ Complete(r)
  \/ Finally(r) \/ CancelSave(r) \/ Timeout(r)

Next ==
  \/ \E r \in Run, e \in Exec : Create(r, e) \/ RequestResume(r, e) \/ RunEnqueued(r, e)
  \/ \E r \in Run : RunStep(r)
  \/ \E e \in Exec : StopRead(e) \/ StopAct(e) \/ StopWrite(e)
  \/ BeginShutdown \/ Exit \/ Crash \/ Start \/ FindEnqueued

Spec == Init /\ [][Next]_vars

\* A run goes on as long as it can: promises settle, nodes end, the database
\* answers.  Nothing makes requests, stops, timeouts, shutdowns or crashes
\* happen.
Progress(r) ==
  \/ Reserve(r) \/ Mark(r) \/ Refuse(r) \/ AddEntry(r)
  \/ Deny(r) \/ SetRunning(r) \/ Execute(r) \/ FinishEngine(r)
  \/ FinalSave(r) \/ Complete(r)

FairSpec ==
  /\ Spec
  /\ \A r \in Run : WF_vars(Progress(r)) /\ WF_vars(Finally(r))
  /\ WF_vars(Exit)

-----------------------------------------------------------------------------
(* Properties *)

\* From the write of 'running' to the final save.
Underway(r) ==
  phase[r] \in {"marked", "added", "starting", "executing", "waiting", "saving"}

\* Two runs of one execution are never underway together: of two resumptions,
\* or of a resumption and the run that is still going to wait, one is refused
\* (updateExistingExecution with requireStatus, execution.repository.ts).
SingleExecutor ==
  \A r, s \in Run :
    (Underway(r) /\ Underway(s) /\ execOf[r] = execOf[s]) => r = s

\* When every run is over, no capacity is held any more.
Over(r) ==
  /\ phase[r] \in {"idle", "done"} \/ reservation[r] = "removed"
  /\ post[r] # "settled"
CapacityReturned ==
  (\A r \in Run : Over(r)) => \A r \in Run : reservation[r] # "acquired"

\* A row 'running' or 'new' has a run, or a pending save, that will change it:
\* no interleaving of stops, timeouts, waits and saves leaves a zombie.
RowsAreOwned ==
  server # "down" =>
    \A e \in Exec :
      /\ row[e] = "running" =>
           \E r \in Run : execOf[r] = e /\ (Underway(r) \/ cancelSave[r])
      /\ row[e] = "new" =>
           \/ stopper[e] = "writing"
           \/ \E r \in Run :
                /\ execOf[r] = e /\ phase[r] \in {"created", "reserving"}
                /\ reservation[r] # "removed"

\* "removal of active executions will no longer release capacity back, so that
\* throttled executions cannot resume during shutdown" (active-executions.ts).
NoResumptionDuringShutdown ==
  [][server = "stopping" =>
       \A r \in Run : reservation[r] = "queued" => reservation'[r] # "acquired"]_vars

\* A graceful exit interrupts no workflow: the loop of shutdown() has waited for
\* all that were registered, and saved how they ended.
GracefulExit ==
  [][(server = "stopping" /\ server' = "down" /\ crashes' = crashes)
       => \A r \in Run : phase[r] \notin {"starting", "executing", "waiting", "saving"}]_vars

\* A throttled execution gets its turn, or is left to the next process by a
\* shutdown: every end of a run leads to the release that lets it through.
ThrottledIsServed ==
  \A r \in Run :
    reservation[r] = "queued" ~> (reservation[r] # "queued" \/ server = "stopping")

\* A graceful shutdown terminates.
ShutdownCompletes == server = "stopping" ~> server = "down"

\* The status column lives as ExecutionStatus says.
Status == INSTANCE ExecutionStatus WITH status <- row
StatusSpec == Status!Spec

\* "start running any such executions concurrently up to the concurrency limit"
\* (start.ts, runEnqueuedExecutions): add() does not refuse the only run of one.
EnqueuedExecutionsRun ==
  \A r \in Run :
    (phase[r] = "refused" /\ row[execOf[r]] = "new")
      => \E s \in Run \ {r} : execOf[s] = execOf[r]
=============================================================================
