---------------------------- MODULE JobQueueProofs ----------------------------
(***************************************************************************)
(* What queue mode guarantees for every set of executions, every size of   *)
(* the recovery's batch and any number of crashes, stalled jobs and        *)
(* changes of leadership.  TLC checks the same formulas on the instance of *)
(* MCJobQueue.                                                             *)
(***************************************************************************)
EXTENDS JobQueue, FiniteSetTheorems, TLAPS

(***************************************************************************)
(* The inductive invariant, by execution.                                  *)
(***************************************************************************)

\* A row, a stop of it and a place in a recovery exist once run() has created the execution;
\* a stop that has something to cancel comes after the attachment.
RowsAreCreated(e) ==
    /\ enqueuing[e] = "no" <=> row[e] = "none"
    /\ stopping[e] # "no" => row[e] # "none"
    /\ stopping[e] \in {"both", "job"} => enqueuing[e] \notin {"no", "created", "added"}
    /\ \A t \in Term : e \in stored[t] => row[e] # "none"

\* addJob() is called once, so a job is waiting once: whoever has left the queue does not
\* return to it, and the code has not started before processJob() starts it.
JobIsSingle(e) ==
    /\ enqueuing[e] \in {"no", "created"} =>
            /\ job[e] = "none" /\ worker[e] = "no"
            /\ outcome[e] = "none" /\ starts[e] = 0
    /\ job[e] = "waiting" => worker[e] = "no" /\ starts[e] = 0
    /\ outcome[e] # "none" => job[e] = "none"
    /\ worker[e] \in {"dequeued", "fetched", "starting"} => starts[e] = 0
    /\ worker[e] \in {"running", "cancelling"} => starts[e] = 1
    /\ starts[e] <= 1

\* Only the code that has run makes an execution successful, and processError() has seen
\* that it was not, unless Bull gave up a worker that still runs it.
SuccessIsEarned(e) ==
    /\ row[e] = "success" => /\ starts[e] = 1
                             /\ worker[e] \notin {"running", "cancelling"}
    /\ worker[e] # "no" /\ job[e] # "active" => e \in stalled
    /\ enqueuing[e] = "failed" => outcome[e] = "failed" /\ (row[e] # "success" \/ e \in stalled)

\* As long as nothing crashes or stalls: a job is active while a worker has it, a job that
\* ended has left a final status, and a job is missing only because a stop has removed it,
\* which has written the row, or will.
NothingIsLost(e) ==
    faults = 0 =>
        /\ running
        /\ job[e] = "active" <=> worker[e] # "no"
        /\ outcome[e] \in {"completed", "cancelled"} => row[e] \in Final
        /\ worker[e] \in {"saved", "savedCanceled"} => row[e] \in Final
        /\ enqueuing[e] = "done" => outcome[e] # "none" /\ row[e] \in Final
        /\ enqueuing[e] = "positive" => starts[e] = 1 /\ row[e] \in Final
        /\ stopping[e] = "job" /\ job[e] = "waiting" => row[e] \in Final
        /\ job[e] = "none" /\ outcome[e] = "none" /\ enqueuing[e] \in {"added", "attached"} =>
                \/ stopping[e] = "row"
                \/ stopping[e] = "done" /\ row[e] \in Final

\* What the proofs need to know of one execution.
ExecutionInv(e) ==
    RowsAreCreated(e) /\ JobIsSingle(e) /\ SuccessIsEarned(e) /\ NothingIsLost(e)

\* The invariant: of every execution, with well-typed state.
Typing == TypeOK /\ IsFiniteSet(stalled)
QueueInvariant == Typing /\ \A e \in Execution : ExecutionInv(e)

(***************************************************************************)
(* Typing.                                                                 *)
(***************************************************************************)

\* A job that stalls is one more fault, so the stalled jobs are at most the faults: counting
\* the executions takes one step of Bull at a time.
LEMMA StalledFacts ==
  ASSUME Typing, NEW e \in Execution, faults < MaxFaults
  PROVE  /\ IsFiniteSet(stalled \cup {e})
         /\ faults + 1 \in Cardinality(stalled \cup {e}) .. MaxFaults
         /\ faults + 1 \in Cardinality(stalled) .. MaxFaults
<1>1. IsFiniteSet(stalled) /\ Cardinality(stalled) \in Nat /\ faults \in Cardinality(stalled) .. MaxFaults
  BY FS_CardinalityType DEF Typing, TypeOK
<1>2. /\ IsFiniteSet(stalled \cup {e})
      /\ \/ Cardinality(stalled \cup {e}) = Cardinality(stalled)
         \/ Cardinality(stalled \cup {e}) = Cardinality(stalled) + 1
  BY <1>1, FS_AddElement
<1> QED
  BY <1>1, <1>2, QueueAssumption

\* setupQueue() with nothing in the queue and no execution in the database.
LEMMA TypingInit == Init => Typing
<1> SUFFICES ASSUME Init PROVE Typing
  OBVIOUS
<1>1. 1 \in Term
  BY QueueAssumption DEF Term
<1>2. IsFiniteSet(stalled) /\ Cardinality(stalled) = 0
  BY FS_EmptySet DEF Init
<1>3. faults \in Cardinality(stalled) .. MaxFaults
  BY <1>2, QueueAssumption DEF Init
<1> QED
  BY <1>1, <1>2, <1>3 DEF Init, Typing, TypeOK

\* Every step of the main process, the worker, Bull and the recovery keeps the types.
LEMMA TypingStep == Typing /\ [Next]_vars => Typing'
<1> SUFFICES ASSUME Typing, [Next]_vars PROVE Typing'
  OBVIOUS
<1> USE DEF InProgress, Final
<1>1. ASSUME NEW e \in Execution,
             \/ Create(e) \/ MainStep(e) \/ AddJobFails(e) \/ DatabaseFails(e)
             \/ Stop(e) \/ StopStep(e)
      PROVE  Typing'
  BY <1>1 DEF Typing, TypeOK, Create, MainStep, AddJob, Attach, JobCompleted, JobFailed,
              WriteError, AddJobFails, DatabaseFails, ProcessError, Stop, StopStep, StopJob, StopRow,
              queue, recover, counts
<1>2. ASSUME NEW e \in Execution,
             WorkerStep(e) \/ Throw(e) \/ Abort(e)
      PROVE  Typing'
  BY <1>2 DEF Typing, TypeOK, WorkerStep, Dequeue, Fetch, SetRunning, StartRun, EndRun, EndJob,
              Throw, Abort, Settle, enqueue, queue, recover, counts
<1>3. ASSUME NEW e \in Execution, Stalled(e)
      PROVE  Typing'
  <2>1. faults' \in Cardinality(stalled') .. MaxFaults /\ IsFiniteSet(stalled') /\ stalled' \subseteq Execution
    BY <1>3, StalledFacts DEF Typing, TypeOK, Stalled, counts
  <2> QED
    BY <1>3, <2>1 DEF Typing, TypeOK, Stalled, enqueue, recover
<1>4. CASE WorkerCrash \/ MainCrash
  <2>1. faults' \in Cardinality(stalled') .. MaxFaults /\ IsFiniteSet(stalled') /\ stalled' = stalled
    <3>1. faults + 1 \in Cardinality(stalled) .. MaxFaults
      <4>1. faults < MaxFaults /\ Cardinality(stalled) \in Nat
        BY <1>4, FS_CardinalityType DEF WorkerCrash, MainCrash, Typing
      <4> QED
        BY <4>1, QueueAssumption DEF Typing, TypeOK
    <3> QED
      BY <1>4, <3>1 DEF WorkerCrash, MainCrash, Typing
  <2>2. CASE WorkerCrash
    BY <2>1, <2>2 DEF Typing, TypeOK, WorkerCrash, enqueue, queue, recover
  <2>3. CASE MainCrash
    BY <2>1, <2>3 DEF Typing, TypeOK, MainCrash, queue
  <2> QED
    BY <1>4, <2>2, <2>3
<1>5. CASE MainStart
  BY <1>5 DEF Typing, TypeOK, MainStart, enqueue, queue, counts
<1>6. ASSUME NEW t \in Term, RecoverRead(t) \/ RecoverCheck(t) \/ RecoverMark(t)
      PROVE  Typing'
  <2>1. CASE RecoverRead(t)
    BY <2>1 DEF Typing, TypeOK, RecoverRead, enqueue, queue, counts
  <2>2. CASE RecoverCheck(t)
    BY <2>2 DEF Typing, TypeOK, RecoverCheck, enqueue, queue, counts
  <2>3. CASE RecoverMark(t)
    BY <2>3 DEF Typing, TypeOK, RecoverMark, enqueue, queue, counts
  <2> QED
    BY <1>6, <2>1, <2>2, <2>3
<1>7. CASE Stepdown
  BY <1>7 DEF Typing, TypeOK, Stepdown, enqueue, queue, counts
<1>8. CASE Takeover
  <2>1. term + 1 \in Term
    BY <1>8, QueueAssumption DEF Takeover, Typing, TypeOK, Term
  <2> QED
    BY <1>8, <2>1 DEF Typing, TypeOK, Takeover, enqueue, queue, counts
<1>9. CASE UNCHANGED vars
  BY <1>9 DEF Typing, TypeOK, vars, enqueue, queue, recover, counts
<1> QED
  BY <1>1, <1>2, <1>3, <1>4, <1>5, <1>6, <1>7, <1>8, <1>9 DEF Next, Recover

\* Rows, jobs, workers, recoveries and counters have their types in every state.
THEOREM TypeCorrect == Spec => []TypeOK
<1>1. Spec => []Typing
  BY TypingInit, TypingStep, PTL DEF Spec
<1>2. Typing => TypeOK
  BY DEF Typing
<1> QED
  BY <1>1, <1>2, PTL

(***************************************************************************)
(* The invariant is inductive.  A step is about one execution; the others  *)
(* are left alone, at most with more faults behind them.                   *)
(***************************************************************************)

\* Nothing of the execution changes but what everybody sees: the faults grow.
Untouched(f) ==
    /\ row'[f] = row[f] /\ enqueuing'[f] = enqueuing[f] /\ stopping'[f] = stopping[f]
    /\ job'[f] = job[f] /\ outcome'[f] = outcome[f] /\ worker'[f] = worker[f]
    /\ starts'[f] = starts[f]
    /\ \A t \in Term : f \in stored'[t] => f \in stored[t]
    /\ running' = running \/ faults' # 0
    /\ f \in stalled => f \in stalled'
    /\ faults' = 0 => faults = 0

\* An execution that a step leaves alone keeps its invariant.
LEMMA UntouchedKeeps ==
  ASSUME NEW f \in Execution, ExecutionInv(f), Untouched(f)
  PROVE  ExecutionInv(f)'
BY DEF Untouched, ExecutionInv, RowsAreCreated, JobIsSingle, SuccessIsEarned, NothingIsLost,
       Final

\* run() has not been called for any execution, and no code has started.
LEMMA InvariantInit == Init => QueueInvariant
<1> SUFFICES ASSUME Init, NEW e \in Execution PROVE ExecutionInv(e)
  BY TypingInit DEF QueueInvariant
<1> QED
  BY DEF Init, ExecutionInv, RowsAreCreated, JobIsSingle, SuccessIsEarned, NothingIsLost

\* The steps of run(), enqueueExecution() and processError() in the main process.
LEMMA MainKeeps ==
  ASSUME QueueInvariant, NEW e \in Execution, NEW f \in Execution,
         Create(e) \/ MainStep(e) \/ AddJobFails(e) \/ DatabaseFails(e)
  PROVE  ExecutionInv(f)'
<1>1. CASE f # e
  <2>1. Untouched(f)
    BY <1>1 DEF QueueInvariant, Typing, TypeOK, Untouched, Create, MainStep, AddJob, Attach,
                JobCompleted, JobFailed, WriteError, AddJobFails, DatabaseFails,
                ProcessError, queue, recover, counts
  <2> QED
    BY <2>1, UntouchedKeeps DEF QueueInvariant
<1>2. CASE f = e
  <2> USE <1>2 DEF QueueInvariant, Typing, TypeOK, ExecutionInv, queue, recover, counts
  <2>1. RowsAreCreated(e)'
    BY DEF RowsAreCreated, Create, MainStep, AddJob, Attach,
           JobCompleted, JobFailed, WriteError, AddJobFails, DatabaseFails, ProcessError
  <2>2. JobIsSingle(e)'
    BY DEF RowsAreCreated, JobIsSingle, Create, MainStep, AddJob, Attach,
           JobCompleted, JobFailed, WriteError, AddJobFails, DatabaseFails, ProcessError
  <2>3. SuccessIsEarned(e)'
    BY DEF JobIsSingle, SuccessIsEarned, Create, MainStep, AddJob, Attach,
           JobCompleted, JobFailed, WriteError, AddJobFails, DatabaseFails, ProcessError
  <2>4. NothingIsLost(e)'
    BY DEF RowsAreCreated, JobIsSingle, SuccessIsEarned, NothingIsLost, Final, Create, MainStep,
           AddJob, Attach, JobCompleted, JobFailed, WriteError, AddJobFails, DatabaseFails,
           ProcessError
  <2> QED
    BY <2>1, <2>2, <2>3, <2>4
<1> QED
  BY <1>1, <1>2

\* The steps of stop() by a user, and of the abort message that it may send.
LEMMA StopKeeps ==
  ASSUME QueueInvariant, NEW e \in Execution, NEW f \in Execution,
         Stop(e) \/ StopStep(e) \/ Abort(e)
  PROVE  ExecutionInv(f)'
<1>1. CASE f # e
  <2>1. Untouched(f)
    BY <1>1 DEF QueueInvariant, Typing, TypeOK, Untouched, Stop, StopStep, StopJob, StopRow,
                Abort, enqueue, queue, recover, counts
  <2> QED
    BY <2>1, UntouchedKeeps DEF QueueInvariant
<1>2. CASE f = e
  <2> USE <1>2 DEF QueueInvariant, Typing, TypeOK, ExecutionInv, enqueue, queue, recover, counts
  <2>1. RowsAreCreated(e)'
    BY DEF RowsAreCreated, InProgress, Stop, StopStep, StopJob, StopRow, Abort
  <2>2. JobIsSingle(e)'
    BY DEF JobIsSingle, Stop, StopStep, StopJob, StopRow, Abort
  <2>3. SuccessIsEarned(e)'
    BY DEF JobIsSingle, SuccessIsEarned, Stop, StopStep, StopJob, StopRow, Abort
  <2>4. NothingIsLost(e)'
    BY DEF JobIsSingle, NothingIsLost, Final, InProgress, Stop, StopStep, StopJob, StopRow, Abort
  <2> QED
    BY <2>1, <2>2, <2>3, <2>4
<1> QED
  BY <1>1, <1>2

\* The steps of processJob() in a worker; a job that Bull has taken from it keeps the outcome
\* that Bull gave it.
LEMMA WorkerKeeps ==
  ASSUME QueueInvariant, NEW e \in Execution, NEW f \in Execution,
         WorkerStep(e) \/ Throw(e)
  PROVE  ExecutionInv(f)'
<1>1. CASE f # e
  <2>1. Untouched(f)
    BY <1>1 DEF QueueInvariant, Typing, TypeOK, Untouched, WorkerStep, Dequeue, Fetch, SetRunning,
                StartRun, EndRun, EndJob, Throw, Settle, enqueue, queue, recover, counts
  <2> QED
    BY <2>1, UntouchedKeeps DEF QueueInvariant
<1>2. CASE f = e
  <2> USE <1>2 DEF QueueInvariant, Typing, TypeOK, ExecutionInv, enqueue, queue, recover, counts
  <2>1. RowsAreCreated(e)'
    BY DEF RowsAreCreated, JobIsSingle, WorkerStep, Dequeue, Fetch, SetRunning, StartRun, EndRun,
           EndJob, Throw, Settle
  <2>2. JobIsSingle(e)'
    BY DEF JobIsSingle, WorkerStep, Dequeue, Fetch, SetRunning, StartRun, EndRun,
           EndJob, Throw, Settle
  <2>3. SuccessIsEarned(e)'
    BY DEF JobIsSingle, SuccessIsEarned, WorkerStep, Dequeue, Fetch, SetRunning, StartRun, EndRun,
           EndJob, Throw, Settle
  <2>4. NothingIsLost(e)'
    BY DEF JobIsSingle, NothingIsLost, Final, WorkerStep, Dequeue, Fetch, SetRunning, StartRun,
           EndRun, EndJob, Throw, Settle
  <2> QED
    BY <2>1, <2>2, <2>3, <2>4
<1> QED
  BY <1>1, <1>2

\* Bull gives up a job: with maxStalledCount 0 it fails and does not come back.
LEMMA StalledKeeps ==
  ASSUME QueueInvariant, NEW e \in Execution, NEW f \in Execution, Stalled(e)
  PROVE  ExecutionInv(f)'
<1>0. faults \in Nat /\ faults' \in Nat /\ (faults' = 0 => faults = 0)
  BY FS_CardinalityType DEF QueueInvariant, Typing, TypeOK, Stalled, counts
<1>1. CASE f # e
  <2>1. Untouched(f)
    BY <1>0, <1>1 DEF QueueInvariant, Typing, TypeOK, Untouched, Stalled, enqueue, recover, counts
  <2> QED
    BY <2>1, UntouchedKeeps DEF QueueInvariant
<1>2. CASE f = e
  BY <1>0, <1>2 DEF QueueInvariant, Typing, TypeOK, ExecutionInv, RowsAreCreated, JobIsSingle,
                    SuccessIsEarned, NothingIsLost, Final, Stalled, enqueue, recover, counts
<1> QED
  BY <1>1, <1>2

\* A crash of the worker or of the main process leaves rows and jobs as they are, and is a
\* fault; the next main process starts with an empty memory.
LEMMA CrashKeeps ==
  ASSUME QueueInvariant, NEW f \in Execution, WorkerCrash \/ MainCrash \/ MainStart
  PROVE  ExecutionInv(f)'
<1>1. CASE WorkerCrash \/ MainCrash
  <2>1. faults' # 0
    BY <1>1, FS_CardinalityType DEF QueueInvariant, Typing, TypeOK, WorkerCrash, MainCrash
  <2>2. CASE WorkerCrash
    BY <2>1, <2>2 DEF QueueInvariant, Typing, TypeOK, ExecutionInv, RowsAreCreated, JobIsSingle,
                      SuccessIsEarned, NothingIsLost, WorkerCrash, enqueue, queue, recover
  <2>3. CASE MainCrash
    BY <2>1, <2>3 DEF QueueInvariant, Typing, TypeOK, ExecutionInv, RowsAreCreated, JobIsSingle,
                      SuccessIsEarned, NothingIsLost, MainCrash, queue
  <2> QED
    BY <1>1, <2>2, <2>3
<1>2. CASE MainStart
  BY <1>2 DEF QueueInvariant, ExecutionInv, RowsAreCreated, JobIsSingle, SuccessIsEarned,
              NothingIsLost, Final, MainStart, enqueue, queue, counts
<1> QED
  BY <1>1, <1>2

\* A recovery takes rows that exist, and markAsCrashed() makes them final; the leadership has
\* no part in it.
LEMMA RecoveryKeeps ==
  ASSUME QueueInvariant, NEW f \in Execution, Recover \/ Stepdown \/ Takeover
  PROVE  ExecutionInv(f)'
<1> USE DEF QueueInvariant, Typing, TypeOK, enqueue, queue, counts
<1>1. CASE Stepdown \/ Takeover
  <2>1. Untouched(f)
    BY <1>1 DEF Untouched, Stepdown, Takeover
  <2> QED
    BY <2>1, UntouchedKeeps
<1>2. ASSUME NEW t \in Term, RecoverRead(t)
      PROVE  ExecutionInv(f)'
  BY <1>2 DEF RecoverRead, ExecutionInv, RowsAreCreated, JobIsSingle, SuccessIsEarned,
              NothingIsLost, InProgress, Final
<1>3. ASSUME NEW t \in Term, RecoverCheck(t)
      PROVE  ExecutionInv(f)'
  <2>1. Untouched(f)
    BY <1>3 DEF Untouched, RecoverCheck
  <2> QED
    BY <2>1, UntouchedKeeps
<1>4. ASSUME NEW t \in Term, RecoverMark(t)
      PROVE  ExecutionInv(f)'
  <2>1. CASE f \notin stored[t]
    <3>1. Untouched(f)
      BY <1>4, <2>1 DEF Untouched, RecoverMark
    <3> QED
      BY <3>1, UntouchedKeeps
  <2>2. CASE f \in stored[t]
    BY <1>4, <2>2 DEF RecoverMark, ExecutionInv, RowsAreCreated, JobIsSingle, SuccessIsEarned,
                      NothingIsLost, Final
  <2> QED
    BY <2>1, <2>2
<1> QED
  BY <1>1, <1>2, <1>3, <1>4 DEF Recover

\* The invariant of all executions holds on, whoever moves.
LEMMA InvariantStep == QueueInvariant /\ [Next]_vars => QueueInvariant'
<1> SUFFICES ASSUME QueueInvariant, [Next]_vars, NEW f \in Execution
             PROVE  ExecutionInv(f)'
  BY TypingStep DEF QueueInvariant
<1>1. CASE UNCHANGED vars
  <2>1. Untouched(f)
    BY <1>1 DEF Untouched, vars, enqueue, queue, recover, counts
  <2> QED
    BY <2>1, UntouchedKeeps DEF QueueInvariant
<1>2. CASE Next
  BY <1>2, MainKeeps, StopKeeps, WorkerKeeps, StalledKeeps, CrashKeeps, RecoveryKeeps DEF Next
<1> QED
  BY <1>1, <1>2

\* The invariant holds in every state.
LEMMA InvariantAlways == Spec => []QueueInvariant
  BY InvariantInit, InvariantStep, PTL DEF Spec

(***************************************************************************)
(* What queue mode promises.                                               *)
(***************************************************************************)

\* processJob() starts the code of an execution at most once, whatever crashes, stalls or is
\* recovered, and however many terms and recoveries there are.
THEOREM ExecutionsRunOnce == Spec => []RunsOnce
<1>1. QueueInvariant => RunsOnce
  BY DEF QueueInvariant, ExecutionInv, JobIsSingle, RunsOnce
<1> QED
  BY <1>1, InvariantAlways, PTL

\* Without faults an execution in progress is in the hands of the main process, the queue, a
\* worker or a stop, so a dangling execution of recoverFromQueue() is one that a fault left.
THEOREM NothingDangles == Spec => []InProgressIsHeld
<1>1. ASSUME QueueInvariant, NEW e \in Execution, row[e] \in InProgress, faults = 0,
             job[e] = "none", worker[e] = "no", stopping[e] # "row",
             enqueuing[e] \notin {"created", "refused", "failed", "dropped"},
             ~(enqueuing[e] = "abandoned" /\ outcome[e] # "completed")
      PROVE  outcome[e] = "failed" /\ enqueuing[e] \in {"added", "attached"}
  BY <1>1 DEF QueueInvariant, Typing, TypeOK, ExecutionInv, RowsAreCreated, NothingIsLost,
              InProgress, Final
<1>2. ASSUME QueueInvariant
      PROVE  InProgressIsHeld
  <2> SUFFICES ASSUME NEW e \in Execution, row[e] \in InProgress, ~(faults > 0)
               PROVE  \/ running /\ enqueuing[e] \in {"created", "refused", "failed"}
                      \/ enqueuing[e] = "dropped"
                      \/ enqueuing[e] = "abandoned" /\ outcome[e] # "completed"
                      \/ job[e] # "none" \/ worker[e] # "no"
                      \/ outcome[e] = "failed" /\ enqueuing[e] \in {"added", "attached"}
                      \/ stopping[e] = "row"
    BY DEF InProgressIsHeld
  <2>1. faults = 0
    BY <1>2, FS_CardinalityType DEF QueueInvariant, Typing, TypeOK
  <2>2. running
    BY <1>2, <2>1 DEF QueueInvariant, ExecutionInv, NothingIsLost
  <2> QED
    BY <1>1, <1>2, <2>1, <2>2
<1> QED
  BY <1>2, InvariantAlways, PTL

\* A final status changes only by a writer that no longer looks: a recovery, a stop, a failed
\* enqueuing, a worker that Bull gave up.  The row of a successful execution is safe from the
\* worker that processes its job and from processError().
THEOREM FinalStatusIsKept == Spec => FinalStatusSticks
<1> DEFINE Excused(e) ==
        \/ \E t \in Term : e \in stored[t]
        \/ stopping[e] \in {"both", "row"}
        \/ enqueuing[e] = "refused" \/ e \in stalled
        \/ row[e] # "success" /\ (enqueuing[e] = "failed" \/ worker[e] # "no")
<1>1. ASSUME QueueInvariant, Next, NEW e \in Execution, row[e] \in Final, row'[e] # row[e]
      PROVE  Excused(e)
  <2> USE <1>1 DEF QueueInvariant, Typing, TypeOK, enqueue, queue, recover, counts
  <2>1. ASSUME NEW f \in Execution, Create(f) \/ MainStep(f) \/ AddJobFails(f) \/ DatabaseFails(f)
        PROVE  Excused(e)
    <3>1. e = f /\ WriteError(f)
      BY <2>1 DEF Create, MainStep, AddJob, Attach, JobCompleted, JobFailed, WriteError,
                  AddJobFails, DatabaseFails, ProcessError, Final
    <3> QED
      BY <3>1 DEF WriteError, ExecutionInv, SuccessIsEarned
  <2>2. ASSUME NEW f \in Execution, Stop(f) \/ StopStep(f) \/ Abort(f)
        PROVE  Excused(e)
    BY <2>2 DEF Stop, StopStep, StopJob, StopRow, Abort
  <2>3. ASSUME NEW f \in Execution, WorkerStep(f) \/ Throw(f)
        PROVE  Excused(e)
    <3>1. e = f /\ (SetRunning(f) \/ EndRun(f))
      BY <2>3 DEF WorkerStep, Dequeue, Fetch, SetRunning, StartRun, EndRun, EndJob, Throw
    <3> QED
      BY <3>1 DEF SetRunning, EndRun, ExecutionInv, JobIsSingle, SuccessIsEarned
  <2>4. ASSUME NEW f \in Execution, Stalled(f)
        PROVE  FALSE
    BY <2>4 DEF Stalled
  <2>5. CASE WorkerCrash \/ MainCrash \/ MainStart \/ Stepdown \/ Takeover
    BY <2>5 DEF WorkerCrash, MainCrash, MainStart, Stepdown, Takeover
  <2>6. CASE Recover
    BY <2>6 DEF Recover, RecoverRead, RecoverCheck, RecoverMark
  <2> QED
    BY <2>1, <2>2, <2>3, <2>4, <2>5, <2>6 DEF Next
<1>2. QueueInvariant /\ [Next]_vars =>
        [\A e \in Execution : row[e] \in Final /\ row'[e] # row[e] => Excused(e)]_vars
  BY <1>1
<1> QED
  BY <1>2, InvariantAlways, PTL DEF Spec, FinalStatusSticks
===============================================================================
