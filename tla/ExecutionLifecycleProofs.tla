----------------------- MODULE ExecutionLifecycleProofs -----------------------
(***************************************************************************)
(* What regular mode guarantees for every set of executions and runs, every *)
(* limit, and any number of crashes.  Each theorem names the options it     *)
(* depends on; the others may have any value.  TLC checks the same formulas *)
(* on the instances of MCExecutionLifecycle.                                *)
(***************************************************************************)
EXTENDS ExecutionLifecycle, ConcurrencyControlProofs

(***************************************************************************)
(* The invariants.                                                         *)
(***************************************************************************)

\* Types, the concurrency control, what a run is about and what it will save.
Typing ==
  /\ LifecycleTypeOK
  /\ CCInvariant
  /\ \A r \in Run : phase[r] # "idle" => execOf[r] \in Exec
  /\ \A r \in Run : phase[r] = "saving" => outcome[r] # "none"

\* A call of add() without an id that has not written 'running' yet.
Fresh(r) == ~restart[r] /\ phase[r] \in {"created", "reserving"}

\* A run is about a row there is; add() without an id makes a row of its own; while a run is
\* underway the row does not say 'waiting', so no resumption gets in; and before the first run
\* of an execution has marked its row, nobody else may.
OneRunAtATime ==
  /\ \A r \in Run : phase[r] = "idle" => ~restart[r]
  /\ \A r \in Run : phase[r] # "idle" => row[execOf[r]] # "none"
  /\ \A e \in toRerun : row[e] # "none"
  /\ \A r \in Run : Underway(r) => row[execOf[r]] # "waiting"
  /\ \A r \in Run : Fresh(r) => row[execOf[r]] \in {"new", "canceled"}
  /\ \A r, s \in Run :
       /\ phase[r] # "idle" /\ ~restart[r] /\ phase[s] # "idle" /\ ~restart[s]
       /\ execOf[r] = execOf[s]
       => r = s
  /\ \A r, s \in Run : Fresh(r) /\ Underway(s) => execOf[r] # execOf[s]
  /\ SingleExecutor

\* The reservation of a run is made by its call of add(), for its execution.
ReservedByRuns ==
  \A r \in Run :
    /\ phase[r] \in {"idle", "created"} => reservation[r] = "none"
    /\ reservation[r] # "none" => target[r] = execOf[r]

\* In the life of one process: who owns the rows 'running' and 'new'.  The engine of a run
\* that was aborted no longer saves it; onCancel does, and then the row does not say
\* 'running' any more.
OwnersOfRows ==
  /\ server \in {"starting", "up"}
  /\ \A r \in Run : cancelSave[r] => aborted[r]
  /\ \A r \in Run : aborted[r] =>
       phase[r] \in {"executing", "waiting", "saving", "saved", "done"}
  /\ \A r \in Run : aborted[r] /\ ~cancelSave[r] /\ Underway(r) => row[execOf[r]] # "running"
  /\ \A e \in Exec :
       /\ row[e] = "running" =>
            \E r \in Run : execOf[r] = e /\ (Underway(r) \/ cancelSave[r])
       /\ row[e] = "new" =>
            \/ stopper[e] = "writing"
            \/ \E r \in Run : execOf[r] = e /\ Fresh(r) /\ reservation[r] # "removed"

\* Between its entry and the end of its run.
Registered(r) == phase[r] \in {"added", "starting", "executing", "saving", "saved"}

\* Without Wait nodes no row, no entry and no run ever waits.
NobodyWaits ==
  /\ \A e \in Exec : row[e] # "waiting"
  /\ \A r \in Run : outcome[r] # "waiting" /\ phase[r] # "waiting" /\ entryStatus[r] # "waiting"

\* Then only the first run of an execution is registered; its promise is pending no longer
\* than the entry is its own, settles before the run is done, and then gives the capacity back.
\* An engine that found no entry to be attached to has lost the promise already.
EntryOfRun(r) ==
  /\ phase[r] = "marked" \/ Registered(r) => ~restart[r]
  /\ Registered(r) => post[r] # "none"
  /\ post[r] # "none" => ~restart[r] /\ (Registered(r) \/ phase[r] = "done")
  /\ post[r] = "pending" => Registered(r) /\ entry[execOf[r]] = r
  /\ post[r] = "closed" => reservation[r] \notin {"none", "queued", "acquired"}
  /\ phase[r] \in {"marked", "refused", "done"} \/ Registered(r) =>
       reservation[r] \notin {"none", "queued"}
  /\ phase[r] = "done" /\ reservation[r] = "acquired" => post[r] = "settled"
  /\ detached[r] => post[r] # "pending" /\ phase[r] \in {"executing", "saving", "saved", "done"}

\* Of all runs and executions: the map names runs, whose promises exist.
EntriesOfRuns ==
  /\ NobodyWaits
  /\ \A r \in Run : EntryOfRun(r)
  /\ \A e \in Exec : entry[e] # NoRun => execOf[entry[e]] = e /\ post[entry[e]] # "none"

\* Without stops and timeouts nothing disturbs a run.
Undisturbed ==
  /\ \A e \in Exec : stopper[e] = "none"
  /\ \A r \in Run : ~timer[r] /\ ~aborted[r] /\ ~cancelSave[r]

\* ... its promise is pending as long as it is registered ...
PromisesArePending == \A r \in Run : Registered(r) => post[r] = "pending"

\* ... and the row follows its run.
RowsFollowRuns ==
  /\ server = "down" => \A r \in Run : phase[r] = "idle"
  /\ \A r \in Run : Underway(r) => row[execOf[r]] = "running"
  /\ \A r \in Run : Fresh(r) => row[execOf[r]] = "new"
  /\ \A r \in Run : phase[r] = "saving" => outcome[r] \in {"success", "error", "waiting"}

\* ActiveExecutions.shutdown() disables the concurrency control first.
DisabledInShutdown == server = "stopping" => ~isEnabled

(***************************************************************************)
(* Typing, and the concurrency control within the process.                 *)
(***************************************************************************)

\* What the process does to the concurrency control is what the service offers, or the
\* constructor of the next process.
LEMMA ControlStep == Typing /\ [Next]_vars => [CCNext]_ccVars \/ CCInit'
<1> SUFFICES ASSUME Typing, [Next]_vars PROVE [CCNext]_ccVars \/ CCInit'
  OBVIOUS
<1>1. ASSUME NEW r \in Run, NEW e \in Exec, Create(r, e) \/ RequestResume(r, e) \/ RunEnqueued(r, e)
      PROVE  UNCHANGED ccVars
  BY <1>1 DEF Create, RequestResume, RunEnqueued
<1>2. ASSUME NEW r \in Run, Reserve(r)
      PROVE  CCNext
  <2>1. execOf[r] \in Exec
    BY <1>2 DEF Typing, Reserve, Goto
  <2> QED
    BY <1>2, <2>1 DEF Reserve, CCNext, Run
<1>3. ASSUME NEW r \in Run, Refuse(r) \/ Finally(r)
      PROVE  CCNext
  BY <1>3 DEF Refuse, Finally, CCNext, Run
<1>4. ASSUME NEW r \in Run,
             \/ Mark(r) \/ AddEntry(r) \/ Deny(r) \/ SetRunning(r) \/ Execute(r) \/ PutToWait(r)
             \/ FinishEngine(r) \/ FinalSave(r) \/ Complete(r) \/ CancelSave(r) \/ Timeout(r)
      PROVE  UNCHANGED ccVars
  BY <1>4 DEF Mark, AddEntry, Deny, SetRunning, Execute, PutToWait, FinishEngine, FinalSave,
              Complete, CancelSave, Timeout
<1>5. ASSUME NEW e \in Exec, StopRead(e) \/ StopAct(e) \/ StopWrite(e)
      PROVE  [CCNext]_ccVars
  BY <1>5 DEF StopRead, StopAct, StopWrite, CCNext
<1>6. CASE BeginShutdown
  BY <1>6 DEF BeginShutdown, CCNext, Disable, ccVars, Typing, CCInvariant, TypeOK
<1>7. CASE Exit \/ Crash
  BY <1>7 DEF Exit, Crash, Forget, CCInit, Run
<1>8. CASE Start \/ FindEnqueued \/ UNCHANGED vars
  BY <1>8 DEF Start, FindEnqueued, vars
<1> QED
  BY <1>1, <1>2, <1>3, <1>4, <1>5, <1>6, <1>7, <1>8 DEF Next, RunStep

\* So its invariant, proved for the service alone, holds in the process, across restarts.
LEMMA ControlKept == Typing /\ [Next]_vars => CCInvariant'
<1>1. CCInit' => CCInvariant'
  BY InitInvariant, PTL
<1>2. Typing => CCInvariant
  BY DEF Typing
<1> QED
  BY <1>1, <1>2, ControlStep, InvariantStep

\* The first process starts with an empty memory and an empty database.
LEMMA TypingInit == Init => Typing
<1> SUFFICES ASSUME Init PROVE Typing
  OBVIOUS
<1>1. CCInvariant
  BY InitInvariant DEF Init
<1>2. LifecycleTypeOK
  BY <1>1, CrashBudgetAssumption DEF Init, CCInvariant, LifecycleTypeOK, RowStatus, RunPhase, Nowhere, Nobody, NotYet
<1> QED
  BY <1>1, <1>2 DEF Typing, Init, Nowhere

\* What the memory of a process holds when it starts.
LEMMA ForgetTypes ==
  ASSUME Forget
  PROVE  /\ phase' \in [Run -> RunPhase]
         /\ execOf' \in [Run -> Exec \cup {NoExec}]
         /\ restart' \in [Run -> BOOLEAN]
         /\ outcome' \in [Run -> {"none", "success", "error", "waiting", "canceled"}]
         /\ entry' \in [Exec -> Run \cup {NoRun}]
         /\ entryStatus' \in [Run -> {"running", "waiting"}]
         /\ post' \in [Run -> {"none", "pending", "settled", "closed"}]
         /\ attached' \in [Run -> Run \cup {NoRun}]
         /\ aborted' \in [Run -> BOOLEAN]
         /\ cancelSave' \in [Run -> BOOLEAN]
         /\ timer' \in [Run -> BOOLEAN]
         /\ detached' \in [Run -> BOOLEAN]
         /\ stopper' \in [Exec -> {"none", "found", "writing", "done"}]
         /\ server' \in {"starting", "up", "stopping", "down"}
         /\ toRerun' \subseteq Exec
         /\ \A r \in Run : phase'[r] = "idle"
BY DEF Forget, RunPhase, Nowhere, Nobody, NotYet

\* Every step of the lifecycle keeps the types.
LEMMA TypingStep == Typing /\ [Next]_vars => Typing'
<1> SUFFICES ASSUME Typing, [Next]_vars PROVE Typing'
  OBVIOUS
<1>0. TypeOK' /\ CCInvariant'
  BY ControlKept DEF CCInvariant
<1> USE <1>0 DEF Typing, LifecycleTypeOK, RowStatus, RunPhase, runVars, entryVars, abortVars,
                 processVars, Goto, Write
<1>1. ASSUME NEW r \in Run, NEW e \in Exec, Create(r, e)
      PROVE  Typing'
  BY <1>1 DEF Create
<1>2. ASSUME NEW r \in Run, NEW e \in Exec, RequestResume(r, e)
      PROVE  Typing'
  BY <1>2 DEF RequestResume
<1>3. ASSUME NEW r \in Run, NEW e \in Exec, RunEnqueued(r, e)
      PROVE  Typing'
  BY <1>3 DEF RunEnqueued
<1>4. ASSUME NEW r \in Run, Reserve(r) \/ Refuse(r)
      PROVE  Typing'
  BY <1>4 DEF Reserve, Refuse
<1>5. ASSUME NEW r \in Run, Mark(r)
      PROVE  Typing'
  BY <1>5 DEF Mark, MarkNew, MarkExisting
<1>6. ASSUME NEW r \in Run, AddEntry(r)
      PROVE  Typing'
  BY <1>6 DEF AddEntry
<1>7. ASSUME NEW r \in Run, Deny(r) \/ SetRunning(r) \/ FinalSave(r)
      PROVE  Typing'
  BY <1>7 DEF Deny, SetRunning, FinalSave
<1>8. ASSUME NEW r \in Run, Execute(r)
      PROVE  Typing'
  <2>1. phase' \in [Run -> RunPhase]
    BY <1>8 DEF Execute
  <2>2. attached' \in [Run -> Run \cup {NoRun}]
    BY <1>8 DEF Execute
  <2>3. /\ timer' = timer \/ timer' = [timer EXCEPT ![r] = CanTimeOut]
        /\ detached' = detached \/ detached' = [detached EXCEPT ![r] = TRUE]
    BY <1>8 DEF Execute
  <2>4. timer' \in [Run -> BOOLEAN]
    BY <2>3, OptionAssumption
  <2>5. detached' \in [Run -> BOOLEAN]
    BY <2>3
  <2> QED
    BY <1>8, <2>1, <2>2, <2>4, <2>5 DEF Execute
<1>9. ASSUME NEW r \in Run, PutToWait(r)
      PROVE  Typing'
  BY <1>9 DEF PutToWait
<1>10. ASSUME NEW r \in Run, FinishEngine(r)
       PROVE  Typing'
  BY <1>10 DEF FinishEngine
<1>11. ASSUME NEW r \in Run, Complete(r)
       PROVE  Typing'
  BY <1>11 DEF Complete
<1>12. ASSUME NEW r \in Run, Finally(r)
       PROVE  Typing'
  BY <1>12 DEF Finally
<1>13. ASSUME NEW r \in Run, CancelSave(r)
       PROVE  Typing'
  BY <1>13 DEF CancelSave
<1>14. ASSUME NEW e, StopExecution(e)
       PROVE  /\ entry' \in [Exec -> Run \cup {NoRun}]
              /\ post' \in [Run -> {"none", "pending", "settled", "closed"}]
              /\ aborted' \in [Run -> BOOLEAN]
              /\ cancelSave' \in [Run -> BOOLEAN]
  <2>1. entry' = entry \/ entry' = [entry EXCEPT ![e] = NoRun]
    BY <1>14 DEF StopExecution
  <2>2. post' = post \/ \E q : post' = [post EXCEPT ![q] = "settled"]
    BY <1>14 DEF StopExecution
  <2>3. aborted' = aborted \/ \E q : aborted' = [aborted EXCEPT ![q] = TRUE]
    BY <1>14 DEF StopExecution
  <2>4. cancelSave' = cancelSave \/ \E q : cancelSave' = [cancelSave EXCEPT ![q] = TRUE]
    BY <1>14 DEF StopExecution
  <2>5. entry' \in [Exec -> Run \cup {NoRun}]
    BY <2>1
  <2>6. post' \in [Run -> {"none", "pending", "settled", "closed"}]
    BY <2>2
  <2>7. aborted' \in [Run -> BOOLEAN]
    BY <2>3
  <2>8. cancelSave' \in [Run -> BOOLEAN]
    BY <2>4
  <2> QED
    BY <2>5, <2>6, <2>7, <2>8
<1>15. ASSUME NEW r \in Run, Timeout(r)
       PROVE  Typing'
  BY <1>14, <1>15 DEF Timeout
<1>16. ASSUME NEW e \in Exec, StopRead(e) \/ StopWrite(e)
       PROVE  Typing'
  BY <1>16 DEF StopRead, StopWrite
<1>17. ASSUME NEW e \in Exec, StopAct(e)
       PROVE  Typing'
  BY <1>14, <1>17 DEF StopAct
<1>18. CASE BeginShutdown
  BY <1>18 DEF BeginShutdown
<1>19. CASE Exit
  BY <1>19, ForgetTypes DEF Exit
<1>20. CASE Crash
  <2>1. crashes' \in 0..CrashBudget
    BY <1>20, CrashBudgetAssumption DEF Crash
  <2> QED
    BY <1>20, <2>1, ForgetTypes DEF Crash
<1>21. CASE Start
  BY <1>21 DEF Start
<1>22. CASE FindEnqueued
  BY <1>22 DEF FindEnqueued
<1>23. CASE UNCHANGED vars
  BY <1>23 DEF vars
<1> QED
  BY <1>1, <1>2, <1>3, <1>4, <1>5, <1>6, <1>7, <1>8, <1>9, <1>10, <1>11, <1>12, <1>13, <1>15,
     <1>16, <1>17, <1>18, <1>19, <1>20, <1>21, <1>22, <1>23 DEF Next, RunStep

\* Rows, runs, entries and the process have their types in every state, and so has the
\* concurrency control in it.
THEOREM LifecycleTypes == Spec => []LifecycleTypeOK
<1>1. Spec => []Typing
  BY TypingInit, TypingStep, PTL DEF Spec
<1>2. Typing => LifecycleTypeOK
  BY DEF Typing
<1> QED
  BY <1>1, <1>2, PTL

(***************************************************************************)
(* One run at a time.                                                      *)
(***************************************************************************)

\* A run that goes on without a write of a row: nobody gets in.
LEMMA OnwardKeeps ==
  ASSUME OneRunAtATime, UNCHANGED <<row, execOf, restart>>, toRerun' \subseteq toRerun,
         \A r \in Run : /\ phase[r] = "idle" <=> phase'[r] = "idle"
                        /\ Underway(r)' => Underway(r)
                        /\ Fresh(r)' => Fresh(r)
  PROVE  OneRunAtATime'
BY DEF OneRunAtATime, SingleExecutor

\* stopBeforeRun(), stopDuringRun() and onCancel write 'canceled', which lets nobody in.
LEMMA CanceledKeeps ==
  ASSUME OneRunAtATime, UNCHANGED <<phase, execOf, restart, toRerun>>,
         NEW e, row \in [Exec -> RowStatus], row' = [row EXCEPT ![e] = "canceled"],
         \A r \in Run : phase[r] # "idle" => execOf[r] \in Exec,
         toRerun \subseteq Exec
  PROVE  OneRunAtATime'
<1>1. \A f \in Exec : row'[f] = row[f] \/ row'[f] = "canceled"
  OBVIOUS
<1>2. \A r \in Run : (Underway(r)' <=> Underway(r)) /\ (Fresh(r)' <=> Fresh(r))
  BY DEF Underway, Fresh
<1>3. \A r \in Run : (Underway(r) => phase[r] # "idle") /\ (Fresh(r) => phase[r] # "idle")
  BY DEF Underway, Fresh
<1> QED
  BY <1>1, <1>2, <1>3 DEF OneRunAtATime, SingleExecutor

\* An empty memory has no runs.
LEMMA NobodyRuns ==
  ASSUME \A r \in Run : phase'[r] = "idle" /\ ~restart'[r],
         \A e \in toRerun' : row'[e] # "none"
  PROVE  OneRunAtATime'
BY DEF OneRunAtATime, SingleExecutor, Underway, Fresh

\* Nothing has run.
LEMMA OneRunInit == Init => OneRunAtATime
BY DEF Init, OneRunAtATime, SingleExecutor, Underway, Fresh, Nowhere, NotYet

\* add() without an id makes a row and a run of its own; with an id, the row exists.
LEMMA OneRunAdd ==
  ASSUME Typing, OneRunAtATime, NEW r \in Run, NEW e \in Exec,
         Create(r, e) \/ RequestResume(r, e) \/ RunEnqueued(r, e)
  PROVE  OneRunAtATime'
<1> USE DEF Typing, LifecycleTypeOK, OneRunAtATime, SingleExecutor, Underway, Fresh, Goto, Write,
            processVars, RunPhase
<1>1. CASE Create(r, e)
  <2>1. /\ row[e] = "none" /\ row' = [row EXCEPT ![e] = "new"] /\ phase[r] = "idle" /\ ~restart[r]
        /\ phase' = [phase EXCEPT ![r] = "created"] /\ execOf' = [execOf EXCEPT ![r] = e]
        /\ restart' = restart /\ toRerun' = toRerun
    BY <1>1 DEF Create
  <2>2. \A s \in Run : s # r => phase'[s] = phase[s] /\ execOf'[s] = execOf[s]
    BY <2>1
  <2>3. \A s \in Run : s # r /\ phase[s] # "idle" => execOf[s] \in Exec \ {e} /\ row'[execOf[s]] = row[execOf[s]]
    BY <2>1
  <2>4. phase'[r] = "created" /\ execOf'[r] = e /\ row'[e] = "new"
    BY <2>1
  <2> QED
    BY <2>1, <2>2, <2>3, <2>4
<1>2. CASE RequestResume(r, e) \/ RunEnqueued(r, e)
  <2>1. /\ row' = row /\ row[e] # "none" /\ phase[r] = "idle"
        /\ phase' = [phase EXCEPT ![r] = "created"] /\ execOf' = [execOf EXCEPT ![r] = e]
        /\ restart' = [restart EXCEPT ![r] = TRUE] /\ toRerun' \subseteq toRerun
    BY <1>2 DEF RequestResume, RunEnqueued
  <2>2. \A s \in Run : s # r => phase'[s] = phase[s] /\ execOf'[s] = execOf[s] /\ restart'[s] = restart[s]
    BY <2>1
  <2>3. phase'[r] = "created" /\ execOf'[r] = e /\ restart'[r]
    BY <2>1
  <2> QED
    BY <2>1, <2>2, <2>3
<1> QED
  BY <1>1, <1>2

\* setRunning() of a new execution, and updateExistingExecution() with requireStatus: the
\* first finds nobody underway, the second only if the row says 'waiting'.
LEMMA OneRunMark ==
  ASSUME Typing, OneRunAtATime, NEW r \in Run, Mark(r)
  PROVE  OneRunAtATime'
<1> USE DEF Typing, LifecycleTypeOK
<1>1. /\ UNCHANGED <<execOf, restart, toRerun>> /\ phase[r] = "reserving"
  BY DEF Mark, MarkNew, MarkExisting, Goto, processVars
<1>2. CASE phase' = [phase EXCEPT ![r] = "refused"] /\ row' = row
  BY <1>1, <1>2, OnwardKeeps DEF Underway, Fresh
<1>3. CASE /\ phase' = [phase EXCEPT ![r] = "marked"]
           /\ row' = [row EXCEPT ![execOf[r]] = "running"]
           /\ ~restart[r] \/ row[execOf[r]] = "waiting"
  <2> DEFINE e == execOf[r]
  <2>1. e \in Exec /\ row'[e] = "running" /\ \A f \in Exec : f # e => row'[f] = row[f]
    BY <1>1, <1>3
  <2>2. /\ phase'[r] = "marked"
        /\ \A s \in Run : s # r => phase'[s] = phase[s]
    BY <1>3
  <2>3. \A s \in Run : s # r /\ Underway(s) => execOf[s] # e
    BY <1>1, <1>3 DEF OneRunAtATime, Fresh
  <2>4. \A s \in Run : s # r /\ Fresh(s) => execOf[s] # e
    BY <1>1, <1>3 DEF OneRunAtATime, Fresh
  <2>5. \A s \in Run : s # r => (Underway(s)' <=> Underway(s)) /\ (Fresh(s)' <=> Fresh(s))
    BY <1>1, <2>2 DEF Underway, Fresh
  <2>6. Underway(r)' /\ ~Fresh(r)'
    BY <2>2 DEF Underway, Fresh
  <2>7. \A s \in Run : (Underway(s) => phase[s] # "idle") /\ (Fresh(s) => phase[s] # "idle")
    BY DEF Underway, Fresh
  <2> HIDE DEF e
  <2>8. execOf'[r] = e /\ execOf' = execOf /\ restart' = restart /\ toRerun' = toRerun /\ toRerun \subseteq Exec
    BY <1>1 DEF e
  <2>9. SingleExecutor'
    BY <2>3, <2>5, <2>6, <2>8 DEF OneRunAtATime, SingleExecutor
  <2>10. \A f \in Exec : row[f] # "none" => row'[f] # "none"
    BY <2>1
  <2>11. \A s \in Run : phase'[s] # "idle" => phase[s] # "idle"
    BY <1>1, <2>2
  <2> QED
    BY <1>1, <2>1, <2>2, <2>3, <2>4, <2>5, <2>6, <2>7, <2>8, <2>9, <2>10, <2>11 DEF OneRunAtATime
<1> QED
  BY <1>2, <1>3 DEF Mark, MarkNew, MarkExisting, Goto, Write

\* A run that is underway writes its own row: nobody else is about to, and when it says
\* 'waiting' the run is over.
LEMMA OneRunWrite ==
  ASSUME Typing, OneRunAtATime, NEW r \in Run, SetRunning(r) \/ FinalSave(r)
  PROVE  OneRunAtATime'
<1> USE DEF Typing, LifecycleTypeOK
<1> DEFINE e == execOf[r]
<1>1. /\ UNCHANGED <<execOf, restart, toRerun>> /\ phase[r] \in {"added", "saving"}
      /\ \E p \in {"starting", "saved"} : phase' = [phase EXCEPT ![r] = p]
  BY DEF SetRunning, FinalSave, Goto, processVars
<1>2. e \in Exec /\ \A f \in Exec : f # e => row'[f] = row[f]
  BY <1>1 DEF SetRunning, FinalSave, Write
<1>3. row'[e] # "none" /\ (row'[e] = "waiting" => phase'[r] = "saved")
  BY <1>1 DEF SetRunning, FinalSave, Write, Goto
<1>4. \A s \in Run : s # r => phase'[s] = phase[s]
  BY <1>1
<1>5. Underway(r) /\ ~Fresh(r)' /\ phase'[r] # "idle" /\ (Underway(r)' => phase'[r] = "starting")
  BY <1>1 DEF Underway, Fresh
<1>6. \A s \in Run : s # r => (Underway(s)' <=> Underway(s)) /\ (Fresh(s)' <=> Fresh(s))
  BY <1>1, <1>4 DEF Underway, Fresh
<1>7. \A s \in Run : (Underway(s) => phase[s] # "idle") /\ (Fresh(s) => phase[s] # "idle")
  BY DEF Underway, Fresh
<1>8. \A s \in Run : s # r /\ (Underway(s) \/ Fresh(s)) => execOf[s] # e
  BY <1>5 DEF OneRunAtATime, SingleExecutor
<1>9. phase'[r] = "starting" => phase'[r] # "saved"
  OBVIOUS
<1> HIDE DEF e
<1>10. execOf[r] = e
  BY DEF e
<1>11. SingleExecutor'
  BY <1>1, <1>5, <1>6 DEF OneRunAtATime, SingleExecutor
<1>12. \A s \in Run : phase'[s] = "idle" => phase[s] = "idle"
  BY <1>4, <1>5
<1>13. \A s \in Run : phase[s] = "idle" => phase'[s] = "idle"
  BY <1>1, <1>4
<1>14. execOf' = execOf /\ restart' = restart /\ toRerun' = toRerun
  BY <1>1
<1>15. \A s \in Run : phase'[s] = "idle" => ~restart'[s]
  BY <1>12, <1>14 DEF OneRunAtATime
<1>16. \A s \in Run : phase'[s] # "idle" => row'[execOf'[s]] # "none"
  BY <1>2, <1>3, <1>13, <1>14 DEF OneRunAtATime
<1>17. \A f \in toRerun' : row'[f] # "none"
  BY <1>2, <1>3, <1>14 DEF OneRunAtATime
<1>18. \A s \in Run : Underway(s)' => row'[execOf'[s]] # "waiting"
  <2> SUFFICES ASSUME NEW s \in Run, Underway(s)' PROVE row'[execOf'[s]] # "waiting"
    OBVIOUS
  <2>1. CASE s = r
    BY <1>3, <1>5, <1>10, <1>14, <2>1
  <2>2. CASE s # r
    <3>1. Underway(s) /\ execOf[s] # e /\ execOf[s] \in Exec
      BY <1>6, <1>7, <1>8, <2>2
    <3>2. row[execOf[s]] # "waiting"
      BY <3>1 DEF OneRunAtATime
    <3>3. row'[execOf[s]] = row[execOf[s]]
      BY <1>2, <3>1
    <3> QED
      BY <1>14, <3>2, <3>3
  <2> QED
    BY <2>1, <2>2
<1>19. \A s \in Run : Fresh(s)' => row'[execOf'[s]] \in {"new", "canceled"}
  <2> SUFFICES ASSUME NEW s \in Run, Fresh(s)' PROVE row'[execOf'[s]] \in {"new", "canceled"}
    OBVIOUS
  <2>1. s # r
    BY <1>5
  <2>2. Fresh(s) /\ execOf[s] # e /\ execOf[s] \in Exec
    BY <1>6, <1>7, <1>8, <2>1
  <2>3. row[execOf[s]] \in {"new", "canceled"}
    BY <2>2 DEF OneRunAtATime
  <2>4. row'[execOf[s]] = row[execOf[s]]
    BY <1>2, <2>2
  <2> QED
    BY <1>14, <2>3, <2>4
<1>20. \A s, t \in Run :
         /\ phase'[s] # "idle" /\ ~restart'[s] /\ phase'[t] # "idle" /\ ~restart'[t]
         /\ execOf'[s] = execOf'[t]
         => s = t
  BY <1>13, <1>14 DEF OneRunAtATime
<1>21. \A s, t \in Run : Fresh(s)' /\ Underway(t)' => execOf'[s] # execOf'[t]
  <2> SUFFICES ASSUME NEW s \in Run, NEW t \in Run, Fresh(s)', Underway(t)'
               PROVE  execOf'[s] # execOf'[t]
    OBVIOUS
  <2>1. s # r /\ Fresh(s)
    BY <1>5, <1>6
  <2>2. Underway(t)
    BY <1>5, <1>6
  <2> QED
    BY <1>14, <2>1, <2>2 DEF OneRunAtATime
<1> QED
  BY <1>11, <1>15, <1>16, <1>17, <1>18, <1>19, <1>20, <1>21 DEF OneRunAtATime

\* The invariant holds on, whatever the runs, the users and the process do.
LEMMA OneRunStep == Typing /\ OneRunAtATime /\ [Next]_vars => OneRunAtATime'
<1> SUFFICES ASSUME Typing, OneRunAtATime, [Next]_vars PROVE OneRunAtATime'
  OBVIOUS
<1> USE DEF Typing, LifecycleTypeOK, runVars, processVars
<1>1. ASSUME NEW r \in Run,
             \/ Reserve(r) \/ Refuse(r) \/ AddEntry(r) \/ Deny(r) \/ Execute(r) \/ PutToWait(r)
             \/ FinishEngine(r) \/ Complete(r)
      PROVE  OneRunAtATime'
  <2>1. /\ UNCHANGED <<row, execOf, restart, toRerun>>
        /\ phase[r] # "idle" /\ \E p \in RunPhase \ {"idle"} :
             /\ phase' = [phase EXCEPT ![r] = p]
             /\ p \in {"created", "reserving"} => phase[r] = "created"
             /\ p \in {"marked", "added", "starting", "executing", "waiting", "saving"} =>
                  phase[r] \in {"marked", "added", "starting", "executing", "waiting", "saving"}
    BY <1>1 DEF Reserve, Refuse, AddEntry, Deny, Execute, PutToWait, FinishEngine, Complete, Goto, RunPhase
  <2> QED
    BY <2>1, OnwardKeeps DEF Underway, Fresh
<1>2. ASSUME NEW r \in Run, Finally(r) \/ Timeout(r)
      PROVE  OneRunAtATime'
  <2>1. UNCHANGED <<row, phase, execOf, restart, toRerun>>
    BY <1>2 DEF Finally, Timeout
  <2> QED
    BY <2>1, OnwardKeeps DEF Underway, Fresh
<1>3. ASSUME NEW r \in Run, CancelSave(r)
      PROVE  OneRunAtATime'
  BY <1>3, CanceledKeeps DEF CancelSave, Write
<1>4. ASSUME NEW e \in Exec, StopRead(e) \/ StopAct(e)
      PROVE  OneRunAtATime'
  <2>1. UNCHANGED <<row, phase, execOf, restart, toRerun>>
    BY <1>4 DEF StopRead, StopAct
  <2> QED
    BY <2>1, OnwardKeeps DEF Underway, Fresh
<1>5. ASSUME NEW e \in Exec, StopWrite(e)
      PROVE  OneRunAtATime'
  BY <1>5, CanceledKeeps DEF StopWrite, Write
<1>6. CASE BeginShutdown \/ UNCHANGED vars
  <2>1. UNCHANGED <<row, phase, execOf, restart, toRerun>>
    BY <1>6 DEF BeginShutdown, vars
  <2> QED
    BY <2>1, OnwardKeeps DEF Underway, Fresh
<1>7. CASE Exit \/ Crash
  BY <1>7, NobodyRuns DEF Exit, Crash, Forget, Nowhere, NotYet
<1>8. CASE Start
  <2>1. PICK dead \in SUBSET {e \in Exec : row[e] = "running"} :
          row' = [e \in Exec |-> IF e \in dead THEN "crashed" ELSE row[e]]
    BY <1>8 DEF Start
  <2>2. \A e \in Exec : row'[e] = row[e] \/ (row[e] = "running" /\ row'[e] = "crashed")
    BY <2>1
  <2>3. UNCHANGED <<phase, execOf, restart, toRerun>>
    BY <1>8 DEF Start
  <2>4. \A r \in Run : /\ (Underway(r)' <=> Underway(r)) /\ (Fresh(r)' <=> Fresh(r))
                       /\ (Underway(r) => phase[r] # "idle") /\ (Fresh(r) => phase[r] # "idle")
    BY <2>3 DEF Underway, Fresh
  <2> QED
    BY <2>2, <2>3, <2>4 DEF OneRunAtATime, SingleExecutor
<1>9. CASE FindEnqueued
  <2>1. UNCHANGED <<row, phase, execOf, restart>> /\ \A e \in toRerun' : row'[e] # "none"
    BY <1>9 DEF FindEnqueued
  <2>2. \A r \in Run : (Underway(r)' <=> Underway(r)) /\ (Fresh(r)' <=> Fresh(r))
    BY <2>1 DEF Underway, Fresh
  <2> QED
    BY <2>1, <2>2 DEF OneRunAtATime, SingleExecutor
<1> QED
  BY <1>1, <1>2, <1>3, <1>4, <1>5, <1>6, <1>7, <1>8, <1>9, OneRunAdd, OneRunMark, OneRunWrite
     DEF Next, RunStep

\* Two runs of one execution are never underway together, whatever resumptions, stops,
\* timeouts, shutdowns and crashes there are: requireStatus refuses all but one.
THEOREM OneExecutor == Spec => []SingleExecutor
<1>1. Init => Typing /\ OneRunAtATime
  BY TypingInit, OneRunInit
<1>2. Typing /\ OneRunAtATime /\ [Next]_vars => (Typing /\ OneRunAtATime)'
  BY TypingStep, OneRunStep
<1>3. Typing /\ OneRunAtATime => SingleExecutor
  BY DEF OneRunAtATime
<1> QED
  BY <1>1, <1>2, <1>3, PTL DEF Spec

(***************************************************************************)
(* The graceful shutdown lets nobody through.                              *)
(***************************************************************************)

\* disable() comes with the first step of the shutdown, and only the constructor of the next
\* process enables the service again.
LEMMA DisabledStep == Typing /\ DisabledInShutdown /\ [Next]_vars => DisabledInShutdown'
<1> SUFFICES ASSUME Typing, DisabledInShutdown, [Next]_vars, server' = "stopping"
             PROVE  ~isEnabled'
  BY DEF DisabledInShutdown
<1>1. CASE server = "stopping"
  <2>1. ~isEnabled
    BY <1>1 DEF DisabledInShutdown
  <2>2. [CCNext]_ccVars => ~isEnabled'
    BY <2>1 DEF CCNext, Throttle, Release, RemoveQueued, Disable, ccVars
  <2>3. Exit \/ Crash => server' = "down"
    BY DEF Exit, Crash, Forget
  <2>4. ~Exit /\ ~Crash => UNCHANGED ccVars \/ CCNext \/ BeginShutdown
    BY DEF Next, RunStep, Create, RequestResume, RunEnqueued, Reserve, Mark, Refuse, AddEntry, Deny,
           SetRunning, Execute, PutToWait, FinishEngine, FinalSave, Complete, Finally, CancelSave,
           Timeout, StopRead, StopAct, StopWrite, Start, FindEnqueued, CCNext, Run, Typing, Goto, vars
  <2>5. BeginShutdown => ~isEnabled'
    BY DEF BeginShutdown, Typing, CCInvariant, TypeOK
  <2> QED
    BY <2>2, <2>3, <2>4, <2>5
<1>2. CASE server # "stopping"
  <2>1. BeginShutdown
    BY <1>2 DEF Next, RunStep, Create, RequestResume, RunEnqueued, Reserve, Mark, Refuse, AddEntry,
                Deny, SetRunning, Execute, PutToWait, FinishEngine, FinalSave, Complete, Finally,
                CancelSave, Timeout, StopRead, StopAct, StopWrite, Exit, Crash, Forget, Start,
                FindEnqueued, processVars, vars
  <2> QED
    BY <2>1 DEF BeginShutdown
<1> QED
  BY <1>1, <1>2

\* While shutdown() waits for the executions that run, their ends give no throttled execution
\* its turn (active-executions.ts).
THEOREM NoTurnInShutdown == Spec => NoResumptionDuringShutdown
<1> DEFINE Quiet == server = "stopping" =>
                      \A r \in Run : reservation[r] = "queued" => reservation'[r] # "acquired"
<1>1. ASSUME Typing, DisabledInShutdown, [Next]_vars
      PROVE  Quiet
  <2> SUFFICES ASSUME server = "stopping", NEW s \in Run, reservation[s] = "queued",
                      reservation'[s] = "acquired"
               PROVE  FALSE
    OBVIOUS
  <2>1. ~isEnabled /\ CCInvariant /\ s \in Reservation
    BY <1>1 DEF DisabledInShutdown, Typing, Run
  <2>2. ~CCInit'
    BY <2>1 DEF CCInit
  <2>3. [CCNext]_ccVars
    BY <1>1, <2>2, ControlStep
  <2>4. ASSUME NEW r \in Reservation, NEW e \in Exec, Throttle(r, e)
        PROVE  FALSE
    BY <2>1, <2>4, ThrottleEffect
  <2>5. ASSUME NEW r \in Reservation, Release(r)
        PROVE  FALSE
    BY <2>1, <2>5 DEF Release, Governed, CCInvariant, TypeOK
  <2>6. ASSUME NEW e \in Exec, RemoveQueued(e)
        PROVE  FALSE
    BY <2>1, <2>6 DEF RemoveQueued, Governed
  <2> QED
    BY <2>3, <2>4, <2>5, <2>6 DEF CCNext, Disable, ccVars
<1>2. Init => Typing /\ DisabledInShutdown
  BY TypingInit DEF Init, DisabledInShutdown
<1>3. Typing /\ DisabledInShutdown /\ [Next]_vars => (Typing /\ DisabledInShutdown)'
  BY TypingStep, DisabledStep
<1>4. Typing /\ DisabledInShutdown /\ [Next]_vars => [Quiet]_vars
  BY <1>1
<1> QED
  BY <1>2, <1>3, <1>4, PTL DEF Spec, NoResumptionDuringShutdown

(***************************************************************************)
(* The reservation of a run.                                               *)
(***************************************************************************)

\* What a step that is no crash, and no exit, does to the reservation of a run: add() makes it, its
\* refusal or the end of its entry gives it back, a stop takes it out of the list, and the
\* end of another one may let it through.
LEMMA ReservationFacts ==
  ASSUME Typing, [Next]_vars, ~Exit, ~Crash, NEW s \in Run
  PROVE  \/ Reserve(s) /\ reservation'[s] \in {"queued", "acquired"} /\ target'[s] = execOf[s]
         \/ /\ target'[s] = target[s]
            /\ \/ reservation'[s] = reservation[s]
               \/ reservation[s] = "queued" /\ reservation'[s] = "acquired"
               \/ /\ reservation[s] = "queued" /\ reservation'[s] = "removed"
                  /\ \E e \in Exec : StopAct(e) /\ target[s] = e
               \/ /\ reservation[s] = "acquired" /\ reservation'[s] = "released"
                  /\ Refuse(s) \/ Finally(s)
<1>0. CCInvariant /\ s \in Reservation
  BY DEF Typing, Run
<1>1. ASSUME NEW r \in Run, Reserve(r)
      PROVE  \/ Reserve(s) /\ reservation'[s] \in {"queued", "acquired"} /\ target'[s] = execOf[s]
             \/ target'[s] = target[s] /\ reservation'[s] = reservation[s]
  <2>1. r \in Reservation /\ Throttle(r, execOf[r])
    BY <1>1 DEF Reserve, Run
  <2> QED
    BY <1>0, <1>1, <2>1, ThrottleEffect
<1>2. ASSUME NEW r \in Run, Refuse(r) \/ Finally(r)
      PROVE  /\ target'[s] = target[s]
             /\ \/ reservation'[s] = reservation[s]
                \/ reservation[s] = "queued" /\ reservation'[s] = "acquired"
                \/ reservation[s] = "acquired" /\ reservation'[s] = "released" /\ r = s
  <2>1. r \in Reservation /\ Release(r)
    BY <1>2 DEF Refuse, Finally, Run
  <2>2. target' = target
    BY <2>1 DEF Release
  <2> QED
    BY <1>0, <2>1, <2>2, ReleaseEffect
<1>3. ASSUME NEW e \in Exec, StopAct(e)
      PROVE  /\ target'[s] = target[s]
             /\ \/ reservation'[s] = reservation[s]
                \/ reservation[s] = "queued" /\ reservation'[s] = "acquired"
                \/ reservation[s] = "queued" /\ reservation'[s] = "removed" /\ target[s] = e
  <2>1. CASE RemoveQueued(e)
    <3>1. target' = target
      BY <2>1 DEF RemoveQueued
    <3> QED
      BY <1>0, <2>1, <3>1, RemoveEffect
  <2>2. CASE ~RemoveQueued(e)
    BY <1>3, <2>2 DEF StopAct, ccVars
  <2> QED
    BY <2>1, <2>2
<1>4. CASE /\ \A r \in Run : ~Reserve(r) /\ ~Refuse(r) /\ ~Finally(r)
           /\ \A e \in Exec : ~StopAct(e)
  <2>1. ASSUME NEW r \in Run, NEW e \in Exec, Create(r, e) \/ RequestResume(r, e) \/ RunEnqueued(r, e)
        PROVE  UNCHANGED <<reservation, target>>
    BY <2>1 DEF Create, RequestResume, RunEnqueued, ccVars
  <2>2. ASSUME NEW r \in Run,
               \/ Mark(r) \/ AddEntry(r) \/ Deny(r) \/ SetRunning(r) \/ Execute(r) \/ PutToWait(r)
               \/ FinishEngine(r) \/ FinalSave(r) \/ Complete(r) \/ CancelSave(r) \/ Timeout(r)
        PROVE  UNCHANGED <<reservation, target>>
    BY <2>2 DEF Mark, AddEntry, Deny, SetRunning, Execute, PutToWait, FinishEngine, FinalSave,
                Complete, CancelSave, Timeout, ccVars
  <2>3. ASSUME NEW e \in Exec, StopRead(e) \/ StopWrite(e)
        PROVE  UNCHANGED <<reservation, target>>
    BY <2>3 DEF StopRead, StopWrite, ccVars
  <2>4. ASSUME BeginShutdown \/ Start \/ FindEnqueued \/ UNCHANGED vars
        PROVE  UNCHANGED <<reservation, target>>
    BY <2>4 DEF BeginShutdown, Start, FindEnqueued, ccVars, vars
  <2>5. reservation' = reservation /\ target' = target
    BY <1>4, <2>1, <2>2, <2>3, <2>4 DEF Next, RunStep
  <2> QED
    BY <2>5
<1> QED
  BY <1>1, <1>2, <1>3, <1>4

\* How the phase and the subject of a run change: a run begins by Create(), by a resumption or
\* by runEnqueuedExecutions(), and each of its steps takes it on.
LEMMA PhaseFacts ==
  ASSUME Typing, [Next]_vars, ~Exit, ~Crash, NEW s \in Run
  PROVE  \/ /\ phase[s] = "idle" /\ phase'[s] = "created"
            /\ \E e \in Exec : Create(s, e) \/ RequestResume(s, e) \/ RunEnqueued(s, e)
         \/ /\ execOf'[s] = execOf[s] /\ restart'[s] = restart[s]
            /\ \/ phase'[s] = phase[s]
               \/ phase[s] = "created" /\ phase'[s] = "reserving" /\ Reserve(s)
               \/ phase[s] = "reserving" /\ phase'[s] \in {"marked", "refused"} /\ Mark(s)
               \/ phase[s] = "refused" /\ phase'[s] = "done" /\ Refuse(s)
               \/ phase[s] = "marked" /\ phase'[s] = "added" /\ AddEntry(s)
               \/ phase[s] = "added" /\ phase'[s] = "saving" /\ Deny(s)
               \/ phase[s] = "added" /\ phase'[s] = "starting" /\ SetRunning(s)
               \/ phase[s] = "starting" /\ phase'[s] = "executing" /\ Execute(s)
               \/ phase[s] = "executing" /\ phase'[s] = "waiting" /\ PutToWait(s)
               \/ /\ phase[s] \in {"executing", "waiting"} /\ phase'[s] \in {"saving", "saved"}
                  /\ FinishEngine(s)
               \/ phase[s] = "saving" /\ phase'[s] = "saved" /\ FinalSave(s)
               \/ phase[s] = "saved" /\ phase'[s] = "done" /\ Complete(s)
<1> USE DEF Typing, LifecycleTypeOK, Goto
<1>1. ASSUME NEW r \in Run, NEW e \in Exec, Create(r, e) \/ RequestResume(r, e) \/ RunEnqueued(r, e)
      PROVE  \/ s = r /\ phase[s] = "idle" /\ phase'[s] = "created"
             \/ UNCHANGED <<phase[s], execOf[s], restart[s]>>
  BY <1>1 DEF Create, RequestResume, RunEnqueued
<1>2. ASSUME NEW r \in Run, s # r,
             \/ Reserve(r) \/ Mark(r) \/ Refuse(r) \/ AddEntry(r)
             \/ Deny(r) \/ SetRunning(r) \/ Execute(r) \/ PutToWait(r)
             \/ FinishEngine(r) \/ FinalSave(r) \/ Complete(r)
      PROVE  UNCHANGED <<phase[s], execOf[s], restart[s]>>
  BY <1>2 DEF Reserve, Mark, MarkNew, MarkExisting, Refuse, AddEntry, Deny, SetRunning, Execute,
              PutToWait, FinishEngine, FinalSave, Complete
<1>3. ASSUME \/ Finally(s) \/ CancelSave(s) \/ Timeout(s)
             \/ \E r \in Run : Finally(r) \/ CancelSave(r) \/ Timeout(r)
             \/ \E e \in Exec : StopRead(e) \/ StopAct(e) \/ StopWrite(e)
             \/ BeginShutdown \/ Start \/ FindEnqueued \/ UNCHANGED vars
      PROVE  UNCHANGED <<phase[s], execOf[s], restart[s]>>
  BY <1>3 DEF Finally, CancelSave, Timeout, StopRead, StopAct, StopWrite, BeginShutdown, Start,
              FindEnqueued, runVars, vars
<1>4. CASE Reserve(s) \/ Mark(s) \/ Refuse(s) \/ AddEntry(s) \/ Deny(s) \/ SetRunning(s)
  BY <1>4 DEF Reserve, Mark, MarkNew, MarkExisting, Refuse, AddEntry, Deny, SetRunning
<1>5. CASE Execute(s) \/ PutToWait(s) \/ FinishEngine(s) \/ FinalSave(s) \/ Complete(s)
  BY <1>5 DEF Execute, PutToWait, FinishEngine, FinalSave, Complete
<1> QED
  BY <1>1, <1>2, <1>3, <1>4, <1>5 DEF Next, RunStep

\* A process that is gone has no runs and no reservations.
LEMMA EmptyMemory ==
  ASSUME Exit \/ Crash, NEW s \in Run
  PROVE  /\ phase'[s] = "idle" /\ ~restart'[s] /\ reservation'[s] = "none"
         /\ outcome'[s] = "none" /\ entryStatus'[s] = "running" /\ post'[s] = "none"
         /\ ~timer'[s] /\ ~aborted'[s] /\ ~cancelSave'[s] /\ ~detached'[s]
         /\ server' = "down" /\ row' = row
         /\ \A e \in Exec : entry'[e] = NoRun /\ stopper'[e] = "none"
BY DEF Exit, Crash, Forget, Nowhere, Nobody, NotYet

\* reserve() is called once for a run, by its add().
LEMMA ReservedStep == Typing /\ ReservedByRuns /\ [Next]_vars => ReservedByRuns'
<1> SUFFICES ASSUME Typing, ReservedByRuns, [Next]_vars, NEW s \in Run
             PROVE  /\ phase'[s] \in {"idle", "created"} => reservation'[s] = "none"
                    /\ reservation'[s] # "none" => target'[s] = execOf'[s]
  BY DEF ReservedByRuns
<1>1. CASE Exit \/ Crash
  BY <1>1, EmptyMemory
<1>2. CASE ~Exit /\ ~Crash
  <2>1. /\ phase[s] \in {"idle", "created"} => reservation[s] = "none"
        /\ reservation[s] # "none" => target[s] = execOf[s]
    BY DEF ReservedByRuns
  <2>2. CASE Reserve(s)
    <3>1. phase'[s] = "reserving" /\ execOf'[s] = execOf[s]
      BY <2>2 DEF Reserve, Goto, Typing, LifecycleTypeOK
    <3>2. target'[s] = execOf[s]
      BY <2>2, ThrottleEffect DEF Reserve, Typing, Run
    <3> QED
      BY <3>1, <3>2
  <2>3. CASE ~Reserve(s)
    BY <1>2, <2>1, <2>3, PhaseFacts, ReservationFacts
  <2> QED
    BY <2>2, <2>3
<1> QED
  BY <1>1, <1>2

(***************************************************************************)
(* Rows and their owners, in the life of one process.                      *)
(***************************************************************************)

\* Neither a crash nor a shutdown ends the first process.
LEMMA NoEnd ==
  ASSUME CrashBudget = 0, CanShutDown = FALSE, Typing, server \in {"starting", "up"}
  PROVE  ~Exit /\ ~Crash /\ ~BeginShutdown /\ ~Start
BY DEF Typing, LifecycleTypeOK, Exit, Crash, BeginShutdown, Start

\* The rows that a step writes.
LEMMA RowFacts ==
  ASSUME Typing, [Next]_vars, ~Start, NEW e \in Exec
  PROVE  \/ row'[e] = row[e]
         \/ row[e] = "none" /\ row'[e] = "new" /\ \E r \in Run : Create(r, e)
         \/ row'[e] = "running" /\ \E r \in Run : /\ execOf[r] = e /\ (SetRunning(r) \/ Mark(r))
                                                /\ phase'[r] \in {"marked", "starting"}
         \/ \E r \in Run : execOf[r] = e /\ FinalSave(r) /\ row'[e] = outcome[r]
         \/ row'[e] = "canceled" /\ \E r \in Run : execOf[r] = e /\ CancelSave(r)
         \/ row'[e] = "canceled" /\ StopWrite(e)
<1> USE DEF Typing, LifecycleTypeOK, Write, Goto
<1>1. ASSUME NEW r \in Run, NEW f \in Exec, Create(r, f)
      PROVE  row'[e] = row[e] \/ (row[e] = "none" /\ row'[e] = "new" /\ f = e)
  BY <1>1 DEF Create
<1>2. ASSUME NEW r \in Run, SetRunning(r) \/ Mark(r)
      PROVE  row'[e] = row[e] \/ (row'[e] = "running" /\ execOf[r] = e /\ phase'[r] \in {"marked", "starting"})
  BY <1>2 DEF SetRunning, Mark, MarkNew, MarkExisting
<1>3. ASSUME NEW r \in Run, FinalSave(r)
      PROVE  row'[e] = row[e] \/ (row'[e] = outcome[r] /\ execOf[r] = e)
  BY <1>3 DEF FinalSave
<1>4. ASSUME NEW r \in Run, CancelSave(r)
      PROVE  row'[e] = row[e] \/ (row'[e] = "canceled" /\ execOf[r] = e)
  BY <1>4 DEF CancelSave
<1>5. ASSUME NEW f \in Exec, StopWrite(f)
      PROVE  row'[e] = row[e] \/ (row'[e] = "canceled" /\ f = e)
  BY <1>5 DEF StopWrite
<1>6. ASSUME NEW r \in Run, NEW f \in Exec, RequestResume(r, f) \/ RunEnqueued(r, f)
      PROVE  row' = row
  BY <1>6 DEF RequestResume, RunEnqueued
<1>7. ASSUME NEW r \in Run,
             \/ Reserve(r) \/ Refuse(r) \/ AddEntry(r) \/ Deny(r) \/ Execute(r) \/ PutToWait(r)
             \/ FinishEngine(r) \/ Complete(r) \/ Finally(r) \/ Timeout(r)
      PROVE  row' = row
  BY <1>7 DEF Reserve, Refuse, AddEntry, Deny, Execute, PutToWait, FinishEngine, Complete,
              Finally, Timeout
<1>8. ASSUME NEW f \in Exec, StopRead(f) \/ StopAct(f)
      PROVE  row' = row
  BY <1>8 DEF StopRead, StopAct
<1>9. CASE BeginShutdown \/ Exit \/ Crash \/ FindEnqueued \/ UNCHANGED vars
  BY <1>9 DEF BeginShutdown, Exit, Crash, FindEnqueued, vars
<1> QED
  BY <1>1, <1>2, <1>3, <1>4, <1>5, <1>6, <1>7, <1>8, <1>9 DEF Next, RunStep

\* stopExecution() cancels an engine that has not returned, once.
LEMMA StopExecutionFacts ==
  ASSUME Typing, NEW e, StopExecution(e), NEW s \in Run
  PROVE  \/ aborted'[s] = aborted[s] /\ cancelSave'[s] = cancelSave[s]
         \/ /\ phase[s] \in {"executing", "waiting", "saving", "saved"}
            /\ aborted'[s] /\ cancelSave'[s]
<1> USE DEF Typing, LifecycleTypeOK
<1>1. CASE UNCHANGED <<aborted, cancelSave>>
  BY <1>1
<1>2. ASSUME NEW r, Cancellable(r), aborted' = [aborted EXCEPT ![r] = TRUE],
             cancelSave' = [cancelSave EXCEPT ![r] = TRUE]
      PROVE  \/ aborted'[s] = aborted[s] /\ cancelSave'[s] = cancelSave[s]
             \/ /\ phase[s] \in {"executing", "waiting", "saving", "saved"}
                /\ aborted'[s] /\ cancelSave'[s]
  BY <1>2 DEF Cancellable
<1> QED
  BY <1>1, <1>2 DEF StopExecution

\* What a step that is no exit or crash does to the cancellation of a run.
LEMMA AbortFacts ==
  ASSUME Typing, [Next]_vars, ~Exit, ~Crash, NEW s \in Run
  PROVE  \/ aborted'[s] = aborted[s] /\ cancelSave'[s] = cancelSave[s]
         \/ /\ UNCHANGED <<phase, row>>
            /\ phase[s] \in {"executing", "waiting", "saving", "saved"}
            /\ aborted'[s] /\ cancelSave'[s]
         \/ CancelSave(s) /\ aborted'[s] = aborted[s]
<1>1. ASSUME NEW r \in Run, Timeout(r)
      PROVE  UNCHANGED <<phase, row>> /\ StopExecution(execOf[r])
  BY <1>1 DEF Timeout, runVars
<1>2. ASSUME NEW e \in Exec, StopAct(e)
      PROVE  /\ UNCHANGED <<phase, row>>
             /\ UNCHANGED <<aborted, cancelSave>> \/ StopExecution(e)
  BY <1>2 DEF StopAct, runVars
<1>3. ASSUME NEW r \in Run, CancelSave(r)
      PROVE  aborted' = aborted /\ (s # r => cancelSave'[s] = cancelSave[s])
  BY <1>3 DEF CancelSave, Typing, LifecycleTypeOK
<1>4. ASSUME NEW r \in Run, NEW e \in Exec, Create(r, e) \/ RequestResume(r, e) \/ RunEnqueued(r, e)
      PROVE  UNCHANGED <<aborted, cancelSave>>
  BY <1>4 DEF Create, RequestResume, RunEnqueued, abortVars
<1>5. ASSUME NEW r \in Run,
             \/ Reserve(r) \/ Mark(r) \/ Refuse(r) \/ AddEntry(r) \/ Deny(r) \/ SetRunning(r)
             \/ Execute(r) \/ PutToWait(r) \/ FinishEngine(r) \/ FinalSave(r) \/ Complete(r) \/ Finally(r)
      PROVE  UNCHANGED <<aborted, cancelSave>>
  BY <1>5 DEF Reserve, Mark, Refuse, AddEntry, Deny, SetRunning, Execute, PutToWait, FinishEngine,
              FinalSave, Complete, Finally, abortVars
<1>6. ASSUME NEW e \in Exec, StopRead(e) \/ StopWrite(e)
      PROVE  UNCHANGED <<aborted, cancelSave>>
  BY <1>6 DEF StopRead, StopWrite, abortVars
<1>7. ASSUME BeginShutdown \/ Start \/ FindEnqueued \/ UNCHANGED vars
      PROVE  UNCHANGED <<aborted, cancelSave>>
  BY <1>7 DEF BeginShutdown, Start, FindEnqueued, abortVars, vars
<1>8. CASE UNCHANGED <<aborted, cancelSave>>
  BY <1>8
<1>9. CASE \E r \in Run : Timeout(r)
  BY <1>1, <1>9, StopExecutionFacts
<1>10. CASE \E e \in Exec : StopAct(e)
  BY <1>2, <1>8, <1>10, StopExecutionFacts
<1>11. CASE \E r \in Run : CancelSave(r)
  BY <1>3, <1>11
<1> QED
  BY <1>4, <1>5, <1>6, <1>7, <1>8, <1>9, <1>10, <1>11 DEF Next, RunStep

\* A stop that has found its execution goes on to its write of the row.
LEMMA StopperFacts ==
  ASSUME Typing, [Next]_vars, ~Exit, ~Crash, NEW e \in Exec
  PROVE  \/ stopper'[e] = stopper[e]
         \/ StopRead(e) /\ stopper[e] = "none"
         \/ StopAct(e) /\ stopper[e] = "found" /\ stopper'[e] = "writing"
         \/ StopWrite(e) /\ stopper[e] = "writing" /\ row'[e] = "canceled"
<1> USE DEF Typing, LifecycleTypeOK
<1>1. ASSUME NEW f \in Exec, StopRead(f) \/ StopAct(f) \/ StopWrite(f)
      PROVE  \/ stopper'[e] = stopper[e]
             \/ StopRead(e) /\ stopper[e] = "none"
             \/ StopAct(e) /\ stopper[e] = "found" /\ stopper'[e] = "writing"
             \/ StopWrite(e) /\ stopper[e] = "writing" /\ row'[e] = "canceled"
  <2>1. CASE f = e
    BY <1>1, <2>1 DEF StopRead, StopAct, StopWrite, Write
  <2>2. CASE f # e
    <3>1. \E x : stopper' = [stopper EXCEPT ![f] = x]
      BY <1>1 DEF StopRead, StopAct, StopWrite
    <3> QED
      BY <2>2, <3>1
  <2> QED
    BY <2>1, <2>2
<1>2. ASSUME NEW r \in Run, NEW f \in Exec, Create(r, f) \/ RequestResume(r, f) \/ RunEnqueued(r, f)
      PROVE  stopper' = stopper
  BY <1>2 DEF Create, RequestResume, RunEnqueued, processVars
<1>3. ASSUME NEW r \in Run, RunStep(r)
      PROVE  stopper' = stopper
  BY <1>3 DEF RunStep, Reserve, Mark, Refuse, AddEntry, Deny, SetRunning, Execute, PutToWait,
              FinishEngine, FinalSave, Complete, Finally, CancelSave, Timeout, processVars
<1>4. ASSUME BeginShutdown \/ Start \/ FindEnqueued \/ UNCHANGED vars
      PROVE  stopper' = stopper
  BY <1>4 DEF BeginShutdown, Start, FindEnqueued, processVars, vars
<1> QED
  BY <1>1, <1>2, <1>3, <1>4 DEF Next

\* A row 'running' keeps an owner: the run that leaves it behind has been aborted, and
\* onCancel has not saved it yet.  A row 'new' keeps its first run, or is about to be canceled
\* by the stop that has taken the run out of its queue.
LEMMA OwnersStep ==
  ASSUME CrashBudget = 0, CanShutDown = FALSE,
         Typing, Typing', OneRunAtATime, OneRunAtATime', ReservedByRuns, OwnersOfRows, [Next]_vars
  PROVE  OwnersOfRows'
<1> USE DEF Typing, LifecycleTypeOK
<1>0. ~Exit /\ ~Crash /\ ~BeginShutdown /\ ~Start
  BY NoEnd DEF OwnersOfRows
<1>1. server' \in {"starting", "up"}
  <2>1. server' = server \/ FindEnqueued
    BY <1>0 DEF Next, RunStep, Create, RequestResume, RunEnqueued, Reserve, Mark, Refuse, AddEntry,
                Deny, SetRunning, Execute, PutToWait, FinishEngine, FinalSave, Complete, Finally,
                CancelSave, Timeout, StopRead, StopAct, StopWrite, processVars, vars
  <2> QED
    BY <2>1 DEF FindEnqueued, OwnersOfRows
<1>2. ASSUME NEW r \in Run
      PROVE  /\ cancelSave'[r] => aborted'[r]
             /\ aborted'[r] => phase'[r] \in {"executing", "waiting", "saving", "saved", "done"}
  <2>1. /\ cancelSave[r] => aborted[r]
        /\ aborted[r] => phase[r] \in {"executing", "waiting", "saving", "saved", "done"}
    BY DEF OwnersOfRows
  <2>2. CancelSave(r) => ~cancelSave'[r] /\ phase' = phase
    BY DEF CancelSave, runVars
  <2>3. aborted[r] => phase'[r] \in {"executing", "waiting", "saving", "saved", "done"}
    BY <1>0, <2>1, PhaseFacts
  <2> QED
    BY <1>0, <2>1, <2>2, <2>3, AbortFacts
<1>3. ASSUME NEW r \in Run, NEW e \in Exec, execOf[r] = e, CancelSave(r) \/ FinalSave(r)
      PROVE  row'[e] # "running" /\ row'[e] # "new"
  BY <1>3 DEF CancelSave, FinalSave, Write
<1>4. ASSUME NEW r \in Run, aborted'[r], ~cancelSave'[r], Underway(r)', row'[execOf'[r]] = "running"
      PROVE  FALSE
  <2> DEFINE e == execOf[r]
  <2>1. aborted[r]
    BY <1>0, <1>4, AbortFacts
  <2>2. phase[r] \in {"executing", "waiting", "saving", "saved", "done"}
    BY <2>1 DEF OwnersOfRows
  <2>3. execOf'[r] = e /\ e \in Exec
    BY <1>0, <2>2, PhaseFacts
  <2>4. phase'[r] \in {"executing", "waiting", "saving", "saved", "done"}
    BY <1>2, <1>4
  <2>5. Underway(r)
    BY <1>0, <1>4, <2>2, <2>4, PhaseFacts DEF Underway
  <2>6. ~CancelSave(r)
    BY <1>3, <1>4, <2>3
  <2>7. ~cancelSave[r]
    BY <1>0, <1>4, <2>6, AbortFacts
  <2>8. row[e] # "running"
    BY <2>1, <2>5, <2>7 DEF OwnersOfRows
  <2>9. PICK s \in Run : /\ execOf[s] = e /\ phase'[s] \in {"marked", "starting"}
                         /\ (SetRunning(s) \/ Mark(s))
    BY <1>0, <1>3, <1>4, <2>3, <2>8, RowFacts
  <2>10. execOf'[s] = e /\ Underway(s)'
    <3>1. execOf' = execOf
      BY <2>9 DEF SetRunning, Mark
    <3> QED
      BY <2>9, <3>1 DEF Underway
  <2>11. s = r
    BY <1>4, <2>3, <2>10 DEF OneRunAtATime, SingleExecutor
  <2> QED
    BY <2>4, <2>9, <2>11
<1>5. ASSUME NEW e \in Exec, row'[e] = "running"
      PROVE  \E r \in Run : execOf'[r] = e /\ (Underway(r)' \/ cancelSave'[r])
  <2>1. CASE row[e] = "running"
    <3>1. PICK r \in Run : execOf[r] = e /\ (Underway(r) \/ cancelSave[r])
      BY <2>1 DEF OwnersOfRows
    <3>2. phase[r] # "idle"
      BY <3>1 DEF OwnersOfRows, Underway
    <3>3. execOf'[r] = e
      BY <1>0, <3>1, <3>2, PhaseFacts
    <3>4. ~CancelSave(r) /\ ~FinalSave(r)
      BY <1>3, <1>5, <3>1
    <3>5. cancelSave[r] => cancelSave'[r]
      BY <1>0, <3>4, AbortFacts
    <3>6. CASE Underway(r) /\ ~cancelSave[r]
      <4>1. ~aborted[r]
        BY <2>1, <3>1, <3>6 DEF OwnersOfRows
      <4>2. FinishEngine(r) => phase'[r] = "saving"
        BY <4>1 DEF FinishEngine, Goto
      <4>3. Underway(r)'
        BY <1>0, <3>4, <3>6, <4>2, PhaseFacts DEF Underway
      <4> QED
        BY <3>3, <4>3
    <3> QED
      BY <3>1, <3>3, <3>5, <3>6
  <2>2. CASE row[e] # "running"
    <3>1. PICK s \in Run : /\ execOf[s] = e /\ phase'[s] \in {"marked", "starting"}
                           /\ (SetRunning(s) \/ Mark(s))
      BY <1>0, <1>3, <1>5, <2>2, RowFacts
    <3>2. execOf' = execOf
      BY <3>1 DEF SetRunning, Mark
    <3> QED
      BY <3>1, <3>2 DEF Underway
  <2> QED
    BY <2>1, <2>2
<1>6. ASSUME NEW e \in Exec, row'[e] = "new", stopper'[e] # "writing"
      PROVE  \E r \in Run : execOf'[r] = e /\ Fresh(r)' /\ reservation'[r] # "removed"
  <2>1. ~StopWrite(e)
    BY <1>6 DEF StopWrite, Write
  <2>2. CASE row[e] = "new"
    <3>1. stopper[e] # "writing"
      BY <1>0, <1>6, <2>1, StopperFacts
    <3>2. PICK r \in Run : execOf[r] = e /\ Fresh(r) /\ reservation[r] # "removed"
      BY <2>2, <3>1 DEF OwnersOfRows
    <3>3. ~Mark(r)
      <4>1. Mark(r) => row'[e] = "running"
        BY <3>2 DEF Mark, MarkNew, MarkExisting, Fresh, Write
      <4> QED
        BY <1>6, <4>1
    <3>4. execOf'[r] = e /\ Fresh(r)'
      BY <1>0, <3>2, <3>3, PhaseFacts DEF Fresh
    <3>5. ASSUME reservation'[r] = "removed"
          PROVE  FALSE
      <4>1. PICK f \in Exec : StopAct(f) /\ target[r] = f /\ reservation[r] = "queued"
        BY <1>0, <3>2, <3>5, ReservationFacts
      <4>2. target[r] = e
        BY <3>2, <4>1 DEF ReservedByRuns
      <4>3. stopper'[e] = "writing"
        BY <4>1, <4>2 DEF StopAct
      <4> QED
        BY <1>6, <4>3
    <3> QED
      BY <3>4, <3>5
  <2>3. CASE row[e] # "new"
    <3>1. PICK r \in Run : row[e] = "none" /\ Create(r, e)
      <4>1. row[e] = "none" /\ \E r \in Run : Create(r, e)
        BY <1>0, <1>3, <1>6, <2>3, RowFacts
      <4> QED
        BY <4>1
    <3>2. phase[r] = "idle" /\ phase'[r] = "created" /\ execOf'[r] = e /\ restart' = restart
          /\ reservation' = reservation
      BY <3>1 DEF Create, Goto, ccVars
    <3>3. ~restart[r] /\ reservation[r] = "none"
      BY <3>2 DEF OneRunAtATime, ReservedByRuns
    <3> QED
      BY <3>2, <3>3 DEF Fresh
  <2> QED
    BY <2>2, <2>3
<1> QED
  BY <1>1, <1>2, <1>4, <1>5, <1>6 DEF OwnersOfRows

\* In the life of a process, no interleaving of stops, timeouts, waits, resumptions and saves
\* leaves a row that says 'running' or 'new' without anybody who will change it.
THEOREM RowsHaveOwners ==
  ASSUME CrashBudget = 0, CanShutDown = FALSE
  PROVE  Spec => []RowsAreOwned
<1> DEFINE I == Typing /\ OneRunAtATime /\ ReservedByRuns /\ OwnersOfRows
<1>1. Init => ReservedByRuns /\ OwnersOfRows
  BY DEF Init, CCInit, ReservedByRuns, OwnersOfRows, Nowhere, NotYet, Run
<1>2. Init => I
  BY <1>1, TypingInit, OneRunInit
<1>3. I /\ [Next]_vars => I'
  BY TypingStep, OneRunStep, ReservedStep, OwnersStep
<1>4. I => RowsAreOwned
  BY DEF OwnersOfRows, RowsAreOwned, Fresh
<1> QED
  BY <1>2, <1>3, <1>4, PTL DEF Spec

(***************************************************************************)
(* Entries and capacity, without waits.                                    *)
(***************************************************************************)

\* A process that is gone has no entries.
LEMMA NoEntries ==
  ASSUME NobodyWaits, Exit \/ Crash
  PROVE  EntriesOfRuns'
<1>1. \A e \in Exec : row'[e] # "waiting" /\ entry'[e] = NoRun
  BY DEF NobodyWaits, Exit, Crash, Forget, Nobody
<1> QED
  BY <1>1, EmptyMemory DEF EntriesOfRuns, NobodyWaits, EntryOfRun, Registered

\* What can end in 'waiting' has begun with putExecutionToWait().
LEMMA NobodyWaitsStep ==
  ASSUME CanWait = FALSE, Typing, NobodyWaits, [Next]_vars, ~Exit, ~Crash
  PROVE  NobodyWaits'
<1> USE DEF Typing, LifecycleTypeOK
<1>1. \A r \in Run : ~PutToWait(r)
  BY DEF PutToWait
<1>2. outcome' \in [Run -> {"none", "success", "error", "canceled"}]
  <2>0. outcome \in [Run -> {"none", "success", "error", "canceled"}]
    BY DEF NobodyWaits
  <2>1. ASSUME NEW r \in Run, FinishEngine(r)
        PROVE  outcome' \in [Run -> {"none", "success", "error", "canceled"}]
    <3>1. phase[r] # "waiting"
      BY DEF NobodyWaits
    <3> QED
      BY <2>0, <2>1, <3>1 DEF FinishEngine, Goto
  <2>2. ASSUME NEW r \in Run, Deny(r)
        PROVE  outcome' \in [Run -> {"none", "success", "error", "canceled"}]
    BY <2>0, <2>2 DEF Deny
  <2>3. ASSUME \A r \in Run : ~FinishEngine(r) /\ ~Deny(r)
        PROVE  outcome' = outcome
    BY <2>3 DEF Next, RunStep, Create, RequestResume, RunEnqueued, Reserve, Mark, Refuse, AddEntry,
                SetRunning, Execute, PutToWait, FinalSave, Complete, Finally, CancelSave, Timeout,
                StopRead, StopAct, StopWrite, BeginShutdown, Start, FindEnqueued, runVars, vars
  <2> QED
    BY <2>0, <2>1, <2>2, <2>3
<1>3. entryStatus' = entryStatus
  BY <1>1 DEF Next, RunStep, Create, RequestResume, RunEnqueued, Reserve, Mark, Refuse, AddEntry, Deny,
              SetRunning, Execute, FinishEngine, FinalSave, Complete, Finally, CancelSave, Timeout,
              StopRead, StopAct, StopWrite, BeginShutdown, Start, FindEnqueued, entryVars, vars
<1>4. ASSUME NEW e \in Exec
      PROVE  row'[e] # "waiting"
  <2>1. row[e] # "waiting" /\ \A r \in Run : outcome[r] # "waiting"
    BY DEF NobodyWaits
  <2>2. Start => row'[e] # "waiting"
    BY <2>1 DEF Start
  <2> QED
    BY <2>1, <2>2, RowFacts
<1>5. ASSUME NEW r \in Run
      PROVE  phase'[r] # "waiting"
  BY <1>1, PhaseFacts DEF NobodyWaits
<1> QED
  BY <1>2, <1>3, <1>4, <1>5 DEF NobodyWaits

\* Without waits nothing but its own postExecutePromise.finally() deletes an entry: shutdown()
\* and stopExecution() delete those that wait.
LEMMA EntryFacts ==
  ASSUME Typing, NobodyWaits, [Next]_vars, ~Exit, ~Crash, NEW e \in Exec
  PROVE  \/ entry'[e] = entry[e]
         \/ \E r \in Run : AddEntry(r) /\ execOf[r] = e /\ entry'[e] = r
         \/ \E r \in Run : Finally(r) /\ execOf[r] = e /\ entry'[e] = NoRun
<1> USE DEF Typing, LifecycleTypeOK
<1>1. ASSUME NEW r \in Run, AddEntry(r)
      PROVE  entry'[e] = entry[e] \/ (execOf[r] = e /\ entry'[e] = r)
  BY <1>1 DEF AddEntry
<1>2. ASSUME NEW r \in Run, Finally(r)
      PROVE  entry'[e] = entry[e] \/ (execOf[r] = e /\ entry'[e] = NoRun)
  BY <1>2 DEF Finally
<1>3. ASSUME NEW f \in Exec \cup {NoExec}, StopExecution(f)
      PROVE  entry'[e] = entry[e]
  <2>1. CASE f = e
    BY <1>3, <2>1 DEF StopExecution, NobodyWaits
  <2>2. CASE f # e
    BY <1>3, <2>2 DEF StopExecution
  <2> QED
    BY <2>1, <2>2
<1>4. ASSUME NEW r \in Run, Timeout(r)
      PROVE  entry'[e] = entry[e]
  BY <1>3, <1>4 DEF Timeout
<1>5. ASSUME NEW f \in Exec, StopAct(f)
      PROVE  entry'[e] = entry[e]
  BY <1>3, <1>5 DEF StopAct
<1>6. BeginShutdown => entry'[e] = entry[e]
  BY DEF BeginShutdown, NobodyWaits
<1>7. ASSUME NEW r \in Run, NEW f \in Exec, Create(r, f) \/ RequestResume(r, f) \/ RunEnqueued(r, f)
      PROVE  entry' = entry
  BY <1>7 DEF Create, RequestResume, RunEnqueued, entryVars
<1>8. ASSUME NEW r \in Run,
             \/ Reserve(r) \/ Mark(r) \/ Refuse(r) \/ Deny(r) \/ SetRunning(r) \/ Execute(r)
             \/ PutToWait(r) \/ FinishEngine(r) \/ FinalSave(r) \/ Complete(r) \/ CancelSave(r)
      PROVE  entry' = entry
  BY <1>8 DEF Reserve, Mark, Refuse, Deny, SetRunning, Execute, PutToWait, FinishEngine, FinalSave,
              Complete, CancelSave, entryVars
<1>9. ASSUME NEW f \in Exec, StopRead(f) \/ StopWrite(f)
      PROVE  entry' = entry
  BY <1>9 DEF StopRead, StopWrite, entryVars
<1>10. Start \/ FindEnqueued \/ UNCHANGED vars => entry' = entry
  BY DEF Start, FindEnqueued, entryVars, vars
<1> QED
  BY <1>1, <1>2, <1>4, <1>5, <1>6, <1>7, <1>8, <1>9, <1>10 DEF Next, RunStep

\* The promise of a run's entry settles once, and its finally() runs once.
LEMMA PostFacts ==
  ASSUME Typing, [Next]_vars, ~Exit, ~Crash, NEW s \in Run
  PROVE  \/ post'[s] = post[s]
         \/ AddEntry(s) /\ post'[s] = "pending"
         \/ /\ post[s] = "pending" /\ post'[s] = "settled"
            /\ \/ \E r \in Run : Complete(r) /\ entry[execOf[r]] = s
               \/ \E r \in Run : Timeout(r)
               \/ \E e \in Exec : StopAct(e)
         \/ Finally(s) /\ post[s] = "settled" /\ post'[s] = "closed"
<1> USE DEF Typing, LifecycleTypeOK
<1>1. ASSUME NEW r \in Run, AddEntry(r)
      PROVE  post'[s] = post[s] \/ (s = r /\ post'[s] = "pending")
  BY <1>1 DEF AddEntry
<1>2. ASSUME NEW r \in Run, Finally(r)
      PROVE  post'[s] = post[s] \/ (s = r /\ post[s] = "settled" /\ post'[s] = "closed")
  BY <1>2 DEF Finally
<1>3. ASSUME NEW f, StopExecution(f)
      PROVE  post'[s] = post[s] \/ (post[s] = "pending" /\ post'[s] = "settled")
  BY <1>3 DEF StopExecution, Pending
<1>4. ASSUME NEW r \in Run, Timeout(r)
      PROVE  post'[s] = post[s] \/ (post[s] = "pending" /\ post'[s] = "settled")
  BY <1>3, <1>4 DEF Timeout
<1>5. ASSUME NEW f \in Exec, StopAct(f)
      PROVE  post'[s] = post[s] \/ (post[s] = "pending" /\ post'[s] = "settled")
  BY <1>3, <1>5 DEF StopAct
<1>6. ASSUME NEW r \in Run, Complete(r)
      PROVE  \/ post'[s] = post[s]
             \/ post[s] = "pending" /\ post'[s] = "settled" /\ entry[execOf[r]] = s
  BY <1>6 DEF Complete, Pending
<1>7. ASSUME NEW r \in Run, NEW f \in Exec, Create(r, f) \/ RequestResume(r, f) \/ RunEnqueued(r, f)
      PROVE  post' = post
  BY <1>7 DEF Create, RequestResume, RunEnqueued, entryVars
<1>8. ASSUME NEW r \in Run,
             \/ Reserve(r) \/ Mark(r) \/ Refuse(r) \/ Deny(r) \/ SetRunning(r) \/ Execute(r)
             \/ PutToWait(r) \/ FinishEngine(r) \/ FinalSave(r) \/ CancelSave(r)
      PROVE  post' = post
  BY <1>8 DEF Reserve, Mark, Refuse, Deny, SetRunning, Execute, PutToWait, FinishEngine, FinalSave,
              CancelSave, entryVars
<1>9. ASSUME NEW f \in Exec, StopRead(f) \/ StopWrite(f)
      PROVE  post' = post
  BY <1>9 DEF StopRead, StopWrite, entryVars
<1>10. BeginShutdown \/ Start \/ FindEnqueued \/ UNCHANGED vars => post' = post
  BY DEF BeginShutdown, Start, FindEnqueued, entryVars, vars
<1> QED
  BY <1>1, <1>2, <1>4, <1>5, <1>6, <1>7, <1>8, <1>9, <1>10 DEF Next, RunStep

\* attachWorkflowExecution() throws for a run whose entry is gone, and for no other.
LEMMA DetachedFacts ==
  ASSUME Typing, [Next]_vars, ~Exit, ~Crash, NEW s \in Run
  PROVE  \/ detached'[s] = detached[s]
         \/ Execute(s) /\ entry[execOf[s]] = NoRun /\ post' = post
<1> USE DEF Typing, LifecycleTypeOK
<1>1. ASSUME NEW r \in Run, Execute(r)
      PROVE  \/ detached'[s] = detached[s]
             \/ r = s /\ entry[execOf[s]] = NoRun /\ post' = post
  BY <1>1 DEF Execute
<1>2. ASSUME NEW r \in Run, NEW e \in Exec, Create(r, e) \/ RequestResume(r, e) \/ RunEnqueued(r, e)
      PROVE  detached' = detached
  BY <1>2 DEF Create, RequestResume, RunEnqueued, abortVars
<1>3. ASSUME NEW r \in Run,
             \/ Reserve(r) \/ Mark(r) \/ Refuse(r) \/ AddEntry(r) \/ Deny(r) \/ SetRunning(r)
             \/ PutToWait(r) \/ FinishEngine(r) \/ FinalSave(r) \/ Complete(r) \/ Finally(r)
             \/ CancelSave(r) \/ Timeout(r)
      PROVE  detached' = detached
  BY <1>3 DEF Reserve, Mark, Refuse, AddEntry, Deny, SetRunning, PutToWait, FinishEngine, FinalSave,
              Complete, Finally, CancelSave, Timeout, abortVars
<1>4. ASSUME NEW e \in Exec, StopRead(e) \/ StopAct(e) \/ StopWrite(e)
      PROVE  detached' = detached
  BY <1>4 DEF StopRead, StopAct, StopWrite, abortVars
<1>5. BeginShutdown \/ Start \/ FindEnqueued \/ UNCHANGED vars => detached' = detached
  BY DEF BeginShutdown, Start, FindEnqueued, abortVars, vars
<1> QED
  BY <1>1, <1>2, <1>3, <1>4, <1>5 DEF Next, RunStep

\* finalizeExecution() and finally() find the entry of their own run; no other run of the
\* execution can have one.
LEMMA EntriesStep ==
  ASSUME CanWait = FALSE, Typing, Typing', OneRunAtATime, OneRunAtATime', ReservedByRuns,
         EntriesOfRuns, [Next]_vars
  PROVE  EntriesOfRuns'
<1> USE DEF Typing, LifecycleTypeOK
<1>0. NobodyWaits
  BY DEF EntriesOfRuns
<1>1. CASE Exit \/ Crash
  BY <1>0, <1>1, NoEntries
<1>2. CASE ~Exit /\ ~Crash
  <2>1. ASSUME NEW s \in Run
        PROVE  EntryOfRun(s)'
    <3>0. EntryOfRun(s) /\ phase[s] # "waiting" /\ phase'[s] # "waiting"
      BY <1>0, <1>2, NobodyWaitsStep DEF EntriesOfRuns, NobodyWaits
    <3>1. phase'[s] = "marked" \/ Registered(s)' => ~restart'[s]
      <4>1. Mark(s) /\ phase'[s] = "marked" => ~restart[s]
        <5>1. Mark(s) => phase[s] = "reserving" /\ execOf[s] \in Exec
          BY DEF Mark, MarkNew, MarkExisting, Goto
        <5> QED
          BY <1>0, <5>1 DEF NobodyWaits, Mark, MarkNew, MarkExisting, Goto
      <4> QED
        BY <1>2, <3>0, <4>1, PhaseFacts DEF EntryOfRun, Registered
    <3>2. post'[s] # "none" => ~restart'[s] /\ (Registered(s)' \/ phase'[s] = "done")
      <4>1. AddEntry(s) => phase[s] = "marked" /\ phase'[s] = "added" /\ restart' = restart
        BY DEF AddEntry, Goto
      <4> QED
        BY <1>2, <3>0, <4>1, PhaseFacts, PostFacts DEF EntryOfRun, Registered
    <3>3. Registered(s)' => post'[s] # "none"
      <4>1. AddEntry(s) => post'[s] = "pending"
        BY DEF AddEntry
      <4> QED
        BY <1>2, <3>0, <4>1, PhaseFacts, PostFacts DEF EntryOfRun, Registered
    <3>4. post'[s] = "pending" => Registered(s)' /\ entry'[execOf'[s]] = s
      <4>1. CASE AddEntry(s)
        BY <4>1 DEF AddEntry, Goto, Registered
      <4>2. CASE ~AddEntry(s) /\ post'[s] = "pending"
        <5>1. post[s] = "pending" /\ Registered(s) /\ entry[execOf[s]] = s /\ ~restart[s]
          BY <1>2, <3>0, <4>2, PostFacts DEF EntryOfRun
        <5>2. ~Complete(s)
          BY <3>0, <4>2, <5>1, NoRunAssumption DEF Complete, Pending, EntryOfRun
        <5>3. execOf'[s] = execOf[s] /\ Registered(s)'
          BY <1>2, <3>0, <5>1, <5>2, PhaseFacts DEF Registered
        <5>4. ASSUME NEW r \in Run, AddEntry(r) \/ Finally(r), execOf[r] = execOf[s]
              PROVE  FALSE
          <6>1. ~restart[r] /\ phase[r] # "idle"
            BY <5>4 DEF AddEntry, Finally, Goto, EntriesOfRuns, EntryOfRun, Registered
          <6>2. r = s
            BY <5>1, <5>4, <6>1 DEF OneRunAtATime, Registered
          <6> QED
            BY <4>2, <5>1, <5>4, <6>2 DEF Finally
        <5>5. execOf[s] \in Exec
          BY <5>1 DEF Registered
        <5> QED
          BY <1>0, <1>2, <5>1, <5>3, <5>4, <5>5, EntryFacts
      <4> QED
        BY <4>1, <4>2
    <3>5. phase'[s] \in {"marked", "refused", "done"} \/ Registered(s)' =>
            reservation'[s] \notin {"none", "queued"}
      <4>1. Mark(s) => reservation[s] = "acquired"
        BY DEF Mark, MarkNew, MarkExisting
      <4>2. Reserve(s) => phase'[s] = "reserving"
        BY DEF Reserve, Goto
      <4>3. CASE phase[s] \in {"marked", "refused", "done"} \/ Registered(s) \/ Mark(s)
        <5>1. reservation[s] \notin {"none", "queued"}
          BY <3>0, <4>1, <4>3 DEF EntryOfRun
        <5> QED
          BY <1>2, <4>2, <5>1, ReservationFacts DEF Registered
      <4>4. CASE ~(phase[s] \in {"marked", "refused", "done"} \/ Registered(s) \/ Mark(s))
        BY <1>2, <3>0, <4>4, PhaseFacts DEF Registered
      <4> QED
        BY <4>3, <4>4
    <3>6. post'[s] = "closed" => reservation'[s] \notin {"none", "queued", "acquired"}
      <4>1. Finally(s) => reservation'[s] = "released"
        BY ReleaseEffect DEF Finally, Run
      <4> QED
        BY <1>2, <3>0, <4>1, PostFacts, ReservationFacts DEF EntryOfRun, Reserve, Goto, ReservedByRuns
    <3>7. phase'[s] = "done" /\ reservation'[s] = "acquired" => post'[s] = "settled"
      <4>1. Refuse(s) => reservation'[s] = "released"
        BY ReleaseEffect DEF Refuse, Run
      <4>2. Finally(s) => reservation'[s] = "released"
        BY ReleaseEffect DEF Finally, Run
      <4>3. Complete(s) => phase[s] = "saved" /\ (post[s] = "pending" => post'[s] = "settled") /\ reservation' = reservation
        BY <3>0, NoRunAssumption DEF Complete, Pending, Goto, EntryOfRun, Registered, ccVars
      <4>4. SUFFICES ASSUME phase'[s] = "done", reservation'[s] = "acquired"
                     PROVE  post'[s] = "settled"
        OBVIOUS
      <4>5. CASE phase[s] = "done"
        <5>1. reservation[s] = "acquired"
          BY <1>2, <3>0, <4>4, <4>5, ReservationFacts DEF EntryOfRun, Reserve, Goto
        <5>2. post[s] = "settled"
          BY <3>0, <4>5, <5>1 DEF EntryOfRun
        <5> QED
          BY <1>2, <4>2, <4>4, <4>5, <5>2, PostFacts DEF AddEntry, Goto
      <4>6. CASE Complete(s)
        <5>1. post[s] \notin {"none", "closed"}
          BY <3>0, <4>3, <4>4, <4>6 DEF EntryOfRun, Registered
        <5>2. post[s] = "settled" => post'[s] = "settled"
          BY <1>2, <4>2, <4>3, <4>4, <4>6, PostFacts DEF AddEntry, Goto
        <5> QED
          BY <4>3, <4>6, <5>1, <5>2
      <4> QED
        BY <1>2, <4>1, <4>4, <4>5, <4>6, PhaseFacts
    <3>8. detached'[s] => /\ post'[s] # "pending"
                          /\ phase'[s] \in {"executing", "saving", "saved", "done"}
      <4>1. CASE Execute(s) /\ entry[execOf[s]] = NoRun /\ post' = post
        <5>1. post[s] # "pending"
          BY <3>0, <4>1, NoRunAssumption DEF EntryOfRun
        <5>2. phase'[s] = "executing"
          BY <4>1 DEF Execute, Goto
        <5> QED
          BY <4>1, <5>1, <5>2
      <4>2. CASE detached'[s] = detached[s]
        <5> SUFFICES ASSUME detached[s]
                     PROVE  /\ post'[s] # "pending"
                            /\ phase'[s] \in {"executing", "saving", "saved", "done"}
          BY <4>2
        <5>1. post[s] # "pending" /\ phase[s] \in {"executing", "saving", "saved", "done"}
          BY <3>0 DEF EntryOfRun
        <5>2. ~AddEntry(s)
          BY <5>1 DEF AddEntry, Goto
        <5>3. post'[s] # "pending"
          BY <1>2, <5>1, <5>2, PostFacts
        <5>4. phase'[s] \in {"executing", "saving", "saved", "done"}
          BY <1>2, <3>0, <5>1, PhaseFacts
        <5> QED
          BY <5>3, <5>4
      <4> QED
        BY <1>2, <4>1, <4>2, DetachedFacts
    <3> QED
      BY <3>1, <3>2, <3>3, <3>4, <3>5, <3>6, <3>7, <3>8 DEF EntryOfRun
  <2>2. ASSUME NEW e \in Exec, entry'[e] # NoRun
        PROVE  execOf'[entry'[e]] = e /\ post'[entry'[e]] # "none"
    <3>1. CASE entry'[e] = entry[e]
      <4>1. entry[e] \in Run /\ execOf[entry[e]] = e /\ post[entry[e]] # "none"
        BY <2>2, <3>1 DEF EntriesOfRuns
      <4>2. phase[entry[e]] # "idle"
        BY <4>1 DEF EntriesOfRuns, EntryOfRun, Registered
      <4> QED
        BY <1>2, <3>1, <4>1, <4>2, PhaseFacts, PostFacts
    <3>2. ASSUME NEW r \in Run, AddEntry(r), execOf[r] = e, entry'[e] = r
          PROVE  execOf'[entry'[e]] = e /\ post'[entry'[e]] # "none"
      BY <3>2 DEF AddEntry
    <3> QED
      BY <1>0, <1>2, <2>2, <3>1, <3>2, EntryFacts
  <2> QED
    BY <1>0, <1>2, <2>1, <2>2, NobodyWaitsStep DEF EntriesOfRuns
<1> QED
  BY <1>1, <1>2

\* Without Wait nodes every capacity is given back: stops, timeouts, denied and refused runs,
\* shutdowns and crashes included.  (With them it is not: run CapacityLeak.)
THEOREM CapacityIsReturned ==
  ASSUME CanWait = FALSE
  PROVE  Spec => []CapacityReturned
<1> DEFINE I == Typing /\ OneRunAtATime /\ ReservedByRuns /\ EntriesOfRuns
<1>1. Init => ReservedByRuns /\ EntriesOfRuns
  BY DEF Init, CCInit, ReservedByRuns, EntriesOfRuns, NobodyWaits, EntryOfRun, Registered, Nowhere,
         Nobody, NotYet, Run
<1>2. Init => I
  BY <1>1, TypingInit, OneRunInit
<1>3. I /\ [Next]_vars => I'
  BY TypingStep, OneRunStep, ReservedStep, EntriesStep
<1>4. I => CapacityReturned
  <2> SUFFICES ASSUME I, \A r \in Run : Over(r), NEW r \in Run, reservation[r] = "acquired"
               PROVE  FALSE
    BY DEF CapacityReturned
  <2>1. phase[r] \in {"idle", "done"} /\ post[r] # "settled"
    BY DEF Over
  <2> QED
    BY <2>1 DEF ReservedByRuns, EntriesOfRuns, EntryOfRun
<1> QED
  BY <1>2, <1>3, <1>4, PTL DEF Spec
(***************************************************************************)
(* The graceful exit, and the life of the status column.                   *)
(***************************************************************************)

\* Without stops and timeouts nobody cancels an engine or rejects its promise.
LEMMA UndisturbedStep ==
  ASSUME CanStop = FALSE, CanTimeOut = FALSE, Typing, Undisturbed, [Next]_vars
  PROVE  Undisturbed'
<1> USE DEF Typing, LifecycleTypeOK
<1>1. CASE Exit \/ Crash
  BY <1>1, EmptyMemory DEF Undisturbed, Exit, Crash, Forget
<1>2. CASE ~Exit /\ ~Crash
  <2>1. /\ \A r \in Run : ~Timeout(r) /\ ~CancelSave(r)
        /\ \A e \in Exec : ~StopRead(e) /\ ~StopAct(e) /\ ~StopWrite(e)
    BY DEF Undisturbed, Timeout, CancelSave, StopRead, StopAct, StopWrite
  <2>2. ASSUME NEW r \in Run, Execute(r) \/ Complete(r)
        PROVE  UNCHANGED <<stopper, aborted, cancelSave>> /\ \A s \in Run : ~timer'[s]
    BY <2>2 DEF Undisturbed, Execute, Complete, processVars
  <2>3. ASSUME \A r \in Run : ~Execute(r) /\ ~Complete(r)
        PROVE  UNCHANGED <<stopper, abortVars>>
    BY <1>2, <2>1, <2>3
       DEF Next, RunStep, Create, RequestResume, RunEnqueued, Reserve, Mark, Refuse, AddEntry, Deny,
           SetRunning, PutToWait, FinishEngine, FinalSave, Finally, BeginShutdown, Start,
           FindEnqueued, processVars, vars
  <2> QED
    BY <2>2, <2>3 DEF Undisturbed, abortVars
<1> QED
  BY <1>1, <1>2

\* Then only finalizeExecution() settles the promise of an entry: that of its own run.
LEMMA PromisesStep ==
  ASSUME CanStop = FALSE, CanTimeOut = FALSE, CanWait = FALSE, Typing, OneRunAtATime,
         EntriesOfRuns, Undisturbed, PromisesArePending, [Next]_vars
  PROVE  PromisesArePending'
<1> SUFFICES ASSUME NEW s \in Run, Registered(s)' PROVE post'[s] = "pending"
  BY DEF PromisesArePending
<1> USE DEF Typing, LifecycleTypeOK
<1>1. ~Exit /\ ~Crash
  BY EmptyMemory DEF Registered
<1>2. CASE AddEntry(s)
  BY <1>2 DEF AddEntry
<1>3. CASE ~AddEntry(s)
  <2>1. Registered(s)
    BY <1>1, <1>3, PhaseFacts DEF Registered, EntriesOfRuns, NobodyWaits
  <2>2. post[s] = "pending"
    BY <2>1 DEF PromisesArePending
  <2>3. /\ \A r \in Run : ~Timeout(r)
        /\ \A e \in Exec : ~StopAct(e)
    BY DEF Undisturbed, Timeout, StopAct
  <2>4. ASSUME NEW r \in Run, Complete(r), entry[execOf[r]] = s
        PROVE  FALSE
    <3>1. Registered(r) /\ execOf[r] \in Exec
      BY <2>4 DEF Complete, Goto, Registered
    <3>2. execOf[s] = execOf[r] /\ ~restart[r] /\ ~restart[s]
      BY <2>1, <2>4, <3>1, NoRunAssumption DEF EntriesOfRuns, EntryOfRun
    <3>3. r = s
      BY <2>1, <3>1, <3>2 DEF OneRunAtATime, Registered
    <3> QED
      BY <2>4, <3>3 DEF Complete, Goto, Registered
  <2> QED
    BY <1>1, <1>3, <2>2, <2>3, <2>4, PostFacts
<1> QED
  BY <1>2, <1>3

\* A process ends by the return of its shutdown or by a crash: no other step ends it.
LEMMA ProcessEnds ==
  ASSUME [Next]_vars, server # "down", server' = "down"
  PROVE  Exit \/ Crash
<1>1. ASSUME NEW r \in Run, NEW e \in Exec, Create(r, e) \/ RequestResume(r, e) \/ RunEnqueued(r, e)
      PROVE  FALSE
  BY <1>1 DEF Create, RequestResume, RunEnqueued, processVars
<1>2. ASSUME NEW r \in Run, RunStep(r)
      PROVE  FALSE
  <2>1. CASE Reserve(r) \/ Mark(r) \/ Refuse(r) \/ AddEntry(r)
    BY <2>1 DEF Reserve, Mark, Refuse, AddEntry, processVars
  <2>2. CASE Deny(r) \/ SetRunning(r) \/ Execute(r) \/ PutToWait(r)
    BY <2>2 DEF Deny, SetRunning, Execute, PutToWait, processVars
  <2>3. CASE FinishEngine(r) \/ FinalSave(r) \/ Complete(r)
    BY <2>3 DEF FinishEngine, FinalSave, Complete, processVars
  <2>4. CASE Finally(r) \/ CancelSave(r) \/ Timeout(r)
    BY <2>4 DEF Finally, CancelSave, Timeout, processVars
  <2> QED
    BY <1>2, <2>1, <2>2, <2>3, <2>4 DEF RunStep
<1>3. ASSUME NEW e \in Exec, StopRead(e) \/ StopAct(e) \/ StopWrite(e)
      PROVE  FALSE
  BY <1>3 DEF StopRead, StopAct, StopWrite
<1>4. CASE BeginShutdown \/ Start \/ FindEnqueued
  BY <1>4 DEF BeginShutdown, Start, FindEnqueued
<1>5. CASE UNCHANGED vars
  BY <1>5 DEF vars, processVars
<1> QED
  BY <1>1, <1>2, <1>3, <1>4, <1>5 DEF Next

\* Until the next process starts, nothing runs.
LEMMA NothingRunsWhenDown ==
  ASSUME [Next]_vars, server = "down", ~Start
  PROVE  phase' = phase
<1>1. ASSUME NEW r \in Run, NEW e \in Exec, Create(r, e) \/ RequestResume(r, e) \/ RunEnqueued(r, e)
      PROVE  FALSE
  BY <1>1 DEF Create, RequestResume, RunEnqueued, Alive, Open
<1>2. ASSUME NEW r \in Run, RunStep(r)
      PROVE  FALSE
  <2>1. CASE Reserve(r) \/ Mark(r) \/ Refuse(r) \/ AddEntry(r)
    BY <2>1 DEF Reserve, Mark, Refuse, AddEntry, MarkNew, MarkExisting, Goto, Alive
  <2>2. CASE Deny(r) \/ SetRunning(r) \/ Execute(r) \/ PutToWait(r)
    BY <2>2 DEF Deny, SetRunning, Execute, PutToWait, Goto, Alive
  <2>3. CASE FinishEngine(r) \/ FinalSave(r) \/ Complete(r)
    BY <2>3 DEF FinishEngine, FinalSave, Complete, Goto, Alive
  <2>4. CASE Finally(r) \/ CancelSave(r) \/ Timeout(r)
    BY <2>4 DEF Finally, CancelSave, Timeout, Goto, Alive
  <2> QED
    BY <1>2, <2>1, <2>2, <2>3, <2>4 DEF RunStep
<1>3. ASSUME NEW e \in Exec, StopRead(e) \/ StopAct(e) \/ StopWrite(e)
      PROVE  FALSE
  BY <1>3 DEF StopRead, StopAct, StopWrite, Alive, Open
<1>4. CASE BeginShutdown \/ Exit \/ Crash \/ FindEnqueued
  BY <1>4 DEF BeginShutdown, Exit, Crash, FindEnqueued, Alive, Open
<1>5. CASE UNCHANGED vars
  BY <1>5 DEF vars, runVars
<1> QED
  BY <1>1, <1>2, <1>3, <1>4, <1>5 DEF Next

\* The loop of shutdown() leaves no workflow behind: a run that has not been saved keeps its
\* entry, since nothing but its own end settles its promise (active-executions.ts).
THEOREM ExitIsGraceful ==
  ASSUME CanStop = FALSE, CanTimeOut = FALSE, CanWait = FALSE
  PROVE  Spec => GracefulExit
<1> DEFINE I == /\ Typing /\ OneRunAtATime /\ ReservedByRuns
                /\ EntriesOfRuns /\ Undisturbed /\ PromisesArePending
           Graceful == (server = "stopping" /\ server' = "down" /\ crashes' = crashes)
                         => \A r \in Run : phase[r] \notin {"starting", "executing", "waiting", "saving"}
<1>1. Init => ReservedByRuns /\ EntriesOfRuns /\ Undisturbed /\ PromisesArePending
  BY DEF Init, CCInit, ReservedByRuns, EntriesOfRuns, NobodyWaits, EntryOfRun, Registered, Undisturbed,
         PromisesArePending, Nowhere, Nobody, NotYet, Run
<1>2. Init => I
  BY <1>1, TypingInit, OneRunInit
<1>3. I /\ [Next]_vars => I'
  BY TypingStep, OneRunStep, ReservedStep, EntriesStep, UndisturbedStep, PromisesStep
<1>4. ASSUME I, [Next]_vars
      PROVE  Graceful
  <2> SUFFICES ASSUME server = "stopping", server' = "down", crashes' = crashes, NEW r \in Run,
                      phase[r] \in {"starting", "executing", "waiting", "saving"}
               PROVE  FALSE
    OBVIOUS
  <2>1. ~Crash
    BY <1>4 DEF Crash, Typing, LifecycleTypeOK
  <2>2. Exit
    BY <1>4, <2>1, ProcessEnds
  <2>3. Registered(r) /\ execOf[r] \in Exec
    BY <1>4 DEF Registered, EntriesOfRuns, NobodyWaits, Typing
  <2>4. entry[execOf[r]] = r
    BY <1>4, <2>3 DEF PromisesArePending, EntriesOfRuns, EntryOfRun
  <2> QED
    BY <2>2, <2>3, <2>4, NoRunAssumption DEF Exit
<1>5. I /\ [Next]_vars => [Graceful]_vars
  BY <1>4
<1> QED
  BY <1>2, <1>3, <1>5, PTL DEF Spec, GracefulExit

\* Every run finds its row as it expects it: nobody else writes it.
LEMMA RowsStep ==
  ASSUME CanStop = FALSE, CanTimeOut = FALSE, Typing, Typing', OneRunAtATime, OneRunAtATime',
         Undisturbed, RowsFollowRuns, [Next]_vars
  PROVE  RowsFollowRuns'
<1> USE DEF Typing, LifecycleTypeOK
<1>1. CASE Exit \/ Crash
  BY <1>1, EmptyMemory DEF RowsFollowRuns, Underway, Fresh
<1>2. CASE Start
  <2>1. \A r \in Run : phase'[r] = "idle"
    BY <1>2 DEF Start, RowsFollowRuns, runVars
  <2> QED
    BY <2>1 DEF RowsFollowRuns, Underway, Fresh
<1>3. CASE ~Exit /\ ~Crash /\ ~Start
  <2>1. server' = "down" => server = "down" /\ phase' = phase
    <3> HIDE DEF Typing
    <3> QED
      BY <1>3, ProcessEnds, NothingRunsWhenDown
  <2>2. ASSUME NEW r \in Run
        PROVE  phase'[r] = "saving" => outcome'[r] \in {"success", "error", "waiting"}
    <3>1. ASSUME NEW s \in Run, FinishEngine(s) \/ Deny(s)
          PROVE  phase'[r] = "saving" => outcome'[r] \in {"success", "error", "waiting"}
      BY <3>1 DEF FinishEngine, Deny, Goto, RowsFollowRuns, Undisturbed
    <3>2. ASSUME \A s \in Run : ~FinishEngine(s) /\ ~Deny(s)
          PROVE  outcome' = outcome
      BY <1>3, <3>2 DEF Next, RunStep, Create, RequestResume, RunEnqueued, Reserve, Mark, Refuse, AddEntry,
                        SetRunning, Execute, PutToWait, FinalSave, Complete, Finally, CancelSave,
                        Timeout, StopRead, StopAct, StopWrite, BeginShutdown, FindEnqueued, runVars, vars
    <3>3. ~FinishEngine(r) /\ ~Deny(r) /\ phase'[r] = "saving" => phase[r] = "saving"
      BY <1>3, PhaseFacts
    <3> QED
      BY <3>1, <3>2, <3>3 DEF RowsFollowRuns
  <2>3. /\ \A r \in Run : ~CancelSave(r)
        /\ \A e \in Exec : ~StopWrite(e)
    BY DEF Undisturbed, CancelSave, StopWrite
  <2>4. ASSUME NEW r \in Run, Underway(r)'
        PROVE  row'[execOf'[r]] = "running"
    <3> DEFINE e == execOf[r]
    <3>1. execOf'[r] = e /\ phase[r] # "idle" /\ e \in Exec
      BY <1>3, <2>4, PhaseFacts DEF Underway
    <3>2. CASE Mark(r)
      BY <2>4, <3>1, <3>2 DEF Mark, MarkNew, MarkExisting, Write, Goto, Underway
    <3>3. CASE ~Mark(r)
      <4>1. Underway(r)
        BY <1>3, <2>4, <3>3, PhaseFacts DEF Underway
      <4>2. row[e] = "running"
        BY <4>1 DEF RowsFollowRuns
      <4>3. ASSUME NEW s \in Run, execOf[s] = e, FinalSave(s)
            PROVE  FALSE
        <5>1. Underway(s) /\ phase'[s] = "saved"
          BY <4>3 DEF FinalSave, Goto, Underway
        <5>2. s = r
          BY <4>1, <4>3, <5>1 DEF OneRunAtATime, SingleExecutor
        <5> QED
          BY <2>4, <5>1, <5>2 DEF Underway
      <4> QED
        BY <1>3, <2>3, <3>1, <4>2, <4>3, RowFacts
    <3> QED
      BY <3>2, <3>3
  <2>5. ASSUME NEW r \in Run, Fresh(r)'
        PROVE  row'[execOf'[r]] = "new"
    <3>1. CASE phase[r] = "idle"
      <4>1. PICK e \in Exec : Create(r, e) \/ RequestResume(r, e) \/ RunEnqueued(r, e)
        BY <1>3, <2>5, <3>1, PhaseFacts DEF Fresh
      <4>2. restart'[r] = FALSE
        BY <2>5 DEF Fresh
      <4>3. Create(r, e)
        BY <4>1, <4>2 DEF RequestResume, RunEnqueued
      <4> QED
        BY <4>3 DEF Create, Write
    <3>2. CASE phase[r] # "idle"
      <4> DEFINE e == execOf[r]
      <4>1. execOf'[r] = e /\ e \in Exec /\ Fresh(r)
        BY <1>3, <2>5, <3>2, PhaseFacts DEF Fresh
      <4>2. row[e] = "new"
        BY <4>1 DEF RowsFollowRuns
      <4>3. ASSUME NEW s \in Run, execOf[s] = e, FinalSave(s)
            PROVE  FALSE
        <5>1. Underway(s)
          BY <4>3 DEF FinalSave, Goto, Underway
        <5> QED
          BY <4>1, <4>3, <5>1 DEF OneRunAtATime
      <4>4. ASSUME NEW s \in Run, execOf[s] = e, SetRunning(s) \/ Mark(s),
                   phase'[s] \in {"marked", "starting"}
            PROVE  FALSE
        <5>1. Underway(s)' /\ execOf'[s] = e
          BY <4>4 DEF Underway, SetRunning, Mark
        <5> QED
          BY <2>5, <4>1, <5>1 DEF OneRunAtATime
      <4> QED
        BY <1>3, <2>3, <4>1, <4>2, <4>3, <4>4, RowFacts
    <3> QED
      BY <3>1, <3>2
  <2> QED
    BY <2>1, <2>2, <2>4, <2>5 DEF RowsFollowRuns
<1> QED
  BY <1>1, <1>2, <1>3

\* Without stops and timeouts each write of the status column is the step its readers expect,
\* and every other step leaves the column alone.
LEMMA StatusStep ==
  ASSUME CanStop = FALSE, CanTimeOut = FALSE, Typing, Undisturbed, RowsFollowRuns, [Next]_vars
  PROVE  [Status!Next]_row
<1> USE DEF Typing, LifecycleTypeOK
<1>1. ASSUME NEW r \in Run, NEW e \in Exec, Create(r, e)
      PROVE  Status!Enqueue(e)
  BY <1>1 DEF Create, Write, Status!Enqueue, Status!Become
<1>2. ASSUME NEW r \in Run, Mark(r)
      PROVE  \/ Status!Start(execOf[r]) \/ Status!Resume(execOf[r])
             \/ UNCHANGED row
  BY <1>2 DEF Mark, MarkNew, MarkExisting, Goto, Write, Fresh, RowsFollowRuns, Status!Start,
              Status!Resume, Status!Become
<1>3. ASSUME NEW r \in Run, SetRunning(r)
      PROVE  UNCHANGED row
  <2>1. row[execOf[r]] = "running" /\ row' = [row EXCEPT ![execOf[r]] = "running"]
    BY <1>3 DEF SetRunning, Goto, Underway, RowsFollowRuns, Write
  <2> QED
    BY <2>1
<1>4. ASSUME NEW r \in Run, FinalSave(r)
      PROVE  Status!Suspend(execOf[r]) \/ Status!Finish(execOf[r])
  <2>1. /\ row[execOf[r]] = "running" /\ outcome[r] \in {"success", "error", "waiting"}
        /\ row' = [row EXCEPT ![execOf[r]] = outcome[r]]
    BY <1>4 DEF FinalSave, Goto, Underway, RowsFollowRuns, Write
  <2> QED
    BY <2>1 DEF Status!Suspend, Status!Finish, Status!Become
<1>5. ASSUME NEW r \in Run, Mark(r) \/ FinalSave(r)
      PROVE  execOf[r] \in Exec
  BY <1>5 DEF Mark, MarkNew, MarkExisting, FinalSave, Goto
<1>6. Start => Status!Recover
  BY DEF Start, Status!Recover
<1>7. ASSUME NEW r \in Run, NEW e \in Exec, RequestResume(r, e) \/ RunEnqueued(r, e)
      PROVE  UNCHANGED row
  BY <1>7 DEF RequestResume, RunEnqueued
<1>8. ASSUME NEW r \in Run,
             \/ Reserve(r) \/ Refuse(r) \/ AddEntry(r) \/ Deny(r) \/ Execute(r) \/ PutToWait(r)
             \/ FinishEngine(r) \/ Complete(r) \/ Finally(r) \/ Timeout(r)
      PROVE  UNCHANGED row
  BY <1>8 DEF Reserve, Refuse, AddEntry, Deny, Execute, PutToWait, FinishEngine, Complete,
              Finally, Timeout
<1>9. ASSUME NEW e \in Exec, StopRead(e) \/ StopAct(e) \/ StopWrite(e)
      PROVE  UNCHANGED row
  BY <1>9 DEF StopRead, StopAct, StopWrite, Undisturbed
<1>10. ASSUME NEW r \in Run, CancelSave(r)
       PROVE  UNCHANGED row
  BY <1>10 DEF CancelSave, Undisturbed
<1>11. BeginShutdown \/ Exit \/ Crash \/ FindEnqueued \/ UNCHANGED vars => UNCHANGED row
  BY DEF BeginShutdown, Exit, Crash, FindEnqueued, vars
<1>12. CASE UNCHANGED row
  BY <1>12
<1>13. CASE \E e \in Exec : \/ Status!Enqueue(e) \/ Status!Start(e) \/ Status!Resume(e)
                            \/ Status!Suspend(e) \/ Status!Finish(e)
  BY <1>13 DEF Status!Next
<1>14. CASE Start
  BY <1>6, <1>14 DEF Status!Next
<1> QED
  BY <1>1, <1>2, <1>3, <1>4, <1>5, <1>7, <1>8, <1>9, <1>10, <1>11, <1>12, <1>13, <1>14 DEF Next, RunStep

\* Executions that nobody stops, with waits, shutdowns and crashes: their status column lives as
\* its readers take it, in which a finished execution stays finished.
THEOREM StatusIsImplemented ==
  ASSUME CanStop = FALSE, CanTimeOut = FALSE
  PROVE  Spec => StatusSpec
<1> DEFINE I == Typing /\ OneRunAtATime /\ Undisturbed /\ RowsFollowRuns
<1>1. Init => Undisturbed /\ RowsFollowRuns
  BY DEF Init, Undisturbed, RowsFollowRuns, Underway, Fresh, Nowhere, NotYet
<1>2. Init => I
  BY <1>1, TypingInit, OneRunInit
<1>3. I /\ [Next]_vars => I'
  BY TypingStep, OneRunStep, UndisturbedStep, RowsStep
<1>4. Init => Status!Init
  BY DEF Init, Status!Init
<1>5. I /\ [Next]_vars => [Status!Next]_row
  BY StatusStep
<1> QED
  BY <1>2, <1>3, <1>4, <1>5, PTL DEF Spec, StatusSpec, Status!Spec
=============================================================================
