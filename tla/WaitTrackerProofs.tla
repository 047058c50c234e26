-------------------------- MODULE WaitTrackerProofs --------------------------
(***************************************************************************)
(* The wait tracker, for every number of instances, executions, waits,     *)
(* failures and restarts.                                                  *)
(***************************************************************************)
EXTENDS WaitTracker, TLAPS

\* In the first term of a process every entry of the map has a timer or a resumption in
\* flight: stopTracking() clears timers, but nothing is tracked after it.
ServedInFirstTerm ==
    \A h \in Host : terms[h] = 1 /\ tracking[h] =>
       \A e \in waiting[h] : timer[h][e] # 0 \/ starting[h][e] # "no"

\* A row changes, time passes: the memory of the instances stays.
LEMMA RowStepTypes ==
    ASSUME TypeOK, NEW e \in Execution,
           \/ PutToWait(e) \/ Succeed(e) \/ WebhookResume(e)
           \/ \E w \in Wait : TimePasses(e, w)
           \/ \E h \in Host : StopDuringRun(h, e)
    PROVE  TypeOK' /\ UNCHANGED <<tracker, poll, waiting, timer, starting>>
<1> USE BoundsAssumption DEF TypeOK, Wait, rows, tracker, poll
<1>1. CASE PutToWait(e)
  <2>1. PICK t \in {"far", "never"} : time' = [time EXCEPT ![e][waits[e] + 1] = t]
    BY <1>1 DEF PutToWait
  <2>2. time' \in [Execution -> [Wait -> {"far", "near", "due", "never"}]]
    BY <2>1
  <2>3. waits' \in [Execution -> 0 .. MaxWaits]
    BY <1>1 DEF PutToWait
  <2> QED
    BY <1>1, <2>2, <2>3 DEF PutToWait
<1>2. CASE Succeed(e) \/ WebhookResume(e)
  <2>1. PICK s \in {"success", "running"} : status' = [status EXCEPT ![e] = s]
    BY <1>2 DEF Succeed, WebhookResume
  <2>2. status' \in [Execution -> {"running", "waiting", "success", "canceled"}]
    BY <2>1
  <2>3. UNCHANGED <<waits, time, stopping, tracker, poll, waiting, timer, starting, failures>>
    BY <1>2 DEF Succeed, WebhookResume
  <2> QED
    BY <2>2, <2>3
<1>3. ASSUME NEW w \in Wait, TimePasses(e, w)
      PROVE  TypeOK' /\ UNCHANGED <<tracker, poll, waiting, timer, starting>>
  <2>1. PICK t \in {"near", "due"} : time' = [time EXCEPT ![e][w] = t]
    BY <1>3 DEF TimePasses
  <2>2. time' \in [Execution -> [Wait -> {"far", "near", "due", "never"}]]
    BY <2>1
  <2> QED
    BY <1>3, <2>2 DEF TimePasses
<1>4. ASSUME NEW h \in Host, StopDuringRun(h, e)
      PROVE  TypeOK' /\ UNCHANGED <<tracker, poll, waiting, timer, starting>>
  BY <1>4 DEF StopDuringRun
<1> QED
  BY <1>1, <1>2, <1>3, <1>4

\* The constructor of a process leaves nothing in memory; before the first poll nothing is
\* known.
LEMMA InitTypes == Init => TypeOK
BY BoundsAssumption DEF Init, TypeOK, NoTimer, Idle, Wait

\* Polls and their answers, the beginning and the end of a term.
LEMMA PollStepTypes ==
    ASSUME TypeOK, NEW h \in Host,
           \/ Poll(h) \/ Query(h) \/ SetTimers(h) \/ PollFails(h)
           \/ StartTracking(h) \/ StopTracking(h) \/ Restart(h)
    PROVE  TypeOK'
<1> USE BoundsAssumption DEF TypeOK, Wait, rows, tracker, poll
<1>1. CASE Poll(h)
  BY <1>1 DEF Poll, BeginPoll
<1>7. CASE StartTracking(h)
  <2>1. terms'[h] # 0 /\ terms' \in [Host -> 0 .. MaxTerms]
    BY <1>7 DEF StartTracking
  <2> QED
    BY <1>7, <2>1 DEF StartTracking, BeginPoll
<1>2. CASE Query(h)
  BY <1>2 DEF Query
<1>3. CASE SetTimers(h)
  BY <1>3 DEF SetTimers, New, NoTimer
<1>4. CASE PollFails(h)
  BY <1>4 DEF PollFails
<1>5. CASE StopTracking(h)
  BY <1>5 DEF StopTracking
<1>6. CASE Restart(h)
  BY <1>6 DEF Restart, NoTimer, Idle
<1> QED
  BY <1>1, <1>2, <1>3, <1>4, <1>5, <1>6, <1>7

\* An entry is taken out of the map of an instance.
LEMMA EntryRemoved ==
    ASSUME waiting \in [Host -> SUBSET Execution], NEW h \in Host, NEW e \in Execution,
           waiting' = [waiting EXCEPT ![h] = @ \ {e}]
    PROVE  /\ waiting' \in [Host -> SUBSET Execution]
           /\ \A g \in Host : waiting'[g] = IF g = h THEN waiting[g] \ {e} ELSE waiting[g]
<1>1. waiting \in [Host -> SUBSET Execution]
  OBVIOUS
<1>2. waiting[h] \ {e} \in SUBSET Execution
  BY <1>1
<1> DEFINE rest == waiting[h] \ {e}
<1>3. waiting' = [waiting EXCEPT ![h] = rest]
  OBVIOUS
<1>4. \A g \in Host : waiting'[g] = IF g = h THEN rest ELSE waiting[g]
  <2> HIDE DEF rest
  <2> QED
    BY <1>1, <1>3
<1>5. waiting' \in [Host -> SUBSET Execution]
  <2>1. rest \in SUBSET Execution
    BY <1>2
  <2> HIDE DEF rest
  <2> QED
    BY <1>1, <1>3, <2>1
<1> QED
  BY <1>4, <1>5

\* Timers, resumptions and stops.
LEMMA StartStepTypes ==
    ASSUME TypeOK, NEW h \in Host, NEW e \in Execution,
           \/ StopExecution(h, e) \/ TimerFires(h, e) \/ ReadExecution(h, e)
           \/ Resume(h, e) \/ StartFails(h, e)
    PROVE  TypeOK'
<1> USE BoundsAssumption DEF TypeOK, Wait, rows, tracker, poll
<1>1. CASE StopExecution(h, e)
  <2>1. /\ waiting' = waiting \/ waiting' = [waiting EXCEPT ![h] = @ \ {e}]
        /\ timer' = timer \/ timer' = [timer EXCEPT ![h][e] = 0]
    BY <1>1 DEF StopExecution
  <2>2. timer' \in [Host -> [Execution -> 0 .. MaxWaits]]
    <3>1. timer' = [timer EXCEPT ![h][e] = 0] => timer' \in [Host -> [Execution -> 0 .. MaxWaits]]
      OBVIOUS
    <3> QED
      BY <2>1, <3>1
  <2>3. waiting' \in [Host -> SUBSET Execution] /\ \A g \in Host : waiting[g] = {} => waiting'[g] = {}
    <3> HIDE DEF TypeOK
    <3>1. waiting \in [Host -> SUBSET Execution]
      BY DEF TypeOK
    <3>2. CASE waiting' = waiting
      BY <3>1, <3>2
    <3>3. CASE waiting' = [waiting EXCEPT ![h] = @ \ {e}]
      BY <3>1, <3>3, EntryRemoved
    <3> QED
      BY <2>1, <3>2, <3>3
  <2> QED
    BY <1>1, <2>2, <2>3 DEF StopExecution
<1>2. CASE TimerFires(h, e)
  <2>1. timer' = [timer EXCEPT ![h][e] = 0] /\ starting' = [starting EXCEPT ![h][e] = "read"]
    BY <1>2 DEF TimerFires
  <2>2. timer' \in [Host -> [Execution -> 0 .. MaxWaits]]
    BY <2>1
  <2>3. starting' \in [Host -> [Execution -> {"no", "read", "run"}]]
    BY <2>1
  <2> QED
    BY <1>2, <2>2, <2>3 DEF TimerFires
<1>3. CASE ReadExecution(h, e)
  <2>1. /\ \E p \in {"no", "run"} : starting' = [starting EXCEPT ![h][e] = p]
        /\ waiting' = waiting \/ waiting' = [waiting EXCEPT ![h] = @ \ {e}]
    BY <1>3 DEF ReadExecution, Finally
  <2>2. starting' \in [Host -> [Execution -> {"no", "read", "run"}]]
    BY <2>1
  <2>3. waiting' \in [Host -> SUBSET Execution] /\ \A g \in Host : waiting[g] = {} => waiting'[g] = {}
    <3> HIDE DEF TypeOK
    <3>1. waiting \in [Host -> SUBSET Execution]
      BY DEF TypeOK
    <3>2. CASE waiting' = waiting
      BY <3>1, <3>2
    <3>3. CASE waiting' = [waiting EXCEPT ![h] = @ \ {e}]
      BY <3>1, <3>3, EntryRemoved
    <3> QED
      BY <2>1, <3>2, <3>3
  <2> QED
    BY <1>3, <2>2, <2>3 DEF ReadExecution
<1>4. CASE Resume(h, e)
  BY <1>4 DEF Resume, Finally
<1>5. CASE StartFails(h, e)
  BY <1>5 DEF StartFails, Finally
<1> QED
  BY <1>1, <1>2, <1>3, <1>4, <1>5

\* Every step keeps the types.
LEMMA TypesStep == TypeOK /\ [Next]_vars => TypeOK'
<1>1. TypeOK /\ UNCHANGED vars => TypeOK'
  BY DEF TypeOK, vars, rows, tracker, poll
<1> QED
  BY <1>1, RowStepTypes, PollStepTypes, StartStepTypes DEF Next, ExecutionStep, Tracking

\* The state is well typed: the answer of a poll is dropped with the poll, and a process that
\* was never told to track neither polls nor remembers executions.
THEOREM TypeCorrect == Spec => []TypeOK
BY InitTypes, TypesStep, PTL DEF Spec

\* However polls, stale answers, timers, resumptions, failures and stops interleave, an entry
\* stays only with something that will remove it.
LEMMA ServedStep == TypeOK /\ ServedInFirstTerm /\ [Next]_vars => ServedInFirstTerm'
<1> SUFFICES ASSUME TypeOK, ServedInFirstTerm, [Next]_vars,
                    NEW h \in Host, terms'[h] = 1, tracking'[h], NEW e \in waiting'[h]
             PROVE  timer'[h][e] # 0 \/ starting'[h][e] # "no"
  BY DEF ServedInFirstTerm
<1> USE DEF TypeOK, rows, tracker, poll
<1>1. UNCHANGED <<tracker, waiting, timer, starting>>
        => timer'[h][e] # 0 \/ starting'[h][e] # "no"
  BY DEF ServedInFirstTerm
<1>2. ASSUME NEW f \in Execution,
             \/ PutToWait(f) \/ Succeed(f) \/ WebhookResume(f)
             \/ \E w \in Wait : TimePasses(f, w)
             \/ \E g \in Host : StopDuringRun(g, f)
      PROVE  timer'[h][e] # 0 \/ starting'[h][e] # "no"
  BY <1>1, <1>2, RowStepTypes
<1>3. ASSUME NEW g \in Host, Poll(g) \/ Query(g) \/ PollFails(g)
      PROVE  timer'[h][e] # 0 \/ starting'[h][e] # "no"
  BY <1>1, <1>3 DEF Poll, Query, PollFails
<1>4. ASSUME NEW g \in Host, StartTracking(g)
      PROVE  timer'[h][e] # 0 \/ starting'[h][e] # "no"
  <2>1. CASE g = h
    <3>1. terms[h] = 0
      <4>1. terms[h] \in Int /\ terms'[h] = terms[h] + 1
        BY <1>4, <2>1, BoundsAssumption DEF StartTracking
      <4> QED
        BY <4>1
    <3> QED
      BY <1>4, <3>1 DEF StartTracking
  <2>2. CASE g # h
    BY <1>4, <2>2 DEF StartTracking, ServedInFirstTerm
  <2> QED
    BY <2>1, <2>2
<1>5. ASSUME NEW g \in Host, StopTracking(g) \/ Restart(g)
      PROVE  timer'[h][e] # 0 \/ starting'[h][e] # "no"
  <2>1. g # h
    BY <1>5 DEF StopTracking, Restart
  <2> QED
    BY <1>5, <2>1 DEF StopTracking, Restart, ServedInFirstTerm
<1>6. ASSUME NEW g \in Host, SetTimers(g)
      PROVE  timer'[h][e] # 0 \/ starting'[h][e] # "no"
  BY <1>6 DEF SetTimers, New, ServedInFirstTerm
<1>7. ASSUME NEW g \in Host, NEW f \in Execution, StopExecution(g, f)
      PROVE  timer'[h][e] # 0 \/ starting'[h][e] # "no"
  <2>1. e \in waiting[h] /\ starting' = starting /\ terms' = terms /\ tracking' = tracking
    <3>1. waiting' = waiting \/ waiting' = [waiting EXCEPT ![g] = @ \ {f}]
      BY <1>7 DEF StopExecution
    <3>2. ASSUME waiting' = [waiting EXCEPT ![g] = @ \ {f}]
          PROVE  e \in waiting[h]
      <4>1. waiting'[h] = IF h = g THEN waiting[g] \ {f} ELSE waiting[h]
        BY <1>7, <3>2, EntryRemoved
      <4> QED
        BY <4>1
    <3>3. e \in waiting[h]
      BY <3>1, <3>2
    <3> QED
      BY <1>7, <3>3 DEF StopExecution
  <2>2. timer'[h][e] = timer[h][e]
    <3>1. CASE g = h /\ f = e
      BY <1>7, <3>1 DEF StopExecution
    <3>2. CASE ~(g = h /\ f = e)
      BY <1>7, <2>1, <3>2 DEF StopExecution
    <3> QED
      BY <3>1, <3>2
  <2> QED
    BY <2>1, <2>2 DEF ServedInFirstTerm
<1>8. ASSUME NEW g \in Host, NEW f \in Execution, TimerFires(g, f)
      PROVE  timer'[h][e] # 0 \/ starting'[h][e] # "no"
  BY <1>8 DEF TimerFires, ServedInFirstTerm
<1>9. ASSUME NEW g \in Host, NEW f \in Execution,
             ReadExecution(g, f) \/ Resume(g, f) \/ StartFails(g, f)
      PROVE  timer'[h][e] # 0 \/ starting'[h][e] # "no"
  <2>1. CASE Finally(g, f)
    <3>1. e \in waiting[h] /\ timer' = timer /\ terms' = terms /\ tracking' = tracking /\ ~(g = h /\ f = e)
      BY <1>9, <2>1 DEF ReadExecution, Resume, StartFails, Finally
    <3>2. starting'[h][e] = starting[h][e]
      BY <2>1, <3>1 DEF Finally
    <3> QED
      BY <3>1, <3>2 DEF ServedInFirstTerm
  <2>2. CASE ~Finally(g, f)
    <3>1. /\ e \in waiting[h] /\ timer' = timer /\ terms' = terms /\ tracking' = tracking
          /\ starting[g][f] = "read" /\ starting' = [starting EXCEPT ![g][f] = "run"]
      BY <1>9, <2>2 DEF ReadExecution, Resume, StartFails
    <3>2. starting[h][e] # "no" => starting'[h][e] # "no"
      BY <3>1
    <3> QED
      BY <3>1, <3>2 DEF ServedInFirstTerm
  <2> QED
    BY <2>1, <2>2
<1>10. CASE UNCHANGED vars
  BY <1>1, <1>10 DEF vars
<1> QED
  BY <1>2, <1>3, <1>4, <1>5, <1>6, <1>7, <1>8, <1>9, <1>10 DEF Next, ExecutionStep, Tracking

\* In its first term an instance never forgets an execution that its map keeps out of the
\* polls, whatever it was told before in the lives of earlier processes.
THEOREM FirstTermIsServed == Spec => []ServedInFirstTerm
<1>1. Init => ServedInFirstTerm
  BY DEF Init, ServedInFirstTerm
<1> QED
  BY <1>1, InitTypes, TypesStep, ServedStep, PTL DEF Spec

\* Where no process tracks twice, each entry of the map leads to a resumption.  (After a second
\* term it need not: stopTracking() keeps the entries whose timers it clears.)
THEOREM EveryEntryIsServed ==
    ASSUME MaxTerms = 1
    PROVE  Spec => []EntriesAreServed
<1>1. Init => ServedInFirstTerm
  BY DEF Init, ServedInFirstTerm
<1>2. TypeOK /\ ServedInFirstTerm => EntriesAreServed
  <2> SUFFICES ASSUME TypeOK, ServedInFirstTerm, NEW h \in Host, tracking[h]
               PROVE  terms[h] = 1
    BY DEF EntriesAreServed, ServedInFirstTerm
  <2>1. terms[h] \in 0 .. 1 /\ terms[h] # 0
    BY DEF TypeOK
  <2> QED
    BY <2>1
<1> QED
  BY <1>1, <1>2, InitTypes, TypesStep, ServedStep, PTL DEF Spec
==============================================================================
