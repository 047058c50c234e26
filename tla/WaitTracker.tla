----------------------------- MODULE WaitTracker -----------------------------
(***************************************************************************)
(* The wait tracker (wait-tracker.ts): an instance that tracks polls the   *)
(* database for waiting executions whose time is near, arms a timer for    *)
(* each, and resumes the execution when the timer fires.  The polls, the   *)
(* timers and the resumptions of several instances interleave; a webhook   *)
(* may resume the same execution, which may wait again; users stop it.     *)
(*                                                                         *)
(* Leadership is the environment here (MultiMainSetup has its protocol): a *)
(* process is told to start and to stop tracking.                          *)
(***************************************************************************)
EXTENDS Integers

CONSTANTS Host,         \* main instances
          Execution,
          MaxWaits,     \* bound: waits of an execution
          MaxTerms,     \* bound: times that a process is told to track
          MaxFailures,  \* bound: failing database calls of the tracker
          Webhooks      \* whether webhooks may resume waiting executions

ASSUME BoundsAssumption ==
    /\ MaxWaits \in Nat \ {0} /\ MaxTerms \in Nat /\ MaxFailures \in Nat
    /\ Webhooks \in BOOLEAN

VARIABLES status,    \* the status column of the execution
          waits,     \* how often it has waited; the current wait while it is waiting
          time,      \* time[e][w]: how far waitTill of wait w is
          stopping,  \* instances between the two halves of stop() of an execution
          tracking,  \* the interval mainTimer is set
          terms,     \* times that this process was told to track, for the bound
          polling,   \* isPolling: the poll in flight, and where it is
          found,     \* the answer of the poll: wait found of each execution, or 0
          waiting,   \* waitingExecutions: the ids in the map
          timer,     \* timer[h][e]: the wait that the running timer is for, or 0
          starting,  \* startExecution() in flight
          failures   \* failed calls so far, for the bound

vars == <<status, waits, time, stopping, tracking, terms, polling, found, waiting, timer,
          starting, failures>>
rows == <<status, waits, time>>
tracker == <<tracking, terms>>
poll == <<polling, found>>

Wait == 1 .. MaxWaits
NoTimer == [e \in Execution |-> 0]
Idle == [e \in Execution |-> "no"]

Init ==
    /\ status = [e \in Execution |-> "running"]
    /\ waits = [e \in Execution |-> 0]
    /\ time = [e \in Execution |-> [w \in Wait |-> "far"]]
    /\ stopping = [e \in Execution |-> {}]
    /\ tracking = [h \in Host |-> FALSE]
    /\ terms = [h \in Host |-> 0]
    /\ polling = [h \in Host |-> "no"]
    /\ found = [h \in Host |-> NoTimer]
    /\ waiting = [h \in Host |-> {}]
    /\ timer = [h \in Host |-> NoTimer]
    /\ starting = [h \in Host |-> Idle]
    /\ failures = 0

(***************************************************************************)
(* The executions: they run, wait, are resumed by webhooks, and end.       *)
(***************************************************************************)
\* A wait for a point in time, or for a webhook only (WAIT_INDEFINITELY).
PutToWait(e) ==
    /\ status[e] = "running" /\ waits[e] < MaxWaits
    /\ status' = [status EXCEPT ![e] = "waiting"]
    /\ waits' = [waits EXCEPT ![e] = @ + 1]
    /\ \E t \in {"far"} \cup (IF Webhooks THEN {"never"} ELSE {}) :
          time' = [time EXCEPT ![e][waits[e] + 1] = t]
    /\ UNCHANGED <<stopping, tracker, poll, waiting, timer, starting, failures>>

Succeed(e) ==
    /\ status[e] = "running"
    /\ status' = [status EXCEPT ![e] = "success"]
    /\ UNCHANGED <<waits, time, stopping, tracker, poll, waiting, timer, starting, failures>>

WebhookResume(e) ==
    /\ Webhooks
    /\ status[e] = "waiting"
    /\ status' = [status EXCEPT ![e] = "running"]
    /\ UNCHANGED <<waits, time, stopping, tracker, poll, waiting, timer, starting, failures>>

\* waitTill comes within the lookahead of the query, then passes.
TimePasses(e, w) ==
    /\ w <= waits[e]
    /\ \/ time[e][w] = "far" /\ time' = [time EXCEPT ![e][w] = "near"]
       \/ time[e][w] = "near" /\ time' = [time EXCEPT ![e][w] = "due"]
    /\ UNCHANGED <<status, waits, stopping, tracker, poll, waiting, timer, starting, failures>>

(***************************************************************************)
(* stop() of the execution service, on instance h: the timer, then the row.*)
(***************************************************************************)
StopExecution(h, e) ==
    /\ status[e] \in {"waiting", "running"}
    /\ stopping[e] = {}               \* bound: one request to stop at a time
    /\ stopping' = [stopping EXCEPT ![e] = @ \cup {h}]
    /\ IF e \in waiting[h]
       THEN /\ waiting' = [waiting EXCEPT ![h] = @ \ {e}]
            /\ timer' = [timer EXCEPT ![h][e] = 0]
       ELSE UNCHANGED <<waiting, timer>>
    /\ UNCHANGED <<rows, tracker, poll, starting, failures>>

StopDuringRun(h, e) ==
    /\ h \in stopping[e]
    /\ stopping' = [stopping EXCEPT ![e] = @ \ {h}]
    /\ status' = [status EXCEPT ![e] = "canceled"]
    /\ UNCHANGED <<waits, time, tracker, poll, waiting, timer, starting, failures>>

(***************************************************************************)
(* Tracking: init() or 'leader-takeover', and 'leader-stepdown'.  Stopping *)
(* clears the timers of the entries, which stay in the map; a timer whose  *)
(* entry is gone (Finally of an earlier start) runs on.                    *)
(***************************************************************************)
BeginPoll(h) == polling' = [polling EXCEPT ![h] = IF @ = "no" THEN "asked" ELSE @]

StartTracking(h) ==
    /\ ~tracking[h] /\ terms[h] < MaxTerms
    /\ tracking' = [tracking EXCEPT ![h] = TRUE]
    /\ terms' = [terms EXCEPT ![h] = @ + 1]
    /\ BeginPoll(h)
    /\ UNCHANGED <<rows, stopping, found, waiting, timer, starting, failures>>

StopTracking(h) ==
    /\ tracking[h]
    /\ tracking' = [tracking EXCEPT ![h] = FALSE]
    /\ timer' = [timer EXCEPT ![h] =
                    [e \in Execution |-> IF e \in waiting[h] THEN 0 ELSE timer[h][e]]]
    /\ UNCHANGED <<rows, stopping, terms, poll, waiting, starting, failures>>

(***************************************************************************)
(* getWaitingExecutions(): the query, and its answer.                      *)
(***************************************************************************)
\* Mutant: the interval is set whether or not this instance is to track.
PollUntracked(h) ==
    /\ BeginPoll(h)
    /\ UNCHANGED <<rows, stopping, tracker, found, waiting, timer, starting, failures>>

\* mainTimer fires; isPolling skips the poll while one is in flight.
Poll(h) ==
    /\ tracking[h]
    /\ BeginPoll(h)
    /\ UNCHANGED <<rows, stopping, tracker, found, waiting, timer, starting, failures>>

\* The repository's query: waiting rows whose waitTill is within the lookahead.
Query(h) ==
    /\ polling[h] = "asked"
    /\ polling' = [polling EXCEPT ![h] = "answered"]
    /\ found' = [found EXCEPT ![h] = [e \in Execution |->
                   IF status[e] = "waiting" /\ time[e][waits[e]] \in {"near", "due"}
                   THEN waits[e] ELSE 0]]
    /\ UNCHANGED <<rows, stopping, tracker, waiting, timer, starting, failures>>

New(h) == {e \in Execution \ waiting[h] : found[h][e] # 0}

\* Mutant: isPolling is not reset.
SetTimersStillPolling(h) ==
    /\ polling[h] = "answered"
    /\ waiting' = [waiting EXCEPT ![h] = @ \cup New(h)]
    /\ timer' = [timer EXCEPT ![h] = [e \in Execution |->
                   IF e \in New(h) THEN found[h][e] ELSE timer[h][e]]]
    /\ found' = [found EXCEPT ![h] = NoTimer]
    /\ UNCHANGED <<rows, stopping, tracker, polling, starting, failures>>

\* The executions that are not in the map get a timer.
SetTimers(h) ==
    /\ polling[h] = "answered"
    /\ waiting' = [waiting EXCEPT ![h] = @ \cup New(h)]
    /\ timer' = [timer EXCEPT ![h] = [e \in Execution |->
                   IF e \in New(h) THEN found[h][e] ELSE timer[h][e]]]
    /\ polling' = [polling EXCEPT ![h] = "no"]
    /\ found' = [found EXCEPT ![h] = NoTimer]
    /\ UNCHANGED <<rows, stopping, tracker, starting, failures>>

\* The query fails; finally resets isPolling.
PollFails(h) ==
    /\ polling[h] = "asked" /\ failures < MaxFailures
    /\ failures' = failures + 1
    /\ polling' = [polling EXCEPT ![h] = "no"]
    /\ UNCHANGED <<rows, stopping, tracker, found, waiting, timer, starting>>

(***************************************************************************)
(* startExecution(): the row is read, then the runner registers the        *)
(* resumption, which succeeds for a row that is waiting.  However it ends, *)
(* finally deletes the entry.                                              *)
(***************************************************************************)
TimerFires(h, e) ==
    /\ timer[h][e] # 0 /\ time[e][timer[h][e]] = "due"
    /\ starting[h][e] = "no"          \* bound: one start of an execution per instance
    /\ timer' = [timer EXCEPT ![h][e] = 0]
    /\ starting' = [starting EXCEPT ![h][e] = "read"]
    /\ UNCHANGED <<rows, stopping, tracker, poll, waiting, failures>>

\* Mutant: the entry stays when the start is over.
FinallyKeepsEntry(h, e) ==
    /\ starting' = [starting EXCEPT ![h][e] = "no"]
    /\ UNCHANGED waiting

Finally(h, e) ==
    /\ starting' = [starting EXCEPT ![h][e] = "no"]
    /\ waiting' = [waiting EXCEPT ![h] = @ \ {e}]

ReadExecution(h, e) ==
    /\ starting[h][e] = "read"
    /\ \/ /\ status[e] # "success"
          /\ starting' = [starting EXCEPT ![h][e] = "run"]
          /\ UNCHANGED waiting
       \/ status[e] = "success" /\ Finally(h, e)
    /\ UNCHANGED <<rows, stopping, tracker, poll, timer, failures>>

Resume(h, e) ==
    /\ starting[h][e] = "run"
    /\ status' = [status EXCEPT ![e] = IF @ = "waiting" THEN "running" ELSE @]
    /\ Finally(h, e)
    /\ UNCHANGED <<waits, time, stopping, tracker, poll, timer, failures>>

StartFails(h, e) ==
    /\ starting[h][e] # "no" /\ failures < MaxFailures
    /\ failures' = failures + 1
    /\ Finally(h, e)
    /\ UNCHANGED <<rows, stopping, tracker, poll, timer>>

(***************************************************************************)
(* The process is replaced by a new one.                                   *)
(***************************************************************************)
Restart(h) ==
    /\ terms[h] # 0
    /\ tracking' = [tracking EXCEPT ![h] = FALSE]
    /\ terms' = [terms EXCEPT ![h] = 0]
    /\ polling' = [polling EXCEPT ![h] = "no"]
    /\ found' = [found EXCEPT ![h] = NoTimer]
    /\ waiting' = [waiting EXCEPT ![h] = {}]
    /\ timer' = [timer EXCEPT ![h] = NoTimer]
    /\ starting' = [starting EXCEPT ![h] = Idle]
    /\ stopping' = [e \in Execution |-> stopping[e] \ {h}]
    /\ UNCHANGED <<rows, failures>>

ExecutionStep(e) ==
    \/ PutToWait(e) \/ Succeed(e) \/ WebhookResume(e)
    \/ \E h \in Host : StopExecution(h, e)

Tracking(h) ==
    \/ Poll(h) \/ Query(h) \/ SetTimers(h)
    \/ \E e \in Execution :
          TimerFires(h, e) \/ ReadExecution(h, e) \/ Resume(h, e) \/ StopDuringRun(h, e)

Next ==
    \/ \E e \in Execution : ExecutionStep(e) \/ \E w \in Wait : TimePasses(e, w)
    \/ \E h \in Host : \/ Tracking(h) \/ StartTracking(h) \/ StopTracking(h)
                       \/ PollFails(h) \/ Restart(h)
                       \/ \E e \in Execution : StartFails(h, e)

Spec == Init /\ [][Next]_vars

\* Time passes, intervals fire, the database answers, and what it answered is handled.
FairSpec ==
    /\ Spec
    /\ \A e \in Execution, w \in Wait : WF_vars(TimePasses(e, w))
    /\ \A h \in Host :
          /\ WF_vars(Poll(h)) /\ WF_vars(Query(h)) /\ WF_vars(SetTimers(h))
          /\ \A e \in Execution :
                WF_vars(TimerFires(h, e)) /\ WF_vars(ReadExecution(h, e) \/ Resume(h, e))

(***************************************************************************)
(* Properties                                                              *)
(***************************************************************************)
\* Types; the answer of a poll is dropped when the poll ends, and a process that was
\* never told to track neither polls nor arms timers (wait-tracker.ts).
TypeOK ==
    /\ status \in [Execution -> {"running", "waiting", "success", "canceled"}]
    /\ waits \in [Execution -> 0 .. MaxWaits]
    /\ time \in [Execution -> [Wait -> {"far", "near", "due", "never"}]]
    /\ stopping \in [Execution -> SUBSET Host]
    /\ tracking \in [Host -> BOOLEAN] /\ terms \in [Host -> 0 .. MaxTerms]
    /\ polling \in [Host -> {"no", "asked", "answered"}]
    /\ found \in [Host -> [Execution -> 0 .. MaxWaits]]
    /\ waiting \in [Host -> SUBSET Execution]
    /\ timer \in [Host -> [Execution -> 0 .. MaxWaits]]
    /\ starting \in [Host -> [Execution -> {"no", "read", "run"}]]
    /\ failures \in 0 .. MaxFailures
    /\ \A h \in Host : /\ polling[h] # "answered" => found[h] = NoTimer
                       /\ terms[h] = 0 => ~tracking[h] /\ polling[h] = "no" /\ waiting[h] = {}

\* An entry of the map keeps an execution out of every later poll, so where an instance
\* tracks each entry has a timer, or a resumption in flight that will delete it.
EntriesAreServed ==
    \A h \in Host : tracking[h] =>
       \A e \in waiting[h] : timer[h][e] # 0 \/ starting[h][e] # "no"

\* The tracker never takes an execution out of a wait whose time has not come.
NoEarlyResume ==
    [][\A h \in Host, e \in Execution :
          starting[h][e] = "run" /\ status[e] = "waiting" /\ status'[e] = "running"
          /\ starting'[h][e] = "no" => time[e][waits[e]] = "due"]_vars

Overdue(e) == status[e] = "waiting" /\ time[e][waits[e]] = "due"

\* When an instance tracks for good, no execution waits beyond its time for good.
OverdueIsResumed ==
    (\E h \in Host : <>[]tracking[h]) => \A e \in Execution : []<>~Overdue(e)
=============================================================================
