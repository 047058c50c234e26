----------------------------- MODULE TaskBroker -----------------------------
(***************************************************************************)
(* The task broker (task-broker.service.ts), the local task requester      *)
(* (task-requester.ts) and the task runners (task-runner.ts): a Code node  *)
(* requests a task; the broker matches requests with the offers of         *)
(* runners, asks the runner to accept, hands over the settings, and brings *)
(* back the result.  Runners are processes behind a websocket each; they   *)
(* disconnect, hang and are restarted; timers of the broker and of the     *)
(* runner race with the messages under way.                                *)
(*                                                                         *)
(* Broker and requester share a process: what they tell each other is done *)
(* in the same turn of the event loop, hence in one action.  A request     *)
(* takes only offers of its task type, so this is the broker of one type.  *)
(* An offer is accepted at most once, so the task that an acceptance       *)
(* creates goes by the number of its offer.                                *)
(***************************************************************************)
EXTENDS Integers, FiniteSets, SequencesExt

CONSTANTS Request,         \* calls of startTask(), one execution each
          Runner,          \* task runners that may be connected at a time
          Launcher,        \* those of launchers, which start a runner on demand
          MaxConcurrency,  \* tasks that a runner runs at a time
          MaxOffers        \* bound: offers ever sent

ASSUME BrokerAssumption ==
    /\ Launcher \subseteq Runner
    /\ "nobody" \notin Runner /\ "none" \notin Request
    /\ MaxConcurrency \in Nat \ {0} /\ MaxOffers \in Nat

VARIABLES mode,                 \* "internal": n8n starts and restarts the runners
          isDraining,
          knownRunners,
          pendingTaskOffers,    \* offers in order of arrival
          pendingTaskRequests,  \* requests in order of arrival
          acceptInProgress,     \* requests with an offer that is being accepted
          requestTimer,         \* requests whose timeout is armed
          awaited,              \* acceptances that are still undecided
          tasks,
          taskTimer,            \* tasks that were sent their settings: their timeout
          call,                 \* where a call of startTask() is
          taskOf,               \* the task whose result the call waits for, or 0
          connection,           \* of a runner: "open", or "closed" by the runner
          canSendOffers,
          openOffers,
          status,               \* TaskState.status of the runner's task, or "none"
          toRunner, toBroker,   \* messages under way on each connection
          offeredBy,            \* the runner an offer came from, or "nobody"
          requestOf,            \* the request an offer was matched with, or "none"
          executed              \* tasks whose code was started, per request

matching == <<knownRunners, pendingTaskOffers, pendingTaskRequests, acceptInProgress,
              requestTimer, awaited, requestOf>>
handed == <<tasks, taskTimer, call, taskOf>>
runners == <<connection, canSendOffers, openOffers, status, offeredBy, executed>>
modes == <<mode, isDraining>>
vars == <<matching, handed, runners, modes, toRunner, toBroker>>

Offer == 1 .. MaxOffers
Sent == {o \in Offer : offeredBy[o] # "nobody"}
Running(r) == {o \in Sent : offeredBy[o] = r /\ status[o] # "none"}   \* runningTasks

\* list.filter(): the elements of a list that are in a set, in order.
Kept(list, set) ==
    LET kept[n \in 0 .. Len(list)] ==
            IF n = 0 THEN <<>>
            ELSE IF list[n] \in set THEN Append(kept[n - 1], list[n])
            ELSE kept[n - 1]
    IN kept[Len(list)]

Message(type, o) == [type |-> type, task |-> o]
ToRunnerType == {"registered", "accept", "settings", "cancel", "drain"}
ToBrokerType == {"offer", "accepted", "rejected", "deferred", "result"}

\* What is sent on a connection that is gone is lost, and onRunnerMessage() ignores what a
\* runner sends that is not known any more.
Deliver(r, said) ==
    IF r \in knownRunners /\ connection[r] = "open" THEN toRunner[r] \o said ELSE toRunner[r]
SendTo(r, type, o) == toRunner' = [toRunner EXCEPT ![r] = Deliver(r, <<Message(type, o)>>)]
Reply(r, said) ==
    toBroker' = IF r \in knownRunners THEN [toBroker EXCEPT ![r] = @ \o said] ELSE toBroker

Init ==
    /\ mode \in {"internal", "external"}
    /\ isDraining = FALSE
    /\ knownRunners = {}
    /\ pendingTaskOffers = <<>> /\ pendingTaskRequests = <<>>
    /\ acceptInProgress = {} /\ requestTimer = {} /\ awaited = {}
    /\ tasks = {} /\ taskTimer = {}
    /\ call = [q \in Request |-> "none"] /\ taskOf = [q \in Request |-> 0]
    /\ connection = [r \in Runner |-> "closed"]
    /\ canSendOffers = {} /\ openOffers = {}
    /\ status = [o \in Offer |-> "none"]
    /\ toRunner = [r \in Runner |-> <<>>] /\ toBroker = [r \in Runner |-> <<>>]
    /\ offeredBy = [o \in Offer |-> "nobody"] /\ requestOf = [o \in Offer |-> "none"]
    /\ executed = [q \in Request |-> {}]

----------------------------------------------------------------------------
(* Broker: requests and offers.                                            *)

\* The requests that may be matched, in order.  A request that is listed twice is one
\* object: its first match sets acceptInProgress for both.
Matchable(requests) ==
    Kept([i \in DOMAIN requests |-> i],
         {i \in DOMAIN requests : /\ requests[i] \notin acceptInProgress
                                 /\ \A j \in 1 .. i - 1 : requests[j] # requests[i]})

\* What acceptOffer() tells a runner of these offers.
AcceptMessages(r, offers) ==
    LET own == Kept(offers, {o \in Offer : offeredBy[o] = r})
    IN [k \in DOMAIN own |-> Message("accept", own[k])]

\* settleTasks(): drops the expired offers, then gives the first offer to the first
\* request, and so on, and asks the runners (acceptOffer()).
SettleTasks(requests, offers) ==
    \E expired \in SUBSET {o \in Range(offers) : offeredBy[o] \notin Launcher} :
        LET fresh == Kept(offers, Offer \ expired)
            free == Matchable(requests)
            n == IF Len(free) < Len(fresh) THEN Len(free) ELSE Len(fresh)
            matched == SubSeq(fresh, 1, n)
        IN /\ pendingTaskRequests' = requests
           /\ pendingTaskOffers' = SubSeq(fresh, n + 1, Len(fresh))
           /\ acceptInProgress' = acceptInProgress \cup {requests[free[k]] : k \in 1 .. n}
           /\ awaited' = awaited \cup Range(matched)
           /\ requestOf' = [o \in Offer |->
                                IF \E k \in 1 .. n : matched[k] = o
                                THEN requests[free[CHOOSE k \in 1 .. n : matched[k] = o]]
                                ELSE requestOf[o]]
           /\ toRunner' = [r \in Runner |-> Deliver(r, AcceptMessages(r, matched))]

\* startTask() of the requester and taskRequested() of the broker.
StartTask(q) ==
    /\ call[q] = "none"
    /\ IF isDraining
       THEN /\ call' = [call EXCEPT ![q] = "done"]
            /\ UNCHANGED <<matching, toRunner>>
       ELSE /\ call' = [call EXCEPT ![q] = "waiting"]
            /\ requestTimer' = requestTimer \cup {q}
            /\ SettleTasks(Append(pendingTaskRequests, q), pendingTaskOffers)
            /\ UNCHANGED knownRunners
    /\ UNCHANGED <<tasks, taskTimer, taskOf, runners, modes, toBroker>>

\* Mutant: the requester is not told.
RequestTimeoutSilent(q) ==
    /\ q \in requestTimer
    /\ requestTimer' = requestTimer \ {q}
    /\ pendingTaskRequests' = RemoveFirst(pendingTaskRequests, q)
    /\ UNCHANGED <<knownRunners, pendingTaskOffers, acceptInProgress, awaited, requestOf,
                   tasks, taskTimer, call, taskOf, runners, modes, toRunner, toBroker>>

\* handleRequestTimeout() and requestExpired() of the requester.
RequestTimeout(q) ==
    /\ q \in requestTimer
    /\ requestTimer' = requestTimer \ {q}
    /\ pendingTaskRequests' = RemoveFirst(pendingTaskRequests, q)
    /\ call' = [call EXCEPT ![q] =
                    IF q \in Range(pendingTaskRequests) /\ @ = "waiting" THEN "done" ELSE @]
    /\ UNCHANGED <<knownRunners, pendingTaskOffers, acceptInProgress, awaited, requestOf,
                   tasks, taskTimer, taskOf, runners, modes, toRunner, toBroker>>

\* A message of a runner at the broker.
Receives(r, type, o) ==
    /\ toBroker[r] # <<>> /\ Head(toBroker[r]) = Message(type, o)
    /\ toBroker' = [toBroker EXCEPT ![r] = Tail(@)]

TaskOffered(r, o) ==
    /\ Receives(r, "offer", o)
    /\ SettleTasks(pendingTaskRequests, Append(pendingTaskOffers, o))
    /\ UNCHANGED <<knownRunners, requestTimer, handed, runners, modes>>

----------------------------------------------------------------------------
(* Broker: the acceptance of an offer (acceptOffer()).                     *)

\* The runner accepts.  The request may have expired meanwhile: then the task stays
\* without settings.  Otherwise the requester is told; if the call still waits, it sends
\* its settings, which the broker passes on; if not, it cancels the task.
HandleRunnerAccept(r, o) ==
    /\ Receives(r, "accepted", o)
    /\ IF o \notin awaited
       THEN UNCHANGED <<matching, handed, toRunner>>
       ELSE LET q == requestOf[o]
                pending == q \in Range(pendingTaskRequests)
                wanted == pending /\ call[q] = "waiting"
            IN /\ awaited' = awaited \ {o}
               /\ requestTimer' = requestTimer \ {q}
               /\ pendingTaskRequests' = RemoveFirst(pendingTaskRequests, q)
               /\ tasks' = IF pending /\ ~wanted THEN tasks ELSE tasks \cup {o}
               /\ taskTimer' = IF wanted THEN taskTimer \cup {o} ELSE taskTimer
               /\ call' = IF wanted THEN [call EXCEPT ![q] = "running"] ELSE call
               /\ taskOf' = IF wanted THEN [taskOf EXCEPT ![q] = o] ELSE taskOf
               /\ IF pending THEN SendTo(r, IF wanted THEN "settings" ELSE "cancel", o)
                             ELSE UNCHANGED toRunner
               /\ UNCHANGED <<knownRunners, pendingTaskOffers, acceptInProgress, requestOf>>
    /\ UNCHANGED <<runners, modes>>

\* The acceptance is over without a task: the request may be matched again.
NotAccepted(o) ==
    /\ awaited' = awaited \ {o}
    /\ acceptInProgress' = acceptInProgress \ {requestOf[o]}

HandleRunnerReject(r, o) ==
    /\ Receives(r, "rejected", o)
    /\ IF o \in awaited THEN NotAccepted(o) ELSE UNCHANGED <<awaited, acceptInProgress>>
    /\ UNCHANGED <<knownRunners, pendingTaskOffers, pendingTaskRequests, requestTimer,
                   requestOf, handed, runners, modes, toRunner>>

\* Mutant: the timeout is cleared and not armed again.
DeferredWithoutTimer(r, o) ==
    /\ Receives(r, "deferred", o)
    /\ IF o \in awaited
       THEN /\ NotAccepted(o)
            /\ requestTimer' = requestTimer \ {requestOf[o]}
            /\ pendingTaskRequests' = Append(pendingTaskRequests, requestOf[o])
       ELSE UNCHANGED <<awaited, acceptInProgress, requestTimer, pendingTaskRequests>>
    /\ UNCHANGED <<knownRunners, pendingTaskOffers, requestOf, handed, runners, modes, toRunner>>

\* A launcher asks for patience: the request is listed again, with a new timeout.
HandleRunnerDeferred(r, o) ==
    /\ Receives(r, "deferred", o)
    /\ IF o \in awaited
       THEN /\ NotAccepted(o)
            /\ requestTimer' = requestTimer \cup {requestOf[o]}
            /\ pendingTaskRequests' = Append(pendingTaskRequests, requestOf[o])
       ELSE UNCHANGED <<awaited, acceptInProgress, requestTimer, pendingTaskRequests>>
    /\ UNCHANGED <<knownRunners, pendingTaskOffers, requestOf, handed, runners, modes, toRunner>>

\* The runner did not answer within two seconds.
AcceptTimeout(o) ==
    /\ o \in awaited
    /\ NotAccepted(o)
    /\ UNCHANGED <<knownRunners, pendingTaskOffers, pendingTaskRequests, requestTimer,
                   requestOf, handed, runners, modes, toRunner, toBroker>>

----------------------------------------------------------------------------
(* Broker: tasks.                                                          *)

\* These tasks end, and the calls that wait for one of them return: the requester knows a
\* task only while its call waits for it.  (The timer of a task that cancelTask() or
\* failTask() has removed finds nothing when it fires: it is dropped with the task.)
Answer(ended) ==
    /\ tasks' = tasks \ ended
    /\ taskTimer' = taskTimer \ (ended \cap tasks)
    /\ call' = [q \in Request |-> IF taskOf[q] \in ended \cap tasks THEN "done" ELSE call[q]]
    /\ taskOf' = [q \in Request |-> IF taskOf[q] \in ended \cap tasks THEN 0 ELSE taskOf[q]]

\* taskDoneHandler() and taskErrorHandler(): both end the task and answer the call.
HandleResult(r, o) ==
    /\ Receives(r, "result", o)
    /\ Answer({o})
    /\ UNCHANGED <<matching, runners, modes, toRunner>>

\* The processes of these runners are gone, with their tasks and what was under way to
\* them; what they sent before may still arrive.
Kill(gone) ==
    /\ connection' = [r \in Runner |-> IF r \in gone THEN "closed" ELSE connection[r]]
    /\ canSendOffers' = canSendOffers \ gone
    /\ openOffers' = {o \in openOffers : offeredBy[o] \notin gone}
    /\ status' = [o \in Offer |-> IF offeredBy[o] \in gone THEN "none" ELSE status[o]]
    /\ toRunner' = [r \in Runner |-> IF r \in gone THEN <<>> ELSE toRunner[r]]

\* Mutant: an external runner is not told.
TaskTimeoutSilent(o) ==
    /\ o \in tasks \cap taskTimer
    /\ Answer({o})
    /\ IF mode = "internal"
       THEN Kill({r \in Runner : connection[r] = "open"})
       ELSE UNCHANGED <<connection, canSendOffers, openOffers, status, toRunner>>
    /\ UNCHANGED <<matching, offeredBy, executed, modes, toBroker>>

\* handleTaskTimeout(): an internal runner is killed (forceRestart()), an external one is
\* told to cancel; the call gets an error.
TaskTimeout(o) ==
    /\ o \in tasks \cap taskTimer
    /\ Answer({o})
    /\ IF mode = "internal"
       THEN Kill({r \in Runner : connection[r] = "open"})
       ELSE /\ SendTo(offeredBy[o], "cancel", o)
            /\ UNCHANGED <<connection, canSendOffers, openOffers, status>>
    /\ UNCHANGED <<matching, offeredBy, executed, modes, toBroker>>

\* cancelTasks() of the requester for an execution that is cancelled, and cancelTask() of
\* the broker.  A call that still waits for a runner is not known by its execution yet.
CancelTasks(q) ==
    /\ call[q] = "running"
    /\ Answer({taskOf[q]})
    /\ SendTo(offeredBy[taskOf[q]], "cancel", taskOf[q])
    /\ UNCHANGED <<matching, runners, modes, toBroker>>

----------------------------------------------------------------------------
(* Broker: connections (task-broker-ws-server.ts).                         *)

\* A runner connects, introduces itself and is registered.  Launchers exist in external
\* mode only.  A restarted runner is a new one: it takes the place of one that is gone
\* and of which nobody knows any more.
Connect(r) ==
    /\ connection[r] = "closed" /\ r \notin knownRunners
    /\ r \in Launcher => mode = "external"
    /\ connection' = [connection EXCEPT ![r] = "open"]
    /\ knownRunners' = knownRunners \cup {r}
    /\ toRunner' = [toRunner EXCEPT ![r] = <<Message("registered", 0)>>]
    /\ UNCHANGED <<pendingTaskOffers, pendingTaskRequests, acceptInProgress, requestTimer,
                   awaited, requestOf, handed, canSendOffers, openOffers, status, offeredBy,
                   executed, modes, toBroker>>

\* Mutant: the offers of the runner stay.
DeregisterKeepsOffers(r) ==
    /\ r \in knownRunners
    /\ connection[r] = "closed" => toBroker[r] = <<>>
    /\ Answer({o \in tasks : offeredBy[o] = r})
    /\ knownRunners' = knownRunners \ {r}
    /\ toBroker' = [toBroker EXCEPT ![r] = <<>>]
    /\ UNCHANGED <<pendingTaskOffers, pendingTaskRequests, acceptInProgress, requestTimer,
                   awaited, requestOf, runners, modes, toRunner>>

\* Mutant: the requests of lost tasks are served again instead of failed.
DeregisterRequeues(r) ==
    LET lost == {o \in tasks : offeredBy[o] = r}
        again == {q \in Request : taskOf[q] \in lost}
    IN /\ r \in knownRunners
       /\ connection[r] = "closed" => toBroker[r] = <<>>
       /\ tasks' = tasks \ lost /\ taskTimer' = taskTimer \ lost
       /\ call' = [q \in Request |-> IF q \in again THEN "waiting" ELSE call[q]]
       /\ taskOf' = [q \in Request |-> IF q \in again THEN 0 ELSE taskOf[q]]
       /\ pendingTaskRequests' = pendingTaskRequests \o SetToSeq(again)
       /\ acceptInProgress' = acceptInProgress \ again
       /\ requestTimer' = requestTimer \cup again
       /\ knownRunners' = knownRunners \ {r}
       /\ pendingTaskOffers' = Kept(pendingTaskOffers, {o \in Offer : offeredBy[o] # r})
       /\ toBroker' = [toBroker EXCEPT ![r] = <<>>]
       /\ UNCHANGED <<awaited, requestOf, runners, modes, toRunner>>

\* removeConnection() and deregisterRunner(): once the close of the connection has been
\* noticed behind the last message, or when a living runner misses a heartbeat.
DeregisterRunner(r) ==
    /\ r \in knownRunners
    /\ connection[r] = "closed" => toBroker[r] = <<>>
    /\ Answer({o \in tasks : offeredBy[o] = r})
    /\ knownRunners' = knownRunners \ {r}
    /\ pendingTaskOffers' = Kept(pendingTaskOffers, {o \in Offer : offeredBy[o] # r})
    /\ toBroker' = [toBroker EXCEPT ![r] = <<>>]
    /\ UNCHANGED <<pendingTaskRequests, acceptInProgress, requestTimer, awaited, requestOf,
                   runners, modes, toRunner>>

\* drainActiveTasks().
StartDraining ==
    /\ ~isDraining
    /\ isDraining' = TRUE
    /\ toRunner' = [r \in Runner |-> Deliver(r, <<Message("drain", 0)>>)]
    /\ UNCHANGED <<matching, handed, runners, mode, toBroker>>

----------------------------------------------------------------------------
(* Runners.                                                                *)

\* A message of the broker at a runner that still runs.
Gets(r, type, o) ==
    /\ connection[r] = "open" /\ toRunner[r] # <<>>
    /\ Head(toRunner[r]) = Message(type, o)
    /\ toRunner' = [toRunner EXCEPT ![r] = Tail(@)]

\* sendOffers(), after the message said and with the tasks left running: stale offers are
\* forgotten, and there are as many offers as the free slots.
SendOffers(r, said, left) ==
    \E stale \in SUBSET {o \in openOffers : offeredBy[o] = r} :
        LET kept == {o \in openOffers : offeredBy[o] = r} \ stale
            sent == Cardinality(Sent)
            slots == MaxConcurrency - Cardinality(kept) - Cardinality(left)
            n == IF r \notin canSendOffers THEN 0
                 ELSE IF slots < MaxOffers - sent THEN slots ELSE MaxOffers - sent
        IN /\ offeredBy' = [o \in Offer |-> IF o \in sent + 1 .. sent + n THEN r ELSE offeredBy[o]]
           /\ openOffers' = (openOffers \ stale) \cup (sent + 1 .. sent + n)
           /\ Reply(r, said \o [k \in 1 .. n |-> Message("offer", sent + k)])

\* finishTask().
FinishTask(r, o, said) ==
    /\ status' = [status EXCEPT ![o] = "none"]
    /\ SendOffers(r, said, Running(r) \ {o})

\* startTaskOffers(); a launcher sends one offer that does not expire instead.
RunnerRegistered(r) ==
    /\ Gets(r, "registered", 0)
    /\ canSendOffers' = canSendOffers \cup {r}
    /\ UNCHANGED <<matching, handed, connection, openOffers, status, offeredBy, executed, modes,
                   toBroker>>

\* The interval of startTaskOffers().
OfferInterval(r) ==
    /\ connection[r] = "open" /\ r \in canSendOffers \ Launcher
    /\ SendOffers(r, <<>>, Running(r))
    /\ UNCHANGED <<matching, handed, connection, canSendOffers, status, executed, modes, toRunner>>

OfferAccepted(r, o) ==
    /\ r \notin Launcher
    /\ Gets(r, "accept", o)
    /\ openOffers' = openOffers \ {o}
    /\ IF Cardinality(Running(r)) < MaxConcurrency /\ o \in openOffers
       THEN /\ status' = [status EXCEPT ![o] = "waitingForSettings"]
            /\ Reply(r, <<Message("accepted", o)>>)
       ELSE Reply(r, <<Message("rejected", o)>>) /\ UNCHANGED status
    /\ UNCHANGED <<matching, handed, connection, canSendOffers, offeredBy, executed, modes>>

ReceivedSettings(r, o) ==
    /\ Gets(r, "settings", o)
    /\ IF status[o] = "waitingForSettings"
       THEN /\ status' = [status EXCEPT ![o] = "running"]
            /\ executed' = [executed EXCEPT ![requestOf[o]] = @ \cup {o}]
       ELSE UNCHANGED <<status, executed>>
    /\ UNCHANGED <<matching, handed, connection, canSendOffers, openOffers, offeredBy, modes,
                   toBroker>>

TaskCancelled(r, o) ==
    /\ Gets(r, "cancel", o)
    /\ CASE status[o] = "waitingForSettings" -> FinishTask(r, o, <<>>)
         [] status[o] = "running" ->
                /\ status' = [status EXCEPT ![o] = "aborting:cancelled"]
                /\ UNCHANGED <<openOffers, offeredBy, toBroker>>
         [] OTHER -> UNCHANGED <<status, openOffers, offeredBy, toBroker>>
    /\ UNCHANGED <<matching, handed, connection, canSendOffers, executed, modes>>

\* Mutant: a task without settings is not timed out.
RunnerTimeoutRunningOnly(r, o) ==
    /\ connection[r] = "open" /\ o \in Running(r) /\ status[o] = "running"
    /\ status' = [status EXCEPT ![o] = "aborting:timeout"]
    /\ UNCHANGED <<openOffers, offeredBy, toBroker>>
    /\ UNCHANGED <<matching, handed, connection, canSendOffers, executed, modes, toRunner>>

\* taskTimedOut(): the runner's own timer of a task.
RunnerTimeout(r, o) ==
    /\ connection[r] = "open" /\ o \in Running(r)
    /\ \/ /\ status[o] = "waitingForSettings"
          /\ FinishTask(r, o, <<Message("result", o)>>)
       \/ /\ status[o] = "running"
          /\ status' = [status EXCEPT ![o] = "aborting:timeout"]
          /\ UNCHANGED <<openOffers, offeredBy, toBroker>>
    /\ UNCHANGED <<matching, handed, connection, canSendOffers, executed, modes, toRunner>>

\* taskExecutionSucceeded() and taskExecutionFailed(): a cancelled task says nothing.
ExecutionEnds(r, o) ==
    /\ connection[r] = "open" /\ o \in Running(r) /\ status[o] # "waitingForSettings"
    /\ FinishTask(r, o, IF status[o] = "aborting:cancelled" THEN <<>>
                                                            ELSE <<Message("result", o)>>)
    /\ UNCHANGED <<matching, handed, connection, canSendOffers, executed, modes, toRunner>>

StopTaskOffers(r) ==
    /\ Gets(r, "drain", 0)
    /\ canSendOffers' = canSendOffers \ {r}
    /\ UNCHANGED <<matching, handed, connection, openOffers, status, offeredBy, executed, modes,
                   toBroker>>

\* The runner process ends: it crashes, is killed or has stopped.
RunnerExits(r) ==
    /\ connection[r] = "open"
    /\ Kill({r})
    /\ UNCHANGED <<matching, handed, offeredBy, executed, modes, toBroker>>

\* A launcher (its source is not part of the repository): one offer that does not expire,
\* answered with a deferral while it starts a runner.
LauncherOffers(r) ==
    /\ r \in Launcher \cap canSendOffers /\ connection[r] = "open"
    /\ \A o \in Sent : offeredBy[o] # r
    /\ SendOffers(r, <<>>, {})
    /\ UNCHANGED <<matching, handed, connection, canSendOffers, status, executed, modes, toRunner>>

LauncherDefers(r, o) ==
    /\ r \in Launcher
    /\ Gets(r, "accept", o)
    /\ Reply(r, <<Message("deferred", o)>>)
    /\ openOffers' = openOffers \ {o}
    /\ UNCHANGED <<matching, handed, connection, canSendOffers, status, offeredBy, executed,
                   modes>>

----------------------------------------------------------------------------
(* The system.                                                             *)

BrokerMessage(r) ==
    \E o \in Offer : \/ TaskOffered(r, o)
                     \/ HandleRunnerAccept(r, o) \/ HandleRunnerReject(r, o)
                     \/ HandleRunnerDeferred(r, o) \/ HandleResult(r, o)

RunnerMessage(r) ==
    \/ RunnerRegistered(r) \/ StopTaskOffers(r)
    \/ \E o \in Offer : \/ OfferAccepted(r, o) \/ LauncherDefers(r, o)
                        \/ ReceivedSettings(r, o) \/ TaskCancelled(r, o)

\* What happens sooner or later: the timers of broker and runners fire, and code that is
\* aborted ends.  No message is needed for that.
Progress ==
    \/ \E q \in Request : RequestTimeout(q)
    \/ \E o \in Offer : TaskTimeout(o)
    \/ \E r \in Runner, o \in Offer :
            RunnerTimeout(r, o) \/ (ExecutionEnds(r, o) /\ status[o] # "running")

Next ==
    \/ \E q \in Request : StartTask(q) \/ CancelTasks(q) \/ RequestTimeout(q)
    \/ \E o \in Offer : AcceptTimeout(o) \/ TaskTimeout(o)
    \/ StartDraining
    \/ \E r \in Runner : \/ Connect(r) \/ DeregisterRunner(r) \/ RunnerExits(r)
                         \/ OfferInterval(r) \/ LauncherOffers(r)
                         \/ BrokerMessage(r) \/ RunnerMessage(r)
                         \/ \E o \in Offer : RunnerTimeout(r, o) \/ ExecutionEnds(r, o)

Spec == Init /\ [][Next]_vars

FairSpec == Spec /\ WF_vars(Progress)

----------------------------------------------------------------------------
(* Properties.                                                             *)

\* Types of the variables.
TypeOK ==
    /\ mode \in {"internal", "external"} /\ isDraining \in BOOLEAN
    /\ knownRunners \subseteq Runner
    /\ pendingTaskOffers \in Seq(Offer) /\ pendingTaskRequests \in Seq(Request)
    /\ acceptInProgress \subseteq Request /\ requestTimer \subseteq Request
    /\ awaited \subseteq Offer /\ tasks \subseteq Offer /\ taskTimer \subseteq Offer
    /\ call \in [Request -> {"none", "waiting", "running", "done"}]
    /\ taskOf \in [Request -> {0} \cup Offer]
    /\ connection \in [Runner -> {"open", "closed"}]
    /\ canSendOffers \subseteq Runner /\ openOffers \subseteq Offer
    /\ status \in [Offer -> {"none", "waitingForSettings", "running", "aborting:cancelled",
                             "aborting:timeout"}]
    /\ toRunner \in [Runner -> Seq([type : ToRunnerType, task : {0} \cup Offer])]
    /\ toBroker \in [Runner -> Seq([type : ToBrokerType, task : {0} \cup Offer])]
    /\ offeredBy \in [Offer -> {"nobody"} \cup Runner]
    /\ requestOf \in [Offer -> {"none"} \cup Request]
    /\ executed \in [Request -> SUBSET Offer]

\* A call that waits is never forgotten: it waits for a runner with a request that is
\* listed and whose timeout is armed, or for a task that the broker has, with its timer.
CallsAreHeld ==
    \A q \in Request :
        /\ call[q] = "waiting" => q \in Range(pendingTaskRequests) /\ q \in requestTimer
        /\ call[q] = "running" => /\ taskOf[q] \in tasks \cap taskTimer
                                  /\ requestOf[taskOf[q]] = q

\* However acceptances time out, are rejected or deferred, and whatever is listed twice,
\* the code of a call is started at most once.
ExecutesOnce == \A q \in Request : Cardinality(executed[q]) <= 1

\* Code that runs on a connected runner is code whose result somebody waits for, or its
\* cancellation is under way, or the runner is about to be cut off.
RunningIsWanted ==
    \A o \in Sent :
        status[o] = "running" =>
            \/ call[requestOf[o]] = "running" /\ taskOf[requestOf[o]] = o
            \/ \E i \in DOMAIN toRunner[offeredBy[o]] :
                    toRunner[offeredBy[o]][i] = Message("cancel", o)
            \/ offeredBy[o] \notin knownRunners

\* The broker's lists name connected runners only: no request is matched with an offer,
\* and no call waits for a task, of a runner that was deregistered.
ListsNameKnownRunners ==
    \A o \in Range(pendingTaskOffers) \cup tasks : offeredBy[o] \in knownRunners

\* Every call of startTask() returns, whatever becomes of the runners.
EveryCallReturns == \A q \in Request : []<>(call[q] \in {"none", "done"})

\* Every slot of a runner becomes free again, that of a task nobody waits for included.
SlotsBecomeFree == \A o \in Offer : []<>(status[o] = "none")

\* task-broker.service.ts:595 logs of the contrary that it "shouldn't happen": when a
\* runner accepts a task, the request for it is still listed.
AcceptedRequestIsPending ==
    [][\A o \in Offer : o \in tasks' \ tasks =>
            requestOf[o] \in Range(pendingTaskRequests)]_vars
=============================================================================
