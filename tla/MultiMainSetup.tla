--------------------------- MODULE MultiMainSetup ---------------------------
(***************************************************************************)
(* Leader election among the main instances (multi-main-setup.ee.ts): one  *)
(* Redis key holds the id of the leader and expires unless it is renewed;  *)
(* every instance looks at it once per interval.  A check is a chain of    *)
(* commands to Redis, each executed, and each answer handled, at a moment  *)
(* of its own.  Time advances in ticks: a tick waits for every timer and   *)
(* every call that is due, so a check is over Latency ticks after it began.*)
(*                                                                         *)
(* The module follows the instance through its start (start.ts:193-288)    *)
(* and its stop (start.ts:84-108), because the leader's services listen to *)
(* the election only from registerEventHandlers() on.  The wait tracker    *)
(* stands for these services: `tracking` is whether its poll timer runs.   *)
(***************************************************************************)
EXTENDS Integers

CONSTANTS Host,       \* main instances, by host id; a restart keeps the id (Docker)
          Nobody,     \* no instance holds the key
          TTL,        \* N8N_MULTI_MAIN_SETUP_KEY_TTL
          Interval,   \* N8N_MULTI_MAIN_SETUP_CHECK_INTERVAL
          Latency,    \* a check, and a command of start or stop, takes no longer
          MaxChecks,  \* bound: checks of one instance in flight at a time
          MaxStarts,  \* bound: starts of each instance, [Host -> Nat]
          MaxLosses   \* bound: times that Redis loses the key

\* The ttl leaves room for the interval, the slowest check, the slowest call of
\* init() and the slowest call of shutdown(); the bound on checks is never met.
ASSUME TimingAssumption ==
    /\ TTL \in Nat /\ Interval \in Nat \ {0} /\ Latency \in Nat /\ MaxChecks \in Nat
    /\ TTL > Interval + 3 * Latency
    /\ Latency < MaxChecks * Interval

ASSUME BoundsAssumption == MaxStarts \in [Host -> Nat] /\ MaxLosses \in Nat /\ Nobody \notin Host

VARIABLES key,         \* the leader key: a host id or Nobody
          ttl,         \* ticks until the key expires
          proc,        \* how far the instance is in its start or stop
          role,        \* instanceSettings.instanceRole
          timer,       \* ticks until the check interval fires
          calls,       \* calls[h][s]: slot 0 for init() and shutdown(), the others for checks
          listening,   \* registerEventHandlers() has been called
          tracking,    \* the wait tracker polls
          starts,      \* starts so far, for the bound
          losses,      \* keys lost so far, for the bound
          undisturbed  \* history: Redis has kept the key, and no instance found a key
                       \* that its previous process had left

vars == <<key, ttl, proc, role, timer, calls, listening, tracking, starts, losses, undisturbed>>
redis == <<key, ttl>>
local == <<proc, role, timer, listening, tracking>>
bounds == <<starts, losses, undisturbed>>

Slots == 0 .. MaxChecks
Steps == {"idle", "get", "own", "other", "vacant", "set", "won", "lost", "expire", "del"}
Call == [at : Steps, left : 0 .. Latency]
Idle == [at |-> "idle", left |-> 0]
Ask(step) == [at |-> step, left |-> Latency]

Checking == {"booting", "deaf", "ready", "quitting"}       \* the interval is set
Running == Checking \cup {"electing"}
ProcState == Running \cup {"down", "clearing", "leaving"}

Init ==
    /\ key = Nobody /\ ttl = 0
    /\ proc = [h \in Host |-> "down"]
    /\ role = [h \in Host |-> "unset"]
    /\ timer = [h \in Host |-> 0]
    /\ calls = [h \in Host |-> [s \in Slots |-> Idle]]
    /\ listening = [h \in Host |-> FALSE]
    /\ tracking = [h \in Host |-> FALSE]
    /\ starts = [h \in Host |-> 0]
    /\ losses = 0
    /\ undisturbed = TRUE

(***************************************************************************)
(* The two events, and what the wait tracker does when it hears them.      *)
(***************************************************************************)
EmitTakeover(h) == tracking' = [tracking EXCEPT ![h] = @ \/ listening[h]]
EmitStepdown(h) == tracking' = [tracking EXCEPT ![h] = @ /\ ~listening[h]]

BecomeLeader(h) == role' = [role EXCEPT ![h] = "leader"] /\ EmitTakeover(h)
BecomeFollower(h) == role' = [role EXCEPT ![h] = "follower"]

At(h, s, step) == calls[h][s].at = step
Proceed(h, s, step) == calls' = [calls EXCEPT ![h][s].at = step]
Done(h, s) == calls' = [calls EXCEPT ![h][s] = Idle]

(***************************************************************************)
(* The commands, as Redis executes them.  EXPIRE extends whatever key is   *)
(* there, and DEL removes it, whoever holds it.                            *)
(***************************************************************************)
Get(h, s) ==
    /\ At(h, s, "get")
    /\ Proceed(h, s, IF key = h THEN "own" ELSE IF key = Nobody THEN "vacant" ELSE "other")
    /\ UNCHANGED <<redis, local, bounds>>

\* Mutant: the result of the SET is not looked at.
SetUnchecked(h, s) ==
    /\ At(h, s, "set")
    /\ key' = IF key = Nobody THEN h ELSE key
    /\ ttl' = IF key = Nobody THEN TTL ELSE ttl
    /\ Proceed(h, s, "won")
    /\ UNCHANGED <<local, bounds>>

\* setIfNotExists(): SET key id EX ttl NX
SetNX(h, s) ==
    /\ At(h, s, "set")
    /\ \/ /\ key = Nobody
          /\ key' = h /\ ttl' = TTL
          /\ Proceed(h, s, "won")
       \/ /\ key # Nobody
          /\ Proceed(h, s, "lost")
          /\ UNCHANGED redis
    /\ UNCHANGED <<local, bounds>>

Expire(h, s) ==
    /\ At(h, s, "expire")
    /\ ttl' = IF key = Nobody THEN ttl ELSE TTL
    /\ Done(h, s)
    /\ UNCHANGED <<key, local, bounds>>

Del(h) ==
    /\ At(h, 0, "del")
    /\ key' = Nobody /\ ttl' = 0
    /\ Done(h, 0)
    /\ proc' = [proc EXCEPT ![h] = "leaving"]
    /\ UNCHANGED <<role, timer, listening, tracking, bounds>>

(***************************************************************************)
(* checkLeader(): the interval fires; the answer to GET has three cases.   *)
(***************************************************************************)
CheckLeader(h) ==
    /\ proc[h] \in Checking /\ timer[h] = 0
    /\ \E s \in Slots \ {0} :
          /\ At(h, s, "idle") /\ \A t \in 1 .. s - 1 : ~At(h, t, "idle")
          /\ calls' = [calls EXCEPT ![h][s] = Ask("get")]
    /\ timer' = [timer EXCEPT ![h] = Interval]
    /\ UNCHANGED <<redis, proc, role, listening, tracking, bounds>>

\* Mutant: the instance that finds its id renews the key and goes on as a follower.
OwnKeyUnmarked(h, s) ==
    /\ At(h, s, "own")
    /\ Proceed(h, s, "expire")
    /\ UNCHANGED <<redis, local, bounds>>

OwnKey(h, s) ==
    /\ At(h, s, "own")
    /\ IF role[h] = "leader" THEN UNCHANGED <<role, tracking>> ELSE BecomeLeader(h)
    /\ Proceed(h, s, "expire")
    /\ UNCHANGED <<redis, proc, timer, listening, bounds>>

\* Mutant: the event is not emitted.
OtherLeaderSilently(h, s) ==
    /\ At(h, s, "other")
    /\ BecomeFollower(h)
    /\ Done(h, s)
    /\ UNCHANGED <<redis, proc, timer, listening, tracking, bounds>>

OtherLeader(h, s) ==
    /\ At(h, s, "other")
    /\ IF role[h] = "leader" THEN BecomeFollower(h) /\ EmitStepdown(h)
                             ELSE UNCHANGED <<role, tracking>>
    /\ Done(h, s)
    /\ UNCHANGED <<redis, proc, timer, listening, bounds>>

Vacant(h, s) ==
    /\ At(h, s, "vacant")
    /\ BecomeFollower(h) /\ EmitStepdown(h)
    /\ Proceed(h, s, "set")
    /\ UNCHANGED <<redis, proc, timer, listening, bounds>>

\* Mutant: tryBecomeLeader() without its else branch.
ElectedKeepsRole(h, s) ==
    /\ \/ At(h, s, "won") /\ BecomeLeader(h)
       \/ At(h, s, "lost") /\ UNCHANGED <<role, tracking>>
    /\ Done(h, s)
    /\ IF s = 0 THEN /\ proc' = [proc EXCEPT ![h] = "booting"]
                     /\ timer' = [timer EXCEPT ![h] = Interval]
                ELSE UNCHANGED <<proc, timer>>
    /\ UNCHANGED <<redis, listening, bounds>>

(***************************************************************************)
(* tryBecomeLeader() after its SET: from init() it is followed by the      *)
(* setInterval(), and the start goes on; from checkLeader() it is the end. *)
(***************************************************************************)
Elected(h, s) ==
    /\ \/ At(h, s, "won") /\ BecomeLeader(h)
       \/ At(h, s, "lost") /\ BecomeFollower(h) /\ UNCHANGED tracking
    /\ Done(h, s)
    /\ IF s = 0 THEN /\ proc' = [proc EXCEPT ![h] = "booting"]
                     /\ timer' = [timer EXCEPT ![h] = Interval]
                ELSE UNCHANGED <<proc, timer>>
    /\ UNCHANGED <<redis, listening, bounds>>

(***************************************************************************)
(* Start, stop and crash of an instance.                                   *)
(***************************************************************************)
\* initOrchestration() calls MultiMainSetup.init().
Start(h) ==
    /\ proc[h] = "down" /\ starts[h] < MaxStarts[h]
    /\ proc' = [proc EXCEPT ![h] = "electing"]
    /\ calls' = [calls EXCEPT ![h][0] = Ask("set")]
    /\ starts' = [starts EXCEPT ![h] = @ + 1]
    /\ undisturbed' = (undisturbed /\ key # h)
    /\ UNCHANGED <<redis, role, timer, listening, tracking, losses>>

\* WaitTracker.init(): tracks if this instance is the leader now.
InitTracker(h) ==
    /\ proc[h] = "booting"
    /\ proc' = [proc EXCEPT ![h] = "deaf"]
    /\ tracking' = [tracking EXCEPT ![h] = role[h] = "leader"]
    /\ UNCHANGED <<redis, calls, role, timer, listening, bounds>>

\* The end of Start.init().
RegisterEventHandlers(h) ==
    /\ proc[h] = "deaf"
    /\ proc' = [proc EXCEPT ![h] = "ready"]
    /\ listening' = [listening EXCEPT ![h] = TRUE]
    /\ UNCHANGED <<redis, calls, role, timer, tracking, bounds>>

\* stopProcess(): stopTracking() first, with the check interval still on.
StopProcess(h) ==
    /\ proc[h] \in {"booting", "deaf", "ready"}
    /\ proc' = [proc EXCEPT ![h] = "quitting"]
    /\ tracking' = [tracking EXCEPT ![h] = FALSE]
    /\ UNCHANGED <<redis, calls, role, timer, listening, bounds>>

\* Mutant: every instance clears the key when it stops.
ShutdownAlwaysClears(h) ==
    /\ proc[h] = "quitting"
    /\ timer' = [timer EXCEPT ![h] = 0]
    /\ proc' = [proc EXCEPT ![h] = "clearing"]
    /\ calls' = [calls EXCEPT ![h][0] = Ask("del")]
    /\ UNCHANGED <<redis, role, listening, tracking, bounds>>

\* MultiMainSetup.shutdown(): the interval is cleared, a check in flight is not.
Shutdown(h) ==
    /\ proc[h] = "quitting"
    /\ timer' = [timer EXCEPT ![h] = 0]
    /\ \/ /\ role[h] = "leader"
          /\ proc' = [proc EXCEPT ![h] = "clearing"]
          /\ calls' = [calls EXCEPT ![h][0] = Ask("del")]
       \/ /\ role[h] # "leader"
          /\ proc' = [proc EXCEPT ![h] = "leaving"]
          /\ UNCHANGED calls
    /\ UNCHANGED <<redis, role, listening, tracking, bounds>>

\* The process ends; a command that has not been executed never is.
End(h) ==
    /\ proc' = [proc EXCEPT ![h] = "down"]
    /\ role' = [role EXCEPT ![h] = "unset"]
    /\ timer' = [timer EXCEPT ![h] = 0]
    /\ calls' = [calls EXCEPT ![h] = [s \in Slots |-> Idle]]
    /\ listening' = [listening EXCEPT ![h] = FALSE]
    /\ tracking' = [tracking EXCEPT ![h] = FALSE]
    /\ UNCHANGED <<redis, bounds>>

Exit(h) == proc[h] = "leaving" /\ End(h)
Crash(h) == proc[h] \notin {"down", "leaving"} /\ End(h)

(***************************************************************************)
(* Redis: it may lose the key (a restart or a failover), and it expires it.*)
(***************************************************************************)
LoseKey ==
    /\ key # Nobody /\ losses < MaxLosses
    /\ key' = Nobody /\ ttl' = 0
    /\ losses' = losses + 1
    /\ undisturbed' = FALSE
    /\ UNCHANGED <<local, calls, starts>>

Due(h) ==
    \/ proc[h] \in Checking /\ timer[h] = 0
    \/ \E s \in Slots : calls[h][s].at # "idle" /\ calls[h][s].left = 0

Decrease(n) == IF n = 0 THEN 0 ELSE n - 1

Tick ==
    /\ \A h \in Host : ~Due(h)
    /\ ttl' = Decrease(ttl)
    /\ key' = IF ttl <= 1 THEN Nobody ELSE key
    /\ timer' = [h \in Host |-> Decrease(timer[h])]
    /\ calls' = [h \in Host |-> [s \in Slots |->
                   [calls[h][s] EXCEPT !.left = Decrease(@)]]]
    /\ UNCHANGED <<proc, role, listening, tracking, bounds>>

CallStep(h, s) ==
    \/ Get(h, s) \/ SetNX(h, s) \/ Expire(h, s)
    \/ OwnKey(h, s) \/ OtherLeader(h, s) \/ Vacant(h, s) \/ Elected(h, s)

Step(h) == CheckLeader(h) \/ Del(h) \/ \E s \in Slots : CallStep(h, s)

Lifecycle(h) ==
    \/ Start(h) \/ InitTracker(h) \/ RegisterEventHandlers(h)
    \/ StopProcess(h) \/ Shutdown(h) \/ Exit(h) \/ Crash(h)

Next == Tick \/ LoseKey \/ \E h \in Host : Step(h) \/ Lifecycle(h)

Spec == Init /\ [][Next]_vars

\* Time passes: between two ticks there are finitely many steps, and a tick waits until
\* the event loops and Redis have done what is due.
FairSpec == Spec /\ WF_vars(Tick \/ \E h \in Host : Step(h))

(***************************************************************************)
(* Properties                                                              *)
(***************************************************************************)
\* Types, and what goes with them: the key has a ttl, and an instance has a role from
\* the end of init() on (instance-settings.ts, multi-main-setup.ee.ts).
TypeOK ==
    /\ key \in Host \cup {Nobody} /\ ttl \in 0 .. TTL
    /\ (key = Nobody) <=> (ttl = 0)
    /\ proc \in [Host -> ProcState]
    /\ role \in [Host -> {"unset", "leader", "follower"}]
    /\ \A h \in Host : (role[h] = "unset") <=> (proc[h] \in {"down", "electing"})
    /\ timer \in [Host -> 0 .. Interval]
    /\ calls \in [Host -> [Slots -> Call]]
    /\ listening \in [Host -> BOOLEAN] /\ tracking \in [Host -> BOOLEAN]
    /\ starts \in [Host -> Nat] /\ losses \in 0 .. MaxLosses
    /\ undisturbed \in BOOLEAN

\* While Redis keeps the key and no id is reused over a live key, an instance that acts
\* as leader holds the key: an answer that says so is still true when it is handled.
LeaderHoldsKey ==
    undisturbed => \A h \in Host : proc[h] \in Running /\ role[h] = "leader" => key = h

\* Then the key of a running instance is never lost: neither does it expire before the
\* renewal nor does the shutdown of another instance delete it.
KeyKept ==
    [][\A h \in Host : key = h /\ proc[h] \in Running /\ undisturbed'
                       /\ proc'[h] \in Running => key' = h]_vars

\* An instance whose services listen never goes from leader to follower with its wait
\* tracker on (the checks do not overlap here).
StepdownAnnounced ==
    [][\A h \in Host : listening[h] /\ role[h] = "leader" /\ role'[h] = "follower"
                       => ~tracking'[h]]_vars

\* An instance that is up and leads tracks the waiting executions.
LeadersTrack == \A h \in Host : proc[h] = "ready" /\ role[h] = "leader" => tracking[h]

\* The key names a leader, and this instance's belief about itself agrees with it.
Settled(h) == key # Nobody /\ (role[h] = "leader") = (key = h)

\* As long as an instance goes on checking, a vacant leadership is taken, a stale leader
\* steps down, and the instance that finds its id in the key, be it from its previous
\* process, comes to know that it leads.
LeadershipSettles == \A h \in Host : []<>(Settled(h) \/ proc[h] \notin Checking)
=============================================================================
