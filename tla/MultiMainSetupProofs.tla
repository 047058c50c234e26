------------------------ MODULE MultiMainSetupProofs ------------------------
(***************************************************************************)
(* Proofs about the leader election, for any set of instances and any      *)
(* timing that satisfies TimingAssumption: the state is well typed, an     *)
(* instance that acts as leader holds the key, the key of a running        *)
(* instance is kept, and a leader that becomes a follower says so.         *)
(*                                                                         *)
(* The argument is about time.  Lease says how much of the ttl is left at  *)
(* every stage of the way to the next EXPIRE; it is stronger than "not     *)
(* expired" by one Latency, which is what the DEL of shutdown() may need.  *)
(***************************************************************************)
EXTENDS MultiMainSetup, TLAPS

USE DEF Steps, Checking, Running, ProcState, Idle, Ask, At, redis, local, bounds

CallsOK == calls \in [Host -> [Slots -> Call]]

\* The assumptions without their product of constants.
LEMMA Constants ==
    /\ TTL \in Nat /\ Interval \in Nat \ {0} /\ Latency \in Nat
    /\ TTL > Interval + 3 * Latency
    /\ Nobody \notin Host /\ 0 \in Slots
BY TimingAssumption, BoundsAssumption DEF TimingAssumption, BoundsAssumption, Slots

\* Every slot but s of h is what it was.
OthersKept(h, s) ==
    \A g \in Host, t \in Slots : (g # h \/ t # s) => calls'[g][t] = calls[g][t]

(***************************************************************************)
(* What the three updates of a slot do.                                    *)
(***************************************************************************)
\* Proceed changes the stage of one call and nothing else.
LEMMA ProceedEffect ==
    ASSUME CallsOK, NEW h \in Host, NEW s \in Slots, NEW step \in Steps, Proceed(h, s, step)
    PROVE  /\ CallsOK'
           /\ calls'[h][s].at = step /\ calls'[h][s].left = calls[h][s].left
           /\ OthersKept(h, s)
<1>1. calls[h] \in [Slots -> Call] /\ calls[h][s] \in Call
  BY DEF CallsOK
<1>2. DEFINE c == [calls[h][s] EXCEPT !.at = step]
<1>3. c \in Call /\ c.at = step /\ c.left = calls[h][s].left
  BY <1>1 DEF Call
<1>4. calls' = [calls EXCEPT ![h] = [calls[h] EXCEPT ![s] = c]]
  BY DEF Proceed
<1>5. CallsOK' /\ calls'[h][s] = c /\ OthersKept(h, s)
  <2> HIDE DEF c
  <2> QED BY <1>1, <1>3, <1>4 DEF CallsOK, OthersKept
<1> QED
  BY <1>3, <1>5

\* Done frees one slot.
LEMMA DoneEffect ==
    ASSUME CallsOK, TimingAssumption, NEW h \in Host, NEW s \in Slots, Done(h, s)
    PROVE  /\ CallsOK'
           /\ calls'[h][s].at = "idle"
           /\ OthersKept(h, s)
BY DEF CallsOK, Call, Done, OthersKept, TimingAssumption

\* A command that is sent has all of Latency left.
LEMMA AskEffect ==
    ASSUME CallsOK, TimingAssumption, NEW h \in Host, NEW s \in Slots, NEW step \in Steps,
           calls' = [calls EXCEPT ![h][s] = Ask(step)]
    PROVE  /\ CallsOK'
           /\ calls'[h][s].at = step /\ calls'[h][s].left = Latency
           /\ OthersKept(h, s)
BY DEF CallsOK, Call, OthersKept, TimingAssumption

\* When a process ends its slots are free, and those of the others are what they were.
LEMMA EndEffect ==
    ASSUME CallsOK, TimingAssumption, NEW h \in Host,
           calls' = [calls EXCEPT ![h] = [s \in Slots |-> Idle]]
    PROVE  /\ CallsOK'
           /\ \A s \in Slots : calls'[h][s].at = "idle"
           /\ \A g \in Host \ {h}, s \in Slots : calls'[g][s] = calls[g][s]
BY DEF CallsOK, Call, TimingAssumption

\* A tick takes one from every deadline and moves no call.
LEMMA TickEffect ==
    ASSUME CallsOK, TimingAssumption, Tick
    PROVE  /\ CallsOK'
           /\ \A h \in Host, s \in Slots :
                 /\ calls'[h][s].at = calls[h][s].at
                 /\ calls[h][s].at # "idle" => calls'[h][s].left = calls[h][s].left - 1
<1>1. \A h \in Host, s \in Slots : calls'[h][s] = [calls[h][s] EXCEPT !.left = Decrease(@)]
  BY DEF Tick
<1>2. \A h \in Host, s \in Slots : calls[h][s] \in Call
  BY DEF CallsOK
<1>3. \A h \in Host, s \in Slots : calls[h][s].at # "idle" => calls[h][s].left # 0
  BY DEF Tick, Due
<1>4. \A n \in 0 .. Latency : Decrease(n) \in 0 .. Latency /\ (n # 0 => Decrease(n) = n - 1)
  BY DEF Decrease, TimingAssumption
<1>5. \A h \in Host, s \in Slots :
         /\ calls'[h][s] \in Call
         /\ calls'[h][s].at = calls[h][s].at
         /\ calls'[h][s].left = Decrease(calls[h][s].left)
  <2> TAKE h \in Host, s \in Slots
  <2> DEFINE c == calls[h][s]
  <2>1. calls'[h][s] = [c EXCEPT !.left = Decrease(@)] /\ c \in Call
    BY <1>1, <1>2
  <2>2. \A b : [c EXCEPT !.left = b] = [at |-> c.at, left |-> b]
    BY <2>1 DEF Call
  <2>3. Decrease(c.left) \in 0 .. Latency
    BY <1>4, <2>1 DEF Call
  <2> QED
    BY <2>1, <2>2, <2>3 DEF Call
<1>6. CallsOK'
  BY <1>5 DEF CallsOK, Tick
<1>7. \A h \in Host, s \in Slots : calls[h][s].left \in 0 .. Latency
  BY <1>2 DEF Call
<1> QED
  BY <1>3, <1>4, <1>5, <1>6, <1>7

(***************************************************************************)
(* Type correctness, together with which calls go with which stage of the  *)
(* process: without it Elected could be taken by an instance that has not  *)
(* started.                                                                *)
(***************************************************************************)
ShapeOf(h) ==
    /\ proc[h] = "electing" => calls[h][0].at \in {"set", "won", "lost"}
    /\ proc[h] = "clearing" => calls[h][0].at = "del"
    /\ proc[h] \notin {"electing", "clearing"} => calls[h][0].at = "idle"
    /\ \A s \in Slots \ {0} :
          /\ calls[h][s].at # "del"
          /\ proc[h] \in {"down", "electing"} => calls[h][s].at = "idle"

Shape == TypeOK /\ \A h \in Host : ShapeOf(h)

\* Nothing runs in the beginning.
LEMMA ShapeInit == Init => Shape
<1> SUFFICES ASSUME Init PROVE Shape
  OBVIOUS
<1>1. CallsOK /\ \A h \in Host, s \in Slots : calls[h][s].at = "idle"
  BY TimingAssumption DEF Init, CallsOK, Call
<1>2. TypeOK
  BY <1>1, TimingAssumption, BoundsAssumption DEF Init, TypeOK, CallsOK
<1>3. \A h \in Host : ShapeOf(h)
  <2> TAKE h \in Host
  <2>1. proc[h] = "down" /\ 0 \in Slots
    BY TimingAssumption DEF Init, Slots
  <2> QED
    BY <1>1, <2>1 DEF ShapeOf
<1> QED
  BY <1>2, <1>3 DEF Shape

\* The part of the state that no step on another instance touches.
SameInstance(g) ==
    /\ proc'[g] = proc[g] /\ role'[g] = role[g] /\ timer'[g] = timer[g]
    /\ \A s \in Slots : calls'[g][s] = calls[g][s]

\* The shape of an instance that the step leaves alone.
LEMMA ShapeOfOthers ==
    ASSUME TimingAssumption, NEW g \in Host, ShapeOf(g), SameInstance(g)
    PROVE  ShapeOf(g)'
BY DEF ShapeOf, SameInstance, Slots, TimingAssumption

\* An answer from Redis or its handling keeps the shape.
LEMMA ShapeCallStep ==
    ASSUME Shape, NEW h \in Host, NEW s \in Slots, CallStep(h, s)
    PROVE  Shape'
<1> USE TimingAssumption, BoundsAssumption
<1>0. TypeOK /\ CallsOK /\ ShapeOf(h)
  BY DEF Shape, TypeOK, CallsOK
<1>1. CASE Get(h, s)
  <2>1. CallsOK' /\ calls'[h][s].at \in {"own", "vacant", "other"} /\ OthersKept(h, s)
    BY <1>0, <1>1, ProceedEffect DEF Get
  <2>2. s # 0 /\ proc[h] \notin {"down", "electing"}
    BY <1>0, <1>1 DEF Get, ShapeOf
  <2>3. ShapeOf(h)'
    BY <1>0, <1>1, <2>1, <2>2 DEF Get, ShapeOf, OthersKept, Slots
  <2>4. \A g \in Host \ {h} : SameInstance(g)
    BY <1>1, <2>1 DEF Get, SameInstance, OthersKept
  <2>5. TypeOK'
    BY <1>0, <1>1, <2>1, <2>2 DEF Get, TypeOK, CallsOK
  <2> QED
    BY <2>3, <2>4, <2>5, ShapeOfOthers DEF Shape
<1>2. CASE Expire(h, s)
  <2>1. CallsOK' /\ calls'[h][s].at = "idle" /\ OthersKept(h, s)
    BY <1>0, <1>2, DoneEffect DEF Expire
  <2>2. s # 0 /\ proc[h] \notin {"down", "electing"}
    BY <1>0, <1>2 DEF Expire, ShapeOf
  <2>3. ShapeOf(h)'
    BY <1>0, <1>2, <2>1, <2>2 DEF Expire, ShapeOf, OthersKept, Slots
  <2>4. \A g \in Host \ {h} : SameInstance(g)
    BY <1>2, <2>1 DEF Expire, SameInstance, OthersKept
  <2>5. TypeOK'
    BY <1>0, <1>2, <2>1, <2>2 DEF Expire, TypeOK, CallsOK
  <2> QED
    BY <2>3, <2>4, <2>5, ShapeOfOthers DEF Shape
<1>3. CASE OwnKey(h, s)
  <2>1. CallsOK' /\ calls'[h][s].at = "expire" /\ OthersKept(h, s)
    BY <1>0, <1>3, ProceedEffect DEF OwnKey
  <2>2. s # 0 /\ proc[h] \notin {"down", "electing"}
    BY <1>0, <1>3 DEF OwnKey, ShapeOf
  <2>3. ShapeOf(h)'
    BY <1>0, <1>3, <2>1, <2>2 DEF OwnKey, ShapeOf, OthersKept, Slots, BecomeLeader, EmitTakeover
  <2>4. \A g \in Host \ {h} : SameInstance(g)
    BY <1>0, <1>3, <2>1 DEF OwnKey, SameInstance, OthersKept, BecomeLeader, TypeOK
  <2>5. TypeOK'
    BY <1>0, <1>3, <2>1, <2>2 DEF OwnKey, TypeOK, CallsOK, BecomeLeader, EmitTakeover
  <2> QED
    BY <2>3, <2>4, <2>5, ShapeOfOthers DEF Shape
<1>4. CASE OtherLeader(h, s)
  <2>1. CallsOK' /\ calls'[h][s].at = "idle" /\ OthersKept(h, s)
    BY <1>0, <1>4, DoneEffect DEF OtherLeader
  <2>2. s # 0 /\ proc[h] \notin {"down", "electing"}
    BY <1>0, <1>4 DEF OtherLeader, ShapeOf
  <2>3. ShapeOf(h)'
    BY <1>0, <1>4, <2>1, <2>2 DEF OtherLeader, ShapeOf, OthersKept, Slots, BecomeFollower, EmitStepdown
  <2>4. \A g \in Host \ {h} : SameInstance(g)
    BY <1>0, <1>4, <2>1 DEF OtherLeader, SameInstance, OthersKept, BecomeFollower, TypeOK
  <2>5. TypeOK'
    <3>1. UNCHANGED <<redis, proc, timer, listening, bounds>>
      BY <1>4 DEF OtherLeader
    <3>2. role' = [role EXCEPT ![h] = "follower"] \/ role' = role
      BY <1>4 DEF OtherLeader, BecomeFollower
    <3>3. role' \in [Host -> {"unset", "leader", "follower"}]
      BY <1>0, <3>2 DEF TypeOK
    <3>4. role'[h] # "unset" /\ \A g \in Host \ {h} : role'[g] = role[g]
      BY <1>0, <2>2, <3>2 DEF TypeOK
    <3>5. \A g \in Host : (role'[g] = "unset") <=> (proc'[g] \in {"down", "electing"})
      BY <1>0, <2>2, <3>1, <3>4 DEF TypeOK
    <3>6. tracking' \in [Host -> BOOLEAN]
      BY <1>0, <1>4 DEF OtherLeader, EmitStepdown, TypeOK
    <3> QED
      BY <1>0, <2>1, <3>1, <3>3, <3>5, <3>6 DEF TypeOK, CallsOK, redis, bounds
  <2> QED
    BY <2>3, <2>4, <2>5, ShapeOfOthers DEF Shape
<1>5. CASE Vacant(h, s)
  <2>1. CallsOK' /\ calls'[h][s].at = "set" /\ OthersKept(h, s)
    BY <1>0, <1>5, ProceedEffect DEF Vacant
  <2>2. s # 0 /\ proc[h] \notin {"down", "electing"}
    BY <1>0, <1>5 DEF Vacant, ShapeOf
  <2>3. ShapeOf(h)'
    BY <1>0, <1>5, <2>1, <2>2 DEF Vacant, ShapeOf, OthersKept, Slots, BecomeFollower, EmitStepdown
  <2>4. \A g \in Host \ {h} : SameInstance(g)
    BY <1>0, <1>5, <2>1 DEF Vacant, SameInstance, OthersKept, BecomeFollower, TypeOK
  <2>5. TypeOK'
    BY <1>0, <1>5, <2>1, <2>2 DEF Vacant, TypeOK, CallsOK, BecomeFollower, EmitStepdown
  <2> QED
    BY <2>3, <2>4, <2>5, ShapeOfOthers DEF Shape
<1>6. CASE SetNX(h, s)
  <2>1. CallsOK' /\ calls'[h][s].at \in {"won", "lost"} /\ OthersKept(h, s)
    BY <1>0, <1>6, ProceedEffect DEF SetNX
  <2>2. IF s = 0 THEN proc[h] = "electing" ELSE proc[h] \notin {"down", "electing"}
    BY <1>0, <1>6 DEF SetNX, ShapeOf
  <2>3. ShapeOf(h)'
    BY <1>0, <1>6, <2>1, <2>2 DEF SetNX, ShapeOf, OthersKept, Slots
  <2>4. \A g \in Host \ {h} : SameInstance(g)
    BY <1>6, <2>1 DEF SetNX, SameInstance, OthersKept
  <2>5. TypeOK'
    BY <1>0, <1>6, <2>1 DEF SetNX, TypeOK, CallsOK
  <2> QED
    BY <2>3, <2>4, <2>5, ShapeOfOthers DEF Shape
<1>7. CASE Elected(h, s)
  <2>1. CallsOK' /\ calls'[h][s].at = "idle" /\ OthersKept(h, s)
    BY <1>0, <1>7, DoneEffect DEF Elected
  <2>2. IF s = 0 THEN proc[h] = "electing" ELSE proc[h] \notin {"down", "electing"}
    BY <1>0, <1>7 DEF Elected, ShapeOf
  <2>3. IF s = 0 THEN proc'[h] = "booting" ELSE proc'[h] = proc[h]
    BY <1>0, <1>7 DEF Elected, TypeOK
  <2>4. ShapeOf(h)'
    BY <1>0, <2>1, <2>2, <2>3 DEF ShapeOf, OthersKept, Slots
  <2>5. \A g \in Host \ {h} : SameInstance(g)
    <3>1. \A g \in Host \ {h} : proc'[g] = proc[g] /\ timer'[g] = timer[g]
      BY <1>0, <1>7 DEF Elected, TypeOK
    <3>2. \A g \in Host \ {h} : role'[g] = role[g]
      BY <1>0, <1>7 DEF Elected, TypeOK, BecomeLeader, BecomeFollower
    <3> QED
      BY <2>1, <3>1, <3>2 DEF SameInstance, OthersKept
  <2>6. role' \in [Host -> {"unset", "leader", "follower"}] /\ role'[h] # "unset"
    BY <1>0, <1>7 DEF Elected, TypeOK, BecomeLeader, BecomeFollower
  <2>7. TypeOK'
    <3>1. tracking' \in [Host -> BOOLEAN]
      BY <1>0, <1>7 DEF Elected, TypeOK, BecomeLeader, EmitTakeover
    <3>2. \A g \in Host : (role'[g] = "unset") <=> (proc'[g] \in {"down", "electing"})
      BY <1>0, <2>2, <2>3, <2>5, <2>6 DEF TypeOK, SameInstance
    <3>3. proc' \in [Host -> ProcState] /\ timer' \in [Host -> 0 .. Interval]
      <4>1. CASE s = 0
        BY <1>0, <1>7, <4>1 DEF Elected, TypeOK
      <4>2. CASE s # 0
        BY <1>0, <1>7, <4>2 DEF Elected, TypeOK
      <4> QED
        BY <4>1, <4>2
    <3> QED
      BY <1>0, <1>7, <2>1, <2>6, <3>1, <3>2, <3>3 DEF Elected, TypeOK, CallsOK
  <2> QED
    BY <2>4, <2>5, <2>7, ShapeOfOthers DEF Shape
<1> QED
  BY <1>1, <1>2, <1>3, <1>4, <1>5, <1>6, <1>7 DEF CallStep

\* So does a check that begins, and the DEL.
LEMMA ShapeCheck ==
    ASSUME Shape, NEW h \in Host, CheckLeader(h) \/ Del(h)
    PROVE  Shape'
<1> USE TimingAssumption, BoundsAssumption
<1>0. TypeOK /\ CallsOK /\ ShapeOf(h) /\ 0 \in Slots
  BY DEF Shape, TypeOK, CallsOK, Slots
<1>1. CASE CheckLeader(h)
  <2>1. PICK s \in Slots \ {0} : calls' = [calls EXCEPT ![h][s] = Ask("get")]
    BY <1>1 DEF CheckLeader
  <2>2. CallsOK' /\ calls'[h][s].at = "get" /\ OthersKept(h, s)
    BY <1>0, <2>1, AskEffect
  <2>3. ShapeOf(h)'
    BY <1>0, <1>1, <2>2 DEF CheckLeader, ShapeOf, OthersKept
  <2>4. \A g \in Host \ {h} : SameInstance(g)
    BY <1>1, <2>2 DEF CheckLeader, SameInstance, OthersKept
  <2>5. TypeOK'
    BY <1>0, <1>1, <2>2 DEF CheckLeader, TypeOK, CallsOK
  <2> QED
    BY <2>3, <2>4, <2>5, ShapeOfOthers DEF Shape
<1>2. CASE Del(h)
  <2>1. CallsOK' /\ calls'[h][0].at = "idle" /\ OthersKept(h, 0)
    BY <1>0, <1>2, DoneEffect DEF Del
  <2>2. proc[h] = "clearing" /\ proc'[h] = "leaving"
    BY <1>0, <1>2 DEF Del, ShapeOf, TypeOK
  <2>3. ShapeOf(h)'
    BY <1>0, <2>1, <2>2 DEF ShapeOf, OthersKept
  <2>4. \A g \in Host \ {h} : SameInstance(g)
    BY <1>2, <2>1 DEF Del, SameInstance, OthersKept
  <2>5. TypeOK'
    <3>1. proc' \in [Host -> ProcState]
      BY <1>0, <1>2 DEF Del, TypeOK
    <3>2. \A g \in Host : (role'[g] = "unset") <=> (proc'[g] \in {"down", "electing"})
      BY <1>0, <1>2, <2>2 DEF Del, TypeOK
    <3> QED
      BY <1>0, <1>2, <2>1, <3>1, <3>2, Constants DEF Del, TypeOK, CallsOK
  <2> QED
    BY <2>3, <2>4, <2>5, ShapeOfOthers DEF Shape
<1> QED
  BY <1>1, <1>2

\* So do the stages of start and stop, and a crash.
LEMMA ShapeLifecycle ==
    ASSUME Shape, NEW h \in Host, Lifecycle(h)
    PROVE  Shape'
<1> USE TimingAssumption, BoundsAssumption
<1>0. TypeOK /\ CallsOK /\ ShapeOf(h) /\ 0 \in Slots
  BY Constants DEF Shape, TypeOK, CallsOK
<1>1. CASE Start(h)
  <2>1. CallsOK' /\ calls'[h][0].at = "set" /\ OthersKept(h, 0)
    BY <1>0, <1>1, AskEffect DEF Start
  <2>2. proc[h] = "down" /\ proc'[h] = "electing"
    BY <1>0, <1>1 DEF Start, TypeOK
  <2>3. ShapeOf(h)'
    BY <1>0, <2>1, <2>2 DEF ShapeOf, OthersKept
  <2>4. \A g \in Host \ {h} : SameInstance(g)
    BY <1>1, <2>1 DEF Start, SameInstance, OthersKept
  <2>5. TypeOK'
    BY <1>0, <1>1, <2>1, <2>2 DEF Start, TypeOK, CallsOK
  <2> QED
    BY <2>3, <2>4, <2>5, ShapeOfOthers DEF Shape
<1>2. CASE InitTracker(h)
  <2>1. ShapeOf(h)'
    BY <1>0, <1>2 DEF InitTracker, ShapeOf, TypeOK
  <2>2. \A g \in Host \ {h} : SameInstance(g)
    BY <1>2 DEF InitTracker, SameInstance
  <2>3. TypeOK'
    BY <1>0, <1>2 DEF InitTracker, TypeOK
  <2> QED
    BY <2>1, <2>2, <2>3, ShapeOfOthers DEF Shape
<1>3. CASE RegisterEventHandlers(h)
  <2>1. ShapeOf(h)'
    BY <1>0, <1>3 DEF RegisterEventHandlers, ShapeOf, TypeOK
  <2>2. \A g \in Host \ {h} : SameInstance(g)
    BY <1>3 DEF RegisterEventHandlers, SameInstance
  <2>3. TypeOK'
    BY <1>0, <1>3 DEF RegisterEventHandlers, TypeOK
  <2> QED
    BY <2>1, <2>2, <2>3, ShapeOfOthers DEF Shape
<1>4. CASE StopProcess(h)
  <2>1. ShapeOf(h)'
    BY <1>0, <1>4 DEF StopProcess, ShapeOf, TypeOK
  <2>2. \A g \in Host \ {h} : SameInstance(g)
    BY <1>4 DEF StopProcess, SameInstance
  <2>3. TypeOK'
    BY <1>0, <1>4 DEF StopProcess, TypeOK
  <2> QED
    BY <2>1, <2>2, <2>3, ShapeOfOthers DEF Shape
<1>5. CASE Shutdown(h)
  <2>1. proc[h] = "quitting" /\ 0 \in 0 .. Interval
    BY <1>5, Constants DEF Shutdown
  <2>2. CASE role[h] = "leader"
    <3>0. /\ calls' = [calls EXCEPT ![h][0] = Ask("del")]
          /\ proc' = [proc EXCEPT ![h] = "clearing"]
          /\ timer' = [timer EXCEPT ![h] = 0] /\ role' = role
      BY <1>5, <2>2 DEF Shutdown
    <3>1. CallsOK' /\ calls'[h][0].at = "del" /\ OthersKept(h, 0) /\ proc'[h] = "clearing"
      BY <1>0, <3>0, AskEffect DEF TypeOK
    <3>2. ShapeOf(h)'
      BY <1>0, <2>1, <3>1 DEF ShapeOf, OthersKept
    <3>3. \A g \in Host \ {h} : SameInstance(g)
      BY <1>0, <3>0, <3>1 DEF SameInstance, OthersKept, TypeOK
    <3>4. TypeOK'
      <4>1. UNCHANGED <<redis, role, listening, tracking, bounds>>
        BY <1>5 DEF Shutdown
      <4>2. proc' \in [Host -> ProcState]
        BY <1>0, <3>0 DEF TypeOK, ProcState
      <4>3. timer' \in [Host -> 0 .. Interval]
        BY <1>0, <2>1, <3>0 DEF TypeOK
      <4>4. \A g \in Host : (role'[g] = "unset") <=> (proc'[g] \in {"down", "electing"})
        BY <1>0, <2>1, <3>0 DEF TypeOK
      <4> QED
        BY <1>0, <3>1, <4>1, <4>2, <4>3, <4>4 DEF TypeOK, CallsOK, redis, bounds
    <3> QED
      BY <3>2, <3>3, <3>4, ShapeOfOthers DEF Shape
  <2>3. CASE role[h] # "leader"
    <3>0. /\ calls' = calls /\ proc' = [proc EXCEPT ![h] = "leaving"]
          /\ timer' = [timer EXCEPT ![h] = 0] /\ role' = role
      BY <1>5, <2>3 DEF Shutdown
    <3>1. calls' = calls /\ proc'[h] = "leaving"
      BY <1>0, <3>0 DEF TypeOK
    <3>2. ShapeOf(h)'
      BY <1>0, <2>1, <3>1 DEF ShapeOf
    <3>3. \A g \in Host \ {h} : SameInstance(g)
      BY <1>0, <3>0 DEF SameInstance, TypeOK
    <3>4. TypeOK'
      BY <1>0, <1>5, <2>1, <2>3, <3>1 DEF Shutdown, TypeOK
    <3> QED
      BY <3>2, <3>3, <3>4, ShapeOfOthers DEF Shape
  <2> QED
    BY <2>2, <2>3
<1>6. CASE End(h)
  <2>1. /\ CallsOK' /\ \A s \in Slots : calls'[h][s].at = "idle"
        /\ \A g \in Host \ {h}, s \in Slots : calls'[g][s] = calls[g][s]
    BY <1>0, <1>6, EndEffect DEF End
  <2>2. proc'[h] = "down" /\ role'[h] = "unset" /\ 0 \in 0 .. Interval
    BY <1>0, <1>6, Constants DEF End, TypeOK
  <2>3. ShapeOf(h)'
    BY <1>0, <2>1, <2>2 DEF ShapeOf
  <2>4. \A g \in Host \ {h} : SameInstance(g)
    BY <1>6, <2>1 DEF End, SameInstance
  <2>5. TypeOK'
    BY <1>0, <1>6, <2>1, <2>2 DEF End, TypeOK, CallsOK
  <2> QED
    BY <2>3, <2>4, <2>5, ShapeOfOthers DEF Shape
<1> QED
  BY <1>1, <1>2, <1>3, <1>4, <1>5, <1>6 DEF Lifecycle, Exit, Crash

\* And so does everything else: Redis, and time.
LEMMA ShapeNext ==
    ASSUME Shape, [Next]_vars
    PROVE  Shape'
<1> USE TimingAssumption, BoundsAssumption
<1>0. TypeOK /\ CallsOK /\ \A h \in Host : ShapeOf(h)
  BY DEF Shape, TypeOK, CallsOK
<1>1. CASE Tick
  <2>1. CallsOK' /\ \A h \in Host, s \in Slots : calls'[h][s].at = calls[h][s].at
    BY <1>0, <1>1, TickEffect
  <2>2. \A h \in Host : ShapeOf(h)'
    <3> TAKE h \in Host
    <3>1. proc'[h] = proc[h] /\ 0 \in Slots
      BY <1>1, Constants DEF Tick
    <3> QED
      BY <1>0, <2>1, <3>1 DEF ShapeOf
  <2>3. /\ \A n \in 0 .. Interval : Decrease(n) \in 0 .. Interval
        /\ \A n \in 0 .. TTL : Decrease(n) \in 0 .. TTL /\ (Decrease(n) = 0 <=> n <= 1)
    BY Constants DEF Decrease
  <2>4. timer' \in [Host -> 0 .. Interval]
    BY <1>0, <1>1, <2>3 DEF Tick, TypeOK
  <2>5. /\ key' \in Host \cup {Nobody} /\ ttl' \in 0 .. TTL
        /\ (key' = Nobody) <=> (ttl' = 0)
    BY <1>0, <1>1, <2>3, Constants DEF Tick, TypeOK
  <2> QED
    BY <1>0, <1>1, <2>1, <2>2, <2>4, <2>5 DEF Tick, TypeOK, CallsOK, Shape
<1>2. CASE LoseKey
  <2>1. TypeOK'
    <3>1. losses' \in 0 .. MaxLosses /\ 0 \in 0 .. TTL
      BY <1>0, <1>2, Constants DEF LoseKey, TypeOK, BoundsAssumption
    <3> QED
      BY <1>0, <1>2, <3>1 DEF LoseKey, TypeOK
  <2> QED
    BY <1>0, <1>2, <2>1 DEF LoseKey, ShapeOf, Shape
<1>3. CASE UNCHANGED vars
  BY <1>0, <1>3 DEF vars, Shape, ShapeOf, TypeOK
<1>4. ASSUME NEW h \in Host, Step(h) \/ Lifecycle(h)
      PROVE  Shape'
  BY <1>4, ShapeCallStep, ShapeCheck, ShapeLifecycle DEF Step
<1> QED
  BY <1>1, <1>2, <1>3, <1>4 DEF Next

(***************************************************************************)
(* The state is always well typed.                                         *)
(***************************************************************************)
THEOREM TypeCorrect == Spec => []TypeOK
<1>1. Spec => []Shape
  BY ShapeInit, ShapeNext, PTL DEF Spec
<1>2. Shape => TypeOK
  BY DEF Shape
<1> QED
  BY <1>1, <1>2, PTL

(***************************************************************************)
(* The lease.  The key of a running instance has more time left than the   *)
(* way to its next EXPIRE takes, and one Latency more.                     *)
(***************************************************************************)
Lease(h) ==
    \/ /\ proc[h] = "electing" /\ calls[h][0].at = "won"
       /\ ttl > calls[h][0].left + Interval + 2 * Latency
    \/ /\ proc[h] \in Checking
       /\ ttl > timer[h] + 2 * Latency
    \/ /\ proc[h] \in Checking
       /\ \E s \in Slots \ {0} : /\ calls[h][s].at \in {"get", "own", "expire"}
                                 /\ ttl > calls[h][s].left + Latency

HoldOf(h) ==
    /\ proc[h] \in Running /\ role[h] = "leader" => key = h
    /\ proc[h] \in Running => \A s \in Slots : calls[h][s].at \in {"own", "won"} => key = h
    /\ calls[h][0].at = "del" => key = h /\ ttl > calls[h][0].left
    /\ proc[h] \in Running /\ key = h => Lease(h)

Hold == undisturbed => \A h \in Host : HoldOf(h)

\* The types that the arithmetic below needs.
LEMMA TimeTypes ==
    ASSUME Shape, NEW h \in Host
    PROVE  /\ ttl \in 0 .. TTL /\ timer[h] \in 0 .. Interval
           /\ \A s \in Slots : calls[h][s].left \in 0 .. Latency
           /\ ShapeOf(h) /\ CallsOK
           /\ role[h] \in {"unset", "leader", "follower"}
           /\ role \in [Host -> {"unset", "leader", "follower"}]
           /\ proc \in [Host -> ProcState] /\ timer \in [Host -> 0 .. Interval]
BY DEF Shape, TypeOK, Call, CallsOK

\* An instance keeps its claim when a step of another leaves its key alone, or renews it,
\* or is about a key that is not its own.
LEMMA HoldOfOthers ==
    ASSUME Shape, NEW g \in Host, HoldOf(g), SameInstance(g),
           \/ key' = key /\ ttl' \in {ttl, TTL}
           \/ key # g /\ key' # g
    PROVE  HoldOf(g)'
<1>1. /\ ttl \in 0 .. TTL /\ timer[g] \in 0 .. Interval /\ 0 \in Slots
      /\ \A s \in Slots : calls[g][s].left \in 0 .. Latency
  BY TimeTypes, Constants
<1>2. CASE key # g /\ key' # g
  BY <1>1, <1>2 DEF HoldOf, SameInstance
<1>3. CASE key' = key /\ ttl' \in {ttl, TTL}
  <2>1. ttl' \in Nat /\ ttl' >= ttl
    BY <1>1, <1>3, Constants
  <2>2. Lease(g) => Lease(g)'
    BY <1>1, <2>1, Constants DEF Lease, SameInstance
  <2>3. calls[g][0].at = "del" /\ ttl > calls[g][0].left
          => calls'[g][0].at = "del" /\ ttl' > calls'[g][0].left
    BY <1>1, <2>1, Constants DEF SameInstance
  <2> QED
    BY <1>1, <1>3, <2>2, <2>3 DEF HoldOf, SameInstance
<1> QED
  BY <1>2, <1>3

\* The initial state makes no claim.
LEMMA HoldInit == Init => Hold
<1> SUFFICES ASSUME Init, NEW h \in Host PROVE HoldOf(h)
  BY DEF Hold
<1>1. proc[h] = "down" /\ calls[h][0].at = "idle"
  BY Constants DEF Init
<1> QED
  BY <1>1 DEF HoldOf

\* An answer is still true when it is handled, and what follows it keeps the lease.
LEMMA HoldCallStep ==
    ASSUME Shape, Hold, undisturbed', NEW h \in Host, NEW s \in Slots, CallStep(h, s)
    PROVE  Hold'
<1>0. undisturbed /\ \A g \in Host : HoldOf(g)
  BY DEF Hold, CallStep, Get, SetNX, Expire, OwnKey, OtherLeader, Vacant, Elected
<1>1. /\ ttl \in 0 .. TTL /\ timer[h] \in 0 .. Interval /\ 0 \in Slots
      /\ \A t \in Slots : calls[h][t].left \in 0 .. Latency
      /\ ShapeOf(h) /\ CallsOK /\ HoldOf(h)
  BY <1>0, TimeTypes, Constants
<1>2. CASE Get(h, s)
  <2>1. /\ calls'[h][s].at \in {"own", "vacant", "other"} /\ OthersKept(h, s)
        /\ calls'[h][s].left = calls[h][s].left
        /\ (calls'[h][s].at = "own") <=> (key = h)
    BY <1>1, <1>2, ProceedEffect, Constants DEF Get
  <2>2. s # 0 /\ UNCHANGED <<key, ttl, proc, role, timer>>
    BY <1>1, <1>2 DEF Get, ShapeOf
  <2>3. key = h /\ Lease(h) => Lease(h)'
    BY <1>1, <2>1, <2>2 DEF Lease, OthersKept
  <2>4. HoldOf(h)'
    BY <1>1, <2>1, <2>2, <2>3 DEF HoldOf, OthersKept
  <2>5. \A g \in Host \ {h} : SameInstance(g)
    BY <2>1, <2>2 DEF SameInstance, OthersKept
  <2> QED
    BY <1>0, <2>2, <2>4, <2>5, HoldOfOthers DEF Hold
<1>3. CASE Expire(h, s)
  <2>1. calls'[h][s].at = "idle" /\ OthersKept(h, s)
    BY <1>1, <1>3, DoneEffect, TimingAssumption DEF Expire
  <2>2. s # 0 /\ UNCHANGED <<key, proc, role, timer>>
    BY <1>1, <1>3 DEF Expire, ShapeOf
  <2>3. ttl' \in {ttl, TTL} /\ (key = h => ttl' = TTL)
    BY <1>3, Constants DEF Expire
  <2>4. proc[h] \in Running /\ key = h => Lease(h)'
    BY <1>1, <1>3, <2>2, <2>3, Constants DEF Lease, Expire, ShapeOf
  <2>5. calls[h][0].at = "del" => ttl' > calls[h][0].left
    BY <1>1, <2>3, Constants DEF HoldOf
  <2>6. HoldOf(h)'
    BY <1>1, <2>1, <2>2, <2>4, <2>5 DEF HoldOf, OthersKept
  <2>7. \A g \in Host \ {h} : SameInstance(g)
    BY <2>1, <2>2 DEF SameInstance, OthersKept
  <2> QED
    BY <1>0, <2>2, <2>3, <2>6, <2>7, HoldOfOthers DEF Hold
<1>4. CASE OwnKey(h, s)
  <2>1. /\ calls'[h][s].at = "expire" /\ calls'[h][s].left = calls[h][s].left
        /\ OthersKept(h, s)
    BY <1>1, <1>4, ProceedEffect DEF OwnKey
  <2>2. s # 0 /\ UNCHANGED <<key, ttl, proc, timer>>
    BY <1>1, <1>4 DEF OwnKey, ShapeOf
  <2>3. proc[h] \in Running => key = h
    BY <1>1, <1>4 DEF OwnKey, HoldOf
  <2>4. Lease(h) => Lease(h)'
    BY <1>1, <1>4, <2>1, <2>2 DEF Lease, OthersKept
  <2>5. HoldOf(h)'
    BY <1>1, <2>1, <2>2, <2>3, <2>4 DEF HoldOf, OthersKept
  <2>6. \A g \in Host \ {h} : role'[g] = role[g]
    BY <1>4, TimeTypes DEF OwnKey, BecomeLeader
  <2>7. \A g \in Host \ {h} : SameInstance(g)
    BY <2>1, <2>2, <2>6 DEF SameInstance, OthersKept
  <2> QED
    BY <1>0, <2>2, <2>5, <2>7, HoldOfOthers DEF Hold
<1>5. CASE OtherLeader(h, s)
  <2>1. calls'[h][s].at = "idle" /\ OthersKept(h, s)
    BY <1>1, <1>5, DoneEffect, TimingAssumption DEF OtherLeader
  <2>2. s # 0 /\ UNCHANGED <<key, ttl, proc, timer>>
    BY <1>1, <1>5 DEF OtherLeader, ShapeOf
  <2>3. role'[h] # "leader" /\ \A g \in Host \ {h} : role'[g] = role[g]
    BY <1>5, TimeTypes DEF OtherLeader, BecomeFollower
  <2>4. Lease(h) => Lease(h)'
    BY <1>1, <1>5, <2>1, <2>2 DEF Lease, OthersKept, OtherLeader
  <2>5. HoldOf(h)'
    BY <1>1, <2>1, <2>2, <2>3, <2>4 DEF HoldOf, OthersKept
  <2>6. \A g \in Host \ {h} : SameInstance(g)
    BY <2>1, <2>2, <2>3 DEF SameInstance, OthersKept
  <2> QED
    BY <1>0, <2>2, <2>5, <2>6, HoldOfOthers DEF Hold
<1>6. CASE Vacant(h, s)
  <2>1. calls'[h][s].at = "set" /\ OthersKept(h, s)
    BY <1>1, <1>6, ProceedEffect DEF Vacant
  <2>2. s # 0 /\ UNCHANGED <<key, ttl, proc, timer>>
    BY <1>1, <1>6 DEF Vacant, ShapeOf
  <2>3. role'[h] # "leader" /\ \A g \in Host \ {h} : role'[g] = role[g]
    BY <1>6, TimeTypes DEF Vacant, BecomeFollower
  <2>4. Lease(h) => Lease(h)'
    BY <1>1, <1>6, <2>1, <2>2 DEF Lease, OthersKept, Vacant
  <2>5. HoldOf(h)'
    BY <1>1, <2>1, <2>2, <2>3, <2>4 DEF HoldOf, OthersKept
  <2>6. \A g \in Host \ {h} : SameInstance(g)
    BY <2>1, <2>2, <2>3 DEF SameInstance, OthersKept
  <2> QED
    BY <1>0, <2>2, <2>5, <2>6, HoldOfOthers DEF Hold
<1>7. CASE SetNX(h, s)
  <2>1. /\ calls'[h][s].at = IF key = Nobody THEN "won" ELSE "lost"
        /\ calls'[h][s].left = calls[h][s].left /\ OthersKept(h, s)
    BY <1>1, <1>7, ProceedEffect DEF SetNX
  <2>2. UNCHANGED <<proc, role, timer>>
    BY <1>7 DEF SetNX
  <2>3. IF s = 0 THEN proc[h] = "electing" ELSE proc[h] # "electing"
    BY <1>1, <1>7 DEF SetNX, ShapeOf
  <2>4. \A g \in Host \ {h} : SameInstance(g)
    BY <2>1, <2>2 DEF SameInstance, OthersKept
  <2>5. CASE key = Nobody
    <3>1. key' = h /\ ttl' = TTL
      BY <1>7, <2>5 DEF SetNX
    <3>2. proc[h] \in Running => Lease(h)'
      BY <1>1, <2>1, <2>2, <2>3, <2>5, <3>1, Constants DEF Lease
    <3>3. calls[h][0].at # "del"
      BY <1>1, <2>5, Constants DEF HoldOf
    <3>4. HoldOf(h)'
      BY <1>1, <2>1, <2>2, <3>1, <3>2, <3>3 DEF HoldOf, OthersKept
    <3> QED
      BY <1>0, <2>4, <2>5, <3>1, <3>4, Constants, HoldOfOthers DEF Hold
  <2>6. CASE key # Nobody
    <3>1. UNCHANGED <<key, ttl>>
      BY <1>7, <2>6 DEF SetNX
    <3>2. s = 0 => key # h
      BY <1>1, <1>7, <2>3 DEF HoldOf, Lease, SetNX
    <3>3. s # 0 /\ Lease(h) => Lease(h)'
      BY <1>1, <1>7, <2>1, <2>2, <2>3, <3>1 DEF Lease, OthersKept, SetNX
    <3>4. HoldOf(h)'
      BY <1>1, <1>7, <2>1, <2>2, <2>6, <3>1, <3>2, <3>3 DEF HoldOf, OthersKept, SetNX
    <3> QED
      BY <1>0, <2>4, <3>1, <3>4, HoldOfOthers DEF Hold
  <2> QED
    BY <2>5, <2>6
<1>8. CASE Elected(h, s)
  <2>1. calls'[h][s].at = "idle" /\ OthersKept(h, s)
    BY <1>1, <1>8, DoneEffect, TimingAssumption DEF Elected
  <2>2. UNCHANGED <<key, ttl>> /\ calls[h][s].at \in {"won", "lost"}
    BY <1>8 DEF Elected
  <2>3. /\ \A g \in Host \ {h} : role'[g] = role[g]
        /\ role'[h] = IF calls[h][s].at = "won" THEN "leader" ELSE "follower"
    BY <1>8, TimeTypes DEF Elected, BecomeLeader, BecomeFollower
  <2>4. /\ \A g \in Host \ {h} : proc'[g] = proc[g] /\ timer'[g] = timer[g]
        /\ s # 0 => proc'[h] = proc[h] /\ timer'[h] = timer[h] /\ proc[h] # "electing"
        /\ s = 0 => proc[h] = "electing" /\ proc'[h] = "booting" /\ timer'[h] = Interval
    <3>1. CASE s = 0
      BY <1>1, <1>8, <3>1, TimeTypes DEF Elected, ShapeOf
    <3>2. CASE s # 0
      BY <1>1, <1>8, <3>2 DEF Elected, ShapeOf
    <3> QED
      BY <3>1, <3>2
  <2>5. calls[h][s].at = "won" /\ proc[h] \in Running => key = h
    BY <1>1 DEF HoldOf
  <2>6. proc[h] \in Running /\ Lease(h) => Lease(h)'
    <3>1. CASE s = 0
      BY <1>1, <2>2, <2>4, <3>1, Constants DEF Lease
    <3>2. CASE s # 0
      BY <1>1, <2>1, <2>2, <2>4, <3>2 DEF Lease, OthersKept
    <3> QED
      BY <3>1, <3>2
  <2>7. HoldOf(h)'
    BY <1>1, <2>1, <2>2, <2>3, <2>4, <2>5, <2>6 DEF HoldOf, OthersKept
  <2>8. \A g \in Host \ {h} : SameInstance(g)
    BY <2>1, <2>3, <2>4 DEF SameInstance, OthersKept
  <2> QED
    BY <1>0, <2>2, <2>7, <2>8, HoldOfOthers DEF Hold
<1> QED
  BY <1>2, <1>3, <1>4, <1>5, <1>6, <1>7, <1>8 DEF CallStep

\* A check begins in time, and the DEL of shutdown() removes this instance's own key.
LEMMA HoldCheck ==
    ASSUME Shape, Hold, undisturbed', NEW h \in Host, CheckLeader(h) \/ Del(h)
    PROVE  Hold'
<1>0. undisturbed /\ \A g \in Host : HoldOf(g)
  BY DEF Hold, CheckLeader, Del
<1>1. /\ ttl \in 0 .. TTL /\ timer[h] \in 0 .. Interval /\ 0 \in Slots
      /\ \A t \in Slots : calls[h][t].left \in 0 .. Latency
      /\ ShapeOf(h) /\ CallsOK /\ HoldOf(h)
  BY <1>0, TimeTypes, Constants
<1>2. CASE CheckLeader(h)
  <2>1. PICK s \in Slots \ {0} : /\ calls[h][s].at = "idle"
                                 /\ calls' = [calls EXCEPT ![h][s] = Ask("get")]
    BY <1>2 DEF CheckLeader
  <2>2. calls'[h][s].at = "get" /\ calls'[h][s].left = Latency /\ OthersKept(h, s)
    BY <1>1, <2>1, AskEffect, TimingAssumption
  <2>3. UNCHANGED <<key, ttl, proc, role>> /\ proc[h] \in Checking /\ timer[h] = 0
    BY <1>2 DEF CheckLeader
  <2>4. Lease(h) => Lease(h)'
    BY <1>1, <2>1, <2>2, <2>3, Constants DEF Lease, OthersKept
  <2>5. HoldOf(h)'
    BY <1>1, <2>2, <2>3, <2>4 DEF HoldOf, OthersKept
  <2>6. \A g \in Host \ {h} : SameInstance(g)
    BY <1>2, <2>2, <2>3, TimeTypes DEF CheckLeader, SameInstance, OthersKept
  <2> QED
    BY <1>0, <2>3, <2>5, <2>6, HoldOfOthers DEF Hold
<1>3. CASE Del(h)
  <2>1. calls'[h][0].at = "idle" /\ OthersKept(h, 0)
    BY <1>1, <1>3, DoneEffect, TimingAssumption DEF Del
  <2>2. key = h /\ key' = Nobody
    BY <1>1, <1>3 DEF Del, HoldOf
  <2>3. proc'[h] = "leaving"
    BY <1>3, TimeTypes DEF Del
  <2>4. HoldOf(h)'
    BY <2>1, <2>3 DEF HoldOf
  <2>5. \A g \in Host \ {h} : SameInstance(g)
    BY <1>3, <2>1, TimeTypes DEF Del, SameInstance, OthersKept
  <2> QED
    BY <1>0, <2>2, <2>4, <2>5, Constants, HoldOfOthers DEF Hold
<1> QED
  BY <1>2, <1>3

\* An instance starts without a claim, and the lease outlasts the DEL when it stops.
LEMMA HoldLifecycle ==
    ASSUME Shape, Hold, undisturbed', NEW h \in Host, Lifecycle(h)
    PROVE  Hold'
<1>0. undisturbed /\ \A g \in Host : HoldOf(g)
  BY DEF Hold, Lifecycle, Start, InitTracker, RegisterEventHandlers, StopProcess,
         Shutdown, Exit, Crash, End
<1>1. /\ ttl \in 0 .. TTL /\ timer[h] \in 0 .. Interval /\ 0 \in Slots
      /\ \A t \in Slots : calls[h][t].left \in 0 .. Latency
      /\ ShapeOf(h) /\ CallsOK /\ HoldOf(h)
  BY <1>0, TimeTypes, Constants
<1>2. UNCHANGED <<key, ttl>>
  BY DEF Lifecycle, Start, InitTracker, RegisterEventHandlers, StopProcess,
         Shutdown, Exit, Crash, End
<1>3. CASE Start(h)
  <2>1. calls'[h][0].at = "set" /\ OthersKept(h, 0)
    BY <1>1, <1>3, AskEffect, TimingAssumption DEF Start
  <2>2. key # h /\ UNCHANGED <<role, timer>> /\ proc[h] = "down"
    BY <1>3 DEF Start
  <2>3. role[h] = "unset"
    BY <2>2 DEF Shape, TypeOK
  <2>4. \A s \in Slots : calls'[h][s].at \notin {"own", "won", "del"}
    BY <1>1, <2>1, <2>2 DEF ShapeOf, OthersKept
  <2>5. HoldOf(h)'
    BY <1>1, <1>2, <2>2, <2>3, <2>4 DEF HoldOf
  <2>6. \A g \in Host \ {h} : SameInstance(g)
    BY <1>3, <2>1, <2>2, TimeTypes DEF Start, SameInstance, OthersKept
  <2> QED
    BY <1>0, <1>2, <2>5, <2>6, HoldOfOthers DEF Hold
<1>4. CASE InitTracker(h) \/ RegisterEventHandlers(h) \/ StopProcess(h)
  <2>1. proc[h] \in Checking /\ proc'[h] \in Checking
    BY <1>4, TimeTypes DEF InitTracker, RegisterEventHandlers, StopProcess
  <2>2. UNCHANGED <<role, timer, calls>>
    BY <1>4 DEF InitTracker, RegisterEventHandlers, StopProcess
  <2>3. Lease(h) => Lease(h)'
    BY <1>2, <2>1, <2>2 DEF Lease
  <2>4. HoldOf(h)'
    BY <1>1, <1>2, <2>1, <2>2, <2>3 DEF HoldOf
  <2>5. \A g \in Host \ {h} : SameInstance(g)
    BY <1>4, <2>2, TimeTypes DEF InitTracker, RegisterEventHandlers, StopProcess, SameInstance
  <2> QED
    BY <1>0, <1>2, <2>4, <2>5, HoldOfOthers DEF Hold
<1>5. CASE Shutdown(h)
  <2>1. proc[h] = "quitting" /\ proc'[h] \in {"clearing", "leaving"} /\ role' = role
    BY <1>5, TimeTypes DEF Shutdown
  <2>2. \A g \in Host \ {h} : proc'[g] = proc[g] /\ timer'[g] = timer[g]
    BY <1>5, TimeTypes DEF Shutdown
  <2>3. CASE role[h] = "leader"
    <3>1. calls'[h][0].at = "del" /\ calls'[h][0].left = Latency /\ OthersKept(h, 0)
      <4>1. calls' = [calls EXCEPT ![h][0] = Ask("del")]
        BY <1>5, <2>3 DEF Shutdown
      <4> QED
        BY <1>1, <4>1, AskEffect, TimingAssumption
    <3>2. key = h /\ ttl > Latency
      BY <1>1, <2>1, <2>3, Constants DEF HoldOf, Lease
    <3>3. HoldOf(h)'
      BY <1>2, <2>1, <3>1, <3>2 DEF HoldOf
    <3>4. \A g \in Host \ {h} : SameInstance(g)
      BY <2>1, <2>2, <3>1 DEF SameInstance, OthersKept
    <3> QED
      BY <1>0, <1>2, <3>3, <3>4, HoldOfOthers DEF Hold
  <2>4. CASE role[h] # "leader"
    <3>1. calls' = calls /\ proc'[h] = "leaving"
      BY <1>5, <2>4, TimeTypes DEF Shutdown
    <3>2. HoldOf(h)'
      BY <1>1, <2>1, <3>1 DEF HoldOf, ShapeOf
    <3>3. \A g \in Host \ {h} : SameInstance(g)
      BY <2>1, <2>2, <3>1 DEF SameInstance
    <3> QED
      BY <1>0, <1>2, <3>2, <3>3, HoldOfOthers DEF Hold
  <2> QED
    BY <2>3, <2>4
<1>6. CASE End(h)
  <2>1. /\ \A s \in Slots : calls'[h][s].at = "idle"
        /\ \A g \in Host \ {h}, s \in Slots : calls'[g][s] = calls[g][s]
    BY <1>1, <1>6, EndEffect, TimingAssumption DEF End
  <2>2. proc'[h] = "down"
    BY <1>6, TimeTypes DEF End
  <2>3. HoldOf(h)'
    BY <1>1, <2>1, <2>2 DEF HoldOf
  <2>4. \A g \in Host \ {h} : SameInstance(g)
    BY <1>6, <2>1, TimeTypes DEF End, SameInstance
  <2> QED
    BY <1>0, <1>2, <2>3, <2>4, HoldOfOthers DEF Hold
<1> QED
  BY <1>3, <1>4, <1>5, <1>6 DEF Lifecycle, Exit, Crash

\* Time takes as much from the lease as from what is to be done; no key that is needed
\* expires.
LEMMA HoldTick ==
    ASSUME Shape, Hold, undisturbed', Tick
    PROVE  Hold'
<1> SUFFICES ASSUME NEW h \in Host PROVE HoldOf(h)'
  BY DEF Hold
<1>0. HoldOf(h) /\ UNCHANGED <<proc, role>>
  BY DEF Hold, Tick
<1>1. /\ ttl \in 0 .. TTL /\ timer[h] \in 0 .. Interval /\ 0 \in Slots
      /\ \A t \in Slots : calls[h][t].left \in 0 .. Latency
      /\ ShapeOf(h) /\ CallsOK
  BY TimeTypes, Constants
<1>2. \A s \in Slots :
         /\ calls'[h][s].at = calls[h][s].at
         /\ calls[h][s].at # "idle"
              => calls[h][s].left > 0 /\ calls'[h][s].left = calls[h][s].left - 1
  <2>1. \A s \in Slots : calls[h][s].at # "idle" => calls[h][s].left # 0
    BY DEF Tick, Due
  <2> QED
    BY <1>1, <2>1, TickEffect, TimingAssumption, Constants
<1>3. proc[h] \in Checking => timer[h] > 0 /\ timer'[h] = timer[h] - 1
  BY <1>1 DEF Tick, Due, Decrease
<1>4. ttl > 1 => ttl' = ttl - 1 /\ key' = key
  BY <1>1 DEF Tick, Decrease
<1>5. key' = h => key = h
  BY Constants DEF Tick
<1>6. Lease(h) => ttl > 1 /\ Lease(h)'
  <2>1. CASE /\ proc[h] = "electing" /\ calls[h][0].at = "won"
             /\ ttl > calls[h][0].left + Interval + 2 * Latency
    BY <1>0, <1>1, <1>2, <1>4, <2>1, Constants DEF Lease
  <2>2. CASE proc[h] \in Checking /\ ttl > timer[h] + 2 * Latency
    BY <1>0, <1>1, <1>3, <1>4, <2>2, Constants DEF Lease
  <2>3. ASSUME NEW s \in Slots \ {0}, proc[h] \in Checking,
               calls[h][s].at \in {"get", "own", "expire"},
               ttl > calls[h][s].left + Latency
        PROVE  ttl > 1 /\ Lease(h)'
    BY <1>0, <1>1, <1>2, <1>4, <2>3, Constants DEF Lease
  <2> QED
    BY <2>1, <2>2, <2>3 DEF Lease
<1>7. calls'[h][0].at = "del" => key' = h /\ ttl' > calls'[h][0].left
  BY <1>0, <1>1, <1>2, <1>4, Constants DEF HoldOf
<1>8. proc[h] \in Running /\ key = h => key' = h
  BY <1>0, <1>4, <1>6 DEF HoldOf
<1> QED
  BY <1>0, <1>1, <1>2, <1>5, <1>6, <1>7, <1>8 DEF HoldOf

\* Every step keeps the claims, until Redis or a reused id disturbs them.
LEMMA HoldNext ==
    ASSUME Shape, Hold, [Next]_vars
    PROVE  Hold'
<1> SUFFICES ASSUME undisturbed' PROVE Hold'
  BY DEF Hold
<1>1. CASE Tick
  BY <1>1, HoldTick
<1>2. CASE LoseKey
  BY <1>2 DEF LoseKey
<1>3. CASE UNCHANGED vars
  BY <1>3 DEF vars, Hold, HoldOf, Lease
<1>4. ASSUME NEW h \in Host, Step(h) \/ Lifecycle(h)
      PROVE  Hold'
  BY <1>4, HoldCallStep, HoldCheck, HoldLifecycle DEF Step
<1> QED
  BY <1>1, <1>2, <1>3, <1>4 DEF Next

\* The inductive invariant.
LEMMA ShapeAndHold == Spec => [](Shape /\ Hold)
<1>1. Init => Shape /\ Hold
  BY ShapeInit, HoldInit
<1>2. Shape /\ Hold /\ [Next]_vars => (Shape /\ Hold)'
  BY ShapeNext, HoldNext
<1> QED
  BY <1>1, <1>2, PTL DEF Spec

(***************************************************************************)
(* An instance that acts as leader holds the key; hence there is at most   *)
(* one such instance.                                                      *)
(***************************************************************************)
THEOREM LeaderIsUnique == Spec => []LeaderHoldsKey
<1>1. Shape /\ Hold => LeaderHoldsKey
  BY DEF Hold, HoldOf, LeaderHoldsKey
<1> QED
  BY <1>1, ShapeAndHold, PTL

\* Under a lease the tick before the next step is not the one that expires the key.
LEMMA LeaseLasts ==
    ASSUME Shape, NEW h \in Host, Lease(h), Tick
    PROVE  key' = key
<1>1. /\ ttl \in 0 .. TTL /\ timer[h] \in 0 .. Interval /\ 0 \in Slots
      /\ \A t \in Slots : calls[h][t].left \in 0 .. Latency
  BY TimeTypes, Constants
<1>2. \A s \in Slots : calls[h][s].at # "idle" => calls[h][s].left # 0
  BY DEF Tick, Due
<1>3. proc[h] \in Checking => timer[h] # 0
  BY DEF Tick, Due
<1>4. ttl > 1
  <2>1. CASE /\ proc[h] = "electing" /\ calls[h][0].at = "won"
             /\ ttl > calls[h][0].left + Interval + 2 * Latency
    <3>1. calls[h][0].left \in Nat /\ calls[h][0].left # 0
      BY <1>1, <1>2, <2>1, Constants
    <3> QED
      BY <1>1, <2>1, <3>1, Constants
  <2>2. CASE proc[h] \in Checking /\ ttl > timer[h] + 2 * Latency
    BY <1>1, <1>3, <2>2, Constants
  <2>3. ASSUME NEW s \in Slots, calls[h][s].at \in {"get", "own", "expire"},
               ttl > calls[h][s].left + Latency
        PROVE  ttl > 1
    <3>1. calls[h][s].left \in Nat /\ calls[h][s].left # 0
      BY <1>1, <1>2, <2>3, Constants
    <3> QED
      BY <1>1, <2>3, <3>1, Constants
  <2> QED
    BY <2>1, <2>2, <2>3 DEF Lease
<1> QED
  BY <1>1, <1>4 DEF Tick

(***************************************************************************)
(* The key of a running instance is kept: the renewal comes before the     *)
(* expiry, and only its own shutdown deletes it.                           *)
(***************************************************************************)
THEOREM LeaseIsKept == Spec => KeyKept
<1> DEFINE Kept(h) == key = h /\ proc[h] \in Running /\ undisturbed'
                        /\ proc'[h] \in Running => key' = h
<1>1. ASSUME Shape, Hold, Next, NEW h \in Host
      PROVE  Kept(h)
  <2> SUFFICES ASSUME key = h, proc[h] \in Running, undisturbed' PROVE key' = h
    OBVIOUS
  <2>1. CASE Tick
    <3>1. undisturbed
      BY <2>1 DEF Tick
    <3>2. Lease(h)
      BY <1>1, <3>1 DEF Hold, HoldOf
    <3> QED
      BY <1>1, <2>1, <3>2, LeaseLasts
  <2>2. CASE LoseKey
    BY <2>2 DEF LoseKey
  <2>3. ASSUME NEW g \in Host, Del(g)
        PROVE  FALSE
    <3>1. undisturbed /\ calls[g][0].at = "del"
      BY <2>3 DEF Del
    <3>2. key = g
      BY <1>1, <3>1 DEF Hold, HoldOf
    <3>3. proc[g] = "clearing"
      BY <1>1, <3>1 DEF Shape, ShapeOf
    <3> QED
      BY <3>2, <3>3
  <2>4. ASSUME NEW g \in Host, CheckLeader(g) \/ Lifecycle(g)
        PROVE  key' = key
    BY <2>4 DEF CheckLeader, Lifecycle, Start, InitTracker, RegisterEventHandlers,
                StopProcess, Shutdown, Exit, Crash, End
  <2>5. ASSUME NEW g \in Host, NEW s \in Slots, CallStep(g, s)
        PROVE  key' = key
    BY <2>5, Constants DEF CallStep, Get, SetNX, Expire, OwnKey, OtherLeader, Vacant, Elected
  <2> QED
    BY <1>1, <2>1, <2>2, <2>3, <2>4, <2>5 DEF Next, Step
<1>2. Shape /\ Hold /\ [Next]_vars => [\A h \in Host : Kept(h)]_vars
  BY <1>1
<1>3. KeyKept <=> [][\A h \in Host : Kept(h)]_vars
  BY DEF KeyKept
<1> QED
  BY <1>2, <1>3, ShapeAndHold, PTL DEF Spec

(***************************************************************************)
(* One check at a time.  If a check takes less than the interval, the one  *)
(* before is over when the next begins; so nobody becomes leader while a   *)
(* check of the same instance is about to make it a follower, and the only *)
(* ways from leader to follower are those that emit the event.             *)
(***************************************************************************)
SoleOf(h) ==
    /\ \A s, t \in Slots \ {0} :
          calls[h][s].at # "idle" /\ calls[h][t].at # "idle" => s = t
    /\ proc[h] \in Checking => \A s \in Slots \ {0} :
          calls[h][s].at # "idle" => calls[h][s].left + Interval <= Latency + timer[h]
    /\ \A s \in Slots \ {0} : calls[h][s].at \in {"set", "won", "lost"} => role[h] # "leader"
    /\ listening[h] => proc[h] \notin {"down", "electing"}

\* Of every instance.
Sole == \A h \in Host : SoleOf(h)

\* An instance that the step leaves alone.
LEMMA SoleOfOthers ==
    ASSUME NEW g \in Host, SoleOf(g), SameInstance(g), listening'[g] = listening[g]
    PROVE  SoleOf(g)'
BY DEF SoleOf, SameInstance, Slots

\* What an answer from Redis, or its handling, changes.
LEMMA CallStepEffect ==
    ASSUME Shape, Sole, NEW h \in Host, NEW s \in Slots, CallStep(h, s)
    PROVE  /\ calls[h][s].at # "idle" /\ OthersKept(h, s)
           /\ calls'[h][s].at = "idle" \/ calls'[h][s].left = calls[h][s].left
           /\ s # 0 /\ calls'[h][s].at \in {"set", "won", "lost"} => role'[h] # "leader"
           /\ listening' = listening
           /\ \/ UNCHANGED <<proc, timer>>
              \/ /\ s = 0 /\ proc[h] = "electing" /\ calls'[h][s].at = "idle"
                 /\ proc' = [proc EXCEPT ![h] = "booting"]
                 /\ timer' = [timer EXCEPT ![h] = Interval]
           /\ \A g \in Host \ {h} : role'[g] = role[g]
           /\ role'[h] = "leader" => role[h] = "leader" \/ calls[h][s].at \in {"own", "won"}
<1>0. /\ CallsOK /\ ShapeOf(h) /\ SoleOf(h) /\ 0 \in Slots
      /\ role \in [Host -> {"unset", "leader", "follower"}] /\ proc \in [Host -> ProcState]
  BY TimeTypes, Constants DEF Sole
<1>1. CASE Get(h, s)
  BY <1>0, <1>1, ProceedEffect DEF Get
<1>2. CASE SetNX(h, s)
  <2>1. /\ calls[h][s].at = "set" /\ UNCHANGED local
        /\ Proceed(h, s, "won") \/ Proceed(h, s, "lost")
    BY <1>2 DEF SetNX
  <2>2. /\ calls'[h][s].left = calls[h][s].left /\ OthersKept(h, s)
    BY <1>0, <2>1, ProceedEffect
  <2>3. s # 0 => role[h] # "leader"
    BY <1>0, <2>1 DEF SoleOf
  <2> QED
    BY <2>1, <2>2, <2>3
<1>3. CASE Expire(h, s)
  BY <1>0, <1>3, DoneEffect, TimingAssumption DEF Expire
<1>4. CASE OwnKey(h, s)
  <2>1. /\ calls'[h][s].at = "expire" /\ calls'[h][s].left = calls[h][s].left /\ OthersKept(h, s)
    BY <1>0, <1>4, ProceedEffect DEF OwnKey
  <2>2. /\ calls[h][s].at = "own" /\ UNCHANGED <<proc, timer, listening>>
        /\ role' = role \/ role' = [role EXCEPT ![h] = "leader"]
    BY <1>4 DEF OwnKey, BecomeLeader
  <2> QED
    BY <1>0, <2>1, <2>2
<1>5. CASE OtherLeader(h, s)
  <2>1. calls'[h][s].at = "idle" /\ OthersKept(h, s)
    BY <1>0, <1>5, DoneEffect, TimingAssumption DEF OtherLeader
  <2>2. /\ calls[h][s].at = "other" /\ UNCHANGED <<proc, timer, listening>>
        /\ role' = role \/ role' = [role EXCEPT ![h] = "follower"]
    BY <1>5 DEF OtherLeader, BecomeFollower
  <2> QED
    BY <1>0, <2>1, <2>2
<1>6. CASE Vacant(h, s)
  <2>1. calls'[h][s].left = calls[h][s].left /\ OthersKept(h, s)
    BY <1>0, <1>6, ProceedEffect DEF Vacant
  <2>2. /\ calls[h][s].at = "vacant" /\ UNCHANGED <<proc, timer, listening>>
        /\ role' = [role EXCEPT ![h] = "follower"]
    BY <1>6 DEF Vacant, BecomeFollower
  <2> QED
    BY <1>0, <2>1, <2>2
<1>7. CASE Elected(h, s)
  <2>1. calls'[h][s].at = "idle" /\ OthersKept(h, s)
    BY <1>0, <1>7, DoneEffect, TimingAssumption DEF Elected
  <2>2. /\ \/ calls[h][s].at = "won" /\ role' = [role EXCEPT ![h] = "leader"]
           \/ calls[h][s].at = "lost" /\ role' = [role EXCEPT ![h] = "follower"]
        /\ \/ UNCHANGED <<proc, timer>>
           \/ /\ s = 0 /\ proc' = [proc EXCEPT ![h] = "booting"]
              /\ timer' = [timer EXCEPT ![h] = Interval]
        /\ listening' = listening
    BY <1>7 DEF Elected, BecomeLeader, BecomeFollower
  <2>3. s = 0 => proc[h] = "electing"
    BY <1>0, <2>2 DEF ShapeOf
  <2> QED
    BY <1>0, <2>1, <2>2, <2>3
<1> QED
  BY <1>1, <1>2, <1>3, <1>4, <1>5, <1>6, <1>7 DEF CallStep

\* So the check in flight stays the only one, and nobody leads who is about to follow.
LEMMA SoleCallStep ==
    ASSUME Shape, Sole, NEW h \in Host, NEW s \in Slots, CallStep(h, s)
    PROVE  Sole'
<1>0. /\ ShapeOf(h) /\ SoleOf(h) /\ 0 \in Slots /\ Interval \in Nat /\ Latency \in Nat
      /\ \A t \in Slots : calls[h][t].left \in 0 .. Latency
      /\ proc \in [Host -> ProcState] /\ timer \in [Host -> 0 .. Interval]
  BY TimeTypes, Constants DEF Sole
<1>1. /\ calls[h][s].at # "idle" /\ OthersKept(h, s)
      /\ calls'[h][s].at = "idle" \/ calls'[h][s].left = calls[h][s].left
      /\ s # 0 /\ calls'[h][s].at \in {"set", "won", "lost"} => role'[h] # "leader"
      /\ listening' = listening
      /\ \/ UNCHANGED <<proc, timer>>
         \/ /\ s = 0 /\ proc[h] = "electing" /\ calls'[h][s].at = "idle"
            /\ proc' = [proc EXCEPT ![h] = "booting"]
            /\ timer' = [timer EXCEPT ![h] = Interval]
      /\ \A g \in Host \ {h} : role'[g] = role[g]
      /\ role'[h] = "leader" => role[h] = "leader" \/ calls[h][s].at \in {"own", "won"}
  BY CallStepEffect
<1>2. \A g \in Host \ {h} : SameInstance(g) /\ listening'[g] = listening[g]
  BY <1>0, <1>1 DEF SameInstance, OthersKept
<1>3. \A t \in Slots \ {s} : calls'[h][t] = calls[h][t]
  BY <1>1 DEF OthersKept
<1>4. \A t, u \in Slots \ {0} : calls'[h][t].at # "idle" /\ calls'[h][u].at # "idle" => t = u
  BY <1>0, <1>1, <1>3 DEF SoleOf
<1>5. proc'[h] \in Checking => \A t \in Slots \ {0} :
          calls'[h][t].at # "idle" => calls'[h][t].left + Interval <= Latency + timer'[h]
  <2>1. CASE UNCHANGED <<proc, timer>>
    BY <1>0, <1>1, <1>3, <2>1 DEF SoleOf
  <2>2. CASE s = 0 /\ proc[h] = "electing"
    BY <1>0, <1>3, <2>2 DEF ShapeOf
  <2> QED
    BY <1>1, <2>1, <2>2
<1>6. \A t \in Slots \ {0} : calls'[h][t].at \in {"set", "won", "lost"} => role'[h] # "leader"
  <2> SUFFICES ASSUME NEW t \in Slots \ {0}, t # s, calls'[h][t].at \in {"set", "won", "lost"}
               PROVE  role'[h] # "leader"
    BY <1>1
  <2>1. calls[h][t].at \in {"set", "won", "lost"} /\ role[h] # "leader"
    BY <1>0, <1>3 DEF SoleOf
  <2>2. s = 0
    BY <1>0, <1>1, <2>1 DEF SoleOf
  <2>3. calls[h][s].at \notin {"own", "won"}
    BY <1>0, <2>1, <2>2 DEF ShapeOf
  <2> QED
    BY <1>1, <2>1, <2>3
<1>7. listening'[h] => proc'[h] \notin {"down", "electing"}
  BY <1>0, <1>1 DEF SoleOf
<1>8. SoleOf(h)'
  BY <1>4, <1>5, <1>6, <1>7 DEF SoleOf, Slots
<1> QED
  BY <1>2, <1>8, SoleOfOthers DEF Sole

\* When the interval fires the check before is over.
LEMMA SoleCheck ==
    ASSUME Latency < Interval, Shape, Sole, NEW h \in Host, CheckLeader(h) \/ Del(h)
    PROVE  Sole'
<1>0. /\ ShapeOf(h) /\ SoleOf(h) /\ CallsOK /\ 0 \in Slots /\ Interval \in Nat /\ Latency \in Nat
      /\ \A t \in Slots : calls[h][t].left \in 0 .. Latency
      /\ proc \in [Host -> ProcState] /\ timer \in [Host -> 0 .. Interval]
  BY TimeTypes, Constants DEF Sole
<1>1. CASE CheckLeader(h)
  <2>1. PICK s \in Slots \ {0} : calls' = [calls EXCEPT ![h][s] = Ask("get")]
    BY <1>1 DEF CheckLeader
  <2>2. calls'[h][s].at = "get" /\ calls'[h][s].left = Latency /\ OthersKept(h, s)
    BY <1>0, <2>1, AskEffect, TimingAssumption
  <2>3. /\ UNCHANGED <<proc, role, listening>> /\ proc[h] \in Checking /\ timer[h] = 0
        /\ timer' = [timer EXCEPT ![h] = Interval]
    BY <1>1 DEF CheckLeader
  <2>4. \A t \in Slots \ {0} : calls[h][t].at = "idle"
    BY <1>0, <2>3 DEF SoleOf
  <2>5. \A t \in Slots \ {0, s} : calls'[h][t].at = "idle"
    BY <2>2, <2>4 DEF OthersKept
  <2>6. timer'[h] = Interval
    BY <1>0, <2>3
  <2>7. SoleOf(h)'
    BY <1>0, <2>2, <2>3, <2>5, <2>6 DEF SoleOf, Slots
  <2>8. \A g \in Host \ {h} : SameInstance(g) /\ listening'[g] = listening[g]
    BY <1>0, <2>2, <2>3 DEF SameInstance, OthersKept
  <2> QED
    BY <2>7, <2>8, SoleOfOthers DEF Sole
<1>2. CASE Del(h)
  <2>1. calls'[h][0].at = "idle" /\ OthersKept(h, 0)
    BY <1>0, <1>2, DoneEffect, TimingAssumption DEF Del
  <2>2. /\ proc' = [proc EXCEPT ![h] = "leaving"] /\ UNCHANGED <<role, timer, listening>>
    BY <1>2 DEF Del
  <2>3. \A t \in Slots \ {0} : calls'[h][t] = calls[h][t]
    BY <2>1 DEF OthersKept
  <2>4. SoleOf(h)'
    BY <1>0, <2>2, <2>3 DEF SoleOf, Slots
  <2>5. \A g \in Host \ {h} : SameInstance(g) /\ listening'[g] = listening[g]
    BY <1>0, <2>1, <2>2 DEF SameInstance, OthersKept
  <2> QED
    BY <2>4, <2>5, SoleOfOthers DEF Sole
<1> QED
  BY <1>1, <1>2

\* Start and stop begin no check.
LEMMA SoleLifecycle ==
    ASSUME Shape, Sole, NEW h \in Host, Lifecycle(h)
    PROVE  Sole'
<1>0. /\ ShapeOf(h) /\ SoleOf(h) /\ CallsOK /\ 0 \in Slots /\ listening \in [Host -> BOOLEAN]
      /\ proc \in [Host -> ProcState] /\ timer \in [Host -> 0 .. Interval]
      /\ role \in [Host -> {"unset", "leader", "follower"}]
  BY TimeTypes, Constants DEF Sole, Shape, TypeOK
<1>1. CASE Start(h)
  <2>1. OthersKept(h, 0)
    BY <1>0, <1>1, AskEffect, TimingAssumption DEF Start
  <2>2. /\ proc[h] = "down" /\ proc' = [proc EXCEPT ![h] = "electing"]
        /\ UNCHANGED <<role, timer, listening>>
    BY <1>1 DEF Start
  <2>3. \A t \in Slots \ {0} : calls'[h][t].at = "idle"
    BY <1>0, <2>1, <2>2 DEF OthersKept, ShapeOf
  <2>4. SoleOf(h)'
    BY <1>0, <2>2, <2>3 DEF SoleOf, Slots
  <2>5. \A g \in Host \ {h} : SameInstance(g) /\ listening'[g] = listening[g]
    BY <1>0, <2>1, <2>2 DEF SameInstance, OthersKept
  <2> QED
    BY <2>4, <2>5, SoleOfOthers DEF Sole
<1>2. CASE InitTracker(h) \/ RegisterEventHandlers(h) \/ StopProcess(h)
  <2>1. /\ proc[h] \in Checking
        /\ \E p \in Checking : proc' = [proc EXCEPT ![h] = p]
        /\ UNCHANGED <<role, timer, calls>>
        /\ listening' = listening \/ listening' = [listening EXCEPT ![h] = TRUE]
    BY <1>2 DEF InitTracker, RegisterEventHandlers, StopProcess
  <2>2. SoleOf(h)'
    BY <1>0, <2>1 DEF SoleOf, Slots
  <2>3. \A g \in Host \ {h} : SameInstance(g) /\ listening'[g] = listening[g]
    BY <1>0, <2>1 DEF SameInstance
  <2> QED
    BY <2>2, <2>3, SoleOfOthers DEF Sole
<1>3. CASE Shutdown(h)
  <2>1. /\ \E p \in {"clearing", "leaving"} : proc' = [proc EXCEPT ![h] = p]
        /\ timer' = [timer EXCEPT ![h] = 0] /\ UNCHANGED <<role, listening>>
        /\ calls' = calls \/ calls' = [calls EXCEPT ![h][0] = Ask("del")]
    BY <1>3 DEF Shutdown
  <2>2. OthersKept(h, 0)
    BY <1>0, <2>1, AskEffect, TimingAssumption DEF OthersKept
  <2>3. \A t \in Slots \ {0} : calls'[h][t] = calls[h][t]
    BY <2>2 DEF OthersKept
  <2>4. SoleOf(h)'
    BY <1>0, <2>1, <2>3 DEF SoleOf, Slots
  <2>5. \A g \in Host \ {h} : SameInstance(g) /\ listening'[g] = listening[g]
    BY <1>0, <2>1, <2>2 DEF SameInstance, OthersKept
  <2> QED
    BY <2>4, <2>5, SoleOfOthers DEF Sole
<1>4. CASE End(h)
  <2>1. /\ \A s \in Slots : calls'[h][s].at = "idle"
        /\ \A g \in Host \ {h}, s \in Slots : calls'[g][s] = calls[g][s]
    BY <1>0, <1>4, EndEffect, TimingAssumption DEF End
  <2>2. /\ proc' = [proc EXCEPT ![h] = "down"] /\ role' = [role EXCEPT ![h] = "unset"]
        /\ timer' = [timer EXCEPT ![h] = 0] /\ listening' = [listening EXCEPT ![h] = FALSE]
    BY <1>4 DEF End
  <2>3. SoleOf(h)'
    BY <1>0, <2>1, <2>2 DEF SoleOf, Slots
  <2>4. \A g \in Host \ {h} : SameInstance(g) /\ listening'[g] = listening[g]
    BY <1>0, <2>1, <2>2 DEF SameInstance
  <2> QED
    BY <2>3, <2>4, SoleOfOthers DEF Sole
<1> QED
  BY <1>1, <1>2, <1>3, <1>4 DEF Lifecycle, Exit, Crash

\* Timer and check run down together.
LEMMA SoleTick ==
    ASSUME Shape, Sole, Tick
    PROVE  Sole'
<1> SUFFICES ASSUME NEW h \in Host PROVE SoleOf(h)'
  BY DEF Sole
<1>0. /\ SoleOf(h) /\ UNCHANGED <<proc, role, listening>> /\ Interval \in Nat /\ Latency \in Nat
      /\ timer[h] \in 0 .. Interval /\ CallsOK
      /\ \A t \in Slots : calls[h][t].left \in 0 .. Latency
  BY TimeTypes, Constants DEF Sole, Tick
<1>1. \A s \in Slots :
         /\ calls'[h][s].at = calls[h][s].at
         /\ calls[h][s].at # "idle" => calls'[h][s].left = calls[h][s].left - 1
  BY <1>0, TickEffect, TimingAssumption
<1>2. proc[h] \in Checking => timer[h] > 0 /\ timer'[h] = timer[h] - 1
  BY <1>0 DEF Tick, Due, Decrease
<1> QED
  BY <1>0, <1>1, <1>2 DEF SoleOf, Slots

\* No step of an instance, of Redis or of the clock makes the checks of an instance overlap.
LEMMA SoleNext ==
    ASSUME Latency < Interval, Shape, Sole, [Next]_vars
    PROVE  Sole'
<1>1. CASE LoseKey
  <2>1. UNCHANGED <<proc, role, timer, listening, calls>>
    BY <1>1 DEF LoseKey
  <2> QED
    BY <2>1, SoleOfOthers DEF Sole, SameInstance
<1>2. CASE UNCHANGED vars
  BY <1>2, SoleOfOthers DEF vars, Sole, SameInstance
<1>3. CASE Tick
  BY <1>3, SoleTick
<1>4. ASSUME NEW h \in Host, Step(h) \/ Lifecycle(h)
      PROVE  Sole'
  BY <1>4, SoleCallStep, SoleCheck, SoleLifecycle DEF Step
<1> QED
  BY <1>1, <1>2, <1>3, <1>4 DEF Next

(***************************************************************************)
(* No leader becomes a follower behind the back of its services: once they *)
(* listen, the wait tracker is off from then on.  The hypothesis is what   *)
(* the code relies on: a check takes less than the interval.               *)
(***************************************************************************)
THEOREM StepdownIsHeard ==
    ASSUME Latency < Interval
    PROVE  Spec => StepdownAnnounced
<1> DEFINE Told(h) == listening[h] /\ role[h] = "leader" /\ role'[h] = "follower" => ~tracking'[h]
<1>1. Init => Sole
  <2> SUFFICES ASSUME Init, NEW h \in Host PROVE SoleOf(h)
    BY DEF Sole
  <2>1. /\ proc[h] = "down" /\ ~listening[h]
        /\ \A s \in Slots : calls[h][s].at = "idle"
    BY DEF Init
  <2> QED
    BY <2>1 DEF SoleOf
<1>2. ASSUME Shape, Sole, Next, NEW h \in Host
      PROVE  Told(h)
  <2> SUFFICES ASSUME listening[h], role[h] = "leader", role'[h] = "follower"
               PROVE  ~tracking'[h]
    OBVIOUS
  <2>0. /\ role \in [Host -> {"unset", "leader", "follower"}] /\ tracking \in [Host -> BOOLEAN]
        /\ ShapeOf(h) /\ SoleOf(h) /\ proc[h] \notin {"down", "electing"}
    BY <1>2, TimeTypes DEF Sole, SoleOf, Shape, TypeOK
  <2>1. ASSUME role' = role PROVE FALSE
    BY <2>1
  <2>2. CASE Tick \/ LoseKey
    BY <2>1, <2>2 DEF Tick, LoseKey
  <2>3. ASSUME NEW g \in Host, CheckLeader(g) \/ Del(g) \/ Lifecycle(g)
        PROVE  FALSE
    <3>1. role' = role \/ role' = [role EXCEPT ![g] = "unset"]
      BY <2>3 DEF CheckLeader, Del, Lifecycle, Start, InitTracker, RegisterEventHandlers,
                  StopProcess, Shutdown, Exit, Crash, End
    <3> QED
      BY <2>0, <3>1
  <2>4. ASSUME NEW g \in Host, NEW s \in Slots, CallStep(g, s)
        PROVE  ~tracking'[h]
    <3>1. CASE Get(g, s) \/ SetNX(g, s) \/ Expire(g, s)
      BY <2>1, <3>1 DEF Get, SetNX, Expire
    <3>2. CASE OwnKey(g, s)
      BY <2>0, <2>1, <3>2 DEF OwnKey, BecomeLeader
    <3>3. CASE OtherLeader(g, s) \/ Vacant(g, s)
      <4>1. \/ role' = role
            \/ role' = [role EXCEPT ![g] = "follower"] /\ EmitStepdown(g)
        BY <3>3 DEF OtherLeader, Vacant, BecomeFollower
      <4>2. g = h /\ EmitStepdown(h)
        BY <2>0, <4>1
      <4> QED
        BY <2>0, <4>2 DEF EmitStepdown
    <3>4. CASE Elected(g, s)
      <4>1. \/ role' = [role EXCEPT ![g] = "leader"]
            \/ calls[g][s].at = "lost" /\ role' = [role EXCEPT ![g] = "follower"]
        BY <3>4 DEF Elected, BecomeLeader, BecomeFollower
      <4>2. g = h /\ calls[h][s].at = "lost"
        BY <2>0, <4>1
      <4>3. s # 0
        BY <2>0, <4>2 DEF ShapeOf
      <4> QED
        BY <2>0, <4>2, <4>3 DEF SoleOf
    <3> QED
      BY <2>4, <3>1, <3>2, <3>3, <3>4 DEF CallStep
  <2> QED
    BY <1>2, <2>2, <2>3, <2>4 DEF Next, Step
<1>3. Shape /\ Sole /\ [Next]_vars => [\A h \in Host : Told(h)]_vars
  BY <1>2
<1>4. StepdownAnnounced <=> [][\A h \in Host : Told(h)]_vars
  BY DEF StepdownAnnounced
<1>5. Shape /\ Sole /\ [Next]_vars => (Shape /\ Sole)'
  BY ShapeNext, SoleNext
<1> QED
  BY <1>1, <1>3, <1>4, <1>5, ShapeInit, PTL DEF Spec
=============================================================================
