-------------------------- MODULE ConcurrencyControl --------------------------
(***************************************************************************)
(* Concurrency control of executions in regular mode:                      *)
(*   packages/cli/src/concurrency/concurrency-queue.ts                      *)
(*   packages/cli/src/concurrency/concurrency-control.service.ts            *)
(*   packages/cli/src/concurrency/concurrency-capacity-reservation.ts       *)
(*                                                                         *)
(* One ConcurrencyQueue exists per limited queue type.  A queue is a       *)
(* counter (`capacity`, which goes negative when executions wait) and a    *)
(* list of waiting {executionId, resolve} items.  The client of a queue    *)
(* is a ConcurrencyCapacityReservation: ActiveExecutions.add() makes one   *)
(* per call.  An item of the list is therefore identified here by its      *)
(* reservation, and carries the execution id in `target`: two calls may    *)
(* wait for the same execution id.                                         *)
(***************************************************************************)
EXTENDS Integers, FiniteSets, SequencesExt

CONSTANTS
  Exec,             \* execution ids
  NoExec,           \* the target of a reservation not made yet
  Reservation,      \* ConcurrencyCapacityReservation objects
  ModeOf,           \* the WorkflowExecuteMode of each execution, a column of its row
  ConfiguredLimit,  \* globalConfig.executions.concurrency, by queue type
  ExecutionsMode    \* globalConfig.executions.mode: "regular" or "queue"

QueueType == {"production", "evaluation"}

ProductionModes == {"webhook", "trigger", "chat"}
UnlimitedModes == {"error", "integrated", "cli", "internal", "manual", "retry"}
Mode == ProductionModes \cup UnlimitedModes \cup {"evaluation"}

\* The constructor throws InvalidConcurrencyLimitError for a limit of 0.
ASSUME LimitAssumption == ConfiguredLimit \in [QueueType -> Int \ {0}]
ASSUME NoExecAssumption == NoExec \notin Exec
ASSUME ModeAssumption == ModeOf \in [Exec -> Mode]
ASSUME FinitelyManyReservations == IsFiniteSet(Reservation)

\* The constructor turns every limit below -1 into -1, "unlimited".
Limit == [t \in QueueType |->
            IF ConfiguredLimit[t] < -1 THEN -1 ELSE ConfiguredLimit[t]]

\* The queue types the constructor creates a ConcurrencyQueue for.
Limited == {t \in QueueType : Limit[t] > 0}

Phase == {"none", "queued", "acquired", "released", "removed"}

VARIABLES
  isEnabled,    \* ConcurrencyControlService.isEnabled
  capacity,     \* ConcurrencyQueue.capacity, by queue type
  queue,        \* ConcurrencyQueue.queue, by queue type: waiting reservations
  reservation,  \* the phase of each reservation
  target        \* the execution it was made for (CapacityTarget)

ccVars == <<isEnabled, capacity, queue, reservation, target>>

\* What the service keeps is well typed: counters for the limited queues, lists of
\* reservations (concurrency-queue.ts).
TypeOK ==
  /\ isEnabled \in BOOLEAN
  /\ capacity \in [Limited -> Int]
  /\ queue \in [Limited -> Seq(Reservation)]
  /\ reservation \in [Reservation -> Phase]
  /\ target \in [Reservation -> Exec \cup {NoExec}]

CCInit ==
  /\ isEnabled = (Limited # {} /\ ExecutionsMode # "queue")
  /\ capacity = [t \in Limited |-> Limit[t]]
  /\ queue = [t \in Limited |-> <<>>]
  /\ reservation = [r \in Reservation |-> "none"]
  /\ target = [r \in Reservation |-> NoExec]

-----------------------------------------------------------------------------
\* getQueue(mode): the queue type that governs a mode, if any.
QueueOf(mode) ==
  CASE mode \in ProductionModes -> "production"
    [] mode = "evaluation" -> "evaluation"
    [] OTHER -> "none"

\* !isUnlimited(mode), and the service is enabled.
Governed(mode) == isEnabled /\ QueueOf(mode) \in Limited

\* The queue type of a reservation's execution.
TargetQueue(r) == QueueOf(ModeOf[target[r]])

\* The reservations that entered a queue, waiting or let through.
QueuedIn(t) ==
  {r \in Reservation : reservation[r] = "queued" /\ TargetQueue(r) = t}
Holders(t) ==
  {r \in Reservation : reservation[r] = "acquired" /\ TargetQueue(r) = t}

\* has(executionId): whether an execution is in any of the queues.
Has(e) ==
  /\ isEnabled
  /\ \E t \in Limited : \E i \in 1..Len(queue[t]) :
       target[queue[t][i]] = e

-----------------------------------------------------------------------------
\* resolveNext() reads the head of the list without shifting it.
PeekedOnly(q) == q

\* resolveNext(): shift the head of the list and resolve its promise, whatever
\* the capacity is.  The two operators give the list and the phases after it.
Shifted(q) == IF q = <<>> THEN q ELSE Tail(q)
Resolved(phases, q) ==
  IF q = <<>> THEN phases ELSE [phases EXCEPT ![Head(q)] = "acquired"]

\* enqueue() pushes the bare execution id instead of the item.
EnqueueIdOnly(t, r) ==
  /\ capacity' = [capacity EXCEPT ![t] = @ - 1]
  /\ \/ /\ capacity[t] > 0
        /\ reservation' = [reservation EXCEPT ![r] = "acquired"]
        /\ UNCHANGED queue
     \/ /\ capacity[t] <= 0
        /\ reservation' = [reservation EXCEPT ![r] = "queued"]
        /\ queue' = [queue EXCEPT ![t] = Append(@, target'[r])]

\* enqueue() tests the capacity before the decrement with `<= 0` off by one.
EnqueueOffByOne(t, r) ==
  /\ capacity' = [capacity EXCEPT ![t] = @ - 1]
  /\ \/ /\ capacity[t] >= 0
        /\ reservation' = [reservation EXCEPT ![r] = "acquired"]
        /\ UNCHANGED queue
     \/ /\ capacity[t] < 0
        /\ reservation' = [reservation EXCEPT ![r] = "queued"]
        /\ queue' = [queue EXCEPT ![t] = Append(@, r)]

\* enqueue() pushes in front: the queue becomes a stack.
EnqueueInFront(t, r) ==
  /\ capacity' = [capacity EXCEPT ![t] = @ - 1]
  /\ \/ /\ capacity[t] > 0
        /\ reservation' = [reservation EXCEPT ![r] = "acquired"]
        /\ UNCHANGED queue
     \/ /\ capacity[t] <= 0
        /\ reservation' = [reservation EXCEPT ![r] = "queued"]
        /\ queue' = [queue EXCEPT ![t] = <<r>> \o @]

\* enqueue(executionId): take one unit of capacity; wait if there was none.
Enqueue(t, r) ==
  /\ capacity' = [capacity EXCEPT ![t] = @ - 1]
  /\ \/ /\ capacity[t] > 0
        /\ reservation' = [reservation EXCEPT ![r] = "acquired"]
        /\ UNCHANGED queue
     \/ /\ capacity[t] <= 0
        /\ reservation' = [reservation EXCEPT ![r] = "queued"]
        /\ queue' = [queue EXCEPT ![t] = Append(@, r)]

\* CapacityReservation.reserve() and ConcurrencyControlService.throttle().
Throttle(r, e) ==
  /\ reservation[r] = "none"
  /\ target' = [target EXCEPT ![r] = e]
  /\ \/ Governed(ModeOf[e]) /\ Enqueue(QueueOf(ModeOf[e]), r)
     \/ /\ ~Governed(ModeOf[e])
        /\ reservation' = [reservation EXCEPT ![r] = "acquired"]
        /\ UNCHANGED <<capacity, queue>>
  /\ UNCHANGED isEnabled

\* dequeue() forgets `this.capacity++`.
ReleaseKeepsCapacity(r) ==
  LET t == TargetQueue(r)
  IN  /\ reservation[r] = "acquired"
      /\ Governed(ModeOf[target[r]])
      /\ queue' = [queue EXCEPT ![t] = Shifted(@)]
      /\ reservation' = Resolved([reservation EXCEPT ![r] = "released"], queue[t])
      /\ UNCHANGED <<isEnabled, capacity, target>>

\* dequeue() forgets resolveNext().
ReleaseWakesNobody(r) ==
  LET t == TargetQueue(r)
  IN  /\ reservation[r] = "acquired"
      /\ Governed(ModeOf[target[r]])
      /\ capacity' = [capacity EXCEPT ![t] = @ + 1]
      /\ reservation' = [reservation EXCEPT ![r] = "released"]
      /\ UNCHANGED <<isEnabled, queue, target>>

\* CapacityReservation.release(), ConcurrencyControlService.release() and
\* ConcurrencyQueue.dequeue().
Release(r) ==
  LET t == TargetQueue(r)
      released == [reservation EXCEPT ![r] = "released"]
  IN  /\ reservation[r] = "acquired"
      /\ \/ /\ Governed(ModeOf[target[r]])
            /\ capacity' = [capacity EXCEPT ![t] = @ + 1]
            /\ queue' = [queue EXCEPT ![t] = Shifted(@)]
            /\ reservation' = Resolved(released, queue[t])
         \/ /\ ~Governed(ModeOf[target[r]])
            /\ reservation' = released
            /\ UNCHANGED <<capacity, queue>>
      /\ UNCHANGED <<isEnabled, target>>

\* queue.findIndex(item => item === executionId)
FoundAt(q, e, i) ==
  /\ i \in 1..Len(q)
  /\ target[q[i]] = e
  /\ \A j \in 1..(i - 1) : target[q[j]] # e

\* ConcurrencyControlService.remove() and ConcurrencyQueue.remove().  The
\* promise of the removed item is dropped: it never settles.
RemoveQueued(e) ==
  LET t == QueueOf(ModeOf[e])
  IN  /\ Governed(ModeOf[e])
      /\ \E i \in 1..Len(queue[t]) :
           LET rest == RemoveAt(queue[t], i)
           IN  /\ FoundAt(queue[t], e, i)
               /\ capacity' = [capacity EXCEPT ![t] = @ + 1]
               /\ queue' = [queue EXCEPT ![t] = Shifted(rest)]
               /\ reservation' =
                    Resolved([reservation EXCEPT ![queue[t][i]] = "removed"], rest)
      /\ UNCHANGED <<isEnabled, target>>

\* disable(): the first thing ActiveExecutions.shutdown() does in regular mode.
Disable ==
  /\ isEnabled
  /\ isEnabled' = FALSE
  /\ UNCHANGED <<capacity, queue, reservation, target>>

CCNext ==
  \/ \E r \in Reservation, e \in Exec : Throttle(r, e)
  \/ \E r \in Reservation : Release(r)
  \/ \E e \in Exec : RemoveQueued(e)
  \/ Disable

CCSpec == CCInit /\ [][CCNext]_ccVars

\* The executions that hold capacity end: postExecutePromise settles in the end
\* and its finally() releases the reservation.
CCFairSpec == CCSpec /\ \A r \in Reservation : WF_ccVars(Release(r))

-----------------------------------------------------------------------------
(* Properties *)

\* The counter says the truth: while the service is enabled, what is left of
\* the limit is what neither runs nor waits, so no sequence of throttle,
\* release and remove leaks or invents capacity (concurrency-queue.ts
\* decrements and increments in three places).
CapacityAccounting ==
  isEnabled =>
    \A t \in Limited :
      capacity[t] = Limit[t] - Cardinality(Holders(t)) - Len(queue[t])

\* No execution waits while capacity is free: a queue is non-empty only when at
\* least `limit` reservations hold capacity.
WorkConserving ==
  isEnabled =>
    \A t \in Limited : queue[t] # <<>> => Cardinality(Holders(t)) >= Limit[t]

\* While executions wait, the counter has gone below zero by at least their
\* number (it may exceed it, after a remove()).
OverdrawnWhileWaiting ==
  isEnabled =>
    \A t \in Limited : queue[t] # <<>> => capacity[t] + Len(queue[t]) <= 0

\* The list of a queue names each waiting reservation exactly once, so that a
\* resolve() is never lost and never addressed to a reservation that went on.
QueueIsExact ==
  \A t \in Limited :
    /\ QueuedIn(t) = ToSet(queue[t])
    /\ IsInjective(queue[t])

\* The inductive invariant of the proofs.
CCInvariant ==
  /\ TypeOK
  /\ QueueIsExact
  /\ CapacityAccounting
  /\ OverdrawnWhileWaiting

\* throttle() and release() never push the holders above the limit: only
\* remove() lets an execution through when none has finished (resolveNext()
\* runs after the removal of an item that held nothing), so that only after a
\* remove() the configured limit may be exceeded.
OnlyRemoveOvershoots ==
  [][\A t \in Limited :
       \/ Cardinality(Holders(t)') <= Limit[t]
       \/ Cardinality(Holders(t)') <= Cardinality(Holders(t))
       \/ ~isEnabled
       \/ \E e \in Exec : RemoveQueued(e)]_ccVars

\* First come, first served: while a reservation waits, none that stands behind
\* it, and none that comes to its queue later, is let through before it.
Precedes(r, s) ==
  \E t \in Limited : \E i, j \in 1..Len(queue[t]) :
    i < j /\ queue[t][i] = r /\ queue[t][j] = s
FirstComeFirstServed ==
  [][isEnabled =>
       \A r, s \in Reservation :
         (/\ reservation[r] = "queued" /\ reservation'[r] = "queued"
          /\ Precedes(r, s) \/ (reservation[s] = "none" /\ reservation'[s] # "none")
          /\ TargetQueue(r) = TargetQueue(s)')
         => (Precedes(r, s)' \/ reservation'[s] = "removed")]_ccVars

\* A throttled execution is let through or removed, as long as those that run
\* end and the service is not disabled by a shutdown.
QueuedIsServed ==
  \A r \in Reservation :
    reservation[r] = "queued" ~> (reservation[r] # "queued" \/ ~isEnabled)

=============================================================================
