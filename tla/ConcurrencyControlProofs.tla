----------------------- MODULE ConcurrencyControlProofs -----------------------
(***************************************************************************)
(* What the concurrency queues guarantee for every limit, every set of     *)
(* executions and any number of reservations.  TLC checks the same         *)
(* formulas on the instances of MCConcurrencyControl.                      *)
(***************************************************************************)
EXTENDS ConcurrencyControl, FiniteSetTheorems, SequenceTheorems, TLAPS

(***************************************************************************)
(* The list of waiting items: what push, shift and splice do to it.        *)
(***************************************************************************)

\* push (concurrency-queue.ts, enqueue) adds one element behind the others.
LEMMA AppendFacts ==
  ASSUME NEW S, NEW q \in Seq(S), NEW x \in S, IsInjective(q), x \notin ToSet(q)
  PROVE  /\ Append(q, x) \in Seq(S)
         /\ Len(Append(q, x)) = Len(q) + 1
         /\ IsInjective(Append(q, x))
         /\ ToSet(Append(q, x)) = ToSet(q) \cup {x}
<1> DEFINE a == Append(q, x)
<1>1. a \in Seq(S) /\ Len(a) = Len(q) + 1 /\ DOMAIN a = 1..Len(q) + 1
  OBVIOUS
<1>2. DOMAIN q = 1..Len(q) /\ Len(q) \in Nat
  OBVIOUS
<1>3. \A i \in 1..Len(q) : a[i] = q[i]
  OBVIOUS
<1>4. a[Len(q) + 1] = x
  OBVIOUS
<1>5. \A i \in 1..Len(q) : q[i] # x
  BY <1>2 DEF ToSet
<1>6. IsInjective(a)
  <2> SUFFICES ASSUME NEW i \in DOMAIN a, NEW j \in DOMAIN a, a[i] = a[j]
               PROVE  i = j
    BY DEF IsInjective
  <2> HIDE DEF a
  <2>1. CASE i \in 1..Len(q) /\ j \in 1..Len(q)
    BY <2>1, <1>2, <1>3 DEF IsInjective
  <2>2. CASE i = Len(q) + 1 \/ j = Len(q) + 1
    BY <2>2, <1>1, <1>2, <1>3, <1>4, <1>5
  <2> QED
    BY <2>1, <2>2, <1>1, <1>2
<1>7. ToSet(a) = ToSet(q) \cup {x}
  <2> HIDE DEF a
  <2>1. ToSet(a) \subseteq ToSet(q) \cup {x}
    BY <1>1, <1>2, <1>3, <1>4 DEF ToSet
  <2>2. ToSet(q) \subseteq ToSet(a)
    BY <1>1, <1>2, <1>3 DEF ToSet
  <2>3. x \in ToSet(a)
    BY <1>1, <1>2, <1>4 DEF ToSet
  <2> QED
    BY <2>1, <2>2, <2>3
<1> QED
  BY <1>1, <1>6, <1>7

\* The list a is the list q without its k-th element.
Spliced(a, q, k, S) ==
  /\ a \in Seq(S)
  /\ Len(a) = Len(q) - 1
  /\ IsInjective(a)
  /\ ToSet(a) = ToSet(q) \ {q[k]}
  /\ \A i \in 1..(Len(q) - 1) : a[i] = q[IF i < k THEN i ELSE i + 1]

\* splice (concurrency-queue.ts, remove) takes one element out and keeps the
\* order of the others.
LEMMA RemoveAtFacts ==
  ASSUME NEW S, NEW q \in Seq(S), NEW k \in 1..Len(q), IsInjective(q)
  PROVE  Spliced(RemoveAt(q, k), q, k, S)
<1> DEFINE a == RemoveAt(q, k)
<1> DEFINE f(i) == IF i < k THEN i ELSE i + 1
<1>1. DOMAIN q = 1..Len(q) /\ Len(q) \in Nat /\ k \in Nat
  OBVIOUS
<1> DEFINE front == SubSeq(q, 1, k - 1)
<1> DEFINE back == SubSeq(q, k + 1, Len(q))
<1>a. /\ front \in Seq(S)
      /\ Len(front) = k - 1
      /\ \A i \in 1..(k - 1) : front[i] = q[i]
  <2>1. \A i \in 1..(k - 1) : q[i] \in S
    OBVIOUS
  <2>2. k - 1 - 1 + 1 = k - 1 /\ (1 <= k - 1 \/ k - 1 = 0)
    BY <1>1
  <2> QED
    BY <1>1, <2>1, <2>2, SubSeqProperties
<1>b. /\ back \in Seq(S)
      /\ Len(back) = Len(q) - k
      /\ \A i \in 1..(Len(q) - k) : back[i] = q[k + i]
  <2>1. \A i \in (k + 1)..Len(q) : q[i] \in S
    BY <1>1
  <2>2. /\ back \in Seq(S)
        /\ Len(back) = IF k + 1 <= Len(q) THEN Len(q) - (k + 1) + 1 ELSE 0
        /\ \A i \in 1..(Len(q) - (k + 1) + 1) : back[i] = q[(k + 1) + i - 1]
    BY <1>1, <2>1, SubSeqProperties
  <2> HIDE DEF back
  <2>3. Len(back) = Len(q) - k
    <3>1. k <= Len(q) /\ Len(q) - (k + 1) + 1 = Len(q) - k
      BY <1>1
    <3>2. CASE k + 1 <= Len(q)
      BY <2>2, <3>1, <3>2
    <3>3. CASE ~(k + 1 <= Len(q))
      <4>1. \A m, n \in Nat : m <= n /\ ~(m + 1 <= n) => n - m = 0
        OBVIOUS
      <4>2. Len(q) - k = 0
        BY <1>1, <3>1, <3>3, <4>1
      <4> QED
        BY <2>2, <3>3, <4>2
    <3> QED
      BY <3>2, <3>3
  <2>4. ASSUME NEW i \in 1..(Len(q) - k)
        PROVE  back[i] = q[k + i]
    <3>1. i \in 1..(Len(q) - (k + 1) + 1) /\ (k + 1) + i - 1 = k + i
      BY <1>1
    <3> QED
      BY <2>2, <3>1
  <2> QED
    BY <2>2, <2>3, <2>4
<1>c. a = front \o back
  BY DEF RemoveAt
<1> HIDE DEF a, front, back
<1>d. /\ a \in Seq(S)
      /\ Len(a) = Len(front) + Len(back)
      /\ \A i \in 1..(Len(front) + Len(back)) :
            a[i] = IF i <= Len(front) THEN front[i] ELSE back[i - Len(front)]
  BY <1>a, <1>b, <1>c, ConcatProperties
<1>2. a \in Seq(S) /\ Len(a) = Len(q) - 1 /\ DOMAIN a = 1..(Len(q) - 1)
  BY <1>1, <1>a, <1>b, <1>d
<1>3. ASSUME NEW i \in 1..(Len(q) - 1)
      PROVE  a[i] = q[f(i)]
  <2>1. i \in 1..(Len(front) + Len(back))
    BY <1>1, <1>a, <1>b
  <2>2. CASE i < k
    <3>1. i \in 1..(k - 1) /\ i <= Len(front) /\ f(i) = i
      BY <2>2, <1>1, <1>a
    <3> QED
      BY <2>1, <3>1, <1>a, <1>d
  <2>3. CASE ~(i < k)
    <3>1. /\ ~(i <= Len(front))
          /\ i - Len(front) \in 1..(Len(q) - k)
          /\ k + (i - Len(front)) = i + 1
          /\ f(i) = i + 1
      BY <2>3, <1>1, <1>a
    <3> QED
      BY <2>1, <3>1, <1>b, <1>d
  <2> QED
    BY <2>2, <2>3
<1>4. \A i \in 1..(Len(q) - 1) : f(i) \in 1..Len(q) /\ f(i) # k
  BY <1>1
<1>5. \A i, j \in 1..(Len(q) - 1) : f(i) = f(j) => i = j
  BY <1>1
<1>6. \A m \in 1..Len(q) : m # k => \E i \in 1..(Len(q) - 1) : f(i) = m
  <2> SUFFICES ASSUME NEW m \in 1..Len(q), m # k
               PROVE  \E i \in 1..(Len(q) - 1) : f(i) = m
    OBVIOUS
  <2>1. CASE m < k
    BY <2>1, <1>1
  <2>2. CASE m > k
    <3>1. m - 1 \in 1..(Len(q) - 1) /\ f(m - 1) = m
      BY <2>2, <1>1
    <3> QED
      BY <3>1
  <2> QED
    BY <2>1, <2>2, <1>1
<1> HIDE DEF f
<1>7. IsInjective(a)
  BY <1>1, <1>2, <1>3, <1>4, <1>5 DEF IsInjective
<1>8. ToSet(a) \subseteq ToSet(q) \ {q[k]}
  <2> SUFFICES ASSUME NEW i \in 1..(Len(q) - 1)
               PROVE  a[i] \in ToSet(q) \ {q[k]}
    BY <1>2 DEF ToSet
  <2>1. PICK m \in 1..Len(q) : m # k /\ a[i] = q[m]
    BY <1>3, <1>4
  <2>2. q[m] \in ToSet(q)
    BY <1>1 DEF ToSet
  <2>3. q[m] # q[k]
    BY <1>1, <2>1 DEF IsInjective
  <2> QED
    BY <2>1, <2>2, <2>3
<1>9. ToSet(q) \ {q[k]} \subseteq ToSet(a)
  <2> SUFFICES ASSUME NEW m \in 1..Len(q), q[m] # q[k]
               PROVE  q[m] \in ToSet(a)
    BY <1>1 DEF ToSet
  <2>1. PICK i \in 1..(Len(q) - 1) : f(i) = m
    BY <1>6
  <2>2. a[i] = q[m]
    BY <1>3, <2>1
  <2> QED
    BY <1>2, <2>2 DEF ToSet
<1>10. ToSet(a) = ToSet(q) \ {q[k]}
  BY <1>8, <1>9
<1>11. \A i \in 1..(Len(q) - 1) : a[i] = q[IF i < k THEN i ELSE i + 1]
  BY <1>3 DEF f
<1>12. Spliced(a, q, k, S)
  BY <1>2, <1>7, <1>10, <1>11 DEF Spliced
<1> QED
  BY <1>12 DEF a

\* shift (concurrency-queue.ts, resolveNext) takes the head out, if any.
LEMMA ShiftedFacts ==
  ASSUME NEW S, NEW q \in Seq(S), IsInjective(q)
  PROVE  /\ Shifted(q) \in Seq(S)
         /\ IsInjective(Shifted(q))
         /\ q # <<>> => /\ Len(Shifted(q)) = Len(q) - 1
                        /\ ToSet(Shifted(q)) = ToSet(q) \ {Head(q)}
                        /\ Head(q) \in ToSet(q)
                        /\ Head(q) \in S
<1>1. CASE q = <<>>
  <2>1. Shifted(q) = q
    BY <1>1 DEF Shifted
  <2> QED
    BY <1>1, <2>1
<1>2. CASE q # <<>>
  <2>1. 1 \in 1..Len(q) /\ Head(q) = q[1] /\ q[1] \in S /\ DOMAIN q = 1..Len(q)
    BY <1>2
  <2>2. Tail(q) = RemoveAt(q, 1)
    <3>1. SubSeq(q, 1, 0) = <<>> /\ SubSeq(q, 2, Len(q)) \in Seq(S)
      BY <2>1
    <3>2. RemoveAt(q, 1) = SubSeq(q, 2, Len(q))
      BY <3>1 DEF RemoveAt
    <3>3. Tail(q) = SubSeq(q, 2, Len(q))
      BY <1>2
    <3> QED
      BY <3>2, <3>3
  <2>3. Head(q) \in ToSet(q)
    BY <2>1 DEF ToSet
  <2> DEFINE a == RemoveAt(q, 1)
  <2>4. Spliced(a, q, 1, S)
    BY <2>1, RemoveAtFacts
  <2>5. Shifted(q) = a
    BY <1>2, <2>2 DEF Shifted
  <2> HIDE DEF a
  <2> QED
    BY <2>1, <2>3, <2>4, <2>5 DEF Spliced
<1> QED
  BY <1>1, <1>2

Before(q, x, y) == \E i, j \in 1..Len(q) : i < j /\ q[i] = x /\ q[j] = y

\* push leaves those that are in the list where they are, and the newcomer behind them.
LEMMA AppendOrder ==
  ASSUME NEW S, NEW q \in Seq(S), NEW x \in S
  PROVE  /\ \A y, z : Before(q, y, z) => Before(Append(q, x), y, z)
         /\ \A y \in ToSet(q) : Before(Append(q, x), y, x)
<1> DEFINE a == Append(q, x)
<1>1. Len(q) \in Nat /\ DOMAIN q = 1..Len(q) /\ Len(a) = Len(q) + 1
  OBVIOUS
<1>2. \A i \in 1..Len(q) : a[i] = q[i]
  OBVIOUS
<1>3. a[Len(q) + 1] = x
  OBVIOUS
<1> HIDE DEF a
<1>4. ASSUME NEW y, NEW z, Before(q, y, z)
      PROVE  Before(a, y, z)
  BY <1>1, <1>2, <1>4 DEF Before
<1>5. ASSUME NEW y \in ToSet(q)
      PROVE  Before(a, y, x)
  <2>1. PICK i \in 1..Len(q) : q[i] = y
    BY <1>1 DEF ToSet
  <2>2. i \in 1..Len(a) /\ Len(q) + 1 \in 1..Len(a) /\ i < Len(q) + 1
    BY <1>1
  <2> QED
    BY <1>2, <1>3, <2>1, <2>2 DEF Before
<1> QED
  BY <1>4, <1>5 DEF a

\* splice keeps the order of those that stay.
LEMMA RemoveAtOrder ==
  ASSUME NEW S, NEW q \in Seq(S), NEW k \in 1..Len(q), IsInjective(q),
         NEW x, NEW y, x # q[k], y # q[k], Before(q, x, y)
  PROVE  Before(RemoveAt(q, k), x, y)
<1> DEFINE a == RemoveAt(q, k)
<1> DEFINE g(i) == IF i < k THEN i ELSE i - 1
<1>0. Spliced(a, q, k, S)
  BY RemoveAtFacts
<1> HIDE DEF a
<1>1. Len(q) \in Nat /\ k \in Nat /\ Len(a) = Len(q) - 1
  BY <1>0 DEF Spliced
<1>2. \A i \in 1..(Len(q) - 1) : a[i] = q[IF i < k THEN i ELSE i + 1]
  BY <1>0 DEF Spliced
<1>3. PICK i, j \in 1..Len(q) : i < j /\ q[i] = x /\ q[j] = y
  BY DEF Before
<1>4. i # k /\ j # k
  BY <1>3
<1>5. ASSUME NEW m \in 1..Len(q), m # k
      PROVE  g(m) \in 1..(Len(q) - 1) /\ a[g(m)] = q[m]
  <2>1. g(m) \in 1..(Len(q) - 1)
    BY <1>1, <1>5
  <2>2. (IF g(m) < k THEN g(m) ELSE g(m) + 1) = m
    BY <1>1, <1>5
  <2> QED
    BY <1>2, <2>1, <2>2
<1>6. g(i) < g(j)
  BY <1>1, <1>3, <1>4
<1> HIDE DEF g
<1>7. Before(a, x, y)
  BY <1>1, <1>3, <1>4, <1>5, <1>6 DEF Before
<1> QED
  BY <1>7 DEF a

\* shift keeps the order of all but the head.
LEMMA ShiftedOrder ==
  ASSUME NEW S, NEW q \in Seq(S), IsInjective(q),
         NEW x, NEW y, x # Head(q), Before(q, x, y)
  PROVE  Before(Shifted(q), x, y)
<1>1. PICK i, j \in 1..Len(q) : i < j /\ q[i] = x /\ q[j] = y
  BY DEF Before
<1>2. q # <<>> /\ 1 \in 1..Len(q) /\ Head(q) = q[1] /\ DOMAIN q = 1..Len(q)
  BY <1>1
<1>3. y # q[1]
  BY <1>1, <1>2 DEF IsInjective
<1>4. Shifted(q) = RemoveAt(q, 1)
  <2>1. SubSeq(q, 1, 0) = <<>> /\ SubSeq(q, 2, Len(q)) \in Seq(S)
    BY <1>2
  <2>2. RemoveAt(q, 1) = SubSeq(q, 2, Len(q))
    BY <2>1 DEF RemoveAt
  <2> QED
    BY <1>2, <2>2 DEF Shifted
<1> QED
  BY <1>2, <1>3, <1>4, RemoveAtOrder

(***************************************************************************)
(* Who waits and who holds capacity, by queue type                         *)
(***************************************************************************)

InPhase(ph, p, t) == {r \in Reservation : ph[r] = p /\ TargetQueue(r) = t}

\* A queue that exists has a positive limit.
LEMMA LimitedTypes ==
  /\ Limited \subseteq QueueType
  /\ \A t \in Limited : Limit[t] \in Nat /\ Limit[t] > 0
BY LimitAssumption DEF Limited, Limit

\* The calls that wait, and those that hold capacity, can be counted.
LEMMA FiniteHolders ==
  ASSUME NEW ph, NEW p, NEW t
  PROVE  /\ IsFiniteSet(InPhase(ph, p, t))
         /\ Cardinality(InPhase(ph, p, t)) \in Nat
<1>1. InPhase(ph, p, t) \in SUBSET Reservation
  BY DEF InPhase
<1> QED
  BY <1>1, FinitelyManyReservations, FS_Subset, FS_CardinalityType

\* resolveNext() moves exactly the head of the list from waiting to holding.
LEMMA ResolvedFacts ==
  ASSUME NEW ph \in [Reservation -> Phase], NEW t,
         NEW q \in Seq(Reservation), IsInjective(q),
         InPhase(ph, "queued", t) = ToSet(q),
         NEW ph2, ph2 = Resolved(ph, q)
  PROVE  /\ ph2 \in [Reservation -> Phase]
         /\ InPhase(ph2, "queued", t) = ToSet(Shifted(q))
         /\ Cardinality(InPhase(ph2, "acquired", t)) =
              Cardinality(InPhase(ph, "acquired", t)) + (IF q = <<>> THEN 0 ELSE 1)
         /\ \A u : u # t =>
              /\ InPhase(ph2, "queued", u) = InPhase(ph, "queued", u)
              /\ InPhase(ph2, "acquired", u) = InPhase(ph, "acquired", u)
<1>1. CASE q = <<>>
  <2>1. ph2 = ph /\ Shifted(q) = q
    BY <1>1 DEF Resolved, Shifted
  <2>2. Cardinality(InPhase(ph, "acquired", t)) \in Nat
    BY FiniteHolders
  <2> QED
    BY <1>1, <2>1, <2>2
<1>2. CASE q # <<>>
  <2> DEFINE h == Head(q)
  <2>1. /\ h \in Reservation
        /\ h \in ToSet(q)
        /\ ToSet(Shifted(q)) = ToSet(q) \ {h}
    BY <1>2, ShiftedFacts
  <2>2. ph[h] = "queued" /\ TargetQueue(h) = t
    BY <2>1 DEF InPhase
  <2>3. ph2 = [ph EXCEPT ![h] = "acquired"]
    BY <1>2 DEF Resolved
  <2> HIDE DEF h
  <2>4. ph2 \in [Reservation -> Phase]
    BY <2>3 DEF Phase
  <2>5. InPhase(ph2, "queued", t) = ToSet(q) \ {h}
    BY <2>1, <2>2, <2>3 DEF InPhase
  <2>6. InPhase(ph2, "acquired", t) = InPhase(ph, "acquired", t) \cup {h}
    BY <2>1, <2>2, <2>3 DEF InPhase
  <2>7. h \notin InPhase(ph, "acquired", t)
    BY <2>2 DEF InPhase
  <2>8. Cardinality(InPhase(ph2, "acquired", t)) =
          Cardinality(InPhase(ph, "acquired", t)) + 1
    BY <2>6, <2>7, FiniteHolders, FS_AddElement
  <2>9. ASSUME NEW u, u # t
        PROVE  /\ InPhase(ph2, "queued", u) = InPhase(ph, "queued", u)
               /\ InPhase(ph2, "acquired", u) = InPhase(ph, "acquired", u)
    BY <2>1, <2>2, <2>3, <2>9 DEF InPhase
  <2> QED
    BY <1>2, <2>1, <2>4, <2>5, <2>8, <2>9
<1> QED
  BY <1>1, <1>2

(***************************************************************************)
(* The invariant, queue by queue                                           *)
(***************************************************************************)

QueueInv(t) ==
  /\ InPhase(reservation, "queued", t) = ToSet(queue[t])
  /\ IsInjective(queue[t])
  /\ isEnabled =>
       /\ capacity[t] = Limit[t] - Cardinality(InPhase(reservation, "acquired", t))
                                 - Len(queue[t])
       /\ queue[t] # <<>> => capacity[t] + Len(queue[t]) <= 0

\* The invariant, queue by queue: an operation touches one queue.
LEMMA InvariantByQueue == CCInvariant <=> TypeOK /\ \A t \in Limited : QueueInv(t)
BY DEF CCInvariant, QueueIsExact, CapacityAccounting, OverdrawnWhileWaiting,
       QueueInv, QueuedIn, Holders, InPhase

\* The same of the next state.
LEMMA InvariantByQueueNext == TypeOK' /\ (\A t \in Limited : QueueInv(t)') => CCInvariant'
BY DEF CCInvariant, QueueIsExact, CapacityAccounting, OverdrawnWhileWaiting,
       QueueInv, QueuedIn, Holders, InPhase

\* The constructor creates empty queues with their full limit.
LEMMA InitInvariant == CCInit => CCInvariant
<1> SUFFICES ASSUME CCInit PROVE CCInvariant
  OBVIOUS
<1>1. TypeOK
  <2>1. capacity \in [Limited -> Int]
    BY LimitedTypes DEF CCInit
  <2>2. \A t \in Limited : <<>> \in Seq(Reservation)
    OBVIOUS
  <2> QED
    BY <2>1, <2>2 DEF CCInit, TypeOK, Phase
<1>2. ASSUME NEW t \in Limited
      PROVE  QueueInv(t)
  <2>1. queue[t] = <<>> /\ capacity[t] = Limit[t] /\ Len(queue[t]) = 0
    BY DEF CCInit
  <2>2. /\ InPhase(reservation, "queued", t) = {}
        /\ InPhase(reservation, "acquired", t) = {}
    BY DEF CCInit, InPhase
  <2>3. ToSet(queue[t]) = {} /\ IsInjective(queue[t])
    BY <2>1 DEF ToSet, IsInjective
  <2>4. Cardinality({}) = 0
    BY FS_EmptySet
  <2>5. Limit[t] \in Nat
    BY LimitedTypes
  <2>6. capacity[t] = Limit[t] - Cardinality(InPhase(reservation, "acquired", t))
                               - Len(queue[t])
    <3>1. capacity[t] = Limit[t] - 0 - 0
      BY <2>1, <2>5
    <3> QED
      BY <2>1, <2>2, <2>4, <3>1
  <2>7. InPhase(reservation, "queued", t) = ToSet(queue[t])
    BY <2>2, <2>3
  <2> QED
    BY <2>1, <2>3, <2>6, <2>7 DEF QueueInv
<1> QED
  BY <1>1, <1>2, InvariantByQueue

\* enqueue(): one unit of capacity pays for one more holder or one more item.
LEMMA ThrottleStep ==
  ASSUME CCInvariant, NEW r \in Reservation, NEW e \in Exec, Throttle(r, e)
  PROVE  CCInvariant'
<1> USE DEF Throttle
<1>1. TypeOK /\ \A t \in Limited : QueueInv(t)
  BY InvariantByQueue
<1> DEFINE q0 == QueueOf(ModeOf[e])
<1>2. /\ reservation[r] = "none"
      /\ \A x \in Reservation \ {r} : TargetQueue(x)' = TargetQueue(x)
      /\ TargetQueue(r)' = q0
  BY <1>1 DEF TypeOK, TargetQueue
<1>3. \A t : r \notin InPhase(reservation, "queued", t) /\ r \notin InPhase(reservation, "acquired", t)
  BY <1>2 DEF InPhase
<1>4. CASE Governed(ModeOf[e]) /\ Enqueue(q0, r)
  <2>1. q0 \in Limited /\ capacity[q0] \in Int /\ queue[q0] \in Seq(Reservation)
        /\ Len(queue[q0]) \in Nat
    BY <1>1, <1>4 DEF TypeOK, Governed
  <2>2. CASE /\ capacity[q0] > 0
             /\ reservation' = [reservation EXCEPT ![r] = "acquired"]
             /\ UNCHANGED queue
    <3>1. TypeOK'
      BY <1>1, <1>4, <2>1, <2>2 DEF TypeOK, Enqueue, Phase
    <3>2. ASSUME NEW t \in Limited
          PROVE  QueueInv(t)'
      <4>1. InPhase(reservation, "queued", t)' = InPhase(reservation, "queued", t)
        BY <1>1, <1>2, <2>2 DEF TypeOK, InPhase
      <4>2. CASE t = q0
        <5>1. InPhase(reservation, "acquired", t)' = InPhase(reservation, "acquired", t) \cup {r}
          BY <1>1, <1>2, <2>2, <4>2 DEF TypeOK, InPhase
        <5>2. /\ Cardinality(InPhase(reservation, "acquired", t)) \in Nat
              /\ Cardinality(InPhase(reservation, "acquired", t)') =
                   Cardinality(InPhase(reservation, "acquired", t)) + 1
          BY <1>3, <5>1, FiniteHolders, FS_AddElement
        <5>3. capacity'[t] = capacity[t] - 1
          BY <1>1, <1>4, <2>1, <4>2 DEF TypeOK, Enqueue
        <5>4. Limit[t] \in Nat
          BY LimitedTypes
        <5>5. isEnabled => queue[t] = <<>>
          BY <1>1, <2>1, <2>2, <4>2 DEF QueueInv
        <5> QED
          BY <1>1, <2>1, <2>2, <4>1, <4>2, <5>2, <5>3, <5>4, <5>5 DEF QueueInv
      <4>3. CASE t # q0
        <5>1. InPhase(reservation, "acquired", t)' = InPhase(reservation, "acquired", t)
          BY <1>1, <1>2, <2>2, <4>3 DEF TypeOK, InPhase
        <5>2. capacity'[t] = capacity[t]
          BY <1>1, <1>4, <4>3 DEF TypeOK, Enqueue
        <5> QED
          BY <1>1, <2>2, <4>1, <5>1, <5>2 DEF QueueInv
      <4> QED
        BY <4>2, <4>3
    <3> QED
      BY <3>1, <3>2, InvariantByQueueNext
  <2>3. CASE /\ capacity[q0] <= 0
             /\ reservation' = [reservation EXCEPT ![r] = "queued"]
             /\ queue' = [queue EXCEPT ![q0] = Append(@, r)]
    <3> DEFINE a == Append(queue[q0], r)
    <3>1. /\ a \in Seq(Reservation)
          /\ Len(a) = Len(queue[q0]) + 1
          /\ IsInjective(a)
          /\ ToSet(a) = ToSet(queue[q0]) \cup {r}
      BY <1>1, <1>3, <2>1, AppendFacts DEF QueueInv
    <3>2. queue' = [queue EXCEPT ![q0] = a]
      BY <2>3
    <3> HIDE DEF a
    <3>3. TypeOK'
      BY <1>1, <1>4, <2>1, <2>3, <3>1, <3>2 DEF TypeOK, Enqueue, Phase
    <3>4. ASSUME NEW t \in Limited
          PROVE  QueueInv(t)'
      <4>1. InPhase(reservation, "acquired", t)' = InPhase(reservation, "acquired", t)
        BY <1>1, <1>2, <2>3 DEF TypeOK, InPhase
      <4>2. CASE t = q0
        <5>1. InPhase(reservation, "queued", t)' = InPhase(reservation, "queued", t) \cup {r}
          BY <1>1, <1>2, <2>3, <4>2 DEF TypeOK, InPhase
        <5>2. queue'[t] = a
          BY <1>1, <2>1, <3>2, <4>2 DEF TypeOK
        <5>3. capacity'[t] = capacity[t] - 1
          BY <1>1, <1>4, <2>1, <4>2 DEF TypeOK, Enqueue
        <5>4. Limit[t] \in Nat /\ Cardinality(InPhase(reservation, "acquired", t)) \in Nat
          BY LimitedTypes, FiniteHolders
        <5>5. isEnabled => capacity[t] + Len(queue[t]) <= 0
          <6>1. CASE queue[t] = <<>>
            BY <2>3, <2>1, <4>2, <6>1
          <6>2. CASE queue[t] # <<>>
            BY <1>1, <6>2 DEF QueueInv
          <6> QED
            BY <6>1, <6>2
        <5>6. isEnabled' =>
                /\ capacity'[t] = Limit[t] - Cardinality(InPhase(reservation, "acquired", t)) - Len(a)
                /\ capacity'[t] + Len(a) <= 0
          <6> DEFINE held == Cardinality(InPhase(reservation, "acquired", t))
          <6> DEFINE n == Len(queue[t])
          <6>1. isEnabled' => capacity[t] = Limit[t] - held - n /\ capacity[t] + n <= 0
            BY <1>1, <2>1, <5>5 DEF QueueInv
          <6>2. Len(a) = n + 1 /\ n \in Int
            BY <1>1, <2>1, <3>1, <4>2 DEF TypeOK
          <6>3. capacity[t] \in Int /\ Limit[t] \in Int /\ held \in Int
            BY <1>1, <2>1, <5>4 DEF TypeOK
          <6> HIDE DEF held, n
          <6>4. \A c, h, l, m \in Int : c = m - h - l => c - 1 = m - h - (l + 1)
            OBVIOUS
          <6>5. \A c, l \in Int : c + l <= 0 => (c - 1) + (l + 1) <= 0
            OBVIOUS
          <6>6. isEnabled' => capacity[t] - 1 = Limit[t] - held - (n + 1)
            BY <6>1, <6>2, <6>3, <6>4
          <6>7. isEnabled' => (capacity[t] - 1) + (n + 1) <= 0
            BY <6>1, <6>2, <6>3, <6>5
          <6> QED
            BY <5>3, <6>2, <6>6, <6>7 DEF held
        <5> QED
          BY <1>1, <3>1, <4>1, <4>2, <5>1, <5>2, <5>6 DEF QueueInv
      <4>3. CASE t # q0
        <5>1. InPhase(reservation, "queued", t)' = InPhase(reservation, "queued", t)
          BY <1>1, <1>2, <2>3, <4>3 DEF TypeOK, InPhase
        <5>2. capacity'[t] = capacity[t] /\ queue'[t] = queue[t]
          BY <1>1, <1>4, <3>2, <4>3 DEF TypeOK, Enqueue
        <5> QED
          BY <1>1, <4>1, <5>1, <5>2 DEF QueueInv
      <4> QED
        BY <4>2, <4>3
    <3> QED
      BY <3>3, <3>4, InvariantByQueueNext
  <2> QED
    BY <1>4, <2>2, <2>3 DEF Enqueue
<1>5. CASE /\ ~Governed(ModeOf[e])
           /\ reservation' = [reservation EXCEPT ![r] = "acquired"]
           /\ UNCHANGED <<capacity, queue>>
  <2>1. TypeOK'
    BY <1>1, <1>5 DEF TypeOK, Phase
  <2>2. ASSUME NEW t \in Limited
        PROVE  QueueInv(t)'
    <3>1. InPhase(reservation, "queued", t)' = InPhase(reservation, "queued", t)
      BY <1>1, <1>2, <1>5 DEF TypeOK, InPhase
    <3>2. CASE isEnabled
      <4>1. t # q0
        BY <1>5, <3>2 DEF Governed
      <4>2. InPhase(reservation, "acquired", t)' = InPhase(reservation, "acquired", t)
        BY <1>1, <1>2, <1>5, <4>1 DEF TypeOK, InPhase
      <4> QED
        BY <1>1, <1>5, <3>1, <4>2 DEF QueueInv
    <3>3. CASE ~isEnabled
      BY <1>1, <1>5, <3>1, <3>3 DEF QueueInv
    <3> QED
      BY <3>2, <3>3
  <2> QED
    BY <2>1, <2>2, InvariantByQueueNext
<1> QED
  BY <1>4, <1>5

\* dequeue(): the unit of capacity goes to the head of the list, if any.
LEMMA ReleaseStep ==
  ASSUME CCInvariant, NEW r \in Reservation, Release(r)
  PROVE  CCInvariant'
<1>1. TypeOK /\ \A t \in Limited : QueueInv(t)
  BY InvariantByQueue
<1> DEFINE q0 == TargetQueue(r)
<1> DEFINE ph == [reservation EXCEPT ![r] = "released"]
<1>2. reservation[r] = "acquired" /\ UNCHANGED <<isEnabled, target>>
  BY DEF Release
<1>3. \A x \in Reservation : TargetQueue(x)' = TargetQueue(x)
  BY <1>2 DEF TargetQueue
<1>4. /\ ph \in [Reservation -> Phase]
      /\ \A t : InPhase(ph, "queued", t) = InPhase(reservation, "queued", t)
      /\ \A t : t # q0 => InPhase(ph, "acquired", t) = InPhase(reservation, "acquired", t)
      /\ InPhase(ph, "acquired", q0) = InPhase(reservation, "acquired", q0) \ {r}
      /\ r \in InPhase(reservation, "acquired", q0)
  BY <1>1, <1>2 DEF TypeOK, Phase, InPhase
<1> HIDE DEF ph
<1>5. CASE /\ Governed(ModeOf[target[r]])
           /\ capacity' = [capacity EXCEPT ![q0] = @ + 1]
           /\ queue' = [queue EXCEPT ![q0] = Shifted(@)]
           /\ reservation' = Resolved(ph, queue[q0])
  <2> DEFINE q == queue[q0]
  <2>1. q0 \in Limited /\ capacity[q0] \in Int /\ q \in Seq(Reservation) /\ Len(q) \in Nat
    BY <1>1, <1>5 DEF TypeOK, Governed, TargetQueue
  <2>2. IsInjective(q) /\ InPhase(ph, "queued", q0) = ToSet(q)
    BY <1>1, <1>4, <2>1 DEF QueueInv
  <2>3. /\ reservation' \in [Reservation -> Phase]
        /\ InPhase(reservation', "queued", q0) = ToSet(Shifted(q))
        /\ Cardinality(InPhase(reservation', "acquired", q0)) =
             Cardinality(InPhase(ph, "acquired", q0)) + (IF q = <<>> THEN 0 ELSE 1)
        /\ \A u : u # q0 =>
             /\ InPhase(reservation', "queued", u) = InPhase(ph, "queued", u)
             /\ InPhase(reservation', "acquired", u) = InPhase(ph, "acquired", u)
    BY <1>4, <1>5, <2>1, <2>2, ResolvedFacts
  <2>4. \A p, t : InPhase(reservation, p, t)' = InPhase(reservation', p, t)
    BY <1>3 DEF InPhase
  <2>5. Shifted(q) \in Seq(Reservation) /\ IsInjective(Shifted(q))
        /\ (q # <<>> => Len(Shifted(q)) = Len(q) - 1)
    BY <2>1, <2>2, ShiftedFacts
  <2> DEFINE s == Shifted(q)
  <2>6. queue' = [queue EXCEPT ![q0] = s]
    BY <1>5
  <2> HIDE DEF s
  <2>7. TypeOK'
    BY <1>1, <1>2, <1>5, <2>1, <2>3, <2>5, <2>6 DEF TypeOK, s
  <2>8. ASSUME NEW t \in Limited
        PROVE  QueueInv(t)'
    <3>1. CASE t = q0
      <4>1. queue'[t] = s /\ capacity'[t] = capacity[t] + 1
        BY <1>1, <1>5, <2>1, <2>6, <3>1 DEF TypeOK
      <4> DEFINE held == Cardinality(InPhase(reservation, "acquired", q0))
      <4>2. held \in Nat /\ Cardinality(InPhase(ph, "acquired", q0)) = held - 1
        BY <1>4, FiniteHolders, FS_RemoveElement
      <4>3. Limit[t] \in Nat
        BY LimitedTypes
      <4>4. isEnabled => capacity[t] = Limit[t] - held - Len(q)
        BY <1>1, <2>1, <3>1 DEF QueueInv
      <4> DEFINE held2 == Cardinality(InPhase(reservation', "acquired", q0))
      <4>5. held2 = held - 1 + (IF q = <<>> THEN 0 ELSE 1)
        BY <2>3, <4>2
      <4> HIDE DEF held, held2
      <4>6. CASE q = <<>>
        <5>1. s = <<>> /\ Len(q) = 0 /\ Len(s) = 0
          BY <4>6 DEF s, Shifted
        <5>2. isEnabled => capacity'[t] = Limit[t] - held2 - Len(s)
          BY <2>1, <3>1, <4>1, <4>2, <4>3, <4>4, <4>5, <4>6, <5>1
        <5> QED
          BY <1>2, <2>3, <2>4, <2>5, <3>1, <4>1, <5>1, <5>2 DEF QueueInv, held2, s
      <4>7. CASE q # <<>>
        <5>1. Len(s) = Len(q) - 1
          BY <2>5, <4>7 DEF s
        <5>2. isEnabled => capacity[t] + Len(q) <= 0
          BY <1>1, <2>1, <3>1, <4>7 DEF QueueInv
        <5>a. held2 = held
          BY <4>2, <4>5, <4>7
        <5>b. capacity[t] \in Int /\ Len(q) \in Int
          BY <2>1, <3>1
        <5>3. isEnabled => /\ capacity'[t] = Limit[t] - held2 - Len(s)
                           /\ capacity'[t] + Len(s) <= 0
          <6>1. \A c, l, h, m \in Int :
                  (c = m - h - l /\ c + l <= 0)
                    => (c + 1 = m - h - (l - 1) /\ (c + 1) + (l - 1) <= 0)
            OBVIOUS
          <6>2. held \in Int /\ Limit[t] \in Int
            BY <4>2, <4>3
          <6>3. isEnabled => /\ capacity[t] + 1 = Limit[t] - held - (Len(q) - 1)
                             /\ (capacity[t] + 1) + (Len(q) - 1) <= 0
            <7> HIDE DEF q
            <7> QED
              BY <4>4, <5>2, <5>b, <6>1, <6>2
          <6> QED
            BY <4>1, <5>1, <5>a, <6>3
        <5> QED
          BY <1>2, <2>3, <2>4, <2>5, <3>1, <4>1, <5>3 DEF QueueInv, held2, s
      <4> QED
        BY <4>6, <4>7
    <3>2. CASE t # q0
      <4>1. queue'[t] = queue[t] /\ capacity'[t] = capacity[t]
        BY <1>1, <1>5, <2>6, <3>2 DEF TypeOK
      <4> QED
        BY <1>1, <1>2, <1>4, <2>3, <2>4, <3>2, <4>1 DEF QueueInv
    <3> QED
      BY <3>1, <3>2
  <2> QED
    BY <2>7, <2>8, InvariantByQueueNext
<1>6. CASE /\ ~Governed(ModeOf[target[r]])
           /\ reservation' = ph
           /\ UNCHANGED <<capacity, queue>>
  <2>1. TypeOK'
    BY <1>1, <1>2, <1>4, <1>6 DEF TypeOK
  <2>2. ASSUME NEW t \in Limited
        PROVE  QueueInv(t)'
    <3>1. \A p : InPhase(reservation, p, t)' = InPhase(ph, p, t)
      BY <1>3, <1>6 DEF InPhase
    <3>2. CASE isEnabled
      <4>1. t # q0
        BY <1>6, <3>2 DEF Governed, TargetQueue
      <4> QED
        BY <1>1, <1>2, <1>4, <1>6, <3>1, <4>1 DEF QueueInv
    <3>3. CASE ~isEnabled
      BY <1>1, <1>2, <1>4, <1>6, <3>1, <3>3 DEF QueueInv
    <3> QED
      BY <3>2, <3>3
  <2> QED
    BY <2>1, <2>2, InvariantByQueueNext
<1> QED
  BY <1>5, <1>6 DEF Release, ph

\* remove(): the removed item's unit of capacity goes back, and the new head of
\* the list is let through all the same.
LEMMA RemoveStep ==
  ASSUME CCInvariant, NEW e \in Exec, RemoveQueued(e)
  PROVE  CCInvariant'
<1>1. TypeOK /\ \A t \in Limited : QueueInv(t)
  BY InvariantByQueue
<1> DEFINE q0 == QueueOf(ModeOf[e])
<1> DEFINE q == queue[q0]
<1>2. q0 \in Limited /\ UNCHANGED <<isEnabled, target>>
  BY DEF RemoveQueued, Governed
<1>3. PICK i \in 1..Len(q) :
        /\ capacity' = [capacity EXCEPT ![q0] = @ + 1]
        /\ queue' = [queue EXCEPT ![q0] = Shifted(RemoveAt(q, i))]
        /\ reservation' = Resolved([reservation EXCEPT ![q[i]] = "removed"], RemoveAt(q, i))
  BY DEF RemoveQueued
<1> DEFINE rest == RemoveAt(q, i)
<1> DEFINE s == Shifted(rest)
<1> DEFINE ph == [reservation EXCEPT ![q[i]] = "removed"]
<1>4. /\ capacity[q0] \in Int /\ q \in Seq(Reservation) /\ Len(q) \in Nat
      /\ IsInjective(q) /\ InPhase(reservation, "queued", q0) = ToSet(q)
  BY <1>1, <1>2 DEF TypeOK, QueueInv
<1>5. /\ rest \in Seq(Reservation) /\ Len(rest) = Len(q) - 1
      /\ IsInjective(rest) /\ ToSet(rest) = ToSet(q) \ {q[i]}
  <2>1. Spliced(rest, q, i, Reservation)
    <3> HIDE DEF q
    <3> QED
      BY <1>4, RemoveAtFacts
  <2> HIDE DEF rest, q
  <2> QED
    BY <2>1 DEF Spliced
<1>6. /\ s \in Seq(Reservation) /\ IsInjective(s)
      /\ rest # <<>> => Len(s) = Len(rest) - 1
      /\ rest = <<>> => s = <<>>
  <2>1. rest = <<>> => s = rest
    BY DEF Shifted
  <2> HIDE DEF rest
  <2> QED
    BY <1>5, <2>1, ShiftedFacts
<1>7. q[i] \in ToSet(q) /\ q[i] \in Reservation
  BY <1>4 DEF ToSet
<1>8. /\ reservation[q[i]] = "queued" /\ TargetQueue(q[i]) = q0
  BY <1>4, <1>7 DEF InPhase
<1> HIDE DEF rest, s
<1>9. /\ ph \in [Reservation -> Phase]
      /\ InPhase(ph, "queued", q0) = ToSet(q) \ {q[i]}
      /\ \A t : t # q0 => InPhase(ph, "queued", t) = InPhase(reservation, "queued", t)
      /\ \A t : InPhase(ph, "acquired", t) = InPhase(reservation, "acquired", t)
  <2> DEFINE x == q[i]
  <2>1. x \in Reservation /\ reservation[x] = "queued" /\ TargetQueue(x) = q0
    BY <1>7, <1>8
  <2>2. ph = [reservation EXCEPT ![x] = "removed"]
    OBVIOUS
  <2> HIDE DEF x, ph
  <2>3. ph \in [Reservation -> Phase]
    BY <1>1, <2>1, <2>2 DEF TypeOK, Phase
  <2>4. InPhase(ph, "queued", q0) = InPhase(reservation, "queued", q0) \ {x}
    BY <1>1, <2>1, <2>2 DEF TypeOK, InPhase
  <2>5. ASSUME NEW t, t # q0
        PROVE  InPhase(ph, "queued", t) = InPhase(reservation, "queued", t)
    BY <1>1, <2>1, <2>2, <2>5 DEF TypeOK, InPhase
  <2>6. \A t : InPhase(ph, "acquired", t) = InPhase(reservation, "acquired", t)
    BY <1>1, <2>1, <2>2 DEF TypeOK, InPhase
  <2>7. InPhase(ph, "queued", q0) = ToSet(q) \ {q[i]}
    BY <1>4, <2>4 DEF x
  <2> QED
    BY <2>3, <2>5, <2>6, <2>7
<1>10. reservation' = Resolved(ph, rest)
  BY <1>3 DEF rest
<1> HIDE DEF ph
<1>11. /\ reservation' \in [Reservation -> Phase]
       /\ InPhase(reservation', "queued", q0) = ToSet(s)
       /\ Cardinality(InPhase(reservation', "acquired", q0)) =
            Cardinality(InPhase(ph, "acquired", q0)) + (IF rest = <<>> THEN 0 ELSE 1)
       /\ \A u : u # q0 =>
            /\ InPhase(reservation', "queued", u) = InPhase(ph, "queued", u)
            /\ InPhase(reservation', "acquired", u) = InPhase(ph, "acquired", u)
  <2>1. InPhase(ph, "queued", q0) = ToSet(rest)
    BY <1>5, <1>9
  <2> HIDE DEF q0
  <2>2. ph \in [Reservation -> Phase] /\ rest \in Seq(Reservation) /\ IsInjective(rest)
    BY <1>5, <1>9
  <2> QED
    BY <1>10, <2>1, <2>2, ResolvedFacts DEF s
<1>12. \A p, t : InPhase(reservation, p, t)' = InPhase(reservation', p, t)
  BY <1>2 DEF InPhase, TargetQueue
<1>13. queue' = [queue EXCEPT ![q0] = s]
  BY <1>3 DEF s, rest
<1>14. TypeOK'
  <2>a. capacity[q0] + 1 \in Int /\ capacity' = [capacity EXCEPT ![q0] = capacity[q0] + 1]
    BY <1>3, <1>4
  <2>1. capacity' \in [Limited -> Int]
    <3> HIDE DEF q0
    <3> QED
      BY <1>1, <2>a DEF TypeOK
  <2>2. queue' \in [Limited -> Seq(Reservation)]
    BY <1>1, <1>6, <1>13 DEF TypeOK
  <2> QED
    BY <1>1, <1>2, <1>11, <2>1, <2>2 DEF TypeOK
<1>15. ASSUME NEW t \in Limited
       PROVE  QueueInv(t)'
  <2>1. CASE t = q0
    <3>1. queue'[t] = s /\ capacity'[t] = capacity[t] + 1
      BY <1>1, <1>2, <1>3, <1>13, <2>1 DEF TypeOK
    <3> DEFINE held == Cardinality(InPhase(reservation, "acquired", q0))
    <3> DEFINE held2 == Cardinality(InPhase(reservation', "acquired", q0))
    <3>2. held \in Int /\ Limit[t] \in Int /\ capacity[t] \in Int /\ Len(q) \in Int
      BY <1>4, <2>1, FiniteHolders, LimitedTypes
    <3>3. held2 = held + (IF rest = <<>> THEN 0 ELSE 1)
      BY <1>9, <1>11
    <3>4. isEnabled => capacity[t] = Limit[t] - held - Len(q)
      BY <1>1, <2>1 DEF QueueInv
    <3>5. isEnabled => capacity[t] + Len(q) <= 0
      <4>1. q # <<>>
        BY <1>4
      <4> QED
        BY <1>1, <2>1, <4>1 DEF QueueInv
    <3> HIDE DEF held, held2, q
    <3>6. PICK c, l, m, h \in Int :
            c = capacity[t] /\ l = Len(q) /\ m = Limit[t] /\ h = held
      BY <3>2
    <3>7. CASE rest = <<>>
      <4>1. Len(s) = 0 /\ s = <<>> /\ Len(q) - 1 = 0 /\ held2 = held
        BY <1>5, <1>6, <3>2, <3>3, <3>7
      <4>2. isEnabled => capacity[t] + 1 = Limit[t] - held - Len(s)
        <5>1. (c = m - h - l /\ l - 1 = 0) => c + 1 = m - h - 0
          OBVIOUS
        <5>2. isEnabled => c = m - h - l
          BY <3>4, <3>6
        <5>3. l - 1 = 0
          BY <3>6, <4>1
        <5>4. isEnabled => c + 1 = m - h - 0
          BY <5>1, <5>2, <5>3
        <5> QED
          BY <3>6, <4>1, <5>4
      <4> QED
        BY <1>2, <1>6, <1>11, <1>12, <2>1, <3>1, <4>1, <4>2 DEF QueueInv, held2
    <3>8. CASE rest # <<>>
      <4>1. Len(s) = Len(q) - 1 - 1 /\ held2 = held + 1
        BY <1>5, <1>6, <3>3, <3>8
      <4>2. isEnabled => /\ capacity[t] + 1 = Limit[t] - (held + 1) - (Len(q) - 1 - 1)
                         /\ (capacity[t] + 1) + (Len(q) - 1 - 1) <= 0
        <5>1. c = m - h - l => c + 1 = m - (h + 1) - (l - 1 - 1)
          OBVIOUS
        <5>2. c + l <= 0 => (c + 1) + (l - 1 - 1) <= 0
          OBVIOUS
        <5>3. isEnabled => c = m - h - l /\ c + l <= 0
          BY <3>4, <3>5, <3>6
        <5>4. isEnabled => /\ c + 1 = m - (h + 1) - (l - 1 - 1)
                           /\ (c + 1) + (l - 1 - 1) <= 0
          BY <5>1, <5>2, <5>3
        <5> QED
          BY <3>6, <5>4
      <4> QED
        BY <1>2, <1>6, <1>11, <1>12, <2>1, <3>1, <4>1, <4>2 DEF QueueInv, held2
    <3> QED
      BY <3>7, <3>8
  <2>2. CASE t # q0
    <3>1. queue'[t] = queue[t] /\ capacity'[t] = capacity[t]
      BY <1>1, <1>3, <1>13, <2>2 DEF TypeOK
    <3> QED
      BY <1>1, <1>2, <1>9, <1>11, <1>12, <2>2, <3>1 DEF QueueInv
  <2> QED
    BY <2>1, <2>2
<1> QED
  BY <1>14, <1>15, InvariantByQueueNext

\* Every operation of the service keeps the invariant.
LEMMA InvariantStep == CCInvariant /\ [CCNext]_ccVars => CCInvariant'
<1> SUFFICES ASSUME CCInvariant, [CCNext]_ccVars PROVE CCInvariant'
  OBVIOUS
<1>1. CASE \E r \in Reservation, e \in Exec : Throttle(r, e)
  BY <1>1, ThrottleStep
<1>2. CASE \E r \in Reservation : Release(r)
  BY <1>2, ReleaseStep
<1>3. CASE \E e \in Exec : RemoveQueued(e)
  BY <1>3, RemoveStep
<1>4. ASSUME UNCHANGED <<capacity, queue, reservation, target>>,
             isEnabled' = isEnabled \/ isEnabled' = FALSE
      PROVE  CCInvariant'
  <2>1. TypeOK /\ \A t \in Limited : QueueInv(t)
    BY InvariantByQueue
  <2>2. TypeOK'
    BY <2>1, <1>4 DEF TypeOK
  <2>3. \A p, t : InPhase(reservation, p, t)' = InPhase(reservation, p, t)
    BY <1>4 DEF InPhase, TargetQueue
  <2>4. \A t \in Limited : QueueInv(t)'
    BY <2>1, <2>3, <1>4 DEF QueueInv
  <2> QED
    BY <2>2, <2>4, InvariantByQueueNext
<1>5. CASE Disable
  BY <1>4, <1>5 DEF Disable
<1>6. CASE UNCHANGED ccVars
  BY <1>4, <1>6 DEF ccVars
<1> QED
  BY <1>1, <1>2, <1>3, <1>5, <1>6 DEF CCNext

(***************************************************************************)
(* What an operation does to the calls it is not about                     *)
(***************************************************************************)

\* release() ends one call and lets through at most one that waits.
LEMMA ReleaseEffect ==
  ASSUME CCInvariant, NEW x \in Reservation, Release(x), NEW s \in Reservation
  PROVE  /\ reservation[x] = "acquired"
         /\ s = x => reservation'[s] = "released"
         /\ s # x => \/ reservation'[s] = reservation[s]
                     \/ reservation[s] = "queued" /\ reservation'[s] = "acquired"
<1>0. reservation \in [Reservation -> Phase] /\ reservation[x] = "acquired"
  BY DEF CCInvariant, TypeOK, Release
<1> DEFINE q == queue[TargetQueue(x)]
<1>1. CASE ~Governed(ModeOf[target[x]])
  BY <1>0, <1>1 DEF Release
<1>2. CASE Governed(ModeOf[target[x]])
  <2>1. TargetQueue(x) \in Limited
    BY <1>2 DEF Governed, TargetQueue
  <2>2. q \in Seq(Reservation) /\ IsInjective(q) /\ \A y \in ToSet(q) : reservation[y] = "queued"
    BY <2>1 DEF CCInvariant, TypeOK, QueueIsExact, QueuedIn
  <2>3. q # <<>> => Head(q) \in Reservation /\ reservation[Head(q)] = "queued"
    BY <2>2, ShiftedFacts
  <2>4. reservation' = Resolved([reservation EXCEPT ![x] = "released"], q)
    BY <1>2 DEF Release
  <2> HIDE DEF q
  <2> QED
    BY <1>0, <2>3, <2>4 DEF Resolved
<1> QED
  BY <1>1, <1>2

\* remove() takes one call of the execution out of the list and lets through at most one
\* other that waits.
LEMMA RemoveEffect ==
  ASSUME CCInvariant, NEW e \in Exec, RemoveQueued(e), NEW s \in Reservation
  PROVE  \/ reservation'[s] = reservation[s]
         \/ reservation[s] = "queued" /\ reservation'[s] = "acquired"
         \/ reservation[s] = "queued" /\ reservation'[s] = "removed" /\ target[s] = e
<1>0. reservation \in [Reservation -> Phase]
  BY DEF CCInvariant, TypeOK
<1> DEFINE t == QueueOf(ModeOf[e])
<1> DEFINE q == queue[t]
<1>1. t \in Limited
  BY DEF RemoveQueued, Governed
<1>2. q \in Seq(Reservation) /\ IsInjective(q) /\ \A y \in ToSet(q) : reservation[y] = "queued"
  BY <1>1 DEF CCInvariant, TypeOK, QueueIsExact, QueuedIn
<1>3. PICK i \in 1..Len(q) :
        /\ target[q[i]] = e
        /\ reservation' = Resolved([reservation EXCEPT ![q[i]] = "removed"], RemoveAt(q, i))
  BY DEF RemoveQueued, FoundAt
<1> DEFINE rest == RemoveAt(q, i)
<1> DEFINE x == q[i]
<1>4. x \in ToSet(q) /\ x \in Reservation
  BY <1>2 DEF ToSet
<1>5. rest \in Seq(Reservation) /\ IsInjective(rest) /\ ToSet(rest) = ToSet(q) \ {x}
  <2>1. Spliced(rest, q, i, Reservation)
    <3> HIDE DEF q
    <3> QED
      BY <1>2, RemoveAtFacts
  <2> HIDE DEF rest, q
  <2> QED
    BY <2>1 DEF Spliced
<1>6. target[x] = e /\ reservation' = Resolved([reservation EXCEPT ![x] = "removed"], rest)
  BY <1>3
<1> HIDE DEF rest, x
<1>7. rest # <<>> => Head(rest) \in ToSet(q) /\ Head(rest) \in Reservation /\ Head(rest) # x
  BY <1>5, ShiftedFacts
<1> HIDE DEF q
<1> QED
  BY <1>0, <1>2, <1>4, <1>6, <1>7 DEF Resolved

\* reserve() is about one call.
LEMMA ThrottleEffect ==
  ASSUME CCInvariant, NEW x \in Reservation, NEW e, Throttle(x, e), NEW s \in Reservation
  PROVE  /\ reservation[x] = "none"
         /\ s = x => reservation'[s] \in {"queued", "acquired"} /\ target'[s] = e
         /\ s # x => reservation'[s] = reservation[s] /\ target'[s] = target[s]
BY DEF CCInvariant, TypeOK, Throttle, Enqueue

(***************************************************************************)
(* Theorems                                                                *)
(***************************************************************************)

\* The state of the service is well typed in every reachable state: the lists
\* hold reservations and the counters stay integers.
THEOREM TypeCorrect == CCSpec => []TypeOK
<1>1. CCInvariant => TypeOK
  BY DEF CCInvariant
<1> QED
  BY InitInvariant, InvariantStep, <1>1, PTL DEF CCSpec

\* capacity = limit - holders - waiting, after any sequence of throttle,
\* release, remove and disable (concurrency-queue.ts).
THEOREM AccountingCorrect == CCSpec => []CapacityAccounting
<1>1. CCInvariant => CapacityAccounting
  BY DEF CCInvariant
<1> QED
  BY InitInvariant, InvariantStep, <1>1, PTL DEF CCSpec

\* The waiting list names each waiting reservation once and nothing else, so
\* resolveNext() wakes a call that still waits.
THEOREM QueueExact == CCSpec => []QueueIsExact
<1>1. CCInvariant => QueueIsExact
  BY DEF CCInvariant
<1> QED
  BY InitInvariant, InvariantStep, <1>1, PTL DEF CCSpec

\* No execution waits in a queue while fewer than `limit` executions hold its
\* capacity.
THEOREM NoIdleCapacity == CCSpec => []WorkConserving
<1>1. CCInvariant => WorkConserving
  <2> SUFFICES ASSUME CCInvariant, isEnabled, NEW t \in Limited, queue[t] # <<>>
               PROVE  Cardinality(Holders(t)) >= Limit[t]
    BY DEF WorkConserving
  <2>1. /\ capacity[t] = Limit[t] - Cardinality(Holders(t)) - Len(queue[t])
        /\ capacity[t] + Len(queue[t]) <= 0
    BY DEF CCInvariant, CapacityAccounting, OverdrawnWhileWaiting
  <2>2. Limit[t] \in Int /\ Len(queue[t]) \in Int
    BY LimitedTypes DEF CCInvariant, TypeOK
  <2>3. Cardinality(Holders(t)) \in Int
    <3>1. Holders(t) = InPhase(reservation, "acquired", t)
      BY DEF Holders, InPhase
    <3> QED
      BY <3>1, FiniteHolders
  <2> QED
    BY <2>1, <2>2, <2>3
<1> QED
  BY InitInvariant, InvariantStep, <1>1, PTL DEF CCSpec

\* throttle() lets a call through only while there is capacity, and release() gives a freed
\* unit to one call: without a remove(), the holders of a queue grow within the limit only.
THEOREM OvershootNeedsRemove == CCSpec => OnlyRemoveOvershoots
<1> DEFINE Kept(t) == \/ Cardinality(Holders(t)') <= Limit[t]
                      \/ Cardinality(Holders(t)') <= Cardinality(Holders(t))
                      \/ ~isEnabled
                      \/ \E e \in Exec : RemoveQueued(e)
<1>1. ASSUME CCInvariant, CCNext, CCInvariant', NEW t \in Limited
      PROVE  Kept(t)
  <2> SUFFICES ASSUME isEnabled, ~ \E e \in Exec : RemoveQueued(e)
               PROVE  \/ Cardinality(Holders(t)') <= Limit[t]
                      \/ Cardinality(Holders(t)') <= Cardinality(Holders(t))
    OBVIOUS
  <2> DEFINE held == Cardinality(Holders(t))
  <2> DEFINE held2 == Cardinality(Holders(t)')
  <2>1. /\ capacity \in [Limited -> Int] /\ queue \in [Limited -> Seq(Reservation)]
        /\ Limit[t] \in Nat /\ capacity[t] \in Int
        /\ Len(queue[t]) \in Nat /\ Len(queue'[t]) \in Nat
    BY <1>1, LimitedTypes DEF CCInvariant, TypeOK
  <2>2. held \in Nat /\ held2 \in Nat
    <3>1. /\ Holders(t) = InPhase(reservation, "acquired", t)
          /\ Holders(t)' \in SUBSET Reservation
      BY DEF Holders, InPhase
    <3> QED
      BY <3>1, FiniteHolders, FinitelyManyReservations, FS_Subset, FS_CardinalityType
  <2>3. capacity[t] = Limit[t] - held - Len(queue[t])
    BY <1>1 DEF CCInvariant, CapacityAccounting
  <2>4. isEnabled' => capacity'[t] = Limit[t] - held2 - Len(queue'[t])
    BY <1>1 DEF CCInvariant, CapacityAccounting
  <2>5. ASSUME NEW r \in Reservation, NEW e \in Exec, Throttle(r, e)
        PROVE  held2 <= Limit[t] \/ held2 <= held
    <3>1. isEnabled' /\ capacity'[t] \in Int
      BY <1>1, <2>5 DEF Throttle, CCInvariant, TypeOK
    <3>2. CASE UNCHANGED <<capacity, queue>>
      BY <2>1, <2>2, <2>3, <2>4, <3>1, <3>2
    <3>3. CASE Enqueue(QueueOf(ModeOf[e]), r)
      <4>1. CASE t = QueueOf(ModeOf[e]) /\ capacity[t] > 0 /\ UNCHANGED queue
        <5>1. capacity'[t] = capacity[t] - 1
          BY <2>1, <3>3, <4>1 DEF Enqueue
        <5> HIDE DEF held, held2
        <5> QED
          BY <2>1, <2>2, <2>4, <3>1, <4>1, <5>1
      <4>2. CASE t = QueueOf(ModeOf[e]) /\ queue' = [queue EXCEPT ![t] = Append(@, r)]
        <5>1. capacity'[t] = capacity[t] - 1
          BY <2>1, <3>3, <4>2 DEF Enqueue
        <5>2. queue'[t] = Append(queue[t], r) /\ queue[t] \in Seq(Reservation)
          BY <2>1, <4>2
        <5>3. Len(queue'[t]) = Len(queue[t]) + 1
          BY <5>2
        <5> HIDE DEF held, held2
        <5> QED
          BY <2>1, <2>2, <2>3, <2>4, <3>1, <5>1, <5>3
      <4>3. CASE t # QueueOf(ModeOf[e])
        <5>1. capacity'[t] = capacity[t] /\ queue'[t] = queue[t]
          BY <2>1, <3>3, <4>3 DEF Enqueue
        <5> HIDE DEF held, held2
        <5> QED
          BY <2>1, <2>2, <2>3, <2>4, <3>1, <5>1
      <4> QED
        BY <3>3, <4>1, <4>2, <4>3 DEF Enqueue
    <3> QED
      BY <2>5, <3>2, <3>3 DEF Throttle
  <2>6. ASSUME NEW r \in Reservation, Release(r)
        PROVE  held2 <= held
    <3>1. isEnabled' /\ capacity'[t] \in Int
      BY <1>1, <2>6 DEF Release, CCInvariant, TypeOK
    <3>2. CASE UNCHANGED <<capacity, queue>>
      BY <2>1, <2>2, <2>3, <2>4, <3>1, <3>2
    <3>3. CASE /\ capacity' = [capacity EXCEPT ![TargetQueue(r)] = @ + 1]
               /\ queue' = [queue EXCEPT ![TargetQueue(r)] = Shifted(@)]
      <4>1. CASE t = TargetQueue(r)
        <5>1. capacity'[t] = capacity[t] + 1 /\ queue'[t] = Shifted(queue[t])
          BY <2>1, <3>3, <4>1
        <5>2. queue[t] \in Seq(Reservation) /\ IsInjective(queue[t])
          BY <1>1, <2>1 DEF CCInvariant, QueueIsExact
        <5>3. Len(queue'[t]) >= Len(queue[t]) - 1
          <6>1. CASE queue[t] = <<>>
            BY <2>1, <6>1
          <6>2. CASE queue[t] # <<>>
            BY <2>1, <5>1, <5>2, <6>2, ShiftedFacts
          <6> QED
            BY <6>1, <6>2
        <5> HIDE DEF held, held2
        <5> QED
          BY <2>1, <2>2, <2>3, <2>4, <3>1, <5>1, <5>3
      <4>2. CASE t # TargetQueue(r)
        <5>1. capacity'[t] = capacity[t] /\ queue'[t] = queue[t]
          BY <2>1, <3>3, <4>2
        <5> HIDE DEF held, held2
        <5> QED
          BY <2>1, <2>2, <2>3, <2>4, <3>1, <5>1
      <4> QED
        BY <4>1, <4>2
    <3> QED
      BY <2>6, <3>2, <3>3 DEF Release
  <2>7. ASSUME Disable
        PROVE  held2 = held
    BY <2>7 DEF Disable, Holders, TargetQueue
  <2> QED
    BY <1>1, <2>2, <2>5, <2>6, <2>7 DEF CCNext
<1>2. CCInvariant /\ CCInvariant' /\ [CCNext]_ccVars => [\A t \in Limited : Kept(t)]_ccVars
  BY <1>1
<1> QED
  BY <1>2, InitInvariant, InvariantStep, PTL DEF CCSpec, OnlyRemoveOvershoots

\* Whoever waits does so in the list of the queue that its execution belongs to: throttle()
\* enqueues for limited modes only.
WaitersAreLimited ==
  \A r \in Reservation : reservation[r] = "queued" => TargetQueue(r) \in Limited

\* Only enqueue() makes a call wait; shift and splice only take calls out.
LEMMA WaitersStep == CCInvariant /\ WaitersAreLimited /\ [CCNext]_ccVars => WaitersAreLimited'
<1> SUFFICES ASSUME CCInvariant, WaitersAreLimited, [CCNext]_ccVars,
                    NEW s \in Reservation, reservation'[s] = "queued"
             PROVE  TargetQueue(s)' \in Limited
  BY DEF WaitersAreLimited
<1>0. reservation \in [Reservation -> Phase] /\ target \in [Reservation -> Exec \cup {NoExec}]
  BY DEF CCInvariant, TypeOK
<1>1. ASSUME reservation[s] = "queued", target'[s] = target[s]
      PROVE  TargetQueue(s)' \in Limited
  BY <1>1 DEF WaitersAreLimited, TargetQueue
<1>2. ASSUME NEW r \in Reservation, NEW e \in Exec, Throttle(r, e)
      PROVE  TargetQueue(s)' \in Limited
  <2>1. CASE s # r
    BY <1>0, <1>1, <1>2, <2>1 DEF Throttle, Enqueue
  <2>2. CASE s = r
    <3>1. Governed(ModeOf[e]) /\ target'[s] = e
      BY <1>0, <1>2, <2>2 DEF Throttle
    <3> QED
      BY <3>1 DEF Governed, TargetQueue
  <2> QED
    BY <2>1, <2>2
<1>3. ASSUME NEW r \in Reservation, Release(r)
      PROVE  TargetQueue(s)' \in Limited
  BY <1>0, <1>1, <1>3 DEF Release, Resolved
<1>4. ASSUME NEW e \in Exec, RemoveQueued(e)
      PROVE  TargetQueue(s)' \in Limited
  BY <1>0, <1>1, <1>4 DEF RemoveQueued, Resolved
<1>5. CASE Disable \/ UNCHANGED ccVars
  BY <1>1, <1>5 DEF Disable, ccVars
<1> QED
  BY <1>2, <1>3, <1>4, <1>5 DEF CCNext

\* The order of two waiting calls survives a shift of the list, unless the first of them is
\* the one that it lets through.
LEMMA LetThrough ==
  ASSUME NEW ph \in [Reservation -> Phase], NEW q \in Seq(Reservation), IsInjective(q),
         NEW r \in Reservation, NEW s \in Reservation, Before(q, r, s),
         Resolved(ph, q)[r] = "queued"
  PROVE  Before(Shifted(q), r, s)
<1>1. q # <<>> /\ Head(q) \in Reservation
  <2>1. PICK i, j \in 1..Len(q) : i < j
    BY DEF Before
  <2> QED
    BY <2>1
<1>2. r # Head(q)
  BY <1>1 DEF Resolved
<1> QED
  BY <1>2, ShiftedOrder

\* While two calls wait one behind the other, no push, shift or splice brings the second one
\* past the first (concurrency-queue.ts).
LEMMA OrderStep ==
  ASSUME CCInvariant, CCNext, NEW r \in Reservation, NEW s \in Reservation,
         Precedes(r, s), reservation'[r] = "queued"
  PROVE  Precedes(r, s)' \/ reservation'[s] = "removed"
<1>1. PICK t \in Limited : Before(queue[t], r, s)
  BY DEF Precedes, Before
<1> SUFFICES Before(queue'[t], r, s) \/ reservation'[s] = "removed"
  BY DEF Precedes, Before
<1>2. /\ reservation \in [Reservation -> Phase] /\ queue \in [Limited -> Seq(Reservation)]
      /\ queue[t] \in Seq(Reservation) /\ IsInjective(queue[t])
  BY DEF CCInvariant, TypeOK, QueueIsExact
<1>3. ASSUME NEW x \in Reservation, NEW e \in Exec, Throttle(x, e)
      PROVE  Before(queue'[t], r, s)
  <2>1. queue'[t] = queue[t] \/ queue'[t] = Append(queue[t], x)
    BY <1>2, <1>3 DEF Throttle, Enqueue
  <2>2. Before(Append(queue[t], x), r, s)
    BY <1>1, <1>2, AppendOrder
  <2> QED
    BY <1>1, <2>1, <2>2
<1>4. ASSUME NEW x \in Reservation, Release(x)
      PROVE  Before(queue'[t], r, s)
  <2>1. CASE queue'[t] = queue[t]
    BY <1>1, <2>1
  <2>2. CASE queue'[t] # queue[t]
    <3> DEFINE ph == [reservation EXCEPT ![x] = "released"]
    <3>1. t = TargetQueue(x) /\ queue'[t] = Shifted(queue[t]) /\ reservation' = Resolved(ph, queue[t])
      BY <1>2, <1>4, <2>2 DEF Release
    <3>2. ph \in [Reservation -> Phase]
      BY <1>2 DEF Phase
    <3> HIDE DEF ph
    <3> QED
      BY <1>1, <1>2, <3>1, <3>2, LetThrough
  <2> QED
    BY <2>1, <2>2
<1>5. ASSUME NEW e \in Exec, RemoveQueued(e)
      PROVE  Before(queue'[t], r, s) \/ reservation'[s] = "removed"
  <2>1. CASE queue'[t] = queue[t]
    BY <1>1, <2>1
  <2>2. CASE queue'[t] # queue[t]
    <3>1. t = QueueOf(ModeOf[e])
      BY <1>2, <1>5, <2>2 DEF RemoveQueued
    <3>2. PICK i \in 1..Len(queue[t]) :
            /\ queue' = [queue EXCEPT ![t] = Shifted(RemoveAt(queue[t], i))]
            /\ reservation' = Resolved([reservation EXCEPT ![queue[t][i]] = "removed"],
                                       RemoveAt(queue[t], i))
      BY <1>5, <3>1 DEF RemoveQueued
    <3> DEFINE rest == RemoveAt(queue[t], i)
    <3> DEFINE x == queue[t][i]
    <3> DEFINE ph == [reservation EXCEPT ![x] = "removed"]
    <3>3. /\ rest \in Seq(Reservation) /\ IsInjective(rest)
          /\ ToSet(rest) = ToSet(queue[t]) \ {x}
      <4>1. Spliced(rest, queue[t], i, Reservation)
        BY <1>2, RemoveAtFacts
      <4> HIDE DEF rest
      <4> QED
        BY <4>1 DEF Spliced
    <3>4. x \in Reservation
      BY <1>2
    <3>5. queue'[t] = Shifted(rest) /\ reservation' = Resolved(ph, rest)
      BY <1>2, <3>2
    <3>6. ph \in [Reservation -> Phase] /\ ph[x] = "removed"
      <4> HIDE DEF x
      <4> QED
        BY <1>2, <3>4 DEF Phase
    <3>7. Resolved(ph, rest)[x] = "removed"
      <4> HIDE DEF x, ph, rest
      <4>1. CASE rest = <<>>
        BY <3>6, <4>1 DEF Resolved
      <4>2. CASE rest # <<>>
        <5>1. Head(rest) \in ToSet(rest)
          BY <3>3, <4>2, ShiftedFacts
        <5>2. Head(rest) # x
          BY <3>3, <5>1
        <5> QED
          BY <3>4, <3>6, <4>2, <5>2 DEF Resolved
      <4> QED
        BY <4>1, <4>2
    <3>8. s # x => Before(rest, r, s)
      <4>1. r # x
        BY <3>5, <3>7
      <4> QED
        BY <1>1, <1>2, <4>1, RemoveAtOrder
    <3> HIDE DEF rest, x, ph
    <3> QED
      BY <3>3, <3>5, <3>6, <3>7, <3>8, LetThrough
  <2> QED
    BY <2>1, <2>2
<1>6. CASE Disable
  BY <1>1, <1>6 DEF Disable
<1> QED
  BY <1>3, <1>4, <1>5, <1>6 DEF CCNext

\* A call that comes while another one waits in its queue finds no capacity, and stands
\* behind it.
LEMMA ArrivalStep ==
  ASSUME CCInvariant, WaitersAreLimited, CCNext, isEnabled,
         NEW r \in Reservation, NEW s \in Reservation,
         reservation[r] = "queued",
         reservation[s] = "none", reservation'[s] # "none",
         TargetQueue(r) = TargetQueue(s)'
  PROVE  Precedes(r, s)'
<1>0. /\ reservation \in [Reservation -> Phase] /\ queue \in [Limited -> Seq(Reservation)]
      /\ target \in [Reservation -> Exec \cup {NoExec}]
  BY DEF CCInvariant, TypeOK
<1> DEFINE t == TargetQueue(r)
<1>1. t \in Limited /\ r \in ToSet(queue[t])
  BY DEF WaitersAreLimited, CCInvariant, QueueIsExact, QueuedIn
<1>2. queue[t] \in Seq(Reservation) /\ queue[t] # <<>> /\ Len(queue[t]) \in Nat /\ Len(queue[t]) # 0
      /\ capacity[t] \in Int
  BY <1>0, <1>1 DEF ToSet, CCInvariant, TypeOK
<1>3. capacity[t] <= 0
  <2>1. capacity[t] + Len(queue[t]) <= 0
    BY <1>1, <1>2 DEF CCInvariant, OverdrawnWhileWaiting
  <2> HIDE DEF t
  <2> QED
    BY <1>2, <2>1
<1>4. PICK x \in Reservation, e \in Exec : Throttle(x, e)
  BY ReleaseEffect, RemoveEffect DEF CCNext, Disable
<1>5. x = s
  BY <1>4, ThrottleEffect
<1>6. QueueOf(ModeOf[e]) = t /\ Governed(ModeOf[e])
  BY <1>0, <1>1, <1>4, <1>5 DEF Throttle, TargetQueue, Governed
<1>7. queue'[t] = Append(queue[t], s)
  BY <1>0, <1>1, <1>2, <1>3, <1>4, <1>5, <1>6 DEF Throttle, Enqueue
<1>8. Before(queue'[t], r, s)
  BY <1>1, <1>2, <1>7, AppendOrder
<1> QED
  BY <1>1, <1>8 DEF Before, Precedes

\* First come, first served: a call that waits is passed by nobody, whatever is throttled,
\* released or removed (concurrency-queue.ts keeps one list and shifts its head).
THEOREM ServedInOrder == CCSpec => FirstComeFirstServed
<1>1. CCInit => WaitersAreLimited
  BY DEF CCInit, WaitersAreLimited
<1> DEFINE Ordered ==
      isEnabled =>
        \A r, s \in Reservation :
          (/\ reservation[r] = "queued" /\ reservation'[r] = "queued"
           /\ Precedes(r, s) \/ (reservation[s] = "none" /\ reservation'[s] # "none")
           /\ TargetQueue(r) = TargetQueue(s)')
          => (Precedes(r, s)' \/ reservation'[s] = "removed")
<1>2. CCInvariant /\ WaitersAreLimited /\ [CCNext]_ccVars => [Ordered]_ccVars
  BY OrderStep, ArrivalStep
<1> QED
  BY <1>1, <1>2, InitInvariant, InvariantStep, WaitersStep, PTL DEF CCSpec, FirstComeFirstServed
=============================================================================
