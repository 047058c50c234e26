--------------------------- MODULE TaskBrokerProofs ---------------------------
(***************************************************************************)
(* The task broker, for every number of requests, runners, launchers and   *)
(* offers: no call is lost, its code starts once, what runs is wanted, and  *)
(* the lists of the broker name known runners.  BrokerInvariant, at the end,*)
(* is what the theorems follow from; one lemma per conjunct preserves it.   *)
(***************************************************************************)
EXTENDS TaskBroker, ListFacts

(***************************************************************************)
(* The recursion of Kept(): induction over the positions of a list.        *)
(***************************************************************************)

\* What filter() has kept of the first n elements, for each n up to m.
Keeps(f, list, set, m) ==
    /\ f = [n \in 0 .. m |-> f[n]]
    /\ f[0] = <<>>
    /\ \A n \in 1 .. m :
            f[n] = IF list[n] \in set THEN Append(f[n - 1], list[n]) ELSE f[n - 1]

\* The recursion of filter() has a solution.
LEMMA KeptExists ==
    ASSUME NEW list, NEW set, NEW m \in Nat
    PROVE  \E f : Keeps(f, list, set, m)
<1> DEFINE P == {k \in Nat : \E f : Keeps(f, list, set, k)}
<1>1. 0 \in P
  <2> DEFINE f == [n \in 0 .. 0 |-> <<>>]
  <2>1. /\ f[0] = <<>>
        /\ f = [n \in 0 .. 0 |-> f[n]]
        /\ 1 .. 0 = {}
    OBVIOUS
  <2> HIDE DEF f
  <2>2. Keeps(f, list, set, 0)
    BY <2>1 DEF Keeps
  <2> QED
    BY <2>2
<1>2. ASSUME NEW k \in Nat, k \in P
      PROVE  k + 1 \in P
  <2>1. PICK f : Keeps(f, list, set, k)
    BY <1>2
  <2> DEFINE last == IF list[k + 1] \in set THEN Append(f[k], list[k + 1]) ELSE f[k]
             g == [n \in 0 .. k + 1 |-> IF n = k + 1 THEN last ELSE f[n]]
  <2>2. g = [n \in 0 .. k + 1 |-> g[n]]
    OBVIOUS
  <2>7. g[k + 1] = last /\ \A n \in 0 .. k : g[n] = f[n]
    <3> HIDE DEF last
    <3> QED
      OBVIOUS
  <2>3. f[0] = <<>> /\ \A n \in 1 .. k :
            f[n] = IF list[n] \in set THEN Append(f[n - 1], list[n]) ELSE f[n - 1]
    BY <2>1 DEF Keeps
  <2> HIDE DEF g
  <2>4. g[0] = <<>>
    BY <2>3, <2>7
  <2>5. ASSUME NEW n \in 1 .. k + 1
        PROVE  g[n] = IF list[n] \in set THEN Append(g[n - 1], list[n]) ELSE g[n - 1]
    <3>1. CASE n = k + 1
      <4>1. n - 1 = k /\ g[n - 1] = f[k]
        BY <2>7, <3>1
      <4> QED
        BY <2>7, <3>1, <4>1
    <3>2. CASE n \in 1 .. k
      <4>1. g[n - 1] = f[n - 1] /\ g[n] = f[n]
        BY <2>7, <3>2
      <4> QED
        BY <2>3, <3>2, <4>1
    <3> QED
      BY <3>1, <3>2
  <2>6. Keeps(g, list, set, k + 1)
    BY <2>2, <2>4, <2>5 DEF Keeps
  <2> QED
    BY <2>6
<1>3. Nat \subseteq P
  <2> HIDE DEF P
  <2> QED
    BY <1>1, <1>2, SetInduction
<1> QED
  BY <1>3

\* What the recursion of Kept() chooses is such a solution.
LEMMA KeptIsKept ==
    ASSUME NEW list, NEW set, Len(list) \in Nat
    PROVE  \E f : Keeps(f, list, set, Len(list)) /\ Kept(list, set) = f[Len(list)]
<1> DEFINE N == Len(list)
           H(f) == [n \in 0 .. N |->
                        IF n = 0 THEN <<>>
                        ELSE IF list[n] \in set THEN Append(f[n - 1], list[n])
                        ELSE f[n - 1]]
           kept == CHOOSE f : f = H(f)
<1>1. \E f : f = H(f)
  <2>1. PICK f : Keeps(f, list, set, N)
    BY KeptExists
  <2> DEFINE h == H(f)
  <2>2. /\ h = [n \in 0 .. N |-> h[n]]
        /\ h[0] = <<>>
        /\ \A n \in 1 .. N :
            h[n] = IF list[n] \in set THEN Append(f[n - 1], list[n]) ELSE f[n - 1]
    OBVIOUS
  <2> HIDE DEF h
  <2>3. \A n \in 0 .. N : h[n] = f[n]
    <3>1. h[0] = f[0]
      BY <2>1, <2>2 DEF Keeps
    <3>2. \A n \in 1 .. N : h[n] = f[n]
      BY <2>1, <2>2 DEF Keeps
    <3>3. \A n \in 0 .. N : n = 0 \/ n \in 1 .. N
      OBVIOUS
    <3> QED
      BY <3>1, <3>2, <3>3
  <2>4. f = [n \in 0 .. N |-> f[n]]
    BY <2>1 DEF Keeps
  <2>5. f = h
    BY <2>2, <2>3, <2>4
  <2> QED
    BY <2>5 DEF h
<1>2. kept = H(kept)
  BY <1>1
<1>3. Kept(list, set) = kept[N]
  BY DEF Kept
<1> HIDE DEF kept
<1> DEFINE h == H(kept)
<1>4. /\ h = [n \in 0 .. N |-> h[n]]
      /\ h[0] = <<>>
      /\ \A n \in 1 .. N :
            h[n] = IF list[n] \in set THEN Append(kept[n - 1], list[n]) ELSE kept[n - 1]
  OBVIOUS
<1>5. kept = h
  BY <1>2
<1> HIDE DEF h
<1>6. Keeps(kept, list, set, N)
  BY <1>4, <1>5 DEF Keeps
<1> QED
  BY <1>3, <1>6

\* filter() keeps the elements that are in the set, each as often as it is there: the result
\* is a list of them, and repeats nothing that the list does not.
LEMMA KeptFacts ==
    ASSUME NEW S, NEW list \in Seq(S), NEW set
    PROVE  /\ Kept(list, set) \in Seq(S)
           /\ Range(Kept(list, set)) = Range(list) \cap set
           /\ IsInjective(list) => IsInjective(Kept(list, set))
<1> DEFINE N == Len(list)
<1>1. PICK f : Keeps(f, list, set, N) /\ Kept(list, set) = f[N]
  BY KeptIsKept
<1>2. Kept(list, set) = f[N]
  BY <1>1
<1>3. f[0] = <<>> /\ N \in Nat /\ DOMAIN list = 1 .. N
  BY <1>1 DEF Keeps
<1>4. \A n \in 1 .. N : f[n] = IF list[n] \in set THEN Append(f[n - 1], list[n]) ELSE f[n - 1]
  BY <1>1 DEF Keeps
<1> DEFINE Good(n) == /\ f[n] \in Seq(S)
                      /\ \A x : (\E i \in 1 .. Len(f[n]) : f[n][i] = x) <=> (x \in set /\ \E i \in 1 .. n : list[i] = x)
                      /\ IsInjective(list) => \A i, j \in 1 .. Len(f[n]) : f[n][i] = f[n][j] => i = j
           P == {n \in Nat : n <= N => Good(n)}
<1>5. 0 \in P
  <2>1. /\ f[0] \in Seq(S)
        /\ 1 .. Len(f[0]) = {} /\ 1 .. 0 = {}
    BY <1>3
  <2>2. Good(0)
    BY <2>1
  <2> QED
    BY <2>2
<1>6. ASSUME NEW n \in Nat, n \in P
      PROVE  n + 1 \in P
  <2> SUFFICES ASSUME n + 1 <= N PROVE Good(n + 1)
    OBVIOUS
  <2>8. n <= N /\ n + 1 \in 1 .. N /\ (n + 1) - 1 = n
    BY <1>3
  <2>1. Good(n) /\ n + 1 \in 1 .. N /\ (n + 1) - 1 = n
    <3>1. \A k \in P : k <= N => Good(k)
      OBVIOUS
    <3> HIDE DEF P, Good
    <3> QED
      BY <1>6, <2>8, <3>1
  <2>2. f[n + 1] = IF list[n + 1] \in set THEN Append(f[n], list[n + 1]) ELSE f[n]
    BY <1>4, <2>1
  <2> DEFINE a == f[n]
             b == f[n + 1]
             x0 == list[n + 1]
  <2>3. a \in Seq(S) /\ x0 \in S
    BY <2>1
  <2>4. \A x : (\E i \in 1 .. n + 1 : list[i] = x) <=> (x = x0 \/ \E i \in 1 .. n : list[i] = x)
    OBVIOUS
  <2>5. CASE x0 \notin set
    <3>1. b = a
      BY <2>2, <2>5
    <3> QED
      BY <2>1, <2>4, <2>5, <3>1
  <2>6. CASE x0 \in set
    <3>1. b = Append(a, x0)
      BY <2>2, <2>6
    <3>2. /\ b \in Seq(S) /\ Len(b) = Len(a) + 1 /\ Len(a) \in Nat
          /\ b[Len(a) + 1] = x0
          /\ \A i \in 1 .. Len(a) : b[i] = a[i]
      <4> HIDE DEF a, b, x0
      <4> QED
        BY <2>3, <3>1
    <3>3. \A x : (\E i \in 1 .. Len(b) : b[i] = x) <=> (x = x0 \/ \E i \in 1 .. Len(a) : a[i] = x)
      <4> HIDE DEF a, b, x0
      <4> QED
        BY <3>2
    <3>4. \A x : (\E i \in 1 .. Len(b) : b[i] = x) <=> (x \in set /\ \E i \in 1 .. n + 1 : list[i] = x)
      BY <2>1, <2>4, <2>6, <3>3
    <3>5. ASSUME IsInjective(list), NEW i \in 1 .. Len(b), NEW j \in 1 .. Len(b), b[i] = b[j]
          PROVE  i = j
      <4>1. ASSUME NEW k \in 1 .. Len(a), a[k] = x0
            PROVE  FALSE
        <5>1. PICK l \in 1 .. n : list[l] = x0
          BY <2>1, <4>1
        <5>2. l \in DOMAIN list /\ n + 1 \in DOMAIN list /\ l # n + 1
          BY <1>3, <2>1
        <5> QED
          BY <3>5, <5>1, <5>2 DEF IsInjective
      <4>2. \A k, l \in 1 .. Len(a) : a[k] = a[l] => k = l
        BY <2>1, <3>5
      <4> HIDE DEF a, b, x0
      <4>3. \A l \in 1 .. Len(b) : l = Len(a) + 1 \/ l \in 1 .. Len(a)
        BY <3>2
      <4>4. CASE i \in 1 .. Len(a) /\ j \in 1 .. Len(a)
        BY <3>2, <3>5, <4>2, <4>4
      <4>5. CASE i = Len(a) + 1 /\ j \in 1 .. Len(a)
        BY <3>2, <3>5, <4>1, <4>5
      <4>6. CASE i \in 1 .. Len(a) /\ j = Len(a) + 1
        BY <3>2, <3>5, <4>1, <4>6
      <4> QED
        BY <4>3, <4>4, <4>5, <4>6
    <3> QED
      BY <3>2, <3>4, <3>5
  <2> QED
    BY <2>5, <2>6
<1>7. N \in P
  <2>1. P \subseteq Nat
    OBVIOUS
  <2> HIDE DEF P
  <2> QED
    BY <1>3, <1>5, <1>6, <2>1, SetInduction
<1>8. Good(N)
  <2>1. \A n \in P : n <= N => Good(n)
    OBVIOUS
  <2>2. N <= N
    BY <1>3
  <2> HIDE DEF P, Good
  <2> QED
    BY <1>7, <2>1, <2>2
<1>9. Kept(list, set) \in Seq(S) /\ DOMAIN Kept(list, set) = 1 .. Len(Kept(list, set))
  BY <1>2, <1>8
<1>10. \A x : x \in Range(Kept(list, set)) <=> (x \in set /\ x \in Range(list))
  BY <1>2, <1>3, <1>8, <1>9 DEF Range
<1> QED
  BY <1>2, <1>8, <1>9, <1>10 DEF IsInjective

----------------------------------------------------------------------------
(* What the operations do to the queues and the lists.                     *)

\* What a connection carries in either direction.
BrokerSays == [type : ToRunnerType, task : {0} \cup Offer]
RunnerSays == [type : ToBrokerType, task : {0} \cup Offer]

\* A queue gets messages of a set, behind those that are there.
Adds(old, new, T) == \E said \in Seq(T) : new = old \o said

\* Messages are what the types say.
LEMMA MessageType ==
    ASSUME NEW o \in {0} \cup Offer, NEW type
    PROVE  /\ type \in ToRunnerType => Message(type, o) \in BrokerSays
           /\ type \in ToBrokerType => Message(type, o) \in RunnerSays
           /\ Message(type, o).type = type /\ Message(type, o).task = o
BY DEF Message, BrokerSays, RunnerSays

\* A queue that gets messages keeps the others, where they are.
LEMMA AddsFacts ==
    ASSUME NEW S, NEW T, T \subseteq S, NEW s \in Seq(S), NEW new, Adds(s, new, T)
    PROVE  /\ new \in Seq(S)
           /\ Range(new) \subseteq Range(s) \cup T
           /\ Range(s) \subseteq Range(new)
           /\ DOMAIN s \subseteq DOMAIN new
           /\ \A i \in DOMAIN s : new[i] = s[i]
           /\ \A i \in DOMAIN new \ DOMAIN s : new[i] \in T
           /\ \A i \in DOMAIN s, j \in DOMAIN new \ DOMAIN s : i < j
<1>1. PICK said \in Seq(T) : new = s \o said
  BY DEF Adds
<1>2. said \in Seq(S) /\ Range(said) \subseteq T
  BY SeqMonotonic, RangeOfSeq
<1>3. \A i \in DOMAIN said : said[i] \in T
  BY LenProperties, ElementOfSeq
<1>4. new \in Seq(S) /\ Range(new) = Range(s) \cup Range(said)
  BY <1>1, <1>2, Extended
<1>5. DOMAIN s \subseteq DOMAIN new /\ \A i \in DOMAIN s : new[i] = s[i]
  BY <1>1, <1>2, Extended
<1>6. \A i \in DOMAIN new \ DOMAIN s : new[i] \in T
  <2>1. \A i \in DOMAIN new \ DOMAIN s : (i - Len(s)) \in DOMAIN said /\ new[i] = said[i - Len(s)]
    BY <1>1, <1>2, Extended
  <2> QED
    BY <1>3, <2>1
<1>7. \A i \in DOMAIN s, j \in DOMAIN new \ DOMAIN s : i < j
  BY <1>1, <1>2, Extended
<1> QED
  BY <1>2, <1>4, <1>5, <1>6, <1>7

\* Deliver(): on a connection that is gone nothing arrives.
LEMMA Delivered ==
    ASSUME TypeOK, NEW r \in Runner, NEW T, T \subseteq BrokerSays, NEW said \in Seq(T)
    PROVE  /\ Adds(toRunner[r], Deliver(r, said), T)
           /\ connection[r] = "closed" => Deliver(r, said) = toRunner[r]
           /\ Deliver(r, said) \in Seq(BrokerSays)
<1>1. toRunner[r] \in Seq(BrokerSays) /\ connection[r] \in {"open", "closed"}
  BY DEF TypeOK, BrokerSays
<1>2. <<>> \in Seq(T) /\ toRunner[r] \o <<>> = toRunner[r]
  BY <1>1, ConcatEmptySeq
<1>3. Adds(toRunner[r], Deliver(r, said), T)
  BY <1>1, <1>2 DEF Adds, Deliver
<1>4. connection[r] = "closed" => Deliver(r, said) = toRunner[r]
  BY <1>1 DEF Deliver
<1>5. Deliver(r, said) \in Seq(BrokerSays)
  <2>1. PICK old : old = toRunner[r]
    OBVIOUS
  <2>2. PICK new : new = Deliver(r, said)
    OBVIOUS
  <2>3. old \in Seq(BrokerSays) /\ Adds(old, new, T)
    BY <1>1, <1>3, <2>1, <2>2
  <2>4. new \in Seq(BrokerSays)
    BY <2>3, AddsFacts
  <2> QED
    BY <2>2, <2>4
<1> QED
  BY <1>3, <1>4, <1>5

\* SendTo(): the runner gets the message behind what is under way to it, or nothing.
LEMMA Told ==
    ASSUME TypeOK, NEW r \in Runner, NEW type \in ToRunnerType, NEW o \in {0} \cup Offer,
           SendTo(r, type, o)
    PROVE  /\ toRunner' \in [Runner -> Seq(BrokerSays)]
           /\ \A p \in Runner : Adds(toRunner[p], toRunner'[p], {Message(type, o)})
           /\ \A p \in Runner \ {r} : toRunner'[p] = toRunner[p]
           /\ \A p \in Runner : connection[p] = "closed" => toRunner'[p] = toRunner[p]
           /\ toRunner'[r] = Deliver(r, <<Message(type, o)>>)
<1> DEFINE T == {Message(type, o)}
           said == <<Message(type, o)>>
<1>1. T \subseteq BrokerSays /\ said \in Seq(T)
  BY MessageType
<1>2. toRunner \in [Runner -> Seq(BrokerSays)]
  BY DEF TypeOK, BrokerSays
<1>3. toRunner' = [toRunner EXCEPT ![r] = Deliver(r, said)]
  BY DEF SendTo
<1> HIDE DEF said, T
<1>4. /\ Adds(toRunner[r], Deliver(r, said), T)
      /\ connection[r] = "closed" => Deliver(r, said) = toRunner[r]
      /\ Deliver(r, said) \in Seq(BrokerSays)
  BY <1>1, Delivered
<1>5. \A p \in Runner : toRunner[p] \in Seq(BrokerSays) /\ toRunner[p] \o <<>> = toRunner[p]
  BY <1>2, ConcatEmptySeq
<1>6. \A p \in Runner : Adds(toRunner[p], toRunner[p], T)
  BY <1>5, EmptySeq DEF Adds
<1>7. toRunner'[r] = Deliver(r, said) /\ \A p \in Runner \ {r} : toRunner'[p] = toRunner[p]
  BY <1>2, <1>3
<1>8. toRunner' \in [Runner -> Seq(BrokerSays)]
  BY <1>2, <1>3, <1>4
<1>9. \A p \in Runner : Adds(toRunner[p], toRunner'[p], T)
  BY <1>4, <1>6, <1>7
<1>10. \A p \in Runner : connection[p] = "closed" => toRunner'[p] = toRunner[p]
  BY <1>4, <1>7
<1> QED
  BY <1>7, <1>8, <1>9, <1>10 DEF T, said

\* A runner takes the first message of its queue.
LEMMA GetsFacts ==
    ASSUME TypeOK, NEW r \in Runner, NEW type, NEW o, Gets(r, type, o)
    PROVE  /\ toRunner' \in [Runner -> Seq(BrokerSays)]
           /\ toRunner[r] \in Seq(BrokerSays) /\ toRunner[r] # <<>>
           /\ toRunner'[r] = Tail(toRunner[r])
           /\ \A p \in Runner \ {r} : toRunner'[p] = toRunner[p]
           /\ \A p \in Runner : Range(toRunner'[p]) \subseteq Range(toRunner[p])
           /\ Message(type, o) \in Range(toRunner[r]) /\ toRunner[r][1] = Message(type, o)
           /\ connection[r] = "open"
<1>1. toRunner \in [Runner -> Seq(BrokerSays)]
  BY DEF TypeOK, BrokerSays
<1>2. /\ toRunner[r] # <<>> /\ Head(toRunner[r]) = Message(type, o)
      /\ toRunner' = [toRunner EXCEPT ![r] = Tail(toRunner[r])]
      /\ connection[r] = "open"
  BY DEF Gets
<1>3. toRunner[r] \in Seq(BrokerSays)
  BY <1>1
<1>4. /\ Tail(toRunner[r]) \in Seq(BrokerSays)
      /\ Head(toRunner[r]) \in Range(toRunner[r])
      /\ toRunner[r][1] = Head(toRunner[r])
      /\ Range(Tail(toRunner[r])) \subseteq Range(toRunner[r])
  BY <1>2, <1>3, Taken
<1>5. toRunner' \in [Runner -> Seq(BrokerSays)]
  BY <1>1, <1>2, <1>4
<1>6. toRunner'[r] = Tail(toRunner[r]) /\ \A p \in Runner \ {r} : toRunner'[p] = toRunner[p]
  BY <1>1, <1>2
<1> QED
  BY <1>2, <1>3, <1>4, <1>5, <1>6

\* The broker takes the first message of a runner's queue.
LEMMA ReceivesFacts ==
    ASSUME TypeOK, NEW r \in Runner, NEW type, NEW o, Receives(r, type, o)
    PROVE  /\ toBroker' \in [Runner -> Seq(RunnerSays)]
           /\ toBroker[r] \in Seq(RunnerSays) /\ toBroker[r] # <<>>
           /\ toBroker'[r] = Tail(toBroker[r])
           /\ \A p \in Runner \ {r} : toBroker'[p] = toBroker[p]
           /\ \A p \in Runner : Range(toBroker'[p]) \subseteq Range(toBroker[p])
           /\ Message(type, o) \in Range(toBroker[r]) /\ toBroker[r][1] = Message(type, o)
<1>1. toBroker \in [Runner -> Seq(RunnerSays)]
  BY DEF TypeOK, RunnerSays
<1>2. /\ toBroker[r] # <<>> /\ Head(toBroker[r]) = Message(type, o)
      /\ toBroker' = [toBroker EXCEPT ![r] = Tail(toBroker[r])]
  BY DEF Receives
<1>3. toBroker[r] \in Seq(RunnerSays)
  BY <1>1
<1>4. /\ Tail(toBroker[r]) \in Seq(RunnerSays)
      /\ Head(toBroker[r]) \in Range(toBroker[r])
      /\ toBroker[r][1] = Head(toBroker[r])
      /\ Range(Tail(toBroker[r])) \subseteq Range(toBroker[r])
  BY <1>2, <1>3, Taken
<1>5. toBroker' \in [Runner -> Seq(RunnerSays)]
  BY <1>1, <1>2, <1>4
<1>6. toBroker'[r] = Tail(toBroker[r]) /\ \A p \in Runner \ {r} : toBroker'[p] = toBroker[p]
  BY <1>1, <1>2
<1> QED
  BY <1>2, <1>3, <1>4, <1>5, <1>6

\* Reply(): the broker gets the messages behind those that are under way, or nothing.
LEMMA Replied ==
    ASSUME TypeOK, NEW r \in Runner, NEW T, T \subseteq RunnerSays, NEW said \in Seq(T),
           Reply(r, said)
    PROVE  /\ toBroker' \in [Runner -> Seq(RunnerSays)]
           /\ \A p \in Runner \ {r} : toBroker'[p] = toBroker[p]
           /\ Adds(toBroker[r], toBroker'[r], T)
           /\ r \in knownRunners => toBroker'[r] = toBroker[r] \o said
           /\ r \notin knownRunners => toBroker' = toBroker
<1>1. toBroker \in [Runner -> Seq(RunnerSays)]
  BY DEF TypeOK, RunnerSays
<1>2. toBroker[r] \in Seq(RunnerSays) /\ toBroker[r] \o <<>> = toBroker[r]
  BY <1>1, ConcatEmptySeq
<1>3. said \in Seq(RunnerSays)
  BY SeqMonotonic
<1>4. toBroker[r] \o said \in Seq(RunnerSays)
  BY <1>2, <1>3, ConcatProperties
<1>5. toBroker' = IF r \in knownRunners THEN [toBroker EXCEPT ![r] = toBroker[r] \o said]
                                        ELSE toBroker
  BY DEF Reply
<1>6. toBroker' \in [Runner -> Seq(RunnerSays)]
  BY <1>1, <1>4, <1>5
<1>7. \A p \in Runner \ {r} : toBroker'[p] = toBroker[p]
  BY <1>1, <1>5
<1>8. /\ r \in knownRunners => toBroker'[r] = toBroker[r] \o said
      /\ r \notin knownRunners => toBroker' = toBroker
  BY <1>1, <1>5
<1>9. Adds(toBroker[r], toBroker'[r], T)
  BY <1>2, <1>8, EmptySeq DEF Adds
<1> QED
  BY <1>6, <1>7, <1>8, <1>9

\* The list of the requests that may be matched: positions in the list of requests.
LEMMA MatchableFacts ==
    ASSUME NEW requests \in Seq(Request)
    PROVE  /\ Matchable(requests) \in Seq(DOMAIN requests)
           /\ Len(Matchable(requests)) \in Nat
           /\ \A k \in 1 .. Len(Matchable(requests)) :
                    requests[Matchable(requests)[k]] \in Request
<1> DEFINE all == [i \in DOMAIN requests |-> i]
           set == {i \in DOMAIN requests : /\ requests[i] \notin acceptInProgress
                                           /\ \A j \in 1 .. i - 1 : requests[j] # requests[i]}
<1>1. DOMAIN requests = 1 .. Len(requests) /\ Len(requests) \in Nat
  BY LenProperties
<1>2. all \in Seq(DOMAIN requests)
  BY <1>1
<1>3. Matchable(requests) = Kept(all, set)
  BY DEF Matchable
<1> HIDE DEF all, set
<1>4. Matchable(requests) \in Seq(DOMAIN requests)
  BY <1>2, <1>3, KeptFacts
<1> DEFINE free == Matchable(requests)
<1> HIDE DEF free
<1>5. free \in Seq(DOMAIN requests)
  BY <1>4 DEF free
<1>6. Len(free) \in Nat /\ \A k \in 1 .. Len(free) : free[k] \in DOMAIN requests
  BY <1>5, LenProperties, ElementOfSeq
<1>7. \A k \in 1 .. Len(free) : requests[free[k]] \in Request
  BY <1>1, <1>6, ElementOfSeq
<1> QED
  BY <1>4, <1>6, <1>7 DEF free

\* A front part of a list, and what is left of it.
LEMMA Parted ==
    ASSUME NEW S, NEW s \in Seq(S), NEW n \in 0 .. Len(s)
    PROVE  /\ SubSeq(s, 1, n) \in Seq(S)
           /\ DOMAIN SubSeq(s, 1, n) = 1 .. n
           /\ SubSeq(s, n + 1, Len(s)) \in Seq(S)
           /\ Range(SubSeq(s, 1, n)) \subseteq Range(s)
           /\ Range(SubSeq(s, n + 1, Len(s))) \subseteq Range(s)
           /\ IsInjective(s) => /\ IsInjective(SubSeq(s, n + 1, Len(s)))
                                /\ Range(SubSeq(s, 1, n)) \cap Range(SubSeq(s, n + 1, Len(s))) = {}
<1> DEFINE N == Len(s)
           a == SubSeq(s, 1, n)
           b == SubSeq(s, n + 1, N)
<1>1. N \in Nat /\ DOMAIN s = 1 .. N /\ n \in Int /\ n >= 0 /\ n <= N
  BY LenProperties
<1>2. \A i \in 1 .. N : s[i] \in S
  BY ElementOfSeq
<1>3. a \in Seq(S) /\ Len(a) = n /\ \A i \in 1 .. n : a[i] = s[i]
  <2> HIDE DEF N
  <2>1. \A i \in 1 .. n : s[i] \in S
    BY <1>1, <1>2
  <2>2. /\ a \in Seq(S) /\ Len(a) = IF 1 <= n THEN n - 1 + 1 ELSE 0
        /\ \A i \in 1 .. n - 1 + 1 : a[i] = s[1 + i - 1]
    BY <1>1, <2>1, SubSeqProperties
  <2> HIDE DEF a
  <2>3. n - 1 + 1 = n /\ \A i \in 1 .. n : 1 + i - 1 = i
    BY <1>1
  <2> QED
    BY <1>1, <2>2, <2>3
<1>4. b \in Seq(S) /\ Len(b) = N - n /\ \A i \in 1 .. N - n : b[i] = s[n + i]
  <2>1. \A i \in n + 1 .. N : s[i] \in S
    BY <1>1, <1>2
  <2> HIDE DEF N
  <2>2. /\ b \in Seq(S) /\ Len(b) = IF n + 1 <= N THEN N - (n + 1) + 1 ELSE 0
        /\ \A i \in 1 .. N - (n + 1) + 1 : b[i] = s[(n + 1) + i - 1]
    BY <1>1, <2>1, SubSeqProperties
  <2> HIDE DEF b
  <2>3. Len(b) = N - n
    BY <1>1, <2>2
  <2>4. ASSUME NEW i \in 1 .. N - n
        PROVE  b[i] = s[n + i]
    <3>1. i \in 1 .. N - (n + 1) + 1 /\ (n + 1) + i - 1 = n + i
      BY <1>1
    <3>2. b[i] = s[(n + 1) + i - 1]
      BY <2>2, <3>1
    <3> QED
      BY <3>1, <3>2
  <2> QED
    BY <2>2, <2>3, <2>4
<1> HIDE DEF a, b, N
<1>5. DOMAIN a = 1 .. n /\ DOMAIN b = 1 .. N - n
  BY <1>3, <1>4, LenProperties
<1>6. \A i \in DOMAIN a : i \in DOMAIN s /\ a[i] = s[i] /\ i <= n
  BY <1>1, <1>3, <1>5
<1>7. \A i \in DOMAIN b : i \in Int /\ n + i \in DOMAIN s /\ b[i] = s[n + i] /\ n < n + i
  BY <1>1, <1>4, <1>5
<1>8. Range(a) \subseteq Range(s) /\ Range(b) \subseteq Range(s)
  BY <1>6, <1>7 DEF Range
<1>9. ASSUME IsInjective(s)
      PROVE  IsInjective(b) /\ Range(a) \cap Range(b) = {}
  <2>1. \A i, j \in DOMAIN b : b[i] = b[j] => n + i = n + j
    BY <1>7, <1>9 DEF IsInjective
  <2>2. IsInjective(b)
    BY <1>1, <1>7, <2>1 DEF IsInjective
  <2>3. ASSUME NEW i \in DOMAIN a, NEW j \in DOMAIN b
        PROVE  a[i] # b[j]
    <3>1. i # n + j
      BY <1>1, <1>5, <1>6, <1>7
    <3> QED
      BY <1>6, <1>7, <1>9, <3>1 DEF IsInjective
  <2> QED
    BY <2>2, <2>3 DEF Range
<1> QED
  BY <1>3, <1>4, <1>5, <1>8, <1>9 DEF a, b, N

\* settleTasks(): some of the offers, each listed no more, are matched with requests, and
\* their runners are asked to accept; other offers may be dropped.
Settled(requests, offers, matched) ==
    /\ pendingTaskRequests' = requests
    /\ pendingTaskOffers' \in Seq(Offer)
    /\ Range(pendingTaskOffers') \subseteq Range(offers)
    /\ IsInjective(offers) => /\ IsInjective(pendingTaskOffers')
                              /\ Range(pendingTaskOffers') \cap matched = {}
    /\ acceptInProgress' \subseteq Request
    /\ awaited' = awaited \cup matched /\ matched \subseteq Offer
    /\ requestOf' \in [Offer -> {"none"} \cup Request]
    /\ \A o \in matched : requestOf'[o] \in Request
    /\ \A o \in Offer \ matched : requestOf'[o] = requestOf[o]
    /\ toRunner' \in [Runner -> Seq(BrokerSays)]
    /\ \A r \in Runner : connection[r] = "closed" => toRunner'[r] = toRunner[r]
    /\ \A r \in Runner : Adds(toRunner[r], toRunner'[r],
                              {Message("accept", o) : o \in {x \in matched : offeredBy[x] = r}})

\* It does that.
LEMMA SettleFacts ==
    ASSUME TypeOK, NEW requests \in Seq(Request), NEW offers \in Seq(Offer),
           SettleTasks(requests, offers)
    PROVE  \E matched \in SUBSET Range(offers) : Settled(requests, offers, matched)
<1> DEFINE free == Matchable(requests)
           fresh(e) == Kept(offers, Offer \ e)
           n(e) == IF Len(free) < Len(fresh(e)) THEN Len(free) ELSE Len(fresh(e))
           front(e) == SubSeq(fresh(e), 1, n(e))
<1>1. PICK e : /\ pendingTaskRequests' = requests
               /\ pendingTaskOffers' = SubSeq(fresh(e), n(e) + 1, Len(fresh(e)))
               /\ acceptInProgress' = acceptInProgress \cup {requests[free[k]] : k \in 1 .. n(e)}
               /\ awaited' = awaited \cup Range(front(e))
               /\ requestOf' = [o \in Offer |->
                                IF \E k \in 1 .. n(e) : front(e)[k] = o
                                THEN requests[free[CHOOSE k \in 1 .. n(e) : front(e)[k] = o]]
                                ELSE requestOf[o]]
               /\ toRunner' = [r \in Runner |-> Deliver(r, AcceptMessages(r, front(e)))]
  BY Zenon DEF SettleTasks
<1> DEFINE f == fresh(e)
           m == n(e)
           a == front(e)
<1>2. /\ f \in Seq(Offer) /\ Range(f) \subseteq Range(offers)
      /\ IsInjective(offers) => IsInjective(f)
  BY KeptFacts
<1>3. /\ free \in Seq(DOMAIN requests) /\ Len(free) \in Nat
      /\ \A k \in 1 .. Len(free) : requests[free[k]] \in Request
  BY MatchableFacts
<1>4. m \in 0 .. Len(f) /\ m <= Len(free) /\ m \in Nat
  <2> HIDE DEF free, fresh
  <2>1. Len(f) \in Nat
    BY <1>2, LenProperties
  <2> QED
    BY <1>3, <2>1
<1> DEFINE b == SubSeq(f, m + 1, Len(f))
<1>5. /\ a \in Seq(Offer) /\ DOMAIN a = 1 .. m /\ b \in Seq(Offer)
      /\ Range(a) \subseteq Range(f) /\ Range(b) \subseteq Range(f)
      /\ IsInjective(f) => IsInjective(b) /\ Range(a) \cap Range(b) = {}
  <2> HIDE DEF free, f, m
  <2>1. a = SubSeq(f, 1, m)
    BY DEF f, m
  <2> HIDE DEF a
  <2> QED
    BY <1>2, <1>4, <2>1, Parted
<1>6. \A k \in 1 .. m : requests[free[k]] \in Request
  <2> HIDE DEF free, m
  <2> QED
    BY <1>3, <1>4
<1>7. /\ pendingTaskRequests' = requests
      /\ pendingTaskOffers' = b
      /\ acceptInProgress' = acceptInProgress \cup {requests[free[k]] : k \in 1 .. m}
      /\ awaited' = awaited \cup Range(a)
      /\ requestOf' = [o \in Offer |->
                        IF \E k \in 1 .. m : a[k] = o
                        THEN requests[free[CHOOSE k \in 1 .. m : a[k] = o]]
                        ELSE requestOf[o]]
  BY <1>1
<1> DEFINE said(r) == AcceptMessages(r, a)
<1>8. toRunner' = [r \in Runner |-> Deliver(r, said(r))]
  BY <1>1
<1> HIDE DEF free, f, m, a, b, said
<1> DEFINE T(r) == {Message("accept", o) : o \in {x \in Range(a) : offeredBy[x] = r}}
<1>9. ASSUME NEW r \in Runner
      PROVE  said(r) \in Seq(T(r)) /\ T(r) \subseteq BrokerSays
  <2> DEFINE set == {o \in Offer : offeredBy[o] = r}
             kept == Kept(a, set)
  <2>1. kept \in Seq(Offer) /\ Range(kept) = Range(a) \cap set
    BY <1>5, KeptFacts
  <2>2. said(r) = [k \in DOMAIN kept |-> Message("accept", kept[k])]
    BY DEF AcceptMessages, said
  <2> HIDE DEF kept
  <2>3. DOMAIN kept = 1 .. Len(kept) /\ Len(kept) \in Nat
    BY <2>1, LenProperties
  <2>4. \A k \in 1 .. Len(kept) : Message("accept", kept[k]) \in T(r)
    BY <2>1, <2>3 DEF Range
  <2> HIDE DEF T
  <2>5. said(r) \in Seq(T(r))
    BY <2>2, <2>3, <2>4
  <2>6. T(r) \subseteq BrokerSays
    <3>1. \A o \in Offer : Message("accept", o) \in BrokerSays
      BY MessageType DEF ToRunnerType
    <3> QED
      BY <1>5, <3>1, RangeOfSeq DEF T
  <2> QED
    BY <2>5, <2>6
<1> HIDE DEF T
<1>10. /\ toRunner' \in [Runner -> Seq(BrokerSays)]
       /\ \A r \in Runner : Adds(toRunner[r], toRunner'[r], T(r))
       /\ \A r \in Runner : connection[r] = "closed" => toRunner'[r] = toRunner[r]
  BY <1>8, <1>9, Delivered
<1>11. Range(a) \subseteq Range(offers) /\ Range(a) \subseteq Offer /\ Range(b) \subseteq Range(offers)
  BY <1>2, <1>5, RangeOfSeq
<1>12. /\ \A o \in Range(a) : requestOf'[o] \in Request
       /\ \A o \in Offer \ Range(a) : requestOf'[o] = requestOf[o]
       /\ requestOf' \in [Offer -> {"none"} \cup Request]
  <2>1. \A o \in Offer : o \in Range(a) <=> \E k \in 1 .. m : a[k] = o
    BY <1>5 DEF Range
  <2>2. requestOf \in [Offer -> {"none"} \cup Request]
    BY DEF TypeOK
  <2>3. ASSUME NEW o \in Range(a)
        PROVE  requestOf'[o] \in Request
    <3> DEFINE k == CHOOSE i \in 1 .. m : a[i] = o
    <3>1. k \in 1 .. m
      BY <1>11, <2>1, <2>3
    <3>2. requestOf'[o] = requests[free[k]]
      BY <1>7, <1>11, <2>1, <2>3
    <3> HIDE DEF k
    <3> QED
      BY <1>6, <3>1, <3>2
  <2>4. \A o \in Offer \ Range(a) : requestOf'[o] = requestOf[o]
    BY <1>7, <2>1
  <2>5. DOMAIN requestOf' = Offer /\ requestOf' = [o \in Offer |-> requestOf'[o]]
    BY <1>7
  <2> QED
    BY <1>11, <2>2, <2>3, <2>4, <2>5
<1>13. acceptInProgress' \subseteq Request
  BY <1>6, <1>7 DEF TypeOK
<1>14. IsInjective(offers) => IsInjective(b) /\ Range(b) \cap Range(a) = {}
  BY <1>2, <1>5
<1>15. pendingTaskOffers' = b /\ b \in Seq(Offer)
  BY <1>5, <1>7
<1>16. pendingTaskRequests' = requests /\ awaited' = awaited \cup Range(a)
  BY <1>7
<1>17. \A r \in Runner : Adds(toRunner[r], toRunner'[r],
                                {Message("accept", o) : o \in {x \in Range(a) : offeredBy[x] = r}})
  BY <1>10 DEF T
<1> DEFINE M == Range(a)
<1>18. M \in SUBSET Range(offers)
  BY <1>11
<1> HIDE DEF M
<1>19. Settled(requests, offers, M)
  BY <1>10, <1>11, <1>12, <1>13, <1>14, <1>15, <1>16, <1>17 DEF M, Settled
<1> QED
  BY <1>18, <1>19

\* The runners number their offers one after the other.
OffersAreNumbered == \E k \in 0 .. MaxOffers : Sent = 1 .. k

\* sendOffers(): the new offers are those of the runner, each told to the broker once.
LEMMA SendOffersFacts ==
    ASSUME TypeOK, OffersAreNumbered, NEW r \in Runner, NEW said, NEW left \in SUBSET Offer,
           SendOffers(r, said, left)
    PROVE  \E new \in SUBSET Offer : \E offers \in Seq({Message("offer", o) : o \in new}) :
            /\ new \cap Sent = {}
            /\ offeredBy' = [o \in Offer |-> IF o \in new THEN r ELSE offeredBy[o]]
            /\ OffersAreNumbered'
            /\ openOffers' \subseteq openOffers \cup new
            /\ IsInjective(offers)
            /\ Reply(r, said \o offers)
<1>1. PICK sent \in 0 .. MaxOffers : Sent = 1 .. sent
  BY DEF OffersAreNumbered
<1>2. MaxOffers \in Nat /\ MaxConcurrency \in Nat /\ sent \in Nat /\ sent <= MaxOffers
  BY BrokerAssumption
<1>3. Cardinality(Sent) = sent
  <2>1. Cardinality(1 .. sent) = IF 1 > sent THEN 0 ELSE sent - 1 + 1
    BY <1>2, FS_Interval
  <2> QED
    BY <1>1, <1>2, <2>1
<1>4. IsFiniteSet(Offer) /\ IsFiniteSet(left) /\ Cardinality(left) \in Nat
  <2>1. IsFiniteSet(Offer)
    BY <1>2, FS_Interval DEF Offer
  <2> QED
    BY <2>1, FS_Subset, FS_CardinalityType
<1> DEFINE own(stale) == {o \in openOffers : offeredBy[o] = r} \ stale
           slots(stale) == MaxConcurrency - Cardinality(own(stale)) - Cardinality(left)
           free(stale) == IF r \notin canSendOffers THEN 0
                          ELSE IF slots(stale) < MaxOffers - sent THEN slots(stale)
                          ELSE MaxOffers - sent
<1>5. PICK stale \in SUBSET {o \in openOffers : offeredBy[o] = r} :
        LET n == free(stale)
        IN /\ offeredBy' = [o \in Offer |-> IF o \in sent + 1 .. sent + n THEN r ELSE offeredBy[o]]
           /\ openOffers' = (openOffers \ stale) \cup (sent + 1 .. sent + n)
           /\ Reply(r, said \o [k \in 1 .. n |-> Message("offer", sent + k)])
  BY <1>3 DEF SendOffers
<1> DEFINE n == free(stale)
           new == sent + 1 .. sent + n
           offers == [k \in 1 .. n |-> Message("offer", sent + k)]
<1>6. n \in Int /\ sent + n <= MaxOffers
  <2>1. own(stale) \subseteq Offer
    BY DEF TypeOK
  <2> DEFINE c == Cardinality(own(stale))
             l == Cardinality(left)
  <2>2. c \in Nat /\ l \in Nat
    <3> HIDE DEF own
    <3> QED
      BY <1>4, <2>1, FS_Subset, FS_CardinalityType
  <2> HIDE DEF c, l, own
  <2>3. slots(stale) = MaxConcurrency - c - l
    BY DEF c, l
  <2> HIDE DEF slots
  <2>4. slots(stale) \in Int
    BY <1>2, <2>2, <2>3
  <2> QED
    BY <1>2, <2>4
<1>7. /\ offeredBy' = [o \in Offer |-> IF o \in new THEN r ELSE offeredBy[o]]
      /\ openOffers' \subseteq openOffers \cup new
      /\ Reply(r, said \o offers)
  BY <1>5
<1> HIDE DEF n
<1>8. new \subseteq Offer /\ new \cap Sent = {}
  BY <1>1, <1>2, <1>6 DEF Offer
<1>9. offers \in Seq({Message("offer", o) : o \in new}) /\ IsInjective(offers)
  <2> DEFINE T == {Message("offer", o) : o \in new}
  <2>1. \A k \in 1 .. n : Message("offer", sent + k) \in T
    BY <1>2, <1>6
  <2>2. \A k \in 1 .. n : Message("offer", sent + k).task = sent + k
    BY DEF Message
  <2>3. IsInjective(offers)
    <3>1. ASSUME NEW i \in 1 .. n, NEW j \in 1 .. n,
                 Message("offer", sent + i) = Message("offer", sent + j)
          PROVE  i = j
      <4>1. sent + i = sent + j
        BY <2>2, <3>1
      <4> QED
        BY <1>2, <1>6, <4>1
    <3> QED
      BY <3>1 DEF IsInjective
  <2> HIDE DEF T, new
  <2>4. offers \in Seq(T)
    <3>1. CASE n >= 0
      BY <1>6, <2>1, <3>1
    <3>2. CASE n < 0
      <4>1. 1 .. n = {} /\ 1 .. 0 = {}
        BY <1>6, <3>2
      <4>2. offers = [k \in 1 .. 0 |-> Message("offer", sent + k)]
        BY <4>1
      <4> HIDE DEF offers
      <4>3. offers \in [1 .. 0 -> T]
        BY <4>1, <4>2
      <4> QED
        BY <4>3, SeqDef
    <3> QED
      BY <1>6, <3>1, <3>2
  <2> QED
    BY <2>3, <2>4 DEF T
<1> HIDE DEF offers
<1>10. OffersAreNumbered'
  <2>1. Sent' = {o \in Offer : offeredBy'[o] # "nobody"}
    BY DEF Sent
  <2>2. r # "nobody"
    BY BrokerAssumption
  <2>3. \A o \in Offer : offeredBy'[o] # "nobody" <=> (o \in new \/ offeredBy[o] # "nobody")
    BY <1>7, <2>2
  <2>4. Sent' = Sent \cup new
    <3> HIDE DEF new
    <3> QED
      BY <1>8, <2>1, <2>3 DEF Sent
  <2>5. CASE n > 0
    <3>1. sent + n \in 0 .. MaxOffers /\ Sent' = 1 .. sent + n
      BY <1>1, <1>2, <1>6, <2>4, <2>5
    <3> QED
      BY <3>1 DEF OffersAreNumbered
  <2>6. CASE ~(n > 0)
    <3>1. new = {}
      BY <1>2, <1>6, <2>6
    <3>2. Sent' = 1 .. sent
      BY <1>1, <2>4, <3>1
    <3> QED
      BY <1>1, <3>2 DEF OffersAreNumbered
  <2> QED
    BY <2>5, <2>6
<1>11. new \in SUBSET Offer
  BY <1>8
<1>12. offers \in Seq({Message("offer", o) : o \in new})
  BY <1>9
<1> HIDE DEF new
<1> WITNESS new \in SUBSET Offer
<1> WITNESS offers \in Seq({Message("offer", o) : o \in new})
<1> QED
  BY <1>7, <1>8, <1>9, <1>10

----------------------------------------------------------------------------
(* Types.                                                                  *)

\* With the types: offers are numbered one after the other, and an offer whose acceptance is
\* awaited was matched with a request.
Typing ==
    /\ TypeOK
    /\ OffersAreNumbered
    /\ \A o \in awaited : requestOf[o] \in Request

\* Nobody but sendOffers() makes offers.
LEMMA NumbersAreKept ==
    ASSUME OffersAreNumbered, offeredBy' = offeredBy
    PROVE  OffersAreNumbered' /\ Sent' = Sent
BY DEF OffersAreNumbered, Sent

\* Answer() keeps the types.
LEMMA AnswerTypes ==
    ASSUME TypeOK, NEW ended, Answer(ended)
    PROVE  /\ tasks' \subseteq Offer /\ taskTimer' \subseteq Offer
           /\ call' \in [Request -> {"none", "waiting", "running", "done"}]
           /\ taskOf' \in [Request -> {0} \cup Offer]
BY DEF TypeOK, Answer

\* So does the end of a runner's process.
LEMMA KillTypes ==
    ASSUME TypeOK, NEW gone, Kill(gone)
    PROVE  /\ connection' \in [Runner -> {"open", "closed"}]
           /\ canSendOffers' \subseteq Runner /\ openOffers' \subseteq Offer
           /\ status' \in [Offer -> {"none", "waitingForSettings", "running",
                                     "aborting:cancelled", "aborting:timeout"}]
           /\ toRunner' \in [Runner -> Seq(BrokerSays)]
<1>1. /\ connection \in [Runner -> {"open", "closed"}]
      /\ toRunner \in [Runner -> Seq(BrokerSays)]
      /\ status \in [Offer -> {"none", "waitingForSettings", "running",
                               "aborting:cancelled", "aborting:timeout"}]
      /\ canSendOffers \subseteq Runner /\ openOffers \subseteq Offer
  BY DEF TypeOK, BrokerSays
<1>2. toRunner' = [r \in Runner |-> IF r \in gone THEN <<>> ELSE toRunner[r]]
  BY DEF Kill
<1>3. toRunner' \in [Runner -> Seq(BrokerSays)]
  BY <1>1, <1>2, EmptySeq
<1>4. /\ connection' \in [Runner -> {"open", "closed"}]
      /\ canSendOffers' \subseteq Runner /\ openOffers' \subseteq Offer
  BY <1>1 DEF Kill
<1>5. status' \in [Offer -> {"none", "waitingForSettings", "running",
                             "aborting:cancelled", "aborting:timeout"}]
  BY <1>1 DEF Kill
<1> QED
  BY <1>3, <1>4, <1>5

\* settleTasks() keeps the types.
LEMMA SettleTypes ==
    ASSUME Typing, NEW requests \in Seq(Request), NEW offers \in Seq(Offer),
           SettleTasks(requests, offers)
    PROVE  /\ pendingTaskOffers' \in Seq(Offer) /\ pendingTaskRequests' \in Seq(Request)
           /\ acceptInProgress' \subseteq Request /\ awaited' \subseteq Offer
           /\ requestOf' \in [Offer -> {"none"} \cup Request]
           /\ toRunner' \in [Runner -> Seq(BrokerSays)]
           /\ \A o \in awaited' : requestOf'[o] \in Request
<1>0. TypeOK /\ awaited \subseteq Offer /\ \A o \in awaited : requestOf[o] \in Request
  BY DEF Typing, TypeOK
<1>1. PICK matched \in SUBSET Range(offers) : Settled(requests, offers, matched)
  BY <1>0, SettleFacts
<1> QED
  BY <1>0, <1>1 DEF Settled

\* finishTask() and the other users of sendOffers() keep the types.
LEMMA OfferTypes ==
    ASSUME Typing, NEW r \in Runner, NEW said \in Seq(RunnerSays), NEW left \in SUBSET Offer,
           SendOffers(r, said, left)
    PROVE  /\ openOffers' \subseteq Offer
           /\ offeredBy' \in [Offer -> {"nobody"} \cup Runner]
           /\ toBroker' \in [Runner -> Seq(RunnerSays)]
           /\ OffersAreNumbered'
<1>0. TypeOK /\ OffersAreNumbered /\ openOffers \subseteq Offer
      /\ offeredBy \in [Offer -> {"nobody"} \cup Runner]
  BY DEF Typing, TypeOK
<1>1. PICK new \in SUBSET Offer : \E offers \in Seq({Message("offer", o) : o \in new}) :
            /\ offeredBy' = [o \in Offer |-> IF o \in new THEN r ELSE offeredBy[o]]
            /\ OffersAreNumbered'
            /\ openOffers' \subseteq openOffers \cup new
            /\ Reply(r, said \o offers)
  BY <1>0, SendOffersFacts
<1>2. PICK offers \in Seq({Message("offer", o) : o \in new}) : Reply(r, said \o offers)
  BY <1>1
<1>3. {Message("offer", o) : o \in new} \subseteq RunnerSays
  <2>1. \A o \in Offer : Message("offer", o) \in RunnerSays
    BY MessageType DEF ToBrokerType
  <2> QED
    BY <2>1
<1>4. offers \in Seq(RunnerSays)
  BY <1>3, SeqMonotonic
<1>5. said \o offers \in Seq(RunnerSays)
  BY <1>4, ConcatProperties
<1>6. toBroker' \in [Runner -> Seq(RunnerSays)]
  BY <1>0, <1>2, <1>5, Replied
<1> QED
  BY <1>0, <1>1, <1>6

\* One message is a list of messages.
LEMMA OneMessage ==
    ASSUME NEW S, NEW m \in S
    PROVE  <<m>> \in Seq(S) /\ Range(<<m>>) = {m} /\ <<>> \in Seq(S)
BY DEF Range

\* The broker's and the requester's operations keep the types.
LEMMA BrokerTypes ==
    ASSUME Typing,
           \/ \E q \in Request : StartTask(q) \/ CancelTasks(q) \/ RequestTimeout(q)
           \/ \E o \in Offer : AcceptTimeout(o) \/ TaskTimeout(o)
           \/ StartDraining
           \/ \E r \in Runner : Connect(r) \/ DeregisterRunner(r) \/ BrokerMessage(r)
    PROVE  Typing'
<1>0. /\ TypeOK /\ OffersAreNumbered
      /\ \A o \in awaited : requestOf[o] \in Request
  BY DEF Typing
<1> USE DEF matching, handed, runners, modes
<1>1. ASSUME NEW q \in Request, StartTask(q) PROVE Typing'
  <2>1. OffersAreNumbered'
    BY <1>0, <1>1, NumbersAreKept DEF StartTask
  <2>2. CASE isDraining
    BY <1>0, <1>1, <2>1, <2>2 DEF StartTask, TypeOK, Typing
  <2>3. CASE ~isDraining
    <3>1. /\ Append(pendingTaskRequests, q) \in Seq(Request)
          /\ pendingTaskOffers \in Seq(Offer)
          /\ SettleTasks(Append(pendingTaskRequests, q), pendingTaskOffers)
      BY <1>0, <1>1, <2>3, Appended DEF StartTask, TypeOK
    <3>2. /\ pendingTaskOffers' \in Seq(Offer) /\ pendingTaskRequests' \in Seq(Request)
          /\ acceptInProgress' \subseteq Request /\ awaited' \subseteq Offer
          /\ requestOf' \in [Offer -> {"none"} \cup Request]
          /\ toRunner' \in [Runner -> Seq(BrokerSays)]
          /\ \A o \in awaited' : requestOf'[o] \in Request
      BY <3>1, SettleTypes
    <3> QED
      BY <1>0, <1>1, <2>1, <2>3, <3>2 DEF StartTask, TypeOK, BrokerSays, Typing
  <2> QED
    BY <2>2, <2>3
<1>2. ASSUME NEW q \in Request, CancelTasks(q) PROVE Typing'
  <2>1. OffersAreNumbered'
    BY <1>0, <1>2, NumbersAreKept DEF CancelTasks
  <2> DEFINE p == offeredBy[taskOf[q]]
  <2>2. toRunner' \in [Runner -> Seq(BrokerSays)]
    <3>0. taskOf[q] \in {0} \cup Offer /\ SendTo(p, "cancel", taskOf[q])
      BY <1>0, <1>2 DEF TypeOK, CancelTasks
    <3>1. CASE p \in Runner
      BY <1>0, <3>0, <3>1, Told DEF ToRunnerType
    <3>2. CASE p \notin Runner
      BY <1>0, <3>0, <3>2 DEF SendTo, TypeOK, BrokerSays
    <3> QED
      BY <3>1, <3>2
  <2>3. /\ tasks' \subseteq Offer /\ taskTimer' \subseteq Offer
        /\ call' \in [Request -> {"none", "waiting", "running", "done"}]
        /\ taskOf' \in [Request -> {0} \cup Offer]
    BY <1>0, <1>2, AnswerTypes DEF CancelTasks
  <2> QED
    BY <1>0, <1>2, <2>1, <2>2, <2>3 DEF CancelTasks, TypeOK, BrokerSays, Typing
<1>3. ASSUME NEW q \in Request, RequestTimeout(q) PROVE Typing'
  <2>1. OffersAreNumbered'
    BY <1>0, <1>3, NumbersAreKept DEF RequestTimeout
  <2>2. RemoveFirst(pendingTaskRequests, q) \in Seq(Request)
    BY <1>0, Removed DEF TypeOK
  <2> QED
    BY <1>0, <1>3, <2>1, <2>2 DEF RequestTimeout, TypeOK, Typing
<1>4. ASSUME NEW o \in Offer, AcceptTimeout(o) PROVE Typing'
  <2>1. OffersAreNumbered'
    BY <1>0, <1>4, NumbersAreKept DEF AcceptTimeout
  <2> QED
    BY <1>0, <1>4, <2>1 DEF AcceptTimeout, NotAccepted, TypeOK, Typing
<1>5. ASSUME NEW o \in Offer, TaskTimeout(o) PROVE Typing'
  <2>1. OffersAreNumbered'
    BY <1>0, <1>5, NumbersAreKept DEF TaskTimeout
  <2>2. /\ tasks' \subseteq Offer /\ taskTimer' \subseteq Offer
        /\ call' \in [Request -> {"none", "waiting", "running", "done"}]
        /\ taskOf' \in [Request -> {0} \cup Offer]
    BY <1>0, <1>5, AnswerTypes DEF TaskTimeout
  <2>3. CASE mode = "internal"
    <3>1. Kill({r \in Runner : connection[r] = "open"})
      BY <1>5, <2>3 DEF TaskTimeout
    <3>2. /\ connection' \in [Runner -> {"open", "closed"}]
          /\ canSendOffers' \subseteq Runner /\ openOffers' \subseteq Offer
          /\ status' \in [Offer -> {"none", "waitingForSettings", "running",
                                     "aborting:cancelled", "aborting:timeout"}]
          /\ toRunner' \in [Runner -> Seq(BrokerSays)]
      BY <1>0, <3>1, KillTypes
    <3> QED
      BY <1>0, <1>5, <2>1, <2>2, <3>2 DEF TaskTimeout, TypeOK, BrokerSays, Typing
  <2>4. CASE mode # "internal"
    <3>1. toRunner' \in [Runner -> Seq(BrokerSays)]
      <4>1. SendTo(offeredBy[o], "cancel", o)
        BY <1>5, <2>4 DEF TaskTimeout
      <4>2. CASE offeredBy[o] \in Runner
        BY <1>0, <4>1, <4>2, Told DEF ToRunnerType
      <4>3. CASE offeredBy[o] \notin Runner
        BY <1>0, <4>1, <4>3 DEF SendTo, TypeOK, BrokerSays
      <4> QED
        BY <4>2, <4>3
    <3> QED
      BY <1>0, <1>5, <2>1, <2>2, <2>4, <3>1 DEF TaskTimeout, TypeOK, BrokerSays, Typing
  <2> QED
    BY <2>3, <2>4
<1>6. ASSUME StartDraining PROVE Typing'
  <2>1. OffersAreNumbered'
    BY <1>0, <1>6, NumbersAreKept DEF StartDraining
  <2>2. \A r \in Runner : Deliver(r, <<Message("drain", 0)>>) \in Seq(BrokerSays)
    <3>1. Message("drain", 0) \in BrokerSays
      BY MessageType DEF ToRunnerType
    <3>2. <<Message("drain", 0)>> \in Seq(BrokerSays)
      BY <3>1, OneMessage
    <3> QED
      BY <1>0, <3>2, Delivered
  <2> QED
    BY <1>0, <1>6, <2>1, <2>2 DEF StartDraining, TypeOK, BrokerSays, Typing
<1>7. ASSUME NEW r \in Runner, Connect(r) PROVE Typing'
  <2>1. OffersAreNumbered'
    BY <1>0, <1>7, NumbersAreKept DEF Connect
  <2>2. <<Message("registered", 0)>> \in Seq(BrokerSays)
    BY MessageType, OneMessage DEF ToRunnerType
  <2> QED
    BY <1>0, <1>7, <2>1, <2>2 DEF Connect, TypeOK, BrokerSays, Typing
<1>8. ASSUME NEW r \in Runner, DeregisterRunner(r) PROVE Typing'
  <2>1. OffersAreNumbered'
    BY <1>0, <1>8, NumbersAreKept DEF DeregisterRunner
  <2>2. /\ tasks' \subseteq Offer /\ taskTimer' \subseteq Offer
        /\ call' \in [Request -> {"none", "waiting", "running", "done"}]
        /\ taskOf' \in [Request -> {0} \cup Offer]
    BY <1>0, <1>8, AnswerTypes DEF DeregisterRunner
  <2>3. pendingTaskOffers' \in Seq(Offer)
    BY <1>0, <1>8, KeptFacts DEF DeregisterRunner, TypeOK
  <2>4. toBroker' \in [Runner -> Seq(RunnerSays)]
    <3>1. toBroker \in [Runner -> Seq(RunnerSays)] /\ toBroker' = [toBroker EXCEPT ![r] = <<>>]
      BY <1>0, <1>8 DEF DeregisterRunner, TypeOK, RunnerSays
    <3> QED
      BY <3>1, EmptySeq
  <2> QED
    BY <1>0, <1>8, <2>1, <2>2, <2>3, <2>4 DEF DeregisterRunner, TypeOK, RunnerSays, Typing
<1>9. ASSUME NEW r \in Runner, NEW o \in Offer, TaskOffered(r, o) PROVE Typing'
  <2>1. OffersAreNumbered'
    BY <1>0, <1>9, NumbersAreKept DEF TaskOffered
  <2>2. /\ Append(pendingTaskOffers, o) \in Seq(Offer)
        /\ pendingTaskRequests \in Seq(Request)
        /\ SettleTasks(pendingTaskRequests, Append(pendingTaskOffers, o))
    BY <1>0, <1>9, Appended DEF TaskOffered, TypeOK
  <2>3. /\ pendingTaskOffers' \in Seq(Offer) /\ pendingTaskRequests' \in Seq(Request)
        /\ acceptInProgress' \subseteq Request /\ awaited' \subseteq Offer
        /\ requestOf' \in [Offer -> {"none"} \cup Request]
        /\ toRunner' \in [Runner -> Seq(BrokerSays)]
        /\ \A x \in awaited' : requestOf'[x] \in Request
    BY <2>2, SettleTypes
  <2>4. toBroker' \in [Runner -> Seq(RunnerSays)]
    BY <1>0, <1>9, ReceivesFacts DEF TaskOffered
  <2> QED
    BY <1>0, <1>9, <2>1, <2>3, <2>4 DEF TaskOffered, TypeOK, BrokerSays, RunnerSays, Typing
<1>10. ASSUME NEW r \in Runner, NEW o \in Offer, HandleRunnerAccept(r, o) PROVE Typing'
  <2>1. OffersAreNumbered'
    BY <1>0, <1>10, NumbersAreKept DEF HandleRunnerAccept
  <2>2. toBroker' \in [Runner -> Seq(RunnerSays)]
    BY <1>0, <1>10, ReceivesFacts DEF HandleRunnerAccept
  <2>3. CASE o \notin awaited
    BY <1>0, <1>10, <2>1, <2>2, <2>3 DEF HandleRunnerAccept, TypeOK, RunnerSays, Typing
  <2>4. CASE o \in awaited
    <3> DEFINE q == requestOf[o]
               pending == q \in Range(pendingTaskRequests)
               wanted == pending /\ call[q] = "waiting"
    <3>1. /\ RemoveFirst(pendingTaskRequests, q) \in Seq(Request)
          /\ q \in Request
      BY <1>0, <2>4, Removed DEF TypeOK
    <3>2. toRunner' \in [Runner -> Seq(BrokerSays)]
      <4>1. CASE pending
        <5>1. SendTo(r, IF wanted THEN "settings" ELSE "cancel", o)
          BY <1>10, <2>4, <4>1 DEF HandleRunnerAccept
        <5>2. (IF wanted THEN "settings" ELSE "cancel") \in ToRunnerType
          BY DEF ToRunnerType
        <5> QED
          BY <1>0, <5>1, <5>2, Told
      <4>2. CASE ~pending
        BY <1>0, <1>10, <2>4, <4>2 DEF HandleRunnerAccept, TypeOK, BrokerSays
      <4> QED
        BY <4>1, <4>2
    <3>3. /\ awaited' = awaited \ {o}
          /\ requestTimer' = requestTimer \ {q}
          /\ pendingTaskRequests' = RemoveFirst(pendingTaskRequests, q)
          /\ tasks' \in SUBSET (tasks \cup {o})
          /\ taskTimer' \in SUBSET (taskTimer \cup {o})
          /\ call' \in {[call EXCEPT ![q] = "running"], call}
          /\ taskOf' \in {[taskOf EXCEPT ![q] = o], taskOf}
          /\ UNCHANGED <<knownRunners, pendingTaskOffers, acceptInProgress, requestOf, runners, modes>>
      BY <1>10, <2>4 DEF HandleRunnerAccept
    <3> HIDE DEF q, pending, wanted
    <3>8. /\ call' = [call EXCEPT ![q] = "running"] \/ call' = call
          /\ taskOf' = [taskOf EXCEPT ![q] = o] \/ taskOf' = taskOf
      BY <3>3
    <3>4. /\ call' \in [Request -> {"none", "waiting", "running", "done"}]
          /\ taskOf' \in [Request -> {0} \cup Offer]
      <4>1. /\ call \in [Request -> {"none", "waiting", "running", "done"}]
            /\ taskOf \in [Request -> {0} \cup Offer]
        BY <1>0 DEF TypeOK
      <4>2. call' \in [Request -> {"none", "waiting", "running", "done"}]
        BY <3>8, <4>1
      <4>3. taskOf' \in [Request -> {0} \cup Offer]
        BY <3>8, <4>1
      <4> QED
        BY <4>2, <4>3
    <3>5. tasks' \subseteq Offer /\ taskTimer' \subseteq Offer /\ awaited' \subseteq awaited
          /\ pendingTaskRequests' \in Seq(Request) /\ requestTimer' \subseteq requestTimer
      BY <1>0, <3>1, <3>3 DEF TypeOK
    <3>6. UNCHANGED <<knownRunners, pendingTaskOffers, acceptInProgress, requestOf, runners, modes>>
      BY <3>3
    <3>7. TypeOK'
      BY <1>0, <2>2, <3>2, <3>4, <3>5, <3>6 DEF TypeOK, BrokerSays, RunnerSays
    <3> QED
      BY <1>0, <2>1, <3>5, <3>6, <3>7 DEF Typing
  <2> QED
    BY <2>3, <2>4
<1>11. ASSUME NEW r \in Runner, NEW o \in Offer, HandleRunnerReject(r, o) PROVE Typing'
  <2>1. OffersAreNumbered'
    BY <1>0, <1>11, NumbersAreKept DEF HandleRunnerReject
  <2>2. toBroker' \in [Runner -> Seq(RunnerSays)]
    BY <1>0, <1>11, ReceivesFacts DEF HandleRunnerReject
  <2> QED
    BY <1>0, <1>11, <2>1, <2>2 DEF HandleRunnerReject, NotAccepted, TypeOK, RunnerSays, Typing
<1>12. ASSUME NEW r \in Runner, NEW o \in Offer, HandleRunnerDeferred(r, o) PROVE Typing'
  <2>1. OffersAreNumbered'
    BY <1>0, <1>12, NumbersAreKept DEF HandleRunnerDeferred
  <2>2. toBroker' \in [Runner -> Seq(RunnerSays)]
    BY <1>0, <1>12, ReceivesFacts DEF HandleRunnerDeferred
  <2>3. o \in awaited =>
            requestOf[o] \in Request /\ Append(pendingTaskRequests, requestOf[o]) \in Seq(Request)
    BY <1>0, Appended DEF TypeOK
  <2> QED
    BY <1>0, <1>12, <2>1, <2>2, <2>3 DEF HandleRunnerDeferred, NotAccepted, TypeOK, RunnerSays, Typing
<1>13. ASSUME NEW r \in Runner, NEW o \in Offer, HandleResult(r, o) PROVE Typing'
  <2>1. OffersAreNumbered'
    BY <1>0, <1>13, NumbersAreKept DEF HandleResult
  <2>2. toBroker' \in [Runner -> Seq(RunnerSays)]
    BY <1>0, <1>13, ReceivesFacts DEF HandleResult
  <2>3. /\ tasks' \subseteq Offer /\ taskTimer' \subseteq Offer
        /\ call' \in [Request -> {"none", "waiting", "running", "done"}]
        /\ taskOf' \in [Request -> {0} \cup Offer]
    BY <1>0, <1>13, AnswerTypes DEF HandleResult
  <2> QED
    BY <1>0, <1>13, <2>1, <2>2, <2>3 DEF HandleResult, TypeOK, RunnerSays, Typing
<1> QED
  BY <1>1, <1>2, <1>3, <1>4, <1>5, <1>6, <1>7, <1>8, <1>9, <1>10, <1>11, <1>12, <1>13
     DEF BrokerMessage

\* The runners' operations keep the types.
LEMMA RunnerTypes ==
    ASSUME Typing,
           \E r \in Runner : \/ RunnerExits(r) \/ OfferInterval(r) \/ LauncherOffers(r)
                             \/ RunnerMessage(r)
                             \/ \E o \in Offer : RunnerTimeout(r, o) \/ ExecutionEnds(r, o)
    PROVE  Typing'
<1>0. /\ TypeOK /\ OffersAreNumbered
      /\ \A o \in awaited : requestOf[o] \in Request
  BY DEF Typing
<1> USE DEF matching, handed, runners, modes
<1> DEFINE States == {"none", "waitingForSettings", "running", "aborting:cancelled",
                      "aborting:timeout"}
<1>20. /\ \A r : Running(r) \subseteq Offer
       /\ {} \subseteq Offer /\ <<>> \in Seq(RunnerSays)
       /\ status \in [Offer -> States]
  BY <1>0, EmptySeq DEF Running, Sent, TypeOK
<1>21. \A o \in Offer, type \in ToBrokerType : <<Message(type, o)>> \in Seq(RunnerSays)
  BY MessageType, OneMessage
<1>1. ASSUME NEW r \in Runner, RunnerExits(r) PROVE Typing'
  <2>1. OffersAreNumbered'
    BY <1>0, <1>1, NumbersAreKept DEF RunnerExits
  <2>2. /\ connection' \in [Runner -> {"open", "closed"}]
        /\ canSendOffers' \subseteq Runner /\ openOffers' \subseteq Offer
        /\ status' \in [Offer -> States]
        /\ toRunner' \in [Runner -> Seq(BrokerSays)]
    BY <1>0, <1>1, KillTypes DEF RunnerExits
  <2> QED
    BY <1>0, <1>1, <2>1, <2>2 DEF RunnerExits, TypeOK, BrokerSays, Typing
<1>2. ASSUME NEW r \in Runner, OfferInterval(r) \/ LauncherOffers(r) PROVE Typing'
  <2>1. SendOffers(r, <<>>, Running(r)) \/ SendOffers(r, <<>>, {})
    BY <1>2 DEF OfferInterval, LauncherOffers
  <2>2. /\ openOffers' \subseteq Offer
        /\ offeredBy' \in [Offer -> {"nobody"} \cup Runner]
        /\ toBroker' \in [Runner -> Seq(RunnerSays)]
        /\ OffersAreNumbered'
    BY <1>20, <2>1, OfferTypes
  <2> QED
    BY <1>0, <1>2, <2>2 DEF OfferInterval, LauncherOffers, TypeOK, RunnerSays, Typing
<1>3. ASSUME NEW r \in Runner, RunnerRegistered(r) \/ StopTaskOffers(r) PROVE Typing'
  <2>1. OffersAreNumbered'
    BY <1>0, <1>3, NumbersAreKept DEF RunnerRegistered, StopTaskOffers
  <2>2. toRunner' \in [Runner -> Seq(BrokerSays)]
    BY <1>0, <1>3, GetsFacts DEF RunnerRegistered, StopTaskOffers
  <2> QED
    BY <1>0, <1>3, <2>1, <2>2 DEF RunnerRegistered, StopTaskOffers, TypeOK, BrokerSays, Typing
<1>4. ASSUME NEW r \in Runner, NEW o \in Offer, OfferAccepted(r, o) PROVE Typing'
  <2>1. OffersAreNumbered'
    BY <1>0, <1>4, NumbersAreKept DEF OfferAccepted
  <2>2. toRunner' \in [Runner -> Seq(BrokerSays)]
    BY <1>0, <1>4, GetsFacts DEF OfferAccepted
  <2>3. Reply(r, <<Message("accepted", o)>>) \/ Reply(r, <<Message("rejected", o)>>)
    BY <1>4 DEF OfferAccepted
  <2>4. toBroker' \in [Runner -> Seq(RunnerSays)]
    BY <1>0, <1>21, <2>3, Replied DEF ToBrokerType
  <2>5. status' \in [Offer -> States]
    BY <1>20, <1>4 DEF OfferAccepted
  <2> QED
    BY <1>0, <1>4, <2>1, <2>2, <2>4, <2>5
       DEF OfferAccepted, TypeOK, BrokerSays, RunnerSays, Typing
<1>5. ASSUME NEW r \in Runner, NEW o \in Offer, LauncherDefers(r, o) PROVE Typing'
  <2>1. OffersAreNumbered'
    BY <1>0, <1>5, NumbersAreKept DEF LauncherDefers
  <2>2. toRunner' \in [Runner -> Seq(BrokerSays)]
    BY <1>0, <1>5, GetsFacts DEF LauncherDefers
  <2>3. toBroker' \in [Runner -> Seq(RunnerSays)]
    BY <1>0, <1>5, <1>21, Replied DEF ToBrokerType, LauncherDefers
  <2> QED
    BY <1>0, <1>5, <2>1, <2>2, <2>3 DEF LauncherDefers, TypeOK, BrokerSays, RunnerSays, Typing
<1>6. ASSUME NEW r \in Runner, NEW o \in Offer, ReceivedSettings(r, o) PROVE Typing'
  <2>1. OffersAreNumbered'
    BY <1>0, <1>6, NumbersAreKept DEF ReceivedSettings
  <2>2. toRunner' \in [Runner -> Seq(BrokerSays)]
    BY <1>0, <1>6, GetsFacts DEF ReceivedSettings
  <2>3. status' \in [Offer -> States]
    BY <1>20, <1>6 DEF ReceivedSettings
  <2>4. executed' \in [Request -> SUBSET Offer]
    <3> DEFINE q == requestOf[o]
    <3>1. \/ executed' = [executed EXCEPT ![q] = executed[q] \cup {o}]
          \/ executed' = executed
      BY <1>6 DEF ReceivedSettings
    <3>2. executed \in [Request -> SUBSET Offer]
      BY <1>0 DEF TypeOK
    <3> HIDE DEF q
    <3>3. CASE executed' = [executed EXCEPT ![q] = executed[q] \cup {o}]
      <4>1. /\ executed' = [p \in Request |-> executed'[p]]
            /\ \A p \in Request : executed'[p] \subseteq executed[p] \cup {o}
        BY <3>2, <3>3
      <4> QED
        BY <3>2, <4>1
    <3> QED
      BY <3>1, <3>2, <3>3
  <2> QED
    BY <1>0, <1>6, <2>1, <2>2, <2>3, <2>4 DEF ReceivedSettings, TypeOK, BrokerSays, Typing
<1>7. ASSUME NEW r \in Runner, NEW o \in Offer,
             TaskCancelled(r, o) \/ RunnerTimeout(r, o) \/ ExecutionEnds(r, o)
      PROVE  Typing'
  <2>1. \/ offeredBy' = offeredBy /\ openOffers' = openOffers /\ toBroker' = toBroker
        \/ \E said \in {<<>>, <<Message("result", o)>>} : SendOffers(r, said, Running(r) \ {o})
    BY <1>7 DEF TaskCancelled, RunnerTimeout, ExecutionEnds, FinishTask
  <2>2. /\ openOffers' \subseteq Offer
        /\ offeredBy' \in [Offer -> {"nobody"} \cup Runner]
        /\ toBroker' \in [Runner -> Seq(RunnerSays)]
        /\ OffersAreNumbered'
    <3>1. CASE offeredBy' = offeredBy /\ openOffers' = openOffers /\ toBroker' = toBroker
      BY <1>0, <3>1, NumbersAreKept DEF TypeOK, RunnerSays
    <3>2. ASSUME NEW said \in {<<>>, <<Message("result", o)>>},
                 SendOffers(r, said, Running(r) \ {o})
          PROVE  <2>2!:
      <4>1. said \in Seq(RunnerSays) /\ Running(r) \ {o} \in SUBSET Offer
        BY <1>20, <1>21 DEF ToBrokerType
      <4> QED
        BY <3>2, <4>1, OfferTypes
    <3> QED
      BY <2>1, <3>1, <3>2
  <2>3. /\ toRunner' \in [Runner -> Seq(BrokerSays)]
        /\ status' \in [Offer -> States]
    <3>1. TaskCancelled(r, o) => toRunner' \in [Runner -> Seq(BrokerSays)]
      BY <1>0, GetsFacts DEF TaskCancelled
    <3>2. ~TaskCancelled(r, o) => toRunner' \in [Runner -> Seq(BrokerSays)]
      BY <1>0, <1>7 DEF RunnerTimeout, ExecutionEnds, TypeOK, BrokerSays
    <3>3. status' \in [Offer -> States]
      BY <1>20, <1>7 DEF TaskCancelled, RunnerTimeout, ExecutionEnds, FinishTask
    <3> QED
      BY <3>1, <3>2, <3>3
  <2>4. UNCHANGED <<matching, handed, connection, canSendOffers, executed, modes>>
    BY <1>7 DEF TaskCancelled, RunnerTimeout, ExecutionEnds
  <2> QED
    BY <1>0, <2>2, <2>3, <2>4 DEF TypeOK, BrokerSays, RunnerSays, Typing
<1> QED
  BY <1>1, <1>2, <1>3, <1>4, <1>5, <1>6, <1>7 DEF RunnerMessage

\* Types hold in every state.
LEMMA InitTyping == Init => Typing
<1> SUFFICES ASSUME Init PROVE Typing
  OBVIOUS
<1>1. Sent = {} /\ MaxOffers \in Nat
  BY BrokerAssumption DEF Init, Sent
<1>2. 0 \in 0 .. MaxOffers /\ 1 .. 0 = {}
  BY <1>1
<1>3. OffersAreNumbered
  BY <1>1, <1>2 DEF OffersAreNumbered
<1>4. TypeOK
  BY EmptySeq DEF Init, TypeOK
<1> QED
  BY <1>3, <1>4 DEF Init, Typing

\* No handler of the broker, the requester or a runner leaves the types.
LEMMA NextTyping == Typing /\ [Next]_vars => Typing'
<1> SUFFICES ASSUME Typing, [Next]_vars PROVE Typing'
  OBVIOUS
<1>1. CASE Next
  BY <1>1, BrokerTypes, RunnerTypes DEF Next
<1>2. CASE UNCHANGED vars
  BY <1>2 DEF vars, matching, handed, runners, modes, Typing, TypeOK, OffersAreNumbered, Sent
<1> QED
  BY <1>1, <1>2

\* The variables of broker, requester and runners keep their types; in particular a deferral
\* lists a request again, and never something else.
THEOREM TypeCorrect == Spec => []TypeOK
<1>1. Typing => TypeOK
  BY DEF Typing
<1> QED
  BY <1>1, InitTyping, NextTyping, PTL DEF Spec

----------------------------------------------------------------------------
(* Whose offers and tasks are listed.                                      *)

\* What a runner says, and what it is told about an offer or task, is about its own; only
\* a known runner is heard; and the broker lists offers and tasks of known runners.
Owned ==
    /\ \A r \in Runner : \A m \in Range(toBroker[r]) : m.task \in Offer /\ offeredBy[m.task] = r
    /\ \A r \in Runner : \A m \in Range(toRunner[r]) :
            m.type \in {"accept", "settings", "cancel"} =>
                m.task \in Offer /\ offeredBy[m.task] = r
    /\ \A r \in Runner : toBroker[r] # <<>> => r \in knownRunners
    /\ \A o \in Range(pendingTaskOffers) : offeredBy[o] \in knownRunners
    /\ \A o \in tasks : offeredBy[o] \in knownRunners
    /\ openOffers \subseteq Sent
    /\ \A o \in Offer : status[o] # "none" => o \in Sent

\* No offer is twice in a queue.
OffersOnce(s) == \A i, j \in DOMAIN s : s[i].type = "offer" /\ s[j] = s[i] => j = i

\* An offer is matched with a request once: it reaches the broker once, and is listed only
\* until it is matched.
MatchedOnce ==
    /\ IsInjective(pendingTaskOffers)
    /\ \A o \in Range(pendingTaskOffers) : requestOf[o] = "none"
    /\ \A o \in Offer : requestOf[o] # "none" => o \in Sent
    /\ \A r \in Runner : \A m \in Range(toBroker[r]) : m.type = "offer" =>
            requestOf[m.task] = "none" /\ m.task \notin Range(pendingTaskOffers)
    /\ \A r \in Runner : OffersOnce(toBroker[r])
    /\ \A o \in tasks : requestOf[o] \in Request

\* A task is handed to its runner when its settings are sent.
Handed(o) ==
    \/ \E r \in Runner : Message("settings", o) \in Range(toRunner[r])
    \/ \E q \in Request : o \in executed[q]

\* A call that has a task handed over has left the queue for good, and has no other.
HandedOnce ==
    /\ \A o \in Offer : Handed(o) =>
            requestOf[o] \in Request /\ call[requestOf[o]] \in {"running", "done"}
    /\ \A o, p \in Offer : Handed(o) /\ Handed(p) /\ requestOf[o] = requestOf[p] => o = p
    /\ \A q \in Request : \A o \in executed[q] : requestOf[o] = q

\* There is a call that waits for the result of the task.
Awaits(o) ==
    requestOf[o] \in Request /\ call[requestOf[o]] = "running" /\ taskOf[requestOf[o]] = o

\* A runner accepts an offer once, and says nothing of a task after its result.
AcceptedOnce ==
    /\ \A o \in openOffers : status[o] = "none"
    /\ \A r \in Runner : \A m \in Range(toBroker[r]) :
            /\ m.type \in {"accepted", "result"} => m.task \notin openOffers
            /\ m.type = "result" => status[m.task] = "none"
    /\ \A r \in Runner : \A m \in Range(toRunner[r]) :
            m.type = "settings" => m.task \notin openOffers
    /\ \A r \in Runner : connection[r] = "closed" =>
            toRunner[r] = <<>> /\ \A o \in Offer : offeredBy[o] = r => status[o] = "none"

\* Settings under way to a task that waits for them are for a call that waits for the task,
\* unless its cancellation is under way behind them or the runner is about to be cut off.
SettingsAreWanted ==
    \A r \in Runner : \A i \in DOMAIN toRunner[r] :
        toRunner[r][i].type = "settings" /\ status[toRunner[r][i].task] = "waitingForSettings" =>
            \/ Awaits(toRunner[r][i].task)
            \/ \E j \in DOMAIN toRunner[r] :
                    i < j /\ toRunner[r][j] = Message("cancel", toRunner[r][i].task)
            \/ r \notin knownRunners

\* So is code that runs: RunningIsWanted, and the offer was matched.
RunningIsAwaited ==
    \A o \in Sent :
        status[o] = "running" =>
            \/ Awaits(o)
            \/ \E i \in DOMAIN toRunner[offeredBy[o]] :
                    toRunner[offeredBy[o]][i] = Message("cancel", o)
            \/ offeredBy[o] \notin knownRunners

\* settleTasks() tells runners of their own offers only.
LEMMA SettleMessages ==
    ASSUME TypeOK, NEW requests \in Seq(Request), NEW offers \in Seq(Offer),
           SettleTasks(requests, offers)
    PROVE  /\ \A r \in Runner : \A m \in Range(toRunner'[r]) :
                \/ m \in Range(toRunner[r])
                \/ m.type = "accept" /\ m.task \in Offer /\ offeredBy[m.task] = r
           /\ Range(pendingTaskOffers') \subseteq Range(offers)
<1>0. PICK matched \in SUBSET Range(offers) : Settled(requests, offers, matched)
  BY SettleFacts
<1>1. /\ Range(pendingTaskOffers') \subseteq Range(offers)
      /\ matched \subseteq Offer
      /\ \A r \in Runner : Adds(toRunner[r], toRunner'[r],
                                {Message("accept", o) : o \in {x \in matched : offeredBy[x] = r}})
  BY <1>0 DEF Settled
<1>2. ASSUME NEW r \in Runner, NEW m \in Range(toRunner'[r]), m \notin Range(toRunner[r])
      PROVE  m.type = "accept" /\ m.task \in Offer /\ offeredBy[m.task] = r
  <2> DEFINE T == {Message("accept", o) : o \in {x \in matched : offeredBy[x] = r}}
  <2>1. T \subseteq BrokerSays
    <3>1. ASSUME NEW o \in Offer
          PROVE  Message("accept", o) \in BrokerSays
      <4>1. "accept" \in ToRunnerType
        BY DEF ToRunnerType
      <4> QED
        BY <4>1, MessageType
    <3>2. \A t \in T : \E o \in Offer : t = Message("accept", o)
      BY <1>1
    <3> HIDE DEF T
    <3> QED
      BY <3>1, <3>2
  <2>2. toRunner[r] \in Seq(BrokerSays) /\ Adds(toRunner[r], toRunner'[r], T)
    BY <1>1 DEF TypeOK, BrokerSays
  <2> HIDE DEF T
  <2>3. m \in T
    BY <1>2, <2>1, <2>2, AddsFacts
  <2> QED
    BY <1>1, <2>3 DEF T, Message
<1> QED
  BY <1>1, <1>2

\* SendTo() adds one message, to one queue.
LEMMA ToldMessages ==
    ASSUME TypeOK, NEW r \in Runner, NEW type \in ToRunnerType, NEW o \in {0} \cup Offer,
           SendTo(r, type, o)
    PROVE  \A p \in Runner : \A m \in Range(toRunner'[p]) :
                \/ m \in Range(toRunner[p])
                \/ p = r /\ m = Message(type, o)
<1>1. /\ \A p \in Runner : Adds(toRunner[p], toRunner'[p], {Message(type, o)})
      /\ \A p \in Runner \ {r} : toRunner'[p] = toRunner[p]
  BY Told
<1>2. {Message(type, o)} \subseteq BrokerSays
  BY MessageType
<1>3. \A p \in Runner : toRunner[p] \in Seq(BrokerSays)
  BY DEF TypeOK, BrokerSays
<1>4. \A p \in Runner : Range(toRunner'[p]) \subseteq Range(toRunner[p]) \cup {Message(type, o)}
  <2> DEFINE T == {Message(type, o)}
  <2>1. T \subseteq BrokerSays /\ \A p \in Runner : Adds(toRunner[p], toRunner'[p], T)
    BY <1>1, <1>2
  <2> HIDE DEF T
  <2>2. \A p \in Runner : Range(toRunner'[p]) \subseteq Range(toRunner[p]) \cup T
    BY <1>3, <2>1, AddsFacts
  <2> QED
    BY <2>2 DEF T
<1>5. ASSUME NEW p \in Runner, NEW m \in Range(toRunner'[p]), m \notin Range(toRunner[p])
      PROVE  p = r /\ m = Message(type, o)
  BY <1>1, <1>4, <1>5
<1> QED
  BY <1>5

\* Reply() adds messages of a set, to one queue, and only if the broker listens.
LEMMA RepliedMessages ==
    ASSUME TypeOK, NEW r \in Runner, NEW T, T \subseteq RunnerSays, NEW said \in Seq(T),
           Reply(r, said)
    PROVE  /\ \A p \in Runner : \A m \in Range(toBroker'[p]) :
                \/ m \in Range(toBroker[p])
                \/ p = r /\ m \in T
           /\ \A p \in Runner : toBroker'[p] # <<>> => toBroker[p] # <<>> \/ p \in knownRunners
<1>1. /\ \A p \in Runner \ {r} : toBroker'[p] = toBroker[p]
      /\ Adds(toBroker[r], toBroker'[r], T)
      /\ r \notin knownRunners => toBroker' = toBroker
  BY Replied
<1>2. toBroker[r] \in Seq(RunnerSays)
  BY DEF TypeOK, RunnerSays
<1>3. Range(toBroker'[r]) \subseteq Range(toBroker[r]) \cup T
  BY <1>1, <1>2, AddsFacts
<1> QED
  BY <1>1, <1>3

\* What sendOffers() adds, after what it is told to say: offers of its own, made now.
LEMMA OfferMessages ==
    ASSUME Typing, NEW r \in Runner, NEW S \in SUBSET RunnerSays, NEW said \in Seq(S),
           NEW left \in SUBSET Offer, SendOffers(r, said, left)
    PROVE  /\ \A o \in Sent : offeredBy'[o] = offeredBy[o]
           /\ Sent \subseteq Sent'
           /\ openOffers' \subseteq openOffers \cup (Sent' \ Sent)
           /\ \A p \in Runner : \A m \in Range(toBroker'[p]) :
                \/ m \in Range(toBroker[p])
                \/ p = r /\ m \in S
                \/ /\ p = r /\ m.type = "offer" /\ m.task \in Offer
                   /\ m.task \in Sent' \ Sent /\ offeredBy'[m.task] = r
           /\ \A p \in Runner : toBroker'[p] # <<>> => toBroker[p] # <<>> \/ p \in knownRunners
<1>0. TypeOK /\ OffersAreNumbered
  BY DEF Typing
<1>1. PICK new \in SUBSET Offer : \E offers \in Seq({Message("offer", o) : o \in new}) :
            /\ new \cap Sent = {}
            /\ offeredBy' = [o \in Offer |-> IF o \in new THEN r ELSE offeredBy[o]]
            /\ openOffers' \subseteq openOffers \cup new
            /\ Reply(r, said \o offers)
  BY <1>0, SendOffersFacts
<1> DEFINE O == {Message("offer", o) : o \in new}
           T == S \cup O
<1>2. PICK offers \in Seq(O) : Reply(r, said \o offers)
  BY <1>1
<1>3. O \subseteq RunnerSays
  BY MessageType DEF ToBrokerType
<1> HIDE DEF O
<1>4. said \o offers \in Seq(T) /\ T \subseteq RunnerSays
  <2>1. said \in Seq(T) /\ offers \in Seq(T)
    BY SeqMonotonic
  <2> QED
    BY <1>3, <2>1, ConcatProperties
<1> HIDE DEF T
<1>5. /\ \A p \in Runner : \A m \in Range(toBroker'[p]) :
                \/ m \in Range(toBroker[p])
                \/ p = r /\ m \in T
      /\ \A p \in Runner : toBroker'[p] # <<>> => toBroker[p] # <<>> \/ p \in knownRunners
  BY <1>0, <1>2, <1>4, RepliedMessages
<1>6. /\ \A o \in Sent : offeredBy'[o] = offeredBy[o]
      /\ Sent \subseteq Sent'
      /\ new \subseteq Sent' \ Sent
      /\ \A o \in new : offeredBy'[o] = r
  BY <1>1, BrokerAssumption DEF Sent
<1>7. \A m \in O : m.type = "offer" /\ m.task \in new
  BY DEF O, Message
<1> QED
  BY <1>1, <1>5, <1>6, <1>7 DEF T

\* What has to be looked at when a step is taken: the new messages, and the lists.
LEMMA OwnedKept ==
    ASSUME Typing, Owned,
           \A o \in Sent : offeredBy'[o] = offeredBy[o],
           \A p \in Runner : \A m \in Range(toBroker'[p]) :
                m \in Range(toBroker[p]) \/ (m.task \in Offer /\ offeredBy'[m.task] = p),
           \A p \in Runner : \A m \in Range(toRunner'[p]) :
                m.type \in {"accept", "settings", "cancel"} =>
                    m \in Range(toRunner[p]) \/ (m.task \in Offer /\ offeredBy'[m.task] = p),
           \A p \in Runner : toBroker'[p] # <<>> => p \in knownRunners',
           \A o \in Range(pendingTaskOffers') : offeredBy'[o] \in knownRunners',
           \A o \in tasks' : offeredBy'[o] \in knownRunners',
           openOffers' \subseteq Sent',
           \A o \in Offer : status'[o] # "none" => o \in Sent'
    PROVE  Owned'
<1>1. \A o \in Offer : offeredBy[o] \in Runner => o \in Sent
  BY BrokerAssumption DEF Sent
<1> QED
  BY <1>1 DEF Owned

\* If nobody offers anything, offers stay whose they are.
LEMMA OffersStay ==
    ASSUME UNCHANGED offeredBy
    PROVE  Sent' = Sent /\ \A o \in Sent : offeredBy'[o] = offeredBy[o]
BY DEF Sent

\* Broker and requester list what is known, and tell runners of their own tasks.
LEMMA BrokerOwned ==
    ASSUME Typing, Owned, CallsAreHeld,
           \/ \E q \in Request : StartTask(q) \/ CancelTasks(q) \/ RequestTimeout(q)
           \/ \E o \in Offer : AcceptTimeout(o) \/ TaskTimeout(o)
           \/ StartDraining
           \/ \E r \in Runner : Connect(r) \/ DeregisterRunner(r) \/ BrokerMessage(r)
    PROVE  Owned'
<1>0. TypeOK /\ pendingTaskOffers \in Seq(Offer) /\ pendingTaskRequests \in Seq(Request)
      /\ knownRunners \subseteq Runner /\ offeredBy \in [Offer -> {"nobody"} \cup Runner]
      /\ tasks \subseteq Offer
  BY DEF Typing, TypeOK
<1> USE DEF matching, handed, runners, modes
<1>1. ASSUME NEW q \in Request, StartTask(q) PROVE Owned'
  <2>0. UNCHANGED <<offeredBy, toBroker, knownRunners, tasks, openOffers, status>>
    BY <1>1 DEF StartTask
  <2>1. CASE isDraining
    <3>1. UNCHANGED <<toRunner, pendingTaskOffers>>
      BY <1>1, <2>1 DEF StartTask
    <3> QED
      BY <2>0, <3>1, OffersStay, OwnedKept DEF Owned
  <2>2. CASE ~isDraining
    <3>1. /\ Append(pendingTaskRequests, q) \in Seq(Request)
          /\ SettleTasks(Append(pendingTaskRequests, q), pendingTaskOffers)
      BY <1>0, <1>1, <2>2, Appended DEF StartTask
    <3>2. /\ \A r \in Runner : \A m \in Range(toRunner'[r]) :
                \/ m \in Range(toRunner[r])
                \/ m.type = "accept" /\ m.task \in Offer /\ offeredBy[m.task] = r
          /\ Range(pendingTaskOffers') \subseteq Range(pendingTaskOffers)
      BY <1>0, <3>1, SettleMessages
    <3> QED
      BY <2>0, <3>2, OffersStay, OwnedKept DEF Owned
  <2> QED
    BY <2>1, <2>2
<1>2. ASSUME NEW q \in Request, CancelTasks(q) PROVE Owned'
  <2> DEFINE o == taskOf[q]
  <2>0. UNCHANGED <<offeredBy, toBroker, knownRunners, openOffers, status, pendingTaskOffers>>
        /\ tasks' \subseteq tasks
    BY <1>2 DEF CancelTasks, Answer
  <2>1. o \in tasks /\ o \in Offer /\ offeredBy[o] \in Runner
    BY <1>0, <1>2 DEF CancelTasks, CallsAreHeld, Owned
  <2>2. SendTo(offeredBy[o], "cancel", o)
    BY <1>2 DEF CancelTasks
  <2> HIDE DEF o
  <2>3. \A p \in Runner : \A m \in Range(toRunner'[p]) :
            \/ m \in Range(toRunner[p])
            \/ p = offeredBy[o] /\ m = Message("cancel", o)
    BY <1>0, <2>1, <2>2, ToldMessages DEF ToRunnerType
  <2>4. Message("cancel", o).task = o
    BY DEF Message
  <2> QED
    BY <2>0, <2>1, <2>3, <2>4, OffersStay, OwnedKept DEF Owned
<1>3. ASSUME NEW q \in Request, RequestTimeout(q) PROVE Owned'
  <2>1. UNCHANGED <<offeredBy, toBroker, toRunner, knownRunners, openOffers, status,
                    pendingTaskOffers, tasks>>
    BY <1>3 DEF RequestTimeout
  <2> QED
    BY <2>1, OffersStay, OwnedKept DEF Owned
<1>4. ASSUME NEW o \in Offer, AcceptTimeout(o) PROVE Owned'
  <2>1. UNCHANGED <<offeredBy, toBroker, toRunner, knownRunners, openOffers, status,
                    pendingTaskOffers, tasks>>
    BY <1>4 DEF AcceptTimeout
  <2> QED
    BY <2>1, OffersStay, OwnedKept DEF Owned
<1>5. ASSUME NEW o \in Offer, TaskTimeout(o) PROVE Owned'
  <2>0. /\ UNCHANGED <<offeredBy, toBroker, knownRunners, pendingTaskOffers>>
        /\ tasks' \subseteq tasks /\ o \in tasks
    BY <1>5 DEF TaskTimeout, Answer
  <2>1. CASE mode = "internal"
    <3>1. Kill({r \in Runner : connection[r] = "open"})
      BY <1>5, <2>1 DEF TaskTimeout
    <3>2. /\ \A p \in Runner : toRunner'[p] = <<>> \/ toRunner'[p] = toRunner[p]
          /\ openOffers' \subseteq openOffers
          /\ \A x \in Offer : status'[x] = "none" \/ status'[x] = status[x]
      BY <3>1 DEF Kill
    <3>3. \A p \in Runner : Range(toRunner'[p]) \subseteq Range(toRunner[p])
      BY <3>2 DEF Range
    <3> QED
      BY <2>0, <3>2, <3>3, OffersStay, OwnedKept DEF Owned
  <2>2. CASE mode # "internal"
    <3>1. SendTo(offeredBy[o], "cancel", o) /\ UNCHANGED <<openOffers, status>>
      BY <1>5, <2>2 DEF TaskTimeout
    <3>2. offeredBy[o] \in Runner
      BY <1>0, <2>0 DEF Owned
    <3>3. \A p \in Runner : \A m \in Range(toRunner'[p]) :
            \/ m \in Range(toRunner[p])
            \/ p = offeredBy[o] /\ m = Message("cancel", o)
      BY <1>0, <3>1, <3>2, ToldMessages DEF ToRunnerType
    <3>4. Message("cancel", o).task = o
      BY DEF Message
    <3> QED
      BY <2>0, <3>1, <3>3, <3>4, OffersStay, OwnedKept DEF Owned
  <2> QED
    BY <2>1, <2>2
<1>6. ASSUME StartDraining PROVE Owned'
  <2>1. UNCHANGED <<offeredBy, toBroker, knownRunners, openOffers, status,
                    pendingTaskOffers, tasks>>
    BY <1>6 DEF StartDraining
  <2>2. ASSUME NEW p \in Runner, NEW m \in Range(toRunner'[p])
        PROVE  m \in Range(toRunner[p]) \/ m.type = "drain"
    <3> DEFINE T == {Message("drain", 0)}
    <3>1. T \subseteq BrokerSays /\ <<Message("drain", 0)>> \in Seq(T)
      BY MessageType DEF ToRunnerType
    <3>2. toRunner'[p] = Deliver(p, <<Message("drain", 0)>>)
      BY <1>6 DEF StartDraining
    <3>3. toRunner[p] \in Seq(BrokerSays)
      BY <1>0 DEF TypeOK, BrokerSays
    <3> HIDE DEF T
    <3>5. Adds(toRunner[p], toRunner'[p], T)
      BY <1>0, <3>1, <3>2, Delivered
    <3>4. Range(toRunner'[p]) \subseteq Range(toRunner[p]) \cup T
      BY <3>1, <3>3, <3>5, AddsFacts
    <3> QED
      BY <2>2, <3>4 DEF T, Message
  <2> QED
    BY <2>1, <2>2, OffersStay, OwnedKept DEF Owned
<1>7. ASSUME NEW r \in Runner, Connect(r) PROVE Owned'
  <2>1. /\ UNCHANGED <<offeredBy, toBroker, openOffers, status, pendingTaskOffers, tasks>>
        /\ knownRunners \subseteq knownRunners'
        /\ toRunner' = [toRunner EXCEPT ![r] = <<Message("registered", 0)>>]
        /\ toRunner \in [Runner -> Seq(BrokerSays)]
    BY <1>0, <1>7 DEF Connect, TypeOK, BrokerSays
  <2>2. \A p \in Runner : \A m \in Range(toRunner'[p]) :
            m \in Range(toRunner[p]) \/ m.type = "registered"
    <3>1. Range(<<Message("registered", 0)>>) = {Message("registered", 0)}
      BY MessageType, OneMessage DEF ToRunnerType
    <3>2. Message("registered", 0).type = "registered"
      BY DEF Message
    <3> QED
      BY <2>1, <3>1, <3>2
  <2> QED
    BY <2>1, <2>2, OffersStay, OwnedKept DEF Owned
<1>8. ASSUME NEW r \in Runner, DeregisterRunner(r) PROVE Owned'
  <2>1. /\ UNCHANGED <<offeredBy, toRunner, openOffers, status>>
        /\ knownRunners' = knownRunners \ {r}
        /\ toBroker' = [toBroker EXCEPT ![r] = <<>>]
        /\ Answer({o \in tasks : offeredBy[o] = r})
        /\ pendingTaskOffers' = Kept(pendingTaskOffers, {o \in Offer : offeredBy[o] # r})
    BY <1>8 DEF DeregisterRunner
  <2>2. \A o \in tasks' : o \in tasks /\ offeredBy[o] # r
    BY <2>1 DEF Answer
  <2>3. \A o \in Range(pendingTaskOffers') : o \in Range(pendingTaskOffers) /\ offeredBy[o] # r
    <3> DEFINE set == {o \in Offer : offeredBy[o] # r}
    <3>1. Range(Kept(pendingTaskOffers, set)) = Range(pendingTaskOffers) \cap set
      BY <1>0, KeptFacts
    <3> QED
      BY <2>1, <3>1
  <2>4. \A p \in Runner : /\ Range(toBroker'[p]) \subseteq Range(toBroker[p])
                          /\ toBroker'[p] # <<>> => p # r /\ toBroker[p] # <<>>
    <3>1. toBroker \in [Runner -> Seq(RunnerSays)]
      BY <1>0 DEF TypeOK, RunnerSays
    <3>2. toBroker'[r] = <<>> /\ \A p \in Runner \ {r} : toBroker'[p] = toBroker[p]
      BY <2>1, <3>1
    <3> QED
      BY <3>2 DEF Range
  <2> QED
    BY <2>1, <2>2, <2>3, <2>4, OffersStay, OwnedKept DEF Owned
<1>9. ASSUME NEW r \in Runner, NEW type, NEW o \in Offer, Receives(r, type, o)
      PROVE  /\ \A p \in Runner : Range(toBroker'[p]) \subseteq Range(toBroker[p])
             /\ \A p \in Runner : toBroker'[p] # <<>> => p \in knownRunners
             /\ r \in knownRunners /\ offeredBy[o] = r
  <2>1. /\ toBroker[r] # <<>>
        /\ \A p \in Runner \ {r} : toBroker'[p] = toBroker[p]
        /\ \A p \in Runner : Range(toBroker'[p]) \subseteq Range(toBroker[p])
        /\ Message(type, o) \in Range(toBroker[r])
    BY <1>0, <1>9, ReceivesFacts
  <2>2. r \in knownRunners /\ offeredBy[o] = r
    BY <2>1 DEF Owned, Message
  <2> QED
    BY <2>1, <2>2 DEF Owned
<1>10. ASSUME NEW r \in Runner, NEW o \in Offer, TaskOffered(r, o) PROVE Owned'
  <2>1. /\ UNCHANGED <<offeredBy, knownRunners, tasks, openOffers, status>>
        /\ Receives(r, "offer", o)
        /\ SettleTasks(pendingTaskRequests, Append(pendingTaskOffers, o))
    BY <1>10 DEF TaskOffered
  <2>2. /\ Append(pendingTaskOffers, o) \in Seq(Offer)
        /\ Range(Append(pendingTaskOffers, o)) = Range(pendingTaskOffers) \cup {o}
    BY <1>0, Appended
  <2>3. /\ \A p \in Runner : \A m \in Range(toRunner'[p]) :
                \/ m \in Range(toRunner[p])
                \/ m.type = "accept" /\ m.task \in Offer /\ offeredBy[m.task] = p
        /\ Range(pendingTaskOffers') \subseteq Range(pendingTaskOffers) \cup {o}
    BY <1>0, <2>1, <2>2, SettleMessages
  <2>4. /\ \A p \in Runner : Range(toBroker'[p]) \subseteq Range(toBroker[p])
        /\ \A p \in Runner : toBroker'[p] # <<>> => p \in knownRunners
        /\ r \in knownRunners /\ offeredBy[o] = r
    BY <1>9, <2>1
  <2> QED
    BY <2>1, <2>3, <2>4, OffersStay, OwnedKept DEF Owned
<1>11. ASSUME NEW r \in Runner, NEW o \in Offer,
              \/ HandleRunnerAccept(r, o) \/ HandleRunnerReject(r, o)
              \/ HandleRunnerDeferred(r, o) \/ HandleResult(r, o)
       PROVE  Owned'
  <2>1. /\ UNCHANGED <<offeredBy, knownRunners, pendingTaskOffers, openOffers, status>>
        /\ \E type : Receives(r, type, o)
        /\ tasks' \subseteq tasks \cup {o}
        /\ toRunner' = toRunner \/ SendTo(r, "settings", o) \/ SendTo(r, "cancel", o)
    BY <1>11 DEF HandleRunnerAccept, HandleRunnerReject, HandleRunnerDeferred, HandleResult, Answer
  <2>2. /\ \A p \in Runner : Range(toBroker'[p]) \subseteq Range(toBroker[p])
        /\ \A p \in Runner : toBroker'[p] # <<>> => p \in knownRunners
        /\ r \in knownRunners /\ offeredBy[o] = r
    BY <1>9, <2>1
  <2>3. \A p \in Runner : \A m \in Range(toRunner'[p]) :
            m \in Range(toRunner[p]) \/ (p = r /\ m.task = o)
    <3>1. ASSUME NEW type \in {"settings", "cancel"}, SendTo(r, type, o)
          PROVE  <2>3!:
      <4>0. type \in ToRunnerType /\ o \in {0} \cup Offer
        BY DEF ToRunnerType
      <4>1. \A p \in Runner : \A m \in Range(toRunner'[p]) :
                m \in Range(toRunner[p]) \/ (p = r /\ m = Message(type, o))
        BY <1>0, <3>1, <4>0, ToldMessages
      <4>2. Message(type, o).task = o
        BY DEF Message
      <4> QED
        BY <4>1, <4>2
    <3> QED
      BY <2>1, <3>1
  <2> QED
    BY <2>1, <2>2, <2>3, OffersStay, OwnedKept DEF Owned
<1> QED
  BY <1>1, <1>2, <1>3, <1>4, <1>5, <1>6, <1>7, <1>8, <1>10, <1>11 DEF BrokerMessage

\* What all steps of runners leave alone.
LEMMA RunnerLeaves ==
    ASSUME NEW r \in Runner,
           \/ RunnerExits(r) \/ OfferInterval(r) \/ LauncherOffers(r) \/ RunnerMessage(r)
           \/ \E o \in Offer : RunnerTimeout(r, o) \/ ExecutionEnds(r, o)
    PROVE  UNCHANGED <<matching, handed, modes>>
BY DEF RunnerExits, OfferInterval, LauncherOffers, RunnerMessage, RunnerTimeout, ExecutionEnds,
       RunnerRegistered, StopTaskOffers, OfferAccepted, LauncherDefers, ReceivedSettings,
       TaskCancelled

\* The steps of runners that say something to the broker, and what they say.
RunnerSpeaks(r, T) ==
    \/ UNCHANGED <<offeredBy, toBroker>> /\ openOffers' \subseteq openOffers
    \/ /\ offeredBy' = offeredBy /\ openOffers' \subseteq openOffers
       /\ \E said \in Seq(T) : Reply(r, said)
    \/ \E said \in Seq(T), left \in SUBSET Offer : SendOffers(r, said, left)

\* So what a runner says is offers, new ones, and messages of the set.
LEMMA RunnerSpoke ==
    ASSUME Typing, NEW r \in Runner, NEW T \in SUBSET RunnerSays, RunnerSpeaks(r, T)
    PROVE  /\ \A o \in Sent : offeredBy'[o] = offeredBy[o]
           /\ Sent \subseteq Sent'
           /\ openOffers' \subseteq openOffers \cup (Sent' \ Sent)
           /\ \A p \in Runner : \A m \in Range(toBroker'[p]) :
                \/ m \in Range(toBroker[p])
                \/ p = r /\ m \in T
                \/ /\ p = r /\ m.type = "offer" /\ m.task \in Offer
                   /\ m.task \in Sent' \ Sent /\ offeredBy'[m.task] = r
           /\ \A p \in Runner : toBroker'[p] # <<>> => toBroker[p] # <<>> \/ p \in knownRunners
<1>0. TypeOK
  BY DEF Typing
<1>1. CASE UNCHANGED <<offeredBy, toBroker>> /\ openOffers' \subseteq openOffers
  BY <1>1, OffersStay
<1>2. CASE /\ offeredBy' = offeredBy /\ openOffers' \subseteq openOffers
           /\ \E said \in Seq(T) : Reply(r, said)
  <2>1. /\ \A p \in Runner : \A m \in Range(toBroker'[p]) :
                m \in Range(toBroker[p]) \/ (p = r /\ m \in T)
        /\ \A p \in Runner : toBroker'[p] # <<>> => toBroker[p] # <<>> \/ p \in knownRunners
    BY <1>0, <1>2, RepliedMessages
  <2> QED
    BY <1>2, <2>1, OffersStay
<1>3. CASE \E said \in Seq(T), left \in SUBSET Offer : SendOffers(r, said, left)
  <2>1. PICK said \in Seq(T), left \in SUBSET Offer : SendOffers(r, said, left)
    BY <1>3
  <2> QED
    BY <2>1, OfferMessages
<1> QED
  BY <1>1, <1>2, <1>3 DEF RunnerSpeaks

\* Runners answer what they were asked, and speak of their own tasks.
LEMMA RunnerOwned ==
    ASSUME Typing, Owned, NEW r \in Runner,
           \/ RunnerExits(r) \/ OfferInterval(r) \/ LauncherOffers(r) \/ RunnerMessage(r)
           \/ \E o \in Offer : RunnerTimeout(r, o) \/ ExecutionEnds(r, o)
    PROVE  Owned'
<1>0. /\ TypeOK /\ UNCHANGED <<knownRunners, pendingTaskOffers, tasks>>
  BY RunnerLeaves DEF Typing, matching, handed
<1>1. CASE RunnerExits(r)
  <2>1. Kill({r}) /\ UNCHANGED <<offeredBy, toBroker>>
    BY <1>1 DEF RunnerExits
  <2>2. /\ \A p \in Runner : toRunner'[p] = <<>> \/ toRunner'[p] = toRunner[p]
        /\ openOffers' \subseteq openOffers
        /\ \A x \in Offer : status'[x] = "none" \/ status'[x] = status[x]
    BY <2>1 DEF Kill
  <2>3. \A p \in Runner : Range(toRunner'[p]) \subseteq Range(toRunner[p])
    BY <2>2 DEF Range
  <2> QED
    BY <1>0, <2>1, <2>2, <2>3, OffersStay, OwnedKept DEF Owned
<1>2. ASSUME NEW type, NEW o, Gets(r, type, o)
      PROVE  /\ \A p \in Runner : Range(toRunner'[p]) \subseteq Range(toRunner[p])
             /\ type \in {"accept", "settings", "cancel"} => o \in Sent /\ offeredBy[o] = r
  <2>1. /\ \A p \in Runner : Range(toRunner'[p]) \subseteq Range(toRunner[p])
        /\ Message(type, o) \in Range(toRunner[r])
    BY <1>0, <1>2, GetsFacts
  <2>2. type \in {"accept", "settings", "cancel"} => o \in Offer /\ offeredBy[o] = r
    BY <2>1 DEF Owned, Message
  <2> QED
    BY <2>1, <2>2, BrokerAssumption DEF Sent
<1>3. ASSUME NEW o \in Sent, offeredBy[o] = r,
             NEW T \in SUBSET RunnerSays, \A m \in T : m.task = o, RunnerSpeaks(r, T),
             \A p \in Runner : Range(toRunner'[p]) \subseteq Range(toRunner[p]),
             \A x \in Offer \ {o} : status'[x] = status[x]
      PROVE  Owned'
  <2>1. /\ \A x \in Sent : offeredBy'[x] = offeredBy[x]
        /\ Sent \subseteq Sent'
        /\ openOffers' \subseteq openOffers \cup (Sent' \ Sent)
        /\ \A p \in Runner : \A m \in Range(toBroker'[p]) :
                \/ m \in Range(toBroker[p])
                \/ p = r /\ m \in T
                \/ /\ p = r /\ m.type = "offer" /\ m.task \in Offer
                   /\ m.task \in Sent' \ Sent /\ offeredBy'[m.task] = r
        /\ \A p \in Runner : toBroker'[p] # <<>> => toBroker[p] # <<>> \/ p \in knownRunners
    BY <1>3, RunnerSpoke
  <2>2. /\ Sent \subseteq Offer /\ knownRunners \subseteq Runner
        /\ Range(pendingTaskOffers) \subseteq Offer /\ tasks \subseteq Offer
    BY <1>0, RangeOfSeq DEF Sent, TypeOK
  <2>3. \A x \in Offer : offeredBy[x] \in Runner => x \in Sent
    BY BrokerAssumption DEF Sent
  <2>4. \A p \in Runner : \A m \in Range(toBroker'[p]) :
            m \in Range(toBroker[p]) \/ (m.task \in Offer /\ offeredBy'[m.task] = p)
    BY <1>3, <2>1, <2>2
  <2>5. /\ \A p \in Runner : toBroker'[p] # <<>> => p \in knownRunners'
        /\ \A x \in Range(pendingTaskOffers') : offeredBy'[x] \in knownRunners'
        /\ \A x \in tasks' : offeredBy'[x] \in knownRunners'
    BY <1>0, <2>1, <2>2, <2>3 DEF Owned
  <2>6. /\ openOffers' \subseteq Sent'
        /\ \A x \in Offer : status'[x] # "none" => x \in Sent'
    BY <1>3, <2>1 DEF Owned
  <2> QED
    BY <1>3, <2>1, <2>4, <2>5, <2>6, OwnedKept
<1>4. ASSUME RunnerSpeaks(r, {}),
             \A p \in Runner : Range(toRunner'[p]) \subseteq Range(toRunner[p]),
             UNCHANGED status
      PROVE  Owned'
  <2>1. /\ \A x \in Sent : offeredBy'[x] = offeredBy[x]
        /\ Sent \subseteq Sent'
        /\ openOffers' \subseteq openOffers \cup (Sent' \ Sent)
        /\ \A p \in Runner : \A m \in Range(toBroker'[p]) :
                \/ m \in Range(toBroker[p])
                \/ m.task \in Offer /\ offeredBy'[m.task] = p
        /\ \A p \in Runner : toBroker'[p] # <<>> => toBroker[p] # <<>> \/ p \in knownRunners
    BY <1>4, RunnerSpoke
  <2>2. /\ knownRunners \subseteq Runner
        /\ Range(pendingTaskOffers) \subseteq Offer /\ tasks \subseteq Offer
    BY <1>0, RangeOfSeq DEF TypeOK
  <2>3. \A x \in Offer : offeredBy[x] \in Runner => x \in Sent
    BY BrokerAssumption DEF Sent
  <2>5. /\ \A p \in Runner : toBroker'[p] # <<>> => p \in knownRunners'
        /\ \A x \in Range(pendingTaskOffers') : offeredBy'[x] \in knownRunners'
        /\ \A x \in tasks' : offeredBy'[x] \in knownRunners'
    BY <1>0, <2>1, <2>2, <2>3 DEF Owned
  <2>6. /\ openOffers' \subseteq Sent'
        /\ \A x \in Offer : status'[x] # "none" => x \in Sent'
    BY <1>4, <2>1 DEF Owned
  <2> QED
    BY <1>4, <2>1, <2>5, <2>6, OwnedKept
<1>5. \A o \in Offer, type \in ToBrokerType :
        /\ {Message(type, o)} \in SUBSET RunnerSays
        /\ \A m \in {Message(type, o)} : m.task = o
        /\ <<Message(type, o)>> \in Seq({Message(type, o)})
        /\ <<>> \in Seq({Message(type, o)})
  <2> TAKE o \in Offer, type \in ToBrokerType
  <2> DEFINE m == Message(type, o)
             T == {m}
  <2>1. m \in RunnerSays /\ m.task = o
    BY MessageType
  <2> HIDE DEF m
  <2>2. T \in SUBSET RunnerSays /\ \A x \in T : x.task = o
    BY <2>1
  <2>3. m \in T
    OBVIOUS
  <2> HIDE DEF T
  <2>4. <<m>> \in Seq(T) /\ <<>> \in Seq(T)
    BY <2>3, OneMessage
  <2> QED
    BY <2>2, <2>4 DEF m, T
<1>6. CASE OfferInterval(r) \/ LauncherOffers(r)
  <2>1. SendOffers(r, <<>>, Running(r)) \/ SendOffers(r, <<>>, {})
    BY <1>6 DEF OfferInterval, LauncherOffers
  <2>2. Running(r) \in SUBSET Offer /\ {} \in SUBSET Offer /\ <<>> \in Seq({})
    BY EmptySeq DEF Running, Sent
  <2>3. RunnerSpeaks(r, {})
    BY <2>1, <2>2 DEF RunnerSpeaks
  <2>4. UNCHANGED <<status, toRunner>>
    BY <1>6 DEF OfferInterval, LauncherOffers
  <2> QED
    BY <1>4, <2>3, <2>4
<1>7. CASE RunnerRegistered(r) \/ StopTaskOffers(r)
  <2>1. UNCHANGED <<offeredBy, openOffers, toBroker, status>>
    BY <1>7 DEF RunnerRegistered, StopTaskOffers
  <2>2. \E type : Gets(r, type, 0)
    BY <1>7 DEF RunnerRegistered, StopTaskOffers
  <2> QED
    BY <1>2, <1>4, <2>1, <2>2 DEF RunnerSpeaks
<1>8. ASSUME NEW o \in Offer, OfferAccepted(r, o) PROVE Owned'
  <2>1. /\ Gets(r, "accept", o)
        /\ UNCHANGED offeredBy /\ openOffers' \subseteq openOffers
        /\ \A x \in Offer \ {o} : status'[x] = status[x]
        /\ Reply(r, <<Message("accepted", o)>>) \/ Reply(r, <<Message("rejected", o)>>)
    BY <1>0, <1>8 DEF OfferAccepted, TypeOK
  <2>2. RunnerSpeaks(r, {Message("accepted", o)}) \/ RunnerSpeaks(r, {Message("rejected", o)})
    BY <1>5, <2>1 DEF RunnerSpeaks, ToBrokerType
  <2>3. o \in Sent /\ offeredBy[o] = r
        /\ \A p \in Runner : Range(toRunner'[p]) \subseteq Range(toRunner[p])
    BY <1>2, <2>1
  <2> QED
    BY <1>3, <1>5, <2>1, <2>2, <2>3 DEF ToBrokerType
<1>9. ASSUME NEW o \in Offer, LauncherDefers(r, o) PROVE Owned'
  <2>1. /\ Gets(r, "accept", o)
        /\ UNCHANGED <<offeredBy, status>> /\ openOffers' \subseteq openOffers
        /\ Reply(r, <<Message("deferred", o)>>)
    BY <1>9 DEF LauncherDefers
  <2>2. RunnerSpeaks(r, {Message("deferred", o)})
    BY <1>5, <2>1 DEF RunnerSpeaks, ToBrokerType
  <2>3. o \in Sent /\ offeredBy[o] = r
        /\ \A p \in Runner : Range(toRunner'[p]) \subseteq Range(toRunner[p])
    BY <1>2, <2>1
  <2> QED
    BY <1>3, <1>5, <2>1, <2>2, <2>3 DEF ToBrokerType
<1>10. ASSUME NEW o \in Offer, ReceivedSettings(r, o) PROVE Owned'
  <2>1. /\ Gets(r, "settings", o)
        /\ UNCHANGED <<offeredBy, openOffers, toBroker>>
        /\ \A x \in Offer \ {o} : status'[x] = status[x]
    BY <1>0, <1>10 DEF ReceivedSettings, TypeOK
  <2>2. RunnerSpeaks(r, {Message("result", o)})
    BY <2>1 DEF RunnerSpeaks
  <2>3. o \in Sent /\ offeredBy[o] = r
        /\ \A p \in Runner : Range(toRunner'[p]) \subseteq Range(toRunner[p])
    BY <1>2, <2>1
  <2> QED
    BY <1>3, <1>5, <2>1, <2>2, <2>3 DEF ToBrokerType
<1>11. ASSUME NEW o \in Offer,
              TaskCancelled(r, o) \/ RunnerTimeout(r, o) \/ ExecutionEnds(r, o)
       PROVE  Owned'
  <2>1. \/ UNCHANGED <<offeredBy, openOffers, toBroker>>
        \/ \E said \in {<<>>, <<Message("result", o)>>} : SendOffers(r, said, Running(r) \ {o})
    BY <1>11 DEF TaskCancelled, RunnerTimeout, ExecutionEnds, FinishTask
  <2>2. RunnerSpeaks(r, {Message("result", o)})
    <3>1. Running(r) \ {o} \in SUBSET Offer
      BY DEF Running, Sent
    <3> QED
      BY <1>5, <2>1, <3>1 DEF RunnerSpeaks, ToBrokerType
  <2>3. /\ o \in Sent /\ offeredBy[o] = r
        /\ \A p \in Runner : Range(toRunner'[p]) \subseteq Range(toRunner[p])
    <3>1. TaskCancelled(r, o) => Gets(r, "cancel", o)
      BY DEF TaskCancelled
    <3>2. ~TaskCancelled(r, o) => o \in Running(r) /\ toRunner' = toRunner
      BY <1>11 DEF RunnerTimeout, ExecutionEnds
    <3> QED
      BY <1>2, <3>1, <3>2 DEF Running
  <2>4. \A x \in Offer \ {o} : status'[x] = status[x]
    BY <1>0, <1>11 DEF TaskCancelled, RunnerTimeout, ExecutionEnds, FinishTask, TypeOK
  <2> QED
    BY <1>3, <1>5, <2>2, <2>3, <2>4 DEF ToBrokerType
<1> QED
  BY <1>1, <1>6, <1>7, <1>8, <1>9, <1>10, <1>11 DEF RunnerMessage

----------------------------------------------------------------------------
(* An offer is matched once, and the calls are held.                       *)

\* settleTasks() matches offers that were not matched, and no longer lists them.
LEMMA SettleMatches ==
    ASSUME TypeOK, NEW requests \in Seq(Request), NEW offers \in Seq(Offer),
           \A o \in Range(offers) : requestOf[o] = "none", IsInjective(offers),
           SettleTasks(requests, offers)
    PROVE  /\ pendingTaskRequests' = requests
           /\ \A o \in Offer : requestOf[o] \in Request => requestOf'[o] = requestOf[o]
           /\ \A o \in Offer : requestOf'[o] # requestOf[o] =>
                    o \in Range(offers) /\ requestOf'[o] \in Request
           /\ IsInjective(pendingTaskOffers')
           /\ \A o \in Range(pendingTaskOffers') : requestOf'[o] = "none"
           /\ Range(pendingTaskOffers') \subseteq Range(offers)
<1>0. PICK matched \in SUBSET Range(offers) : Settled(requests, offers, matched)
  BY SettleFacts
<1>1. /\ pendingTaskRequests' = requests
      /\ Range(pendingTaskOffers') \subseteq Range(offers)
      /\ IsInjective(pendingTaskOffers')
      /\ Range(pendingTaskOffers') \cap matched = {}
      /\ matched \subseteq Offer
      /\ \A o \in matched : requestOf'[o] \in Request
      /\ \A o \in Offer \ matched : requestOf'[o] = requestOf[o]
  BY <1>0 DEF Settled
<1>2. Range(offers) \subseteq Offer /\ "none" \notin Request
  BY BrokerAssumption, RangeOfSeq
<1> QED
  BY <1>1, <1>2

\* Tasks that end release the calls that wait for them, and no others.
LEMMA AnswerHolds ==
    ASSUME TypeOK, CallsAreHeld, NEW ended, Answer(ended),
           UNCHANGED <<pendingTaskRequests, requestTimer, requestOf>>
    PROVE  CallsAreHeld'
<1> SUFFICES ASSUME NEW q \in Request
             PROVE  /\ call'[q] = "waiting" =>
                            q \in Range(pendingTaskRequests') /\ q \in requestTimer'
                    /\ call'[q] = "running" => /\ taskOf'[q] \in tasks' \cap taskTimer'
                                               /\ requestOf'[taskOf'[q]] = q
  BY DEF CallsAreHeld
<1>1. /\ call[q] = "waiting" => q \in Range(pendingTaskRequests) /\ q \in requestTimer
      /\ call[q] = "running" => taskOf[q] \in tasks \cap taskTimer /\ requestOf[taskOf[q]] = q
  BY DEF CallsAreHeld
<1>2. CASE taskOf[q] \in ended \cap tasks
  <2>1. call'[q] = "done"
    BY <1>2 DEF Answer
  <2> QED
    BY <2>1
<1>3. CASE taskOf[q] \notin ended \cap tasks
  <2>1. call'[q] = call[q] /\ taskOf'[q] = taskOf[q]
    BY <1>3 DEF Answer
  <2>2. tasks' = tasks \ ended /\ taskTimer' = taskTimer \ (ended \cap tasks)
    BY DEF Answer
  <2> QED
    BY <1>1, <1>3, <2>1, <2>2
<1> QED
  BY <1>2, <1>3

\* No step forgets a call: what a call waits for is kept until the call is told.
LEMMA CallsStep ==
    ASSUME Typing, MatchedOnce, CallsAreHeld, Next
    PROVE  CallsAreHeld'
<1>0. /\ TypeOK /\ pendingTaskRequests \in Seq(Request) /\ pendingTaskOffers \in Seq(Offer)
      /\ tasks \subseteq Offer
      /\ call \in [Request -> {"none", "waiting", "running", "done"}]
      /\ taskOf \in [Request -> {0} \cup Offer]
      /\ \A o \in awaited : requestOf[o] \in Request
  BY DEF Typing, TypeOK
<1> USE DEF matching, handed, runners, modes
<1>1. ASSUME NEW q \in Request, StartTask(q) PROVE CallsAreHeld'
  <2>1. CASE isDraining
    <3>1. /\ call' = [call EXCEPT ![q] = "done"]
          /\ UNCHANGED <<matching, tasks, taskTimer, taskOf>>
      BY <1>1, <2>1 DEF StartTask
    <3> QED
      BY <1>0, <3>1 DEF CallsAreHeld
  <2>2. CASE ~isDraining
    <3>1. /\ call' = [call EXCEPT ![q] = "waiting"]
          /\ requestTimer' = requestTimer \cup {q}
          /\ SettleTasks(Append(pendingTaskRequests, q), pendingTaskOffers)
          /\ UNCHANGED <<tasks, taskTimer, taskOf>>
      BY <1>1, <2>2 DEF StartTask
    <3>2. /\ Append(pendingTaskRequests, q) \in Seq(Request)
          /\ Range(Append(pendingTaskRequests, q)) = Range(pendingTaskRequests) \cup {q}
      BY <1>0, Appended
    <3>3. /\ Range(pendingTaskRequests') = Range(pendingTaskRequests) \cup {q}
          /\ \A o \in Offer : requestOf[o] \in Request => requestOf'[o] = requestOf[o]
      BY <1>0, <3>1, <3>2, SettleMatches DEF MatchedOnce
    <3>4. \A p \in Request : call[p] = "running" =>
                taskOf[p] \in tasks \cap taskTimer /\ requestOf'[taskOf[p]] = p
      BY <1>0, <3>3 DEF CallsAreHeld
    <3> QED
      BY <1>0, <3>1, <3>3, <3>4 DEF CallsAreHeld
  <2> QED
    BY <2>1, <2>2
<1>2. ASSUME \/ \E q \in Request : CancelTasks(q)
             \/ \E o \in Offer : TaskTimeout(o)
             \/ \E r \in Runner : DeregisterRunner(r)
             \/ \E r \in Runner, o \in Offer : HandleResult(r, o)
      PROVE  CallsAreHeld'
  <2>1. \E ended : Answer(ended)
    BY <1>2 DEF CancelTasks, TaskTimeout, DeregisterRunner, HandleResult
  <2>2. UNCHANGED <<pendingTaskRequests, requestTimer, requestOf>>
    BY <1>2 DEF CancelTasks, TaskTimeout, DeregisterRunner, HandleResult
  <2> QED
    BY <1>0, <2>1, <2>2, AnswerHolds
<1>3. ASSUME NEW q \in Request, RequestTimeout(q) PROVE CallsAreHeld'
  <2>1. /\ requestTimer' = requestTimer \ {q}
        /\ pendingTaskRequests' = RemoveFirst(pendingTaskRequests, q)
        /\ call' = [call EXCEPT ![q] =
                        IF q \in Range(pendingTaskRequests) /\ call[q] = "waiting"
                        THEN "done" ELSE call[q]]
        /\ UNCHANGED <<tasks, taskTimer, taskOf, requestOf>>
    BY <1>3 DEF RequestTimeout
  <2>2. Range(pendingTaskRequests) \ {q} \subseteq Range(pendingTaskRequests')
    BY <1>0, <2>1, Removed
  <2> QED
    BY <1>0, <2>1, <2>2 DEF CallsAreHeld
<1>4. ASSUME \/ \E o \in Offer : AcceptTimeout(o)
             \/ StartDraining
             \/ \E r \in Runner : Connect(r)
             \/ \E r \in Runner, o \in Offer : HandleRunnerReject(r, o)
      PROVE  CallsAreHeld'
  <2>1. UNCHANGED <<call, taskOf, tasks, taskTimer, pendingTaskRequests, requestTimer, requestOf>>
    BY <1>4 DEF AcceptTimeout, StartDraining, Connect, HandleRunnerReject
  <2> QED
    BY <2>1 DEF CallsAreHeld
<1>5. ASSUME NEW r \in Runner, NEW o \in Offer, TaskOffered(r, o) PROVE CallsAreHeld'
  <2>1. /\ Receives(r, "offer", o)
        /\ SettleTasks(pendingTaskRequests, Append(pendingTaskOffers, o))
        /\ UNCHANGED <<call, taskOf, tasks, taskTimer, requestTimer>>
    BY <1>5 DEF TaskOffered
  <2>2. requestOf[o] = "none" /\ o \notin Range(pendingTaskOffers)
    <3>1. Message("offer", o) \in Range(toBroker[r])
      BY <1>0, <2>1, ReceivesFacts
    <3> QED
      BY <3>1 DEF MatchedOnce, Message
  <2>3. /\ Append(pendingTaskOffers, o) \in Seq(Offer)
        /\ \A x \in Range(Append(pendingTaskOffers, o)) : requestOf[x] = "none"
        /\ IsInjective(Append(pendingTaskOffers, o))
    BY <1>0, <2>2, Appended DEF MatchedOnce
  <2>4. /\ pendingTaskRequests' = pendingTaskRequests
        /\ \A x \in Offer : requestOf[x] \in Request => requestOf'[x] = requestOf[x]
    BY <1>0, <2>1, <2>3, SettleMatches
  <2>5. \A p \in Request : call[p] = "running" =>
                taskOf[p] \in tasks \cap taskTimer /\ requestOf'[taskOf[p]] = p
    BY <1>0, <2>4 DEF CallsAreHeld
  <2> QED
    BY <2>1, <2>4, <2>5 DEF CallsAreHeld
<1>6. ASSUME NEW r \in Runner, NEW o \in Offer, HandleRunnerAccept(r, o) PROVE CallsAreHeld'
  <2>1. CASE o \notin awaited
    BY <1>6, <2>1 DEF HandleRunnerAccept, CallsAreHeld
  <2>2. CASE o \in awaited
    <3> DEFINE q == requestOf[o]
               pending == q \in Range(pendingTaskRequests)
               wanted == pending /\ call[q] = "waiting"
    <3>1. /\ requestTimer' = requestTimer \ {q}
          /\ pendingTaskRequests' = RemoveFirst(pendingTaskRequests, q)
          /\ tasks' = IF pending /\ ~wanted THEN tasks ELSE tasks \cup {o}
          /\ taskTimer' = IF wanted THEN taskTimer \cup {o} ELSE taskTimer
          /\ call' = IF wanted THEN [call EXCEPT ![q] = "running"] ELSE call
          /\ taskOf' = IF wanted THEN [taskOf EXCEPT ![q] = o] ELSE taskOf
          /\ requestOf' = requestOf
      BY <1>6, <2>2 DEF HandleRunnerAccept
    <3>2. Range(pendingTaskRequests) \ {q} \subseteq Range(pendingTaskRequests')
      BY <1>0, <3>1, Removed
    <3>3. q \in Request /\ requestOf[o] = q
      BY <1>0, <2>2
    <3>4. call[q] = "waiting" => wanted
      BY <3>3 DEF CallsAreHeld
    <3> HIDE DEF q, pending
    <3>5. CASE wanted
      BY <1>0, <3>1, <3>2, <3>3, <3>5 DEF CallsAreHeld
    <3>6. CASE ~wanted
      BY <1>0, <3>1, <3>2, <3>3, <3>4, <3>6 DEF CallsAreHeld
    <3> QED
      BY <3>5, <3>6
  <2> QED
    BY <2>1, <2>2
<1>7. ASSUME NEW r \in Runner, NEW o \in Offer, HandleRunnerDeferred(r, o) PROVE CallsAreHeld'
  <2>1. /\ requestTimer \subseteq requestTimer'
        /\ \/ pendingTaskRequests' = pendingTaskRequests
           \/ /\ o \in awaited
              /\ pendingTaskRequests' = Append(pendingTaskRequests, requestOf[o])
        /\ UNCHANGED <<call, taskOf, tasks, taskTimer, requestOf>>
    BY <1>7 DEF HandleRunnerDeferred
  <2>2. Range(pendingTaskRequests) \subseteq Range(pendingTaskRequests')
    <3>1. ASSUME o \in awaited
          PROVE  Range(Append(pendingTaskRequests, requestOf[o])) =
                    Range(pendingTaskRequests) \cup {requestOf[o]}
      <4>1. requestOf[o] \in Request
        BY <1>0, <3>1
      <4> QED
        BY <1>0, <4>1, Appended
    <3> QED
      BY <2>1, <3>1
  <2> QED
    BY <2>1, <2>2 DEF CallsAreHeld
<1>8. ASSUME UNCHANGED <<matching, handed>> PROVE CallsAreHeld'
  BY <1>8 DEF CallsAreHeld
<1> QED
  BY <1>1, <1>2, <1>3, <1>4, <1>5, <1>6, <1>7, <1>8, RunnerLeaves DEF Next, BrokerMessage

\* Taking an offer from a queue leaves no other of it.
LEMMA OffersOnceTail ==
    ASSUME NEW S, NEW s \in Seq(S), s # <<>>, OffersOnce(s)
    PROVE  /\ OffersOnce(Tail(s))
           /\ Head(s).type = "offer" => Head(s) \notin Range(Tail(s))
<1>1. /\ 1 \in DOMAIN s /\ s[1] = Head(s)
      /\ \A i \in DOMAIN Tail(s) : i \in Nat /\ i + 1 \in DOMAIN s /\ Tail(s)[i] = s[i + 1]
  BY Taken
<1>2. DOMAIN Tail(s) \subseteq Nat \ {0}
  <2>1. Tail(s) \in Seq(S)
    BY Taken
  <2> QED
    BY <2>1, LenProperties
<1>3. ASSUME NEW i \in DOMAIN Tail(s), NEW j \in DOMAIN Tail(s),
             Tail(s)[i].type = "offer", Tail(s)[j] = Tail(s)[i]
      PROVE  j = i
  <2>1. j + 1 = i + 1
    BY <1>1, <1>3 DEF OffersOnce
  <2> QED
    BY <1>1, <2>1
<1>4. ASSUME Head(s).type = "offer", NEW i \in DOMAIN Tail(s)
      PROVE  Tail(s)[i] # Head(s)
  <2>1. i + 1 # 1
    BY <1>2
  <2> QED
    BY <1>1, <1>4, <2>1 DEF OffersOnce
<1> QED
  BY <1>3, <1>4 DEF OffersOnce, Range

\* Putting other offers behind a queue repeats none.
LEMMA OffersOnceConcat ==
    ASSUME NEW S, NEW s \in Seq(S), NEW t \in Seq(S), OffersOnce(s), OffersOnce(t),
           \A m \in Range(s) \cap Range(t) : m.type # "offer"
    PROVE  OffersOnce(s \o t)
<1> DEFINE u == s \o t
<1>1. /\ \A i \in DOMAIN s : u[i] = s[i]
      /\ \A i \in DOMAIN u \ DOMAIN s :
            i \in Nat /\ (i - Len(s)) \in DOMAIN t /\ u[i] = t[i - Len(s)]
  BY Extended
<1>2. Len(s) \in Nat
  BY LenProperties
<1> HIDE DEF u
<1> SUFFICES ASSUME NEW i \in DOMAIN u, NEW j \in DOMAIN u, u[i].type = "offer", u[j] = u[i]
             PROVE  j = i
  BY DEF OffersOnce, u
<1>3. CASE i \in DOMAIN s /\ j \in DOMAIN s
  BY <1>1, <1>3 DEF OffersOnce
<1>4. CASE i \notin DOMAIN s /\ j \notin DOMAIN s
  <2>1. j - Len(s) = i - Len(s)
    BY <1>1, <1>4 DEF OffersOnce
  <2> QED
    BY <1>1, <1>2, <1>4, <2>1
<1>5. CASE i \in DOMAIN s /\ j \notin DOMAIN s
  <2>1. u[i] \in Range(s) \cap Range(t)
    BY <1>1, <1>5 DEF Range
  <2> QED
    BY <2>1
<1>6. CASE i \notin DOMAIN s /\ j \in DOMAIN s
  <2>1. u[i] \in Range(s) \cap Range(t)
    BY <1>1, <1>6 DEF Range
  <2> QED
    BY <2>1
<1> QED
  BY <1>3, <1>4, <1>5, <1>6

\* A runner tells an offer once.
LEMMA OffersSpokenOnce ==
    ASSUME Typing, Owned, \A p \in Runner : OffersOnce(toBroker[p]),
           NEW r \in Runner, NEW T \in SUBSET RunnerSays, \A m \in T : m.type # "offer",
           RunnerSpeaks(r, T)
    PROVE  \A p \in Runner : OffersOnce(toBroker'[p])
<1>0. /\ TypeOK /\ OffersAreNumbered /\ toBroker[r] \in Seq(RunnerSays)
      /\ \A m \in Range(toBroker[r]) : m.task \in Sent
  <2>1. /\ TypeOK /\ OffersAreNumbered /\ toBroker[r] \in Seq(RunnerSays)
    BY DEF Typing, TypeOK, RunnerSays
  <2> QED
    BY <2>1, BrokerAssumption DEF Owned, Sent
<1>1. ASSUME NEW said \in Seq(RunnerSays), Reply(r, said), OffersOnce(said),
             \A m \in Range(said) : m.type = "offer" => m.task \notin Sent
      PROVE  \A p \in Runner : OffersOnce(toBroker'[p])
  <2>1. /\ \A p \in Runner \ {r} : toBroker'[p] = toBroker[p]
        /\ r \in knownRunners => toBroker'[r] = toBroker[r] \o said
        /\ r \notin knownRunners => toBroker' = toBroker
    BY <1>0, <1>1, Replied
  <2>2. \A m \in Range(toBroker[r]) \cap Range(said) : m.type # "offer"
    BY <1>0, <1>1
  <2>3. OffersOnce(toBroker[r] \o said)
    BY <1>0, <1>1, <2>2, OffersOnceConcat
  <2> QED
    BY <2>1, <2>3
<1>2. ASSUME NEW said \in Seq(T)
      PROVE  /\ said \in Seq(RunnerSays) /\ OffersOnce(said)
             /\ \A m \in Range(said) : m.type # "offer"
  <2>1. Range(said) \subseteq T
    BY RangeOfSeq
  <2> QED
    BY <2>1, SeqMonotonic DEF OffersOnce, Range
<1>3. CASE UNCHANGED <<offeredBy, toBroker>> /\ openOffers' \subseteq openOffers
  BY <1>3
<1>4. CASE \E said \in Seq(T) : Reply(r, said)
  BY <1>1, <1>2, <1>4
<1>5. ASSUME NEW said \in Seq(T), NEW left \in SUBSET Offer, SendOffers(r, said, left)
      PROVE  \A p \in Runner : OffersOnce(toBroker'[p])
  <2>1. PICK new \in SUBSET Offer : \E offers \in Seq({Message("offer", o) : o \in new}) :
            /\ new \cap Sent = {}
            /\ IsInjective(offers)
            /\ Reply(r, said \o offers)
    BY <1>0, <1>5, SendOffersFacts
  <2> DEFINE O == {Message("offer", o) : o \in new}
  <2>2. PICK offers \in Seq(O) : IsInjective(offers) /\ Reply(r, said \o offers)
    BY <2>1
  <2>3. O \subseteq RunnerSays /\ \A m \in O : m.task \in new
    BY MessageType DEF ToBrokerType, Message
  <2> HIDE DEF O
  <2>4. offers \in Seq(RunnerSays) /\ OffersOnce(offers) /\ Range(offers) \subseteq O
    BY <2>2, <2>3, SeqMonotonic, RangeOfSeq DEF OffersOnce, IsInjective
  <2>5. OffersOnce(said \o offers)
    BY <1>2, <2>4, OffersOnceConcat
  <2>6. said \o offers \in Seq(RunnerSays) /\ Range(said \o offers) = Range(said) \cup Range(offers)
    BY <1>2, <2>4, Extended
  <2> QED
    BY <1>1, <1>2, <2>1, <2>2, <2>3, <2>4, <2>5, <2>6
<1> QED
  BY <1>3, <1>4, <1>5 DEF RunnerSpeaks

\* Besides offers, runners send answers.
Answers == {m \in RunnerSays : m.type # "offer" /\ m.task \in Offer}

\* What a runner sends of its own accord, or when it handles a message: offers and answers
\* about its tasks, behind what it has sent before.
LEMMA RunnerAnswers ==
    ASSUME NEW r \in Runner,
           \/ RunnerExits(r) \/ OfferInterval(r) \/ LauncherOffers(r) \/ RunnerMessage(r)
           \/ \E o \in Offer : RunnerTimeout(r, o) \/ ExecutionEnds(r, o)
    PROVE  RunnerSpeaks(r, Answers)
<1> DEFINE said(type, o) == <<Message(type, o)>>
<1>1. ASSUME NEW type \in {"accepted", "rejected", "deferred", "result"}, NEW o \in Offer
      PROVE  said(type, o) \in Seq(Answers)
  <2> DEFINE m == Message(type, o)
  <2>1. m \in RunnerSays /\ m.type = type /\ m.task = o
    BY MessageType DEF ToBrokerType
  <2> HIDE DEF m
  <2>2. m \in Answers
    BY <2>1 DEF Answers
  <2>3. <<m>> \in Seq(Answers)
    BY <2>2, OneMessage
  <2> QED
    BY <2>3 DEF m
<1>2. <<>> \in Seq(Answers) /\ Running(r) \in SUBSET Offer /\ {} \in SUBSET Offer
  BY EmptySeq DEF Running, Sent
<1>3. CASE RunnerExits(r)
  BY <1>3 DEF RunnerExits, Kill, RunnerSpeaks
<1>4. CASE OfferInterval(r) \/ LauncherOffers(r)
  BY <1>2, <1>4 DEF OfferInterval, LauncherOffers, RunnerSpeaks
<1>5. CASE RunnerRegistered(r) \/ StopTaskOffers(r)
  BY <1>5 DEF RunnerRegistered, StopTaskOffers, RunnerSpeaks
<1>6. ASSUME NEW o \in Offer, OfferAccepted(r, o) \/ LauncherDefers(r, o)
      PROVE  RunnerSpeaks(r, Answers)
  <2>1. /\ offeredBy' = offeredBy /\ openOffers' \subseteq openOffers
        /\ \E type \in {"accepted", "rejected", "deferred", "result"} : Reply(r, said(type, o))
    BY <1>6 DEF OfferAccepted, LauncherDefers
  <2> HIDE DEF said
  <2> QED
    BY <1>1, <2>1 DEF RunnerSpeaks
<1>7. ASSUME NEW o \in Offer, ReceivedSettings(r, o)
      PROVE  RunnerSpeaks(r, Answers)
  BY <1>7 DEF ReceivedSettings, RunnerSpeaks
<1>8. ASSUME NEW o \in Offer, TaskCancelled(r, o) \/ RunnerTimeout(r, o) \/ ExecutionEnds(r, o)
      PROVE  RunnerSpeaks(r, Answers)
  <2>1. \/ UNCHANGED <<offeredBy, openOffers, toBroker>>
        \/ SendOffers(r, <<>>, Running(r) \ {o})
        \/ SendOffers(r, said("result", o), Running(r) \ {o})
    BY <1>8 DEF TaskCancelled, RunnerTimeout, ExecutionEnds, FinishTask
  <2>2. said("result", o) \in Seq(Answers) /\ Running(r) \ {o} \in SUBSET Offer
    BY <1>1, <1>2
  <2> HIDE DEF said
  <2> QED
    BY <1>2, <2>1, <2>2 DEF RunnerSpeaks
<1> QED
  BY <1>3, <1>4, <1>5, <1>6, <1>7, <1>8 DEF RunnerMessage

\* Offers are matched once, whatever comes in between.
LEMMA MatchedStep ==
    ASSUME Typing, Owned, MatchedOnce, Next
    PROVE  MatchedOnce'
<1>0. /\ TypeOK /\ pendingTaskRequests \in Seq(Request) /\ pendingTaskOffers \in Seq(Offer)
      /\ tasks \subseteq Offer
      /\ \A o \in awaited : requestOf[o] \in Request
      /\ Range(pendingTaskOffers) \subseteq Sent
      /\ \A r \in Runner : toBroker[r] \in Seq(RunnerSays)
      /\ \A r \in Runner : \A m \in Range(toBroker[r]) : m.task \in Sent
  <2>1. /\ TypeOK /\ pendingTaskRequests \in Seq(Request) /\ pendingTaskOffers \in Seq(Offer)
        /\ tasks \subseteq Offer
        /\ \A o \in awaited : requestOf[o] \in Request
        /\ \A r \in Runner : toBroker[r] \in Seq(RunnerSays)
        /\ knownRunners \subseteq Runner
    BY DEF Typing, TypeOK, RunnerSays
  <2>2. Range(pendingTaskOffers) \subseteq Offer
    BY <2>1, RangeOfSeq
  <2> QED
    BY <2>1, <2>2, BrokerAssumption DEF Owned, Sent
<1> USE DEF matching, handed, runners, modes
<1>1. ASSUME NEW requests \in Seq(Request), NEW offers \in Seq(Offer),
             SettleTasks(requests, offers), IsInjective(offers),
             \A o \in Range(offers) : requestOf[o] = "none" /\ o \in Sent,
             UNCHANGED <<tasks, offeredBy>>,
             \A r \in Runner : \A m \in Range(toBroker'[r]) : m.type = "offer" =>
                m \in Range(toBroker[r]) /\ m.task \notin Range(offers),
             \A r \in Runner : OffersOnce(toBroker'[r])
      PROVE  MatchedOnce'
  <2>1. /\ \A o \in Offer : requestOf[o] \in Request => requestOf'[o] = requestOf[o]
        /\ \A o \in Offer : requestOf'[o] # requestOf[o] =>
                    o \in Range(offers) /\ requestOf'[o] \in Request
        /\ IsInjective(pendingTaskOffers')
        /\ \A o \in Range(pendingTaskOffers') : requestOf'[o] = "none"
        /\ Range(pendingTaskOffers') \subseteq Range(offers)
    BY <1>0, <1>1, SettleMatches
  <2>2. Sent' = Sent /\ Sent \subseteq Offer
    BY <1>1, OffersStay DEF Sent
  <2>3. \A r \in Runner : \A m \in Range(toBroker'[r]) : m.type = "offer" =>
            requestOf'[m.task] = "none" /\ m.task \notin Range(pendingTaskOffers')
    BY <1>0, <1>1, <2>1, <2>2 DEF MatchedOnce
  <2>4. \A o \in Offer : requestOf'[o] # "none" => o \in Sent'
    BY <1>1, <2>1, <2>2 DEF MatchedOnce
  <2>5. \A o \in tasks' : requestOf'[o] \in Request
    BY <1>0, <1>1, <2>1 DEF MatchedOnce
  <2> QED
    BY <1>1, <2>1, <2>3, <2>4, <2>5 DEF MatchedOnce
<1>2. ASSUME NEW r \in Runner, NEW type, NEW o, Receives(r, type, o)
      PROVE  /\ \A p \in Runner : Range(toBroker'[p]) \subseteq Range(toBroker[p])
             /\ \A p \in Runner : OffersOnce(toBroker'[p])
             /\ Message(type, o) \in Range(toBroker[r])
             /\ type = "offer" => Message(type, o) \notin Range(toBroker'[r])
  <2>1. /\ toBroker[r] \in Seq(RunnerSays) /\ toBroker[r] # <<>>
        /\ toBroker'[r] = Tail(toBroker[r])
        /\ \A p \in Runner \ {r} : toBroker'[p] = toBroker[p]
        /\ \A p \in Runner : Range(toBroker'[p]) \subseteq Range(toBroker[p])
        /\ Message(type, o) \in Range(toBroker[r])
    BY <1>0, <1>2, ReceivesFacts
  <2>2. Head(toBroker[r]) = Message(type, o) /\ Message(type, o).type = type
    BY <1>2 DEF Receives, Message
  <2>3. /\ OffersOnce(Tail(toBroker[r]))
        /\ Head(toBroker[r]).type = "offer" => Head(toBroker[r]) \notin Range(Tail(toBroker[r]))
    BY <2>1, OffersOnceTail DEF MatchedOnce
  <2> QED
    BY <2>1, <2>2, <2>3 DEF MatchedOnce
<1>3. ASSUME NEW q \in Request, StartTask(q) PROVE MatchedOnce'
  <2>1. CASE isDraining
    <3>1. UNCHANGED <<matching, tasks, offeredBy, toBroker>>
      BY <1>3, <2>1 DEF StartTask
    <3> QED
      BY <3>1 DEF MatchedOnce, Sent
  <2>2. CASE ~isDraining
    <3>1. /\ SettleTasks(Append(pendingTaskRequests, q), pendingTaskOffers)
          /\ UNCHANGED <<tasks, offeredBy, toBroker>>
      BY <1>3, <2>2 DEF StartTask
    <3>2. Append(pendingTaskRequests, q) \in Seq(Request)
      BY <1>0, Appended
    <3>3. /\ \A o \in Range(pendingTaskOffers) : requestOf[o] = "none" /\ o \in Sent
          /\ IsInjective(pendingTaskOffers)
          /\ \A r \in Runner : OffersOnce(toBroker'[r])
          /\ \A r \in Runner : \A m \in Range(toBroker'[r]) : m.type = "offer" =>
                m \in Range(toBroker[r]) /\ m.task \notin Range(pendingTaskOffers)
      BY <1>0, <3>1 DEF MatchedOnce
    <3> QED
      BY <1>0, <1>1, <3>1, <3>2, <3>3
  <2> QED
    BY <2>1, <2>2
<1>4. ASSUME NEW r \in Runner, NEW o \in Offer, TaskOffered(r, o) PROVE MatchedOnce'
  <2>1. /\ Receives(r, "offer", o)
        /\ SettleTasks(pendingTaskRequests, Append(pendingTaskOffers, o))
        /\ UNCHANGED <<tasks, offeredBy>>
    BY <1>4 DEF TaskOffered
  <2> DEFINE offers == Append(pendingTaskOffers, o)
  <2>2. /\ \A p \in Runner : Range(toBroker'[p]) \subseteq Range(toBroker[p])
        /\ \A p \in Runner : OffersOnce(toBroker'[p])
        /\ Message("offer", o) \in Range(toBroker[r])
        /\ Message("offer", o) \notin Range(toBroker'[r])
    BY <1>2, <2>1
  <2>3. /\ requestOf[o] = "none" /\ o \notin Range(pendingTaskOffers) /\ o \in Sent
        /\ offeredBy[o] = r
    BY <1>0, <2>2 DEF MatchedOnce, Owned, Message
  <2>4. /\ offers \in Seq(Offer) /\ Range(offers) = Range(pendingTaskOffers) \cup {o}
        /\ IsInjective(offers)
    BY <1>0, <2>3, Appended DEF MatchedOnce
  <2>5. ASSUME NEW p \in Runner, NEW m \in Range(toBroker'[p]), m.type = "offer"
        PROVE  m \in Range(toBroker[p]) /\ m.task \notin Range(offers)
    <3>1. m \in Range(toBroker[p]) /\ m.task \notin Range(pendingTaskOffers)
      BY <2>2, <2>5 DEF MatchedOnce
    <3>2. m.task # o
      <4> SUFFICES ASSUME m.task = o PROVE FALSE
        OBVIOUS
      <4>1. p = r
        BY <2>3, <3>1 DEF Owned
      <4>2. m \in RunnerSays
        BY <1>0, <3>1, RangeOfSeq
      <4>3. m = Message("offer", o)
        BY <2>5, <4>2 DEF RunnerSays, Message
      <4> QED
        BY <2>2, <4>1, <4>3
    <3> QED
      BY <2>4, <3>1, <3>2
  <2> HIDE DEF offers
  <2>6. \A x \in Range(offers) : requestOf[x] = "none" /\ x \in Sent
    BY <1>0, <2>3, <2>4 DEF MatchedOnce
  <2>7. SettleTasks(pendingTaskRequests, offers)
    BY <2>1 DEF offers
  <2> QED
    BY <1>0, <1>1, <2>1, <2>2, <2>4, <2>5, <2>6, <2>7
<1>5. ASSUME NEW r \in Runner, NEW o \in Offer,
             \/ HandleRunnerAccept(r, o) \/ HandleRunnerReject(r, o)
             \/ HandleRunnerDeferred(r, o) \/ HandleResult(r, o)
      PROVE  MatchedOnce'
  <2>1. /\ UNCHANGED <<requestOf, pendingTaskOffers, offeredBy>>
        /\ \E type : Receives(r, type, o)
        /\ tasks' \subseteq tasks \cup (awaited \cap {o})
    BY <1>5 DEF HandleRunnerAccept, HandleRunnerReject, HandleRunnerDeferred, HandleResult, Answer
  <2>2. /\ \A p \in Runner : Range(toBroker'[p]) \subseteq Range(toBroker[p])
        /\ \A p \in Runner : OffersOnce(toBroker'[p])
    BY <1>2, <2>1
  <2>3. \A x \in tasks' : requestOf[x] \in Request
    BY <1>0, <2>1 DEF MatchedOnce
  <2> QED
    BY <2>1, <2>2, <2>3, OffersStay DEF MatchedOnce
<1>6. ASSUME NEW r \in Runner, DeregisterRunner(r) PROVE MatchedOnce'
  <2>1. /\ UNCHANGED <<requestOf, offeredBy>>
        /\ toBroker' = [toBroker EXCEPT ![r] = <<>>]
        /\ tasks' \subseteq tasks
        /\ pendingTaskOffers' = Kept(pendingTaskOffers, {o \in Offer : offeredBy[o] # r})
    BY <1>6 DEF DeregisterRunner, Answer
  <2>2. IsInjective(pendingTaskOffers') /\ Range(pendingTaskOffers') \subseteq Range(pendingTaskOffers)
    BY <1>0, <2>1, KeptFacts DEF MatchedOnce
  <2>3. \A p \in Runner : toBroker'[p] = <<>> \/ toBroker'[p] = toBroker[p]
    BY <1>0, <2>1 DEF TypeOK
  <2>4. \A p \in Runner : /\ Range(toBroker'[p]) \subseteq Range(toBroker[p])
                          /\ OffersOnce(toBroker'[p])
    BY <2>3 DEF MatchedOnce, OffersOnce, Range
  <2> QED
    BY <2>1, <2>2, <2>4, OffersStay DEF MatchedOnce
<1>7. ASSUME \/ \E q \in Request : CancelTasks(q) \/ RequestTimeout(q)
             \/ \E o \in Offer : AcceptTimeout(o) \/ TaskTimeout(o)
             \/ StartDraining
             \/ \E r \in Runner : Connect(r)
      PROVE  MatchedOnce'
  <2>1. UNCHANGED <<requestOf, pendingTaskOffers, offeredBy, toBroker>> /\ tasks' \subseteq tasks
    BY <1>7 DEF CancelTasks, RequestTimeout, AcceptTimeout, TaskTimeout, StartDraining, Connect, Answer
  <2> QED
    BY <2>1, OffersStay DEF MatchedOnce
<1>8. ASSUME NEW r \in Runner,
             \/ RunnerExits(r) \/ OfferInterval(r) \/ LauncherOffers(r) \/ RunnerMessage(r)
             \/ \E o \in Offer : RunnerTimeout(r, o) \/ ExecutionEnds(r, o)
      PROVE  MatchedOnce'
  <2>1. RunnerSpeaks(r, Answers) /\ UNCHANGED <<requestOf, pendingTaskOffers, tasks>>
    BY <1>8, RunnerAnswers, RunnerLeaves
  <2>2. Answers \in SUBSET RunnerSays /\ \A m \in Answers : m.type # "offer"
    BY DEF Answers
  <2>3. /\ Sent \subseteq Sent'
        /\ \A p \in Runner : \A m \in Range(toBroker'[p]) : m.type = "offer" =>
                \/ m \in Range(toBroker[p])
                \/ m.task \in Offer /\ m.task \in Sent' \ Sent
    BY <2>1, <2>2, RunnerSpoke
  <2>4. \A p \in Runner : OffersOnce(toBroker'[p])
    BY <2>1, <2>2, OffersSpokenOnce DEF MatchedOnce
  <2> QED
    BY <1>0, <2>1, <2>3, <2>4 DEF MatchedOnce
<1> QED
  BY <1>3, <1>4, <1>5, <1>6, <1>7, <1>8 DEF Next, BrokerMessage

----------------------------------------------------------------------------
(* A call has one task handed over.                                        *)

\* The request an offer was matched with is never another.
LEMMA MatchesStay ==
    ASSUME Typing, MatchedOnce, Next
    PROVE  \A o \in Offer : requestOf[o] \in Request => requestOf'[o] = requestOf[o]
<1>0. /\ TypeOK /\ pendingTaskRequests \in Seq(Request) /\ pendingTaskOffers \in Seq(Offer)
  BY DEF Typing, TypeOK
<1>1. ASSUME NEW q \in Request, StartTask(q)
      PROVE  \A o \in Offer : requestOf[o] \in Request => requestOf'[o] = requestOf[o]
  <2>1. CASE isDraining
    BY <1>1, <2>1 DEF StartTask, matching
  <2>2. CASE ~isDraining
    <3>1. SettleTasks(Append(pendingTaskRequests, q), pendingTaskOffers)
      BY <1>1, <2>2 DEF StartTask
    <3>2. Append(pendingTaskRequests, q) \in Seq(Request)
      BY <1>0, Appended
    <3> QED
      BY <1>0, <3>1, <3>2, SettleMatches DEF MatchedOnce
  <2> QED
    BY <2>1, <2>2
<1>2. ASSUME NEW r \in Runner, NEW o \in Offer, TaskOffered(r, o)
      PROVE  \A x \in Offer : requestOf[x] \in Request => requestOf'[x] = requestOf[x]
  <2>1. /\ Receives(r, "offer", o)
        /\ SettleTasks(pendingTaskRequests, Append(pendingTaskOffers, o))
    BY <1>2 DEF TaskOffered
  <2>2. Message("offer", o) \in Range(toBroker[r])
    BY <1>0, <2>1, ReceivesFacts
  <2>3. requestOf[o] = "none" /\ o \notin Range(pendingTaskOffers)
    BY <2>2 DEF MatchedOnce, Message
  <2>4. /\ Append(pendingTaskOffers, o) \in Seq(Offer)
        /\ \A x \in Range(Append(pendingTaskOffers, o)) : requestOf[x] = "none"
        /\ IsInjective(Append(pendingTaskOffers, o))
    BY <1>0, <2>3, Appended DEF MatchedOnce
  <2> QED
    BY <1>0, <2>1, <2>4, SettleMatches
<1>3. ASSUME \/ \E q \in Request : CancelTasks(q) \/ RequestTimeout(q)
             \/ \E o \in Offer : AcceptTimeout(o) \/ TaskTimeout(o)
             \/ StartDraining
             \/ \E r \in Runner : Connect(r) \/ DeregisterRunner(r)
             \/ \E r \in Runner, o \in Offer : HandleRunnerAccept(r, o) \/ HandleRunnerReject(r, o)
                                               \/ HandleRunnerDeferred(r, o) \/ HandleResult(r, o)
      PROVE  requestOf' = requestOf
  BY <1>3 DEF CancelTasks, RequestTimeout, AcceptTimeout, TaskTimeout, StartDraining, Connect,
              DeregisterRunner, HandleRunnerAccept, HandleRunnerReject, HandleRunnerDeferred,
              HandleResult, matching
<1>4. ASSUME UNCHANGED matching PROVE requestOf' = requestOf
  BY <1>4 DEF matching
<1> QED
  BY <1>1, <1>2, <1>3, <1>4, RunnerLeaves DEF Next, BrokerMessage

\* A call that got a task, or has returned, does not wait for a runner again.
LEMMA CallsGoOn ==
    ASSUME Typing, Next
    PROVE  \A q \in Request : call[q] \in {"running", "done"} => call'[q] \in {"running", "done"}
<1>0. call \in [Request -> {"none", "waiting", "running", "done"}]
  BY DEF Typing, TypeOK
<1>1. ASSUME NEW ended, Answer(ended)
      PROVE  \A q \in Request : call'[q] \in {call[q], "done"}
  BY <1>1 DEF Answer
<1>2. ASSUME \/ \E q \in Request : CancelTasks(q)
             \/ \E o \in Offer : TaskTimeout(o)
             \/ \E r \in Runner : DeregisterRunner(r)
             \/ \E r \in Runner, o \in Offer : HandleResult(r, o)
      PROVE  \A q \in Request : call'[q] \in {call[q], "done"}
  <2>1. \E ended : Answer(ended)
    BY <1>2 DEF CancelTasks, TaskTimeout, DeregisterRunner, HandleResult
  <2> QED
    BY <1>1, <2>1
<1>3. ASSUME NEW p \in Request, StartTask(p) \/ RequestTimeout(p)
      PROVE  \A q \in Request : call[q] \in {"running", "done"} => call'[q] \in {"running", "done"}
  <2>1. \/ /\ call[p] = "none"
           /\ call' = [call EXCEPT ![p] = "done"] \/ call' = [call EXCEPT ![p] = "waiting"]
        \/ call' = [call EXCEPT ![p] = "done"] \/ call' = [call EXCEPT ![p] = call[p]]
    BY <1>3 DEF StartTask, RequestTimeout
  <2> QED
    BY <1>0, <2>1
<1>4. ASSUME NEW r \in Runner, NEW o \in Offer, HandleRunnerAccept(r, o)
      PROVE  \A q \in Request : call[q] \in {"running", "done"} => call'[q] \in {"running", "done"}
  <2>1. call' = call \/ call' = [call EXCEPT ![requestOf[o]] = "running"]
    BY <1>4 DEF HandleRunnerAccept, handed
  <2> QED
    BY <1>0, <2>1
<1>5. ASSUME \/ UNCHANGED handed
             \/ \E o \in Offer : AcceptTimeout(o)
             \/ StartDraining
             \/ \E r \in Runner : Connect(r)
             \/ \E r \in Runner, o \in Offer : TaskOffered(r, o) \/ HandleRunnerReject(r, o)
                                               \/ HandleRunnerDeferred(r, o)
      PROVE  call' = call
  BY <1>5 DEF AcceptTimeout, StartDraining, Connect, TaskOffered, HandleRunnerReject,
              HandleRunnerDeferred, handed
<1> QED
  BY <1>2, <1>3, <1>4, <1>5, RunnerLeaves DEF Next, BrokerMessage

\* Settings are sent to the runner that accepts, for the call that still waits.
LEMMA NewSettings ==
    ASSUME Typing, Owned, CallsAreHeld, Next, NEW r \in Runner, NEW o \in Offer,
           Message("settings", o) \in Range(toRunner'[r]),
           Message("settings", o) \notin Range(toRunner[r])
    PROVE  /\ HandleRunnerAccept(r, o)
           /\ o \in awaited /\ call[requestOf[o]] = "waiting"
           /\ requestOf' = requestOf /\ executed' = executed
           /\ call' = [call EXCEPT ![requestOf[o]] = "running"]
           /\ \A p \in Runner : \A m \in Range(toRunner'[p]) :
                m \in Range(toRunner[p]) \/ m = Message("settings", o)
<1>0. /\ TypeOK /\ pendingTaskRequests \in Seq(Request) /\ pendingTaskOffers \in Seq(Offer)
      /\ toRunner \in [Runner -> Seq(BrokerSays)] /\ tasks \subseteq Offer
      /\ knownRunners \subseteq Runner
  BY DEF Typing, TypeOK, BrokerSays
<1> DEFINE s == Message("settings", o)
<1>1. \A type, x : Message(type, x).type = type /\ Message(type, x).task = x
  BY DEF Message
<1>2. ASSUME NEW requests \in Seq(Request), NEW offers \in Seq(Offer),
             SettleTasks(requests, offers)
      PROVE  FALSE
  BY <1>0, <1>1, <1>2, SettleMessages
<1>3. ASSUME NEW p \in Runner, NEW type \in ToRunnerType, NEW x \in {0} \cup Offer,
             SendTo(p, type, x)
      PROVE  p = r /\ type = "settings" /\ x = o
  BY <1>0, <1>1, <1>3, ToldMessages
<1>4. ASSUME \A p \in Runner : toRunner'[p] = <<>> \/ toRunner'[p] = toRunner[p]
      PROVE  FALSE
  BY <1>4 DEF Range
<1>5. ASSUME NEW q \in Request, StartTask(q) PROVE FALSE
  <2>1. SettleTasks(Append(pendingTaskRequests, q), pendingTaskOffers) \/ toRunner' = toRunner
    BY <1>5 DEF StartTask
  <2>2. Append(pendingTaskRequests, q) \in Seq(Request)
    BY <1>0, Appended
  <2> QED
    BY <1>0, <1>2, <2>1, <2>2
<1>6. ASSUME NEW p \in Runner, NEW x \in Offer, TaskOffered(p, x) PROVE FALSE
  <2>1. SettleTasks(pendingTaskRequests, Append(pendingTaskOffers, x))
    BY <1>6 DEF TaskOffered
  <2>2. Append(pendingTaskOffers, x) \in Seq(Offer)
    BY <1>0, Appended
  <2> QED
    BY <1>0, <1>2, <2>1, <2>2
<1>7. ASSUME NEW q \in Request, CancelTasks(q) PROVE FALSE
  <2>1. taskOf[q] \in Offer /\ offeredBy[taskOf[q]] \in Runner
    BY <1>0, <1>7 DEF CancelTasks, CallsAreHeld, Owned
  <2>2. SendTo(offeredBy[taskOf[q]], "cancel", taskOf[q])
    BY <1>7 DEF CancelTasks
  <2> QED
    BY <1>3, <2>1, <2>2 DEF ToRunnerType
<1>8. ASSUME NEW x \in Offer, TaskTimeout(x) PROVE FALSE
  <2>1. \/ Kill({p \in Runner : connection[p] = "open"})
        \/ SendTo(offeredBy[x], "cancel", x)
    BY <1>8 DEF TaskTimeout
  <2>2. offeredBy[x] \in Runner
    BY <1>0, <1>8 DEF TaskTimeout, Owned
  <2>3. CASE SendTo(offeredBy[x], "cancel", x)
    BY <1>3, <2>2, <2>3 DEF ToRunnerType
  <2>4. CASE Kill({p \in Runner : connection[p] = "open"})
    BY <1>4, <2>4 DEF Kill
  <2> QED
    BY <2>1, <2>3, <2>4
<1>9. ASSUME StartDraining PROVE FALSE
  <2> DEFINE T == {Message("drain", 0)}
  <2>1. T \subseteq BrokerSays /\ <<Message("drain", 0)>> \in Seq(T) /\ s \notin T
    BY <1>1, MessageType DEF ToRunnerType
  <2>2. toRunner'[r] = Deliver(r, <<Message("drain", 0)>>) /\ toRunner[r] \in Seq(BrokerSays)
    BY <1>0, <1>9 DEF StartDraining
  <2> HIDE DEF T
  <2>3. Adds(toRunner[r], toRunner'[r], T)
    BY <1>0, <2>1, <2>2, Delivered
  <2>4. Range(toRunner'[r]) \subseteq Range(toRunner[r]) \cup T
    BY <2>1, <2>2, <2>3, AddsFacts
  <2> QED
    BY <2>1, <2>4
<1>10. ASSUME NEW p \in Runner, Connect(p) PROVE FALSE
  <2>1. toRunner' = [toRunner EXCEPT ![p] = <<Message("registered", 0)>>]
    BY <1>10 DEF Connect
  <2>2. Range(<<Message("registered", 0)>>) = {Message("registered", 0)}
    BY MessageType, OneMessage DEF ToRunnerType
  <2>3. CASE r = p
    <3>1. Range(toRunner'[r]) = {Message("registered", 0)}
      BY <1>0, <2>1, <2>2, <2>3
    <3>2. Message("settings", o) = Message("registered", 0)
      BY <3>1
    <3> QED
      BY <1>1, <3>2
  <2>4. CASE r # p
    BY <1>0, <2>1, <2>4
  <2> QED
    BY <2>3, <2>4
<1>11. ASSUME NEW p \in Runner,
              \/ RunnerExits(p) \/ OfferInterval(p) \/ LauncherOffers(p) \/ RunnerMessage(p)
              \/ \E x \in Offer : RunnerTimeout(p, x) \/ ExecutionEnds(p, x)
       PROVE  FALSE
  <2>1. \/ toRunner' = toRunner \/ Kill({p})
        \/ \E type, x : Gets(p, type, x)
    BY <1>11 DEF RunnerExits, OfferInterval, LauncherOffers, RunnerMessage, RunnerTimeout,
                 ExecutionEnds, RunnerRegistered, StopTaskOffers, OfferAccepted, LauncherDefers,
                 ReceivedSettings, TaskCancelled
  <2>2. CASE Kill({p})
    BY <1>4, <2>2 DEF Kill
  <2>3. ASSUME NEW type, NEW x, Gets(p, type, x) PROVE FALSE
    BY <1>0, <2>3, GetsFacts
  <2> QED
    BY <2>1, <2>2, <2>3
<1>12. ASSUME \/ \E q \in Request : RequestTimeout(q)
              \/ \E x \in Offer : AcceptTimeout(x)
              \/ \E p \in Runner : DeregisterRunner(p)
              \/ \E p \in Runner, x \in Offer : HandleRunnerReject(p, x) \/ HandleResult(p, x)
                                                \/ HandleRunnerDeferred(p, x)
       PROVE  FALSE
  BY <1>12 DEF RequestTimeout, AcceptTimeout, DeregisterRunner, HandleRunnerReject,
               HandleResult, HandleRunnerDeferred
<1>13. ASSUME NEW p \in Runner, NEW x \in Offer, HandleRunnerAccept(p, x)
       PROVE  /\ p = r /\ x = o
              /\ HandleRunnerAccept(r, o)
              /\ o \in awaited /\ call[requestOf[o]] = "waiting"
              /\ requestOf' = requestOf /\ executed' = executed
              /\ call' = [call EXCEPT ![requestOf[o]] = "running"]
              /\ \A y \in Runner : \A m \in Range(toRunner'[y]) :
                    m \in Range(toRunner[y]) \/ m = s
  <2> DEFINE q == requestOf[x]
             wanted == q \in Range(pendingTaskRequests) /\ call[q] = "waiting"
  <2>1. x \in awaited
    BY <1>13 DEF HandleRunnerAccept
  <2>2. toRunner' # toRunner
    OBVIOUS
  <2>3. SendTo(p, IF wanted THEN "settings" ELSE "cancel", x)
    BY <1>13, <2>1, <2>2 DEF HandleRunnerAccept
  <2>4. wanted
    BY <1>3, <2>3 DEF ToRunnerType
  <2>5. SendTo(p, "settings", x)
    BY <2>3, <2>4
  <2>6. p = r /\ x = o
    <3>1. "settings" \in ToRunnerType /\ x \in {0} \cup Offer
      BY DEF ToRunnerType
    <3> HIDE DEF wanted
    <3> QED
      BY <1>3, <2>5, <3>1
  <2>7. \A y \in Runner : \A m \in Range(toRunner'[y]) :
            m \in Range(toRunner[y]) \/ m = Message("settings", x)
    BY <1>0, <2>5, ToldMessages DEF ToRunnerType
  <2>8. /\ requestOf' = requestOf /\ executed' = executed
        /\ call' = [call EXCEPT ![q] = "running"]
    BY <1>13, <2>1, <2>4 DEF HandleRunnerAccept, runners
  <2> QED
    BY <1>13, <2>1, <2>4, <2>6, <2>7, <2>8
<1> QED
  BY <1>5, <1>6, <1>7, <1>8, <1>9, <1>10, <1>11, <1>12, <1>13 DEF Next, BrokerMessage

\* Only settings that arrive start code, for the request of their task.
LEMMA NewlyExecuted ==
    ASSUME Typing, Next, NEW q \in Request, NEW o, o \in executed'[q], o \notin executed[q]
    PROVE  /\ requestOf' = requestOf /\ requestOf[o] = q /\ o \in Offer
           /\ \E r \in Runner : Message("settings", o) \in Range(toRunner[r])
<1>0. TypeOK /\ executed \in [Request -> SUBSET Offer]
  BY DEF Typing, TypeOK
<1>1. ASSUME NEW r \in Runner, NEW x \in Offer, ReceivedSettings(r, x)
      PROVE  /\ requestOf' = requestOf /\ requestOf[o] = q /\ o \in Offer
             /\ \E p \in Runner : Message("settings", o) \in Range(toRunner[p])
  <2>1. /\ Gets(r, "settings", x) /\ requestOf' = requestOf
        /\ \/ executed' = [executed EXCEPT ![requestOf[x]] = executed[requestOf[x]] \cup {x}]
           \/ executed' = executed
    BY <1>1 DEF ReceivedSettings, matching
  <2>2. x = o /\ requestOf[x] = q
    BY <1>0, <2>1
  <2>3. Message("settings", x) \in Range(toRunner[r])
    BY <1>0, <2>1, GetsFacts
  <2> QED
    BY <2>1, <2>2, <2>3
<1>2. ASSUME executed' = executed PROVE FALSE
  BY <1>2
<1>3. ASSUME NEW r \in Runner,
             \/ RunnerExits(r) \/ OfferInterval(r) \/ LauncherOffers(r)
             \/ RunnerRegistered(r) \/ StopTaskOffers(r)
             \/ \E x \in Offer : \/ RunnerTimeout(r, x) \/ ExecutionEnds(r, x)
                                 \/ OfferAccepted(r, x) \/ LauncherDefers(r, x)
                                 \/ TaskCancelled(r, x)
      PROVE  executed' = executed
  BY <1>3 DEF RunnerExits, OfferInterval, LauncherOffers, RunnerTimeout, ExecutionEnds,
              RunnerRegistered, StopTaskOffers, OfferAccepted, LauncherDefers, TaskCancelled
<1>4. ASSUME \/ \E p \in Request : StartTask(p) \/ CancelTasks(p) \/ RequestTimeout(p)
             \/ \E x \in Offer : AcceptTimeout(x) \/ TaskTimeout(x)
             \/ StartDraining
             \/ \E r \in Runner : Connect(r) \/ DeregisterRunner(r) \/ BrokerMessage(r)
      PROVE  executed' = executed
  BY <1>4 DEF StartTask, CancelTasks, RequestTimeout, AcceptTimeout, TaskTimeout, StartDraining,
              Connect, DeregisterRunner, BrokerMessage, TaskOffered, HandleRunnerAccept,
              HandleRunnerReject, HandleRunnerDeferred, HandleResult, runners
<1> QED
  BY <1>1, <1>2, <1>3, <1>4 DEF Next, RunnerMessage

\* A call has one task handed over, however often its request is matched.
LEMMA HandedStep ==
    ASSUME Typing, Owned, MatchedOnce, CallsAreHeld, HandedOnce, Next
    PROVE  HandedOnce'
<1>0. /\ TypeOK /\ executed \in [Request -> SUBSET Offer]
      /\ call \in [Request -> {"none", "waiting", "running", "done"}]
      /\ \A o \in awaited : requestOf[o] \in Request
  BY DEF Typing, TypeOK
<1>1. /\ \A o \in Offer : requestOf[o] \in Request => requestOf'[o] = requestOf[o]
      /\ \A q \in Request : call[q] \in {"running", "done"} => call'[q] \in {"running", "done"}
  BY MatchesStay, CallsGoOn
<1> DEFINE HandedNext(o) == \/ \E r \in Runner : Message("settings", o) \in Range(toRunner'[r])
                            \/ \E q \in Request : o \in executed'[q]
<1>2. ASSUME NEW o \in Offer, HandedNext(o), ~Handed(o)
      PROVE  /\ requestOf[o] \in Request /\ call[requestOf[o]] = "waiting"
             /\ requestOf' = requestOf
             /\ call'[requestOf[o]] = "running"
             /\ \A p \in Offer : HandedNext(p) => p = o \/ Handed(p)
  <2>1. ASSUME NEW q \in Request, o \in executed'[q] PROVE FALSE
    BY <1>2, <2>1, NewlyExecuted DEF Handed
  <2>2. PICK r \in Runner : Message("settings", o) \in Range(toRunner'[r])
    BY <1>2, <2>1
  <2>3. Message("settings", o) \notin Range(toRunner[r])
    BY <1>2 DEF Handed
  <2>4. /\ o \in awaited /\ call[requestOf[o]] = "waiting"
        /\ requestOf' = requestOf /\ executed' = executed
        /\ call' = [call EXCEPT ![requestOf[o]] = "running"]
        /\ \A p \in Runner : \A m \in Range(toRunner'[p]) :
                m \in Range(toRunner[p]) \/ m = Message("settings", o)
    BY <2>2, <2>3, NewSettings
  <2>5. \A p : Message("settings", p) = Message("settings", o) => p = o
    BY DEF Message
  <2>6. \A p \in Offer : HandedNext(p) => p = o \/ Handed(p)
    BY <2>4, <2>5 DEF Handed
  <2> QED
    BY <1>0, <2>4, <2>6
<1>3. \A q \in Request : \A o \in executed'[q] : o \in Offer /\ requestOf'[o] = q
  <2> SUFFICES ASSUME NEW q \in Request, NEW o \in executed'[q]
               PROVE  o \in Offer /\ requestOf'[o] = q
    OBVIOUS
  <2>1. CASE o \in executed[q]
    BY <1>0, <1>1, <2>1 DEF HandedOnce
  <2>2. CASE o \notin executed[q]
    BY <2>2, NewlyExecuted
  <2> QED
    BY <2>1, <2>2
<1>4. ASSUME NEW o \in Offer, HandedNext(o)
      PROVE  requestOf'[o] \in Request /\ call'[requestOf'[o]] \in {"running", "done"}
  <2>1. CASE Handed(o)
    BY <1>1, <2>1 DEF HandedOnce
  <2>2. CASE ~Handed(o)
    BY <1>2, <1>4, <2>2
  <2> QED
    BY <2>1, <2>2
<1>5. ASSUME NEW o \in Offer, NEW p \in Offer, HandedNext(o), HandedNext(p),
             requestOf'[o] = requestOf'[p]
      PROVE  o = p
  <2>1. CASE Handed(o) /\ Handed(p)
    BY <1>1, <1>5, <2>1 DEF HandedOnce
  <2>2. ASSUME NEW x \in Offer, NEW y \in Offer, HandedNext(x), HandedNext(y), ~Handed(x),
               requestOf'[x] = requestOf'[y]
        PROVE  x = y
    <3>1. /\ call[requestOf[x]] = "waiting"
          /\ requestOf' = requestOf
          /\ y = x \/ Handed(y)
      BY <1>2, <2>2
    <3>2. Handed(y) => call[requestOf[y]] \in {"running", "done"}
      BY DEF HandedOnce
    <3> QED
      BY <2>2, <3>1, <3>2
  <2> QED
    BY <1>5, <2>1, <2>2
<1>6. \A o : Handed(o)' <=> HandedNext(o)
  BY DEF Handed
<1> HIDE DEF HandedNext
<1> QED
  BY <1>3, <1>4, <1>5, <1>6 DEF HandedOnce

----------------------------------------------------------------------------
(* Code that runs is wanted.                                               *)

\* What a step of a runner does to its tasks, its answers and its queue.
LEMMA RunnerStates ==
    ASSUME Typing, Owned, AcceptedOnce, NEW r \in Runner,
           \/ RunnerExits(r) \/ OfferInterval(r) \/ LauncherOffers(r) \/ RunnerMessage(r)
           \/ \E o \in Offer : RunnerTimeout(r, o) \/ ExecutionEnds(r, o)
    PROVE  /\ \A o \in Offer : status'[o] # status[o] =>
                /\ offeredBy[o] = r
                /\ \/ status'[o] = "none"
                   \/ /\ status[o] = "none" /\ status'[o] = "waitingForSettings"
                      /\ o \in openOffers /\ o \notin openOffers'
                   \/ /\ status[o] = "waitingForSettings" /\ status'[o] = "running"
                      /\ Gets(r, "settings", o)
                   \/ /\ status[o] = "running"
                      /\ status'[o] \in {"aborting:cancelled", "aborting:timeout"}
           /\ \A p \in Runner : \A m \in Range(toBroker'[p]) :
                m.type \in {"accepted", "result"} /\ m \notin Range(toBroker[p]) =>
                    /\ m.task \in Sent /\ m.task \notin openOffers'
                    /\ m.type = "result" => status'[m.task] = "none"
           /\ \/ Kill({r}) /\ toBroker' = toBroker /\ offeredBy' = offeredBy
              \/ /\ connection' = connection /\ connection[r] = "open"
                 /\ \/ toRunner' = toRunner
                    \/ \E type, x : /\ Gets(r, type, x)
                                    /\ type = "cancel" => x \in Offer /\ status'[x] # "running"
<1>0. /\ TypeOK
      /\ status \in [Offer -> {"none", "waitingForSettings", "running", "aborting:cancelled",
                               "aborting:timeout"}]
      /\ openOffers \subseteq Sent /\ Sent \subseteq Offer
      /\ Running(r) = {o \in Sent : offeredBy[o] = r /\ status[o] # "none"}
  BY DEF Typing, TypeOK, Owned, Sent, Running
<1> DEFINE S == \A o \in Offer : status'[o] # status[o] =>
                /\ offeredBy[o] = r
                /\ \/ status'[o] = "none"
                   \/ /\ status[o] = "none" /\ status'[o] = "waitingForSettings"
                      /\ o \in openOffers /\ o \notin openOffers'
                   \/ /\ status[o] = "waitingForSettings" /\ status'[o] = "running"
                      /\ Gets(r, "settings", o)
                   \/ /\ status[o] = "running"
                      /\ status'[o] \in {"aborting:cancelled", "aborting:timeout"}
           A == \A p \in Runner : \A m \in Range(toBroker'[p]) :
                m.type \in {"accepted", "result"} /\ m \notin Range(toBroker[p]) =>
                    /\ m.task \in Sent /\ m.task \notin openOffers'
                    /\ m.type = "result" => status'[m.task] = "none"
           Q == \/ Kill({r}) /\ toBroker' = toBroker /\ offeredBy' = offeredBy
                \/ /\ connection' = connection /\ connection[r] = "open"
                   /\ \/ toRunner' = toRunner
                      \/ \E type, x : /\ Gets(r, type, x)
                                      /\ type = "cancel" => x \in Offer /\ status'[x] # "running"
<1>1. ASSUME NEW type, NEW o, Gets(r, type, o), type \in {"accept", "settings", "cancel"}
      PROVE  o \in Sent /\ offeredBy[o] = r
  <2>1. Message(type, o) \in Range(toRunner[r])
    BY <1>0, <1>1, GetsFacts
  <2>2. o \in Offer /\ offeredBy[o] = r
    BY <1>1, <2>1 DEF Owned, Message
  <2> QED
    BY <2>2, BrokerAssumption DEF Sent
<1>2. ASSUME NEW T \in SUBSET RunnerSays, RunnerSpeaks(r, T),
             \A m \in T : m.type \in {"accepted", "result"} =>
                    /\ m.task \in Sent /\ m.task \notin openOffers'
                    /\ m.type = "result" => status'[m.task] = "none"
      PROVE  A
  <2>1. \A p \in Runner : \A m \in Range(toBroker'[p]) :
                m \in Range(toBroker[p]) \/ m \in T \/ m.type = "offer"
    BY <1>2, RunnerSpoke
  <2> QED
    BY <1>2, <2>1
<1>3. CASE RunnerExits(r)
  <2>1. Kill({r}) /\ toBroker' = toBroker /\ offeredBy' = offeredBy
    BY <1>3 DEF RunnerExits
  <2>2. S
    BY <1>0, <2>1 DEF Kill
  <2> QED
    BY <2>1, <2>2
<1>4. CASE OfferInterval(r) \/ LauncherOffers(r)
  <2>1. SendOffers(r, <<>>, Running(r)) \/ SendOffers(r, <<>>, {})
    BY <1>4 DEF OfferInterval, LauncherOffers
  <2>2. Running(r) \in SUBSET Offer /\ {} \in SUBSET Offer /\ <<>> \in Seq({})
    BY <1>0, EmptySeq
  <2>3. RunnerSpeaks(r, {})
    BY <2>1, <2>2 DEF RunnerSpeaks
  <2>4. A
    BY <1>2, <2>3
  <2>5. UNCHANGED <<status, toRunner, connection>> /\ connection[r] = "open"
    BY <1>4 DEF OfferInterval, LauncherOffers
  <2> HIDE DEF A
  <2> QED
    BY <2>4, <2>5 DEF A
<1>5. CASE RunnerRegistered(r) \/ StopTaskOffers(r)
  <2>1. /\ UNCHANGED <<openOffers, toBroker, status, connection>>
        /\ Gets(r, "registered", 0) \/ Gets(r, "drain", 0)
    BY <1>5 DEF RunnerRegistered, StopTaskOffers
  <2>2. connection[r] = "open"
    BY <2>1 DEF Gets
  <2> QED
    BY <2>1, <2>2
<1>6. \A o \in Offer, type \in ToBrokerType :
        /\ {Message(type, o)} \in SUBSET RunnerSays
        /\ \A m \in {Message(type, o)} : m.task = o /\ m.type = type
        /\ <<Message(type, o)>> \in Seq({Message(type, o)})
        /\ <<>> \in Seq({Message(type, o)})
  <2> TAKE o \in Offer, type \in ToBrokerType
  <2> DEFINE m == Message(type, o)
             T == {m}
  <2>1. m \in RunnerSays /\ m.task = o /\ m.type = type
    BY MessageType
  <2> HIDE DEF m
  <2>2. T \in SUBSET RunnerSays /\ \A x \in T : x.task = o /\ x.type = type
    BY <2>1
  <2>3. m \in T
    OBVIOUS
  <2> HIDE DEF T
  <2>4. <<m>> \in Seq(T) /\ <<>> \in Seq(T)
    BY <2>3, OneMessage
  <2> QED
    BY <2>2, <2>4 DEF m, T
<1>7. ASSUME NEW o \in Offer, OfferAccepted(r, o) PROVE S /\ A /\ Q
  <2>1. /\ Gets(r, "accept", o)
        /\ offeredBy' = offeredBy /\ openOffers' = openOffers \ {o} /\ connection' = connection
        /\ \/ /\ o \in openOffers
              /\ status' = [status EXCEPT ![o] = "waitingForSettings"]
              /\ Reply(r, <<Message("accepted", o)>>)
           \/ Reply(r, <<Message("rejected", o)>>) /\ status' = status
    BY <1>7 DEF OfferAccepted
  <2>2. o \in Sent /\ offeredBy[o] = r /\ connection[r] = "open"
    BY <1>1, <2>1 DEF Gets
  <2>3. S
    BY <1>0, <2>1, <2>2 DEF AcceptedOnce
  <2>4. RunnerSpeaks(r, {Message("accepted", o)}) \/ RunnerSpeaks(r, {Message("rejected", o)})
    BY <1>6, <2>1 DEF RunnerSpeaks, ToBrokerType
  <2>5. A
    <3>1. ASSUME NEW type \in {"accepted", "rejected"}, RunnerSpeaks(r, {Message(type, o)})
          PROVE  A
      <4>1. /\ {Message(type, o)} \in SUBSET RunnerSays
            /\ \A m \in {Message(type, o)} : m.task = o /\ m.type = type
        BY <1>6 DEF ToBrokerType
      <4> QED
        BY <1>2, <2>1, <2>2, <3>1, <4>1
    <3> HIDE DEF A
    <3> QED
      BY <2>4, <3>1
  <2>6. Q
    BY <2>1, <2>2
  <2> QED
    BY <2>3, <2>5, <2>6
<1>8. ASSUME NEW o \in Offer, LauncherDefers(r, o) PROVE S /\ A /\ Q
  <2>1. /\ Gets(r, "accept", o) /\ connection' = connection /\ status' = status
        /\ offeredBy' = offeredBy /\ openOffers' \subseteq openOffers
        /\ Reply(r, <<Message("deferred", o)>>)
    BY <1>8 DEF LauncherDefers
  <2>2. connection[r] = "open"
    BY <2>1 DEF Gets
  <2>3. RunnerSpeaks(r, {Message("deferred", o)})
    BY <1>6, <2>1 DEF RunnerSpeaks, ToBrokerType
  <2>4. A
    <3>1. /\ {Message("deferred", o)} \in SUBSET RunnerSays
          /\ \A m \in {Message("deferred", o)} : m.type = "deferred"
      BY <1>6 DEF ToBrokerType
    <3> QED
      BY <1>2, <2>3, <3>1
  <2> HIDE DEF A
  <2> QED
    BY <2>1, <2>2, <2>4
<1>9. ASSUME NEW o \in Offer, ReceivedSettings(r, o) PROVE S /\ A /\ Q
  <2>1. /\ Gets(r, "settings", o) /\ connection' = connection
        /\ UNCHANGED <<toBroker, openOffers>>
        /\ \/ status[o] = "waitingForSettings" /\ status' = [status EXCEPT ![o] = "running"]
           \/ status' = status
    BY <1>9 DEF ReceivedSettings
  <2>2. o \in Sent /\ offeredBy[o] = r /\ connection[r] = "open"
    BY <1>1, <2>1 DEF Gets
  <2>3. S
    BY <1>0, <2>1, <2>2
  <2> QED
    BY <2>1, <2>2, <2>3
<1>10. ASSUME NEW o \in Offer,
              TaskCancelled(r, o) \/ RunnerTimeout(r, o) \/ ExecutionEnds(r, o)
       PROVE  S /\ A /\ Q
  <2>1. /\ o \in Sent /\ offeredBy[o] = r /\ connection[r] = "open" /\ connection' = connection
        /\ \/ toRunner' = toRunner
           \/ Gets(r, "cancel", o) /\ TaskCancelled(r, o)
    <3>1. TaskCancelled(r, o) => Gets(r, "cancel", o) /\ connection' = connection
      BY DEF TaskCancelled
    <3>2. ~TaskCancelled(r, o) => /\ o \in Running(r) /\ toRunner' = toRunner
                                  /\ connection' = connection /\ connection[r] = "open"
      BY <1>10 DEF RunnerTimeout, ExecutionEnds
    <3>3. Gets(r, "cancel", o) => o \in Sent /\ offeredBy[o] = r /\ connection[r] = "open"
      BY <1>1 DEF Gets
    <3> QED
      BY <1>0, <1>10, <3>1, <3>2, <3>3
  <2>2. \/ /\ UNCHANGED <<offeredBy, openOffers, toBroker>>
           /\ \/ status' = status
              \/ /\ status[o] = "running"
                 /\ \/ status' = [status EXCEPT ![o] = "aborting:cancelled"]
                    \/ status' = [status EXCEPT ![o] = "aborting:timeout"]
        \/ /\ status[o] # "none" /\ status' = [status EXCEPT ![o] = "none"]
           /\ \E said \in {<<>>, <<Message("result", o)>>} : SendOffers(r, said, Running(r) \ {o})
    BY <1>0, <1>10 DEF TaskCancelled, RunnerTimeout, ExecutionEnds, FinishTask
  <2>3. S
    BY <1>0, <2>1, <2>2
  <2>4. A
    <3>1. CASE toBroker' = toBroker
      BY <3>1
    <3>2. CASE /\ status[o] # "none" /\ status' = [status EXCEPT ![o] = "none"]
               /\ \E said \in {<<>>, <<Message("result", o)>>} :
                        SendOffers(r, said, Running(r) \ {o})
      <4> DEFINE T == {Message("result", o)}
      <4>1. /\ T \in SUBSET RunnerSays
            /\ \A m \in T : m.task = o /\ m.type = "result"
            /\ <<Message("result", o)>> \in Seq(T) /\ <<>> \in Seq(T)
        BY <1>6 DEF ToBrokerType
      <4> HIDE DEF T
      <4>2. RunnerSpeaks(r, T)
        BY <1>0, <3>2, <4>1 DEF RunnerSpeaks
      <4>3. openOffers' \subseteq openOffers \cup (Sent' \ Sent)
        BY <4>1, <4>2, RunnerSpoke
      <4>4. o \notin openOffers' /\ status'[o] = "none"
        BY <1>0, <2>1, <3>2, <4>3 DEF AcceptedOnce
      <4> QED
        BY <1>2, <2>1, <4>1, <4>2, <4>4
    <3> HIDE DEF A
    <3> QED
      BY <2>2, <3>1, <3>2
  <2>5. TaskCancelled(r, o) => status'[o] # "running"
    BY <1>0 DEF TaskCancelled, FinishTask
  <2>6. Q
    BY <2>1, <2>5
  <2> QED
    BY <2>3, <2>4, <2>6
<1>11. S /\ A /\ Q
  <2> HIDE DEF S, A, Q
  <2>1. CASE RunnerExits(r) \/ OfferInterval(r) \/ LauncherOffers(r)
             \/ RunnerRegistered(r) \/ StopTaskOffers(r)
    BY <1>3, <1>4, <1>5, <2>1 DEF S, A, Q
  <2> QED
    BY <2>1, <1>7, <1>8, <1>9, <1>10 DEF RunnerMessage
<1> QED
  BY <1>11

\* The steps of broker and requester, which share a process.
BrokerStep ==
    \/ \E q \in Request : StartTask(q) \/ CancelTasks(q) \/ RequestTimeout(q)
    \/ \E o \in Offer : AcceptTimeout(o) \/ TaskTimeout(o)
    \/ StartDraining
    \/ \E r \in Runner : Connect(r) \/ DeregisterRunner(r) \/ BrokerMessage(r)

\* What reaches a runner is nothing, or messages of any set of messages.
LEMMA AddsMore ==
    ASSUME NEW S, NEW s \in Seq(S), NEW T, NEW new, NEW U
    PROVE  /\ Adds(s, s, T)
           /\ T \subseteq U /\ Adds(s, new, T) => Adds(s, new, U)
<1>1. s = s \o <<>> /\ <<>> \in Seq(T)
  BY ConcatEmptySeq, EmptySeq
<1>2. T \subseteq U => Seq(T) \subseteq Seq(U)
  BY SeqMonotonic
<1> QED
  BY <1>1, <1>2 DEF Adds

\* What the broker says to a runner that hands no task over.
NoSettings == {m \in BrokerSays : m.type # "settings"}

\* Acceptances, cancellations and the announcement of a shutdown hand no task over.
LEMMA NoSettingsMessage ==
    ASSUME NEW o \in {0} \cup Offer, NEW type \in {"accept", "cancel", "drain"}
    PROVE  Message(type, o) \in NoSettings
<1>1. type \in ToRunnerType /\ type # "settings"
  BY DEF ToRunnerType
<1>2. Message(type, o) \in BrokerSays /\ Message(type, o).type = type
  BY <1>1, MessageType
<1> QED
  BY <1>1, <1>2 DEF NoSettings

\* What a step of the broker means for a runner: its process is killed, or it connects, or
\* it is told something, which is settings only when it has accepted and the call now waits
\* for its task.
RunnerHears(p) ==
    \/ /\ connection'[p] = "closed" /\ toRunner'[p] = <<>>
       /\ \A o \in Offer : offeredBy[o] = p => status'[o] = "none"
    \/ /\ connection[p] = "closed" /\ connection'[p] = "open"
       /\ toRunner'[p] = <<Message("registered", 0)>>
    \/ /\ connection'[p] = connection[p]
       /\ connection[p] = "closed" => toRunner'[p] = toRunner[p]
       /\ p \in knownRunners' => p \in knownRunners
       /\ \/ Adds(toRunner[p], toRunner'[p], NoSettings)
          \/ \E o \in Offer : /\ HandleRunnerAccept(p, o) /\ Awaits(o)'
                              /\ Adds(toRunner[p], toRunner'[p], {Message("settings", o)})

\* The broker takes messages of runners, and tells them what RunnerHears says.
LEMMA BrokerTells ==
    ASSUME Typing, Owned, CallsAreHeld, AcceptedOnce, BrokerStep
    PROVE  /\ offeredBy' = offeredBy /\ openOffers' \subseteq openOffers
           /\ \A o \in Offer : status'[o] \in {status[o], "none"}
           /\ \A p \in Runner : Range(toBroker'[p]) \subseteq Range(toBroker[p])
           /\ \A p \in Runner : RunnerHears(p)
<1>0. /\ TypeOK /\ pendingTaskRequests \in Seq(Request) /\ pendingTaskOffers \in Seq(Offer)
      /\ toRunner \in [Runner -> Seq(BrokerSays)] /\ tasks \subseteq Offer
      /\ knownRunners \subseteq Runner /\ connection \in [Runner -> {"open", "closed"}]
      /\ offeredBy \in [Offer -> {"nobody"} \cup Runner]
      /\ call \in [Request -> {"none", "waiting", "running", "done"}]
      /\ taskOf \in [Request -> {0} \cup Offer]
      /\ \A o \in awaited : requestOf[o] \in Request
  BY DEF Typing, TypeOK, BrokerSays
<1> DEFINE Kept1 == /\ offeredBy' = offeredBy /\ openOffers' \subseteq openOffers
                    /\ \A o \in Offer : status'[o] \in {status[o], "none"}
                    /\ \A p \in Runner : Range(toBroker'[p]) \subseteq Range(toBroker[p])
           Hears == \A p \in Runner : RunnerHears(p)
<1>1. ASSUME UNCHANGED connection, knownRunners' \subseteq knownRunners,
             \A p \in Runner : Adds(toRunner[p], toRunner'[p], NoSettings),
             \A p \in Runner : connection[p] = "closed" => toRunner'[p] = toRunner[p]
      PROVE  Hears
  BY <1>1 DEF RunnerHears
<1>2. ASSUME UNCHANGED connection, knownRunners' \subseteq knownRunners, UNCHANGED toRunner
      PROVE  Hears
  <2>1. \A p \in Runner : Adds(toRunner[p], toRunner[p], NoSettings)
    BY <1>0, AddsMore
  <2> QED
    BY <1>1, <1>2, <2>1
<1>3. ASSUME NEW r \in Runner, NEW type \in {"cancel"}, NEW o \in Offer, SendTo(r, type, o),
             UNCHANGED connection, knownRunners' \subseteq knownRunners
      PROVE  Hears
  <2>1. /\ \A p \in Runner : Adds(toRunner[p], toRunner'[p], {Message(type, o)})
        /\ \A p \in Runner : connection[p] = "closed" => toRunner'[p] = toRunner[p]
    BY <1>0, <1>3, Told DEF ToRunnerType
  <2>2. {Message(type, o)} \subseteq NoSettings
    BY <1>3, NoSettingsMessage
  <2>3. \A p \in Runner : Adds(toRunner[p], toRunner'[p], NoSettings)
    BY <1>0, <2>1, <2>2, AddsMore
  <2> QED
    BY <1>1, <1>3, <2>1, <2>3
<1>4. ASSUME NEW requests \in Seq(Request), NEW offers \in Seq(Offer),
             SettleTasks(requests, offers), UNCHANGED <<connection, knownRunners>>
      PROVE  Hears
  <2>0. PICK matched \in SUBSET Range(offers) : Settled(requests, offers, matched)
    BY <1>0, <1>4, SettleFacts
  <2>1. /\ matched \subseteq Offer
        /\ \A r \in Runner : connection[r] = "closed" => toRunner'[r] = toRunner[r]
        /\ \A r \in Runner : Adds(toRunner[r], toRunner'[r],
                                  {Message("accept", o) : o \in {x \in matched : offeredBy[x] = r}})
    BY <2>0 DEF Settled
  <2>2. \A o \in Offer : Message("accept", o) \in NoSettings
    BY NoSettingsMessage
  <2>3. ASSUME NEW r \in Runner PROVE Adds(toRunner[r], toRunner'[r], NoSettings)
    <3> DEFINE T == {Message("accept", o) : o \in {x \in matched : offeredBy[x] = r}}
    <3>1. T \subseteq NoSettings /\ Adds(toRunner[r], toRunner'[r], T)
      BY <2>1, <2>2
    <3> HIDE DEF T
    <3> QED
      BY <1>0, <3>1, AddsMore
  <2> QED
    BY <1>1, <1>4, <2>1, <2>3
<1>5. UNCHANGED toBroker => \A p \in Runner : Range(toBroker'[p]) \subseteq Range(toBroker[p])
  OBVIOUS
<1>6. ASSUME NEW q \in Request, StartTask(q) PROVE Kept1 /\ Hears
  <2>1. UNCHANGED <<runners, toBroker, knownRunners>>
    BY <1>6 DEF StartTask, matching
  <2>2. Kept1 /\ UNCHANGED connection
    BY <1>5, <2>1 DEF runners
  <2>3. SettleTasks(Append(pendingTaskRequests, q), pendingTaskOffers) \/ UNCHANGED toRunner
    BY <1>6 DEF StartTask
  <2>4. Append(pendingTaskRequests, q) \in Seq(Request)
    BY <1>0, Appended
  <2> HIDE DEF Kept1, Hears
  <2> QED
    BY <1>0, <1>2, <1>4, <2>1, <2>2, <2>3, <2>4
<1>7. ASSUME NEW q \in Request, CancelTasks(q) PROVE Kept1 /\ Hears
  <2>1. taskOf[q] \in Offer /\ offeredBy[taskOf[q]] \in Runner
    BY <1>0, <1>7 DEF CancelTasks, CallsAreHeld, Owned
  <2>2. /\ SendTo(offeredBy[taskOf[q]], "cancel", taskOf[q])
        /\ UNCHANGED <<runners, toBroker, knownRunners>>
    BY <1>7 DEF CancelTasks, matching
  <2>3. Kept1 /\ UNCHANGED connection
    BY <1>5, <2>2 DEF runners
  <2> HIDE DEF Kept1, Hears
  <2> QED
    BY <1>3, <2>1, <2>2, <2>3
<1>8. ASSUME \/ \E q \in Request : RequestTimeout(q)
             \/ \E o \in Offer : AcceptTimeout(o)
      PROVE  Kept1 /\ Hears
  <2>1. UNCHANGED <<runners, toBroker, toRunner, knownRunners>>
    BY <1>8 DEF RequestTimeout, AcceptTimeout
  <2>2. Kept1 /\ UNCHANGED connection
    BY <1>5, <2>1 DEF runners
  <2> HIDE DEF Kept1, Hears
  <2> QED
    BY <1>2, <2>1, <2>2
<1>9. ASSUME NEW o \in Offer, TaskTimeout(o) PROVE Kept1 /\ Hears
  <2>1. /\ offeredBy[o] \in Runner /\ UNCHANGED <<offeredBy, toBroker, knownRunners>>
        /\ \/ Kill({r \in Runner : connection[r] = "open"})
           \/ /\ SendTo(offeredBy[o], "cancel", o)
              /\ UNCHANGED <<connection, openOffers, status>>
    BY <1>0, <1>9 DEF TaskTimeout, Owned, matching
  <2>2. CASE SendTo(offeredBy[o], "cancel", o) /\ UNCHANGED <<connection, openOffers, status>>
    <3>1. Kept1
      BY <1>5, <2>1, <2>2
    <3> HIDE DEF Kept1, Hears
    <3> QED
      BY <1>3, <2>1, <2>2, <3>1
  <2>3. CASE Kill({r \in Runner : connection[r] = "open"})
    <3>1. openOffers' \subseteq openOffers /\ \A x \in Offer : status'[x] \in {status[x], "none"}
      BY <2>3 DEF Kill
    <3>2. Kept1
      BY <1>5, <2>1, <3>1
    <3>3. ASSUME NEW p \in Runner PROVE RunnerHears(p)
      <4>1. /\ connection'[p] = "closed"
            /\ \A x \in Offer : offeredBy[x] = p =>
                    status'[x] = IF connection[p] = "open" THEN "none" ELSE status[x]
            /\ toRunner'[p] = IF connection[p] = "open" THEN <<>> ELSE toRunner[p]
        BY <1>0, <2>3 DEF Kill
      <4>2. connection[p] = "closed" =>
                toRunner[p] = <<>> /\ \A x \in Offer : offeredBy[x] = p => status[x] = "none"
        BY DEF AcceptedOnce
      <4> QED
        BY <1>0, <4>1, <4>2 DEF RunnerHears
    <3> HIDE DEF Kept1
    <3> QED
      BY <3>2, <3>3
  <2> QED
    BY <2>1, <2>2, <2>3
<1>10. ASSUME StartDraining PROVE Kept1 /\ Hears
  <2>1. UNCHANGED <<runners, toBroker, knownRunners>>
    BY <1>10 DEF StartDraining, matching
  <2>2. Kept1 /\ UNCHANGED <<connection, knownRunners>>
    BY <1>5, <2>1 DEF runners
  <2>3. NoSettings \subseteq BrokerSays /\ <<Message("drain", 0)>> \in Seq(NoSettings)
    <3> DEFINE m == Message("drain", 0)
    <3>1. m \in NoSettings
      BY NoSettingsMessage
    <3> HIDE DEF m
    <3>2. <<m>> \in Seq(NoSettings)
      BY <3>1, OneMessage
    <3> QED
      BY <3>2 DEF m, NoSettings
  <2>4. \A p \in Runner : toRunner'[p] = Deliver(p, <<Message("drain", 0)>>)
    BY <1>10 DEF StartDraining
  <2>5. \A p \in Runner : /\ Adds(toRunner[p], toRunner'[p], NoSettings)
                          /\ connection[p] = "closed" => toRunner'[p] = toRunner[p]
    BY <1>0, <2>3, <2>4, Delivered
  <2> HIDE DEF Kept1, Hears
  <2> QED
    BY <1>1, <2>2, <2>5
<1>11. ASSUME NEW r \in Runner, Connect(r) PROVE Kept1 /\ Hears
  <2>1. /\ connection[r] = "closed"
        /\ connection' = [connection EXCEPT ![r] = "open"]
        /\ knownRunners' = knownRunners \cup {r}
        /\ toRunner' = [toRunner EXCEPT ![r] = <<Message("registered", 0)>>]
        /\ UNCHANGED <<openOffers, status, offeredBy, toBroker>>
    BY <1>11 DEF Connect
  <2>2. Kept1
    BY <1>5, <2>1
  <2>3. ASSUME NEW p \in Runner \ {r} PROVE RunnerHears(p)
    <3>1. Adds(toRunner[p], toRunner[p], NoSettings)
      BY <1>0, AddsMore
    <3> QED
      BY <1>0, <2>1, <3>1 DEF RunnerHears
  <2>4. RunnerHears(r)
    BY <1>0, <2>1 DEF RunnerHears
  <2> HIDE DEF Kept1
  <2> QED
    BY <2>2, <2>3, <2>4
<1>12. ASSUME NEW r \in Runner, DeregisterRunner(r) PROVE Kept1 /\ Hears
  <2>1. /\ knownRunners' = knownRunners \ {r} /\ toBroker' = [toBroker EXCEPT ![r] = <<>>]
        /\ UNCHANGED <<runners, toRunner>>
    BY <1>12 DEF DeregisterRunner
  <2>2. \A p \in Runner : toBroker'[p] = toBroker[p] \/ toBroker'[p] = <<>>
    BY <1>0, <2>1 DEF TypeOK
  <2>3. \A p \in Runner : Range(toBroker'[p]) \subseteq Range(toBroker[p])
    BY <2>2 DEF Range
  <2>4. Kept1 /\ UNCHANGED connection
    BY <2>1, <2>3 DEF runners
  <2> HIDE DEF Kept1, Hears
  <2> QED
    BY <1>2, <2>1, <2>4
<1>13. ASSUME NEW r \in Runner, NEW o \in Offer, TaskOffered(r, o) PROVE Kept1 /\ Hears
  <2>1. /\ Receives(r, "offer", o) /\ UNCHANGED <<runners, knownRunners>>
        /\ SettleTasks(pendingTaskRequests, Append(pendingTaskOffers, o))
    BY <1>13 DEF TaskOffered
  <2>2. Kept1 /\ UNCHANGED connection
    BY <1>0, <2>1, ReceivesFacts DEF runners
  <2>3. Append(pendingTaskOffers, o) \in Seq(Offer)
    BY <1>0, Appended
  <2> HIDE DEF Kept1, Hears
  <2> QED
    BY <1>0, <1>4, <2>1, <2>2, <2>3
<1>14. ASSUME NEW r \in Runner, NEW o \in Offer,
              \/ HandleRunnerReject(r, o) \/ HandleRunnerDeferred(r, o) \/ HandleResult(r, o)
       PROVE  Kept1 /\ Hears
  <2>1. /\ \E type : Receives(r, type, o)
        /\ UNCHANGED <<runners, knownRunners, toRunner>>
    BY <1>14 DEF HandleRunnerReject, HandleRunnerDeferred, HandleResult, matching
  <2>2. Kept1 /\ UNCHANGED connection
    BY <1>0, <2>1, ReceivesFacts DEF runners
  <2> HIDE DEF Kept1, Hears
  <2> QED
    BY <1>2, <2>1, <2>2
<1>15. ASSUME NEW r \in Runner, NEW o \in Offer, HandleRunnerAccept(r, o) PROVE Kept1 /\ Hears
  <2> DEFINE q == requestOf[o]
             pending == q \in Range(pendingTaskRequests)
             wanted == pending /\ call[q] = "waiting"
  <2>1. Receives(r, "accepted", o) /\ UNCHANGED <<runners, knownRunners>>
    BY <1>15 DEF HandleRunnerAccept, matching
  <2>2. Kept1 /\ UNCHANGED connection
    BY <1>0, <2>1, ReceivesFacts DEF runners
  <2>3. CASE o \notin awaited \/ ~pending
    <3>1. UNCHANGED toRunner
      BY <1>15, <2>3 DEF HandleRunnerAccept
    <3> HIDE DEF Kept1, Hears
    <3> QED
      BY <1>2, <2>1, <2>2, <3>1
  <2>4. CASE o \in awaited /\ pending /\ ~wanted
    <3>1. SendTo(r, "cancel", o)
      BY <1>15, <2>4 DEF HandleRunnerAccept
    <3> HIDE DEF Kept1, Hears
    <3> QED
      BY <1>3, <2>1, <2>2, <3>1
  <2>5. CASE o \in awaited /\ wanted
    <3>1. /\ SendTo(r, "settings", o) /\ requestOf' = requestOf
          /\ call' = [call EXCEPT ![q] = "running"] /\ taskOf' = [taskOf EXCEPT ![q] = o]
      BY <1>15, <2>5 DEF HandleRunnerAccept
    <3>2. Awaits(o)'
      BY <1>0, <2>5, <3>1 DEF Awaits
    <3>3. /\ \A p \in Runner : Adds(toRunner[p], toRunner'[p], {Message("settings", o)})
          /\ \A p \in Runner \ {r} : toRunner'[p] = toRunner[p]
          /\ \A p \in Runner : connection[p] = "closed" => toRunner'[p] = toRunner[p]
      BY <1>0, <3>1, Told DEF ToRunnerType
    <3>4. \A p \in Runner : Adds(toRunner[p], toRunner[p], NoSettings)
      BY <1>0, AddsMore
    <3>5. \A p \in Runner \ {r} : RunnerHears(p)
      BY <2>1, <2>2, <3>3, <3>4 DEF RunnerHears
    <3>6. RunnerHears(r)
      BY <1>15, <2>1, <2>2, <3>2, <3>3 DEF RunnerHears
    <3> HIDE DEF Kept1
    <3> QED
      BY <2>2, <3>5, <3>6
  <2> QED
    BY <2>3, <2>4, <2>5
<1> HIDE DEF Kept1, Hears
<1>16. Kept1 /\ Hears
  BY <1>6, <1>7, <1>8, <1>9, <1>10, <1>11, <1>12, <1>13, <1>14, <1>15 DEF BrokerStep, BrokerMessage
<1> QED
  BY <1>16 DEF Kept1, Hears

\* What a runner is told by the broker: nothing is taken away, except when it is killed.
LEMMA HeardFacts ==
    ASSUME TypeOK, NEW p \in Runner, RunnerHears(p)
    PROVE  \/ /\ connection'[p] = "closed" /\ toRunner'[p] = <<>>
              /\ \A o \in Offer : offeredBy[o] = p => status'[o] = "none"
           \/ /\ connection[p] = "closed" /\ connection'[p] = "open"
              /\ \A i \in DOMAIN toRunner'[p] : toRunner'[p][i].type # "settings"
           \/ /\ connection'[p] = connection[p]
              /\ connection[p] = "closed" => toRunner'[p] = toRunner[p]
              /\ p \in knownRunners' => p \in knownRunners
              /\ DOMAIN toRunner[p] \subseteq DOMAIN toRunner'[p]
              /\ \A i \in DOMAIN toRunner[p] : toRunner'[p][i] = toRunner[p][i]
              /\ \A i \in DOMAIN toRunner[p], j \in DOMAIN toRunner'[p] \ DOMAIN toRunner[p] : i < j
              /\ \A j \in DOMAIN toRunner'[p] \ DOMAIN toRunner[p] :
                    toRunner'[p][j].type = "settings" =>
                        \E o \in Offer : /\ toRunner'[p][j] = Message("settings", o)
                                         /\ HandleRunnerAccept(p, o) /\ Awaits(o)'
<1>1. toRunner[p] \in Seq(BrokerSays)
  BY DEF TypeOK, BrokerSays
<1> DEFINE old == toRunner[p]
           new == toRunner'[p]
<1>0. ASSUME NEW T, T \subseteq BrokerSays, Adds(old, new, T)
      PROVE  /\ DOMAIN old \subseteq DOMAIN new
             /\ \A i \in DOMAIN old : new[i] = old[i]
             /\ \A i \in DOMAIN new \ DOMAIN old : new[i] \in T
             /\ \A i \in DOMAIN old, j \in DOMAIN new \ DOMAIN old : i < j
  <2>1. old \in Seq(BrokerSays)
    BY <1>1
  <2> HIDE DEF old, new
  <2> QED
    BY <1>0, <2>1, AddsFacts
<1>2. CASE /\ connection[p] = "closed" /\ connection'[p] = "open"
           /\ toRunner'[p] = <<Message("registered", 0)>>
  <2>1. Message("registered", 0).type = "registered"
    BY DEF Message
  <2> QED
    BY <1>2, <2>1
<1>3. CASE /\ connection'[p] = connection[p]
           /\ connection[p] = "closed" => toRunner'[p] = toRunner[p]
           /\ p \in knownRunners' => p \in knownRunners
           /\ Adds(toRunner[p], toRunner'[p], NoSettings)
  <2>1. NoSettings \subseteq BrokerSays /\ \A m \in NoSettings : m.type # "settings"
    BY DEF NoSettings
  <2>2. /\ DOMAIN toRunner[p] \subseteq DOMAIN toRunner'[p]
        /\ \A i \in DOMAIN toRunner[p] : toRunner'[p][i] = toRunner[p][i]
        /\ \A i \in DOMAIN toRunner'[p] \ DOMAIN toRunner[p] : toRunner'[p][i] \in NoSettings
        /\ \A i \in DOMAIN toRunner[p], j \in DOMAIN toRunner'[p] \ DOMAIN toRunner[p] : i < j
    BY <1>0, <1>3, <2>1
  <2> QED
    BY <1>3, <2>1, <2>2
<1>4. ASSUME NEW o \in Offer, HandleRunnerAccept(p, o), Awaits(o)',
             connection'[p] = connection[p],
             connection[p] = "closed" => toRunner'[p] = toRunner[p],
             p \in knownRunners' => p \in knownRunners,
             Adds(toRunner[p], toRunner'[p], {Message("settings", o)})
      PROVE  /\ DOMAIN toRunner[p] \subseteq DOMAIN toRunner'[p]
             /\ \A i \in DOMAIN toRunner[p] : toRunner'[p][i] = toRunner[p][i]
             /\ \A i \in DOMAIN toRunner[p], j \in DOMAIN toRunner'[p] \ DOMAIN toRunner[p] : i < j
             /\ \A j \in DOMAIN toRunner'[p] \ DOMAIN toRunner[p] :
                    toRunner'[p][j] = Message("settings", o)
  <2> DEFINE T == {Message("settings", o)}
  <2>1. T \subseteq BrokerSays
    BY MessageType DEF ToRunnerType
  <2>2. Adds(toRunner[p], toRunner'[p], T)
    BY <1>4
  <2> HIDE DEF T
  <2>3. /\ DOMAIN toRunner[p] \subseteq DOMAIN toRunner'[p]
        /\ \A i \in DOMAIN toRunner[p] : toRunner'[p][i] = toRunner[p][i]
        /\ \A i \in DOMAIN toRunner'[p] \ DOMAIN toRunner[p] : toRunner'[p][i] \in T
        /\ \A i \in DOMAIN toRunner[p], j \in DOMAIN toRunner'[p] \ DOMAIN toRunner[p] : i < j
    BY <1>0, <2>1, <2>2
  <2> QED
    BY <2>3 DEF T
<1>5. CASE /\ connection'[p] = connection[p]
           /\ connection[p] = "closed" => toRunner'[p] = toRunner[p]
           /\ p \in knownRunners' => p \in knownRunners
           /\ \E o \in Offer : /\ HandleRunnerAccept(p, o) /\ Awaits(o)'
                               /\ Adds(toRunner[p], toRunner'[p], {Message("settings", o)})
  BY <1>4, <1>5
<1> QED
  BY <1>2, <1>3, <1>5 DEF RunnerHears

\* A runner accepts an offer once.
LEMMA AcceptedStep ==
    ASSUME Typing, Owned, CallsAreHeld, AcceptedOnce, Next
    PROVE  AcceptedOnce'
<1>0. /\ TypeOK /\ toRunner \in [Runner -> Seq(BrokerSays)]
      /\ toBroker \in [Runner -> Seq(RunnerSays)]
      /\ connection \in [Runner -> {"open", "closed"}]
      /\ \A o \in Offer : offeredBy[o] \in Runner => o \in Sent
      /\ \A o \in Sent : offeredBy[o] \in Runner /\ o \in Offer
      /\ "nobody" \notin Runner
  BY BrokerAssumption DEF Typing, TypeOK, BrokerSays, RunnerSays, Sent
<1>1. CASE BrokerStep
  <2>1. /\ offeredBy' = offeredBy /\ openOffers' \subseteq openOffers
        /\ \A o \in Offer : status'[o] \in {status[o], "none"}
        /\ \A p \in Runner : Range(toBroker'[p]) \subseteq Range(toBroker[p])
        /\ \A p \in Runner : RunnerHears(p)
    BY <1>1, BrokerTells
  <2>2. \A o \in openOffers' : status'[o] = "none"
    BY <1>0, <2>1 DEF AcceptedOnce, Owned
  <2>3. \A r \in Runner : \A m \in Range(toBroker'[r]) :
            /\ m.type \in {"accepted", "result"} => m.task \notin openOffers'
            /\ m.type = "result" => status'[m.task] = "none"
    BY <2>1 DEF AcceptedOnce, Owned
  <2>4. ASSUME NEW r \in Runner, NEW m \in Range(toRunner'[r]), m.type = "settings"
        PROVE  m.task \notin openOffers'
    <3>1. PICK i \in DOMAIN toRunner'[r] : toRunner'[r][i] = m
      BY <2>4 DEF Range
    <3>2. \/ toRunner'[r] = <<>>
          \/ i \in DOMAIN toRunner[r] /\ toRunner[r][i] = m
          \/ \E o \in Offer : m = Message("settings", o) /\ HandleRunnerAccept(r, o)
      BY <1>0, <2>1, <2>4, <3>1, HeardFacts
    <3>3. CASE toRunner'[r] = <<>>
      BY <3>1, <3>3
    <3>4. CASE i \in DOMAIN toRunner[r] /\ toRunner[r][i] = m
      BY <2>1, <2>4, <3>4 DEF AcceptedOnce, Range
    <3>5. ASSUME NEW o \in Offer, m = Message("settings", o), HandleRunnerAccept(r, o)
          PROVE  m.task \notin openOffers'
      <4>1. Message("accepted", o) \in Range(toBroker[r])
        BY <1>0, <3>5, ReceivesFacts DEF HandleRunnerAccept
      <4>2. m.task = o /\ Message("accepted", o).task = o /\ Message("accepted", o).type = "accepted"
        BY <3>5 DEF Message
      <4> QED
        BY <2>1, <4>1, <4>2 DEF AcceptedOnce
    <3> QED
      BY <3>2, <3>3, <3>4, <3>5
  <2>5. ASSUME NEW r \in Runner, connection'[r] = "closed"
        PROVE  toRunner'[r] = <<>> /\ \A o \in Offer : offeredBy'[o] = r => status'[o] = "none"
    <3>1. \/ /\ toRunner'[r] = <<>>
             /\ \A o \in Offer : offeredBy[o] = r => status'[o] = "none"
          \/ connection[r] = "closed" /\ toRunner'[r] = toRunner[r]
      BY <1>0, <2>1, <2>5, HeardFacts
    <3> QED
      BY <2>1, <3>1 DEF AcceptedOnce
  <2> QED
    BY <2>2, <2>3, <2>4, <2>5 DEF AcceptedOnce
<1>2. ASSUME NEW r \in Runner,
             \/ RunnerExits(r) \/ OfferInterval(r) \/ LauncherOffers(r) \/ RunnerMessage(r)
             \/ \E o \in Offer : RunnerTimeout(r, o) \/ ExecutionEnds(r, o)
      PROVE  AcceptedOnce'
  <2>1. /\ \A o \in Sent : offeredBy'[o] = offeredBy[o]
        /\ openOffers' \subseteq openOffers \cup (Sent' \ Sent)
    <3>1. RunnerSpeaks(r, Answers) /\ Answers \in SUBSET RunnerSays
      BY <1>2, RunnerAnswers DEF Answers
    <3> QED
      BY <3>1, RunnerSpoke
  <2>2. /\ \A o \in Offer : status'[o] # status[o] =>
                /\ offeredBy[o] = r
                /\ \/ status'[o] = "none"
                   \/ o \in openOffers /\ o \notin openOffers'
                   \/ status[o] \in {"waitingForSettings", "running"}
        /\ \A p \in Runner : \A m \in Range(toBroker'[p]) :
                m.type \in {"accepted", "result"} /\ m \notin Range(toBroker[p]) =>
                    /\ m.task \in Sent /\ m.task \notin openOffers'
                    /\ m.type = "result" => status'[m.task] = "none"
        /\ \/ Kill({r}) /\ toBroker' = toBroker /\ offeredBy' = offeredBy
           \/ /\ connection' = connection /\ connection[r] = "open"
              /\ \/ toRunner' = toRunner
                 \/ \E type, x : Gets(r, type, x)
    BY <1>2, RunnerStates
  <2>3. \A o \in Offer : o \notin Sent => status'[o] = "none"
    BY <1>0, <2>2 DEF Owned
  <2>4. Sent' \subseteq Offer
    BY DEF Sent
  <2>5. \A o \in Sent : status[o] = "none" /\ o \notin openOffers => status'[o] = "none"
    BY <1>0, <2>2
  <2>6. \A o \in openOffers' : status'[o] = "none"
    <3> SUFFICES ASSUME NEW o \in openOffers' PROVE status'[o] = "none"
      OBVIOUS
    <3>1. CASE o \in openOffers
      <4>1. status[o] = "none" /\ o \in Offer
        BY <1>0, <3>1 DEF AcceptedOnce, Owned
      <4> QED
        BY <2>2, <4>1
    <3>2. CASE o \notin Sent
      BY <2>1, <2>3, <2>4, <3>2 DEF Owned
    <3> QED
      BY <2>1, <3>1, <3>2
  <2>7. ASSUME NEW p \in Runner, NEW m \in Range(toBroker'[p])
        PROVE  /\ m.type \in {"accepted", "result"} => m.task \notin openOffers'
               /\ m.type = "result" => status'[m.task] = "none"
    <3>1. CASE m \in Range(toBroker[p])
      <4>1. m.task \in Sent
        BY <1>0, <3>1 DEF Owned
      <4>2. /\ m.type \in {"accepted", "result"} => m.task \notin openOffers
            /\ m.type = "result" => status[m.task] = "none"
        BY <3>1 DEF AcceptedOnce
      <4> QED
        BY <2>1, <2>5, <4>1, <4>2
    <3>2. CASE m \notin Range(toBroker[p])
      BY <2>2, <2>7, <3>2
    <3> QED
      BY <3>1, <3>2
  <2>8. \A p \in Runner : Range(toRunner'[p]) \subseteq Range(toRunner[p])
    <3>1. CASE Kill({r})
      <4>1. \A p \in Runner : toRunner'[p] = toRunner[p] \/ toRunner'[p] = <<>>
        BY <3>1 DEF Kill
      <4> QED
        BY <4>1 DEF Range
    <3>2. ASSUME NEW type, NEW x, Gets(r, type, x)
          PROVE  \A p \in Runner : Range(toRunner'[p]) \subseteq Range(toRunner[p])
      BY <1>0, <3>2, GetsFacts
    <3> QED
      BY <2>2, <3>1, <3>2
  <2>9. ASSUME NEW p \in Runner, NEW m \in Range(toRunner'[p]), m.type = "settings"
        PROVE  m.task \notin openOffers'
    <3>1. m \in Range(toRunner[p])
      BY <2>8, <2>9
    <3>2. m.task \in Offer /\ offeredBy[m.task] = p
      BY <2>9, <3>1 DEF Owned
    <3>3. m.task \in Sent /\ m.task \notin openOffers
      BY <1>0, <2>9, <3>1, <3>2 DEF AcceptedOnce
    <3> QED
      BY <2>1, <3>3
  <2>10. ASSUME NEW p \in Runner, connection'[p] = "closed"
         PROVE  toRunner'[p] = <<>> /\ \A o \in Offer : offeredBy'[o] = p => status'[o] = "none"
    <3>1. CASE Kill({r}) /\ offeredBy' = offeredBy
      <4>1. p = r \/ connection[p] = "closed"
        BY <1>0, <2>10, <3>1 DEF Kill
      <4>2. /\ toRunner'[p] = IF p = r THEN <<>> ELSE toRunner[p]
            /\ \A o \in Offer : status'[o] = IF offeredBy[o] = r THEN "none" ELSE status[o]
        BY <3>1 DEF Kill
      <4> QED
        BY <3>1, <4>1, <4>2 DEF AcceptedOnce
    <3>2. CASE /\ connection' = connection /\ connection[r] = "open"
               /\ \/ toRunner' = toRunner
                  \/ \E type, x : Gets(r, type, x)
      <4>1. p # r /\ connection[p] = "closed"
        BY <2>10, <3>2
      <4>2. toRunner'[p] = toRunner[p]
        BY <1>0, <3>2, <4>1, GetsFacts
      <4>3. ASSUME NEW o \in Offer, offeredBy'[o] = p PROVE status'[o] = "none"
        <5>1. CASE o \in Sent
          <6>1. offeredBy[o] = p
            BY <2>1, <4>3, <5>1
          <6> QED
            BY <2>2, <4>1, <6>1 DEF AcceptedOnce
        <5> QED
          BY <2>3, <5>1
      <4> QED
        BY <4>1, <4>2, <4>3 DEF AcceptedOnce
    <3> QED
      BY <2>2, <3>1, <3>2
  <2> QED
    BY <2>6, <2>7, <2>9, <2>10 DEF AcceptedOnce
<1> QED
  BY <1>1, <1>2 DEF Next, BrokerStep

\* The cancellation of a task comes behind what is under way to its runner.
CancelComes(o) ==
    LET r == offeredBy[o]
    IN \E j \in DOMAIN toRunner'[r] \ DOMAIN toRunner[r] : toRunner'[r][j] = Message("cancel", o)

\* A cancellation reaches its runner's queue unless the runner is unknown or has closed.
LEMMA CancelSent ==
    ASSUME TypeOK, NEW o \in Offer, offeredBy[o] \in Runner, SendTo(offeredBy[o], "cancel", o)
    PROVE  \/ CancelComes(o)
           \/ offeredBy[o] \notin knownRunners
           \/ connection[offeredBy[o]] = "closed"
<1> DEFINE r == offeredBy[o]
           m == Message("cancel", o)
<1>0. "cancel" \in ToRunnerType
  BY DEF ToRunnerType
<1>1. /\ toRunner[r] \in Seq(BrokerSays) /\ m \in BrokerSays
      /\ toRunner'[r] = Deliver(r, <<m>>)
      /\ connection[r] \in {"open", "closed"}
  <2>1. toRunner[r] \in Seq(BrokerSays) /\ connection[r] \in {"open", "closed"}
    BY DEF TypeOK, BrokerSays
  <2>2. m \in BrokerSays
    BY <1>0, MessageType
  <2>3. toRunner'[r] = Deliver(r, <<m>>)
    <3>1. toRunner' = [toRunner EXCEPT ![r] = Deliver(r, <<m>>)]
      BY DEF SendTo
    <3>2. toRunner \in [Runner -> Seq(BrokerSays)]
      BY DEF TypeOK, BrokerSays
    <3> HIDE DEF m
    <3> QED
      BY <3>1, <3>2
  <2> QED
    BY <2>1, <2>2, <2>3
<1>2. CASE r \in knownRunners /\ connection[r] = "open"
  <2>1. toRunner'[r] = toRunner[r] \o <<m>>
    BY <1>1, <1>2 DEF Deliver
  <2> DEFINE s == toRunner[r]
             new == toRunner'[r]
  <2>2. /\ s \in Seq(BrokerSays) /\ <<m>> \in Seq(BrokerSays) /\ new = s \o <<m>>
        /\ Len(<<m>>) = 1 /\ <<m>>[1] = m
    BY <1>1, <2>1, OneMessage
  <2> HIDE DEF s, new, m
  <2>3. /\ Len(s) \in Nat /\ DOMAIN s = 1 .. Len(s)
        /\ new \in Seq(BrokerSays) /\ Len(new) = Len(s) + 1 /\ new[Len(s) + 1] = m
    BY <2>2, LenProperties, ConcatProperties
  <2>4. DOMAIN new = 1 .. Len(s) + 1
    BY <2>3, LenProperties
  <2>5. Len(s) + 1 \in DOMAIN new \ DOMAIN s
    BY <2>3, <2>4
  <2> QED
    BY <2>3, <2>5 DEF CancelComes, s, new, m
<1> QED
  BY <1>1, <1>2

\* A call that waits for a task goes on waiting until the task is over, or its cancellation
\* is sent, or its runner is cut off.
LEMMA AwaitsEnds ==
    ASSUME Typing, Owned, MatchedOnce, CallsAreHeld, AcceptedOnce, BrokerStep,
           NEW o \in Sent, Awaits(o), status[o] # "none"
    PROVE  \/ Awaits(o)'
           \/ status'[o] = "none"
           \/ CancelComes(o)
           \/ offeredBy[o] \notin knownRunners'
<1> DEFINE q == requestOf[o]
           r == offeredBy[o]
           Goal == \/ Awaits(o)'
                   \/ status'[o] = "none"
                   \/ CancelComes(o)
                   \/ r \notin knownRunners'
<1>0. /\ TypeOK /\ o \in Offer /\ q \in Request /\ r \in Runner
      /\ call[q] = "running" /\ taskOf[q] = o
      /\ call \in [Request -> {"none", "waiting", "running", "done"}]
      /\ taskOf \in [Request -> {0} \cup Offer]
      /\ connection[r] \in {"open", "closed"}
  BY DEF Typing, TypeOK, Awaits, Sent
<1>1. connection[r] = "open"
  BY <1>0 DEF AcceptedOnce
<1>2. requestOf'[o] = q
  BY <1>0, MatchesStay DEF Next, BrokerStep
<1>3. ASSUME call'[q] = call[q], taskOf'[q] = taskOf[q] PROVE Goal
  BY <1>0, <1>2, <1>3 DEF Awaits
<1>4. ASSUME NEW ended, Answer(ended), o \notin ended PROVE Goal
  <2>1. call'[q] = call[q] /\ taskOf'[q] = taskOf[q]
    BY <1>0, <1>4 DEF Answer
  <2> QED
    BY <1>3, <2>1
<1>5. ASSUME SendTo(r, "cancel", o), knownRunners' = knownRunners PROVE Goal
  BY <1>0, <1>1, <1>5, CancelSent
<1> HIDE DEF Goal
<1>6. ASSUME NEW p \in Request, StartTask(p) PROVE Goal
  <2>1. /\ call[p] = "none" /\ taskOf' = taskOf
        /\ call' = [call EXCEPT ![p] = "done"] \/ call' = [call EXCEPT ![p] = "waiting"]
    BY <1>6 DEF StartTask
  <2> QED
    BY <1>0, <1>3, <2>1
<1>7. ASSUME NEW p \in Request, CancelTasks(p) PROVE Goal
  <2>1. /\ Answer({taskOf[p]}) /\ SendTo(offeredBy[taskOf[p]], "cancel", taskOf[p])
        /\ knownRunners' = knownRunners
    BY <1>7 DEF CancelTasks, matching
  <2>2. CASE taskOf[p] = o
    BY <1>5, <2>1, <2>2
  <2>3. CASE taskOf[p] # o
    BY <1>4, <2>1, <2>3
  <2> QED
    BY <2>2, <2>3
<1>8. ASSUME NEW p \in Request, RequestTimeout(p) PROVE Goal
  <2>1. call'[q] = call[q] /\ taskOf' = taskOf
    BY <1>0, <1>8 DEF RequestTimeout
  <2> QED
    BY <1>3, <2>1
<1>9. ASSUME NEW x \in Offer, TaskTimeout(x) PROVE Goal
  <2>1. /\ Answer({x}) /\ knownRunners' = knownRunners
        /\ Kill({p \in Runner : connection[p] = "open"}) \/ SendTo(offeredBy[x], "cancel", x)
    BY <1>9 DEF TaskTimeout, matching
  <2>2. CASE x # o
    BY <1>4, <2>1, <2>2
  <2>3. CASE x = o /\ SendTo(offeredBy[x], "cancel", x)
    BY <1>5, <2>1, <2>3
  <2>4. CASE Kill({p \in Runner : connection[p] = "open"})
    <3>1. status'[o] = "none"
      BY <1>0, <1>1, <2>4 DEF Kill
    <3> QED
      BY <3>1 DEF Goal
  <2> QED
    BY <2>1, <2>2, <2>3, <2>4
<1>10. ASSUME NEW p \in Runner, DeregisterRunner(p) PROVE Goal
  <2>1. Answer({x \in tasks : offeredBy[x] = p}) /\ knownRunners' = knownRunners \ {p}
    BY <1>10 DEF DeregisterRunner
  <2>2. CASE p = r
    BY <2>1, <2>2 DEF Goal
  <2>3. CASE p # r
    BY <1>4, <2>1, <2>3
  <2> QED
    BY <2>2, <2>3
<1>11. ASSUME NEW p \in Runner, NEW x \in Offer, HandleResult(p, x) PROVE Goal
  <2>1. Answer({x}) /\ Receives(p, "result", x)
    BY <1>11 DEF HandleResult
  <2>2. Message("result", x) \in Range(toBroker[p])
    BY <1>0, <2>1, ReceivesFacts
  <2>3. status[x] = "none"
    BY <2>2 DEF AcceptedOnce, Message
  <2>4. o \notin {x}
    BY <2>3
  <2> QED
    BY <1>4, <2>1, <2>4
<1>12. ASSUME NEW p \in Runner, NEW x \in Offer, HandleRunnerAccept(p, x) PROVE Goal
  <2>1. \/ call' = call /\ taskOf' = taskOf
        \/ /\ call[requestOf[x]] = "waiting"
           /\ call' = [call EXCEPT ![requestOf[x]] = "running"]
           /\ taskOf' = [taskOf EXCEPT ![requestOf[x]] = x]
    BY <1>12 DEF HandleRunnerAccept, handed
  <2> QED
    BY <1>0, <1>3, <2>1
<1>13. ASSUME \/ \E x \in Offer : AcceptTimeout(x)
              \/ StartDraining
              \/ \E p \in Runner : Connect(p)
              \/ \E p \in Runner, x \in Offer : \/ TaskOffered(p, x) \/ HandleRunnerReject(p, x)
                                                \/ HandleRunnerDeferred(p, x)
       PROVE  Goal
  <2>1. call' = call /\ taskOf' = taskOf
    BY <1>13 DEF AcceptTimeout, StartDraining, Connect, TaskOffered, HandleRunnerReject,
                 HandleRunnerDeferred, handed
  <2> QED
    BY <1>3, <2>1
<1>14. Goal
  BY <1>6, <1>7, <1>8, <1>9, <1>10, <1>11, <1>12, <1>13 DEF BrokerStep, BrokerMessage
<1> QED
  BY <1>14 DEF Goal

\* Code that runs, or is about to be started, stays wanted.
LEMMA WantedStep ==
    ASSUME Typing, Owned, MatchedOnce, CallsAreHeld, AcceptedOnce, SettingsAreWanted,
           RunningIsAwaited, Next
    PROVE  SettingsAreWanted' /\ RunningIsAwaited'
<1>0. /\ TypeOK /\ toRunner \in [Runner -> Seq(BrokerSays)]
      /\ status \in [Offer -> {"none", "waitingForSettings", "running", "aborting:cancelled",
                               "aborting:timeout"}]
      /\ \A o \in Offer : offeredBy[o] \in Runner => o \in Sent
      /\ \A o \in Sent : offeredBy[o] \in Runner /\ o \in Offer
      /\ "nobody" \notin Runner
  BY BrokerAssumption DEF Typing, TypeOK, BrokerSays, Sent
\* A task of which there is a cancellation in the queue behind message i (0: anywhere).
<1> DEFINE Cancels(r, i, o) == \E j \in DOMAIN toRunner[r] :
                                    i < j /\ toRunner[r][j] = Message("cancel", o)
           CancelsNext(r, i, o) == \E j \in DOMAIN toRunner'[r] :
                                        i < j /\ toRunner'[r][j] = Message("cancel", o)
<1>1. ASSUME NEW r \in Runner, NEW i \in DOMAIN toRunner[r],
             toRunner[r][i].type = "settings"
      PROVE  LET o == toRunner[r][i].task
             IN /\ o \in Sent /\ offeredBy[o] = r /\ o \notin openOffers
                /\ status[o] = "waitingForSettings" =>
                        Awaits(o) \/ Cancels(r, i, o) \/ r \notin knownRunners
  <2>1. toRunner[r][i] \in Range(toRunner[r])
    BY DEF Range
  <2>2. /\ toRunner[r][i].task \in Offer /\ offeredBy[toRunner[r][i].task] = r
        /\ toRunner[r][i].task \notin openOffers
    BY <1>1, <2>1 DEF Owned, AcceptedOnce
  <2> QED
    BY <1>0, <1>1, <2>2 DEF SettingsAreWanted
<1>2. \A r \in Runner : /\ DOMAIN toRunner[r] \subseteq Nat \ {0}
                        /\ \A i \in DOMAIN toRunner[r] : 0 < i
  <2>1. \A r \in Runner : Len(toRunner[r]) \in Nat /\ DOMAIN toRunner[r] = 1 .. Len(toRunner[r])
    BY <1>0, LenProperties
  <2> QED
    BY <2>1
<1>3. CASE BrokerStep
  <2>1. /\ offeredBy' = offeredBy /\ Sent' = Sent
        /\ \A o \in Offer : status'[o] \in {status[o], "none"}
        /\ \A p \in Runner : RunnerHears(p)
    BY <1>3, BrokerTells, OffersStay
  \* A cancellation stays in the queue, and who was cut off connects anew or not at all.
  <2>2. ASSUME NEW o \in Sent, NEW i, status[o] # "none", status'[o] # "none",
               Awaits(o) \/ Cancels(offeredBy[o], i, o) \/ offeredBy[o] \notin knownRunners,
               i = 0 \/ i \in DOMAIN toRunner[offeredBy[o]]
        PROVE  Awaits(o)' \/ CancelsNext(offeredBy[o], i, o) \/ offeredBy[o] \notin knownRunners'
    <3> DEFINE r == offeredBy[o]
    <3>1. r \in Runner /\ RunnerHears(r) /\ connection[r] # "closed"
      BY <1>0, <2>1, <2>2 DEF AcceptedOnce
    <3>2. /\ r \in knownRunners' => r \in knownRunners
          /\ DOMAIN toRunner[r] \subseteq DOMAIN toRunner'[r]
          /\ \A j \in DOMAIN toRunner[r] : toRunner'[r][j] = toRunner[r][j]
          /\ \A k \in DOMAIN toRunner[r], j \in DOMAIN toRunner'[r] \ DOMAIN toRunner[r] : k < j
      BY <1>0, <2>2, <3>1, HeardFacts
    <3>3. CASE Cancels(r, i, o)
      BY <3>2, <3>3
    <3>4. CASE r \notin knownRunners
      BY <3>2, <3>4
    <3>5. CASE Awaits(o)
      <4>1. Awaits(o)' \/ CancelComes(o) \/ r \notin knownRunners'
        BY <1>3, <2>2, <3>5, AwaitsEnds
      <4>2. CASE CancelComes(o)
        <5>1. PICK j \in DOMAIN toRunner'[r] \ DOMAIN toRunner[r] :
                        toRunner'[r][j] = Message("cancel", o)
          BY <4>2 DEF CancelComes
        <5>2. toRunner' \in [Runner -> Seq(BrokerSays)]
          BY <1>3, BrokerTypes DEF BrokerStep, Typing, TypeOK, BrokerSays
        <5>3. Len(toRunner'[r]) \in Nat /\ DOMAIN toRunner'[r] = 1 .. Len(toRunner'[r])
          BY <3>1, <5>2, LenProperties
        <5>4. i < j
          BY <2>2, <3>2, <5>1, <5>3
        <5> QED
          BY <5>1, <5>4
      <4> QED
        BY <4>1, <4>2
    <3> QED
      BY <2>2, <3>3, <3>4, <3>5
  <2>3. RunningIsAwaited'
    <3> SUFFICES ASSUME NEW o \in Sent, status'[o] = "running"
                 PROVE  Awaits(o)' \/ CancelsNext(offeredBy[o], 0, o)
                        \/ offeredBy[o] \notin knownRunners'
      BY <2>1 DEF RunningIsAwaited
    <3>1. status[o] = "running"
      BY <1>0, <2>1
    <3>2. Awaits(o) \/ Cancels(offeredBy[o], 0, o) \/ offeredBy[o] \notin knownRunners
      BY <1>0, <1>2, <3>1 DEF RunningIsAwaited
    <3> HIDE DEF Cancels, CancelsNext
    <3> QED
      BY <2>2, <3>1, <3>2
  <2>4. SettingsAreWanted'
    <3> SUFFICES ASSUME NEW r \in Runner, NEW i \in DOMAIN toRunner'[r], NEW o,
                        toRunner'[r][i].type = "settings", toRunner'[r][i].task = o,
                        status'[o] = "waitingForSettings"
                 PROVE  Awaits(o)' \/ CancelsNext(r, i, o) \/ r \notin knownRunners'
      BY DEF SettingsAreWanted, Awaits
    <3>1. \/ i \in DOMAIN toRunner[r] /\ toRunner'[r][i] = toRunner[r][i]
          \/ \E x \in Offer : toRunner'[r][i] = Message("settings", x) /\ Awaits(x)'
      BY <1>0, <2>1, HeardFacts
    <3>2. CASE i \in DOMAIN toRunner[r] /\ toRunner'[r][i] = toRunner[r][i]
      <4>1. /\ o \in Sent /\ offeredBy[o] = r
            /\ status[o] = "waitingForSettings" =>
                    Awaits(o) \/ Cancels(r, i, o) \/ r \notin knownRunners
        BY <1>1, <3>2
      <4>2. status[o] = "waitingForSettings"
        BY <1>0, <2>1, <4>1
      <4> HIDE DEF Cancels, CancelsNext
      <4> QED
        BY <2>2, <3>2, <4>1, <4>2
    <3>3. ASSUME NEW x \in Offer, toRunner'[r][i] = Message("settings", x), Awaits(x)'
          PROVE  Awaits(o)'
      BY <3>3 DEF Message
    <3> HIDE DEF CancelsNext
    <3> QED
      BY <3>1, <3>2, <3>3
  <2> QED
    BY <2>3, <2>4
<1>4. ASSUME NEW r \in Runner,
             \/ RunnerExits(r) \/ OfferInterval(r) \/ LauncherOffers(r) \/ RunnerMessage(r)
             \/ \E o \in Offer : RunnerTimeout(r, o) \/ ExecutionEnds(r, o)
      PROVE  SettingsAreWanted' /\ RunningIsAwaited'
  <2>1. UNCHANGED <<call, taskOf, requestOf, knownRunners>>
    BY <1>4, RunnerLeaves DEF matching, handed
  <2>2. \A o : Awaits(o) => Awaits(o)'
    BY <2>1 DEF Awaits
  <2>3. \A o \in Sent : offeredBy'[o] = offeredBy[o]
    <3>1. RunnerSpeaks(r, Answers) /\ Answers \in SUBSET RunnerSays
      BY <1>4, RunnerAnswers DEF Answers
    <3> QED
      BY <3>1, RunnerSpoke
  <2>4. /\ \A o \in Offer : status'[o] # status[o] =>
                /\ offeredBy[o] = r
                /\ \/ status'[o] = "none"
                   \/ /\ status[o] = "none" /\ status'[o] = "waitingForSettings"
                      /\ o \in openOffers
                   \/ /\ status[o] = "waitingForSettings" /\ status'[o] = "running"
                      /\ Gets(r, "settings", o)
                   \/ /\ status[o] = "running"
                      /\ status'[o] \in {"aborting:cancelled", "aborting:timeout"}
        /\ \/ Kill({r})
           \/ toRunner' = toRunner
           \/ \E type, x : /\ Gets(r, type, x)
                           /\ type = "cancel" => x \in Offer /\ status'[x] # "running"
    BY <1>4, RunnerStates
  <2>5. \A o \in Sent' : status'[o] # "none" => o \in Sent
    <3>1. \A o \in Offer : status[o] # "none" => o \in Sent
      BY DEF Owned
    <3> QED
      BY <1>0, <2>4, <3>1 DEF Sent
  \* Where a message of a queue comes to be, and where it was.
  <2>6. ASSUME NEW p \in Runner, NEW i \in DOMAIN toRunner'[p]
        PROVE  \/ i \in DOMAIN toRunner[p] /\ toRunner'[p] = toRunner[p]
               \/ p = r /\ i + 1 \in DOMAIN toRunner[p] /\ toRunner'[p][i] = toRunner[p][i + 1]
                  /\ toRunner'[p] = Tail(toRunner[p]) /\ toRunner[p] # <<>>
    <3>1. CASE Kill({r})
      <4>1. toRunner'[p] = IF p = r THEN <<>> ELSE toRunner[p]
        BY <3>1 DEF Kill
      <4> QED
        BY <2>6, <4>1
    <3>2. ASSUME NEW type, NEW x, Gets(r, type, x)
          PROVE  \/ i \in DOMAIN toRunner[p] /\ toRunner'[p] = toRunner[p]
                 \/ p = r /\ i + 1 \in DOMAIN toRunner[p] /\ toRunner'[p][i] = toRunner[p][i + 1]
                    /\ toRunner'[p] = Tail(toRunner[p]) /\ toRunner[p] # <<>>
      <4>1. /\ toRunner[r] \in Seq(BrokerSays) /\ toRunner[r] # <<>>
            /\ toRunner'[r] = Tail(toRunner[r])
            /\ p # r => toRunner'[p] = toRunner[p]
        BY <1>0, <3>2, GetsFacts
      <4>2. \A k \in DOMAIN Tail(toRunner[r]) :
                k + 1 \in DOMAIN toRunner[r] /\ Tail(toRunner[r])[k] = toRunner[r][k + 1]
        BY <4>1, Taken
      <4> QED
        BY <2>6, <4>1, <4>2
    <3> QED
      BY <2>4, <2>6, <3>1, <3>2
  \* A cancellation that was under way still is, unless it arrives.
  <2>7. ASSUME NEW o \in Sent, NEW i \in Nat, Cancels(offeredBy[o], i, o),
               status'[o] \in {"waitingForSettings", "running"},
               i > 0 \/ status'[o] = "running"
        PROVE  LET p == offeredBy[o]
               IN \/ toRunner'[p] = toRunner[p] /\ CancelsNext(p, i, o)
                  \/ /\ toRunner'[p] = Tail(toRunner[p]) /\ toRunner[p] # <<>>
                     /\ CancelsNext(p, i - 1, o)
                     /\ i = 0 => CancelsNext(p, 0, o)
    <3> DEFINE p == offeredBy[o]
    <3>1. p \in Runner /\ o \in Offer
      BY <1>0
    <3>2. PICK j \in DOMAIN toRunner[p] : i < j /\ toRunner[p][j] = Message("cancel", o)
      BY <2>7
    <3>3. CASE toRunner'[p] = toRunner[p]
      BY <3>2, <3>3
    <3>4. CASE Kill({r})
      <4>1. /\ toRunner'[p] = IF p = r THEN <<>> ELSE toRunner[p]
            /\ status'[o] = IF p = r THEN "none" ELSE status[o]
        BY <3>1, <3>4 DEF Kill
      <4> QED
        BY <2>7, <3>3, <4>1
    <3>5. ASSUME NEW type, NEW x, Gets(r, type, x), p = r,
                 type = "cancel" => x \in Offer /\ status'[x] # "running"
          PROVE  /\ toRunner'[p] = Tail(toRunner[p]) /\ toRunner[p] # <<>>
                 /\ CancelsNext(p, i - 1, o)
                 /\ i = 0 => CancelsNext(p, 0, o)
      <4>1. /\ toRunner[p] \in Seq(BrokerSays) /\ toRunner[p] # <<>>
            /\ toRunner'[p] = Tail(toRunner[p]) /\ toRunner[p][1] = Message(type, x)
        BY <1>0, <3>5, GetsFacts
      <4>2. \A k \in DOMAIN toRunner[p] \ {1} :
                k - 1 \in DOMAIN Tail(toRunner[p]) /\ Tail(toRunner[p])[k - 1] = toRunner[p][k]
        BY <4>1, Taken
      <4>3. j \in Nat /\ j > 0
        BY <1>2, <3>1
      <4>4. j # 1
        <5>1. CASE i > 0
          BY <3>2, <4>3, <5>1
        <5>2. CASE j = 1 /\ status'[o] = "running"
          <6>1. Message(type, x) = Message("cancel", o)
            BY <3>2, <4>1, <5>2
          <6>2. type = "cancel" /\ x = o
            BY <6>1 DEF Message
          <6> QED
            BY <3>5, <5>2, <6>2
        <5> QED
          BY <2>7, <5>1, <5>2
      <4>5. j - 1 \in DOMAIN toRunner'[p] /\ toRunner'[p][j - 1] = Message("cancel", o)
        BY <3>2, <4>1, <4>2, <4>4
      <4>6. i - 1 < j - 1 /\ (i = 0 => 0 < j - 1)
        BY <3>2, <4>3, <4>4
      <4> QED
        BY <4>1, <4>5, <4>6
    <3>6. ASSUME NEW type, NEW x, Gets(r, type, x), p # r
          PROVE  toRunner'[p] = toRunner[p]
      BY <1>0, <3>1, <3>6, GetsFacts
    <3> QED
      BY <2>4, <3>3, <3>4, <3>5, <3>6
  <2>8. RunningIsAwaited'
    <3> SUFFICES ASSUME NEW o \in Sent', status'[o] = "running"
                 PROVE  Awaits(o)' \/ CancelsNext(offeredBy'[o], 0, o)
                        \/ offeredBy'[o] \notin knownRunners'
      BY DEF RunningIsAwaited
    <3> DEFINE p == offeredBy[o]
    <3>1. o \in Sent /\ offeredBy'[o] = p /\ p \in Runner /\ o \in Offer
      BY <1>0, <2>3, <2>5
    <3>2. CASE status[o] = "running"
      <4>1. Awaits(o) \/ Cancels(p, 0, o) \/ p \notin knownRunners
        BY <1>0, <1>2, <3>1, <3>2 DEF RunningIsAwaited
      <4>2. CASE Cancels(p, 0, o)
        <5> HIDE DEF Cancels, CancelsNext
        <5>1. CancelsNext(p, 0, o)
          BY <2>7, <3>1, <4>2
        <5> QED
          BY <3>1, <5>1
      <4> HIDE DEF CancelsNext, Cancels
      <4> QED
        BY <2>1, <2>2, <3>1, <4>1, <4>2
    <3>3. CASE status[o] # "running"
      <4>1. status[o] = "waitingForSettings" /\ p = r /\ Gets(r, "settings", o)
        BY <2>4, <3>1, <3>3
      <4>2. /\ toRunner[r] \in Seq(BrokerSays) /\ toRunner[r] # <<>>
            /\ toRunner[r][1] = Message("settings", o) /\ toRunner'[r] = Tail(toRunner[r])
        BY <1>0, <4>1, GetsFacts
      <4>3. 1 \in DOMAIN toRunner[r]
        BY <4>2, Taken
      <4>4. Message("settings", o).type = "settings" /\ Message("settings", o).task = o
        BY DEF Message
      <4>5. Awaits(o) \/ Cancels(r, 1, o) \/ r \notin knownRunners
        BY <1>1, <4>1, <4>2, <4>3, <4>4
      <4>6. CASE Cancels(r, 1, o)
        <5>1. PICK j \in DOMAIN toRunner[r] : 1 < j /\ toRunner[r][j] = Message("cancel", o)
          BY <4>6
        <5>2. \A k \in DOMAIN toRunner[r] \ {1} :
                k - 1 \in DOMAIN Tail(toRunner[r]) /\ Tail(toRunner[r])[k - 1] = toRunner[r][k]
          BY <4>2, Taken
        <5>3. j - 1 \in DOMAIN toRunner'[r] /\ toRunner'[r][j - 1] = Message("cancel", o)
          BY <4>2, <5>1, <5>2
        <5>4. 0 < j - 1
          BY <1>2, <5>1
        <5> QED
          BY <3>1, <4>1, <5>3, <5>4
      <4> HIDE DEF Cancels, CancelsNext
      <4> QED
        BY <2>1, <2>2, <3>1, <4>1, <4>5, <4>6
    <3> QED
      BY <3>2, <3>3
  <2>9. SettingsAreWanted'
    <3> SUFFICES ASSUME NEW p \in Runner, NEW i \in DOMAIN toRunner'[p], NEW o,
                        toRunner'[p][i].type = "settings", toRunner'[p][i].task = o,
                        status'[o] = "waitingForSettings"
                 PROVE  Awaits(o)' \/ CancelsNext(p, i, o) \/ p \notin knownRunners'
      BY DEF SettingsAreWanted, Awaits
    <3>1. PICK k \in DOMAIN toRunner[p] :
            /\ toRunner[p][k] = toRunner'[p][i]
            /\ \/ k = i /\ toRunner'[p] = toRunner[p]
               \/ k = i + 1 /\ toRunner'[p] = Tail(toRunner[p])
      BY <2>6
    <3>2. /\ o \in Sent /\ offeredBy[o] = p /\ o \notin openOffers
          /\ status[o] = "waitingForSettings" =>
                    Awaits(o) \/ Cancels(p, k, o) \/ p \notin knownRunners
      BY <1>1, <3>1
    <3>3. status[o] = "waitingForSettings"
      BY <1>0, <2>4, <3>2
    <3>4. k \in Nat /\ k > 0
      BY <1>2
    <3>5. CASE Cancels(p, k, o)
      <4>1. CASE k = i /\ toRunner'[p] = toRunner[p]
        BY <3>5, <4>1
      <4>2. CASE k = i + 1
        <5>1. CancelsNext(p, k, o) \/ CancelsNext(p, k - 1, o)
          <6> HIDE DEF Cancels, CancelsNext
          <6>1. k \in Nat /\ k > 0 /\ Cancels(offeredBy[o], k, o) /\ offeredBy[o] = p
            BY <3>2, <3>4, <3>5
          <6> QED
            BY <2>7, <3>2, <6>1
        <5>2. \A j \in DOMAIN toRunner'[p] : j \in Nat
          <6>1. toRunner' \in [Runner -> Seq(BrokerSays)]
            BY <1>4, RunnerTypes DEF Typing, TypeOK, BrokerSays
          <6>2. Len(toRunner'[p]) \in Nat /\ DOMAIN toRunner'[p] = 1 .. Len(toRunner'[p])
            BY <6>1, LenProperties
          <6> QED
            BY <6>2
        <5> QED
          BY <4>2, <5>1, <5>2
      <4> QED
        BY <3>1, <4>1, <4>2
    <3> HIDE DEF Cancels, CancelsNext
    <3> QED
      BY <2>1, <2>2, <3>2, <3>3, <3>5
  <2> QED
    BY <2>8, <2>9
<1> QED
  BY <1>3, <1>4 DEF Next, BrokerStep

----------------------------------------------------------------------------
(* The invariant of the broker.                                            *)

\* Who owns an offer, what an acceptance leads to, where a call is held, and what a runner
\* has been told.
BrokerInvariant ==
    /\ Typing
    /\ Owned
    /\ MatchedOnce
    /\ CallsAreHeld
    /\ HandedOnce
    /\ AcceptedOnce
    /\ SettingsAreWanted
    /\ RunningIsAwaited

\* At the start nobody is connected, and nothing is under way.
LEMMA InitInvariant == Init => BrokerInvariant
<1> SUFFICES ASSUME Init PROVE BrokerInvariant
  OBVIOUS
<1>1. Typing
  BY InitTyping
<1>2. /\ Sent = {} /\ Range(<<>>) = {}
      /\ \A r \in Runner : toRunner[r] = <<>> /\ toBroker[r] = <<>>
  BY BrokerAssumption DEF Init, Sent, Range
<1>3. Owned
  BY <1>2 DEF Init, Owned
<1>4. MatchedOnce
  BY <1>2 DEF Init, MatchedOnce, OffersOnce, IsInjective
<1>5. CallsAreHeld
  BY DEF Init, CallsAreHeld
<1>6. HandedOnce
  BY <1>2 DEF Init, HandedOnce, Handed
<1>7. AcceptedOnce
  BY <1>2 DEF Init, AcceptedOnce
<1>8. SettingsAreWanted /\ RunningIsAwaited
  BY <1>2 DEF SettingsAreWanted, RunningIsAwaited
<1> QED
  BY <1>1, <1>3, <1>4, <1>5, <1>6, <1>7, <1>8 DEF BrokerInvariant

\* Every step keeps it.
LEMMA NextInvariant == BrokerInvariant /\ [Next]_vars => BrokerInvariant'
<1> SUFFICES ASSUME BrokerInvariant, [Next]_vars PROVE BrokerInvariant'
  OBVIOUS
<1>1. CASE Next
  <2>0. /\ Typing /\ Owned /\ MatchedOnce /\ CallsAreHeld /\ HandedOnce /\ AcceptedOnce
        /\ SettingsAreWanted /\ RunningIsAwaited
    BY DEF BrokerInvariant
  <2>1. Typing'
    BY <2>0, NextTyping
  <2>2. Owned'
    BY <1>1, <2>0, BrokerOwned, RunnerOwned DEF Next
  <2>3. MatchedOnce' /\ CallsAreHeld' /\ HandedOnce'
    BY <1>1, <2>0, MatchedStep, CallsStep, HandedStep
  <2>4. AcceptedOnce' /\ SettingsAreWanted' /\ RunningIsAwaited'
    BY <1>1, <2>0, AcceptedStep, WantedStep
  <2> QED
    BY <2>1, <2>2, <2>3, <2>4 DEF BrokerInvariant
<1>2. CASE UNCHANGED vars
  <2> USE <1>2 DEF vars, matching, handed, runners, modes, BrokerInvariant
  <2>1. Typing'
    BY NextTyping
  <2>2. Owned'
    BY DEF Owned, Sent
  <2>3. MatchedOnce'
    BY DEF MatchedOnce, Sent
  <2>4. CallsAreHeld' /\ HandedOnce'
    BY DEF CallsAreHeld, HandedOnce, Handed
  <2>5. AcceptedOnce'
    BY DEF AcceptedOnce
  <2>6. SettingsAreWanted' /\ RunningIsAwaited'
    BY DEF SettingsAreWanted, RunningIsAwaited, Awaits, Sent
  <2> QED
    BY <2>1, <2>2, <2>3, <2>4, <2>5, <2>6
<1> QED
  BY <1>1, <1>2

\* So it holds in every state of the broker and its runners.
LEMMA BrokerInvariantHolds == Spec => []BrokerInvariant
BY InitInvariant, NextInvariant, PTL DEF Spec

\* Broker and requester never lose sight of a call: one that waits for a runner is listed
\* and has its timeout armed, one that waits for a result has its task and the task's
\* timeout, whatever runners do, in whatever order messages and timers come.
THEOREM NoCallIsForgotten == Spec => []CallsAreHeld
<1>1. BrokerInvariant => CallsAreHeld
  BY DEF BrokerInvariant
<1> QED
  BY <1>1, BrokerInvariantHolds, PTL

\* When a runner is deregistered, its offers and its tasks leave the broker's lists; none
\* comes back with a message that was sent before.
THEOREM ListsAreCurrent == Spec => []ListsNameKnownRunners
<1>1. BrokerInvariant => ListsNameKnownRunners
  BY DEF BrokerInvariant, Owned, ListsNameKnownRunners
<1> QED
  BY <1>1, BrokerInvariantHolds, PTL

\* The code of a call runs at most once, though its request may be listed twice and may be
\* matched again after an acceptance that timed out, was rejected or was deferred.
THEOREM CodeRunsOnce == Spec => []ExecutesOnce
<1>1. BrokerInvariant => ExecutesOnce
  <2> SUFFICES ASSUME BrokerInvariant, NEW q \in Request PROVE Cardinality(executed[q]) <= 1
    BY DEF ExecutesOnce
  <2>1. executed[q] \subseteq Offer
    BY DEF BrokerInvariant, Typing, TypeOK
  <2>2. \A o, p \in executed[q] : o = p
    BY <2>1 DEF BrokerInvariant, HandedOnce, Handed
  <2>3. CASE executed[q] = {}
    BY <2>3, FS_EmptySet
  <2>4. ASSUME NEW o \in executed[q] PROVE Cardinality(executed[q]) <= 1
    <3>1. executed[q] = {o}
      BY <2>2, <2>4
    <3> QED
      BY <3>1, FS_Singleton
  <2> QED
    BY <2>3, <2>4
<1> QED
  BY <1>1, BrokerInvariantHolds, PTL

\* Code never runs on for nobody: its result is waited for, or its cancellation is under way
\* to the runner, or the runner is about to be cut off.
THEOREM NoRunawayCode == Spec => []RunningIsWanted
<1>1. BrokerInvariant => RunningIsWanted
  BY DEF BrokerInvariant, RunningIsAwaited, Awaits, RunningIsWanted
<1> QED
  BY <1>1, BrokerInvariantHolds, PTL

===============================================================================
