------------------------ MODULE WorkflowExecuteProofs ------------------------
(***************************************************************************)
(* What the engine guarantees for every workflow, with any number of runs, *)
(* waits and retries.                                                      *)
(***************************************************************************)
EXTENDS WorkflowExecute, ListFacts

(***************************************************************************)
(* Types.                                                                  *)
(***************************************************************************)

\* Lists of inputs, items, the entries of a node, and queues.
Mains == UNION {[S -> Source \cup {NoData}] : S \in SUBSET Nat}
Items == [node : Node, main : Mains, disabled : BOOLEAN, object : Nat]
Entries == UNION {[S -> Mains] : S \in SUBSET Nat}
Queues == [stack : Seq(Items), waiting : [Node -> Entries], nodes : Seq(Node)]

\* An item of a workflow that was loaded r times: it has the inputs of its node.
ItemOK(w, r, m) == m \in Items /\ DOMAIN m.main = Inputs[w][m.node] /\ m.object <= r

\* What the three variables of the queue have to do with each other.
QueueOK(w, r, q) ==
    /\ q \in Queues
    /\ \A i \in DOMAIN q.stack : ItemOK(w, r, q.stack[i])
    /\ \A n \in Node :
         /\ IsFiniteSet(DOMAIN q.waiting[n])
         /\ \A at \in DOMAIN q.waiting[n] : DOMAIN q.waiting[n][at] = Inputs[w][n]
    /\ Range(q.nodes) = {n \in Node : DOMAIN q.waiting[n] # {}}
    /\ IsInjective(q.nodes)

Statuses == {"running", "success", "waiting", "canceled", "error"}
Runs == [node : Node, main : Mains, handed : SUBSET Nat]

\* A run hands on outputs that its node has connections for.
RunOK(w, run) ==
    run \in Runs /\ run.handed \subseteq {c.output : c \in {d \in Definition[w].connections : d.from = run.node}}

\* With the types: an execution that waits or failed has put its node back, after a run that
\* handed nothing on, and may be resumed once more; one that succeeded has nothing left to run.
Typing ==
    /\ workflow \in DOMAIN Definition
    /\ QueueOK(workflow, resumed, Queue)
    /\ current = Nothing \/ ItemOK(workflow, resumed, current)
    /\ runs \in Seq(Runs)
    /\ \A k \in DOMAIN runs : RunOK(workflow, runs[k])
    /\ status \in Statuses
    /\ continued \in BOOLEAN
    /\ resumed \in 0 .. MaxResumes
    /\ status \in {"waiting", "error"} => stack # <<>> /\ runs # <<>> /\ current = Nothing
    /\ status = "waiting" => resumed < MaxResumes
    /\ status = "success" => stack = <<>> /\ current = Nothing

----------------------------------------------------------------------------
(* The inputs of a node.                                                   *)

\* Every node has the inputs that connections lead to, and a first one.
LEMMA InputFacts ==
    ASSUME NEW w \in DOMAIN Definition
    PROVE  /\ \A n \in Node : /\ Inputs[w][n] \subseteq Nat /\ 0 \in Inputs[w][n]
                              /\ IsFiniteSet(Inputs[w][n])
           /\ \A c \in Definition[w].connections : c.to \in Node /\ c.input \in Inputs[w][c.to]
           /\ Inputs[w][Trigger] = {0}
<1> DEFINE conns == Definition[w].connections
           fed(n) == {0} \cup {c.input : c \in {d \in conns : d.to = n}}
<1>1. /\ conns \subseteq [from : Node, output : Nat, to : Node, input : Nat]
      /\ IsFiniteSet(conns)
      /\ \A c \in conns : c.to = Trigger => c.input = 0
  BY EngineAssumption DEF IsWorkflow
<1>2. \A n \in Node : Inputs[w][n] = 0 .. Max(fed(n))
  BY DEF Inputs
<1>3. ASSUME NEW n \in Node
      PROVE  Max(fed(n)) \in fed(n) /\ fed(n) \subseteq Nat /\ \A i \in fed(n) : Max(fed(n)) >= i
  <2> DEFINE S == {d \in conns : d.to = n}
             f == [d \in S |-> d.input]
             T == {d.input : d \in S}
  <2>1. IsFiniteSet(S)
    BY <1>1, FS_Subset
  <2>2. f \in Surjection(S, T)
    BY DEF Surjection
  <2>3. IsFiniteSet(T)
    BY <2>1, <2>2, FS_Surjection
  <2>4. IsFiniteSet(T \cup {0})
    BY <2>3, FS_AddElement
  <2>5. fed(n) = T \cup {0} /\ fed(n) \subseteq Nat /\ fed(n) # {}
    BY <1>1
  <2> HIDE DEF fed
  <2>6. \E m \in fed(n) : \A k \in fed(n) : m >= k
    BY <2>4, <2>5, GreatestNumber
  <2> QED
    BY <2>5, <2>6 DEF Max
<1>4. ASSUME NEW n \in Node
      PROVE  Inputs[w][n] \subseteq Nat /\ 0 \in Inputs[w][n] /\ IsFiniteSet(Inputs[w][n])
  <2> DEFINE m == Max(fed(n))
  <2>1. m \in Nat /\ Inputs[w][n] = 0 .. m
    BY <1>2, <1>3
  <2> HIDE DEF m
  <2>2. IsFiniteSet(0 .. m)
    BY <2>1, FS_Interval
  <2> QED
    BY <2>1, <2>2
<1>5. ASSUME NEW c \in conns
      PROVE  c.to \in Node /\ c.input \in Inputs[w][c.to]
  <2>1. c.to \in Node /\ c.input \in Nat /\ c.input \in fed(c.to)
    BY <1>1
  <2>2. Max(fed(c.to)) \in Nat /\ Max(fed(c.to)) >= c.input
    BY <1>3, <2>1
  <2> QED
    BY <1>2, <2>1, <2>2
<1>6. Inputs[w][Trigger] = {0}
  <2>1. fed(Trigger) = {0}
    BY <1>1
  <2>2. Max(fed(Trigger)) = 0
    BY <1>3, <2>1, EngineAssumption
  <2>3. Inputs[w][Trigger] = 0 .. 0
    BY <1>2, <2>2, EngineAssumption
  <2> QED
    BY <2>3
<1> QED
  BY <1>4, <1>5, <1>6

----------------------------------------------------------------------------
(* The operations on a queue: types.                                       *)

\* A node with an item more on the stack.
LEMMA UnshiftTypes ==
    ASSUME NEW w \in DOMAIN Definition, NEW r \in Nat, NEW q, QueueOK(w, r, q),
           NEW m, ItemOK(w, r, m)
    PROVE  /\ QueueOK(w, r, Unshift(q, m))
           /\ Unshift(q, m) = [stack |-> <<m>> \o q.stack, waiting |-> q.waiting, nodes |-> q.nodes]
<1> DEFINE t == <<m>> \o q.stack
<1>1. /\ q = [stack |-> q.stack, waiting |-> q.waiting, nodes |-> q.nodes]
      /\ q.stack \in Seq(Items) /\ q.waiting \in [Node -> Entries] /\ q.nodes \in Seq(Node)
  BY DEF QueueOK, Queues
<1>2. Unshift(q, m) = [stack |-> t, waiting |-> q.waiting, nodes |-> q.nodes]
  BY DEF Unshift
<1>3. /\ t \in Seq(Items) /\ t[1] = m
      /\ \A i \in DOMAIN t \ {1} : i - 1 \in DOMAIN q.stack /\ t[i] = q.stack[i - 1]
  BY <1>1, Unshifted DEF ItemOK
<1> HIDE DEF t
<1>4. \A i \in DOMAIN t : ItemOK(w, r, t[i])
  BY <1>3 DEF QueueOK
<1>5. QueueOK(w, r, [stack |-> t, waiting |-> q.waiting, nodes |-> q.nodes])
  BY <1>1, <1>3, <1>4 DEF QueueOK, Queues
<1> QED
  BY <1>2, <1>5 DEF t

\* All entries without one of a node, and with one more or another one.
Without(q, n, at) ==
    [q.waiting EXCEPT ![n] = [i \in DOMAIN q.waiting[n] \ {at} |-> q.waiting[n][i]]]
With(q, n, at, main) ==
    [q.waiting EXCEPT ![n] = [i \in DOMAIN q.waiting[n] \cup {at} |->
                                 IF i = at THEN main ELSE q.waiting[n][i]]]

\* A node with an entry less is a key no longer if it was its last one.
LEMMA RemoveEntryTypes ==
    ASSUME NEW w \in DOMAIN Definition, NEW r \in Nat, NEW q, QueueOK(w, r, q),
           NEW n \in Node, NEW at \in DOMAIN q.waiting[n]
    PROVE  /\ QueueOK(w, r, RemoveEntry(q, n, at))
           /\ RemoveEntry(q, n, at).stack = q.stack
           /\ RemoveEntry(q, n, at).waiting = Without(q, n, at)
           /\ Range(RemoveEntry(q, n, at).nodes) \subseteq Range(q.nodes)
<1> DEFINE left == [i \in DOMAIN q.waiting[n] \ {at} |-> q.waiting[n][i]]
           others == [q.waiting EXCEPT ![n] = left]
           keys == IF DOMAIN left = {} THEN RemoveFirst(q.nodes, n) ELSE q.nodes
           p == [stack |-> q.stack, waiting |-> others, nodes |-> keys]
<1>1. /\ q = [stack |-> q.stack, waiting |-> q.waiting, nodes |-> q.nodes]
      /\ q.stack \in Seq(Items) /\ q.waiting \in [Node -> Entries] /\ q.nodes \in Seq(Node)
  BY DEF QueueOK, Queues
<1>2. RemoveEntry(q, n, at) = p
  BY DEF RemoveEntry
<1>3. /\ DOMAIN left = DOMAIN q.waiting[n] \ {at}
      /\ \A i \in DOMAIN left : left[i] = q.waiting[n][i]
      /\ IsFiniteSet(DOMAIN left)
  BY FS_RemoveElement DEF QueueOK
<1>4. left \in Entries
  <2>0. q.waiting[n] \in Entries
    BY <1>1
  <2>1. PICK S \in SUBSET Nat : q.waiting[n] \in [S -> Mains]
    BY <2>0 DEF Entries
  <2>2. left \in [S \ {at} -> Mains]
    BY <2>1
  <2> HIDE DEF left
  <2> QED
    BY <2>2 DEF Entries
<1> HIDE DEF left
<1>5. others \in [Node -> Entries] /\ others[n] = left /\ \A k \in Node \ {n} : others[k] = q.waiting[k]
  BY <1>1, <1>4
<1> HIDE DEF others
<1>6. /\ keys \in Seq(Node) /\ IsInjective(keys)
      /\ Range(keys) = IF DOMAIN left = {} THEN Range(q.nodes) \ {n} ELSE Range(q.nodes)
  <2>1. IsInjective(q.nodes)
    BY DEF QueueOK
  <2>2. /\ RemoveFirst(q.nodes, n) \in Seq(Node) /\ IsInjective(RemoveFirst(q.nodes, n))
        /\ Range(RemoveFirst(q.nodes, n)) = Range(q.nodes) \ {n}
    BY <1>1, <2>1, Removed
  <2> QED
    BY <1>1, <2>1, <2>2
<1>7. Range(q.nodes) = {k \in Node : DOMAIN q.waiting[k] # {}}
  BY DEF QueueOK
<1>8. Range(keys) = {k \in Node : DOMAIN others[k] # {}}
  BY <1>3, <1>5, <1>6, <1>7
<1>9. ASSUME NEW k \in Node
      PROVE  /\ IsFiniteSet(DOMAIN others[k])
             /\ \A i \in DOMAIN others[k] : DOMAIN others[k][i] = Inputs[w][k]
  BY <1>3, <1>5 DEF QueueOK
<1> HIDE DEF keys
<1>10. QueueOK(w, r, p)
  <2>1. p \in Queues /\ p.stack = q.stack /\ p.waiting = others /\ p.nodes = keys
    BY <1>1, <1>5, <1>6 DEF Queues
  <2> HIDE DEF p
  <2> QED
    BY <1>6, <1>8, <1>9, <2>1 DEF QueueOK
<1>11. Range(keys) \subseteq Range(q.nodes)
  BY <1>6
<1> QED
  BY <1>2, <1>10, <1>11 DEF left, others, Without

\* A node with an entry more, or another one, is a key.
LEMMA SetEntryTypes ==
    ASSUME NEW w \in DOMAIN Definition, NEW r \in Nat, NEW q, QueueOK(w, r, q),
           NEW n \in Node, NEW at \in Nat, NEW main \in Mains, DOMAIN main = Inputs[w][n]
    PROVE  /\ QueueOK(w, r, SetEntry(q, n, at, main))
           /\ SetEntry(q, n, at, main).stack = q.stack
           /\ SetEntry(q, n, at, main).waiting = With(q, n, at, main)
           /\ Range(SetEntry(q, n, at, main).nodes) \subseteq Range(q.nodes) \cup {n}
<1> DEFINE set == [i \in DOMAIN q.waiting[n] \cup {at} |-> IF i = at THEN main ELSE q.waiting[n][i]]
           others == [q.waiting EXCEPT ![n] = set]
           keys == IF DOMAIN q.waiting[n] = {} THEN Append(q.nodes, n) ELSE q.nodes
           p == [stack |-> q.stack, waiting |-> others, nodes |-> keys]
<1>1. /\ q = [stack |-> q.stack, waiting |-> q.waiting, nodes |-> q.nodes]
      /\ q.stack \in Seq(Items) /\ q.waiting \in [Node -> Entries] /\ q.nodes \in Seq(Node)
  BY DEF QueueOK, Queues
<1>2. SetEntry(q, n, at, main) = p
  BY DEF SetEntry
<1>3. /\ DOMAIN set = DOMAIN q.waiting[n] \cup {at}
      /\ \A i \in DOMAIN set : set[i] = IF i = at THEN main ELSE q.waiting[n][i]
      /\ IsFiniteSet(DOMAIN set)
  BY FS_AddElement DEF QueueOK
<1>4. set \in Entries
  <2>0. q.waiting[n] \in Entries
    BY <1>1
  <2>1. PICK S \in SUBSET Nat : q.waiting[n] \in [S -> Mains]
    BY <2>0 DEF Entries
  <2>2. set \in [S \cup {at} -> Mains]
    BY <2>1
  <2> HIDE DEF set
  <2> QED
    BY <2>2 DEF Entries
<1> HIDE DEF set
<1>5. others \in [Node -> Entries] /\ others[n] = set /\ \A k \in Node \ {n} : others[k] = q.waiting[k]
  BY <1>1, <1>4
<1> HIDE DEF others
<1>7. Range(q.nodes) = {k \in Node : DOMAIN q.waiting[k] # {}} /\ IsInjective(q.nodes)
  BY DEF QueueOK
<1>6. keys \in Seq(Node) /\ IsInjective(keys) /\ Range(keys) = Range(q.nodes) \cup {n}
  BY <1>1, <1>7, Appended
<1>8. Range(keys) = {k \in Node : DOMAIN others[k] # {}}
  BY <1>3, <1>5, <1>6, <1>7
<1>9. ASSUME NEW k \in Node
      PROVE  /\ IsFiniteSet(DOMAIN others[k])
             /\ \A i \in DOMAIN others[k] : DOMAIN others[k][i] = Inputs[w][k]
  BY <1>3, <1>5 DEF QueueOK
<1> HIDE DEF keys
<1>10. QueueOK(w, r, p)
  <2>1. p \in Queues /\ p.stack = q.stack /\ p.waiting = others /\ p.nodes = keys
    BY <1>1, <1>5, <1>6 DEF Queues
  <2> HIDE DEF p
  <2> QED
    BY <1>6, <1>8, <1>9, <2>1 DEF QueueOK
<1> QED
  BY <1>2, <1>6, <1>10 DEF set, others, With

----------------------------------------------------------------------------
(* The operations on a queue: which data they move.                        *)

\* The data of a node's inputs, of the stack, of waitingExecution and of both.
Data(n, main) == {<<n, i, main[i]>> : i \in {j \in DOMAIN main : main[j] # NoData}}
OnStack(q) == UNION {DataOf(q.stack[i]) : i \in DOMAIN q.stack}
InWaiting(q) == UNION {UNION {Data(n, q.waiting[n][at]) : at \in DOMAIN q.waiting[n]} : n \in Node}
InQueue(q) == OnStack(q) \cup InWaiting(q)

\* No two items or entries of a queue have the same data.
SharesNothing(q) ==
    /\ \A i, j \in DOMAIN q.stack : i # j => DataOf(q.stack[i]) \cap DataOf(q.stack[j]) = {}
    /\ \A n \in Node : \A at, bt \in DOMAIN q.waiting[n] :
            at # bt => Data(n, q.waiting[n][at]) \cap Data(n, q.waiting[n][bt]) = {}
    /\ OnStack(q) \cap InWaiting(q) = {}

\* The data of a node name it.
LEMMA DataOfNode ==
    ASSUME NEW n, NEW main
    PROVE  /\ \A d \in Data(n, main) : d[1] = n
           /\ \A m : m.node = n /\ m.main = main => DataOf(m) = Data(n, main)
  BY DEF Data, DataOf

\* Where the data of a node wait.
LEMMA WaitingData ==
    ASSUME NEW q, NEW d
    PROVE  /\ d \in InWaiting(q) => \E at \in DOMAIN q.waiting[d[1]] : d \in Data(d[1], q.waiting[d[1]][at])
           /\ \A n \in Node : \A at \in DOMAIN q.waiting[n] :
                d \in Data(n, q.waiting[n][at]) => d \in InWaiting(q)
<1>1. ASSUME d \in InWaiting(q)
      PROVE  \E at \in DOMAIN q.waiting[d[1]] : d \in Data(d[1], q.waiting[d[1]][at])
  <2>1. PICK n \in Node : d \in UNION {Data(n, q.waiting[n][at]) : at \in DOMAIN q.waiting[n]}
    BY <1>1 DEF InWaiting
  <2>2. PICK at \in DOMAIN q.waiting[n] : d \in Data(n, q.waiting[n][at])
    BY <2>1
  <2>3. d[1] = n
    BY <2>2, DataOfNode
  <2> QED
    BY <2>2, <2>3
<1> QED
  BY <1>1 DEF InWaiting

\* An item on the stack adds its data to the queue.
LEMMA UnshiftData ==
    ASSUME NEW q, q.stack \in Seq(Items), NEW m \in Items,
           NEW p, p.stack = <<m>> \o q.stack, p.waiting = q.waiting
    PROVE  OnStack(p) = OnStack(q) \cup DataOf(m) /\ InQueue(p) = InQueue(q) \cup DataOf(m)
<1>1. /\ DOMAIN p.stack = 1 .. Len(q.stack) + 1 /\ p.stack[1] = m
      /\ \A i \in DOMAIN p.stack \ {1} : i - 1 \in DOMAIN q.stack /\ p.stack[i] = q.stack[i - 1]
      /\ \A i \in DOMAIN q.stack : i + 1 \in DOMAIN p.stack /\ p.stack[i + 1] = q.stack[i]
  BY Unshifted
<1>2. 1 \in DOMAIN p.stack
  <2>1. Len(q.stack) \in Nat
    BY LenProperties
  <2> QED
    BY <1>1, <2>1
<1>3. ASSUME NEW d \in OnStack(p)
      PROVE  d \in OnStack(q) \cup DataOf(m)
  <2>1. PICK i \in DOMAIN p.stack : d \in DataOf(p.stack[i])
    BY DEF OnStack
  <2> QED
    BY <1>1, <2>1 DEF OnStack
<1>4. ASSUME NEW d \in OnStack(q)
      PROVE  d \in OnStack(p)
  <2>1. PICK i \in DOMAIN q.stack : d \in DataOf(q.stack[i])
    BY DEF OnStack
  <2> QED
    BY <1>1, <2>1 DEF OnStack
<1>5. DataOf(m) \subseteq OnStack(p)
  BY <1>1, <1>2 DEF OnStack
<1>6. InWaiting(p) = InWaiting(q)
  BY DEF InWaiting
<1> QED
  BY <1>3, <1>4, <1>5, <1>6 DEF InQueue

\* Data that are not in the queue may be put on the stack.
LEMMA UnshiftOnce ==
    ASSUME NEW q, q.stack \in Seq(Items), SharesNothing(q),
           NEW m \in Items, DataOf(m) \cap InQueue(q) = {},
           NEW p, p.stack = <<m>> \o q.stack, p.waiting = q.waiting
    PROVE  SharesNothing(p)
<1>1. /\ DOMAIN p.stack = 1 .. Len(q.stack) + 1 /\ p.stack[1] = m
      /\ \A i \in DOMAIN p.stack \ {1} : i - 1 \in DOMAIN q.stack /\ p.stack[i] = q.stack[i - 1]
  BY Unshifted
<1>2. OnStack(p) = OnStack(q) \cup DataOf(m) /\ InWaiting(p) = InWaiting(q)
  BY UnshiftData DEF InWaiting
<1>3. ASSUME NEW i \in DOMAIN p.stack, NEW j \in DOMAIN p.stack, i # j
      PROVE  DataOf(p.stack[i]) \cap DataOf(p.stack[j]) = {}
  <2>1. \A k \in DOMAIN q.stack : DataOf(q.stack[k]) \cap DataOf(m) = {}
    BY DEF InQueue, OnStack
  <2>2. i \in Nat /\ j \in Nat
    BY <1>1
  <2>3. CASE i = 1
    BY <1>1, <1>3, <2>1, <2>3
  <2>4. CASE j = 1
    BY <1>1, <1>3, <2>1, <2>4
  <2>5. CASE i # 1 /\ j # 1
    <3>1. i - 1 # j - 1
      BY <1>3, <2>2
    <3> QED
      BY <1>1, <2>5, <3>1 DEF SharesNothing
  <2> QED
    BY <2>3, <2>4, <2>5
<1> QED
  BY <1>2, <1>3 DEF SharesNothing, InQueue

\* What an entry has leaves the queue with it.
LEMMA RemoveEntryOnce ==
    ASSUME NEW q, q.waiting \in [Node -> Entries], SharesNothing(q),
           NEW n \in Node, NEW at \in DOMAIN q.waiting[n],
           NEW p, p.stack = q.stack,
           p.waiting = Without(q, n, at)
    PROVE  /\ SharesNothing(p)
           /\ InQueue(p) \subseteq InQueue(q) \ Data(n, q.waiting[n][at])
<1>1. /\ DOMAIN p.waiting[n] = DOMAIN q.waiting[n] \ {at}
      /\ \A i \in DOMAIN p.waiting[n] : p.waiting[n][i] = q.waiting[n][i]
      /\ \A k \in Node \ {n} : p.waiting[k] = q.waiting[k]
  BY DEF Without
<1>2. OnStack(p) = OnStack(q)
  BY DEF OnStack
<1>3. ASSUME NEW d \in InWaiting(p)
      PROVE  d \in InWaiting(q) /\ d \notin Data(n, q.waiting[n][at])
  <2>1. PICK k \in Node : d \in UNION {Data(k, p.waiting[k][bt]) : bt \in DOMAIN p.waiting[k]}
    BY DEF InWaiting
  <2>2. PICK bt \in DOMAIN p.waiting[k] : d \in Data(k, p.waiting[k][bt])
    BY <2>1
  <2>3. bt \in DOMAIN q.waiting[k] /\ p.waiting[k][bt] = q.waiting[k][bt]
    BY <1>1
  <2>4. d \in InWaiting(q)
    BY <2>2, <2>3 DEF InWaiting
  <2>5. CASE k = n
    <3>1. bt # at
      BY <1>1, <2>5
    <3>2. Data(n, q.waiting[n][bt]) \cap Data(n, q.waiting[n][at]) = {}
      BY <2>3, <2>5, <3>1 DEF SharesNothing
    <3> QED
      BY <2>2, <2>3, <2>4, <2>5, <3>2
  <2>6. CASE k # n
    <3>1. d[1] = k
      BY <2>2, DataOfNode
    <3>2. \A e \in Data(n, q.waiting[n][at]) : e[1] = n
      BY DataOfNode
    <3> QED
      BY <2>4, <2>6, <3>1, <3>2
  <2> QED
    BY <2>5, <2>6
<1>4. OnStack(q) \cap Data(n, q.waiting[n][at]) = {}
  BY DEF SharesNothing, InWaiting
<1>5. SharesNothing(p)
  <2>1. ASSUME NEW k \in Node, NEW bt \in DOMAIN p.waiting[k], NEW ct \in DOMAIN p.waiting[k], bt # ct
        PROVE  Data(k, p.waiting[k][bt]) \cap Data(k, p.waiting[k][ct]) = {}
    <3>1. /\ bt \in DOMAIN q.waiting[k] /\ p.waiting[k][bt] = q.waiting[k][bt]
          /\ ct \in DOMAIN q.waiting[k] /\ p.waiting[k][ct] = q.waiting[k][ct]
      BY <1>1
    <3> QED
      BY <2>1, <3>1 DEF SharesNothing
  <2> QED
    BY <1>2, <1>3, <2>1 DEF SharesNothing
<1> QED
  BY <1>2, <1>3, <1>4, <1>5 DEF InQueue

\* Nothing else leaves it.
LEMMA RemoveEntryKeeps ==
    ASSUME NEW q, q.waiting \in [Node -> Entries],
           NEW n \in Node, NEW at \in DOMAIN q.waiting[n],
           NEW p, p.stack = q.stack,
           p.waiting = Without(q, n, at)
    PROVE  /\ InQueue(q) \subseteq InQueue(p) \cup Data(n, q.waiting[n][at])
           /\ \A k \in Node : \A bt \in DOMAIN p.waiting[k] :
                bt \in DOMAIN q.waiting[k] /\ p.waiting[k][bt] = q.waiting[k][bt]
<1>1. /\ DOMAIN p.waiting[n] = DOMAIN q.waiting[n] \ {at}
      /\ \A i \in DOMAIN p.waiting[n] : p.waiting[n][i] = q.waiting[n][i]
      /\ \A k \in Node \ {n} : p.waiting[k] = q.waiting[k]
  BY DEF Without
<1>2. OnStack(p) = OnStack(q)
  BY DEF OnStack
<1>3. ASSUME NEW d \in InWaiting(q), d \notin Data(n, q.waiting[n][at])
      PROVE  d \in InWaiting(p)
  <2>1. PICK k \in Node : d \in UNION {Data(k, q.waiting[k][bt]) : bt \in DOMAIN q.waiting[k]}
    BY DEF InWaiting
  <2>2. PICK bt \in DOMAIN q.waiting[k] : d \in Data(k, q.waiting[k][bt])
    BY <2>1
  <2>3. bt \in DOMAIN p.waiting[k] /\ p.waiting[k][bt] = q.waiting[k][bt]
    <3>1. CASE k = n
      BY <1>1, <1>3, <2>2, <3>1
    <3>2. CASE k # n
      BY <1>1, <3>2
    <3> QED
      BY <3>1, <3>2
  <2> QED
    BY <2>2, <2>3 DEF InWaiting
<1>4. \A k \in Node : \A bt \in DOMAIN p.waiting[k] :
            bt \in DOMAIN q.waiting[k] /\ p.waiting[k][bt] = q.waiting[k][bt]
  BY <1>1
<1> QED
  BY <1>2, <1>3, <1>4 DEF InQueue

\* An entry gets data that only it had, or that are not in the queue.
LEMMA SetEntryOnce ==
    ASSUME NEW q, q.waiting \in [Node -> Entries], SharesNothing(q),
           NEW n \in Node, NEW at, NEW main,
           \A d \in Data(n, main) \cap InQueue(q) :
                at \in DOMAIN q.waiting[n] /\ d \in Data(n, q.waiting[n][at]),
           NEW p, p.stack = q.stack,
           p.waiting = With(q, n, at, main)
    PROVE  SharesNothing(p) /\ InQueue(p) \subseteq InQueue(q) \cup Data(n, main)
<1>1. /\ DOMAIN p.waiting[n] = DOMAIN q.waiting[n] \cup {at}
      /\ \A i \in DOMAIN p.waiting[n] : p.waiting[n][i] = IF i = at THEN main ELSE q.waiting[n][i]
      /\ \A k \in Node \ {n} : p.waiting[k] = q.waiting[k]
  BY DEF With
<1>2. OnStack(p) = OnStack(q)
  BY DEF OnStack
<1>3. InWaiting(p) \subseteq InWaiting(q) \cup Data(n, main)
  <2> SUFFICES ASSUME NEW k \in Node, NEW bt \in DOMAIN p.waiting[k], NEW d \in Data(k, p.waiting[k][bt]),
                      d \notin Data(n, main)
               PROVE  d \in InWaiting(q)
    BY DEF InWaiting
  <2>1. bt \in DOMAIN q.waiting[k] /\ p.waiting[k][bt] = q.waiting[k][bt]
    BY <1>1
  <2> QED
    BY <2>1 DEF InWaiting
<1>4. Data(n, main) \cap OnStack(q) = {}
  <2> SUFFICES ASSUME NEW d \in Data(n, main), d \in OnStack(q)
               PROVE  FALSE
    OBVIOUS
  <2>1. at \in DOMAIN q.waiting[n] /\ d \in Data(n, q.waiting[n][at])
    BY DEF InQueue
  <2> QED
    BY <2>1 DEF SharesNothing, InWaiting
<1>5. ASSUME NEW k \in Node, NEW bt \in DOMAIN p.waiting[k], NEW ct \in DOMAIN p.waiting[k], bt # ct
      PROVE  Data(k, p.waiting[k][bt]) \cap Data(k, p.waiting[k][ct]) = {}
  <2>1. ASSUME NEW i \in DOMAIN q.waiting[n], i # at
        PROVE  Data(n, main) \cap Data(n, q.waiting[n][i]) = {}
    <3>1. \A d \in Data(n, q.waiting[n][i]) : d \in InQueue(q)
      BY DEF InQueue, InWaiting
    <3>2. at \in DOMAIN q.waiting[n] => Data(n, q.waiting[n][at]) \cap Data(n, q.waiting[n][i]) = {}
      BY <2>1 DEF SharesNothing
    <3> QED
      BY <3>1, <3>2
  <2>2. CASE k # n
    BY <1>1, <1>5, <2>2 DEF SharesNothing
  <2>3. CASE k = n /\ bt # at /\ ct # at
    <3>1. /\ bt \in DOMAIN q.waiting[n] /\ p.waiting[n][bt] = q.waiting[n][bt]
          /\ ct \in DOMAIN q.waiting[n] /\ p.waiting[n][ct] = q.waiting[n][ct]
      BY <1>1, <2>3
    <3> QED
      BY <1>5, <2>3, <3>1 DEF SharesNothing
  <2>4. CASE k = n /\ bt = at
    BY <1>1, <1>5, <2>1, <2>4
  <2>5. CASE k = n /\ ct = at
    BY <1>1, <1>5, <2>1, <2>5
  <2> QED
    BY <2>2, <2>3, <2>4, <2>5
<1>6. SharesNothing(p)
  BY <1>2, <1>3, <1>4, <1>5 DEF SharesNothing
<1> QED
  BY <1>2, <1>3, <1>6 DEF InQueue

----------------------------------------------------------------------------
(* Handing on the data of a run.                                           *)

\* The nodes on the stack and in waitingExecution; an item whose inputs all have data.
Pending(q) == {q.stack[i].node : i \in DOMAIN q.stack} \cup Range(q.nodes)
Full(m) == \A i \in DOMAIN m.main : m.main[i] # NoData

\* q became p: it has the data ds more at most, the nodes ns are pending now at most, and what is
\* new on the stack has all inputs.  The stack and the entries of other nodes lose nothing.
Grows(q, p, ds, ns) ==
    /\ QueueOK(workflow, resumed, p)
    /\ SharesNothing(p)
    /\ InQueue(p) \subseteq InQueue(q) \cup ds
    /\ Pending(p) \subseteq Pending(q) \cup ns
    /\ \A i \in DOMAIN p.stack :
          Full(p.stack[i]) \/ \E j \in DOMAIN q.stack : p.stack[i] = q.stack[j]
    /\ OnStack(q) \subseteq OnStack(p)
    /\ \A n \in Node \ ns : p.waiting[n] = q.waiting[n]

\* Unshifting an item: only its node is pending now.
LEMMA UnshiftPending ==
    ASSUME NEW q, q.stack \in Seq(Items), NEW m \in Items, NEW p, p.stack = <<m>> \o q.stack
    PROVE  /\ {p.stack[i].node : i \in DOMAIN p.stack}
                \subseteq {q.stack[i].node : i \in DOMAIN q.stack} \cup {m.node}
           /\ \A i \in DOMAIN p.stack : p.stack[i] = m \/ \E j \in DOMAIN q.stack : p.stack[i] = q.stack[j]
<1>1. /\ p.stack[1] = m
      /\ \A i \in DOMAIN p.stack \ {1} : i - 1 \in DOMAIN q.stack /\ p.stack[i] = q.stack[i - 1]
  BY Unshifted
<1> QED
  BY <1>1

\* What addNodeToBeExecuted() looks at: the entries that lack the input, the index of the entry that
\* gets the data, and what it has then.
GivenBy(run, c) == [run |-> run, output |-> c.output]
Lacking(q, c) == {i \in DOMAIN q.waiting[c.to] : q.waiting[c.to][i][c.input] = NoData}
Chosen(q, c) == IF Lacking(q, c) = {} THEN NewIndex(q.waiting[c.to]) ELSE Min(Lacking(q, c))
Filled(q, c, run) ==
    [i \in Inputs[workflow][c.to] |->
        CASE i = c.input -> GivenBy(run, c)
          [] i # c.input /\ Lacking(q, c) = {} -> NoData
          [] OTHER -> q.waiting[c.to][Chosen(q, c)][i]]

\* An entry that lacks the input is chosen if there is one; it keeps what it has.
Parts(q, c, run) ==
    LET n == c.to
        inputs == Inputs[workflow][n]
        entries == q.waiting[n]
        source == GivenBy(run, c)
        lacking == Lacking(q, c)
        at == Chosen(q, c)
        main == Filled(q, c, run)
        m == Item(n, main)
    IN  /\ n \in Node /\ inputs \subseteq Nat /\ c.input \in inputs /\ 0 \in inputs
        /\ IsFiniteSet(inputs)
        /\ source \in Source /\ source # NoData
        /\ \A i \in DOMAIN entries : i \in Nat /\ entries[i] \in [inputs -> Source \cup {NoData}]
        /\ at \in Nat
        /\ lacking # {} => at \in lacking
        /\ lacking = {} => at = Cardinality(DOMAIN entries)
        /\ main \in [inputs -> Source \cup {NoData}]
        /\ main[c.input] = source
        /\ \A i \in inputs \ {c.input} : main[i] = IF lacking = {} THEN NoData ELSE entries[at][i]
        /\ AddNodeToBeExecuted(q, c, run)
             = IF Cardinality(inputs) = 1 THEN Unshift(q, m)
               ELSE IF \A i \in inputs : main[i] # NoData THEN Unshift(RemoveEntry(q, n, at), m)
               ELSE SetEntry(q, n, at, main)

\* So addNodeToBeExecuted() does.
LEMMA AddNodeParts ==
    ASSUME workflow \in DOMAIN Definition, resumed \in Nat,
           NEW q, QueueOK(workflow, resumed, q),
           NEW c \in Flow.connections, NEW run \in Nat
    PROVE  Parts(q, c, run)
<1> DEFINE n == c.to
           inputs == Inputs[workflow][n]
           entries == q.waiting[n]
           source == GivenBy(run, c)
           lacking == Lacking(q, c)
           at == Chosen(q, c)
           main == Filled(q, c, run)
           m == Item(n, main)
<1>1. /\ n \in Node /\ inputs \subseteq Nat /\ c.input \in inputs /\ 0 \in inputs /\ IsFiniteSet(inputs)
      /\ c.output \in Nat
  <2>1. c.output \in Nat
    BY EngineAssumption DEF IsWorkflow, Flow
  <2> QED
    BY <2>1, InputFacts DEF Flow
<1>2. /\ entries \in Entries /\ IsFiniteSet(DOMAIN entries)
      /\ \A i \in DOMAIN entries : DOMAIN entries[i] = inputs
  BY <1>1 DEF QueueOK, Queues
<1>3. \A i \in DOMAIN entries : i \in Nat /\ entries[i] \in [inputs -> Source \cup {NoData}]
  <2>1. PICK S \in SUBSET Nat : entries \in [S -> Mains]
    BY <1>2 DEF Entries
  <2> HIDE DEF entries, inputs
  <2>2. ASSUME NEW i \in DOMAIN entries
        PROVE  i \in Nat /\ entries[i] \in [inputs -> Source \cup {NoData}]
    <3>1. i \in Nat /\ entries[i] \in Mains
      BY <2>1
    <3>2. PICK T \in SUBSET Nat : entries[i] \in [T -> Source \cup {NoData}]
      BY <3>1 DEF Mains
    <3> QED
      BY <1>2, <3>1, <3>2
  <2> QED
    BY <2>2
<1>4. /\ lacking \subseteq DOMAIN entries
      /\ at = IF lacking = {} THEN NewIndex(entries) ELSE Min(lacking)
  BY DEF Lacking, Chosen
<1>5. AddNodeToBeExecuted(q, c, run)
        = IF Cardinality(inputs) = 1 THEN Unshift(q, m)
          ELSE IF \A i \in inputs : main[i] # NoData THEN Unshift(RemoveEntry(q, n, at), m)
          ELSE SetEntry(q, n, at, main)
  BY DEF AddNodeToBeExecuted, InputsOf, Lacking, Chosen, Filled, GivenBy
<1>6. source \in Source /\ source # NoData
  <2>1. source \in Source
    BY <1>1 DEF Source, GivenBy
  <2> HIDE DEF source
  <2> QED
    BY <2>1, EngineAssumption
<1>7. main = [i \in inputs |-> CASE i = c.input -> source
                                 [] i # c.input /\ lacking = {} -> NoData
                                 [] OTHER -> entries[at][i]]
  BY DEF Filled
<1> HIDE DEF main, at, lacking, source
<1>8. /\ at \in Nat
      /\ lacking # {} => at \in lacking
      /\ lacking = {} => at = Cardinality(DOMAIN entries)
  <2>1. CASE lacking = {}
    BY <1>2, <1>4, <2>1, FS_CardinalityType DEF NewIndex
  <2>2. CASE lacking # {}
    <3>1. lacking \subseteq Nat
      BY <1>3, <1>4
    <3>2. \E x \in lacking : \A y \in lacking : x <= y
      BY <2>2, <3>1, LeastNumber
    <3> QED
      BY <1>4, <2>2, <3>1, <3>2 DEF Min
  <2> QED
    BY <2>1, <2>2
<1>9. /\ main \in [inputs -> Source \cup {NoData}]
      /\ main[c.input] = source
      /\ \A i \in inputs \ {c.input} : main[i] = IF lacking = {} THEN NoData ELSE entries[at][i]
  <2>1. lacking # {} => at \in DOMAIN entries
    BY <1>4, <1>8
  <2> QED
    BY <1>1, <1>3, <1>6, <1>7, <2>1
<1> QED
  BY <1>1, <1>3, <1>5, <1>6, <1>8, <1>9 DEF Parts, main, at, lacking, source

\* addNodeToBeExecuted() adds the data to the queue, to an item or an entry of the node, and no
\* others.
LEMMA AddNodeGrows ==
    ASSUME workflow \in DOMAIN Definition, resumed \in Nat,
           NEW q, QueueOK(workflow, resumed, q), SharesNothing(q),
           NEW c \in Flow.connections, NEW run \in Nat, Delivery(run, c) \notin InQueue(q)
    PROVE  Grows(q, AddNodeToBeExecuted(q, c, run), {Delivery(run, c)}, {c.to})
<1> DEFINE n == c.to
           source == GivenBy(run, c)
           d0 == Delivery(run, c)
           inputs == Inputs[workflow][n]
           entries == q.waiting[n]
           lacking == Lacking(q, c)
           at == Chosen(q, c)
           main == Filled(q, c, run)
           m == Item(n, main)
           old == IF lacking = {} THEN {} ELSE Data(n, entries[at])
           p == AddNodeToBeExecuted(q, c, run)
<1>0. Parts(q, c, run)
  BY AddNodeParts
<1>1. /\ n \in Node /\ inputs \subseteq Nat /\ c.input \in inputs /\ 0 \in inputs /\ IsFiniteSet(inputs)
  BY <1>0 DEF Parts
<1>2. /\ q.stack \in Seq(Items) /\ q.waiting \in [Node -> Entries] /\ q.nodes \in Seq(Node)
      /\ entries \in Entries /\ IsFiniteSet(DOMAIN entries)
      /\ \A i \in DOMAIN entries : DOMAIN entries[i] = inputs
  BY <1>1 DEF QueueOK, Queues
<1>3. \A i \in DOMAIN entries : i \in Nat /\ entries[i] \in [inputs -> Source \cup {NoData}]
  BY <1>0 DEF Parts
<1>4. at \in Nat /\ (lacking # {} => at \in lacking)
  BY <1>0 DEF Parts
<1>5. /\ p = IF Cardinality(inputs) = 1 THEN Unshift(q, m)
             ELSE IF \A i \in inputs : main[i] # NoData THEN Unshift(RemoveEntry(q, n, at), m)
             ELSE SetEntry(q, n, at, main)
  BY <1>0 DEF Parts
<1> HIDE DEF p
<1>6. source \in Source /\ source # NoData
  BY <1>0 DEF Parts
<1>7. /\ main \in [inputs -> Source \cup {NoData}]
      /\ main[c.input] = source
      /\ \A i \in inputs \ {c.input} : main[i] = IF lacking = {} THEN NoData ELSE entries[at][i]
  BY <1>0 DEF Parts
<1>16. lacking # {} => at \in DOMAIN entries
  BY <1>4 DEF Lacking
<1> HIDE DEF main, at, lacking
<1>8. main \in Mains /\ DOMAIN main = inputs
  BY <1>1, <1>7 DEF Mains
<1>9. d0 = <<n, c.input, source>>
  BY DEF Delivery, GivenBy
<1>10. Data(n, main) \subseteq old \cup {d0}
  <2> SUFFICES ASSUME NEW d \in Data(n, main), d # d0
               PROVE  d \in old
    OBVIOUS
  <2>3. PICK i \in inputs : d = <<n, i, main[i]>> /\ main[i] # NoData
    BY <1>8 DEF Data
  <2>4. i # c.input
    BY <1>7, <1>9, <2>3
  <2>1. lacking # {} /\ main[i] = entries[at][i]
    BY <1>7, <2>3, <2>4
  <2>2. i \in DOMAIN entries[at]
    BY <1>2, <1>16, <2>1
  <2> QED
    BY <2>1, <2>2, <2>3 DEF Data
<1>11. /\ m.node = n /\ m.main = main /\ m \in Items /\ ItemOK(workflow, resumed, m)
       /\ DataOf(m) = Data(n, main)
  <2>1. m.node = n /\ m.main = main /\ m \in Items /\ m.object = resumed
    BY <1>1, <1>8 DEF Item, Items
  <2>2. resumed <= resumed
    OBVIOUS
  <2> HIDE DEF m
  <2> QED
    BY <1>8, <2>1, <2>2, DataOfNode DEF ItemOK
<1> HIDE DEF m
<1>12. d0 \notin InQueue(q)
  OBVIOUS
<1> HIDE DEF d0, source
<1>13. CASE Cardinality(inputs) = 1
  <2>1. inputs = {c.input}
    BY <1>1, <1>13, FS_Singleton
  <2>2. Data(n, main) \subseteq {d0} /\ Full(m)
    BY <1>6, <1>7, <1>8, <1>9, <1>11, <2>1 DEF Data, Full
  <2>3. p = Unshift(q, m)
    BY <1>5, <1>13
  <2>4. /\ QueueOK(workflow, resumed, p)
        /\ p.stack = <<m>> \o q.stack /\ p.waiting = q.waiting /\ p.nodes = q.nodes
    <3>1. QueueOK(workflow, resumed, Unshift(q, m))
      BY <1>11, UnshiftTypes
    <3> HIDE DEF m
    <3> QED
      BY <2>3, <3>1 DEF Unshift
  <2>5. SharesNothing(p) /\ InQueue(p) = InQueue(q) \cup DataOf(m) /\ OnStack(q) \subseteq OnStack(p)
    <3>3. DataOf(m) \cap InQueue(q) = {}
      BY <1>11, <1>12, <2>2
    <3>1. SharesNothing(p)
      BY <1>2, <1>11, <2>4, <3>3, UnshiftOnce
    <3>2. InQueue(p) = InQueue(q) \cup DataOf(m) /\ OnStack(p) = OnStack(q) \cup DataOf(m)
      BY <1>2, <1>11, <2>4, UnshiftData
    <3> QED
      BY <3>1, <3>2
  <2>6. /\ Pending(p) \subseteq Pending(q) \cup {n}
        /\ \A i \in DOMAIN p.stack :
              Full(p.stack[i]) \/ \E j \in DOMAIN q.stack : p.stack[i] = q.stack[j]
    BY <1>2, <1>11, <2>2, <2>4, UnshiftPending DEF Pending
  <2> QED
    BY <1>11, <2>2, <2>4, <2>5, <2>6 DEF Grows, p, d0
<1>14. CASE Cardinality(inputs) # 1 /\ \A i \in inputs : main[i] # NoData
  <2>1. lacking # {}
    <3>1. inputs # {c.input}
      BY <1>14, FS_Singleton
    <3>2. PICK i \in inputs : i # c.input
      BY <1>1, <3>1
    <3> QED
      BY <1>7, <1>14, <3>2
  <2>2. at \in DOMAIN entries /\ old = Data(n, entries[at])
    BY <1>16, <2>1
  <2> DEFINE r == RemoveEntry(q, n, at)
  <2>3. p = Unshift(r, m)
    BY <1>5, <1>14
  <2>4. /\ QueueOK(workflow, resumed, r) /\ r.stack = q.stack
        /\ r.waiting = Without(q, n, at)
        /\ Range(r.nodes) \subseteq Range(q.nodes)
    <3>1. n \in Node /\ at \in DOMAIN q.waiting[n]
      BY <1>1, <2>2
    <3> HIDE DEF n, at, entries, old, inputs
    <3>2. QueueOK(workflow, resumed, RemoveEntry(q, n, at))
      BY <3>1, RemoveEntryTypes
    <3>3. Range(RemoveEntry(q, n, at).nodes) \subseteq Range(q.nodes)
      BY <3>1, RemoveEntryTypes
    <3>4. r.stack = q.stack /\ r.waiting = Without(q, n, at)
      BY DEF r, RemoveEntry, Without
    <3> QED
      BY <3>2, <3>3, <3>4
  <2> HIDE DEF r
  <2>5. SharesNothing(r) /\ InQueue(r) \subseteq InQueue(q) \ Data(n, entries[at])
    BY <1>1, <1>2, <2>2, <2>4, RemoveEntryOnce
  <2>6. /\ QueueOK(workflow, resumed, p)
        /\ p.stack = <<m>> \o r.stack /\ p.waiting = r.waiting /\ p.nodes = r.nodes
    <3>1. QueueOK(workflow, resumed, Unshift(r, m))
      BY <1>11, <2>4, UnshiftTypes
    <3> HIDE DEF m
    <3> QED
      BY <2>3, <3>1 DEF Unshift
  <2>7. DataOf(m) \cap InQueue(r) = {}
    BY <1>10, <1>11, <1>12, <2>2, <2>5
  <2>8. SharesNothing(p) /\ InQueue(p) = InQueue(r) \cup DataOf(m) /\ OnStack(r) \subseteq OnStack(p)
    <3>1. r.stack \in Seq(Items)
      BY <1>2, <2>4
    <3>2. SharesNothing(p)
      BY <1>11, <2>5, <2>6, <2>7, <3>1, UnshiftOnce
    <3>3. InQueue(p) = InQueue(r) \cup DataOf(m) /\ OnStack(p) = OnStack(r) \cup DataOf(m)
      BY <1>11, <2>6, <3>1, UnshiftData
    <3> QED
      BY <3>2, <3>3
  <2>9. Data(n, entries[at]) \subseteq InQueue(q)
    BY <1>1, <2>2 DEF InQueue, InWaiting
  <2>10. InQueue(p) \subseteq InQueue(q) \cup {d0}
    BY <1>10, <1>11, <2>2, <2>5, <2>8, <2>9
  <2>11. Full(m)
    BY <1>8, <1>11, <1>14 DEF Full
  <2>12. /\ Pending(p) \subseteq Pending(q) \cup {n}
         /\ \A i \in DOMAIN p.stack :
               Full(p.stack[i]) \/ \E j \in DOMAIN q.stack : p.stack[i] = q.stack[j]
    BY <1>2, <1>11, <2>4, <2>6, <2>11, UnshiftPending DEF Pending
  <2>13. \A k \in Node \ {n} : p.waiting[k] = q.waiting[k]
    BY <1>2, <2>4, <2>6 DEF Without
  <2>14. OnStack(r) = OnStack(q)
    BY <2>4 DEF OnStack
  <2> QED
    BY <2>6, <2>8, <2>10, <2>12, <2>13, <2>14 DEF Grows, p, d0
<1>15. CASE Cardinality(inputs) # 1 /\ ~ \A i \in inputs : main[i] # NoData
  <2>1. p = SetEntry(q, n, at, main)
    BY <1>5, <1>15
  <2>2. /\ QueueOK(workflow, resumed, p) /\ p.stack = q.stack
        /\ p.waiting = With(q, n, at, main)
        /\ Range(p.nodes) \subseteq Range(q.nodes) \cup {n}
    <3>1. n \in Node /\ at \in Nat /\ main \in Mains /\ DOMAIN main = Inputs[workflow][n]
      BY <1>1, <1>4, <1>8
    <3> HIDE DEF n, at, entries, old, inputs
    <3> DEFINE s == SetEntry(q, n, at, main)
    <3>2. QueueOK(workflow, resumed, s) /\ s.stack = q.stack /\ s.waiting = With(q, n, at, main)
      BY <3>1, SetEntryTypes
    <3>3. Range(s.nodes) \subseteq Range(q.nodes) \cup {n}
      BY <3>1, SetEntryTypes
    <3> QED
      BY <2>1, <3>2, <3>3
  <2>3. \A d \in Data(n, main) \cap InQueue(q) :
            at \in DOMAIN q.waiting[n] /\ d \in Data(n, q.waiting[n][at])
    BY <1>10, <1>12, <1>16
  <2>4. SharesNothing(p) /\ InQueue(p) \subseteq InQueue(q) \cup Data(n, main)
    BY <1>1, <1>2, <2>2, <2>3, SetEntryOnce
  <2>5. old \subseteq InQueue(q)
    BY <1>1, <1>16 DEF InQueue, InWaiting
  <2>6. InQueue(p) \subseteq InQueue(q) \cup {d0}
    BY <1>10, <2>4, <2>5
  <2>7. Pending(p) \subseteq Pending(q) \cup {n}
    BY <2>2 DEF Pending
  <2>8. \A k \in Node \ {n} : p.waiting[k] = q.waiting[k]
    BY <1>2, <2>2 DEF With
  <2>9. OnStack(p) = OnStack(q)
    BY <2>2 DEF OnStack
  <2> QED
    BY <2>2, <2>4, <2>6, <2>7, <2>8, <2>9 DEF Grows, p, d0
<1> QED
  BY <1>13, <1>14, <1>15

\* The connections of the outputs with data.
Added(n, outputs) == {c \in Flow.connections : c.from = n /\ c.output \in outputs}

\* The order of nodesToAdd is a strict total order of the connections of a node: no two nodes
\* have the same place.
LEMMA ComesBeforeOrders ==
    ASSUME workflow \in DOMAIN Definition, NEW n, NEW outputs,
           NEW c \in Added(n, outputs), NEW d \in Added(n, outputs), NEW e \in Added(n, outputs)
    PROVE  /\ ~ ComesBefore(c, c)
           /\ ComesBefore(c, d) /\ ComesBefore(d, e) => ComesBefore(c, e)
           /\ c # d => ComesBefore(c, d) \/ ComesBefore(d, c)
<1> DEFINE rank == Flow.rank
<1>1. /\ Flow.connections \subseteq [from : Node, output : Nat, to : Node, input : Nat]
      /\ rank \in [Node -> Nat] /\ \A k, l \in Node : rank[k] = rank[l] => k = l
  BY EngineAssumption DEF IsWorkflow, Flow
<1>2. \A x \in Added(n, outputs) :
        /\ x \in [from : Node, output : Nat, to : Node, input : Nat]
        /\ x.to \in Node /\ x.output \in Nat /\ x.input \in Nat /\ x.from = n
        /\ rank[x.to] \in Nat
  BY <1>1 DEF Added
<1> HIDE DEF rank
<1>3. \A x, y \in Added(n, outputs) : ComesBefore(x, y) <=>
        \/ rank[x.to] > rank[y.to]
        \/ /\ x.to = y.to
           /\ x.output < y.output \/ (x.output = y.output /\ x.input < y.input)
  BY DEF ComesBefore, rank
<1>4. ~ ComesBefore(c, c)
  BY <1>2, <1>3
<1>5. ComesBefore(c, d) /\ ComesBefore(d, e) => ComesBefore(c, e)
  BY <1>2, <1>3
<1>6. c # d => ComesBefore(c, d) \/ ComesBefore(d, c)
  <2> SUFFICES ASSUME ~ ComesBefore(c, d), ~ ComesBefore(d, c)
               PROVE  c = d
    OBVIOUS
  <2>1. rank[c.to] = rank[d.to]
    BY <1>2, <1>3
  <2>2. c.to = d.to
    BY <1>1, <1>2, <2>1
  <2>3. c.output = d.output /\ c.input = d.input /\ c.from = d.from
    BY <1>2, <1>3, <2>2
  <2> QED
    BY <1>2, <2>2, <2>3
<1> QED
  BY <1>4, <1>5, <1>6

\* nodesToAdd lists the connections of the outputs with data, each once.
LEMMA NodesToAddLists ==
    ASSUME workflow \in DOMAIN Definition, NEW n, NEW outputs
    PROVE  /\ Len(NodesToAdd(n, outputs)) \in Nat
           /\ \A k \in 1 .. Len(NodesToAdd(n, outputs)) :
                 NodesToAdd(n, outputs)[k] \in Added(n, outputs)
           /\ \A k, l \in 1 .. Len(NodesToAdd(n, outputs)) :
                 NodesToAdd(n, outputs)[k] = NodesToAdd(n, outputs)[l] => k = l
           /\ \A c \in Added(n, outputs) :
                 \E k \in 1 .. Len(NodesToAdd(n, outputs)) : NodesToAdd(n, outputs)[k] = c
<1> DEFINE added == Added(n, outputs)
           before(c) == {d \in added : ComesBefore(d, c)}
           place(c) == Cardinality(before(c)) + 1
           N == Cardinality(added)
           f == [c \in added |-> place(c)]
           list == NodesToAdd(n, outputs)
<1>1. IsFiniteSet(added) /\ N \in Nat
  <2>1. IsFiniteSet(Flow.connections)
    BY EngineAssumption DEF IsWorkflow, Flow
  <2>2. IsFiniteSet(added)
    BY <2>1, FS_Subset DEF Added
  <2> QED
    BY <2>2, FS_CardinalityType
<1>2. list = [k \in 1 .. N |-> CHOOSE c \in added : place(c) = k]
  BY DEF NodesToAdd, Added
<1> HIDE DEF list, added
<1>3. ASSUME NEW c \in added
      PROVE  /\ before(c) \subseteq added /\ c \notin before(c)
             /\ IsFiniteSet(before(c)) /\ Cardinality(before(c)) \in Nat /\ Cardinality(before(c)) < N
  <2>1. before(c) \subseteq added /\ c \notin before(c)
    BY ComesBeforeOrders DEF added
  <2>2. /\ IsFiniteSet(before(c)) /\ Cardinality(before(c)) <= N
        /\ N = Cardinality(before(c)) => added = before(c)
    BY <1>1, <2>1, FS_Subset
  <2>3. Cardinality(before(c)) \in Nat
    BY <2>2, FS_CardinalityType
  <2> QED
    BY <1>1, <2>1, <2>2, <2>3
<1>4. ASSUME NEW c \in added, NEW d \in added, ComesBefore(c, d)
      PROVE  place(c) < place(d)
  <2>1. before(c) \subseteq before(d)
    BY <1>4, ComesBeforeOrders DEF added
  <2>2. c \in before(d) /\ c \notin before(c)
    BY <1>3, <1>4
  <2>3. /\ Cardinality(before(c)) <= Cardinality(before(d))
        /\ Cardinality(before(d)) = Cardinality(before(c)) => before(d) = before(c)
    BY <1>3, <2>1, FS_Subset
  <2>4. Cardinality(before(c)) \in Nat /\ Cardinality(before(d)) \in Nat
    BY <1>3
  <2> HIDE DEF before
  <2> QED
    BY <2>2, <2>3, <2>4
<1>5. f \in Injection(added, 1 .. N)
  <2>1. \A c \in added : place(c) \in 1 .. N
    BY <1>1, <1>3
  <2>2. \A c, d \in added : place(c) = place(d) => c = d
    <3> SUFFICES ASSUME NEW c \in added, NEW d \in added, c # d
                 PROVE  place(c) # place(d)
      OBVIOUS
    <3>1. ComesBefore(c, d) \/ ComesBefore(d, c)
      BY ComesBeforeOrders DEF added
    <3>2. place(c) < place(d) \/ place(d) < place(c)
      BY <1>4, <3>1
    <3>3. place(c) \in Nat /\ place(d) \in Nat
      BY <2>1
    <3> HIDE DEF place
    <3> QED
      BY <3>2, <3>3
  <2> HIDE DEF place
  <2>3. f \in [added -> 1 .. N] /\ \A c, d \in DOMAIN f : f[c] = f[d] => c = d
    BY <2>1, <2>2
  <2> QED
    BY <2>3 DEF Injection, IsInjective
<1>6. IsFiniteSet(1 .. N) /\ Cardinality(1 .. N) = N
  BY <1>1, FS_Interval
<1>7. f \in Surjection(added, 1 .. N)
  BY <1>5, <1>6, FS_Injection
<1>8. \A k \in 1 .. N : \E c \in added : place(c) = k
  <2> HIDE DEF place
  <2> QED
    BY <1>7 DEF Surjection
<1> HIDE DEF place, f
<1>9. \A k \in 1 .. N : list[k] \in added /\ place(list[k]) = k
  <2> SUFFICES ASSUME NEW k \in 1 .. N
               PROVE  list[k] \in added /\ place(list[k]) = k
    OBVIOUS
  <2>1. list[k] = CHOOSE c \in added : place(c) = k
    BY <1>2
  <2> QED
    BY <1>8, <2>1
<1>10. Len(list) = N
  BY <1>1, <1>2
<1>11. \A c \in added : \E k \in 1 .. N : list[k] = c
  <2> SUFFICES ASSUME NEW c \in added
               PROVE  \E k \in 1 .. N : list[k] = c
    OBVIOUS
  <2> DEFINE k == f[c]
  <2>1. k \in 1 .. N /\ \A d \in added : f[d] = k => d = c
    BY <1>5 DEF Injection, IsInjective
  <2>2. \A d \in added : f[d] = place(d)
    BY DEF f
  <2> HIDE DEF k
  <2> QED
    BY <1>9, <2>1, <2>2
<1> QED
  BY <1>1, <1>9, <1>10, <1>11 DEF list, added

\* The queues after each of the connections of a list, as addNodeToBeExecuted() is called for them.
Follows(f, q, list, run, m) ==
    /\ f = [k \in 0 .. m |-> f[k]]
    /\ f[0] = q
    /\ \A k \in 1 .. m : f[k] = AddNodeToBeExecuted(f[k - 1], list[k], run)

\* The recursion of HandOn has a solution.
LEMMA FollowsExists ==
    ASSUME NEW q, NEW list, NEW run, NEW m \in Nat
    PROVE  \E f : Follows(f, q, list, run, m)
<1> DEFINE P == {k \in Nat : \E f : Follows(f, q, list, run, k)}
<1>1. 0 \in P
  <2> DEFINE f == [k \in 0 .. 0 |-> q]
  <2>1. /\ f[0] = q
        /\ f = [k \in 0 .. 0 |-> f[k]]
        /\ 1 .. 0 = {}
    OBVIOUS
  <2> HIDE DEF f
  <2>2. Follows(f, q, list, run, 0)
    BY <2>1 DEF Follows
  <2> QED
    BY <2>2
<1>2. ASSUME NEW k \in Nat, k \in P
      PROVE  k + 1 \in P
  <2>1. PICK f : Follows(f, q, list, run, k)
    BY <1>2
  <2> DEFINE last == AddNodeToBeExecuted(f[k], list[k + 1], run)
             g == [j \in 0 .. k + 1 |-> IF j = k + 1 THEN last ELSE f[j]]
  <2>2. g = [j \in 0 .. k + 1 |-> g[j]]
    OBVIOUS
  <2>3. g[k + 1] = last /\ \A j \in 0 .. k : g[j] = f[j]
    <3> HIDE DEF last
    <3> QED
      OBVIOUS
  <2>4. f[0] = q /\ \A j \in 1 .. k : f[j] = AddNodeToBeExecuted(f[j - 1], list[j], run)
    BY <2>1 DEF Follows
  <2> HIDE DEF g
  <2>5. g[0] = q
    BY <2>3, <2>4
  <2>6. ASSUME NEW j \in 1 .. k + 1
        PROVE  g[j] = AddNodeToBeExecuted(g[j - 1], list[j], run)
    <3>1. CASE j = k + 1
      <4>1. j - 1 = k /\ g[j - 1] = f[k]
        BY <2>3, <3>1
      <4> QED
        BY <2>3, <3>1, <4>1
    <3>2. CASE j \in 1 .. k
      <4>1. g[j - 1] = f[j - 1] /\ g[j] = f[j]
        BY <2>3, <3>2
      <4> QED
        BY <2>4, <3>2, <4>1
    <3> QED
      BY <3>1, <3>2
  <2>7. Follows(g, q, list, run, k + 1)
    BY <2>2, <2>5, <2>6 DEF Follows
  <2> QED
    BY <2>7
<1> HIDE DEF P
<1>3. m \in P
  BY <1>1, <1>2, SetInduction
<1> QED
  BY <1>3 DEF P

\* So HandOn is the last of these queues.
LEMMA HandOnFollows ==
    ASSUME NEW q, NEW n, NEW outputs, NEW run, Len(NodesToAdd(n, outputs)) \in Nat
    PROVE  \E f : /\ Follows(f, q, NodesToAdd(n, outputs), run, Len(NodesToAdd(n, outputs)))
                  /\ HandOn(q, n, outputs, run) = f[Len(NodesToAdd(n, outputs))]
<1> DEFINE list == NodesToAdd(n, outputs)
           N == Len(list)
           H(f) == [k \in 0 .. N |-> IF k = 0 THEN q ELSE AddNodeToBeExecuted(f[k - 1], list[k], run)]
           after == CHOOSE f : f = H(f)
<1>1. HandOn(q, n, outputs, run) = after[N]
  BY DEF HandOn
<1>2. N \in Nat
  OBVIOUS
<1> HIDE DEF list, N
<1>3. \E f : f = H(f)
  <2>1. PICK f : Follows(f, q, list, run, N)
    BY <1>2, FollowsExists
  <2> DEFINE h == H(f)
  <2>2. /\ h = [k \in 0 .. N |-> h[k]]
        /\ h[0] = q
        /\ \A k \in 1 .. N : h[k] = AddNodeToBeExecuted(f[k - 1], list[k], run)
    BY <1>2
  <2> HIDE DEF h
  <2>3. \A k \in 0 .. N : h[k] = f[k]
    <3>1. h[0] = f[0]
      BY <2>1, <2>2 DEF Follows
    <3>2. \A k \in 1 .. N : h[k] = f[k]
      BY <2>1, <2>2 DEF Follows
    <3>3. \A k \in 0 .. N : k = 0 \/ k \in 1 .. N
      BY <1>2
    <3> QED
      BY <3>1, <3>2, <3>3
  <2>4. f = [k \in 0 .. N |-> f[k]]
    BY <2>1 DEF Follows
  <2>5. f = h
    BY <2>2, <2>3, <2>4
  <2> QED
    BY <2>5 DEF h
<1>4. after = H(after)
  BY <1>3
<1> HIDE DEF after
<1> DEFINE h == H(after)
<1>5. /\ h = [k \in 0 .. N |-> h[k]]
      /\ h[0] = q
      /\ \A k \in 1 .. N : h[k] = AddNodeToBeExecuted(after[k - 1], list[k], run)
  BY <1>2
<1>6. after = h
  BY <1>4
<1> HIDE DEF h
<1>7. Follows(after, q, list, run, N)
  BY <1>5, <1>6 DEF Follows
<1> QED
  BY <1>1, <1>7 DEF N, list

\* Nothing grows by nothing, and growing twice is growing by both.
LEMMA GrowsTwice ==
    ASSUME NEW q, NEW p, NEW s, NEW ds, NEW ns, NEW es, NEW ms
    PROVE  /\ QueueOK(workflow, resumed, q) /\ SharesNothing(q) => Grows(q, q, {}, {})
           /\ Grows(q, p, ds, ns) /\ Grows(p, s, es, ms) => Grows(q, s, ds \cup es, ns \cup ms)
<1>1. QueueOK(workflow, resumed, q) /\ SharesNothing(q) => Grows(q, q, {}, {})
  BY DEF Grows
<1>2. ASSUME Grows(q, p, ds, ns), Grows(p, s, es, ms)
      PROVE  Grows(q, s, ds \cup es, ns \cup ms)
  <2>1. \A i \in DOMAIN s.stack :
            Full(s.stack[i]) \/ \E j \in DOMAIN q.stack : s.stack[i] = q.stack[j]
    BY <1>2 DEF Grows
  <2>2. InQueue(s) \subseteq InQueue(q) \cup (ds \cup es)
    BY <1>2 DEF Grows
  <2>3. Pending(s) \subseteq Pending(q) \cup (ns \cup ms)
    BY <1>2 DEF Grows
  <2>4. OnStack(q) \subseteq OnStack(s) /\ \A n \in Node \ (ns \cup ms) : s.waiting[n] = q.waiting[n]
    BY <1>2 DEF Grows
  <2> QED
    BY <1>2, <2>1, <2>2, <2>3, <2>4 DEF Grows
<1> QED
  BY <1>1, <1>2

\* What the first k connections of a list deliver, and to which nodes.
Given(list, run, k) == {Delivery(run, list[j]) : j \in 1 .. k}
Reached(list, k) == {list[j].to : j \in 1 .. k}

\* They grow by one connection.
LEMMA GivenFacts ==
    ASSUME NEW list, NEW run, NEW k \in Nat
    PROVE  /\ Given(list, run, 0) = {} /\ Reached(list, 0) = {}
           /\ Given(list, run, k + 1) = Given(list, run, k) \cup {Delivery(run, list[k + 1])}
           /\ Reached(list, k + 1) = Reached(list, k) \cup {list[k + 1].to}
<1>1. 1 .. 0 = {} /\ 1 .. k + 1 = (1 .. k) \cup {k + 1}
  OBVIOUS
<1> QED
  BY <1>1 DEF Given, Reached

\* Each connection of a list adds one delivery to the queue, which is new.
StepsGrow(f, q, list, run, N) ==
    \A k \in 0 .. N :
        /\ Grows(q, f[k], Given(list, run, k), Reached(list, k))
        /\ k < N => /\ list[k + 1] \in Flow.connections
                    /\ Delivery(run, list[k + 1]) \notin InQueue(f[k]) \cup Given(list, run, k)
                    /\ f[k + 1] = AddNodeToBeExecuted(f[k], list[k + 1], run)

\* The connections of a list deliver different data, one by one.
LEMMA HandOnSteps ==
    ASSUME workflow \in DOMAIN Definition, resumed \in Nat,
           NEW q, QueueOK(workflow, resumed, q), SharesNothing(q),
           NEW n, NEW outputs, NEW run \in Nat,
           \A c \in Added(n, outputs) : Delivery(run, c) \notin InQueue(q),
           NEW list, list = NodesToAdd(n, outputs), NEW N, N = Len(list),
           NEW f, Follows(f, q, list, run, N)
    PROVE  StepsGrow(f, q, list, run, N)
<1>1. /\ N \in Nat
      /\ \A k \in 1 .. N : list[k] \in Added(n, outputs) /\ list[k] \in Flow.connections
      /\ \A k, l \in 1 .. N : list[k] = list[l] => k = l
  BY NodesToAddLists DEF Added
<1>2. ASSUME NEW k \in Nat, k + 1 <= N, Grows(q, f[k], Given(list, run, k), Reached(list, k))
      PROVE  /\ list[k + 1] \in Flow.connections
             /\ Delivery(run, list[k + 1]) \notin InQueue(f[k]) \cup Given(list, run, k)
             /\ f[k + 1] = AddNodeToBeExecuted(f[k], list[k + 1], run)
  <2> DEFINE c == list[k + 1]
  <2>1. k + 1 \in 1 .. N /\ (k + 1) - 1 = k
    BY <1>1, <1>2
  <2>2. f[k + 1] = AddNodeToBeExecuted(f[k], c, run)
    BY <2>1 DEF Follows
  <2>3. c \in Flow.connections /\ c \in Added(n, outputs)
    BY <1>1, <2>1
  <2>4. ASSUME NEW j \in 1 .. k
        PROVE  Delivery(run, list[j]) # Delivery(run, c)
    <3>1. j \in 1 .. N /\ j # k + 1
      BY <2>1
    <3>2. list[j] # c /\ list[j] \in Added(n, outputs)
      BY <1>1, <2>1, <3>1
    <3>3. Flow.connections \subseteq [from : Node, output : Nat, to : Node, input : Nat]
      BY EngineAssumption DEF IsWorkflow, Flow
    <3> HIDE DEF c
    <3>4. ASSUME Delivery(run, list[j]) = Delivery(run, c)
          PROVE  list[j] = c
      <4>1. list[j].to = c.to /\ list[j].input = c.input /\ list[j].output = c.output
        BY <3>4 DEF Delivery
      <4>2. list[j].from = c.from
        BY <2>3, <3>2 DEF Added
      <4> QED
        BY <2>3, <3>2, <3>3, <4>1, <4>2 DEF Added
    <3> QED
      BY <3>2, <3>4
  <2>5. Delivery(run, c) \notin Given(list, run, k)
    BY <2>4 DEF Given
  <2>6. Delivery(run, c) \notin InQueue(f[k])
    BY <1>2, <2>3, <2>5 DEF Grows
  <2> QED
    BY <2>2, <2>3, <2>5, <2>6
<1> DEFINE P == {k \in Nat : k <= N => Grows(q, f[k], Given(list, run, k), Reached(list, k))}
<1>3. 0 \in P
  <2>1. f[0] = q
    BY DEF Follows
  <2>2. Given(list, run, 0) = {} /\ Reached(list, 0) = {}
    BY GivenFacts
  <2>3. Grows(q, f[0], Given(list, run, 0), Reached(list, 0))
    BY <2>1, <2>2, GrowsTwice
  <2> QED
    BY <2>3
<1>4. ASSUME NEW k \in Nat, k \in P
      PROVE  k + 1 \in P
  <2> SUFFICES ASSUME k + 1 <= N
               PROVE  Grows(q, f[k + 1], Given(list, run, k + 1), Reached(list, k + 1))
    OBVIOUS
  <2> DEFINE c == list[k + 1]
  <2>1. Grows(q, f[k], Given(list, run, k), Reached(list, k))
    BY <1>1, <1>4
  <2>2. /\ c \in Flow.connections /\ Delivery(run, c) \notin InQueue(f[k])
        /\ f[k + 1] = AddNodeToBeExecuted(f[k], c, run)
    BY <1>2, <2>1
  <2> HIDE DEF c
  <2>3. Grows(f[k], f[k + 1], {Delivery(run, c)}, {c.to})
    BY <2>1, <2>2, AddNodeGrows DEF Grows
  <2>4. /\ Given(list, run, k + 1) = Given(list, run, k) \cup {Delivery(run, c)}
        /\ Reached(list, k + 1) = Reached(list, k) \cup {c.to}
    <3>1. 1 .. k + 1 = (1 .. k) \cup {k + 1} /\ list[k + 1] = c
      BY DEF c
    <3>2. Given(list, run, k + 1) = Given(list, run, k) \cup {Delivery(run, c)}
      BY <3>1 DEF Given
    <3>3. Reached(list, k + 1) = Reached(list, k) \cup {c.to}
      BY <3>1 DEF Reached
    <3> QED
      BY <3>2, <3>3
  <2> QED
    BY <2>1, <2>3, <2>4, GrowsTwice
<1> HIDE DEF P
<1>5. \A k \in Nat : k \in P
  BY <1>3, <1>4, SetInduction
<1> SUFFICES ASSUME NEW k \in 0 .. N
             PROVE  /\ Grows(q, f[k], Given(list, run, k), Reached(list, k))
                    /\ k < N => /\ list[k + 1] \in Flow.connections
                                /\ Delivery(run, list[k + 1]) \notin InQueue(f[k]) \cup Given(list, run, k)
                                /\ f[k + 1] = AddNodeToBeExecuted(f[k], list[k + 1], run)
  BY DEF StepsGrow
<1>6. k \in Nat /\ k <= N /\ (k < N => k + 1 <= N)
  BY <1>1
<1>7. Grows(q, f[k], Given(list, run, k), Reached(list, k))
  BY <1>5, <1>6 DEF P
<1> QED
  BY <1>2, <1>6, <1>7

\* All of them are delivered in the end.
LEMMA AllGiven ==
    ASSUME workflow \in DOMAIN Definition, NEW n, NEW outputs, NEW run,
           NEW list, list = NodesToAdd(n, outputs)
    PROVE  /\ Given(list, run, Len(list)) = {Delivery(run, c) : c \in Added(n, outputs)}
           /\ Reached(list, Len(list)) \subseteq {c.to : c \in Added(n, outputs)}
           /\ Len(list) \in Nat
           /\ \A k \in 1 .. Len(list) : list[k] \in Added(n, outputs)
<1>1. /\ Len(list) \in Nat
      /\ \A k \in 1 .. Len(list) : list[k] \in Added(n, outputs)
      /\ \A c \in Added(n, outputs) : \E k \in 1 .. Len(list) : list[k] = c
  BY NodesToAddLists
<1>2. Given(list, run, Len(list)) = {Delivery(run, c) : c \in Added(n, outputs)}
  BY <1>1 DEF Given
<1> QED
  BY <1>1, <1>2 DEF Reached

\* What a run hands on is added to the queue, and nothing else.
LEMMA HandOnGrows ==
    ASSUME workflow \in DOMAIN Definition, resumed \in Nat,
           NEW q, QueueOK(workflow, resumed, q), SharesNothing(q),
           NEW n, NEW outputs, NEW run \in Nat,
           \A c \in Added(n, outputs) : Delivery(run, c) \notin InQueue(q)
    PROVE  Grows(q, HandOn(q, n, outputs, run), {Delivery(run, c) : c \in Added(n, outputs)},
                 {c.to : c \in Added(n, outputs)})
<1> DEFINE list == NodesToAdd(n, outputs)
           N == Len(list)
<1>1. N \in Nat
  BY NodesToAddLists
<1>2. PICK f : Follows(f, q, list, run, N) /\ HandOn(q, n, outputs, run) = f[N]
  BY <1>1, HandOnFollows
<1>3. /\ Given(list, run, N) = {Delivery(run, c) : c \in Added(n, outputs)}
      /\ Reached(list, N) \subseteq {c.to : c \in Added(n, outputs)}
  <2>1. PICK l : l = NodesToAdd(n, outputs)
    OBVIOUS
  <2>2. Given(l, run, Len(l)) = {Delivery(run, c) : c \in Added(n, outputs)}
    BY <2>1, AllGiven
  <2>3. Reached(l, Len(l)) \subseteq {c.to : c \in Added(n, outputs)}
    BY <2>1, AllGiven
  <2>4. list = l /\ N = Len(l)
    BY <2>1
  <2> HIDE DEF list, N
  <2> QED
    BY <2>2, <2>3, <2>4
<1>4. Grows(q, f[N], Given(list, run, N), Reached(list, N))
  <2>1. N \in 0 .. N
    BY <1>1
  <2> HIDE DEF list
  <2>2. list = NodesToAdd(n, outputs) /\ N = Len(list)
    BY DEF list
  <2> HIDE DEF N
  <2>3. StepsGrow(f, q, list, run, N)
    BY <1>2, <2>2, HandOnSteps
  <2> QED
    BY <2>1, <2>3 DEF StepsGrow
<1> HIDE DEF list, N
<1> QED
  BY <1>2, <1>3, <1>4 DEF Grows

\* What entries consist of.
LEMMA EntryTypes ==
    ASSUME NEW w, NEW r, NEW q, QueueOK(w, r, q), NEW n \in Node
    PROVE  /\ DOMAIN q.waiting[n] \subseteq Nat
           /\ \A at \in DOMAIN q.waiting[n] : q.waiting[n][at] \in Mains
<1>1. q.waiting[n] \in Entries
  BY DEF QueueOK, Queues
<1>2. PICK S \in SUBSET Nat : q.waiting[n] \in [S -> Mains]
  BY <1>1 DEF Entries
<1> QED
  BY <1>2

\* Of the indices that runIndexes.sort() orders as strings, one is the first.
LEMMA FirstKeyExists ==
    ASSUME NEW S, S \subseteq Nat, S # {}
    PROVE  FirstKey(S) \in S
<1> DEFINE T == {Key(i) : i \in S}
<1>1. \A i \in S : Key(i) \in Nat
  BY DEF Key
<1>2. T \subseteq Nat /\ T # {}
  BY <1>1
<1> HIDE DEF T
<1>3. PICK m \in T : \A k \in T : m <= k
  BY <1>2, LeastNumber
<1>4. PICK i \in S : m = Key(i)
  BY <1>3 DEF T
<1>5. \A j \in S : Key(i) <= Key(j)
  BY <1>3, <1>4 DEF T
<1> QED
  BY <1>5 DEF FirstKey

\* Releasing a waiting node moves its first entry to the stack; if it moves none, then the stack
\* is not empty, or no waiting node may run.
LEMMA ReleaseMoves ==
    ASSUME workflow \in DOMAIN Definition, resumed \in Nat,
           NEW q, QueueOK(workflow, resumed, q), SharesNothing(q)
    PROVE  LET r == ReleaseWaiting(q)
           IN  /\ QueueOK(workflow, resumed, r)
               /\ SharesNothing(r)
               /\ InQueue(r) \subseteq InQueue(q)
               /\ Pending(r) \subseteq Pending(q)
               /\ \A i \in DOMAIN r.stack :
                     \/ \E j \in DOMAIN q.stack : r.stack[i] = q.stack[j]
                     \/ q.stack = <<>> /\ MayRun(q, r.stack[i].node)
               /\ r.stack = <<>> => Ready(r) = {}
               /\ InQueue(q) \subseteq InQueue(r)
               /\ \A n \in Node : \A at \in DOMAIN r.waiting[n] :
                     at \in DOMAIN q.waiting[n] /\ r.waiting[n][at] = q.waiting[n][at]
<1> DEFINE r == ReleaseWaiting(q)
<1>1. CASE q.stack # <<>> \/ Ready(q) = {}
  <2>1. r = q
    BY <1>1 DEF ReleaseWaiting
  <2> QED
    BY <1>1, <2>1
<1>2. CASE q.stack = <<>> /\ Ready(q) # {}
  <2> DEFINE k == Min(Ready(q))
             n == q.nodes[k]
             at == FirstKey(DOMAIN q.waiting[n])
             main == q.waiting[n][at]
             m == Item(n, main)
             p == RemoveEntry(q, n, at)
  <2>1. r = Unshift(p, m)
    BY <1>2 DEF ReleaseWaiting
  <2>2. /\ q.stack \in Seq(Items) /\ q.waiting \in [Node -> Entries] /\ q.nodes \in Seq(Node)
        /\ Range(q.nodes) = {x \in Node : DOMAIN q.waiting[x] # {}}
    BY DEF QueueOK, Queues
  <2>3. k \in DOMAIN q.nodes /\ MayRun(q, q.nodes[k])
    <3>1. Ready(q) \subseteq Nat
      <4>1. DOMAIN q.nodes = 1 .. Len(q.nodes) /\ Len(q.nodes) \in Nat
        BY <2>2, LenProperties
      <4> QED
        BY <4>1 DEF Ready
    <3>2. \E x \in Ready(q) : \A y \in Ready(q) : x <= y
      BY <1>2, <3>1, LeastNumber
    <3>3. k \in Ready(q)
      BY <3>2 DEF Min
    <3> HIDE DEF k
    <3> QED
      BY <3>3 DEF Ready
  <2> HIDE DEF k
  <2>4. n \in Node /\ n \in Range(q.nodes) /\ DOMAIN q.waiting[n] # {}
    <3>1. n \in Range(q.nodes)
      BY <2>3 DEF Range
    <3> QED
      BY <2>2, <3>1
  <2>5. MayRun(q, n)
    BY <2>3
  <2> HIDE DEF n
  <2>6. at \in DOMAIN q.waiting[n]
    <3>1. DOMAIN q.waiting[n] \subseteq Nat
      BY <2>4, EntryTypes
    <3> QED
      BY <2>4, <3>1, FirstKeyExists
  <2> HIDE DEF at
  <2>7. main \in Mains /\ DOMAIN main = Inputs[workflow][n]
    BY <2>4, <2>6, EntryTypes DEF QueueOK
  <2> HIDE DEF main
  <2>8. /\ QueueOK(workflow, resumed, p) /\ p.stack = q.stack /\ p.waiting = Without(q, n, at)
        /\ Range(p.nodes) \subseteq Range(q.nodes)
    BY <2>4, <2>6, RemoveEntryTypes
  <2> HIDE DEF p
  <2>9. SharesNothing(p) /\ InQueue(p) \subseteq InQueue(q) \ Data(n, main)
    BY <2>2, <2>4, <2>6, <2>8, RemoveEntryOnce DEF main
  <2>10. /\ m.node = n /\ m \in Items /\ ItemOK(workflow, resumed, m)
         /\ DataOf(m) = Data(n, main)
    <3>1. m.node = n /\ m.main = main /\ m \in Items /\ m.object = resumed
      BY <2>4, <2>7 DEF Item, Items
    <3>2. resumed <= resumed
      OBVIOUS
    <3> HIDE DEF m
    <3> QED
      BY <2>7, <3>1, <3>2, DataOfNode DEF ItemOK
  <2> HIDE DEF m
  <2>11. /\ QueueOK(workflow, resumed, r)
         /\ r.stack = <<m>> \o p.stack /\ r.waiting = p.waiting /\ r.nodes = p.nodes
    <3> HIDE DEF r
    <3>1. QueueOK(workflow, resumed, Unshift(p, m))
      BY <2>8, <2>10, UnshiftTypes
    <3> QED
      BY <2>1, <3>1 DEF Unshift
  <2> HIDE DEF r
  <2>12. SharesNothing(r) /\ InQueue(r) = InQueue(p) \cup DataOf(m)
    <3>1. p.stack \in Seq(Items) /\ DataOf(m) \cap InQueue(p) = {}
      BY <2>2, <2>8, <2>9, <2>10
    <3>2. SharesNothing(r)
      BY <2>9, <2>10, <2>11, <3>1, UnshiftOnce
    <3>3. InQueue(r) = InQueue(p) \cup DataOf(m)
      BY <2>10, <2>11, <3>1, UnshiftData
    <3> QED
      BY <3>2, <3>3
  <2>13. Data(n, main) \subseteq InQueue(q)
    BY <2>4, <2>6 DEF main, InQueue, InWaiting
  <2>14. /\ {r.stack[i].node : i \in DOMAIN r.stack}
               \subseteq {p.stack[i].node : i \in DOMAIN p.stack} \cup {n}
         /\ \A i \in DOMAIN r.stack : r.stack[i] = m \/ \E j \in DOMAIN p.stack : r.stack[i] = p.stack[j]
    BY <2>2, <2>8, <2>10, <2>11, UnshiftPending
  <2>15. Pending(r) \subseteq Pending(q)
    <3>1. n \in Pending(q) /\ Range(q.nodes) \subseteq Pending(q)
      BY <2>4 DEF Pending
    <3>2. {p.stack[i].node : i \in DOMAIN p.stack} \subseteq Pending(q)
      BY <2>8 DEF Pending
    <3>3. Range(r.nodes) \subseteq Range(q.nodes)
      BY <2>8, <2>11
    <3> HIDE DEF n
    <3> QED
      BY <2>14, <3>1, <3>2, <3>3 DEF Pending
  <2>16. \A i \in DOMAIN r.stack :
            \/ \E j \in DOMAIN q.stack : r.stack[i] = q.stack[j]
            \/ q.stack = <<>> /\ MayRun(q, r.stack[i].node)
    BY <1>2, <2>5, <2>8, <2>10, <2>14
  <2>17. r.stack # <<>>
    BY <2>2, <2>8, <2>10, <2>11, Unshifted
  <2>18. /\ InQueue(q) \subseteq InQueue(p) \cup Data(n, main)
         /\ \A x \in Node : \A bt \in DOMAIN p.waiting[x] :
               bt \in DOMAIN q.waiting[x] /\ p.waiting[x][bt] = q.waiting[x][bt]
    BY <2>2, <2>4, <2>6, <2>8, RemoveEntryKeeps DEF main
  <2>19. InQueue(q) \subseteq InQueue(r)
    BY <2>10, <2>12, <2>18
  <2>20. \A x \in Node : \A bt \in DOMAIN r.waiting[x] :
            bt \in DOMAIN q.waiting[x] /\ r.waiting[x][bt] = q.waiting[x][bt]
    BY <2>11, <2>18
  <2> QED
    BY <2>9, <2>10, <2>11, <2>12, <2>13, <2>15, <2>16, <2>17, <2>19, <2>20 DEF r
<1> QED
  BY <1>1, <1>2

----------------------------------------------------------------------------
(* The invariant: no datum is in two places.                               *)

InRun(run) == Data(run.node, run.main)

\* The data of the queue, of the current item and of all runs are different.
Once(q, cur, rs) ==
    /\ SharesNothing(q)
    /\ DataOf(cur) \cap InQueue(q) = {}
    /\ \A k, l \in DOMAIN rs : k # l => InRun(rs[k]) \cap InRun(rs[l]) = {}
    /\ \A k \in DOMAIN rs : InRun(rs[k]) \cap (InQueue(q) \cup DataOf(cur)) = {}

\* The data come from runs that were recorded, or from the start.
FromRuns(ds, last) == \A d \in ds : d[3].run \in 0 .. last

\* The node that waited or failed was put back: the last run has the same data, until it is taken
\* back, and nothing comes from it.  A cancelled execution whose node has waited stays like that.
NoDoubles ==
    /\ status \in {"running", "success"} \/ current # Nothing => Once(Queue, current, runs)
    /\ status \in {"waiting", "error"} => Once(Queue, Nothing, Front(runs))
    /\ LET last == IF status \in {"waiting", "error"} THEN Len(runs) - 1 ELSE Len(runs)
       IN  /\ FromRuns(InQueue(Queue) \cup DataOf(current), last)
           /\ \A k \in DOMAIN runs : FromRuns(InRun(runs[k]), last)

\* An engine that executes no node holds no data.
LEMMA NothingHasNoData == DataOf(Nothing) = {}
  BY DEF DataOf, Nothing

\* The first item that is taken off has data no other item or entry has.
LEMMA TailOnce ==
    ASSUME NEW q, q.stack \in Seq(Items), q.stack # <<>>, SharesNothing(q),
           NEW p, p.stack = Tail(q.stack), p.waiting = q.waiting
    PROVE  /\ SharesNothing(p) /\ InQueue(p) \subseteq InQueue(q)
           /\ DataOf(Head(q.stack)) \subseteq InQueue(q)
           /\ DataOf(Head(q.stack)) \cap InQueue(p) = {}
<1>1. /\ 1 \in DOMAIN q.stack /\ q.stack[1] = Head(q.stack)
      /\ \A i \in DOMAIN p.stack : i \in Nat /\ i + 1 \in DOMAIN q.stack /\ p.stack[i] = q.stack[i + 1]
      /\ DOMAIN p.stack \subseteq Nat \ {0}
  <2>1. Tail(q.stack) \in Seq(Items)
    BY Taken
  <2>2. DOMAIN p.stack \subseteq Nat \ {0}
    BY <2>1, LenProperties
  <2> QED
    BY <2>2, Taken
<1>2. InWaiting(p) = InWaiting(q)
  BY DEF InWaiting
<1>3. OnStack(p) \subseteq OnStack(q) \ DataOf(Head(q.stack))
  <2> SUFFICES ASSUME NEW d \in OnStack(p)
               PROVE  d \in OnStack(q) /\ d \notin DataOf(Head(q.stack))
    OBVIOUS
  <2>1. PICK i \in DOMAIN p.stack : d \in DataOf(p.stack[i])
    BY DEF OnStack
  <2>2. i + 1 # 1
    BY <1>1
  <2>3. DataOf(q.stack[i + 1]) \cap DataOf(q.stack[1]) = {}
    BY <1>1, <2>2 DEF SharesNothing
  <2> QED
    BY <1>1, <2>1, <2>3 DEF OnStack
<1>4. DataOf(Head(q.stack)) \subseteq OnStack(q)
  BY <1>1 DEF OnStack
<1>5. OnStack(q) \cap InWaiting(q) = {}
  BY DEF SharesNothing
<1>6. ASSUME NEW i \in DOMAIN p.stack, NEW j \in DOMAIN p.stack, i # j
      PROVE  DataOf(p.stack[i]) \cap DataOf(p.stack[j]) = {}
  <2>1. i + 1 # j + 1
    BY <1>1, <1>6
  <2> QED
    BY <1>1, <2>1 DEF SharesNothing
<1>7. SharesNothing(p)
  BY <1>2, <1>3, <1>6 DEF SharesNothing
<1> QED
  BY <1>2, <1>3, <1>4, <1>5, <1>7 DEF InQueue

\* Items keep their data when they are disabled or get the current nodes.
LEMMA SameData ==
    ASSUME NEW q, SharesNothing(q), NEW p, p.waiting = q.waiting,
           DOMAIN p.stack = DOMAIN q.stack,
           \A i \in DOMAIN q.stack : /\ p.stack[i].node = q.stack[i].node
                                     /\ p.stack[i].main = q.stack[i].main
    PROVE  SharesNothing(p) /\ InQueue(p) = InQueue(q)
<1>1. \A i \in DOMAIN q.stack : DataOf(p.stack[i]) = DataOf(q.stack[i])
  BY DEF DataOf
<1>2. InWaiting(p) = InWaiting(q)
  BY DEF InWaiting
<1>3. OnStack(p) = OnStack(q)
  BY <1>1 DEF OnStack
<1> QED
  BY <1>1, <1>2, <1>3 DEF SharesNothing, InQueue

\* The current item becomes a run: the data are still in one place.
LEMMA RecordOnce ==
    ASSUME NEW q, NEW cur, NEW rs, rs \in Seq(Runs), Once(q, cur, rs),
           NEW run \in Runs, run.node = cur.node, run.main = cur.main
    PROVE  /\ Once(q, Nothing, Append(rs, run))
           /\ InRun(run) = DataOf(cur)
           /\ Front(Append(rs, run)) = rs
           /\ \A k \in DOMAIN Append(rs, run) : (k = Len(rs) + 1 /\ Append(rs, run)[k] = run) \/ (k \in DOMAIN rs /\ Append(rs, run)[k] = rs[k])
           /\ Append(rs, run) \in Seq(Runs) /\ Append(rs, run) # <<>>
           /\ Len(Append(rs, run)) = Len(rs) + 1 /\ Len(rs) \in Nat
<1> DEFINE new == Append(rs, run)
<1>1. /\ Len(rs) \in Nat /\ DOMAIN rs = 1 .. Len(rs)
      /\ new \in Seq(Runs) /\ Len(new) = Len(rs) + 1
      /\ \A i \in 1 .. Len(rs) : new[i] = rs[i]
      /\ new[Len(rs) + 1] = run
  BY LenProperties, AppendProperties
<1>2. DOMAIN new = 1 .. Len(rs) + 1
  BY <1>1, LenProperties
<1>3. InRun(run) = DataOf(cur)
  BY DataOfNode DEF InRun
<1>4. new # <<>>
  BY <1>1, EmptySeq
<1>5. Front(new) = rs
  <2>1. /\ Front(new) \in Seq(Runs) /\ Len(Front(new)) = Len(new) - 1
        /\ DOMAIN Front(new) = 1 .. Len(new) - 1
        /\ \A i \in DOMAIN Front(new) : Front(new)[i] = new[i]
    BY <1>1, <1>4, Popped
  <2> DEFINE f == Front(new)
  <2>2. f \in Seq(Runs) /\ Len(f) = Len(rs) /\ \A i \in 1 .. Len(rs) : f[i] = rs[i]
    BY <1>1, <2>1
  <2> HIDE DEF f
  <2> QED
    BY <2>2, SeqEqual DEF f
<1> HIDE DEF new
<1>6. \A k \in DOMAIN new : (k = Len(rs) + 1 /\ new[k] = run) \/ (k \in DOMAIN rs /\ new[k] = rs[k])
  <2> SUFFICES ASSUME NEW k \in DOMAIN new
               PROVE  (k = Len(rs) + 1 /\ new[k] = run) \/ (k \in DOMAIN rs /\ new[k] = rs[k])
    OBVIOUS
  <2> DEFINE N == Len(rs)
  <2>1. N \in Nat /\ k \in 1 .. N + 1
    BY <1>1, <1>2
  <2> HIDE DEF N
  <2>2. k = N + 1 \/ k \in 1 .. N
    BY <2>1
  <2> QED
    BY <1>1, <2>2 DEF N
<1>7. Once(q, Nothing, new)
  <2>1. \A k \in DOMAIN new : InRun(new[k]) \cap InQueue(q) = {}
    BY <1>3, <1>6 DEF Once
  <2>2. ASSUME NEW k \in DOMAIN new, NEW l \in DOMAIN new, k # l
        PROVE  InRun(new[k]) \cap InRun(new[l]) = {}
    BY <1>3, <1>6, <2>2 DEF Once
  <2> QED
    BY <2>1, <2>2, NothingHasNoData DEF Once
<1> QED
  BY <1>1, <1>3, <1>4, <1>5, <1>6, <1>7 DEF new

\* Fewer places, of the same data.
LEMMA OnceLess ==
    ASSUME NEW q, NEW cur, NEW rs, Once(q, cur, rs),
           NEW p, NEW c, SharesNothing(p), DataOf(c) \cap InQueue(p) = {},
           InQueue(p) \cup DataOf(c) \subseteq InQueue(q) \cup DataOf(cur)
    PROVE  Once(p, c, rs)
<1>1. \A k \in DOMAIN rs : InRun(rs[k]) \cap (InQueue(p) \cup DataOf(c)) = {}
  BY DEF Once
<1> QED
  BY <1>1 DEF Once

\* Another stack, with the same entries.
LEMMA StackTypes ==
    ASSUME NEW w, NEW r, NEW q, QueueOK(w, r, q), NEW t,
           NEW s \in Seq(Items), \A i \in DOMAIN s : ItemOK(w, t, s[i])
    PROVE  QueueOK(w, t, [stack |-> s, waiting |-> q.waiting, nodes |-> q.nodes])
<1> DEFINE p == [stack |-> s, waiting |-> q.waiting, nodes |-> q.nodes]
<1>1. p \in Queues /\ p.stack = s /\ p.waiting = q.waiting /\ p.nodes = q.nodes
  BY DEF QueueOK, Queues
<1> HIDE DEF p
<1> QED
  BY <1>1 DEF QueueOK, p

\* What Typing says of the stack.
LEMMA StackOK ==
    ASSUME Typing
    PROVE  /\ Queue.stack = stack /\ Queue.waiting = waiting /\ Queue.nodes = waitingNodes
           /\ stack \in Seq(Items)
           /\ \A i \in DOMAIN stack : ItemOK(workflow, resumed, stack[i])
<1>1. Queue.stack = stack /\ Queue.waiting = waiting /\ Queue.nodes = waitingNodes
  BY DEF Queue
<1> HIDE DEF Queue
<1>2. QueueOK(workflow, resumed, Queue)
  BY DEF Typing
<1>3. Queue.stack \in Seq(Items) /\ \A i \in DOMAIN Queue.stack : ItemOK(workflow, resumed, Queue.stack[i])
  BY <1>2 DEF QueueOK, Queues
<1> QED
  BY <1>1, <1>3

----------------------------------------------------------------------------
(* Every step keeps the types, and no datum in two places.                 *)

Inv == Typing /\ NoDoubles

\* Taking an item off the stack moves its data, or drops them.
LEMMA TakeStep ==
    ASSUME Inv, Take
    PROVE  Inv'
<1> DEFINE head == Head(stack)
<1>1. /\ status = "running" /\ current = Nothing /\ stack # <<>> /\ stack' = Tail(stack)
      /\ current' = head \/ current' = Nothing
      /\ continued' = TRUE \/ continued' = continued
      /\ workflow' = workflow /\ waiting' = waiting /\ waitingNodes' = waitingNodes
      /\ runs' = runs /\ status' = status /\ resumed' = resumed
  BY DEF Take
<1>2. /\ stack \in Seq(Items)
      /\ \A i \in DOMAIN stack : ItemOK(workflow, resumed, stack[i])
      /\ Queue.stack = stack /\ Queue.waiting = waiting /\ Queue.nodes = waitingNodes
      /\ QueueOK(workflow, resumed, Queue)
  BY StackOK DEF Inv, Typing
<1>3. /\ Tail(stack) \in Seq(Items)
      /\ \A i \in DOMAIN Tail(stack) : i + 1 \in DOMAIN stack /\ Tail(stack)[i] = stack[i + 1]
      /\ 1 \in DOMAIN stack /\ stack[1] = head
  BY <1>1, <1>2, Taken
<1>4. /\ Queue' = [stack |-> Tail(stack), waiting |-> Queue.waiting, nodes |-> Queue.nodes]
      /\ Queue'.stack = Tail(stack) /\ Queue'.waiting = waiting
  BY <1>1 DEF Queue
<1> HIDE DEF Queue, head
<1>5. \A i \in DOMAIN Tail(stack) : ItemOK(workflow, resumed, Tail(stack)[i])
  BY <1>2, <1>3
<1>6. QueueOK(workflow', resumed', Queue')
  BY <1>1, <1>2, <1>3, <1>4, <1>5, StackTypes
<1>7. current' = Nothing \/ ItemOK(workflow', resumed', current')
  BY <1>1, <1>2, <1>3
<1>8. Typing'
  BY <1>1, <1>6, <1>7 DEF Inv, Typing, Statuses
<1>9. /\ SharesNothing(Queue') /\ InQueue(Queue') \subseteq InQueue(Queue)
      /\ DataOf(head) \subseteq InQueue(Queue) /\ DataOf(head) \cap InQueue(Queue') = {}
  <2>1. SharesNothing(Queue)
    BY <1>1 DEF Inv, NoDoubles, Once
  <2>2. /\ Queue.stack \in Seq(Items) /\ Queue.stack # <<>>
        /\ Queue'.stack = Tail(Queue.stack) /\ Queue'.waiting = Queue.waiting
        /\ Head(Queue.stack) = head
    BY <1>1, <1>2, <1>4 DEF head
  <2> DEFINE p == Queue'
  <2> HIDE DEF p
  <2>3. /\ SharesNothing(p) /\ InQueue(p) \subseteq InQueue(Queue)
        /\ DataOf(Head(Queue.stack)) \subseteq InQueue(Queue)
        /\ DataOf(Head(Queue.stack)) \cap InQueue(p) = {}
    BY <2>1, <2>2, TailOnce DEF p
  <2> QED
    BY <2>2, <2>3 DEF p
<1>10. /\ DataOf(current') \cap InQueue(Queue') = {}
       /\ InQueue(Queue') \cup DataOf(current') \subseteq InQueue(Queue) \cup DataOf(current)
  BY <1>1, <1>9, NothingHasNoData
<1>11. Once(Queue', current', runs')
  BY <1>1, <1>9, <1>10, OnceLess DEF Inv, NoDoubles
<1>12. NoDoubles'
  BY <1>1, <1>10, <1>11 DEF Inv, NoDoubles, FromRuns
<1> QED
  BY <1>8, <1>12 DEF Inv

\* The data of a node that returns null are dropped.
LEMMA ReturnNullStep ==
    ASSUME Inv, ReturnNull
    PROVE  Inv'
<1>1. /\ current # Nothing /\ current' = Nothing /\ continued' = TRUE
      /\ workflow' = workflow /\ Queue' = Queue /\ stack' = stack
      /\ runs' = runs /\ status' = status /\ resumed' = resumed
  BY DEF ReturnNull, queue, Queue
<1> HIDE DEF Queue
<1>2. Typing'
  BY <1>1 DEF Inv, Typing
<1>3. Once(Queue, current, runs) /\ status \notin {"waiting", "error"}
  BY <1>1 DEF Inv, NoDoubles, Typing
<1>4. Once(Queue, Nothing, runs)
  BY <1>3, NothingHasNoData DEF Once
<1>5. NoDoubles'
  BY <1>1, <1>3, <1>4, NothingHasNoData DEF Inv, NoDoubles, FromRuns
<1> QED
  BY <1>2, <1>5 DEF Inv

\* A cancelled or finished execution is as it was.
LEMMA EndStep ==
    ASSUME Inv, Cancel \/ Finish
    PROVE  Inv'
<1>1. /\ status = "running" /\ status' \in {"canceled", "success"}
      /\ status' = "success" => stack = <<>> /\ current = Nothing
      /\ workflow' = workflow /\ Queue' = Queue /\ stack' = stack /\ current' = current
      /\ runs' = runs /\ resumed' = resumed /\ continued' = continued
  BY DEF Cancel, Finish, queue, Queue
<1> HIDE DEF Queue
<1>2. Typing'
  BY <1>1 DEF Inv, Typing, Statuses
<1>3. NoDoubles'
  BY <1>1 DEF Inv, NoDoubles
<1> QED
  BY <1>2, <1>3 DEF Inv

\* The run that is recorded has the data of the current item, which only it had.
LEMMA RecordStep ==
    ASSUME Inv, current # Nothing, NEW outputs, outputs \subseteq OutputsOf(current.node),
           Record(outputs), workflow' = workflow
    PROVE  /\ Len(runs) \in Nat /\ Len(runs') = Len(runs) + 1 /\ runs' # <<>>
           /\ runs' \in Seq(Runs) /\ \A k \in DOMAIN runs' : RunOK(workflow', runs'[k])
           /\ Front(runs') = runs
           /\ status \in {"running", "canceled"}
           /\ ItemOK(workflow, resumed, current)
           /\ Once(Queue, current, runs) /\ Once(Queue, Nothing, runs')
           /\ FromRuns(InQueue(Queue) \cup DataOf(current), Len(runs))
           /\ \A k \in DOMAIN runs' : FromRuns(InRun(runs'[k]), Len(runs))
           /\ \A k \in DOMAIN runs' :
                 \/ k = Len(runs') /\ runs'[k].node = current.node /\ runs'[k].main = current.main
                 \/ k \in DOMAIN runs /\ runs'[k] = runs[k]
<1> DEFINE run == [node |-> current.node, main |-> current.main, handed |-> outputs]
<1>1. runs' = Append(runs, run)
  BY DEF Record
<1>2. /\ ItemOK(workflow, resumed, current) /\ runs \in Seq(Runs)
      /\ \A k \in DOMAIN runs : RunOK(workflow, runs[k])
      /\ status \in {"running", "canceled"} /\ workflow \in DOMAIN Definition
  BY DEF Inv, Typing, Statuses
<1>3. /\ Once(Queue, current, runs)
      /\ FromRuns(InQueue(Queue) \cup DataOf(current), Len(runs))
      /\ \A k \in DOMAIN runs : FromRuns(InRun(runs[k]), Len(runs))
  BY <1>2 DEF Inv, NoDoubles
<1>4. run \in Runs /\ RunOK(workflow, run) /\ run.node = current.node /\ run.main = current.main
  <2>1. current.node \in Node /\ current.main \in Mains
    BY <1>2 DEF ItemOK, Items
  <2>2. outputs \subseteq Nat
    BY <1>2, EngineAssumption DEF OutputsOf, Flow, IsWorkflow
  <2>3. run \in Runs
    BY <2>1, <2>2 DEF Runs
  <2>4. outputs \subseteq {c.output : c \in {d \in Definition[workflow].connections : d.from = current.node}}
    BY DEF OutputsOf, Flow
  <2>5. run.handed = outputs /\ run.node = current.node /\ run.main = current.main
    OBVIOUS
  <2> HIDE DEF run
  <2> QED
    BY <2>3, <2>4, <2>5 DEF RunOK
<1> HIDE DEF run
<1>5. /\ Once(Queue, Nothing, Append(runs, run))
      /\ InRun(run) = DataOf(current)
      /\ Front(Append(runs, run)) = runs
      /\ \A k \in DOMAIN Append(runs, run) :
            \/ k = Len(runs) + 1 /\ Append(runs, run)[k] = run
            \/ (k \in DOMAIN runs /\ Append(runs, run)[k] = runs[k])
      /\ Append(runs, run) \in Seq(Runs) /\ Append(runs, run) # <<>>
      /\ Len(Append(runs, run)) = Len(runs) + 1 /\ Len(runs) \in Nat
  BY <1>2, <1>3, <1>4, RecordOnce
<1>6. FromRuns(InRun(run), Len(runs))
  BY <1>3, <1>5 DEF FromRuns
<1> QED
  BY <1>1, <1>2, <1>3, <1>4, <1>5, <1>6

\* What it hands on comes from no earlier run, so no other item, entry or run has it.
LEMMA HandOnOK ==
    ASSUME Inv, NEW outputs \in SUBSET OutputsOf(current.node), Succeed(outputs)
    PROVE  LET added == Added(current.node, outputs)
               h == HandOn(Queue, current.node, outputs, Len(runs) + 1)
           IN  /\ QueueOK(workflow, resumed, h) /\ SharesNothing(h)
               /\ Grows(Queue, h, {Delivery(Len(runs) + 1, c) : c \in added}, {c.to : c \in added})
<1> DEFINE run == Len(runs) + 1
           added == Added(current.node, outputs)
           h == HandOn(Queue, current.node, outputs, run)
<1>1. current # Nothing /\ Record(outputs) /\ workflow' = workflow
  BY DEF Succeed
<1>2. /\ Len(runs) \in Nat /\ Once(Queue, current, runs)
      /\ FromRuns(InQueue(Queue) \cup DataOf(current), Len(runs))
  BY <1>1, RecordStep
<1>3. /\ workflow \in DOMAIN Definition /\ resumed \in Nat /\ QueueOK(workflow, resumed, Queue)
      /\ SharesNothing(Queue) /\ run \in Nat
  BY <1>2, EngineAssumption DEF Inv, Typing, Once
<1>4. \A c \in added : Delivery(run, c)[3].run = run
  BY DEF Delivery
<1>5. \A c \in added : Delivery(run, c) \notin InQueue(Queue)
  BY <1>2, <1>4 DEF FromRuns
<1> HIDE DEF run
<1>6. Grows(Queue, h, {Delivery(run, c) : c \in added}, {c.to : c \in added})
  BY <1>3, <1>5, HandOnGrows
<1> QED
  BY <1>6 DEF Grows, run

\* A node that gives data: they are in the queue of the nodes it is connected to, and nowhere else.
LEMMA SucceedStep ==
    ASSUME Inv, NEW outputs \in SUBSET OutputsOf(current.node), Succeed(outputs)
    PROVE  Inv'
<1> DEFINE run == Len(runs) + 1
           fresh == {Delivery(run, c) : c \in Added(current.node, outputs)}
           h == HandOn(Queue, current.node, outputs, run)
           r == ReleaseWaiting(h)
<1>1. /\ current # Nothing /\ Record(outputs) /\ SetQueue(r)
      /\ current' = Nothing /\ continued' = FALSE
      /\ workflow' = workflow /\ status' = status /\ resumed' = resumed
  BY DEF Succeed
<1>2. /\ Len(runs) \in Nat /\ Len(runs') = Len(runs) + 1
      /\ runs' \in Seq(Runs) /\ \A k \in DOMAIN runs' : RunOK(workflow', runs'[k])
      /\ status \in {"running", "canceled"}
      /\ Once(Queue, current, runs) /\ Once(Queue, Nothing, runs')
      /\ FromRuns(InQueue(Queue) \cup DataOf(current), Len(runs))
      /\ \A k \in DOMAIN runs' : FromRuns(InRun(runs'[k]), Len(runs))
  BY <1>1, RecordStep
<1>3. /\ workflow \in DOMAIN Definition /\ resumed \in Nat /\ QueueOK(workflow, resumed, Queue)
      /\ SharesNothing(Queue) /\ run \in Nat
  BY <1>2, EngineAssumption DEF Inv, Typing, Once
<1>4. \A d \in fresh : d[3].run = run
  BY DEF Delivery
<1>6. Grows(Queue, h, fresh, {c.to : c \in Added(current.node, outputs)})
  BY HandOnOK
<1> HIDE DEF run
<1> HIDE DEF h, fresh
<1>7. /\ QueueOK(workflow, resumed, r) /\ SharesNothing(r)
      /\ InQueue(r) \subseteq InQueue(Queue) \cup fresh
  BY <1>3, <1>6, ReleaseMoves DEF Grows
<1> HIDE DEF r
<1>8. Queue' = r
  <2>1. r = [stack |-> r.stack, waiting |-> r.waiting, nodes |-> r.nodes]
    BY <1>7 DEF QueueOK, Queues
  <2> QED
    BY <1>1, <2>1 DEF SetQueue, Queue
<1>9. Typing'
  BY <1>1, <1>2, <1>7, <1>8 DEF Inv, Typing
<1>10. \A k \in DOMAIN runs' : InRun(runs'[k]) \cap InQueue(r) = {}
  <2>1. \A k \in DOMAIN runs' : InRun(runs'[k]) \cap fresh = {}
    BY <1>2, <1>4 DEF FromRuns, run
  <2> QED
    BY <1>2, <1>7, <2>1 DEF Once
<1>11. Once(Queue', Nothing, runs')
  BY <1>2, <1>7, <1>8, <1>10, NothingHasNoData DEF Once
<1>12. /\ FromRuns(InQueue(r) \cup DataOf(Nothing), Len(runs'))
       /\ \A k \in DOMAIN runs' : FromRuns(InRun(runs'[k]), Len(runs'))
  <2>1. 0 .. Len(runs) \subseteq 0 .. Len(runs') /\ run \in 0 .. Len(runs')
    BY <1>2 DEF run
  <2> QED
    BY <1>2, <1>4, <1>7, <2>1, NothingHasNoData DEF FromRuns
<1>13. NoDoubles'
  BY <1>1, <1>2, <1>8, <1>11, <1>12 DEF NoDoubles
<1> QED
  BY <1>9, <1>13 DEF Inv

\* The destination's data become those of its run.
LEMMA DestinationStep ==
    ASSUME Inv, Destination
    PROVE  Inv'
<1>1. /\ current # Nothing /\ Record({}) /\ current' = Nothing /\ continued' = TRUE
      /\ workflow' = workflow /\ Queue' = Queue /\ stack' = stack
      /\ status' = status /\ resumed' = resumed
  BY DEF Destination, queue, Queue
<1> HIDE DEF Queue
<1>2. /\ Len(runs) \in Nat /\ Len(runs') = Len(runs) + 1
      /\ runs' \in Seq(Runs) /\ \A k \in DOMAIN runs' : RunOK(workflow', runs'[k])
      /\ status \in {"running", "canceled"}
      /\ Once(Queue, Nothing, runs')
      /\ FromRuns(InQueue(Queue) \cup DataOf(current), Len(runs))
      /\ \A k \in DOMAIN runs' : FromRuns(InRun(runs'[k]), Len(runs))
  BY <1>1, RecordStep
<1>3. Typing'
  BY <1>1, <1>2 DEF Inv, Typing
<1>4. /\ FromRuns(InQueue(Queue) \cup DataOf(Nothing), Len(runs'))
      /\ \A k \in DOMAIN runs' : FromRuns(InRun(runs'[k]), Len(runs'))
  <2>1. 0 .. Len(runs) \subseteq 0 .. Len(runs')
    BY <1>2
  <2> QED
    BY <1>2, <2>1, NothingHasNoData DEF FromRuns
<1>5. NoDoubles'
  BY <1>1, <1>2, <1>4 DEF NoDoubles
<1> QED
  BY <1>3, <1>5 DEF Inv

\* A node that waits or fails is put back: its data are in its item, and in the run that is taken
\* back later.
LEMMA PutBackStep ==
    ASSUME Inv, Fail \/ Wait
    PROVE  Inv'
<1>1. /\ current # Nothing /\ Record({}) /\ current' = Nothing /\ continued' = continued
      /\ stack' = <<current>> \o stack /\ waiting' = waiting /\ waitingNodes' = waitingNodes
      /\ workflow' = workflow /\ resumed' = resumed
      /\ status' \in {"waiting", "error", "canceled"}
      /\ status' = "waiting" => resumed < MaxResumes
  BY DEF Fail, Wait, PutBack
<1>2. /\ Len(runs) \in Nat /\ Len(runs') = Len(runs) + 1 /\ runs' # <<>>
      /\ runs' \in Seq(Runs) /\ \A k \in DOMAIN runs' : RunOK(workflow', runs'[k])
      /\ Front(runs') = runs /\ ItemOK(workflow, resumed, current)
      /\ Once(Queue, current, runs)
      /\ FromRuns(InQueue(Queue) \cup DataOf(current), Len(runs))
      /\ \A k \in DOMAIN runs' : FromRuns(InRun(runs'[k]), Len(runs))
  BY <1>1, RecordStep
<1>3. /\ stack \in Seq(Items) /\ \A i \in DOMAIN stack : ItemOK(workflow, resumed, stack[i])
      /\ Queue.stack = stack /\ Queue.waiting = waiting /\ Queue.nodes = waitingNodes
      /\ QueueOK(workflow, resumed, Queue)
  BY StackOK DEF Inv, Typing
<1>4. /\ Queue' = [stack |-> <<current>> \o stack, waiting |-> Queue.waiting, nodes |-> Queue.nodes]
      /\ Queue'.stack = <<current>> \o Queue.stack /\ Queue'.waiting = Queue.waiting
  BY <1>1 DEF Queue
<1> HIDE DEF Queue
<1> DEFINE p == Queue'
           s == <<current>> \o stack
<1>5. current \in Items
  BY <1>2 DEF ItemOK
<1>6. /\ s \in Seq(Items) /\ s # <<>> /\ s[1] = current
      /\ \A i \in DOMAIN s \ {1} : i - 1 \in DOMAIN stack /\ s[i] = stack[i - 1]
  BY <1>3, <1>5, Unshifted
<1>7. p.stack = <<current>> \o Queue.stack /\ p.waiting = Queue.waiting
  BY <1>4
<1> HIDE DEF p, s
<1>8. \A i \in DOMAIN s : ItemOK(workflow, resumed, s[i])
  BY <1>2, <1>3, <1>6
<1>9. QueueOK(workflow, resumed, p)
  BY <1>3, <1>4, <1>6, <1>8, StackTypes DEF p, s
<1>10. Typing'
  BY <1>1, <1>2, <1>6, <1>9 DEF Inv, Typing, Statuses, p, s
<1>11. SharesNothing(p) /\ InQueue(p) = InQueue(Queue) \cup DataOf(current)
  <2>1. Queue.stack \in Seq(Items) /\ SharesNothing(Queue) /\ DataOf(current) \cap InQueue(Queue) = {}
    BY <1>2, <1>3 DEF Once
  <2> QED
    BY <1>5, <1>7, <2>1, UnshiftOnce, UnshiftData
<1>12. Once(p, Nothing, runs)
  <2>1. DataOf(Nothing) \cap InQueue(p) = {}
    BY NothingHasNoData
  <2>2. InQueue(p) \cup DataOf(Nothing) \subseteq InQueue(Queue) \cup DataOf(current)
    BY <1>11, NothingHasNoData
  <2> QED
    BY <1>2, <1>11, <2>1, <2>2, OnceLess
<1>13. FromRuns(InQueue(p) \cup DataOf(Nothing), Len(runs))
  BY <1>2, <1>11, NothingHasNoData
<1>14. NoDoubles'
  <2>1. Len(runs') - 1 = Len(runs) /\ 0 .. Len(runs) \subseteq 0 .. Len(runs')
    BY <1>2
  <2>2. /\ FromRuns(InQueue(p) \cup DataOf(Nothing), Len(runs'))
        /\ \A k \in DOMAIN runs' : FromRuns(InRun(runs'[k]), Len(runs'))
    BY <1>2, <1>13, <2>1 DEF FromRuns
  <2> QED
    BY <1>1, <1>2, <1>12, <1>13, <2>1, <2>2 DEF NoDoubles, p
<1> QED
  BY <1>10, <1>14 DEF Inv

\* A resumed or retried execution continues without the run of the node that is executed again.
LEMMA ResumeStep ==
    ASSUME Inv, Resume \/ \E load \in BOOLEAN : Retry(load)
    PROVE  Inv'
<1>1. /\ status \in {"waiting", "error"} /\ status' = "running" /\ resumed' = resumed + 1
      /\ resumed < MaxResumes
      /\ runs' = Front(runs) /\ current' = current /\ continued' = continued
      /\ workflow' = workflow /\ waiting' = waiting /\ waitingNodes' = waitingNodes
  BY DEF Resume, Retry, Inv, Typing
<1>2. /\ stack \in Seq(Items) /\ \A i \in DOMAIN stack : ItemOK(workflow, resumed, stack[i])
      /\ Queue.stack = stack /\ Queue.waiting = waiting /\ Queue.nodes = waitingNodes
      /\ QueueOK(workflow, resumed, Queue)
      /\ current = Nothing /\ stack # <<>> /\ runs # <<>> /\ runs \in Seq(Runs)
      /\ \A k \in DOMAIN runs : RunOK(workflow, runs[k])
      /\ resumed \in Nat /\ MaxResumes \in Nat
  BY <1>1, StackOK, EngineAssumption DEF Inv, Typing
<1>3. /\ \/ stack' = stack
         \/ stack' = [i \in DOMAIN stack |->
                   IF stack[i].node = stack[1].node /\ stack[i].object = stack[1].object
                   THEN [stack[i] EXCEPT !.disabled = TRUE]
                   ELSE stack[i]]
         \/ stack' = [i \in DOMAIN stack |->
                   [stack[i] EXCEPT !.disabled = FALSE, !.object = resumed + 1]]
  BY DEF Resume, Retry
<1>4. /\ DOMAIN stack' = DOMAIN stack
      /\ stack' = [i \in DOMAIN stack |-> stack'[i]]
      /\ \A i \in DOMAIN stack : /\ stack'[i].node = stack[i].node
                                 /\ stack'[i].main = stack[i].main
                                 /\ stack'[i].disabled \in BOOLEAN
                                 /\ stack'[i].object \in {stack[i].object, resumed + 1}
                                 /\ stack'[i] \in Items
  <2>1. ASSUME NEW i \in DOMAIN stack
        PROVE  stack[i] \in Items
    BY <1>2 DEF ItemOK
  <2>2. CASE stack' = stack
    BY <1>2, <2>1, <2>2 DEF Items
  <2>3. CASE stack' = [i \in DOMAIN stack |->
                   IF stack[i].node = stack[1].node /\ stack[i].object = stack[1].object
                   THEN [stack[i] EXCEPT !.disabled = TRUE]
                   ELSE stack[i]]
    BY <2>1, <2>3 DEF Items
  <2>4. CASE stack' = [i \in DOMAIN stack |->
                   [stack[i] EXCEPT !.disabled = FALSE, !.object = resumed + 1]]
    <3>1. resumed + 1 \in Nat
      BY <1>2
    <3>2. \A m \in Items : LET x == [m EXCEPT !.disabled = FALSE, !.object = resumed + 1]
                           IN  /\ x.node = m.node /\ x.main = m.main /\ x.disabled \in BOOLEAN
                               /\ x.object = resumed + 1 /\ x \in Items
      BY <3>1 DEF Items
    <3> QED
      BY <2>1, <2>4, <3>2
  <2> QED
    BY <1>3, <2>2, <2>3, <2>4
<1>5. stack' \in Seq(Items) /\ stack' # <<>>
  <2>1. DOMAIN stack = 1 .. Len(stack) /\ Len(stack) \in Nat
    BY <1>2, LenProperties
  <2>2. stack' \in [1 .. Len(stack) -> Items]
    BY <1>4, <2>1
  <2>3. stack' \in Seq(Items)
    BY <2>1, <2>2, SeqDef
  <2>4. Len(stack) # 0
    BY <1>2, EmptySeq
  <2>5. 1 \in DOMAIN stack'
    <3>1. 1 \in 1 .. Len(stack)
      BY <2>1, <2>4
    <3> QED
      BY <1>4, <2>1, <3>1
  <2>6. DOMAIN <<>> = {}
    OBVIOUS
  <2> QED
    BY <2>3, <2>5, <2>6
<1>6. \A i \in DOMAIN stack' : ItemOK(workflow, resumed + 1, stack'[i])
  <2> SUFFICES ASSUME NEW i \in DOMAIN stack
               PROVE  ItemOK(workflow, resumed + 1, stack'[i])
    BY <1>4
  <2>1. ItemOK(workflow, resumed, stack[i])
    BY <1>2
  <2>2. stack[i].object \in Nat
    BY <2>1 DEF ItemOK, Items
  <2>3. stack'[i].object <= resumed + 1
    BY <1>2, <1>4, <2>1, <2>2 DEF ItemOK
  <2> QED
    BY <1>4, <2>1, <2>3 DEF ItemOK
<1>7. /\ Queue' = [stack |-> stack', waiting |-> Queue.waiting, nodes |-> Queue.nodes]
      /\ Queue'.stack = stack' /\ Queue'.waiting = Queue.waiting
  BY <1>1 DEF Queue
<1> HIDE DEF Queue
<1> DEFINE p == Queue'
           s == stack'
<1>8. QueueOK(workflow, resumed + 1, p)
  <2>1. s \in Seq(Items) /\ \A i \in DOMAIN s : ItemOK(workflow, resumed + 1, s[i])
    BY <1>5, <1>6
  <2>2. p = [stack |-> s, waiting |-> Queue.waiting, nodes |-> Queue.nodes]
    BY <1>7
  <2> HIDE DEF p, s
  <2> QED
    BY <1>2, <2>1, <2>2, StackTypes
<1>9. /\ Front(runs) \in Seq(Runs) /\ Len(Front(runs)) = Len(runs) - 1
      /\ Len(runs) \in Nat \ {0} /\ DOMAIN runs = 1 .. Len(runs)
      /\ DOMAIN Front(runs) = 1 .. Len(runs) - 1
      /\ \A k \in DOMAIN Front(runs) : k \in DOMAIN runs /\ Front(runs)[k] = runs[k]
  <2>1. /\ Front(runs) \in Seq(Runs) /\ Len(Front(runs)) = Len(runs) - 1
        /\ Len(runs) \in Nat \ {0} /\ DOMAIN runs = 1 .. Len(runs)
        /\ DOMAIN Front(runs) = 1 .. Len(runs) - 1
        /\ \A k \in DOMAIN Front(runs) : Front(runs)[k] = runs[k]
    BY <1>2, Popped
  <2>2. 1 .. Len(runs) - 1 \subseteq 1 .. Len(runs)
    BY <2>1
  <2> QED
    BY <2>1, <2>2
<1>10. resumed + 1 \in 0 .. MaxResumes
  BY <1>1, <1>2
<1>11. \A k \in DOMAIN runs' : RunOK(workflow', runs'[k])
  BY <1>1, <1>2, <1>9
<1>12. Typing'
  BY <1>1, <1>2, <1>8, <1>9, <1>10, <1>11 DEF Inv, Typing, Statuses
<1>13. /\ Once(Queue, Nothing, Front(runs))
       /\ FromRuns(InQueue(Queue) \cup DataOf(current), Len(runs) - 1)
       /\ \A k \in DOMAIN runs : FromRuns(InRun(runs[k]), Len(runs) - 1)
  BY <1>1 DEF Inv, NoDoubles
<1>14. SharesNothing(p) /\ InQueue(p) = InQueue(Queue)
  <2>1. /\ SharesNothing(Queue) /\ p.waiting = Queue.waiting
        /\ DOMAIN p.stack = DOMAIN Queue.stack
        /\ \A i \in DOMAIN Queue.stack : /\ p.stack[i].node = Queue.stack[i].node
                                         /\ p.stack[i].main = Queue.stack[i].main
    BY <1>2, <1>4, <1>7, <1>13 DEF Once
  <2> HIDE DEF p
  <2> QED
    BY <2>1, SameData
<1>15. Once(p, Nothing, Front(runs))
  BY <1>13, <1>14 DEF Once
<1>16. \A k \in DOMAIN Front(runs) : FromRuns(InRun(Front(runs)[k]), Len(runs) - 1)
  BY <1>9, <1>13
<1>17. NoDoubles'
  BY <1>1, <1>2, <1>9, <1>13, <1>14, <1>15, <1>16 DEF NoDoubles
<1> QED
  BY <1>12, <1>17 DEF Inv

\* At the start the trigger's item is on the stack, and nothing else.
LEMMA InitHolds ==
    ASSUME Init
    PROVE  Inv
<1> DEFINE main == [i \in {0} |-> [run |-> 0, output |-> 0]]
           m == Item(Trigger, main)
<1>1. /\ workflow \in DOMAIN Definition /\ resumed = 0 /\ stack = <<m>>
      /\ waiting = [n \in Node |-> <<>>] /\ waitingNodes = <<>> /\ current = Nothing
      /\ runs = <<>> /\ status = "running" /\ continued = FALSE
  BY DEF Init
<1>2. Trigger \in Node /\ MaxResumes \in Nat
  BY EngineAssumption
<1>3. main \in Mains /\ DOMAIN main = {0}
  <2>1. main \in [{0} -> Source \cup {NoData}]
    BY DEF Source
  <2> HIDE DEF main
  <2> QED
    BY <2>1 DEF Mains
<1>4. DataOf(m) \subseteq {<<Trigger, 0, [run |-> 0, output |-> 0]>>}
  BY DEF DataOf, Item
<1> HIDE DEF main
<1>5. m \in Items /\ ItemOK(workflow, resumed, m)
  <2>1. Inputs[workflow][Trigger] = {0}
    BY <1>1, InputFacts
  <2> QED
    BY <1>1, <1>2, <1>3, <2>1 DEF Item, Items, ItemOK
<1> HIDE DEF m
<1>6. stack \in Seq(Items) /\ DOMAIN stack = {1} /\ stack[1] = m
  <2>1. stack \in Seq(Items) /\ Len(stack) = 1 /\ stack[1] = m
    BY <1>1, <1>5
  <2> QED
    BY <2>1, LenProperties
<1>7. DOMAIN <<>> = {} /\ <<>> \in Seq(Node) /\ <<>> \in Seq(Runs) /\ <<>> \in Entries
      /\ IsFiniteSet({}) /\ Range(<<>>) = {} /\ IsInjective(<<>>)
  <2>1. DOMAIN <<>> = {}
    OBVIOUS
  <2>2. <<>> \in [{} -> Mains] /\ {} \in SUBSET Nat
    OBVIOUS
  <2>3. <<>> \in Entries
    BY <2>2 DEF Entries
  <2> QED
    BY <2>1, <2>3, FS_EmptySet DEF Range, IsInjective
<1>8. /\ Queue.stack = stack /\ Queue.waiting = waiting /\ Queue.nodes = waitingNodes
      /\ waiting \in [Node -> Entries] /\ \A n \in Node : waiting[n] = <<>>
  BY <1>1, <1>7 DEF Queue
<1>9. Queue \in Queues
  BY <1>1, <1>6, <1>7, <1>8 DEF Queue, Queues
<1> HIDE DEF Queue
<1>10. QueueOK(workflow, resumed, Queue)
  BY <1>1, <1>5, <1>6, <1>7, <1>8, <1>9 DEF QueueOK
<1>11. Typing
  <2>1. resumed \in 0 .. MaxResumes
    BY <1>1, <1>2
  <2>2. runs \in Seq(Runs) /\ \A k \in DOMAIN runs : RunOK(workflow, runs[k])
    BY <1>1, <1>7
  <2>3. continued \in BOOLEAN /\ status = "running" /\ current = Nothing
    BY <1>1
  <2> QED
    BY <1>1, <1>10, <2>1, <2>2, <2>3 DEF Typing, Statuses
<1>12. InWaiting(Queue) = {} /\ OnStack(Queue) = DataOf(m)
  BY <1>6, <1>7, <1>8 DEF InWaiting, OnStack
<1>13. SharesNothing(Queue)
  BY <1>6, <1>7, <1>8, <1>12 DEF SharesNothing
<1>14. Once(Queue, current, runs)
  BY <1>1, <1>7, <1>13, NothingHasNoData DEF Once
<1>15. Len(runs) = 0
  BY <1>1
<1>16. FromRuns(InQueue(Queue) \cup DataOf(current), 0)
  BY <1>1, <1>4, <1>12, NothingHasNoData DEF FromRuns, InQueue
<1>17. NoDoubles
  BY <1>1, <1>7, <1>14, <1>15, <1>16 DEF NoDoubles
<1> QED
  BY <1>11, <1>17 DEF Inv

\* Inv is inductive.
LEMMA InvHolds == Spec => []Inv
<1>1. Init => Inv
  BY InitHolds
<1>2. Inv /\ [Next]_vars => Inv'
  <2> SUFFICES ASSUME Inv, [Next]_vars
               PROVE  Inv'
    OBVIOUS
  <2>1. CASE UNCHANGED vars
    BY <2>1 DEF Inv, Typing, NoDoubles, vars, queue, Queue
  <2>2. CASE Take
    BY <2>2, TakeStep
  <2>3. CASE ReturnNull
    BY <2>3, ReturnNullStep
  <2>4. CASE Destination
    BY <2>4, DestinationStep
  <2>5. CASE Fail \/ Wait
    BY <2>5, PutBackStep
  <2>6. CASE Resume \/ \E load \in BOOLEAN : Retry(load)
    BY <2>6, ResumeStep
  <2>7. CASE Cancel \/ Finish
    BY <2>7, EndStep
  <2>8. CASE \E outputs \in SUBSET OutputsOf(current.node) : Succeed(outputs)
    BY <2>8, SucceedStep
  <2> QED
    BY <2>1, <2>2, <2>3, <2>4, <2>5, <2>6, <2>7, <2>8 DEF Next
<1> QED
  BY <1>1, <1>2, PTL DEF Spec

\* The variables have their types, an item and an entry the inputs of its node, and exactly the
\* nodes with an entry are keys of waitingExecution.
THEOREM TypesHold == Spec => []TypeOK
<1>1. Inv => TypeOK
  <2> SUFFICES ASSUME Inv
               PROVE  TypeOK
    OBVIOUS
  <2>1. /\ workflow \in DOMAIN Definition /\ QueueOK(workflow, resumed, Queue)
        /\ current = Nothing \/ ItemOK(workflow, resumed, current)
        /\ \A k \in DOMAIN runs : RunOK(workflow, runs[k])
        /\ status \in Statuses /\ resumed \in 0 .. MaxResumes
        /\ Queue.waiting = waiting /\ Queue.nodes = waitingNodes
        /\ \A i \in DOMAIN stack : ItemOK(workflow, resumed, stack[i])
    BY StackOK DEF Inv, Typing
  <2>2. ASSUME NEW main \in Mains
        PROVE  Range(main) \subseteq Source \cup {NoData}
    <3>1. PICK S \in SUBSET Nat : main \in [S -> Source \cup {NoData}]
      BY DEF Mains
    <3> QED
      BY <3>1 DEF Range
  <2>3. ASSUME NEW m, ItemOK(workflow, resumed, m)
        PROVE  /\ m.node \in Node /\ m.disabled \in BOOLEAN /\ m.object \in 0 .. resumed
               /\ DOMAIN m.main = InputsOf(m.node) /\ Range(m.main) \subseteq Source \cup {NoData}
    <3>1. m.node \in Node /\ m.disabled \in BOOLEAN /\ m.object \in Nat /\ m.main \in Mains
      BY <2>3 DEF ItemOK, Items
    <3>2. m.object \in 0 .. resumed
      BY <2>1, <2>3, <3>1 DEF ItemOK
    <3> QED
      BY <2>2, <2>3, <3>1, <3>2 DEF ItemOK, InputsOf
  <2>4. ASSUME NEW n \in Node, NEW at \in DOMAIN waiting[n]
        PROVE  /\ DOMAIN waiting[n][at] = InputsOf(n)
               /\ Range(waiting[n][at]) \subseteq Source \cup {NoData}
    <3>1. Queue.waiting[n][at] \in Mains /\ DOMAIN Queue.waiting[n][at] = Inputs[workflow][n]
      BY <2>1, EntryTypes DEF QueueOK
    <3> QED
      BY <2>1, <2>2, <3>1 DEF InputsOf
  <2>5. Range(waitingNodes) = {n \in Node : DOMAIN waiting[n] # {}} /\ IsInjective(waitingNodes)
    BY <2>1 DEF QueueOK
  <2>6. \A k \in DOMAIN runs : runs[k].handed \subseteq OutputsOf(runs[k].node)
    BY <2>1 DEF RunOK, OutputsOf, Flow
  <2> QED
    BY <2>1, <2>3, <2>4, <2>5, <2>6 DEF TypeOK, Statuses
<1> QED
  BY <1>1, InvHolds, PTL

\* A set with no two elements has one at most.
LEMMA OneAtMost ==
    ASSUME NEW S, \A x, y \in S : x = y
    PROVE  Cardinality(S) \in {0, 1} /\ (Cardinality(S) = 1 => S # {})
<1>1. CASE S = {}
  BY <1>1, FS_EmptySet
<1>2. CASE S # {}
  <2>1. PICK x \in S : S = {x}
    BY <1>2
  <2> QED
    BY <2>1, FS_Singleton
<1> QED
  BY <1>1, <1>2

\* No two runs get the same data, nor do they stay in the queue after they were used: not after
\* waiting for other inputs, nor across a wait, a failure and a retry of the node.
THEOREM DataAreDeliveredOnce == Spec => []DeliveredOnce
<1>1. Inv => DeliveredOnce
  <2> SUFFICES ASSUME Inv, status \in {"running", "success"}, NEW d \in Deliveries
               PROVE  Places(d) <= 1
    BY DEF DeliveredOnce
  <2> DEFINE Has(n, main) == n = d[1] /\ d[2] \in DOMAIN main /\ main[d[2]] = d[3]
             A == {at \in DOMAIN waiting[d[1]] : Has(d[1], waiting[d[1]][at])}
             B == {i \in DOMAIN stack : Has(stack[i].node, stack[i].main)}
             C == IF Has(current.node, current.main) THEN 1 ELSE 0
             D == {k \in DOMAIN runs : Has(runs[k].node, runs[k].main)}
  <2>1. Places(d) = Cardinality(A) + Cardinality(B) + C + Cardinality(D)
    BY DEF Places
  <2>2. /\ Once(Queue, current, runs) /\ runs \in Seq(Runs)
        /\ Queue.stack = stack /\ Queue.waiting = waiting
    BY StackOK DEF Inv, NoDoubles, Typing
  <2>3. PICK k \in DOMAIN runs, c \in Flow.connections : d = Delivery(k, c)
    BY DEF Deliveries
  <2>4. d[1] \in Node /\ d[3] # NoData /\ d = <<d[1], d[2], d[3]>>
    <3>1. c.to \in Node /\ c.output \in Nat
      BY EngineAssumption DEF Inv, Typing, IsWorkflow, Flow
    <3>2. k \in Nat
      BY <2>2, LenProperties
    <3>3. d[3] \in Source
      BY <2>3, <3>1, <3>2 DEF Delivery, Source
    <3> QED
      BY <2>3, <3>1, <3>3, EngineAssumption DEF Delivery
  <2>5. ASSUME NEW n, NEW main
        PROVE  Has(n, main) => d \in Data(n, main)
    BY <2>4 DEF Data
  <2>6. \A at \in A : at \in DOMAIN Queue.waiting[d[1]] /\ d \in Data(d[1], Queue.waiting[d[1]][at])
    BY <2>2, <2>5
  <2>7. \A i \in B : i \in DOMAIN Queue.stack /\ d \in DataOf(Queue.stack[i])
    BY <2>2, <2>5, DataOfNode
  <2>8. C \in {0, 1} /\ (C = 1 => d \in DataOf(current))
    BY <2>5, DataOfNode
  <2>9. \A l \in D : l \in DOMAIN runs /\ d \in InRun(runs[l])
    BY <2>5 DEF InRun
  <2> HIDE DEF A, B, C, D
  <2>10. \A at, bt \in A : at = bt
    BY <2>2, <2>4, <2>6 DEF Once, SharesNothing
  <2>11. \A i, j \in B : i = j
    BY <2>2, <2>7 DEF Once, SharesNothing
  <2>12. \A l, m \in D : l = m
    BY <2>2, <2>9 DEF Once
  <2>13. A # {} => d \in InWaiting(Queue)
    BY <2>4, <2>6 DEF InWaiting
  <2>14. B # {} => d \in OnStack(Queue)
    BY <2>7 DEF OnStack
  <2>15. /\ ~ (A # {} /\ B # {}) /\ ~ (D # {} /\ C = 1)
         /\ ~ ((A # {} \/ B # {}) /\ (C = 1 \/ D # {}))
    BY <2>2, <2>8, <2>9, <2>13, <2>14 DEF Once, SharesNothing, InQueue
  <2>16. /\ Cardinality(A) \in {0, 1} /\ (Cardinality(A) = 1 => A # {})
         /\ Cardinality(B) \in {0, 1} /\ (Cardinality(B) = 1 => B # {})
         /\ Cardinality(D) \in {0, 1} /\ (Cardinality(D) = 1 => D # {})
    BY <2>10, <2>11, <2>12, OneAtMost
  <2> QED
    BY <2>1, <2>8, <2>15, <2>16
<1> QED
  BY <1>1, InvHolds, PTL

----------------------------------------------------------------------------
(* Nodes that ran without an input would never have got it.                *)

\* The nodes above a node: its parents, and what is above those.
LEMMA AboveFacts ==
    ASSUME NEW w \in DOMAIN Definition, NEW n \in Node
    PROVE  /\ Above[w][n] \subseteq Node
           /\ \A c \in Definition[w].connections : c.to = n => c.from \in Above[w][n]
           /\ \A c \in Definition[w].connections : c.to \in Above[w][n] => c.from \in Above[w][n]
           /\ \A m \in Above[w][n] : Above[w][m] \subseteq Above[w][n]
<1> DEFINE conns == Definition[w].connections
           parents(m) == {c.from : c \in {d \in conns : d.to = m}}
           closed(m, above) == parents(m) \subseteq above /\ (\A k \in above : parents(k) \subseteq above)
<1>1. \A m \in Node : Above[w][m] = {p \in Node : \A above \in SUBSET Node : closed(m, above) => p \in above}
  BY DEF Above
<1>2. \A m : parents(m) \subseteq Node
  BY EngineAssumption DEF IsWorkflow
<1>3. closed(n, Above[w][n])
  <2>1. ASSUME NEW above \in SUBSET Node, closed(n, above)
        PROVE  Above[w][n] \subseteq above
    BY <1>1, <2>1
  <2>2. parents(n) \subseteq Above[w][n]
    <3>1. ASSUME NEW p \in parents(n), NEW above \in SUBSET Node, closed(n, above)
          PROVE  p \in above
      BY <3>1
    <3> HIDE DEF closed, parents
    <3> QED
      BY <1>1, <1>2, <3>1
  <2>3. ASSUME NEW k \in Above[w][n]
        PROVE  parents(k) \subseteq Above[w][n]
    <3>1. ASSUME NEW p \in parents(k), NEW above \in SUBSET Node, closed(n, above)
          PROVE  p \in above
      <4>1. k \in above
        BY <2>1, <3>1
      <4> QED
        BY <3>1, <4>1
    <3> HIDE DEF closed, parents
    <3> QED
      BY <1>1, <1>2, <3>1
  <2> QED
    BY <2>2, <2>3
<1>4. Above[w][n] \subseteq Node
  BY <1>1
<1>5. ASSUME NEW m \in Above[w][n]
      PROVE  Above[w][m] \subseteq Above[w][n]
  <2>1. closed(m, Above[w][n])
    BY <1>3
  <2> HIDE DEF closed
  <2> QED
    BY <1>1, <1>4, <2>1
<1>6. \A c \in conns : c.to = n => c.from \in Above[w][n]
  BY <1>3
<1>7. \A c \in conns : c.to \in Above[w][n] => c.from \in Above[w][n]
  BY <1>3
<1> QED
  BY <1>4, <1>5, <1>6, <1>7

\* An item or run has all its inputs, or none of the nodes ns is above its node.
Settled(w, m, ns) == Full(m) \/ Above[w][m.node] \cap ns = {}

\* From the nodes ns to ms: only children of nodes in ns are new.
Spreads(w, ns, ms) ==
    \A x \in ms : \/ x \in ns \cup {NoNode}
                  \/ \E c \in Definition[w].connections : c.from \in ns /\ c.to = x

\* So no node above an item becomes one that could still run.
LEMMA SettledStays ==
    ASSUME NEW w \in DOMAIN Definition, NEW m, m.node \in Node, NEW ns, NEW ms,
           Settled(w, m, ns), Spreads(w, ns, ms)
    PROVE  Settled(w, m, ms)
<1> SUFFICES ASSUME ~ Full(m), NEW x \in Above[w][m.node], x \in ms
             PROVE  FALSE
  BY DEF Settled
<1>1. Above[w][m.node] \cap ns = {}
  BY DEF Settled
<1>2. x \notin ns /\ x # NoNode
  BY <1>1, AboveFacts, EngineAssumption
<1>3. PICK c \in Definition[w].connections : c.from \in ns /\ c.to = x
  BY <1>2 DEF Spreads
<1>4. c.from \in Above[w][m.node]
  BY <1>3, AboveFacts
<1> QED
  BY <1>1, <1>3, <1>4

\* The nodes that run, or may run later.
Active(q, cur) == Pending(q) \cup {cur.node}

\* Whatever lacks an input, an item or a run: no node above it is active, and none runs after it.
NoneLate ==
    Acyclic =>
        /\ \A i \in DOMAIN stack : Settled(workflow, stack[i], Active(Queue, current))
        /\ current # Nothing => Settled(workflow, current, Active(Queue, current))
        /\ \A k \in DOMAIN runs :
              /\ Settled(workflow, runs[k], Active(Queue, current))
              /\ Full(runs[k]) \/ \A l \in DOMAIN runs :
                                    l >= k => runs[l].node \notin Above[workflow][runs[k].node]

\* What every step does to the items and runs: they move, with their data.
Moves ==
    /\ workflow' = workflow
    /\ Spreads(workflow, Active(Queue, current), Active(Queue', current'))
    /\ \A i \in DOMAIN stack' :
          \/ \E j \in DOMAIN stack : stack'[i].node = stack[j].node /\ stack'[i].main = stack[j].main
          \/ current # Nothing /\ stack'[i].node = current.node /\ stack'[i].main = current.main
          \/ Settled(workflow, stack'[i], Active(Queue', current'))
    /\ \/ current' \in {Nothing, current}
       \/ \E j \in DOMAIN stack : current' = stack[j]
    /\ \A k \in DOMAIN runs' :
          \/ k \in DOMAIN runs /\ runs'[k] = runs[k]
          \/ /\ current # Nothing /\ k \notin DOMAIN runs
             /\ runs'[k].node = current.node /\ runs'[k].main = current.main
             /\ \A l \in DOMAIN runs' : l >= k => l = k

\* Such a step keeps NoneLate.
LEMMA MovesKeepNoneLate ==
    ASSUME Inv, NoneLate, Acyclic => Moves, workflow' = workflow
    PROVE  NoneLate'
<1> SUFFICES ASSUME Acyclic
             PROVE  /\ \A i \in DOMAIN stack' : Settled(workflow, stack'[i], Active(Queue', current'))
                    /\ current' # Nothing => Settled(workflow, current', Active(Queue', current'))
                    /\ \A k \in DOMAIN runs' :
                          /\ Settled(workflow, runs'[k], Active(Queue', current'))
                          /\ Full(runs'[k]) \/ \A l \in DOMAIN runs' :
                                l >= k => runs'[l].node \notin Above[workflow][runs'[k].node]
  BY DEF NoneLate, Acyclic
<1> DEFINE ns == Active(Queue, current)
           ms == Active(Queue', current')
<1>1. Moves /\ workflow \in DOMAIN Definition
  BY DEF Inv, Typing
<1>2. /\ \A i \in DOMAIN stack : stack[i].node \in Node
      /\ current # Nothing => current.node \in Node /\ current.node \in ns
      /\ \A k \in DOMAIN runs : runs[k].node \in Node
  BY StackOK DEF Inv, Typing, ItemOK, Items, RunOK, Runs, Active
<1>3. /\ \A i \in DOMAIN stack : Settled(workflow, stack[i], ns)
      /\ current # Nothing => Settled(workflow, current, ns)
      /\ \A k \in DOMAIN runs :
            /\ Settled(workflow, runs[k], ns)
            /\ Full(runs[k]) \/ \A l \in DOMAIN runs :
                                  l >= k => runs[l].node \notin Above[workflow][runs[k].node]
  BY DEF NoneLate
<1>4. Spreads(workflow, ns, ms)
  BY <1>1 DEF Moves
<1> HIDE DEF ns, ms
<1>5. /\ \A i \in DOMAIN stack : Settled(workflow, stack[i], ms)
      /\ current # Nothing => Settled(workflow, current, ms)
      /\ \A k \in DOMAIN runs : Settled(workflow, runs[k], ms)
  BY <1>1, <1>2, <1>3, <1>4, SettledStays
<1>6. \A x, y : x.node = y.node /\ x.main = y.main /\ Settled(workflow, y, ms) => Settled(workflow, x, ms)
  BY DEF Settled, Full
<1>7. \A i \in DOMAIN stack' : Settled(workflow, stack'[i], ms)
  BY <1>1, <1>5, <1>6 DEF Moves, ms
<1>8. current' # Nothing => Settled(workflow, current', ms)
  BY <1>1, <1>5 DEF Moves
<1>9. ASSUME NEW k \in DOMAIN runs'
      PROVE  /\ Settled(workflow, runs'[k], ms)
             /\ Full(runs'[k]) \/ \A l \in DOMAIN runs' :
                   l >= k => runs'[l].node \notin Above[workflow][runs'[k].node]
  <2>1. CASE k \in DOMAIN runs /\ runs'[k] = runs[k]
    <3>1. ASSUME ~ Full(runs[k]), NEW l \in DOMAIN runs', l >= k
          PROVE  runs'[l].node \notin Above[workflow][runs[k].node]
      <4>1. CASE l \in DOMAIN runs /\ runs'[l] = runs[l]
        BY <1>3, <2>1, <3>1, <4>1
      <4>2. CASE current # Nothing /\ runs'[l].node = current.node
        BY <1>2, <1>3, <2>1, <3>1, <4>2 DEF Settled
      <4> QED
        BY <1>1, <4>1, <4>2 DEF Moves
    <3> QED
      BY <1>5, <2>1, <3>1
  <2>2. CASE /\ current # Nothing
             /\ runs'[k].node = current.node /\ runs'[k].main = current.main
             /\ \A l \in DOMAIN runs' : l >= k => l = k
    <3>1. current.node \notin Above[workflow][current.node]
      BY <1>2, <2>2 DEF Acyclic
    <3> QED
      BY <1>5, <1>6, <2>2, <3>1
  <2> QED
    BY <1>1, <2>1, <2>2 DEF Moves
<1> QED
  BY <1>7, <1>8, <1>9 DEF ms

\* Fewer items and fewer keys, fewer pending nodes.
LEMMA PendingLess ==
    ASSUME NEW q, NEW p, Range(p.nodes) \subseteq Range(q.nodes),
           \A i \in DOMAIN p.stack : \E j \in DOMAIN q.stack : p.stack[i].node = q.stack[j].node
    PROVE  Pending(p) \subseteq Pending(q)
<1>1. ASSUME NEW i \in DOMAIN p.stack
      PROVE  p.stack[i].node \in Pending(q)
  BY DEF Pending
<1>2. Range(p.nodes) \subseteq Pending(q)
  BY DEF Pending
<1> QED
  BY <1>1, <1>2 DEF Pending

\* The run that is recorded is the last one.
LEMMA RecordLast ==
    ASSUME Inv, current # Nothing, NEW outputs, outputs \subseteq OutputsOf(current.node),
           Record(outputs), workflow' = workflow
    PROVE  \A k \in DOMAIN runs' :
              \/ k \in DOMAIN runs /\ runs'[k] = runs[k]
              \/ /\ current # Nothing /\ k \notin DOMAIN runs
                 /\ runs'[k].node = current.node /\ runs'[k].main = current.main
                 /\ \A l \in DOMAIN runs' : l >= k => l = k
<1>1. /\ runs \in Seq(Runs) /\ runs' \in Seq(Runs)
      /\ Len(runs) \in Nat /\ Len(runs') = Len(runs) + 1
      /\ \A k \in DOMAIN runs' :
            \/ k = Len(runs') /\ runs'[k].node = current.node /\ runs'[k].main = current.main
            \/ k \in DOMAIN runs /\ runs'[k] = runs[k]
  BY RecordStep DEF Inv, Typing
<1>2. DOMAIN runs = 1 .. Len(runs) /\ DOMAIN runs' = 1 .. Len(runs')
  BY <1>1, LenProperties
<1>3. /\ Len(runs') \notin DOMAIN runs
      /\ \A l \in DOMAIN runs' : l >= Len(runs') => l = Len(runs')
  BY <1>1, <1>2
<1> QED
  BY <1>1, <1>3

\* Items keep their nodes and data on resumption.
LEMMA ResumedStack ==
    ASSUME Resume \/ \E load \in BOOLEAN : Retry(load), \A i \in DOMAIN stack : stack[i] \in Items
    PROVE  /\ DOMAIN stack' = DOMAIN stack
           /\ \A i \in DOMAIN stack : stack'[i].node = stack[i].node /\ stack'[i].main = stack[i].main
<1>1. CASE stack' = stack
  BY <1>1
<1>2. CASE stack' = [i \in DOMAIN stack |->
                   IF stack[i].node = stack[1].node /\ stack[i].object = stack[1].object
                   THEN [stack[i] EXCEPT !.disabled = TRUE]
                   ELSE stack[i]]
  BY <1>2 DEF Items
<1>3. CASE stack' = [i \in DOMAIN stack |->
                   [stack[i] EXCEPT !.disabled = FALSE, !.object = resumed + 1]]
  <2>1. \A m \in Items : LET x == [m EXCEPT !.disabled = FALSE, !.object = resumed + 1]
                         IN  x.node = m.node /\ x.main = m.main
    BY DEF Items
  <2> QED
    BY <1>3, <2>1
<1> QED
  BY <1>1, <1>2, <1>3 DEF Resume, Retry

\* Taking, dropping and recording items.
LEMMA OldMoves ==
    ASSUME Inv, Take \/ ReturnNull \/ Destination \/ Cancel \/ Finish
    PROVE  Moves
<1>1. /\ workflow' = workflow /\ waitingNodes' = waitingNodes
      /\ \/ stack # <<>> /\ current = Nothing /\ stack' = Tail(stack) /\ runs' = runs
            /\ current' \in {Head(stack), current}
         \/ stack' = stack /\ current' \in {Nothing, current}
            /\ (runs' = runs \/ (current # Nothing /\ Record({})))
  BY DEF Take, ReturnNull, Destination, Cancel, Finish, queue
<1>2. /\ stack \in Seq(Items) /\ runs \in Seq(Runs)
      /\ Queue.stack = stack /\ Queue.nodes = waitingNodes
      /\ Queue'.stack = stack' /\ Queue'.nodes = waitingNodes'
  BY StackOK DEF Inv, Typing, Queue
<1>3. \A i \in DOMAIN stack' : \E j \in DOMAIN stack : stack'[i] = stack[j]
  BY <1>1, <1>2, Taken
<1>4. \/ current' \in {Nothing, current}
      \/ \E j \in DOMAIN stack : current' = stack[j]
  BY <1>1, <1>2, Taken
<1>5. \A k \in DOMAIN runs' :
          \/ k \in DOMAIN runs /\ runs'[k] = runs[k]
          \/ /\ current # Nothing /\ k \notin DOMAIN runs
             /\ runs'[k].node = current.node /\ runs'[k].main = current.main
             /\ \A l \in DOMAIN runs' : l >= k => l = k
  BY <1>1, RecordLast
<1>6. Spreads(workflow, Active(Queue, current), Active(Queue', current'))
  <2>1. Nothing.node = NoNode
    BY DEF Nothing
  <2>2. Range(Queue'.nodes) = Range(Queue.nodes)
    BY <1>1, <1>2
  <2>3. \A i \in DOMAIN Queue'.stack : \E j \in DOMAIN Queue.stack :
            Queue'.stack[i].node = Queue.stack[j].node
    BY <1>2, <1>3
  <2>4. Pending(Queue') \subseteq Pending(Queue)
    BY <2>2, <2>3, PendingLess
  <2>5. current'.node \in {NoNode, current.node} \cup Pending(Queue)
    BY <1>2, <1>4, <2>1 DEF Pending
  <2>6. Active(Queue', current') \subseteq Active(Queue, current) \cup {NoNode}
    BY <2>4, <2>5 DEF Active
  <2> QED
    BY <2>6 DEF Spreads
<1> QED
  BY <1>1, <1>3, <1>4, <1>5, <1>6 DEF Moves

\* A node that is put back is as active as before.
LEMMA PutBackMoves ==
    ASSUME Inv, Fail \/ Wait
    PROVE  Moves
<1>1. /\ current # Nothing /\ Record({}) /\ current' = Nothing
      /\ stack' = <<current>> \o stack /\ waitingNodes' = waitingNodes /\ workflow' = workflow
  BY DEF Fail, Wait, PutBack
<1>2. /\ stack \in Seq(Items) /\ current \in Items
      /\ Queue.stack = stack /\ Queue.nodes = waitingNodes
      /\ Queue'.stack = stack' /\ Queue'.nodes = waitingNodes'
  BY <1>1, StackOK DEF Inv, Typing, Queue, ItemOK
<1>3. \A i \in DOMAIN stack' : stack'[i] = current \/ \E j \in DOMAIN stack : stack'[i] = stack[j]
  <2>1. /\ (<<current>> \o stack)[1] = current
        /\ \A i \in DOMAIN (<<current>> \o stack) \ {1} :
              i - 1 \in DOMAIN stack /\ (<<current>> \o stack)[i] = stack[i - 1]
    BY <1>2, Unshifted
  <2> QED
    BY <1>1, <2>1
<1>4. \A k \in DOMAIN runs' :
          \/ k \in DOMAIN runs /\ runs'[k] = runs[k]
          \/ /\ current # Nothing /\ k \notin DOMAIN runs
             /\ runs'[k].node = current.node /\ runs'[k].main = current.main
             /\ \A l \in DOMAIN runs' : l >= k => l = k
  BY <1>1, RecordLast
<1>5. Spreads(workflow, Active(Queue, current), Active(Queue', current'))
  <2>1. Nothing.node = NoNode
    BY DEF Nothing
  <2>2. Active(Queue', current') \subseteq Active(Queue, current) \cup {NoNode}
    BY <1>1, <1>2, <1>3, <2>1 DEF Active, Pending
  <2> QED
    BY <2>2 DEF Spreads
<1> QED
  BY <1>1, <1>3, <1>4, <1>5 DEF Moves

\* So is the stack of an execution that is resumed or retried.
LEMMA ResumeMoves ==
    ASSUME Inv, Resume \/ \E load \in BOOLEAN : Retry(load)
    PROVE  Moves
<1>1. /\ runs' = Front(runs) /\ current' = current
      /\ workflow' = workflow /\ waitingNodes' = waitingNodes
      /\ status \in {"waiting", "error"}
  BY DEF Resume, Retry
<1>2. /\ stack \in Seq(Items) /\ runs \in Seq(Runs) /\ runs # <<>>
      /\ \A i \in DOMAIN stack : stack[i] \in Items
      /\ Queue.stack = stack /\ Queue.nodes = waitingNodes
      /\ Queue'.stack = stack' /\ Queue'.nodes = waitingNodes'
  BY <1>1, StackOK DEF Inv, Typing, Queue, ItemOK
<1>3. /\ DOMAIN stack' = DOMAIN stack
      /\ \A i \in DOMAIN stack : stack'[i].node = stack[i].node /\ stack'[i].main = stack[i].main
  BY <1>2, ResumedStack
<1>4. \A k \in DOMAIN runs' : k \in DOMAIN runs /\ runs'[k] = runs[k]
  <2>1. /\ Len(runs) \in Nat \ {0} /\ DOMAIN runs = 1 .. Len(runs)
        /\ DOMAIN Front(runs) = 1 .. Len(runs) - 1
        /\ \A k \in DOMAIN Front(runs) : Front(runs)[k] = runs[k]
    BY <1>2, Popped
  <2>2. 1 .. Len(runs) - 1 \subseteq 1 .. Len(runs)
    BY <2>1
  <2> QED
    BY <1>1, <2>1, <2>2
<1>5. Spreads(workflow, Active(Queue, current), Active(Queue', current'))
  <2>1. Active(Queue', current') \subseteq Active(Queue, current)
    <3>1. \A i \in DOMAIN Queue'.stack : \E j \in DOMAIN Queue.stack :
              Queue'.stack[i].node = Queue.stack[j].node
      BY <1>2, <1>3
    <3>2. Range(Queue'.nodes) = Range(Queue.nodes)
      BY <1>1, <1>2
    <3>3. Pending(Queue') \subseteq Pending(Queue)
      BY <3>1, <3>2, PendingLess
    <3> QED
      BY <1>1, <3>3 DEF Active
  <2> QED
    BY <2>1 DEF Spreads
<1> QED
  BY <1>1, <1>3, <1>4, <1>5 DEF Moves

\* A node that gives data makes its children active; those that are released wait for no one.
LEMMA SucceedMoves ==
    ASSUME Inv, Acyclic, NEW outputs \in SUBSET OutputsOf(current.node), Succeed(outputs)
    PROVE  Moves
<1> DEFINE run == Len(runs) + 1
           added == Added(current.node, outputs)
           fresh == {Delivery(run, c) : c \in added}
           next == {c.to : c \in added}
           h == HandOn(Queue, current.node, outputs, run)
           r == ReleaseWaiting(h)
<1>1. /\ current # Nothing /\ Record(outputs) /\ SetQueue(r)
      /\ current' = Nothing /\ workflow' = workflow /\ resumed' = resumed
  BY DEF Succeed
<1>3. /\ workflow \in DOMAIN Definition /\ resumed \in Nat /\ Queue.stack = stack
  BY StackOK, EngineAssumption DEF Inv, Typing
<1>6. Grows(Queue, h, fresh, next)
  BY HandOnOK
<1> HIDE DEF run
<1> HIDE DEF h, fresh
<1>7. /\ QueueOK(workflow, resumed, r) /\ QueueOK(workflow, resumed, h)
      /\ Pending(r) \subseteq Pending(h)
      /\ \A i \in DOMAIN r.stack :
            \/ \E j \in DOMAIN h.stack : r.stack[i] = h.stack[j]
            \/ h.stack = <<>> /\ MayRun(h, r.stack[i].node)
  BY <1>3, <1>6, ReleaseMoves DEF Grows
<1>8. /\ Pending(h) \subseteq Pending(Queue) \cup next
      /\ \A i \in DOMAIN h.stack :
            Full(h.stack[i]) \/ \E j \in DOMAIN stack : h.stack[i] = stack[j]
  BY <1>3, <1>6 DEF Grows
<1> HIDE DEF r
<1>9. Queue' = r /\ stack' = r.stack
  <2>1. r = [stack |-> r.stack, waiting |-> r.waiting, nodes |-> r.nodes]
    BY <1>7 DEF QueueOK, Queues
  <2> QED
    BY <1>1, <2>1 DEF SetQueue, Queue
<1>10. Active(r, current') \subseteq Pending(h) \cup {NoNode}
  BY <1>1, <1>7 DEF Active, Nothing
<1>11. Spreads(workflow, Active(Queue, current), Active(Queue', current'))
  <2>1. \A x \in next : \E c \in Definition[workflow].connections : c.from = current.node /\ c.to = x
    BY DEF Added, Flow
  <2> HIDE DEF next
  <2>2. \A x \in Active(Queue', current') : x \in Pending(Queue) \cup next \cup {NoNode}
    BY <1>8, <1>9, <1>10
  <2> QED
    BY <2>1, <2>2 DEF Spreads, Active
<1>12. ASSUME NEW i \in DOMAIN stack'
       PROVE  \/ \E j \in DOMAIN stack : stack'[i].node = stack[j].node /\ stack'[i].main = stack[j].main
              \/ Settled(workflow, stack'[i], Active(Queue', current'))
  <2>1. CASE \E j \in DOMAIN h.stack : stack'[i] = h.stack[j]
    BY <1>8, <2>1 DEF Settled
  <2>2. CASE h.stack = <<>> /\ MayRun(h, stack'[i].node)
    <3> DEFINE n == stack'[i].node
    <3>1. n \in Node
      BY <1>7, <1>9 DEF QueueOK, ItemOK, Items
    <3>2. Pending(h) = Range(h.nodes)
      BY <2>2 DEF Pending
    <3>3. Range(h.nodes) \cap (Above[workflow][n] \ {n}) = {}
      BY <2>2 DEF MayRun, ParentNodes, Range
    <3>4. n \notin Above[workflow][n] /\ NoNode \notin Above[workflow][n]
      BY <1>3, <3>1, AboveFacts, EngineAssumption DEF Acyclic
    <3>5. Above[workflow][n] \cap Active(Queue', current') = {}
      BY <1>9, <1>10, <3>2, <3>3, <3>4
    <3> QED
      BY <3>5 DEF Settled
  <2> QED
    BY <1>7, <1>9, <2>1, <2>2
<1>13. \A k \in DOMAIN runs' :
          \/ k \in DOMAIN runs /\ runs'[k] = runs[k]
          \/ /\ current # Nothing /\ k \notin DOMAIN runs
             /\ runs'[k].node = current.node /\ runs'[k].main = current.main
             /\ \A l \in DOMAIN runs' : l >= k => l = k
  BY <1>1, RecordLast
<1> QED
  BY <1>1, <1>11, <1>12, <1>13 DEF Moves

\* At the start nothing has run, and the only item has all its inputs.
LEMMA NoneLateHolds == Spec => []NoneLate
<1>1. Init => NoneLate
  <2> SUFFICES ASSUME Init
               PROVE  NoneLate
    OBVIOUS
  <2> DEFINE main == [i \in {0} |-> [run |-> 0, output |-> 0]]
             m == Item(Trigger, main)
  <2>1. stack = <<m>> /\ current = Nothing /\ runs = <<>>
    BY DEF Init
  <2>2. Full(m)
    <3>1. DOMAIN main = {0} /\ main[0] \in Source /\ NoData \notin Source
      BY EngineAssumption DEF Source
    <3>2. m.main = main
      BY DEF Item
    <3> HIDE DEF main, m
    <3> QED
      BY <3>1, <3>2 DEF Full
  <2> HIDE DEF m
  <2>3. \A i \in DOMAIN stack : stack[i] = m
    BY <2>1
  <2>4. DOMAIN runs = {}
    BY <2>1
  <2> QED
    BY <2>1, <2>2, <2>3, <2>4 DEF NoneLate, Settled
<1>2. Inv /\ NoneLate /\ [Next]_vars => NoneLate'
  <2> SUFFICES ASSUME Inv, NoneLate, [Next]_vars
               PROVE  NoneLate'
    OBVIOUS
  <2>1. CASE UNCHANGED vars
    BY <2>1 DEF NoneLate, Acyclic, vars, queue, Queue
  <2>2. CASE Take \/ ReturnNull \/ Destination \/ Cancel \/ Finish
    BY <2>2, OldMoves, MovesKeepNoneLate DEF Moves
  <2>3. CASE Fail \/ Wait
    BY <2>3, PutBackMoves, MovesKeepNoneLate DEF Moves
  <2>4. CASE Resume \/ \E load \in BOOLEAN : Retry(load)
    BY <2>4, ResumeMoves, MovesKeepNoneLate DEF Moves
  <2>5. CASE \E outputs \in SUBSET OutputsOf(current.node) : Succeed(outputs)
    <3>1. Acyclic => Moves
      BY <2>5, SucceedMoves
    <3>2. workflow' = workflow
      BY <2>5 DEF Succeed
    <3> QED
      BY <3>1, <3>2, MovesKeepNoneLate
  <2> QED
    BY <2>1, <2>2, <2>3, <2>4, <2>5 DEF Next
<1> QED
  BY <1>1, <1>2, InvHolds, PTL DEF Spec

\* In a workflow without cycles, a node that ran without data for an input would never have got
\* any: releasing a waiting node only when none of its parents waits is enough.
THEOREM NoInputIsLate == Spec => []NoLateInputs
<1>1. Inv /\ NoneLate => NoLateInputs
  <2> SUFFICES ASSUME Inv, NoneLate, Acyclic, NEW k \in DOMAIN runs, NEW i \in DOMAIN runs[k].main,
                      runs[k].main[i] = NoData,
                      NEW d \in Deliveries, d[1] = runs[k].node, d[2] = i
               PROVE  d[3].run < k
    BY DEF NoLateInputs
  <2>1. PICK l \in DOMAIN runs :
            \E c \in Flow.connections : c.from = runs[l].node /\ d = Delivery(l, c)
    BY DEF Deliveries
  <2>2. PICK c \in Flow.connections : c.from = runs[l].node /\ d = Delivery(l, c)
    BY <2>1
  <2>3. /\ workflow \in DOMAIN Definition /\ runs \in Seq(Runs) /\ runs[k].node \in Node
    BY DEF Inv, Typing, RunOK, Runs
  <2>4. k \in Nat /\ l \in Nat
    BY <2>3, LenProperties
  <2>5. c.to = runs[k].node /\ d[3].run = l
    BY <2>2 DEF Delivery
  <2>6. runs[l].node \in Above[workflow][runs[k].node]
    BY <2>2, <2>3, <2>5, AboveFacts DEF Flow
  <2>7. ~ Full(runs[k])
    BY DEF Full
  <2>8. ~ (l >= k)
    BY <2>6, <2>7 DEF NoneLate
  <2> QED
    BY <2>4, <2>5, <2>8
<1> QED
  BY <1>1, InvHolds, NoneLateHolds, PTL

----------------------------------------------------------------------------
(* Nothing that may run is left waiting.                                   *)

\* With nothing to execute, no waiting node may run, unless the last turn did not come to the
\* release of waiting nodes.
Released == ~continued /\ current = Nothing /\ stack = <<>> => Ready(Queue) = {}

\* Every step that ends a turn releases what may run.
LEMMA ReleasedHolds == Spec => []Released
<1>1. Init => Released
  BY DEF Init, Released
<1>2. Inv /\ Released /\ [Next]_vars => Released'
  <2> SUFFICES ASSUME Inv, Released, [Next]_vars
               PROVE  Released'
    OBVIOUS
  <2>1. CASE UNCHANGED vars
    BY <2>1 DEF Released, vars, queue, Queue, Ready, MayRun, ParentNodes, Flow
  <2>2. CASE Take
    <3>1. stack \in Seq(Items) /\ stack # <<>> /\ \A i \in DOMAIN stack : stack[i].node \in Node
      BY <2>2, StackOK DEF Inv, Take, ItemOK, Items
    <3>2. Head(stack).node \in Node
      BY <3>1, Taken
    <3>3. Head(stack) # Nothing
      BY <3>2, EngineAssumption DEF Nothing
    <3> QED
      BY <2>2, <3>3 DEF Take, Released
  <2>3. CASE ReturnNull \/ Destination
    BY <2>3 DEF ReturnNull, Destination, Released
  <2>4. CASE Fail \/ Wait
    <3>1. stack' = <<current>> \o stack /\ stack \in Seq(Items) /\ current \in Items
      BY <2>4, StackOK DEF Fail, Wait, PutBack, Inv, Typing, ItemOK
    <3>2. stack' # <<>>
      BY <3>1, Unshifted
    <3> QED
      BY <3>2 DEF Released
  <2>5. CASE Resume \/ \E load \in BOOLEAN : Retry(load)
    <3>1. stack # <<>> /\ stack \in Seq(Items) /\ \A i \in DOMAIN stack : stack[i] \in Items
      BY <2>5, StackOK DEF Resume, Retry, Inv, Typing, ItemOK
    <3>2. DOMAIN stack' = DOMAIN stack
      BY <2>5, <3>1, ResumedStack
    <3>3. 1 \in DOMAIN stack
      BY <3>1, Taken
    <3>4. stack' # <<>>
      BY <3>2, <3>3
    <3> QED
      BY <3>4 DEF Released
  <2>6. CASE Cancel \/ Finish
    BY <2>6 DEF Cancel, Finish, Released, queue, Queue, Ready, MayRun, ParentNodes, Flow
  <2>7. CASE \E outputs \in SUBSET OutputsOf(current.node) : Succeed(outputs)
    <3> PICK outputs \in SUBSET OutputsOf(current.node) : Succeed(outputs)
      BY <2>7
    <3> DEFINE h == HandOn(Queue, current.node, outputs, Len(runs) + 1)
               r == ReleaseWaiting(h)
    <3>1. SetQueue(r) /\ workflow' = workflow /\ resumed' = resumed
      BY DEF Succeed
    <3>2. QueueOK(workflow, resumed, h) /\ SharesNothing(h)
      BY HandOnOK
    <3>3. workflow \in DOMAIN Definition /\ resumed \in Nat
      BY EngineAssumption DEF Inv, Typing
    <3> HIDE DEF h
    <3>4. r.stack = <<>> => Ready(r) = {}
      BY <3>2, <3>3, ReleaseMoves
    <3> HIDE DEF r
    <3>5. Queue'.nodes = r.nodes /\ stack' = r.stack
      BY <3>1 DEF SetQueue, Queue
    <3> QED
      BY <3>1, <3>4, <3>5 DEF Released, Ready, MayRun, ParentNodes, Flow
  <2> QED
    BY <2>1, <2>2, <2>3, <2>4, <2>5, <2>6, <2>7 DEF Next
<1> QED
  BY <1>1, <1>2, InvHolds, PTL DEF Spec

\* Without cycles, one of the waiting nodes has no waiting node above it.
LEMMA SomeMayRun ==
    ASSUME workflow \in DOMAIN Definition, Acyclic, Flow.allRequired = {},
           NEW q, q.nodes \in Seq(Node), q.nodes # <<>>
    PROVE  Ready(q) # {}
<1> DEFINE R == Range(q.nodes)
           above(n) == Above[workflow][n]
           sizes == {Cardinality(above(n)) : n \in R}
<1>1. R \subseteq Node /\ R # {}
  <2>1. 1 \in DOMAIN q.nodes
    BY Taken
  <2>2. \A i \in DOMAIN q.nodes : q.nodes[i] \in Node
    BY LenProperties, ElementOfSeq
  <2> QED
    BY <2>1, <2>2 DEF Range
<1> HIDE DEF R
<1>2. ASSUME NEW n \in Node
      PROVE  IsFiniteSet(above(n)) /\ Cardinality(above(n)) \in Nat /\ n \notin above(n)
  <2>1. above(n) \subseteq Node /\ IsFiniteSet(Node)
    BY AboveFacts, EngineAssumption
  <2>2. IsFiniteSet(above(n))
    BY <2>1, FS_Subset
  <2> QED
    BY <2>2, FS_CardinalityType DEF Acyclic
<1>3. PICK n \in R : \A m \in R : Cardinality(above(n)) <= Cardinality(above(m))
  <2>1. sizes \subseteq Nat /\ sizes # {}
    BY <1>1, <1>2
  <2>2. PICK s \in sizes : \A t \in sizes : s <= t
    BY <2>1, LeastNumber
  <2> QED
    BY <2>2
<1>4. ASSUME NEW m \in R, m \in above(n)
      PROVE  FALSE
  <2>1. above(m) \subseteq above(n) /\ m \notin above(m)
    BY <1>1, <1>2, <1>4, AboveFacts
  <2>2. /\ Cardinality(above(m)) <= Cardinality(above(n))
        /\ Cardinality(above(n)) = Cardinality(above(m)) => above(n) = above(m)
    BY <1>1, <1>2, <2>1, FS_Subset
  <2>3. Cardinality(above(n)) \in Nat /\ Cardinality(above(m)) \in Nat
    BY <1>1, <1>2
  <2> QED
    BY <1>3, <1>4, <2>1, <2>2, <2>3
<1>5. PICK i \in DOMAIN q.nodes : q.nodes[i] = n
  BY DEF R, Range
<1>6. \A j \in DOMAIN q.nodes : q.nodes[j] \in R
  BY DEF R, Range
<1>7. MayRun(q, n)
  BY <1>4, <1>6 DEF MayRun, ParentNodes
<1> QED
  BY <1>5, <1>7 DEF Ready

\* An execution of a workflow without cycles that succeeded has left no node waiting, if its last
\* turn came to the release and no node requires all its inputs.
THEOREM NothingIsLeftBehind == Spec => []NothingLeftBehind
<1>1. Inv /\ Released => NothingLeftBehind
  <2> SUFFICES ASSUME Inv, Released, status = "success", ~ continued, Acyclic, Flow.allRequired = {},
                      waitingNodes # <<>>
               PROVE  FALSE
    BY DEF NothingLeftBehind
  <2>1. stack = <<>> /\ current = Nothing /\ workflow \in DOMAIN Definition
    BY DEF Inv, Typing
  <2>2. Ready(Queue) = {}
    BY <2>1 DEF Released
  <2>3. Queue.nodes = waitingNodes
    BY DEF Queue
  <2>4. Queue.nodes \in Seq(Node)
    BY DEF Inv, Typing, QueueOK, Queues
  <2> HIDE DEF Queue
  <2>5. Ready(Queue) # {}
    BY <2>1, <2>3, <2>4, SomeMayRun
  <2> QED
    BY <2>2, <2>5
<1> QED
  BY <1>1, InvHolds, ReleasedHolds, PTL
----------------------------------------------------------------------------
(* No data are lost where an input gets data twice at most.                *)

\* No input of a node gets data a third time.
Few(ds, n) ==
    \A d, e, f \in ds : /\ d[1] = n /\ e[1] = n /\ f[1] = n
                        /\ d[2] = e[2] /\ e[2] = f[2]
                        => d = e \/ e = f \/ d = f

\* An entry of a node with two inputs has data for one of them.  It has the index 1 only if that
\* input got data twice.
HalfOK(ds, n, at, main) ==
    /\ at \in {0, 1}
    /\ \E i \in {0, 1} : /\ main[i] # NoData /\ main[1 - i] = NoData
                         /\ <<n, i, main[i]>> \in ds
                         /\ at = 1 => \E e \in ds : e[1] = n /\ e[2] = i /\ e # <<n, i, main[i]>>

\* What a node was given waits, is on the stack, or was taken.
Kept(q, ds, n, tk) == \A d \in ds : d[1] = n => d \in InQueue(q) \cup tk

\* The entries of a node with two inputs are half, and it keeps what it was given.
Pairs(q, ds, n, tk) ==
    /\ \A at \in DOMAIN q.waiting[n] : HalfOK(ds, n, at, q.waiting[n][at])
    /\ Kept(q, ds, n, tk)

\* The deliveries of a list of runs.
DeliveriesOf(rs) ==
    UNION {{Delivery(k, c) : c \in Added(rs[k].node, rs[k].handed)} : k \in DOMAIN rs}

\* While no input of a node got data a third time, its entries are half and nothing is lost.
PairsWait == \A n \in Node : Inputs[workflow][n] = {0, 1} /\ Few(Deliveries, n) =>
                 Pairs(Queue, Deliveries, n, taken)

\* The run that is taken back, when the execution goes on, handed nothing on.
LastGaveNothing == status \in {"waiting", "error"} => runs[Len(runs)].handed = {}

\* More data leave an entry half, and the deliveries to a node with two inputs few.
LEMMA MoreData ==
    ASSUME NEW ds, NEW es, ds \subseteq es, NEW n
    PROVE  /\ \A at, main : HalfOK(ds, n, at, main) => HalfOK(es, n, at, main)
           /\ Few(es, n) => Few(ds, n)
<1>1. ASSUME NEW at, NEW main, HalfOK(ds, n, at, main)
      PROVE  HalfOK(es, n, at, main)
  <2>1. PICK i \in {0, 1} : /\ main[i] # NoData /\ main[1 - i] = NoData
                            /\ <<n, i, main[i]>> \in ds
                            /\ at = 1 => \E e \in ds : e[1] = n /\ e[2] = i /\ e # <<n, i, main[i]>>
    BY <1>1 DEF HalfOK
  <2>2. <<n, i, main[i]>> \in es
    BY <2>1
  <2>3. at = 1 => \E e \in es : e[1] = n /\ e[2] = i /\ e # <<n, i, main[i]>>
    BY <2>1
  <2> QED
    BY <1>1, <2>1, <2>2, <2>3 DEF HalfOK
<1>2. Few(es, n) => Few(ds, n)
  BY DEF Few
<1> QED
  BY <1>1, <1>2

\* The data of a connection complete an entry, or get one of their own.
LEMMA AddNodePairs ==
    ASSUME workflow \in DOMAIN Definition, resumed \in Nat,
           NEW q, QueueOK(workflow, resumed, q), SharesNothing(q),
           NEW c \in Flow.connections, NEW run \in Nat, Delivery(run, c) \notin InQueue(q),
           Inputs[workflow][c.to] = {0, 1},
           NEW ds, NEW tk, Delivery(run, c) \notin ds, Few(ds \cup {Delivery(run, c)}, c.to),
           Pairs(q, ds, c.to, tk)
    PROVE  Pairs(AddNodeToBeExecuted(q, c, run), ds \cup {Delivery(run, c)}, c.to, tk)
<1> DEFINE n == c.to
           x == c.input
           source == GivenBy(run, c)
           d0 == Delivery(run, c)
           es == ds \cup {d0}
           entries == q.waiting[n]
           lacking == Lacking(q, c)
           at == Chosen(q, c)
           main == Filled(q, c, run)
           m == Item(n, main)
           p == AddNodeToBeExecuted(q, c, run)
<1> DEFINE inputs == Inputs[workflow][n]
<1>0. Parts(q, c, run)
  BY AddNodeParts
<1>1. n \in Node /\ x \in inputs /\ source # NoData /\ source \in Source /\ IsFiniteSet(inputs)
  BY <1>0 DEF Parts
<1>2. at \in Nat /\ (lacking # {} => at \in lacking) /\ (lacking = {} => at = Cardinality(DOMAIN entries))
  BY <1>0 DEF Parts
<1>3. /\ main \in [inputs -> Source \cup {NoData}]
      /\ main[x] = source
      /\ \A i \in inputs \ {x} : main[i] = IF lacking = {} THEN NoData ELSE entries[at][i]
  BY <1>0 DEF Parts
<1>4. p = IF Cardinality(inputs) = 1 THEN Unshift(q, m)
          ELSE IF \A i \in inputs : main[i] # NoData THEN Unshift(RemoveEntry(q, n, at), m)
          ELSE SetEntry(q, n, at, main)
  BY <1>0 DEF Parts
<1>16. inputs = {0, 1}
  OBVIOUS
<1>17. main \in Mains /\ DOMAIN main = inputs
  <2>1. inputs \in SUBSET Nat
    BY <1>16
  <2> HIDE DEF inputs, main
  <2> QED
    BY <1>3, <2>1 DEF Mains
<1>18. \A i \in DOMAIN entries : entries[i] \in [inputs -> Source \cup {NoData}]
  BY <1>0 DEF Parts
<1>5. \A i \in DOMAIN entries : HalfOK(ds, n, i, entries[i])
  BY DEF Pairs
<1>6. \A i \in DOMAIN entries : i \in lacking <=> entries[i][x] = NoData
  BY DEF Lacking
<1>7. lacking \subseteq DOMAIN entries
  BY DEF Lacking
<1>8. d0 = <<n, x, source>> /\ d0[1] = n
  BY DEF Delivery, GivenBy
<1>9. \A d \in ds : d[1] = n => d \in InQueue(q) \cup tk
  BY DEF Pairs, Kept
<1>10. Few(es, n) /\ d0 \notin ds
  OBVIOUS
<1>11. Grows(q, p, {d0}, {n})
  BY AddNodeGrows
<1>12. OnStack(q) \subseteq OnStack(p) /\ QueueOK(workflow, resumed, q)
  BY <1>11 DEF Grows
<1> HIDE DEF p, m, main, at, lacking, source, d0, inputs
<1>19. Cardinality(inputs) # 1
  <2> SUFFICES ASSUME Cardinality(inputs) = 1
               PROVE  FALSE
    OBVIOUS
  <2>1. \E k : inputs = {k}
    BY <1>1, FS_Singleton
  <2> QED
    BY <1>16, <2>1
<1>13. \A i \in DOMAIN entries : HalfOK(es, n, i, entries[i])
  BY <1>5, MoreData
<1>20. \A i \in {0, 1} : 1 - i \in {0, 1} /\ 1 - i # i /\ 1 - (1 - i) = i
  OBVIOUS
<1>14. CASE \A i \in inputs : main[i] # NoData
  <2>1. lacking # {} /\ at \in lacking /\ at \in DOMAIN entries
    <3>1. 1 - x \in inputs \ {x}
      BY <1>1, <1>16, <1>20
    <3>2. lacking # {}
      BY <1>3, <1>14, <3>1
    <3> QED
      BY <1>2, <1>7, <3>2
  <2> DEFINE r == RemoveEntry(q, n, at)
  <2>2. p = Unshift(r, m)
    BY <1>4, <1>14, <1>19
  <2>3. /\ QueueOK(workflow, resumed, r) /\ r.stack = q.stack
        /\ r.waiting = Without(q, n, at)
    <3>1. n \in Node /\ at \in DOMAIN q.waiting[n]
      BY <1>1, <2>1
    <3> HIDE DEF n, entries, inputs
    <3>2. QueueOK(workflow, resumed, RemoveEntry(q, n, at))
      BY <3>1, RemoveEntryTypes
    <3>3. r.stack = q.stack /\ r.waiting = Without(q, n, at)
      BY DEF r, RemoveEntry, Without
    <3> QED
      BY <3>2, <3>3
  <2> HIDE DEF r
  <2>4. m.node = n /\ m.main = main /\ m \in Items /\ ItemOK(workflow, resumed, m)
    <3>1. m.node = n /\ m.main = main /\ m \in Items /\ m.object = resumed
      BY <1>1, <1>17 DEF m, Item, Items
    <3>2. resumed <= resumed
      OBVIOUS
    <3> QED
      BY <1>17, <3>1, <3>2 DEF ItemOK, inputs
  <2>5. p.stack = <<m>> \o r.stack /\ p.waiting = r.waiting
    BY <2>2 DEF Unshift
  <2>6. r.stack \in Seq(Items) /\ q.waiting \in [Node -> Entries]
    BY <1>12, <2>3 DEF QueueOK, Queues
  <2>7. OnStack(p) = OnStack(r) \cup DataOf(m) /\ DataOf(m) = Data(n, main)
    <3>1. OnStack(p) = OnStack(r) \cup DataOf(m)
      BY <2>4, <2>5, <2>6, UnshiftData
    <3> QED
      BY <2>4, <3>1, DataOfNode
  <2>8. /\ DOMAIN p.waiting[n] = DOMAIN entries \ {at}
        /\ \A i \in DOMAIN p.waiting[n] : p.waiting[n][i] = entries[i]
    BY <1>1, <2>3, <2>5, <2>6 DEF Without
  <2>9. \A i \in DOMAIN p.waiting[n] : HalfOK(es, n, i, p.waiting[n][i])
    BY <1>13, <2>8
  <2>10. d0 \in InQueue(p)
    <3>1. d0 \in Data(n, main)
      BY <1>1, <1>3, <1>8, <1>17 DEF Data
    <3> QED
      BY <2>7, <3>1 DEF InQueue
  <2>11. ASSUME NEW d \in InQueue(q), d[1] = n
         PROVE  d \in InQueue(p)
    <3>1. CASE d \in OnStack(q)
      BY <1>12, <3>1 DEF InQueue
    <3>2. CASE d \in InWaiting(q)
      <4>1. PICK i \in DOMAIN entries : d \in Data(n, entries[i])
        BY <2>11, <3>2, WaitingData
      <4>2. CASE i = at
        <5>1. PICK j \in inputs : entries[at][j] # NoData /\ d = <<n, j, entries[at][j]>>
          BY <1>18, <4>1, <4>2 DEF Data
        <5>2. j # x
          BY <1>6, <2>1, <5>1
        <5>3. main[j] = entries[at][j]
          BY <1>3, <2>1, <5>2
        <5>4. d \in Data(n, main)
          BY <1>17, <5>1, <5>3 DEF Data
        <5> QED
          BY <2>7, <5>4 DEF InQueue
      <4>3. CASE i # at
        <5>1. i \in DOMAIN p.waiting[n] /\ d \in Data(n, p.waiting[n][i])
          BY <2>8, <4>1, <4>3
        <5> QED
          BY <1>1, <5>1, WaitingData DEF InQueue
      <4> QED
        BY <4>2, <4>3
    <3> QED
      BY <3>1, <3>2 DEF InQueue
  <2>12. Kept(p, es, n, tk)
    BY <1>9, <2>10, <2>11 DEF Kept
  <2> QED
    BY <2>9, <2>12 DEF Pairs, p, d0
<1>15. CASE ~ \A i \in inputs : main[i] # NoData
  <2>1. lacking = {}
    <3> SUFFICES ASSUME lacking # {}
                 PROVE  FALSE
      OBVIOUS
    <3>1. at \in lacking /\ at \in DOMAIN entries /\ entries[at][x] = NoData
      BY <1>2, <1>6, <1>7
    <3>2. PICK i \in {0, 1} : entries[at][i] # NoData
      BY <1>5, <3>1 DEF HalfOK
    <3>3. i # x /\ inputs = {x, i}
      BY <1>1, <1>16, <3>1, <3>2
    <3>4. main[i] = entries[at][i]
      BY <1>3, <3>1, <3>3
    <3> QED
      BY <1>1, <1>3, <1>15, <3>2, <3>3, <3>4
  <2>2. \A i \in DOMAIN entries : /\ i \in {0, 1}
                                  /\ entries[i][x] # NoData /\ <<n, x, entries[i][x]>> \in ds
                                  /\ i = 1 => \E e \in ds : e[1] = n /\ e[2] = x /\ e # <<n, x, entries[i][x]>>
    <3> SUFFICES ASSUME NEW i \in DOMAIN entries
                 PROVE  /\ i \in {0, 1}
                        /\ entries[i][x] # NoData /\ <<n, x, entries[i][x]>> \in ds
                        /\ i = 1 => \E e \in ds : e[1] = n /\ e[2] = x /\ e # <<n, x, entries[i][x]>>
      OBVIOUS
    <3>1. entries[i][x] # NoData
      BY <1>6, <2>1
    <3>2. HalfOK(ds, n, i, entries[i])
      BY <1>5
    <3>3. PICK j \in {0, 1} : /\ entries[i][j] # NoData /\ entries[i][1 - j] = NoData
                              /\ <<n, j, entries[i][j]>> \in ds
                              /\ i = 1 => \E e \in ds : e[1] = n /\ e[2] = j /\ e # <<n, j, entries[i][j]>>
      BY <3>2 DEF HalfOK
    <3>4. j = x
      BY <1>1, <1>16, <1>20, <3>1, <3>3
    <3>5. i \in {0, 1}
      BY <3>2 DEF HalfOK
    <3> QED
      BY <3>1, <3>3, <3>4, <3>5
  <2>3. 1 \notin DOMAIN entries
    <3> SUFFICES ASSUME 1 \in DOMAIN entries
                 PROVE  FALSE
      OBVIOUS
    <3> DEFINE d1 == <<n, x, entries[1][x]>>
    <3>1. d1 \in ds
      BY <2>2
    <3>2. PICK e \in ds : e[1] = n /\ e[2] = x /\ e # d1
      BY <2>2
    <3>3. d1[1] = n /\ d1[2] = x /\ d0[1] = n /\ d0[2] = x
      BY <1>8
    <3> HIDE DEF d1
    <3>4. d0 \in es /\ d1 \in es /\ e \in es
      BY <3>1, <3>2
    <3>5. d0 = d1 \/ d1 = e \/ d0 = e
      BY <1>10, <3>2, <3>3, <3>4 DEF Few
    <3> QED
      BY <1>10, <3>1, <3>2, <3>5
  <2>4. (DOMAIN entries = {} /\ at = 0) \/ (DOMAIN entries = {0} /\ at = 1)
    <3> DEFINE D == DOMAIN entries
    <3>1. D = {} \/ D = {0}
      BY <2>2, <2>3
    <3>2. at = Cardinality(D)
      BY <1>2, <2>1
    <3> HIDE DEF D
    <3>5. Cardinality({}) = 0
      BY FS_EmptySet
    <3>3. D = {} => at = 0
      BY <3>2, <3>5
    <3>4. D = {0} => at = 1
      BY <3>2, FS_Singleton
    <3> QED
      BY <3>1, <3>3, <3>4 DEF D
  <2>5. p = SetEntry(q, n, at, main)
    BY <1>4, <1>15, <1>19
  <2>6. p.stack = q.stack /\ p.waiting = With(q, n, at, main)
    <3>1. n \in Node /\ DOMAIN main = Inputs[workflow][n]
      BY <1>1, <1>17 DEF inputs
    <3> HIDE DEF n, entries
    <3> QED
      BY <1>2, <1>12, <1>17, <2>5, <3>1, SetEntryTypes
  <2>7. /\ DOMAIN p.waiting[n] = DOMAIN entries \cup {at}
        /\ p.waiting[n][at] = main
        /\ \A i \in DOMAIN entries : p.waiting[n][i] = entries[i]
    <3>1. q.waiting \in [Node -> Entries] /\ at \notin DOMAIN entries
      BY <1>12, <2>4 DEF QueueOK, Queues
    <3> QED
      BY <1>1, <2>6, <3>1 DEF With
  <2>8. d0 \in es /\ HalfOK(es, n, at, main)
    <3>1. main[x] # NoData /\ main[1 - x] = NoData
      BY <1>1, <1>3, <1>16, <1>20, <2>1
    <3>2. <<n, x, main[x]>> = d0
      BY <1>3, <1>8
    <3>3. ASSUME at = 1
          PROVE  \E e \in es : e[1] = n /\ e[2] = x /\ e # d0
      <4> DEFINE d1 == <<n, x, entries[0][x]>>
      <4>1. d1 \in ds
        BY <2>2, <2>4, <3>3
      <4>2. d1[1] = n /\ d1[2] = x /\ d1 # d0
        BY <1>10, <4>1
      <4> HIDE DEF d1
      <4> QED
        BY <4>1, <4>2
    <3>4. at \in {0, 1} /\ x \in {0, 1} /\ d0 \in es
      BY <1>1, <1>16, <2>4
    <3> QED
      BY <3>1, <3>2, <3>3, <3>4 DEF HalfOK
  <2>9. \A i \in DOMAIN p.waiting[n] : HalfOK(es, n, i, p.waiting[n][i])
    BY <1>13, <2>7, <2>8
  <2>10. d0 \in InQueue(p)
    <3>1. d0 \in Data(n, main)
      BY <1>1, <1>3, <1>8, <1>17 DEF Data
    <3>2. at \in DOMAIN p.waiting[n] /\ d0 \in Data(n, p.waiting[n][at])
      BY <2>7, <3>1
    <3> QED
      BY <1>1, <3>2, WaitingData DEF InQueue
  <2>11. ASSUME NEW d \in InQueue(q), d[1] = n
         PROVE  d \in InQueue(p)
    <3>1. CASE d \in OnStack(q)
      BY <1>12, <3>1 DEF InQueue
    <3>2. CASE d \in InWaiting(q)
      <4>1. PICK i \in DOMAIN entries : d \in Data(n, entries[i])
        BY <2>11, <3>2, WaitingData
      <4>2. i \in DOMAIN p.waiting[n] /\ d \in Data(n, p.waiting[n][i])
        BY <2>7, <4>1
      <4> QED
        BY <1>1, <4>2, WaitingData DEF InQueue
    <3> QED
      BY <3>1, <3>2 DEF InQueue
  <2>12. Kept(p, es, n, tk)
    BY <1>9, <2>10, <2>11 DEF Kept
  <2> QED
    BY <2>9, <2>12 DEF Pairs, p, d0
<1> QED
  BY <1>14, <1>15

\* Data for other nodes leave what a node was given where it is.
LEMMA OtherPairs ==
    ASSUME NEW q, NEW p, NEW gs, NEW ns, Grows(q, p, gs, ns), NEW n \in Node, n \notin ns,
           NEW ds, NEW es, ds \subseteq es, \A d \in es \ ds : d[1] # n,
           NEW tk, Pairs(q, ds, n, tk)
    PROVE  Pairs(p, es, n, tk)
<1>1. p.waiting[n] = q.waiting[n] /\ OnStack(q) \subseteq OnStack(p)
  BY DEF Grows
<1>2. \A at \in DOMAIN p.waiting[n] : HalfOK(es, n, at, p.waiting[n][at])
  BY <1>1, MoreData DEF Pairs
<1>3. ASSUME NEW d \in es, d[1] = n
      PROVE  d \in InQueue(p) \cup tk
  <2>1. d \in InQueue(q) \cup tk
    BY <1>3 DEF Pairs, Kept
  <2>2. CASE d \in InWaiting(q)
    <3>1. PICK at \in DOMAIN q.waiting[n] : d \in Data(n, q.waiting[n][at])
      BY <1>3, <2>2, WaitingData
    <3> QED
      BY <1>1, <3>1, WaitingData DEF InQueue
  <2> QED
    BY <1>1, <2>1, <2>2 DEF InQueue
<1> QED
  BY <1>2, <1>3 DEF Pairs, Kept

\* What a run hands on to a node is kept with the rest.
LEMMA HandOnPairs ==
    ASSUME workflow \in DOMAIN Definition, resumed \in Nat,
           NEW q, QueueOK(workflow, resumed, q), SharesNothing(q),
           NEW m, NEW outputs, NEW run \in Nat,
           \A c \in Added(m, outputs) : Delivery(run, c) \notin InQueue(q),
           NEW n \in Node, Inputs[workflow][n] = {0, 1},
           NEW ds, \A c \in Added(m, outputs) : Delivery(run, c) \notin ds,
           NEW es, es = ds \cup {Delivery(run, c) : c \in Added(m, outputs)}, Few(es, n),
           NEW tk, Pairs(q, ds, n, tk)
    PROVE  Pairs(HandOn(q, m, outputs, run), es, n, tk)
<1>1. PICK list : list = NodesToAdd(m, outputs)
  OBVIOUS
<1>2. PICK N : N = Len(list)
  OBVIOUS
<1>3. /\ N \in Nat
      /\ es = ds \cup Given(list, run, N)
      /\ \A k \in 1 .. N : list[k] \in Added(m, outputs)
  <2>1. Given(list, run, N) = {Delivery(run, c) : c \in Added(m, outputs)}
    BY <1>1, <1>2, AllGiven
  <2> QED
    BY <1>1, <1>2, <2>1, AllGiven
<1>4. PICK f : Follows(f, q, list, run, N) /\ HandOn(q, m, outputs, run) = f[N]
  BY <1>1, <1>2, <1>3, HandOnFollows
<1>5. StepsGrow(f, q, list, run, N)
  BY <1>1, <1>2, <1>4, HandOnSteps
<1> DEFINE now(k) == ds \cup Given(list, run, k)
           P == {k \in Nat : k <= N => Pairs(f[k], now(k), n, tk)}
<1>6. 0 \in P
  <2>1. f[0] = q /\ Given(list, run, 0) = {}
    BY <1>4, GivenFacts DEF Follows
  <2>2. now(0) = ds
    BY <2>1
  <2> QED
    BY <2>1, <2>2
<1>7. ASSUME NEW k \in Nat, k \in P
      PROVE  k + 1 \in P
  <2> SUFFICES ASSUME k + 1 <= N
               PROVE  Pairs(f[k + 1], now(k + 1), n, tk)
    OBVIOUS
  <2> DEFINE c == list[k + 1]
             d0 == Delivery(run, c)
  <2>1. k \in 0 .. N /\ k < N /\ k <= N /\ k + 1 \in 1 .. N
    BY <1>3
  <2>2. /\ QueueOK(workflow, resumed, f[k]) /\ SharesNothing(f[k])
        /\ c \in Flow.connections
        /\ d0 \notin InQueue(f[k]) /\ d0 \notin Given(list, run, k)
        /\ f[k + 1] = AddNodeToBeExecuted(f[k], c, run)
    BY <1>5, <2>1 DEF StepsGrow, Grows
  <2>3. c \in Added(m, outputs)
    BY <1>3, <2>1
  <2>4. Pairs(f[k], now(k), n, tk)
    BY <1>7, <2>1
  <2>5. now(k + 1) = now(k) \cup {d0}
    <3>1. Given(list, run, k + 1) = Given(list, run, k) \cup {d0}
      BY GivenFacts
    <3> QED
      BY <3>1
  <2>6. d0 \notin now(k)
    BY <2>2, <2>3
  <2>7. now(k + 1) \subseteq es
    <3>1. \A j \in 1 .. k + 1 : j \in 1 .. N
      BY <1>3, <2>1
    <3>2. Given(list, run, k + 1) \subseteq Given(list, run, N)
      BY <3>1 DEF Given
    <3> QED
      BY <1>3, <3>2
  <2> HIDE DEF now, P
  <2>8. Few(now(k + 1), n)
    BY <2>7, MoreData
  <2>9. d0[1] = c.to
    BY DEF Delivery
  <2> HIDE DEF d0, c
  <2>10. CASE c.to = n
    <3>1. Pairs(AddNodeToBeExecuted(f[k], c, run), now(k) \cup {Delivery(run, c)}, c.to, tk)
      <4>1. Delivery(run, c) = d0
        BY DEF d0
      <4> QED
        BY <2>2, <2>4, <2>5, <2>6, <2>8, <2>10, <4>1, AddNodePairs
    <3> QED
      BY <2>2, <2>5, <2>10, <3>1 DEF d0
  <2>11. CASE c.to # n
    <3>1. Grows(f[k], f[k + 1], {d0}, {c.to})
      BY <2>2, AddNodeGrows DEF d0
    <3>2. n \notin {c.to} /\ now(k) \subseteq now(k + 1) /\ \A d \in now(k + 1) \ now(k) : d[1] # n
      BY <2>5, <2>9, <2>11
    <3> QED
      BY <2>4, <3>1, <3>2, OtherPairs
  <2> QED
    BY <2>10, <2>11
<1> HIDE DEF P
<1>8. N \in P
  BY <1>3, <1>6, <1>7, SetInduction
<1>9. Pairs(f[N], es, n, tk)
  BY <1>3, <1>8 DEF P
<1> QED
  BY <1>4, <1>9

\* A released node takes what waited to the stack.
LEMMA ReleasePairs ==
    ASSUME workflow \in DOMAIN Definition, resumed \in Nat,
           NEW q, QueueOK(workflow, resumed, q), SharesNothing(q),
           NEW n \in Node, NEW ds, NEW tk, Pairs(q, ds, n, tk)
    PROVE  Pairs(ReleaseWaiting(q), ds, n, tk)
<1> DEFINE r == ReleaseWaiting(q)
<1>1. /\ InQueue(q) \subseteq InQueue(r)
      /\ \A at \in DOMAIN r.waiting[n] :
            at \in DOMAIN q.waiting[n] /\ r.waiting[n][at] = q.waiting[n][at]
  BY ReleaseMoves
<1> HIDE DEF r
<1>2. Kept(r, ds, n, tk)
  BY <1>1 DEF Pairs, Kept
<1>3. \A at \in DOMAIN r.waiting[n] : HalfOK(ds, n, at, r.waiting[n][at])
  BY <1>1 DEF Pairs
<1> QED
  BY <1>2, <1>3 DEF Pairs, r

\* Each delivery names its run; a new run adds its own, and one that handed nothing on may go.
LEMMA DeliveriesFacts ==
    ASSUME NEW rs \in Seq(Runs)
    PROVE  /\ \A d \in DeliveriesOf(rs) : d[3].run \in DOMAIN rs
           /\ \A run \in Runs :
                DeliveriesOf(Append(rs, run))
                  = DeliveriesOf(rs) \cup {Delivery(Len(rs) + 1, c) : c \in Added(run.node, run.handed)}
           /\ rs # <<>> /\ rs[Len(rs)].handed = {} => DeliveriesOf(Front(rs)) = DeliveriesOf(rs)
<1> DEFINE gave(k, run) == {Delivery(k, c) : c \in Added(run.node, run.handed)}
<1>1. \A ts : DeliveriesOf(ts) = UNION {gave(k, ts[k]) : k \in DOMAIN ts}
  BY DEF DeliveriesOf
<1>2. \A k, run : \A d \in gave(k, run) : d[3].run = k
  BY DEF Delivery
<1>3. \A k, run : run.handed = {} => gave(k, run) = {}
  BY DEF Added
<1> HIDE DEF gave
<1>4. ASSUME NEW d \in DeliveriesOf(rs)
      PROVE  d[3].run \in DOMAIN rs
  <2>1. PICK k \in DOMAIN rs : d \in gave(k, rs[k])
    BY <1>1
  <2> QED
    BY <1>2, <2>1
<1>5. Len(rs) \in Nat /\ DOMAIN rs = 1 .. Len(rs)
  BY LenProperties
<1>6. ASSUME NEW run \in Runs
      PROVE  DeliveriesOf(Append(rs, run)) = DeliveriesOf(rs) \cup gave(Len(rs) + 1, run)
  <2> DEFINE ts == Append(rs, run)
  <2>1. /\ DOMAIN ts = (DOMAIN rs) \cup {Len(rs) + 1}
        /\ ts[Len(rs) + 1] = run
        /\ \A k \in DOMAIN rs : ts[k] = rs[k]
    <3>1. /\ Len(ts) = Len(rs) + 1 /\ ts[Len(rs) + 1] = run
          /\ \A k \in 1 .. Len(rs) : ts[k] = rs[k] /\ ts \in Seq(Runs)
      BY AppendProperties
    <3>2. DOMAIN ts = 1 .. Len(rs) + 1
      BY AppendProperties, LenProperties, <3>1
    <3> QED
      BY <1>5, <3>1, <3>2
  <2> HIDE DEF ts
  <2>2. DeliveriesOf(ts) = UNION {gave(k, ts[k]) : k \in DOMAIN ts}
    BY <1>1
  <2>3. ASSUME NEW d \in DeliveriesOf(ts)
        PROVE  d \in DeliveriesOf(rs) \cup gave(Len(rs) + 1, run)
    <3>1. PICK k \in DOMAIN ts : d \in gave(k, ts[k])
      BY <2>2
    <3> QED
      BY <1>1, <2>1, <3>1
  <2>4. DeliveriesOf(rs) \subseteq DeliveriesOf(ts)
    <3> SUFFICES ASSUME NEW d \in DeliveriesOf(rs)
                 PROVE  d \in DeliveriesOf(ts)
      OBVIOUS
    <3>1. PICK k \in DOMAIN rs : d \in gave(k, rs[k])
      BY <1>1
    <3> QED
      BY <2>1, <2>2, <3>1
  <2>5. gave(Len(rs) + 1, run) \subseteq DeliveriesOf(ts)
    BY <2>1, <2>2
  <2> QED
    BY <2>3, <2>4, <2>5 DEF ts
<1>7. ASSUME rs # <<>>, rs[Len(rs)].handed = {}
      PROVE  DeliveriesOf(Front(rs)) = DeliveriesOf(rs)
  <2> DEFINE ts == Front(rs)
  <2>1. /\ DOMAIN ts = 1 .. Len(rs) - 1
        /\ \A k \in DOMAIN ts : ts[k] = rs[k]
    BY <1>7, Popped
  <2>2. \A k \in DOMAIN rs : k = Len(rs) \/ k \in DOMAIN ts
    BY <1>5, <2>1
  <2>3. \A k \in DOMAIN ts : k \in DOMAIN rs
    BY <1>5, <2>1
  <2> HIDE DEF ts
  <2>4. ASSUME NEW d \in DeliveriesOf(ts)
        PROVE  d \in DeliveriesOf(rs)
    <3>1. PICK k \in DOMAIN ts : d \in gave(k, ts[k])
      BY <1>1
    <3> QED
      BY <1>1, <2>1, <2>3, <3>1
  <2>5. ASSUME NEW d \in DeliveriesOf(rs)
        PROVE  d \in DeliveriesOf(ts)
    <3>1. PICK k \in DOMAIN rs : d \in gave(k, rs[k])
      BY <1>1
    <3>2. k # Len(rs)
      BY <1>3, <1>7, <3>1
    <3> QED
      BY <1>1, <2>1, <2>2, <3>1, <3>2
  <2> QED
    BY <2>4, <2>5 DEF ts
<1> QED
  BY <1>4, <1>6, <1>7 DEF gave

\* The deliveries of the state are those of its runs.
LEMMA DeliveriesNow ==
    /\ Deliveries = DeliveriesOf(runs)
    /\ workflow' = workflow => Deliveries' = DeliveriesOf(runs')
<1>1. Deliveries = DeliveriesOf(runs)
  BY DEF Deliveries, DeliveriesOf, Added
<1>2. ASSUME workflow' = workflow
      PROVE  Deliveries' = DeliveriesOf(runs')
  BY <1>2 DEF Deliveries, DeliveriesOf, Added, Flow
<1> QED
  BY <1>1, <1>2

\* Of a stack whose first item is taken off, the queue keeps the rest.
LEMMA TailKeeps ==
    ASSUME NEW q, q.stack \in Seq(Items), q.stack # <<>>,
           NEW p, p.stack = Tail(q.stack), p.waiting = q.waiting
    PROVE  InQueue(q) \subseteq InQueue(p) \cup DataOf(Head(q.stack))
<1>1. /\ q.stack[1] = Head(q.stack)
      /\ \A i \in DOMAIN q.stack \ {1} : i - 1 \in DOMAIN p.stack /\ p.stack[i - 1] = q.stack[i]
  BY Taken
<1>2. InWaiting(p) = InWaiting(q)
  BY DEF InWaiting
<1>3. ASSUME NEW d \in OnStack(q)
      PROVE  d \in OnStack(p) \cup DataOf(Head(q.stack))
  <2>1. PICK i \in DOMAIN q.stack : d \in DataOf(q.stack[i])
    BY DEF OnStack
  <2> QED
    BY <1>1, <2>1 DEF OnStack
<1> QED
  BY <1>2, <1>3 DEF InQueue

\* A step that hands nothing on and loses nothing.
LEMMA PairsStay ==
    ASSUME PairsWait, workflow' = workflow, Deliveries' = Deliveries, waiting' = waiting,
           taken \subseteq taken', InQueue(Queue) \subseteq InQueue(Queue') \cup taken'
    PROVE  PairsWait'
<1> SUFFICES ASSUME NEW n \in Node, Inputs[workflow][n] = {0, 1}, Few(Deliveries, n)
             PROVE  Pairs(Queue', Deliveries, n, taken')
  BY DEF PairsWait
<1>1. Pairs(Queue, Deliveries, n, taken)
  BY DEF PairsWait
<1>2. Kept(Queue', Deliveries, n, taken')
  BY <1>1 DEF Pairs, Kept
<1>3. Queue'.waiting = Queue.waiting
  BY DEF Queue
<1> QED
  BY <1>1, <1>2, <1>3 DEF Pairs

\* A run that hands nothing on delivers nothing.
LEMMA RecordNothing ==
    ASSUME Inv, current # Nothing, Record({}), workflow' = workflow
    PROVE  Deliveries' = Deliveries /\ runs'[Len(runs')].handed = {}
<1> DEFINE run == [node |-> current.node, main |-> current.main, handed |-> {}]
<1>1. runs' = Append(runs, run) /\ runs \in Seq(Runs)
  BY DEF Record, Inv, Typing
<1>2. run \in Runs /\ run.handed = {}
  <2>1. current.node \in Node /\ current.main \in Mains
    BY RecordStep DEF ItemOK, Items
  <2> QED
    BY <2>1 DEF Runs
<1> HIDE DEF run
<1>3. DeliveriesOf(runs')
        = DeliveriesOf(runs) \cup {Delivery(Len(runs) + 1, c) : c \in Added(run.node, run.handed)}
  BY <1>1, <1>2, DeliveriesFacts
<1>4. Added(run.node, run.handed) = {}
  BY <1>2 DEF Added
<1>5. DeliveriesOf(runs') = DeliveriesOf(runs)
  BY <1>3, <1>4
<1>6. Len(runs') = Len(runs) + 1 /\ runs'[Len(runs) + 1] = run
  BY <1>1, <1>2, AppendProperties
<1> QED
  BY <1>2, <1>5, <1>6, DeliveriesNow

\* A node that gives data: those of its run are kept with the rest.
LEMMA SucceedPairs ==
    ASSUME Inv, PairsWait, NEW outputs \in SUBSET OutputsOf(current.node), Succeed(outputs)
    PROVE  PairsWait'
<1> DEFINE run == Len(runs) + 1
           added == Added(current.node, outputs)
           fresh == {Delivery(run, c) : c \in added}
           h == HandOn(Queue, current.node, outputs, run)
           r == ReleaseWaiting(h)
<1>1. /\ current # Nothing /\ Record(outputs) /\ SetQueue(r)
      /\ workflow' = workflow /\ taken' = taken
  BY DEF Succeed
<1>2. /\ Len(runs) \in Nat /\ Once(Queue, current, runs)
      /\ FromRuns(InQueue(Queue) \cup DataOf(current), Len(runs))
      /\ ItemOK(workflow, resumed, current)
  BY <1>1, RecordStep
<1>3. /\ workflow \in DOMAIN Definition /\ resumed \in Nat /\ QueueOK(workflow, resumed, Queue)
      /\ SharesNothing(Queue) /\ run \in Nat /\ runs \in Seq(Runs) /\ DOMAIN runs = 1 .. Len(runs)
  BY <1>2, EngineAssumption, LenProperties DEF Inv, Typing, Once
<1>4. \A c \in added : Delivery(run, c)[3].run = run
  BY DEF Delivery
<1>5. \A c \in added : Delivery(run, c) \notin InQueue(Queue)
  BY <1>2, <1>4 DEF FromRuns
<1>6. \A c \in added : Delivery(run, c) \notin Deliveries
  <2>1. \A d \in Deliveries : d[3].run \in DOMAIN runs
    BY <1>3, DeliveriesNow, DeliveriesFacts
  <2>2. run \notin DOMAIN runs
    BY <1>2, <1>3
  <2> QED
    BY <1>4, <2>1, <2>2
<1>7. Deliveries' = Deliveries \cup fresh
  <2> DEFINE new == [node |-> current.node, main |-> current.main, handed |-> outputs]
  <2>1. runs' = Append(runs, new) /\ new.node = current.node /\ new.handed = outputs
    BY <1>1 DEF Record
  <2>2. new \in Runs
    <3>1. current.node \in Node /\ current.main \in Mains
      BY <1>2 DEF ItemOK, Items
    <3>2. outputs \subseteq Nat
      BY <1>3, EngineAssumption DEF OutputsOf, Flow, IsWorkflow
    <3> QED
      BY <3>1, <3>2 DEF Runs
  <2> HIDE DEF new
  <2>3. DeliveriesOf(runs') = DeliveriesOf(runs) \cup {Delivery(Len(runs) + 1, c) : c \in Added(new.node, new.handed)}
    BY <1>3, <2>1, <2>2, DeliveriesFacts
  <2> QED
    BY <1>1, <2>1, <2>3, DeliveriesNow
<1>8. Grows(Queue, h, fresh, {c.to : c \in added})
  BY HandOnOK
<1>9. QueueOK(workflow, resumed, h) /\ SharesNothing(h)
  BY <1>8 DEF Grows
<1>10. ASSUME NEW n \in Node, Inputs[workflow][n] = {0, 1}, Few(Deliveries', n)
       PROVE  Pairs(r, Deliveries', n, taken)
  <2>1. Few(Deliveries, n)
    BY <1>7, <1>10, MoreData
  <2>2. Pairs(Queue, Deliveries, n, taken)
    BY <1>10, <2>1 DEF PairsWait
  <2>3. PICK es : es = Deliveries'
    OBVIOUS
  <2>4. es = Deliveries \cup {Delivery(run, c) : c \in Added(current.node, outputs)} /\ Few(es, n)
    BY <1>7, <1>10, <2>3
  <2>5. PICK q : q = Queue
    OBVIOUS
  <2>6. PICK ds : ds = Deliveries
    OBVIOUS
  <2>7. PICK m : m = current.node
    OBVIOUS
  <2>8. /\ QueueOK(workflow, resumed, q) /\ SharesNothing(q) /\ Pairs(q, ds, n, taken)
        /\ \A c \in Added(m, outputs) : Delivery(run, c) \notin InQueue(q) /\ Delivery(run, c) \notin ds
        /\ es = ds \cup {Delivery(run, c) : c \in Added(m, outputs)}
    BY <1>3, <1>5, <1>6, <2>2, <2>4, <2>5, <2>6, <2>7
  <2> HIDE DEF run
  <2>9. Pairs(HandOn(q, m, outputs, run), es, n, taken)
    BY <1>3, <1>10, <2>4, <2>8, HandOnPairs
  <2>10. Pairs(h, es, n, taken)
    BY <2>5, <2>7, <2>9
  <2> HIDE DEF h
  <2>11. Pairs(r, es, n, taken)
    BY <1>3, <1>9, <2>10, ReleasePairs
  <2> QED
    BY <2>3, <2>11
<1> HIDE DEF h
<1>11. QueueOK(workflow, resumed, r)
  BY <1>3, <1>9, ReleaseMoves
<1> HIDE DEF r
<1>12. Queue' = r
  <2>1. r = [stack |-> r.stack, waiting |-> r.waiting, nodes |-> r.nodes]
    BY <1>11 DEF QueueOK, Queues
  <2> QED
    BY <1>1, <2>1 DEF SetQueue, Queue
<1> QED
  BY <1>1, <1>10, <1>12 DEF PairsWait

\* What an execution that goes on takes from before.
LEMMA ResumeFacts ==
    ASSUME Resume \/ \E load \in BOOLEAN : Retry(load)
    PROVE  /\ workflow' = workflow /\ runs' = Front(runs) /\ taken' = taken
           /\ waiting' = waiting /\ waitingNodes' = waitingNodes
           /\ status \in {"waiting", "error"} /\ status' = "running"
<1>1. CASE Resume
  BY <1>1 DEF Resume
<1>2. CASE \E load \in BOOLEAN : Retry(load)
  <2>1. PICK load \in BOOLEAN : Retry(load)
    BY <1>2
  <2>2. status = "error"
    BY <2>1, Zenon DEF Retry
  <2>3. status' = "running" /\ runs' = Front(runs)
    BY <2>1, Zenon DEF Retry
  <2>4. UNCHANGED <<workflow, waiting, waitingNodes, taken>>
    BY <2>1, Zenon DEF Retry
  <2> QED
    BY <2>2, <2>3, <2>4
<1> QED
  BY <1>1, <1>2

\* Every step keeps the pairs.
LEMMA PairsWaitHolds == Spec => [](PairsWait /\ LastGaveNothing)
<1>1. Init => PairsWait /\ LastGaveNothing
  <2> SUFFICES ASSUME Init
               PROVE  PairsWait /\ LastGaveNothing
    OBVIOUS
  <2>1. Deliveries = {}
    BY DEF Init, Deliveries
  <2>2. \A n \in Node : DOMAIN Queue.waiting[n] = {}
    BY DEF Init, Queue
  <2> QED
    BY <2>1, <2>2 DEF Init, PairsWait, Pairs, Kept, LastGaveNothing
<1>2. Inv /\ PairsWait /\ LastGaveNothing /\ [Next]_vars => PairsWait' /\ LastGaveNothing'
  <2> SUFFICES ASSUME Inv, PairsWait, LastGaveNothing, [Next]_vars
               PROVE  PairsWait' /\ LastGaveNothing'
    OBVIOUS
  <2>1. CASE UNCHANGED vars \/ ReturnNull \/ Cancel \/ Finish
    <3>1. /\ workflow' = workflow /\ runs' = runs /\ taken' = taken
          /\ stack' = stack /\ waiting' = waiting /\ waitingNodes' = waitingNodes
          /\ status' = status \/ status' \in {"canceled", "success"}
      BY <2>1 DEF vars, queue, ReturnNull, Cancel, Finish
    <3>2. Deliveries' = Deliveries
      BY <3>1, DeliveriesNow
    <3>3. Queue' = Queue
      BY <3>1 DEF Queue
    <3>4. PairsWait'
      BY <3>1, <3>2, <3>3, PairsStay
    <3> QED
      BY <3>1, <3>4 DEF LastGaveNothing
  <2>2. CASE Take
    <3>1. /\ workflow' = workflow /\ runs' = runs /\ waiting' = waiting /\ waitingNodes' = waitingNodes
          /\ status' = status /\ stack' = Tail(stack) /\ stack # <<>>
          /\ taken' = taken \cup DataOf(Head(stack))
      BY <2>2 DEF Take
    <3>2. Deliveries' = Deliveries
      BY <3>1, DeliveriesNow
    <3>3. /\ Queue.stack = stack /\ stack \in Seq(Items)
          /\ Queue'.stack = Tail(Queue.stack) /\ Queue'.waiting = Queue.waiting
      BY <3>1, StackOK DEF Queue, Inv
    <3>4. InQueue(Queue) \subseteq InQueue(Queue') \cup DataOf(Head(stack))
      <4>1. PICK q : q = Queue
        OBVIOUS
      <4>2. PICK p : p = Queue'
        OBVIOUS
      <4>3. q.stack \in Seq(Items) /\ q.stack # <<>> /\ p.stack = Tail(q.stack) /\ p.waiting = q.waiting
        BY <3>1, <3>3, <4>1, <4>2
      <4>4. InQueue(q) \subseteq InQueue(p) \cup DataOf(Head(q.stack))
        BY <4>3, TailKeeps
      <4> QED
        BY <3>3, <4>1, <4>2, <4>4
    <3>5. PairsWait'
      BY <3>1, <3>2, <3>4, PairsStay
    <3> QED
      BY <3>1, <3>5 DEF LastGaveNothing
  <2>3. CASE Destination
    <3>1. /\ workflow' = workflow /\ Record({}) /\ taken' = taken /\ current # Nothing
          /\ stack' = stack /\ waiting' = waiting /\ waitingNodes' = waitingNodes
          /\ status' = status
      BY <2>3 DEF Destination, queue
    <3>2. Deliveries' = Deliveries /\ runs'[Len(runs')].handed = {}
      BY <3>1, RecordNothing
    <3>3. Queue' = Queue
      BY <3>1 DEF Queue
    <3>4. PairsWait'
      BY <3>1, <3>2, <3>3, PairsStay
    <3> QED
      BY <3>2, <3>4 DEF LastGaveNothing
  <2>4. CASE Fail \/ Wait
    <3>1. /\ workflow' = workflow /\ Record({}) /\ taken' = taken /\ current # Nothing
          /\ stack' = <<current>> \o stack /\ waiting' = waiting /\ waitingNodes' = waitingNodes
      BY <2>4 DEF Fail, Wait, PutBack
    <3>2. Deliveries' = Deliveries /\ runs'[Len(runs')].handed = {}
      BY <3>1, RecordNothing
    <3>3. InQueue(Queue) \subseteq InQueue(Queue')
      <4>1. PICK q : q = Queue
        OBVIOUS
      <4>2. PICK p : p = Queue'
        OBVIOUS
      <4>3. /\ current \in Items /\ q.stack \in Seq(Items)
            /\ p.stack = <<current>> \o q.stack /\ p.waiting = q.waiting
        <5>1. stack \in Seq(Items) /\ current \in Items
          BY <3>1, StackOK DEF Inv, Typing, ItemOK
        <5> QED
          BY <3>1, <4>1, <4>2, <5>1 DEF Queue
      <4>4. InQueue(p) = InQueue(q) \cup DataOf(current)
        BY <4>3, UnshiftData
      <4> QED
        BY <4>1, <4>2, <4>4
    <3>4. PairsWait'
      BY <3>1, <3>2, <3>3, PairsStay
    <3> QED
      BY <3>2, <3>4 DEF LastGaveNothing
  <2>5. CASE Resume \/ \E load \in BOOLEAN : Retry(load)
    <3>1. /\ workflow' = workflow /\ runs' = Front(runs) /\ taken' = taken
          /\ waiting' = waiting /\ waitingNodes' = waitingNodes
          /\ status \in {"waiting", "error"} /\ status' = "running"
      BY <2>5, ResumeFacts
    <3>2. runs \in Seq(Runs) /\ runs # <<>> /\ runs[Len(runs)].handed = {}
      BY <3>1 DEF Inv, Typing, LastGaveNothing
    <3>3. Deliveries' = Deliveries
      BY <3>1, <3>2, DeliveriesNow, DeliveriesFacts
    <3>4. InQueue(Queue') = InQueue(Queue)
      <4>1. PICK q : q = Queue
        OBVIOUS
      <4>2. PICK p : p = Queue'
        OBVIOUS
      <4>3. \A i \in DOMAIN stack : stack[i] \in Items
        BY StackOK DEF Inv, ItemOK
      <4>4. /\ DOMAIN stack' = DOMAIN stack
            /\ \A i \in DOMAIN stack : stack'[i].node = stack[i].node /\ stack'[i].main = stack[i].main
        BY <2>5, <4>3, ResumedStack
      <4>5. SharesNothing(q)
        BY <3>1, <4>1 DEF Inv, NoDoubles, Once
      <4>6. /\ p.waiting = q.waiting /\ DOMAIN p.stack = DOMAIN q.stack
            /\ \A i \in DOMAIN q.stack : p.stack[i].node = q.stack[i].node /\ p.stack[i].main = q.stack[i].main
        BY <3>1, <4>1, <4>2, <4>4 DEF Queue
      <4>7. InQueue(p) = InQueue(q)
        BY <4>5, <4>6, SameData
      <4> QED
        BY <4>1, <4>2, <4>7
    <3>5. PairsWait'
      BY <3>1, <3>3, <3>4, PairsStay
    <3> QED
      BY <3>1, <3>5 DEF LastGaveNothing
  <2>6. CASE \E outputs \in SUBSET OutputsOf(current.node) : Succeed(outputs)
    <3>1. PICK outputs \in SUBSET OutputsOf(current.node) : Succeed(outputs)
      BY <2>6
    <3>2. status' \notin {"waiting", "error"}
      BY <3>1 DEF Succeed, Inv, Typing
    <3> QED
      BY <3>1, <3>2, SucceedPairs DEF LastGaveNothing
  <2> QED
    BY <2>1, <2>2, <2>3, <2>4, <2>5, <2>6 DEF Next
<1> QED
  BY <1>1, <1>2, InvHolds, PTL DEF Spec

\* A set of at most two has no three.
LEMMA AtMostTwo ==
    ASSUME NEW S, IsFiniteSet(S), Cardinality(S) <= 2, NEW d \in S, NEW e \in S, NEW f \in S
    PROVE  d = e \/ e = f \/ d = f
<1> SUFFICES ASSUME d # e, e # f, d # f
             PROVE  FALSE
  OBVIOUS
<1>1. PICK D : D = {d}
  OBVIOUS
<1>2. PICK E : E = D \cup {e}
  OBVIOUS
<1>3. PICK F : F = E \cup {f}
  OBVIOUS
<1>4. e \notin D /\ f \notin E /\ F \subseteq S
  BY <1>1, <1>2, <1>3
<1>5. IsFiniteSet(D) /\ Cardinality(D) = 1
  BY <1>1, FS_Singleton
<1>6. IsFiniteSet(D \cup {e}) /\ Cardinality(D \cup {e}) = Cardinality(D) + 1
  BY <1>4, <1>5, FS_AddElement
<1>7. IsFiniteSet(E) /\ Cardinality(E) = 2
  BY <1>2, <1>5, <1>6
<1>8. Cardinality(E \cup {f}) = Cardinality(E) + 1
  BY <1>4, <1>7, FS_AddElement
<1>9. Cardinality(F) = 3
  BY <1>3, <1>7, <1>8
<1>10. Cardinality(F) <= Cardinality(S)
  BY <1>4, FS_Subset
<1>11. Cardinality(S) \in Nat
  BY FS_CardinalityType
<1> QED
  BY <1>9, <1>10, <1>11

\* There are finitely many deliveries.
LEMMA FiniteDeliveries ==
    ASSUME Inv
    PROVE  IsFiniteSet(Deliveries)
<1> DEFINE of(k) == {c \in Flow.connections : c.from = runs[k].node /\ c.output \in runs[k].handed}
           given(k) == {Delivery(k, c) : c \in of(k)}
           S == {given(k) : k \in DOMAIN runs}
<1>1. Deliveries = UNION S
  BY DEF Deliveries
<1>2. ASSUME NEW k \in DOMAIN runs
      PROVE  IsFiniteSet(given(k))
  <2> DEFINE f == [c \in of(k) |-> Delivery(k, c)]
  <2>1. IsFiniteSet(Flow.connections)
    BY EngineAssumption DEF IsWorkflow, Flow, Inv, Typing
  <2>2. of(k) \subseteq Flow.connections
    OBVIOUS
  <2>3. IsFiniteSet(of(k))
    BY <2>1, <2>2, FS_Subset
  <2>4. f \in Surjection(of(k), given(k))
    BY DEF Surjection
  <2> HIDE DEF of, given, f
  <2> QED
    BY <2>3, <2>4, FS_Surjection
<1> HIDE DEF given
<1>3. IsFiniteSet(S)
  <2> DEFINE g == [k \in DOMAIN runs |-> given(k)]
  <2>1. DOMAIN runs = 1 .. Len(runs) /\ Len(runs) \in Nat
    BY LenProperties DEF Inv, Typing
  <2>2. IsFiniteSet(DOMAIN runs)
    BY <2>1, FS_Interval
  <2>3. g \in Surjection(DOMAIN runs, S)
    BY DEF Surjection
  <2> HIDE DEF g, S
  <2> QED
    BY <2>2, <2>3, FS_Surjection
<1>4. \A T \in S : IsFiniteSet(T)
  BY <1>2
<1> HIDE DEF S
<1> QED
  BY <1>1, <1>3, <1>4, FS_UNION

\* A node with two inputs that get data twice at most loses none of them, in any workflow and in
\* whatever order they come: an entry is completed, or is made at an index that is not in use.
THEOREM PairsAreNeverLost == Spec => []PairsAreKept
<1>1. Inv /\ PairsWait => PairsAreKept
  <2> SUFFICES ASSUME Inv, PairsWait, NEW d \in Deliveries, InputsOf(d[1]) = {0, 1},
                      \A i \in {0, 1} : Cardinality({e \in Deliveries : e[1] = d[1] /\ e[2] = i}) <= 2
               PROVE  Places(d) > 0 \/ d \in taken
    BY DEF PairsAreKept
  <2> DEFINE n == d[1]
             given(i) == {e \in Deliveries : e[1] = d[1] /\ e[2] = i}
  <2>1. /\ workflow \in DOMAIN Definition /\ QueueOK(workflow, resumed, Queue)
        /\ Queue.stack = stack /\ Queue.waiting = waiting
        /\ stack \in Seq(Items) /\ runs \in Seq(Runs)
    BY StackOK DEF Inv, Typing
  <2>2. ASSUME NEW e \in Deliveries
        PROVE  e[1] \in Node /\ e[2] \in Inputs[workflow][e[1]]
    <3>1. PICK k \in DOMAIN runs, c \in Flow.connections : e = Delivery(k, c)
      BY DEF Deliveries
    <3>2. c.to \in Node /\ c.input \in Inputs[workflow][c.to]
      BY <2>1, InputFacts DEF Flow
    <3> QED
      BY <3>1, <3>2 DEF Delivery
  <2>3. n \in Node /\ Inputs[workflow][n] = {0, 1}
    BY <2>2 DEF InputsOf
  <2>4. ASSUME NEW i \in {0, 1}
        PROVE  IsFiniteSet(given(i)) /\ Cardinality(given(i)) <= 2
    <3>1. IsFiniteSet(Deliveries) /\ given(i) \subseteq Deliveries
      BY FiniteDeliveries
    <3>2. IsFiniteSet(given(i))
      BY <3>1, FS_Subset
    <3> QED
      BY <3>2
  <2>5. Few(Deliveries, n)
    <3> SUFFICES ASSUME NEW e \in Deliveries, NEW f \in Deliveries, NEW g \in Deliveries,
                        e[1] = n, f[1] = n, g[1] = n, e[2] = f[2], f[2] = g[2]
                 PROVE  e = f \/ f = g \/ e = g
      BY DEF Few
    <3>1. e[2] \in {0, 1}
      BY <2>2, <2>3
    <3>2. PICK S : S = given(e[2])
      OBVIOUS
    <3>3. e \in S /\ f \in S /\ g \in S
      BY <3>2
    <3>4. IsFiniteSet(S) /\ Cardinality(S) <= 2
      BY <2>4, <3>1, <3>2
    <3> HIDE DEF n, given
    <3> QED
      BY <3>3, <3>4, AtMostTwo
  <2>6. d \in InQueue(Queue) \cup taken
    BY <2>3, <2>5 DEF PairsWait, Pairs, Kept
  <2> HIDE DEF n, given
  <2> DEFINE Has(m, main) == m = d[1] /\ d[2] \in DOMAIN main /\ main[d[2]] = d[3]
             A == {at \in DOMAIN waiting[d[1]] : Has(d[1], waiting[d[1]][at])}
             B == {i \in DOMAIN stack : Has(stack[i].node, stack[i].main)}
             C == IF Has(current.node, current.main) THEN 1 ELSE 0
             D == {k \in DOMAIN runs : Has(runs[k].node, runs[k].main)}
  <2>7. Places(d) = Cardinality(A) + Cardinality(B) + C + Cardinality(D)
    BY DEF Places
  <2>8. ASSUME NEW m, NEW main, d \in Data(m, main)
        PROVE  Has(m, main)
    BY <2>8 DEF Data
  <2>9. IsFiniteSet(A) /\ IsFiniteSet(B) /\ IsFiniteSet(D)
    <3>1. IsFiniteSet(DOMAIN waiting[d[1]])
      BY <2>1, <2>2 DEF QueueOK
    <3>2. /\ DOMAIN stack = 1 .. Len(stack) /\ Len(stack) \in Nat
          /\ DOMAIN runs = 1 .. Len(runs) /\ Len(runs) \in Nat
      BY <2>1, LenProperties
    <3>3. IsFiniteSet(DOMAIN stack) /\ IsFiniteSet(DOMAIN runs)
      BY <3>2, FS_Interval
    <3>4. A \subseteq DOMAIN waiting[d[1]] /\ B \subseteq DOMAIN stack /\ D \subseteq DOMAIN runs
      OBVIOUS
    <3> HIDE DEF A, B, D
    <3>5. IsFiniteSet(A)
      BY <3>1, <3>4, FS_Subset
    <3>6. IsFiniteSet(B)
      BY <3>3, <3>4, FS_Subset
    <3>7. IsFiniteSet(D)
      BY <3>3, <3>4, FS_Subset
    <3> QED
      BY <3>5, <3>6, <3>7
  <2>10. d \in InWaiting(Queue) => A # {}
    <3> SUFFICES ASSUME d \in InWaiting(Queue)
                 PROVE  A # {}
      OBVIOUS
    <3>1. PICK q : q = Queue
      OBVIOUS
    <3>2. PICK at \in DOMAIN q.waiting[d[1]] : d \in Data(d[1], q.waiting[d[1]][at])
      BY <3>1, WaitingData
    <3>3. at \in DOMAIN waiting[d[1]] /\ Has(d[1], waiting[d[1]][at])
      BY <2>1, <2>8, <3>1, <3>2
    <3> HIDE DEF Has
    <3> QED
      BY <3>3
  <2>11. d \in OnStack(Queue) => B # {}
    <3> SUFFICES ASSUME d \in OnStack(Queue)
                 PROVE  B # {}
      OBVIOUS
    <3>1. PICK i \in DOMAIN Queue.stack : d \in DataOf(Queue.stack[i])
      BY DEF OnStack
    <3>2. i \in DOMAIN stack /\ d \in Data(stack[i].node, stack[i].main)
      BY <2>1, <3>1 DEF DataOf, Data
    <3>3. Has(stack[i].node, stack[i].main)
      BY <2>8, <3>2
    <3> HIDE DEF Has
    <3> QED
      BY <3>2, <3>3
  <2>12. C \in Nat
    OBVIOUS
  <2> HIDE DEF A, B, C, D
  <2>13. /\ Cardinality(A) \in Nat /\ (A # {} => Cardinality(A) # 0)
         /\ Cardinality(B) \in Nat /\ (B # {} => Cardinality(B) # 0)
         /\ Cardinality(D) \in Nat
    BY <2>9, FS_CardinalityType, FS_EmptySet
  <2> QED
    BY <2>6, <2>7, <2>10, <2>11, <2>12, <2>13 DEF InQueue
<1> QED
  BY <1>1, InvHolds, PairsWaitHolds, PTL

=============================================================================
