-------------------------- MODULE WorkflowExecute --------------------------
(***************************************************************************)
(* The workflow engine: packages/core/src/execution-engine/workflow-       *)
(* execute.ts, with the execution order "v1".  A loop takes a node from a  *)
(* stack, runs it, and hands its output data to the nodes it is connected  *)
(* to.  A node with several inputs waits until each of them has received   *)
(* data, or until nothing else can run.                                    *)
(*                                                                         *)
(* The items of a list do not matter here: a list is empty (NoData) or     *)
(* named by its source, the output of the run that produced it.            *)
(***************************************************************************)
EXTENDS Integers, FiniteSets, SequencesExt

CONSTANTS Node,
          Trigger,     \* the node to start from
          Definition,  \* workflows by their ids, and what to run of them: see IsWorkflow
          NoNode,      \* no destination, nothing executed
          NoData,      \* null or []: no items
          MaxRuns,     \* bound: runs of nodes that give data
          MaxResumes   \* bound: the execution is resumed or retried

\* connections: [from, output, to, input]; rank: nodes from the top left; allRequired: nodes
\* whose type requires every input; filter: runNodeFilter; destination: destinationNode.
IsWorkflow(w) ==
    /\ w.connections \subseteq [from : Node, output : Nat, to : Node, input : Nat]
    /\ IsFiniteSet(w.connections)
    /\ \A c \in w.connections : c.to = Trigger => c.input = 0
    /\ w.rank \in [Node -> Nat] /\ \A m, n \in Node : w.rank[m] = w.rank[n] => m = n
    /\ w.allRequired \subseteq Node /\ w.filter \subseteq Node
    /\ w.destination \in Node \cup {NoNode}

\* The output of a run; run 0 is what the trigger starts with.
Source == [run : Nat, output : Nat]

ASSUME EngineAssumption ==
    /\ IsFiniteSet(Node) /\ Trigger \in Node /\ NoNode \notin Node /\ NoData \notin Source
    /\ MaxRuns \in Nat /\ MaxResumes \in Nat
    /\ \A id \in DOMAIN Definition : IsWorkflow(Definition[id])

VARIABLES workflow,       \* its id
          stack,          \* nodeExecutionStack
          waiting,        \* waitingExecution: the entries of each node, by index
          waitingNodes,   \* the keys of waitingExecution, in their order
          current,        \* the item whose node is executed
          runs,           \* runData of all nodes, in the order of their executionIndex
          status,
          continued,      \* the last turn of the loop ended by a continue
          resumed,        \* how often the execution was loaded from the database again
          taken           \* history: the data that were taken off the stack

queue == <<stack, waiting, waitingNodes>>
vars == <<workflow, queue, current, runs, status, continued, resumed, taken>>

\* An IExecuteData.  All items of a node share one node object, also after they were saved
\* and loaded (flatted keeps identities); later ones have the node of the workflow.
Item(n, main) == [node |-> n, main |-> main, disabled |-> FALSE, object |-> resumed]
Nothing == [node |-> NoNode, main |-> [i \in {0} |-> NoData], disabled |-> FALSE, object |-> 0]

Flow == Definition[workflow]
OutputsOf(n) == {c.output : c \in {d \in Flow.connections : d.from = n}}
Inputs == [id \in DOMAIN Definition |-> [n \in Node |->
              0 .. Max({0} \cup {c.input : c \in {d \in Definition[id].connections : d.to = n}})]]
InputsOf(n) == Inputs[workflow][n]

\* All nodes from which connections lead to a node: the least set that has the parents of the
\* node, and the parents of its elements.
Above == [id \in DOMAIN Definition |->
    LET Parents(n) == {c.from : c \in {d \in Definition[id].connections : d.to = n}}
    IN  [n \in Node |-> {p \in Node : \A above \in SUBSET Node :
            Parents(n) \subseteq above /\ (\A m \in above : Parents(m) \subseteq above) => p \in above}]]

\* Mutant: only the nodes that are connected to it.
DirectParents(n) == {d.from : d \in {e \in Flow.connections : e.to = n}} \ {n}

ParentNodes(n) == Above[workflow][n] \ {n}

\* run() of a trigger, or of the nodes that a destination needs.
Init ==
    /\ workflow \in DOMAIN Definition
    /\ resumed = 0
    /\ stack = <<Item(Trigger, [i \in {0} |-> [run |-> 0, output |-> 0]])>>
    /\ waiting = [n \in Node |-> <<>>]
    /\ waitingNodes = <<>>
    /\ current = Nothing
    /\ runs = <<>>
    /\ status = "running"
    /\ continued = FALSE
    /\ taken = {}

----------------------------------------------------------------------------
(* Handing on the data.  A queue is a record of the three variables.       *)

Queue == [stack |-> stack, waiting |-> waiting, nodes |-> waitingNodes]
SetQueue(q) == stack' = q.stack /\ waiting' = q.waiting /\ waitingNodes' = q.nodes

Unshift(q, item) == [stack |-> <<item>> \o q.stack, waiting |-> q.waiting, nodes |-> q.nodes]

\* Mutant: the node stays with no entry.
RemoveEntryOnly(q, n, at) ==
    [q EXCEPT !.waiting[n] = [i \in DOMAIN @ \ {at} |-> q.waiting[n][i]]]

\* An entry leaves waitingExecution, and its node with its last entry.
RemoveEntry(q, n, at) ==
    LET left == [i \in DOMAIN q.waiting[n] \ {at} |-> q.waiting[n][i]]
    IN  [stack |-> q.stack, waiting |-> [q.waiting EXCEPT ![n] = left],
         nodes |-> IF DOMAIN left = {} THEN RemoveFirst(q.nodes, n) ELSE q.nodes]

SetEntry(q, n, at, main) ==
    LET entries == [i \in DOMAIN q.waiting[n] \cup {at} |->
                       IF i = at THEN main ELSE q.waiting[n][i]]
    IN  [stack |-> q.stack, waiting |-> [q.waiting EXCEPT ![n] = entries],
         nodes |-> IF DOMAIN q.waiting[n] = {} THEN Append(q.nodes, n) ELSE q.nodes]

\* Mutant: one entry for a node.
OneEntry(entries) == 0

\* The index of a new entry is the number of entries.
NewIndex(entries) == Cardinality(DOMAIN entries)

\* addNodeToBeExecuted(): the data go to the first entry that lacks this input.
AddNodeToBeExecuted(q, c, run) ==
    LET n == c.to
        source == [run |-> run, output |-> c.output]
        entries == q.waiting[n]
        lacking == {i \in DOMAIN entries : entries[i][c.input] = NoData}
        at == IF lacking = {} THEN NewIndex(entries) ELSE Min(lacking)
        main == [i \in InputsOf(n) |-> CASE i = c.input -> source
                                         [] i # c.input /\ lacking = {} -> NoData
                                         [] OTHER -> entries[at][i]]
    IN  IF Cardinality(InputsOf(n)) = 1
        THEN Unshift(q, Item(n, main))
        ELSE IF \A i \in InputsOf(n) : main[i] # NoData
             THEN Unshift(RemoveEntry(q, n, at), Item(n, main))
             ELSE SetEntry(q, n, at, main)

\* The order of nodesToAdd: bottom right first, and for one node output by output.
ComesBefore(c, d) ==
    \/ Flow.rank[c.to] > Flow.rank[d.to]
    \/ /\ c.to = d.to
       /\ c.output < d.output \/ (c.output = d.output /\ c.input < d.input)

\* nodesToAdd: the connections of the outputs with data.
NodesToAdd(n, outputs) ==
    LET added == {c \in Flow.connections : c.from = n /\ c.output \in outputs}
        Place(c) == Cardinality({d \in added : ComesBefore(d, c)}) + 1
    IN  [k \in 1 .. Cardinality(added) |-> CHOOSE c \in added : Place(c) = k]

HandOn(q, n, outputs, run) ==
    LET added == NodesToAdd(n, outputs)
        after[k \in 0 .. Len(added)] ==
            IF k = 0 THEN q ELSE AddNodeToBeExecuted(after[k - 1], added[k], run)
    IN  after[Len(added)]

\* A waiting node may run without some inputs, and none of its parents waits.
MayRun(q, n) ==
    n \notin Flow.allRequired /\ \A j \in DOMAIN q.nodes : q.nodes[j] \notin ParentNodes(n)

\* Mutant: only the first waiting node is looked at.
FirstReady(q) == {i \in DOMAIN q.nodes \cap {1} : MayRun(q, q.nodes[i])}

Ready(q) == {i \in DOMAIN q.nodes : MayRun(q, q.nodes[i])}

\* The indices of the entries are sorted as strings, "10" before "2": their digits padded to
\* four, the shorter one first (exact for less than ten thousand entries).
Key(i) == IF i < 10 THEN 10000 * i
          ELSE IF i < 100 THEN 1000 * i + 1
          ELSE IF i < 1000 THEN 100 * i + 2 ELSE 10 * i + 3

FirstKey(S) == CHOOSE i \in S : \A j \in S : Key(i) <= Key(j)

\* With nothing on the stack, the first waiting node that may run does so.
ReleaseWaiting(q) ==
    IF q.stack # <<>> \/ Ready(q) = {}
    THEN q
    ELSE LET n == q.nodes[Min(Ready(q))]
             at == FirstKey(DOMAIN q.waiting[n])
         IN  Unshift(RemoveEntry(q, n, at), Item(n, q.waiting[n][at]))

----------------------------------------------------------------------------
(* The loop of processRunExecutionData().                                  *)

DataOf(item) ==
    {<<item.node, i, item.main[i]>> : i \in {j \in DOMAIN item.main : item.main[j] # NoData}}

\* The next node.  One that is not in runNodeFilter is skipped.
Take ==
    /\ status = "running" /\ current = Nothing /\ stack # <<>>
    /\ stack' = Tail(stack)
    /\ taken' = taken \cup DataOf(Head(stack))
    /\ IF Head(stack).node \in Flow.filter
       THEN current' = Head(stack) /\ UNCHANGED continued
       ELSE continued' = TRUE /\ UNCHANGED current
    /\ UNCHANGED <<workflow, waiting, waitingNodes, runs, status, resumed>>

\* The node returns null: its branch ends, without a run.
ReturnNull ==
    /\ current # Nothing /\ ~current.disabled
    /\ current' = Nothing
    /\ continued' = TRUE
    /\ UNCHANGED <<workflow, queue, runs, status, resumed, taken>>

\* A run is recorded, with the outputs that are handed on.
Record(outputs) == runs' = Append(runs, [node |-> current.node, main |-> current.main,
                                         handed |-> outputs])

\* The node has data for some of its outputs, or for none.  A disabled node passes its
\* first input on.
Succeed(outputs) ==
    /\ current # Nothing /\ current.node # Flow.destination
    /\ outputs # {} => Len(runs) < MaxRuns
    /\ current.disabled => outputs = IF current.main[0] = NoData THEN {}
                                     ELSE OutputsOf(current.node) \cap {0}
    /\ Record(outputs)
    /\ SetQueue(ReleaseWaiting(HandOn(Queue, current.node, outputs, Len(runs) + 1)))
    /\ current' = Nothing
    /\ continued' = FALSE
    /\ UNCHANGED <<workflow, status, resumed, taken>>

\* After the destination no node is added.
Destination ==
    /\ current # Nothing /\ current.node = Flow.destination
    /\ Record({})
    /\ current' = Nothing
    /\ continued' = TRUE
    /\ UNCHANGED <<workflow, queue, status, resumed, taken>>

PutBack == stack' = <<current>> \o stack /\ UNCHANGED <<waiting, waitingNodes>>

\* The node fails: it is put back, for a retry of the execution.
Fail ==
    /\ current # Nothing /\ ~current.disabled
    /\ Record({})
    /\ PutBack
    /\ status' = "error"
    /\ current' = Nothing
    /\ UNCHANGED <<workflow, continued, resumed, taken>>

\* The node has set waitTill: it is put back, and the loop ends.
Wait ==
    /\ current # Nothing /\ ~current.disabled /\ resumed < MaxResumes
    /\ Record({})
    /\ PutBack
    /\ status' = IF status = "canceled" THEN "canceled" ELSE "waiting"
    /\ current' = Nothing
    /\ UNCHANGED <<workflow, continued, resumed, taken>>

\* Mutant: the run of the node that waited is kept.
ResumeKeepsRun ==
    /\ status = "waiting"
    /\ status' = "running"
    /\ stack' = [stack EXCEPT ![1].disabled = TRUE]
    /\ resumed' = resumed + 1
    /\ UNCHANGED <<workflow, waiting, waitingNodes, current, runs, continued, taken>>

\* handleWaitingState(): the node that waited, which is first, will pass its input on, and
\* its run is taken back.
Resume ==
    /\ status = "waiting"
    /\ status' = "running"
    /\ stack' = [i \in DOMAIN stack |->
                   IF stack[i].node = stack[1].node /\ stack[i].object = stack[1].object
                   THEN [stack[i] EXCEPT !.disabled = TRUE]
                   ELSE stack[i]]
    /\ runs' = Front(runs)
    /\ resumed' = resumed + 1
    /\ UNCHANGED <<workflow, waiting, waitingNodes, current, continued, taken>>

\* retry() of an execution that failed, with the saved workflow or (load) the current one,
\* whose nodes replace those of the stack.
Retry(load) ==
    /\ status = "error" /\ resumed < MaxResumes
    /\ status' = "running"
    /\ stack' = IF load THEN [i \in DOMAIN stack |->
                                 [stack[i] EXCEPT !.disabled = FALSE, !.object = resumed + 1]]
                ELSE stack
    /\ runs' = Front(runs)
    /\ resumed' = resumed + 1
    /\ UNCHANGED <<workflow, waiting, waitingNodes, current, continued, taken>>

\* The execution is cancelled, or times out.  The node that runs is not interrupted.
Cancel ==
    /\ status = "running"
    /\ status' = "canceled"
    /\ UNCHANGED <<workflow, queue, current, runs, continued, resumed, taken>>

\* The stack is empty.
Finish ==
    /\ status = "running" /\ current = Nothing /\ stack = <<>>
    /\ status' = "success"
    /\ UNCHANGED <<workflow, queue, current, runs, continued, resumed, taken>>

Next ==
    \/ Take \/ ReturnNull \/ Destination \/ Fail \/ Wait \/ Resume \/ Cancel \/ Finish
    \/ \E outputs \in SUBSET OutputsOf(current.node) : Succeed(outputs)
    \/ \E load \in BOOLEAN : Retry(load)

Spec == Init /\ [][Next]_vars

----------------------------------------------------------------------------
(* Properties.                                                             *)

\* Types of the variables; a key of waitingExecution has an entry.
TypeOK ==
    LET IsMain(n, main) == DOMAIN main = InputsOf(n) /\ Range(main) \subseteq Source \cup {NoData}
        IsItem(m) == /\ m.node \in Node /\ m.disabled \in BOOLEAN /\ m.object \in 0 .. resumed
                     /\ IsMain(m.node, m.main)
    IN  /\ workflow \in DOMAIN Definition
        /\ \A i \in DOMAIN stack : IsItem(stack[i])
        /\ \A n \in Node : \A at \in DOMAIN waiting[n] : IsMain(n, waiting[n][at])
        /\ Range(waitingNodes) = {n \in Node : DOMAIN waiting[n] # {}}
        /\ IsInjective(waitingNodes)
        /\ current = Nothing \/ IsItem(current)
        /\ \A k \in DOMAIN runs : runs[k].handed \subseteq OutputsOf(runs[k].node)
        /\ status \in {"running", "success", "waiting", "canceled", "error"}
        /\ resumed \in 0 .. MaxResumes

Acyclic == \A n \in Node : n \notin Above[workflow][n]

\* What run k produced for an input, <<node, input, source>>, and what all runs did.
Delivery(k, c) == <<c.to, c.input, [run |-> k, output |-> c.output]>>
Deliveries ==
    UNION {{Delivery(k, c) :
                c \in {d \in Flow.connections : d.from = runs[k].node /\ d.output \in runs[k].handed}}
           : k \in DOMAIN runs}

\* The places where a delivery is: how often it waits, is on the stack, runs or has run.
Places(d) ==
    LET Has(n, main) == n = d[1] /\ d[2] \in DOMAIN main /\ main[d[2]] = d[3]
    IN  Cardinality({at \in DOMAIN waiting[d[1]] : Has(d[1], waiting[d[1]][at])})
        + Cardinality({i \in DOMAIN stack : Has(stack[i].node, stack[i].main)})
        + (IF Has(current.node, current.main) THEN 1 ELSE 0)
        + Cardinality({k \in DOMAIN runs : Has(runs[k].node, runs[k].main)})

\* The data a node gave to another are used once: whether they wait for other inputs, for
\* their turn, or across a wait or a failure of the node, no second run gets them.
DeliveredOnce == status \in {"running", "success"} => \A d \in Deliveries : Places(d) <= 1

\* A node with two inputs that get data twice at most, from any branch and in any order,
\* loses none of them: what does not run yet is waiting.
PairsAreKept ==
    \A d \in Deliveries :
        /\ InputsOf(d[1]) = {0, 1}
        /\ \A i \in {0, 1} : Cardinality({e \in Deliveries : e[1] = d[1] /\ e[2] = i}) <= 2
        => Places(d) > 0 \/ d \in taken

\* "create a new entry": an input that has data already gets an entry of its own, and what
\* the others hold is kept.  The code's index for it may be in use.
InputsAreKept == \A d \in Deliveries : Places(d) > 0 \/ d \in taken

\* Without cycles, a node that runs although an input has no data would never have got any:
\* nothing is delivered to that input later.
NoLateInputs ==
    Acyclic => \A k \in DOMAIN runs : \A i \in DOMAIN runs[k].main :
        runs[k].main[i] = NoData =>
            \A d \in Deliveries : d[1] = runs[k].node /\ d[2] = i => d[3].run < k

\* Nodes that may run without some inputs do run, in a workflow without cycles and if the
\* last turn did not end early: a successful execution leaves nothing waiting.
NothingLeftBehind ==
    status = "success" /\ ~continued /\ Acyclic /\ Flow.allRequired = {} => waitingNodes = <<>>
=============================================================================
