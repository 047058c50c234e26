------------------------ MODULE MCWorkflowExecute ------------------------
(* Workflows for TLC to run with WorkflowExecute. *)
EXTENDS WorkflowExecute

CONSTANTS t, a, b, c, m, none, nodata

C(from, output, to, input) == [from |-> from, output |-> output, to |-> to, input |-> input]

\* A whole workflow, its nodes from the top to the bottom.
Whole(connections, order) ==
    [connections |-> connections, rank |-> [n \in Node |-> CHOOSE i \in DOMAIN order : order[i] = n],
     allRequired |-> {}, filter |-> Node, destination |-> NoNode]

\* Two branches that meet in m, with or without connections past and between them.
Branches == {C(t, 0, a, 0), C(t, 1, b, 0), C(b, 0, m, 1)}
Between == <<C(t, 0, m, 0), C(t, 1, m, 1), C(t, 0, b, 0), C(a, 0, m, 0), C(a, 0, m, 1), C(b, 0, m, 0)>>
Meeting(i) ==
    Whole(Branches \cup {Between[k] : k \in {j \in DOMAIN Between : (i \div 2 ^ (j - 1)) % 2 = 1}},
          <<t, a, b, c, m>>)

\* The node c waits for a, which comes after m, which waits for the trigger.
Chain == Whole({C(t, 0, m, 0), C(t, 1, m, 1), C(t, 0, c, 0), C(m, 0, a, 0), C(a, 0, c, 1)}, <<t, a, b, m, c>>)

\* Both outputs of a node lead to the same one.
Twice == Whole({C(t, 0, a, 0), C(t, 1, a, 0), C(a, 0, b, 0)}, <<t, a, b, c, m>>)

\* A loop, with a node after it, and two nodes in a cycle that wait for each other.
Loop == Whole({C(t, 0, a, 0), C(a, 0, b, 0), C(b, 0, a, 0), C(a, 1, c, 0)}, <<t, a, b, c, m>>)
Cycle == Whole({C(t, 0, m, 0), C(c, 0, m, 1), C(t, 0, c, 0), C(m, 0, c, 1)}, <<t, a, b, m, c>>)

\* Up to the node m: a node beside its branches is on the stack and skipped.
Partly == [Whole({C(t, 0, a, 0), C(t, 0, b, 0), C(a, 0, m, 0), C(m, 0, c, 0)}, <<t, a, m, c, b>>)
             EXCEPT !.filter = {t, a, m}, !.destination = m]

\* A node that never runs without all its inputs.
Required == [Chain EXCEPT !.allRequired = {m}]

Special == <<Chain, Twice, Loop, Cycle, Partly, Required>>
SmallWorkflows == [i \in 1 .. 64 + Len(Special) |-> IF i <= 64 THEN Meeting(i) ELSE Special[i - 64]]

\* Three branches lead into the first input of m, and one into the second.
ManyBranches == <<Whole({C(t, 0, m, 0), C(t, 0, a, 0), C(t, 0, b, 0), C(t, 0, c, 0),
                         C(a, 0, m, 0), C(b, 0, m, 1), C(c, 0, m, 0)}, <<t, a, b, c, m>>)>>
==========================================================================
