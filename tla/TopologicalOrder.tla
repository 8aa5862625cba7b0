------------------------- MODULE TopologicalOrder -------------------------
(***************************************************************************)
(* get_topological_ordering(g): the order in which every backend issues    *)
(* the invocations of a lowered graph.  It asserts is_acyclic(g), a        *)
(* depth-first search that colours the nodes, and then walks g with the    *)
(* unchecked depth-first iterator, which keeps an explicit stack, moves a  *)
(* node that is reached again to the top, and is told to skip a node some  *)
(* predecessor of which has not been listed yet.  A skipped node is gone   *)
(* from the stack: that it comes back in time is what the properties say.  *)
(* The order in which a std::set is walked is the order of the node ids,   *)
(* which carry no meaning; it is left open here.                           *)
(***************************************************************************)
EXTENDS Integers, Sequences, FiniteSets

CONSTANTS Graphs      \* the graphs to be ordered: [nodes, edges], an edge is <<src, dst>>

GraphsAssumption ==
    \A g \in Graphs : IsFiniteSet(g.nodes) /\ g.edges \subseteq g.nodes \X g.nodes
ASSUME GraphsAssumption

VARIABLES
    graph,      \* the graph, never changed
    pc,         \* "checking", "cyclic" (the assertion failed), "ordering", "ordered"
    roots,      \* nodes the outer loop of is_acyclic has not come to
    calls,      \* calls of cycle_downstream_from_node, innermost last: [node, left]
    explored,   \* FULLY_EXPLORED nodes, in the order in which they became so
    stack,      \* unchecked_dfs_iterator::stack, top last
    pending,    \* successors the running ++ has still to push
    order       \* the result; its elements are the set `seen'

checkVars == <<roots, calls, explored>>
orderVars == <<stack, pending, order>>
vars == <<graph, pc, roots, calls, explored, stack, pending, order>>

Elements(s) == {s[i] : i \in 1..Len(s)}
Succ(n) == {m \in graph.nodes : <<n, m>> \in graph.edges}
Pred(n) == {m \in graph.nodes : <<m, n>> \in graph.edges}
InitialNodes == {n \in graph.nodes : Pred(n) = {}}

BeingExplored == {calls[i].node : i \in 1..Len(calls)}
FullyExplored == Elements(explored)
NotExplored(n) == n \notin BeingExplored \cup FullyExplored

(***************************************************************************)
(* is_acyclic                                                              *)
(***************************************************************************)
Call(n) == [node |-> n, left |-> Succ(n)]
Top == calls[Len(calls)]
Pop(s) == SubSeq(s, 1, Len(s) - 1)
AdvancePast(m) == [calls EXCEPT ![Len(calls)].left = @ \ {m}]

\* The outer loop comes to node n and explores it unless that was done already.
VisitRoot(n) ==
    /\ pc = "checking" /\ calls = <<>> /\ n \in roots
    /\ roots' = roots \ {n}
    /\ calls' = IF NotExplored(n) THEN <<Call(n)>> ELSE calls
    /\ UNCHANGED <<graph, pc, explored, orderVars>>

\* The loop over the successors of the innermost node: recurse into an
\* unexplored one, pass over a fully explored one.
ExploreSuccessor(m) ==
    /\ pc = "checking" /\ calls # <<>> /\ m \in Top.left
    /\ m \notin BeingExplored
    /\ calls' = IF NotExplored(m) THEN Append(AdvancePast(m), Call(m)) ELSE AdvancePast(m)
    /\ UNCHANGED <<graph, pc, roots, explored, orderVars>>

\* A successor that is being explored: every call returns true, is_acyclic
\* false, and the assertion stops the program.
\* Mutant: every coloured successor is taken for a cycle.
FindColoured(m) ==
    /\ pc = "checking" /\ calls # <<>> /\ m \in Top.left
    /\ ~NotExplored(m)
    /\ pc' = "cyclic"
    /\ UNCHANGED <<graph, checkVars, orderVars>>
FindCycle(m) ==
    /\ pc = "checking" /\ calls # <<>> /\ m \in Top.left
    /\ m \in BeingExplored
    /\ pc' = "cyclic"
    /\ UNCHANGED <<graph, checkVars, orderVars>>

FinishNode ==
    /\ pc = "checking" /\ calls # <<>> /\ Top.left = {}
    /\ explored' = Append(explored, Top.node)
    /\ calls' = Pop(calls)
    /\ UNCHANGED <<graph, pc, roots, orderVars>>

(***************************************************************************)
(* get_unchecked_topological_ordering                                      *)
(***************************************************************************)
StartOrdering ==
    /\ pc = "checking" /\ calls = <<>> /\ roots = {}
    /\ pc' = "ordering"
    /\ pending' = InitialNodes
    /\ UNCHANGED <<graph, checkVars, stack, order>>

EraseAt(s, i) == [k \in 1..(Len(s) - 1) |-> IF k < i THEN s[k] ELSE s[k + 1]]
\* Mutant: a node that is reached again keeps its old place too.
EraseNothing(s, n) == s
Erase(s, n) == IF \E i \in 1..Len(s) : s[i] = n
               THEN EraseAt(s, CHOOSE i \in 1..Len(s) : s[i] = n) ELSE s

\* One round of the loop of operator++: the successor moves to the top.
PushSuccessor(n) ==
    /\ pc = "ordering" /\ n \in pending
    /\ stack' = Append(Erase(stack, n), n)
    /\ pending' = pending \ {n}
    /\ UNCHANGED <<graph, pc, checkVars, order>>

Current == stack[Len(stack)]
AllPredecessorsSeen(n) == Pred(n) \subseteq Elements(order)

VisitNode ==
    /\ pc = "ordering" /\ pending = {} /\ stack # <<>>
    /\ AllPredecessorsSeen(Current)
    /\ order' = Append(order, Current)
    /\ stack' = Pop(stack)
    /\ pending' = Succ(Current)
    /\ UNCHANGED <<graph, pc, checkVars>>

SkipNode ==
    /\ pc = "ordering" /\ pending = {} /\ stack # <<>>
    /\ ~AllPredecessorsSeen(Current)
    /\ stack' = Pop(stack)
    /\ UNCHANGED <<graph, pc, checkVars, pending, order>>

ReturnOrder ==
    /\ pc = "ordering" /\ pending = {} /\ stack = <<>>
    /\ pc' = "ordered"
    /\ UNCHANGED <<graph, checkVars, orderVars>>

-----------------------------------------------------------------------------
Init ==
    /\ graph \in Graphs
    /\ pc = "checking"
    /\ roots = graph.nodes
    /\ calls = <<>> /\ explored = <<>>
    /\ stack = <<>> /\ pending = {} /\ order = <<>>

Check == \/ \E n \in graph.nodes : VisitRoot(n) \/ ExploreSuccessor(n) \/ FindCycle(n)
         \/ FinishNode

Order == \/ StartOrdering
         \/ \E n \in graph.nodes : PushSuccessor(n)
         \/ VisitNode \/ SkipNode
         \/ ReturnOrder

Next == Check \/ Order

Spec == Init /\ [][Next]_vars

-----------------------------------------------------------------------------
\* The types of the variables.
TypeOK ==
    /\ graph.edges \subseteq graph.nodes \X graph.nodes
    /\ pc \in {"checking", "cyclic", "ordering", "ordered"}
    /\ roots \subseteq graph.nodes
    /\ calls \in Seq([node : graph.nodes, left : SUBSET graph.nodes])
    /\ explored \in Seq(graph.nodes)
    /\ stack \in Seq(graph.nodes)
    /\ pending \subseteq graph.nodes
    /\ order \in Seq(graph.nodes)

\* A set of nodes around which one can go on forever: what a cycle is, without
\* naming a path.
EachHasSuccessorIn(S) == \A n \in S : \E m \in S : <<n, m>> \in graph.edges
Cyclic == \E S \in SUBSET graph.nodes : S # {} /\ EachHasSuccessorIn(S)

\* is_acyclic answers correctly: it fails the assertion of
\* get_topological_ordering only for a graph with a cycle, and lets only
\* acyclic graphs through to a walk that would silently drop the nodes of a cycle.
VerdictIsRight ==
    /\ pc = "cyclic" => Cyclic
    /\ pc \in {"ordering", "ordered"} => ~Cyclic

\* The returned vector lists every node exactly once, after all its
\* predecessors, although the walk throws away each node it meets too early.
OrderIsTopological ==
    pc = "ordered" =>
        /\ Elements(order) = graph.nodes
        /\ \A i, j \in 1..Len(order) : order[i] = order[j] => i = j
        /\ \A i, j \in 1..Len(order) : <<order[i], order[j]>> \in graph.edges => i < j
=============================================================================
