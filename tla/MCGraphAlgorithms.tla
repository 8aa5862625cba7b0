------------------------- MODULE MCGraphAlgorithms -------------------------
(***************************************************************************)
(* The graph algorithms on every graph with at most three nodes (self      *)
(* loops and cycles included), on every acyclic graph with four nodes,     *)
(* numbered in every way, and on the acyclic graphs with five nodes and    *)
(* one input and one output, numbered along the edges.                     *)
(***************************************************************************)
EXTENDS SPDecomposition

CONSTANTS SmallSize, DagSize, FlowSize

AnyGraph(n) == [nodes : {1..n}, edges : SUBSET ((1..n) \X (1..n))]

Forward(n) == {p \in (1..n) \X (1..n) : p[1] < p[2]}
OrderedDags(n) == [nodes : {1..n}, edges : SUBSET Forward(n)]
FlowGraphs(n) == {g \in OrderedDags(n) :
                    /\ \A m \in 2..n : \E e \in g.edges : e[2] = m
                    /\ \A m \in 1..(n - 1) : \E e \in g.edges : e[1] = m}

Renumbered(g, f) == [g EXCEPT !.edges = {<<f[e[1]], f[e[2]]>> : e \in @}]
Numberings(n) == {f \in [1..n -> 1..n] : \A i, j \in 1..n : f[i] = f[j] => i = j}

MCGraphs ==
    UNION {AnyGraph(n) : n \in 0..SmallSize}
    \cup {Renumbered(g, f) : g \in OrderedDags(DagSize), f \in Numberings(DagSize)}
    \cup FlowGraphs(FlowSize)
=============================================================================
