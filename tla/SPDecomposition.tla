-------------------------- MODULE SPDecomposition --------------------------
(***************************************************************************)
(* get_series_parallel_decomposition(g), on which the compiler's machine   *)
(* mapping rests: it reduces g transitively, inverts the line graph of the *)
(* result (the layers become the edges of a two-terminal multigraph), and  *)
(* then applies parallel and series reductions to that multigraph, in      *)
(* rounds, until one edge is left, whose tree is the answer, or nothing    *)
(* applies.  The reductions of a round are found all at once and applied   *)
(* one after the other to a multigraph the earlier ones have changed.      *)
(*                                                                         *)
(* An edge of the multigraph carries its entry of ttsp_edge_to_sp_tree.    *)
(* Nodes are numbers, in the order of std::set<Node>.                      *)
(***************************************************************************)
EXTENDS TopologicalOrder, SequencesExt

NodesAssumption == \A g \in Graphs : g.nodes \subseteq Nat \ {0}
ASSUME NodesAssumption

VARIABLES
    spPc,       \* "waiting", "parallel", "series", "decomposed", "not_sp"
    ttsp,       \* the multigraph: a set of [src, dst, tree]
    reductions, \* reductions found in this half of the round and not applied yet
    reduced     \* reduction_has_happened

spVars == <<spPc, ttsp, reductions, reduced>>
allVars == <<vars, spVars>>

(***************************************************************************)
(* transitive_reduction, with its loops over an adjacency matrix that is   *)
(* read and cleared in place                                               *)
(***************************************************************************)
Pairs(g) == g.nodes \X g.nodes
MaxNode(g) == Max(g.nodes \cup {0})

Closure(g) ==
    LET add == [k \in Nat |-> [M \in SUBSET Pairs(g) |->
                   M \cup {p \in Pairs(g) : <<p[1], k>> \in M /\ <<k, p[2]>> \in M}]]
        through[k \in 0..MaxNode(g)] == IF k = 0 THEN g.edges ELSE add[k][through[k - 1]]
    IN  through[MaxNode(g)]

\* The innermost loop: the edges of i that the two-step paths over j imply.
\* Mutant: the edge from i to j is not asked for.
ClearAll(M, j, i) == {p \in M : ~(p[1] = i /\ <<j, p[2]>> \in M)}
ClearImplied(M, j, i) ==
    IF <<i, j>> \in M THEN {p \in M : ~(p[1] = i /\ <<j, p[2]>> \in M)} ELSE M

ReducedMatrix(g) ==
    LET n == MaxNode(g)
        clear(j) == [i \in Nat |-> [M \in SUBSET Pairs(g) |-> ClearImplied(M, j, i)]]
        rows(M, j) == LET row[i \in 0..n] == IF i = 0 THEN M ELSE clear(j)[i][row[i - 1]]
                      IN  row[n]
        clearOver == [j \in Nat |-> [M \in SUBSET Pairs(g) |-> rows(M, j)]]
        over[j \in 0..n] == IF j = 0 THEN Closure(g) ELSE clearOver[j][over[j - 1]]
    IN  over[n]

transitive_reduction(g) == [nodes |-> g.nodes, edges |-> g.edges \cap ReducedMatrix(g)]

(***************************************************************************)
(* get_cbc_decomposition and get_inverse_line_graph                        *)
(***************************************************************************)
Preds(g, n) == {m \in g.nodes : <<m, n>> \in g.edges}
Succs(g, n) == {m \in g.nodes : <<n, m>> \in g.edges}

Component(g, e) == [head |-> Preds(g, e[2]), tail |-> Succs(g, e[1])]

IsCompleteBipartite(g, c) ==
    /\ c.head \cap c.tail = {}
    /\ g.edges \cap ((c.head \cup c.tail) \X (c.head \cup c.tail)) = c.head \X c.tail
    /\ \A e \in g.edges : e[1] \in c.head <=> e[2] \in c.tail

Components(g) == {Component(g, e) : e \in g.edges}
HasCbcDecomposition(g) == \A c \in Components(g) : IsCompleteBipartite(g, c)

\* The terminals of the line graph's inverse, and the ends of the edge of a node.
Alpha(g) == [head |-> {}, tail |-> {n \in g.nodes : Preds(g, n) = {}}]
Omega(g) == [head |-> {n \in g.nodes : Succs(g, n) = {}}, tail |-> {}]
LineNodes(g) == Components(g) \cup {Alpha(g), Omega(g)}
SrcForNode(g, n) == CHOOSE c \in LineNodes(g) : n \in c.tail
DstForNode(g, n) == CHOOSE c \in LineNodes(g) : n \in c.head

InverseLineGraph(g) ==
    {[src |-> SrcForNode(g, n), dst |-> DstForNode(g, n), tree |-> [leaf |-> n]] : n \in g.nodes}

(***************************************************************************)
(* Trees: a leaf, a series split (a sequence) or a parallel split, whose   *)
(* multiset of children is a set because no node occurs twice              *)
(***************************************************************************)
IsSeries(t) == DOMAIN t = {"series"}
IsParallel(t) == DOMAIN t = {"parallel"}

series_composition(ts) ==
    [series |-> FlattenSeq([i \in DOMAIN ts |->
                               IF IsSeries(ts[i]) THEN ts[i].series ELSE <<ts[i]>>])]

parallel_composition(ts) ==
    [parallel |-> UNION {IF IsParallel(t) THEN t.parallel ELSE {t} : t \in ts}]

(***************************************************************************)
(* The reductions                                                          *)
(***************************************************************************)
EdgesFrom(v) == {e \in ttsp : e.src = v}
EdgesInto(v) == {e \in ttsp : e.dst = v}
\* No node is left without edges, save the two terminals of an empty graph.
TtspNodes == {e.src : e \in ttsp} \cup {e.dst : e \in ttsp}

\* Mutant: only pairs of parallel edges are merged.
PairReductions(edges) ==
    {r \in {{f \in edges : f.src = e.src /\ f.dst = e.dst} : e \in edges} : Cardinality(r) = 2}
ParallelReductions(edges) ==
    {r \in {{f \in edges : f.src = e.src /\ f.dst = e.dst} : e \in edges} : Cardinality(r) > 1}

\* A node inside a strand has one edge in and one edge out; a strand begins at
\* such a node whose predecessor is not one, and follows them as far as it can.
InsideStrand(v) == Cardinality(EdgesInto(v)) = 1 /\ Cardinality(EdgesFrom(v)) = 1
StrandHeads == {e \in ttsp : InsideStrand(e.dst) /\ ~InsideStrand(e.src)}

Strand(e) ==
    LET extend[s \in Seq(ttsp)] ==
            IF InsideStrand(Last(s).dst)
            THEN Append(s, CHOOSE f \in EdgesFrom(Last(s).dst) : TRUE) ELSE s
        follow[n \in 0..Cardinality(ttsp)] == IF n = 0 THEN <<e>> ELSE extend[follow[n - 1]]
    IN  follow[Cardinality(ttsp)]

SeriesReductions == {Strand(e) : e \in StrandHeads}

-----------------------------------------------------------------------------
StartDecomposition ==
    /\ pc = "ordered" /\ spPc = "waiting"
    /\ \E g \in {transitive_reduction(graph)} :
          IF HasCbcDecomposition(g)
          THEN spPc' = "parallel" /\ ttsp' = InverseLineGraph(g)
          ELSE spPc' = "not_sp" /\ ttsp' = {}
    /\ reductions' = ParallelReductions(ttsp')
    /\ UNCHANGED <<reduced, vars>>

\* perform_extended_parallel_reduction
ReduceParallel ==
    /\ spPc = "parallel"
    /\ \E r \in reductions :
          LET kept == CHOOSE e \in r : TRUE
          IN  /\ reductions' = reductions \ {r}
              /\ ttsp' = (ttsp \ r)
                     \cup {[kept EXCEPT !.tree = parallel_composition({e.tree : e \in r})]}
    /\ reduced' = TRUE
    /\ UNCHANGED <<spPc, vars>>

FindSeriesReductions ==
    /\ spPc = "parallel" /\ reductions = {}
    /\ spPc' = "series"
    /\ reductions' = SeriesReductions
    /\ UNCHANGED <<ttsp, reduced, vars>>

\* perform_extended_series_reduction: the inner nodes go, with their edges.
ReduceSeries ==
    /\ spPc = "series"
    /\ \E r \in reductions :
          LET inner == {r[i].dst : i \in 1..(Len(r) - 1)}
          IN  /\ reductions' = reductions \ {r}
              /\ ttsp' = {e \in ttsp : e.src \notin inner /\ e.dst \notin inner}
                     \cup {[src |-> Head(r).src, dst |-> Last(r).dst,
                            tree |-> series_composition([i \in 1..Len(r) |-> r[i].tree])]}
    /\ reduced' = TRUE
    /\ UNCHANGED <<spPc, vars>>

\* Mutant: reduction_has_happened is not reset.
RoundWithoutReset ==
    /\ spPc = "series" /\ reductions = {} /\ reduced
    /\ spPc' = "parallel"
    /\ reductions' = ParallelReductions(ttsp)
    /\ UNCHANGED <<ttsp, reduced, vars>>

NextRound ==
    /\ spPc = "series" /\ reductions = {} /\ reduced
    /\ spPc' = "parallel"
    /\ reductions' = ParallelReductions(ttsp)
    /\ reduced' = FALSE
    /\ UNCHANGED <<ttsp, vars>>

FinishDecomposition ==
    /\ spPc = "series" /\ reductions = {} /\ ~reduced
    /\ spPc' = IF Cardinality(TtspNodes) = 2 /\ Cardinality(ttsp) = 1
               THEN "decomposed" ELSE "not_sp"
    /\ UNCHANGED <<ttsp, reductions, reduced, vars>>

-----------------------------------------------------------------------------
SpInit == Init /\ spPc = "waiting" /\ ttsp = {} /\ reductions = {} /\ reduced = FALSE

SpNext == \/ Next /\ UNCHANGED spVars
          \/ StartDecomposition
          \/ ReduceParallel \/ FindSeriesReductions \/ ReduceSeries
          \/ NextRound \/ FinishDecomposition

SpSpec == SpInit /\ [][SpNext]_allVars /\ WF_allVars(SpNext)

-----------------------------------------------------------------------------
(***************************************************************************)
(* What a tree means: the layers at its leaves, the order it imposes on    *)
(* them, and the layers that occur twice.  A tree of splits nested at most *)
(* d deep is in the domain of Poset[d].                                    *)
(***************************************************************************)
InParallel(ps) ==
    [layers |-> UNION {ps[i].layers : i \in DOMAIN ps},
     order  |-> UNION {ps[i].order : i \in DOMAIN ps},
     twice  |-> (UNION {ps[i].twice : i \in DOMAIN ps})
                \cup (UNION {ps[p[1]].layers \cap ps[p[2]].layers :
                                p \in {q \in (DOMAIN ps) \X (DOMAIN ps) : q[1] # q[2]}})]

InSeries(ps) ==
    [InParallel(ps) EXCEPT !.order = @ \cup
        UNION {ps[p[1]].layers \X ps[p[2]].layers :
                  p \in {q \in (DOMAIN ps) \X (DOMAIN ps) : q[1] < q[2]}}]

Meaning(sub) ==
    [t \in [leaf : Nat] \cup [series : Seq(DOMAIN sub)] \cup [parallel : SUBSET DOMAIN sub] |->
        IF IsSeries(t) THEN InSeries([i \in DOMAIN t.series |-> sub[t.series[i]]])
        ELSE IF IsParallel(t) THEN InParallel([c \in t.parallel |-> sub[c]])
        ELSE [layers |-> {t.leaf}, order |-> {}, twice |-> {}]]

Poset[d \in Nat] == Meaning(IF d = 0 THEN <<>> ELSE Poset[d - 1])

Denoted(e) == Poset[Cardinality(graph.nodes)][e.tree]

\* Every edge of the multigraph stands for a part of the graph, at every moment
\* of the reduction: together the trees hold each layer once, each orders its
\* layers exactly as the graph does, and a finished tree holds them all, so that a
\* mapping found part by part over the tree is one for the graph.
TreesDenoteTheGraph ==
    spPc \in {"parallel", "series", "decomposed"} =>
        /\ UNION {Denoted(e).layers : e \in ttsp} = graph.nodes
        /\ \A e, f \in ttsp : e # f => Denoted(e).layers \cap Denoted(f).layers = {}
        /\ \A e \in ttsp :
              /\ Denoted(e).twice = {}
              /\ Denoted(e).order =
                    Closure(graph) \cap (Denoted(e).layers \X Denoted(e).layers)
        /\ spPc = "decomposed" => \E e \in ttsp : /\ Denoted(e).layers = graph.nodes
                                                 /\ Denoted(e).order = Closure(graph)

\* a before c, b before c and d, nothing else: the order no series-parallel
\* composition has.
HasN ==
    LET C == Closure(graph)
    IN  \E a, b, c, d \in graph.nodes :
            /\ Cardinality({a, b, c, d}) = 4
            /\ {p \in {a, b, c, d} \X {a, b, c, d} : p \in C} = {<<a, c>>, <<b, c>>, <<b, d>>}

\* The function gives up exactly on the graphs that have no decomposition, for
\* which the compiler's search then aborts, and on the empty one.
GivesUpOnlyWithoutDecomposition ==
    /\ spPc = "not_sp" => HasN \/ graph.nodes = {}
    /\ spPc = "decomposed" => ~HasN

\* Every acyclic graph gets an answer: the rounds do not go on forever.
DecompositionAnswers == <>(pc = "cyclic" \/ spPc \in {"decomposed", "not_sp"})
=============================================================================
