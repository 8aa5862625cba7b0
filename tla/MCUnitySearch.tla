--------------------------- MODULE MCUnitySearch ---------------------------
(***************************************************************************)
(* The search over small graphs: a chain and its sharded version, two      *)
(* independent layers, two independent chains, a fork, a join, a graph     *)
(* that is too large and one without a series-parallel decomposition; on   *)
(* machines with one to four devices, with cheap and dear communication,   *)
(* several sets of substitutions (with cycles) and every small budget.     *)
(***************************************************************************)
EXTENDS UnitySearch

CONSTANTS MaxBudget, MaxOps

MCKinds == {"a", "b", "sharded"}
MCDegree == [k \in MCKinds |-> IF k = "sharded" THEN 2 ELSE 1]

Leaf(n) == [leaf |-> n]
Ser(l, r) == [series |-> <<l, r>>]
Par(l, r) == [parallel |-> <<l, r>>]

Graph(kind, edges, sp) == [kind |-> kind, edges |-> edges, sp |-> sp]

MCPCGs == {"chain", "shardedChain", "pair", "shardedPair", "chains", "fork", "join", "large", "crossed"}
MCPcg == [g \in MCPCGs |->
    CASE g = "chain" -> Graph(<<"a", "b">>, {<<1, 2>>}, Ser(Leaf(1), Leaf(2)))
      [] g = "shardedChain" -> Graph(<<"a", "sharded">>, {<<1, 2>>}, Ser(Leaf(1), Leaf(2)))
      [] g = "pair" -> Graph(<<"a", "b">>, {}, Par(Leaf(1), Leaf(2)))
      [] g = "shardedPair" -> Graph(<<"sharded", "b">>, {}, Par(Leaf(1), Leaf(2)))
      [] g = "chains" -> Graph(<<"a", "b", "a", "sharded">>, {<<1, 2>>, <<3, 4>>},
                               Par(Ser(Leaf(1), Leaf(2)), Ser(Leaf(3), Leaf(4))))
      [] g = "fork" -> Graph(<<"a", "b", "b">>, {<<1, 2>>, <<1, 3>>},
                             Ser(Leaf(1), Par(Leaf(2), Leaf(3))))
      [] g = "join" -> Graph(<<"a", "b", "a">>, {<<1, 3>>, <<2, 3>>},
                             Ser(Par(Leaf(1), Leaf(2)), Leaf(3)))
      [] g = "large" -> Graph(<<"a", "a", "a", "a", "a">>, {<<i, i + 1>> : i \in 1..4},
                              Ser(Ser(Leaf(1), Leaf(2)), Ser(Leaf(3), Ser(Leaf(4), Leaf(5)))))
      [] g = "crossed" -> Graph(<<"a", "a", "b", "b">>, {<<1, 3>>, <<2, 3>>, <<2, 4>>}, NoSP)]

None0 == [g \in MCPCGs |-> <<>>]
Rewrites == {
    \* back and forth between a graph and its sharded versions; successive improvements
    [None0 EXCEPT !["chain"] = <<"shardedChain", "large">>, !["shardedChain"] = <<"chain">>,
                  !["pair"] = <<"shardedPair">>, !["shardedPair"] = <<"pair", "chain">>,
                  !["chains"] = <<"pair", "chain">>],
    \* a slow intermediate graph, and two successors with one runtime
    [None0 EXCEPT !["chains"] = <<"join", "fork">>, !["fork"] = <<"pair", "chain">>,
                  !["join"] = <<"shardedPair">>, !["shardedPair"] = <<"chains">>],
    \* a substitution leads out of the series-parallel graphs
    [None0 EXCEPT !["pair"] = <<"join">>, !["join"] = <<"pair", "crossed", "chain">>]}

RECURSIVE Subtrees(_), Height(_)
Subtrees(t) == {t} \cup IF IsLeaf(t) THEN {} ELSE Subtrees(Left(t)) \cup Subtrees(Right(t))
Height(t) ==
    IF IsLeaf(t) THEN 0
    ELSE 1 + Longer(Height(Left(t)), Height(Right(t)))

MCTreeOf == [g \in {g \in MCPCGs : MCPcg[g].sp # NoSP} |-> ProblemTree(g)]
MCTrees == UNION {Subtrees(MCTreeOf[g]) : g \in DOMAIN MCTreeOf}
MCDepth == [t \in MCTrees |-> Height(t)]

Uniform(c) == [within |-> c, across |-> c]
LayerCosts == {[k \in MCKinds |-> CASE k = "sharded" -> s [] k = "a" -> Uniform(2) [] k = "b" -> Uniform(3)] :
             s \in {[within |-> 1, across |-> 4], [within |-> 4, across |-> 1]}}
MCContexts == [cost : LayerCosts, comm : {0, 1, 5}]
Machines == {[nodes |-> 1, gpus |-> 1], [nodes |-> 1, gpus |-> 3], [nodes |-> 2, gpus |-> 2]}

MCRuntimes == 0..100

MCProblems == [pcg : {"chain", "pair", "chains", "join", "crossed"}, rewrites : Rewrites, ctx : MCContexts,
               machine : Machines, budget : 0..MaxBudget,
               alpha : {<<1, 2>>, <<1, 1>>, <<3, 2>>}, maxOps : {MaxOps}]
=============================================================================
