--------------------------- MODULE MachineMapping ---------------------------
(***************************************************************************)
(* What get_optimal_machine_mapping works with: the dynamic program that   *)
(* places the layers of a series-parallel decomposition on a slice of the  *)
(* machine.  A series split fixes the machine views of the layers on its   *)
(* boundary, for the whole slice, before either side is solved; a parallel *)
(* split is solved one side after the other on the whole slice, and side   *)
(* by side on several ways to divide it.  Every subproblem is saved in a   *)
(* cache; this module says which result the code saves for one, given the  *)
(* results saved for its parts.                                            *)
(*                                                                         *)
(* A problem tree is [leaf], [series, moves] or [parallel]; a path in it   *)
(* is a sequence of "l" and "r".  A leaf is the kind of its operator, as   *)
(* two operators with the same attributes have the same cost key.  Shard k *)
(* of an operator under view mv runs on node mv.node + k * mv.dn, device   *)
(* mv.gpu + k * mv.dg: task spaces have at most one dimension.  What the   *)
(* cost estimator answers is a constant of the context.                    *)
(***************************************************************************)
EXTENDS Integers, Sequences, FiniteSets

CONSTANTS
    Kinds, Degree,  \* the operators, and into how many shards each is divided
    Trees,          \* the problem trees, with all their subtrees
    Depth           \* a tree's sides are less deep than the tree

DegreesAssumption == Degree \in [Kinds -> Nat \ {0}]
ASSUME DegreesAssumption

Longer(a, b) == IF a < b THEN b ELSE a

(***************************************************************************)
(* Machine views (machine_view.cc, allowed_machine_views.cc)               *)
(***************************************************************************)
Views == [node : Nat, gpu : Nat, dn : Nat, dg : Nat]
Slices == [nodes : Nat \ {0}, gpus : Nat \ {0}]

Coordinate(mv, k) == <<mv.node + k * mv.dn, mv.gpu + k * mv.dg>>
InSlice(c, slice) == c[1] < slice.nodes /\ c[2] < slice.gpus
Devices(kind, mv) == {Coordinate(mv, k) : k \in 0..(Degree[kind] - 1)}

StrideBound(kind, slice) ==
    LET d == Longer(Degree[kind] - 1, 1) IN (slice.nodes * slice.gpus + d - 1) \div d

Strides(kind, slice) ==
    IF Degree[kind] = 1 THEN {<<0, 0>>}
    ELSE {<<s, 0>> : s \in 1..StrideBound(kind, slice)}
         \cup {<<0, s>> : s \in 1..StrideBound(kind, slice)}

AllowedViews(kind, slice) ==
    {mv \in {[node |-> n, gpu |-> g, dn |-> s[1], dg |-> s[2]] :
                n \in 0..(slice.nodes - 1), g \in 0..(slice.gpus - 1), s \in Strides(kind, slice)} :
        InSlice(Coordinate(mv, Degree[kind] - 1), slice)}

(***************************************************************************)
(* Problem trees, and functions on their paths                             *)
(***************************************************************************)
IsLeaf(t) == "leaf" \in DOMAIN t
IsSeriesSplit(t) == "series" \in DOMAIN t
Left(t) == IF IsSeriesSplit(t) THEN t.series[1] ELSE t.parallel[1]
Right(t) == IF IsSeriesSplit(t) THEN t.series[2] ELSE t.parallel[2]
Moves(t) == IF IsSeriesSplit(t) THEN t.moves ELSE {}

Paths == Seq({"l", "r"})
Under(side, p) == <<side>> \o p
Beneath(side, paths) == {Under(side, p) : p \in paths}
CombineMappings(l, r) ==
    [p \in Beneath("l", DOMAIN l) \cup Beneath("r", DOMAIN r) |->
        IF Head(p) = "l" THEN l[Tail(p)] ELSE r[Tail(p)]]

\* The operators at the leaves.
KindsOf[t \in Trees] ==
    IF IsLeaf(t) THEN [p \in {<<>>} |-> t.leaf]
    ELSE CombineMappings(KindsOf[Left(t)], KindsOf[Right(t)])
LeafPaths(t) == DOMAIN KindsOf[t]
KindAt(t, p) == KindsOf[t][p]

IsProblemTree(t) ==
    \/ t \in [leaf : Kinds]
    \/ t \in [parallel : Trees \X Trees]
    \/ /\ t \in [series : Trees \X Trees,
                 moves : SUBSET [src : LeafPaths(t.series[1]), dst : LeafPaths(t.series[2])]]
       /\ IsFiniteSet(t.moves)

TreesAssumption ==
    /\ Depth \in [Trees -> Nat]
    /\ \A t \in Trees :
          /\ IsProblemTree(t)
          /\ IsLeaf(t) \/ (Depth[Left(t)] < Depth[t] /\ Depth[Right(t)] < Depth[t])
ASSUME TreesAssumption

\* Constraints map the paths of a tree to views, or to None.
None == [none |-> TRUE]
Unconstrained(t) == [p \in LeafPaths(t) |-> None]

Inside(paths, side) == {Tail(q) : q \in {r \in paths : Head(r) = side}}
RestrictToChild(f, side) == [p \in Inside(DOMAIN f, side) |-> f[Under(side, p)]]
WithAdditionalConstraints(c, m) == [p \in DOMAIN c |-> IF p \in DOMAIN m THEN m[p] ELSE c[p]]

(***************************************************************************)
(* Dividing the slice (machine_resource_split.cc)                          *)
(***************************************************************************)
SplitPoints(n) ==
    LET powers == {i \in 1..(n - 1) : \E k \in 0..n : i = 2^k}
    IN  powers \cup {n - i : i \in powers}

MachineResourceSplits(slice) ==
    {[dimension |-> "nodes", offset |-> o] : o \in SplitPoints(slice.nodes)}
    \cup {[dimension |-> "gpus", offset |-> o] : o \in SplitPoints(slice.gpus)}

LhsResources(split, slice) == [slice EXCEPT ![split.dimension] = split.offset]
RhsResources(split, slice) == [slice EXCEPT ![split.dimension] = @ - split.offset]

OffsetView(mv, split) ==
    IF split.dimension = "nodes" THEN [mv EXCEPT !.node = @ + split.offset]
    ELSE [mv EXCEPT !.gpu = @ + split.offset]
OffsetMapping(m, split) == [p \in DOMAIN m |-> OffsetView(m[p], split)]

(***************************************************************************)
(* Results (machine_mapping_result.cc)                                     *)
(***************************************************************************)
Infeasible == [runtime |-> -1, mapping |-> <<>>]
IsInfeasible(r) == r = Infeasible
Feasible(time, m) == [runtime |-> time, mapping |-> m]

SeriesCombine(comm, pre, post) ==
    IF IsInfeasible(pre) \/ IsInfeasible(post) THEN Infeasible
    ELSE Feasible(pre.runtime + comm + post.runtime, CombineMappings(pre.mapping, post.mapping))

\* Mutant: the mapping of the right side keeps the origin of its own slice.
ParallelCombineInPlace(split, l, r) ==
    IF IsInfeasible(l) \/ IsInfeasible(r) THEN Infeasible
    ELSE Feasible(Longer(l.runtime, r.runtime), CombineMappings(l.mapping, r.mapping))

ParallelCombine(split, l, r) ==
    IF IsInfeasible(l) \/ IsInfeasible(r) THEN Infeasible
    ELSE Feasible(Longer(l.runtime, r.runtime),
                  CombineMappings(l.mapping, OffsetMapping(r.mapping, split)))

\* get_mapping_with_minimal_runtime, and minimize_runtime in the loops: of several
\* fastest results any may come out.
IsFastest(r, results) ==
    LET feasible == results \ {Infeasible}
    IN  IF feasible = {} THEN r = Infeasible
        ELSE r \in feasible /\ \A s \in feasible : r.runtime <= s.runtime

\* The cost estimator, which is asked for an operator under a view.
Contexts == [cost : [Kinds -> [within : Nat, across : Nat]], comm : Nat]
OpCost(ctx, kind, mv) == ctx.cost[kind][IF mv.dn = 0 THEN "within" ELSE "across"]

(***************************************************************************)
(* The tensors that cross a series split                                   *)
(***************************************************************************)
CommunicationEdges(kindL, kindR, mvL, mvR) ==
    {e \in {<<Coordinate(mvL, ij[1]), Coordinate(mvR, ij[2])>> :
               ij \in {ij \in (0..(Degree[kindL] - 1)) \X (0..(Degree[kindR] - 1)) :
                          ij[1] = ij[2] \/ Degree[kindL] # Degree[kindR]}} : e[1] # e[2]}

CostAcrossSplit(ctx, left, right, moves, m1, m2) ==
    ctx.comm * Cardinality(UNION {CommunicationEdges(KindAt(left, mv.src), KindAt(right, mv.dst),
                                                     m1[mv.src], m2[mv.dst]) : mv \in moves})

(***************************************************************************)
(* Subproblems: a MachineMappingState each                                 *)
(***************************************************************************)
IsSubproblem(q) ==
    q \in [tree : Trees, resources : Slices, constraints : [LeafPaths(q.tree) -> Views \cup {None}]]

Child(q, side, slice) ==
    [tree |-> IF side = "l" THEN Left(q.tree) ELSE Right(q.tree), resources |-> slice,
     constraints |-> RestrictToChild(q.constraints, side)]
ChildUnder(q, side, views) ==
    [tree |-> IF side = "l" THEN Left(q.tree) ELSE Right(q.tree), resources |-> q.resources,
     constraints |-> WithAdditionalConstraints(RestrictToChild(q.constraints, side), views)]

BoundaryAssignments(child, boundary) ==
    LET free == {p \in boundary : child.constraints[p] = None}
        allowed(p) == AllowedViews(KindAt(child.tree, p), child.resources)
    IN  {f \in [free -> UNION {allowed(p) : p \in free}] : \A p \in free : f[p] \in allowed(p)}

PreViews(q) == BoundaryAssignments(Child(q, "l", q.resources), {mv.src : mv \in Moves(q.tree)})
PostViews(q) == BoundaryAssignments(Child(q, "r", q.resources), {mv.dst : mv \in Moves(q.tree)})

LeafResults(ctx, q) ==
    LET fixed == q.constraints[<<>>]
        views == IF fixed = None THEN AllowedViews(q.tree.leaf, q.resources) ELSE {fixed}
    IN  {Feasible(OpCost(ctx, q.tree.leaf, mv), [p \in {<<>>} |-> mv]) : mv \in views}

\* The two loops over the views of the boundary, with results taken from a cache;
\* a parallel split is tried as a series split that no tensor crosses.
FeasiblePre(cache, q) == {v \in PreViews(q) : ~IsInfeasible(cache[ChildUnder(q, "l", v)])}
SeriesResults(ctx, cache, q) ==
    {SeriesCombine(CostAcrossSplit(ctx, Left(q.tree), Right(q.tree), Moves(q.tree),
                                   cache[ChildUnder(q, "l", v)].mapping,
                                   cache[ChildUnder(q, "r", w)].mapping),
                   cache[ChildUnder(q, "l", v)], cache[ChildUnder(q, "r", w)]) :
        v \in FeasiblePre(cache, q),
        w \in {w \in PostViews(q) : ~IsInfeasible(cache[ChildUnder(q, "r", w)])}}

SplitResults(cache, q) ==
    {ParallelCombine(split, cache[Child(q, "l", LhsResources(split, q.resources))],
                            cache[Child(q, "r", RhsResources(split, q.resources))]) :
        split \in MachineResourceSplits(q.resources)}

\* The subproblems that are solved on the way: the right side of a series split only
\* if the left side is feasible under some views of its boundary.
PartsOf(cache, q) ==
    {ChildUnder(q, "l", v) : v \in PreViews(q)}
    \cup (IF FeasiblePre(cache, q) = {} THEN {} ELSE {ChildUnder(q, "r", w) : w \in PostViews(q)})
    \cup (IF IsSeriesSplit(q.tree) THEN {}
          ELSE {Child(q, "l", LhsResources(split, q.resources)) :
                   split \in MachineResourceSplits(q.resources)}
               \cup {Child(q, "r", RhsResources(split, q.resources)) :
                        split \in MachineResourceSplits(q.resources)})

\* What the cache holds for q is what the code makes of what it holds for q's parts.
Justified(ctx, cache, q) ==
    IF IsLeaf(q.tree) THEN IsFastest(cache[q], LeafResults(ctx, q))
    ELSE /\ PartsOf(cache, q) \subseteq DOMAIN cache
         /\ IsFastest(cache[q], SeriesResults(ctx, cache, q)
                                \cup IF IsSeriesSplit(q.tree) THEN {} ELSE SplitResults(cache, q))

EmptyCache == [k \in {} |-> Infeasible]

-----------------------------------------------------------------------------
(***************************************************************************)
(* What the result should be.  A plan places every layer and runs the two  *)
(* sides of a parallel split one after the other, or at once if the slice  *)
(* is divided between them.                                                *)
(***************************************************************************)
PlansFor(ctx) ==
    LET P[t \in Trees] ==
            [slice \in Slices |->
                IF IsLeaf(t)
                THEN {Feasible(OpCost(ctx, t.leaf, mv), [p \in {<<>>} |-> mv]) :
                         mv \in AllowedViews(t.leaf, slice)}
                ELSE {SeriesCombine(CostAcrossSplit(ctx, Left(t), Right(t), Moves(t), l.mapping, r.mapping), l, r) :
                         l \in P[Left(t)][slice], r \in P[Right(t)][slice]}
                     \cup IF IsSeriesSplit(t) THEN {}
                          ELSE UNION {{ParallelCombine(split, l, r) :
                                          l \in P[Left(t)][LhsResources(split, slice)],
                                          r \in P[Right(t)][RhsResources(split, slice)]} :
                                      split \in MachineResourceSplits(slice)}]
    IN  P
Plans(ctx, t, slice) == PlansFor(ctx)[t][slice]

UsedDevices(t, m, layers) == UNION {Devices(KindAt(t, p), m[p]) : p \in layers}

\* How long the layers take where m puts them, if the sides of a parallel split run
\* at once exactly when no device is used by one of the given layers on each side.
RuntimesFor(ctx) ==
    LET R[t \in Trees] ==
            [m \in [LeafPaths(t) -> Views] |-> [layers \in SUBSET LeafPaths(t) |->
                IF IsLeaf(t) THEN OpCost(ctx, t.leaf, m[<<>>])
                ELSE LET ml == RestrictToChild(m, "l")
                         mr == RestrictToChild(m, "r")
                         ll == Inside(layers, "l")
                         lr == Inside(layers, "r")
                         rl == R[Left(t)][ml][ll]
                         rr == R[Right(t)][mr][lr]
                     IN  IF IsSeriesSplit(t)
                         THEN rl + CostAcrossSplit(ctx, Left(t), Right(t), Moves(t), ml, mr) + rr
                         ELSE IF UsedDevices(Left(t), ml, ll) \cap UsedDevices(Right(t), mr, lr) = {}
                         THEN Longer(rl, rr) ELSE rl + rr]]
    IN  R
RuntimeUnder(ctx, t, m, layers) == RuntimesFor(ctx)[t][m][layers]

\* The layers that are in no parallel split.
Exposed[t \in Trees] ==
    IF IsLeaf(t) THEN {<<>>}
    ELSE IF IsSeriesSplit(t) THEN Beneath("l", Exposed[Left(t)]) \cup Beneath("r", Exposed[Right(t)])
    ELSE {}

\* The layers whose views are fixed at a series split around a parallel split that
\* they are in.
FixedAround[t \in Trees] ==
    IF IsLeaf(t) THEN {}
    ELSE Beneath("l", FixedAround[Left(t)] \cup ({mv.src : mv \in Moves(t)} \ Exposed[Left(t)]))
         \cup Beneath("r", FixedAround[Right(t)] \cup ({mv.dst : mv \in Moves(t)} \ Exposed[Right(t)]))
=============================================================================
