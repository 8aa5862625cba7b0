---------------------------- MODULE UnitySearch ----------------------------
(***************************************************************************)
(* graph_optimize as it runs: the search for a parallel computation graph  *)
(* with a low estimated runtime, and the recursion of                      *)
(* get_optimal_machine_mapping that says how long a graph takes.           *)
(***************************************************************************)
EXTENDS CachedSearch, TLC

\* Binds the value of an expression, which TLC would otherwise evaluate again
\* at every use.
With(e, F(_)) == CHOOSE y \in {F(x) : x \in {e}} : TRUE

(***************************************************************************)
(* get_machine_mapping_problem_tree                                        *)
(***************************************************************************)
RECURSIVE LayerPaths(_), ToProblemTree(_, _)
LayerPaths(sp) ==    \* <<layer, path>>
    IF IsLeaf(sp) THEN {<<sp.leaf, <<>>>>}
    ELSE {<<lp[1], <<"l">> \o lp[2]>> : lp \in LayerPaths(Left(sp))}
         \cup {<<lp[1], <<"r">> \o lp[2]>> : lp \in LayerPaths(Right(sp))}

MovementAcross(pcg, l, r) ==
    {[src |-> ab[1][2], dst |-> ab[2][2]] :
        ab \in {ab \in LayerPaths(l) \X LayerPaths(r) : <<ab[1][1], ab[2][1]>> \in pcg.edges}}

ToProblemTree(pcg, sp) ==
    IF IsLeaf(sp) THEN [leaf |-> pcg.kind[sp.leaf]]
    ELSE LET sides == <<ToProblemTree(pcg, Left(sp)), ToProblemTree(pcg, Right(sp))>>
         IN  IF IsSeriesSplit(sp)
             THEN [series |-> sides, moves |-> MovementAcross(pcg, sp.series[1], sp.series[2])]
             ELSE [parallel |-> sides]

ProblemTree(g) == ToProblemTree(Pcg[g], Pcg[g].sp)

ASSUME TreesAreTranslated == \A g \in DOMAIN TreeOf : TreeOf[g] = ProblemTree(g)

(***************************************************************************)
(* The dynamic program; every call returns [cache, result].                *)
(***************************************************************************)
\* Mutant: a subproblem is saved without its constraints.
UnconstrainedKey(q) == [q EXCEPT !.constraints = Unconstrained(q.tree)]
CacheKey(q) == q

MinimizeRuntime(a, b) ==
    IF IsInfeasible(a) \/ (~IsInfeasible(b) /\ b.runtime < a.runtime) THEN b ELSE a

\* Of several optimal results, which one is first in the std::set is left to CHOOSE.
MappingWithMinimalRuntime(results) == CHOOSE r \in results \cup {Infeasible} : IsFastest(r, results)

RECURSIVE GetOptimalMachineMapping(_, _, _), TryPreViews(_, _, _), TryPostViews(_, _, _, _),
          TryResourceSplits(_, _, _)

\* The two loops over the views of the boundary; acc.todo is what is left to try.
TryPostViews(ctx, acc, q, pre) ==
    IF acc.todo = {} THEN acc
    ELSE With(CHOOSE views \in acc.todo : TRUE, LAMBDA views :
         With(GetOptimalMachineMapping(ctx, acc.cache, ChildUnder(q, "r", views)), LAMBDA post :
         With([cache |-> post.cache,
               todo |-> acc.todo \ {views},
               result |-> IF IsInfeasible(post.result) THEN acc.result
                          ELSE MinimizeRuntime(acc.result,
                                   SeriesCombine(CostAcrossSplit(ctx, Left(q.tree), Right(q.tree),
                                                                 Moves(q.tree), pre.mapping,
                                                                 post.result.mapping),
                                                 pre, post.result))],
         LAMBDA next : TryPostViews(ctx, next, q, pre))))

TryPreViews(ctx, acc, q) ==
    IF acc.todo = {} THEN acc
    ELSE With(CHOOSE views \in acc.todo : TRUE, LAMBDA views :
         With(GetOptimalMachineMapping(ctx, acc.cache, ChildUnder(q, "l", views)), LAMBDA pre :
         With([cache |-> pre.cache, result |-> acc.result,
               todo |-> IF IsInfeasible(pre.result) THEN {} ELSE PostViews(q)],
         LAMBDA start :
         With(TryPostViews(ctx, start, q, pre.result), LAMBDA end :
         With([end EXCEPT !.todo = acc.todo \ {views}],
         LAMBDA next : TryPreViews(ctx, next, q))))))

SolveSeries(ctx, c, q) ==
    With([cache |-> c, result |-> Infeasible, todo |-> PreViews(q)],
    LAMBDA start : TryPreViews(ctx, start, q))

TryResourceSplits(ctx, acc, q) ==
    IF acc.todo = {} THEN acc
    ELSE With(CHOOSE split \in acc.todo : TRUE, LAMBDA split :
         With(GetOptimalMachineMapping(ctx, acc.cache,
                  Child(q, "l", LhsResources(split, q.resources))), LAMBDA lhs :
         With(GetOptimalMachineMapping(ctx, lhs.cache,
                  Child(q, "r", RhsResources(split, q.resources))), LAMBDA rhs :
         With([cache |-> rhs.cache,
               todo |-> acc.todo \ {split},
               results |-> acc.results \cup {ParallelCombine(split, lhs.result, rhs.result)}],
         LAMBDA next : TryResourceSplits(ctx, next, q)))))

\* One side after the other, as a series split that no tensor crosses, or at once.
SolveParallel(ctx, c, q) ==
    With(SolveSeries(ctx, c, q), LAMBDA series :
    With([cache |-> series.cache, results |-> {}, todo |-> MachineResourceSplits(q.resources)], LAMBDA start :
    With(TryResourceSplits(ctx, start, q), LAMBDA split :
         [cache |-> split.cache,
          result |-> MinimizeRuntime(series.result, MappingWithMinimalRuntime(split.results))])))

GetOptimalMachineMapping(ctx, c, problem_state) ==
    With(problem_state, LAMBDA q :
         IF CacheKey(q) \in DOMAIN c THEN [cache |-> c, result |-> c[CacheKey(q)]]
         ELSE With(IF IsLeaf(q.tree)
                   THEN [cache |-> c, result |-> MappingWithMinimalRuntime(LeafResults(ctx, q))]
                   ELSE IF IsSeriesSplit(q.tree) THEN SolveSeries(ctx, c, q)
                   ELSE SolveParallel(ctx, c, q),
              LAMBDA r : [cache |-> (CacheKey(q) :> r.result) @@ r.cache, result |-> r.result]))

\* optimize_pcg, when there is a decomposition.
OptimizePcg(g, c) == GetOptimalMachineMapping(problem.ctx, c, RootProblem(g))

(***************************************************************************)
(* The search                                                              *)
(***************************************************************************)
MapAndBegin ==
    /\ Starting
    /\ \E r \in {OptimizePcg(problem.pcg, EmptyCache)} :
          Begin(RuntimeCost(r.result)) /\ cache' = r.cache
    /\ UNCHANGED answer

MapAndEvaluate ==
    /\ Evaluating
    /\ \E r \in {OptimizePcg(Head(todo), cache)} :
          Evaluate(RuntimeCost(r.result)) /\ cache' = r.cache
    /\ UNCHANGED answer

MapAndReturn ==
    /\ Returning
    /\ \E r \in {OptimizePcg(best.pcg, cache)} :
          ReturnResult(RuntimeCost(r.result)) /\ cache' = r.cache /\ answer' = r.result

Next ==
    \/ MapAndBegin \/ MapAndEvaluate \/ MapAndReturn
    \/ /\ Pop \/ EndIteration \/ BeginUndecomposable \/ EvaluateUndecomposable
       /\ UNCHANGED <<cache, answer>>

Spec == CachedInit /\ [][Next]_vars /\ WF_vars(Next)

-----------------------------------------------------------------------------
\* The recursion is one that the cached search allows: every cost it works with is
\* the saved runtime or infinite, and every result it saves is a fastest one of
\* those that the results saved for the parts of the subproblem make.
ImplementsSearch == CachedSpec

\* The search ends, although a graph it has expanded may enter the queue again.
SearchEnds == <>(pc \in {"returned", "aborted"})
=============================================================================
