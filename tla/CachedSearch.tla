---------------------------- MODULE CachedSearch ----------------------------
(***************************************************************************)
(* graph_optimize with machine mappings: the search loop, in which what a  *)
(* graph costs is the runtime of the mapping that                          *)
(* get_optimal_machine_mapping finds for it, and all calls share one cache *)
(* of subproblems.  In what order a call goes through the views and the    *)
(* splits, and which of several fastest results it keeps, is left open.    *)
(***************************************************************************)
EXTENDS CandidateSearch, MachineMapping

CONSTANT TreeOf     \* the problem tree of every graph with a decomposition

ASSUME MappingAssumption ==
    /\ TreeOf \in [{g \in PCGs : Pcg[g].sp # NoSP} -> Trees]
    /\ \A p \in Problems : p.ctx \in Contexts /\ p.machine \in Slices

VARIABLES
    cache,      \* cached_subgraph_costs
    answer      \* the mapping returned

vars == <<searchVars, cache, answer>>

RootProblem(g) ==
    [tree |-> TreeOf[g], resources |-> problem.machine, constraints |-> Unconstrained(TreeOf[g])]

\* Mutant: an infeasible result is taken for a fast one.
RuntimeCostRaw(r) == r.runtime

\* get_runtime_cost
RuntimeCost(r) == IF IsInfeasible(r) THEN Infinity ELSE r.runtime

(***************************************************************************)
(* A call saves what it solves and forgets nothing; afterwards the cache   *)
(* holds a result for g.                                                   *)
(***************************************************************************)
Solve(g) ==
    /\ RootProblem(g) \in DOMAIN cache'
    /\ \A q \in DOMAIN cache : q \in DOMAIN cache' /\ cache'[q] = cache[q]
    /\ \A q \in DOMAIN cache' \ DOMAIN cache :
          IsSubproblem(q) /\ Justified(problem.ctx, cache', q)

CostsNow(g, cost) == cost = RuntimeCost(cache'[RootProblem(g)])

MapFirst ==
    /\ Starting /\ Solve(problem.pcg)
    /\ \E cost \in Costs : CostsNow(problem.pcg, cost) /\ Begin(cost)
    /\ UNCHANGED answer

MapNext ==
    /\ Evaluating /\ Solve(Head(todo))
    /\ \E cost \in Costs : CostsNow(Head(todo), cost) /\ Evaluate(cost)
    /\ UNCHANGED answer

MapBest ==
    /\ Returning /\ Solve(best.pcg)
    /\ \E cost \in Costs : CostsNow(best.pcg, cost) /\ ReturnResult(cost)
    /\ answer' = cache'[RootProblem(best.pcg)]

CachedInit == SearchInit /\ cache = EmptyCache /\ answer = Infeasible

CachedNext ==
    \/ MapFirst \/ MapNext \/ MapBest
    \/ /\ Pop \/ EndIteration \/ BeginUndecomposable \/ EvaluateUndecomposable
       /\ UNCHANGED <<cache, answer>>

CachedSpec == CachedInit /\ [][CachedNext]_vars

-----------------------------------------------------------------------------
\* Every result in the cache solves the subproblem it is saved under, whichever
\* graph and whichever views of the boundary it was first computed for.  It keeps
\* the views fixed there for layers that are in no parallel split, and no plan that
\* keeps the fixed views is faster, although views at a series split are fixed
\* before the slice is divided.  The second half leaves aside the subproblems of the
\* defect that CannotOverlap shows: those with a view fixed around a parallel split,
\* or that fix one on the way.  The decomposition of nearly every real graph is one
\* of them, as weights and inputs are layers; the chains inside it are not.
CachedResultsAreOptimal ==
    \A k \in DOMAIN cache :
        LET fixed == {p \in DOMAIN k.constraints : k.constraints[p] # None}
        IN  /\ IsInfeasible(cache[k])
               \/ \A p \in fixed \cap Exposed[k.tree] : cache[k].mapping[p] = k.constraints[p]
            /\ FixedAround[k.tree] = {} /\ fixed \subseteq Exposed[k.tree] =>
                 \A plan \in Plans(problem.ctx, k.tree, k.resources) :
                     (\A p \in fixed : plan.mapping[p] = k.constraints[p]) =>
                         ~IsInfeasible(cache[k]) /\ cache[k].runtime <= plan.runtime

\* The mapping returned places every layer, and takes no longer than the runtime
\* that decided the search: all operators and all tensors that cross a series split,
\* where the mapping puts them, with the sides of a parallel split one after the
\* other as soon as two of their layers share a device.  That every layer is on the
\* machine and counts for sharing a device fails only for layers inside a parallel
\* split whose views a series split around it has fixed.
ClaimIsRealised ==
    pc = "returned" =>
        LET tree == TreeOf[best.pcg]
            placed == LeafPaths(tree) \ FixedAround[tree]
        IN  /\ answer.runtime = best.runtime
            /\ DOMAIN answer.mapping = LeafPaths(tree)
            /\ \A p \in placed : answer.mapping[p] \in AllowedViews(KindAt(tree, p), problem.machine)
            /\ RuntimeUnder(problem.ctx, tree, answer.mapping, placed) <= answer.runtime

\* The layers on the two sides of a parallel split run at once only on different
\* devices: the test "cannot use overlapping machine views in parallel".
CannotOverlap ==
    pc = "returned" =>
        LET tree == TreeOf[best.pcg]
        IN  RuntimeUnder(problem.ctx, tree, answer.mapping, LeafPaths(tree)) <= answer.runtime
=============================================================================
