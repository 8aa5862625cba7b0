--------------------------- MODULE CandidateSearch ---------------------------
(***************************************************************************)
(* The search loop of graph_optimize: it keeps candidates in a             *)
(* DeduplicatedPriorityQueue, takes one out per iteration, applies every   *)
(* substitution to it, has each of the graphs that come out mapped, and    *)
(* keeps those within alpha of the best.  What mapping a graph costs is    *)
(* not this module's business: here any cost may come out, every time.     *)
(*                                                                         *)
(* GraphOptimizeState orders states by their runtime alone: the queue's    *)
(* top is the slowest candidate, and of two candidates with one runtime    *)
(* only the first is ever in the queue, whatever their graphs.             *)
(***************************************************************************)
EXTENDS Integers, Sequences, FiniteSets

CONSTANTS
    PCGs,       \* names of graphs
    Pcg,        \* Pcg[g] = [kind, edges, sp]: a kind per layer, the transitively
                \* reduced edges, and the balanced binary decomposition, or NoSP
    NoSP,
    Runtimes,   \* what the best mapping of a graph may cost, if there is one
    Infinity,   \* what it costs if there is none
    Problems    \* what the search is called with: [pcg, rewrites, ctx, machine,
                \* budget, alpha, maxOps]; rewrites[g] is the sequence of graphs the
                \* substitutions make of g, alpha a fraction <<num, den>>

Costs == Runtimes \cup {Infinity}

ASSUME RuntimesAssumption ==
    Infinity \in Nat /\ Runtimes \subseteq 0..(Infinity - 1)

ASSUME ProblemsAssumption ==
    \A p \in Problems :
        /\ p.pcg \in PCGs
        /\ p.rewrites \in [PCGs -> Seq(PCGs)]
        /\ p.budget \in Nat
        /\ p.alpha \in (Nat \ {0}) \X (Nat \ {0})

VARIABLES
    problem,
    pc,         \* "begin", "loop", "expanding", "returned", "aborted"
    best,       \* best_state: [pcg, runtime]
    candidates, \* the queue; no two elements have the same runtime
    iteration,
    todo,       \* the graphs of this iteration not mapped yet
    considered  \* the states mapped so far, within the limit on operators (history)

searchVars == <<problem, pc, best, candidates, iteration, todo, considered>>

States == [pcg : PCGs, runtime : Costs]
State(g, cost) == [pcg |-> g, runtime |-> cost]

\* Comparisons with best_state.runtime * alpha, in floating point.
WithinAlpha(s) ==
    \/ best.runtime = Infinity
    \/ s.runtime # Infinity /\ s.runtime * problem.alpha[2] <= best.runtime * problem.alpha[1]

-----------------------------------------------------------------------------
Abort ==
    /\ pc' = "aborted"
    /\ UNCHANGED <<problem, best, candidates, iteration, todo, considered>>

Starting == pc = "begin" /\ Pcg[problem.pcg].sp # NoSP

Begin(cost) ==
    /\ Starting
    /\ best' = State(problem.pcg, cost)
    /\ candidates' = {best'}
    /\ considered' = <<best'>>
    /\ pc' = "loop"
    /\ UNCHANGED <<problem, iteration, todo>>

\* The expect() of the first graph, and of a graph that came out of a substitution.
BeginUndecomposable ==
    /\ pc = "begin" /\ Pcg[problem.pcg].sp = NoSP
    /\ Abort

IsTop(s) == s \in candidates /\ \A u \in candidates : u.runtime <= s.runtime

\* What an iteration does with the candidate s it has taken out of the queue.
Expand(s) ==
    /\ best' = IF s.runtime < best.runtime THEN s ELSE best
    /\ IF s.runtime < best.runtime \/ WithinAlpha(s)
       THEN pc' = "expanding" /\ todo' = problem.rewrites[s.pcg] /\ UNCHANGED iteration
       ELSE iteration' = iteration + 1 /\ UNCHANGED <<pc, todo>>
    /\ UNCHANGED <<problem, considered>>

\* Mutant: one iteration more than the budget.
PopOneMore ==
    /\ pc = "loop" /\ iteration <= problem.budget
    /\ \E s \in candidates : IsTop(s) /\ candidates' = candidates \ {s} /\ Expand(s)

\* Mutant: an improvement clears the queue.
PopClearing ==
    /\ pc = "loop" /\ iteration < problem.budget
    /\ \E s \in candidates :
          /\ IsTop(s)
          /\ candidates' = IF s.runtime < best.runtime THEN {} ELSE candidates \ {s}
          /\ Expand(s)

Pop ==
    /\ pc = "loop" /\ iteration < problem.budget
    /\ \E s \in candidates : IsTop(s) /\ candidates' = candidates \ {s} /\ Expand(s)

Evaluating == pc = "expanding" /\ todo # <<>> /\ Pcg[Head(todo)].sp # NoSP

Evaluate(cost) ==
    /\ Evaluating
    /\ LET new == State(Head(todo), cost)
           small == Cardinality(DOMAIN Pcg[new.pcg].kind) <= problem.maxOps
           known == \E s \in candidates : s.runtime = new.runtime
       IN  /\ candidates' = IF WithinAlpha(new) /\ small /\ ~known
                            THEN candidates \cup {new} ELSE candidates
           /\ considered' = IF small /\ \A i \in DOMAIN considered : considered[i] # new
                            THEN Append(considered, new) ELSE considered
    /\ todo' = Tail(todo)
    /\ UNCHANGED <<problem, pc, best, iteration>>

EvaluateUndecomposable ==
    /\ pc = "expanding" /\ todo # <<>> /\ Pcg[Head(todo)].sp = NoSP
    /\ Abort

\* Mutant: only an iteration that found something counts against the budget.
EndIterationUncounted ==
    /\ pc = "expanding" /\ todo = <<>>
    /\ pc' = "loop"
    /\ iteration' = IF candidates = {} THEN iteration + 1 ELSE iteration
    /\ UNCHANGED <<problem, best, candidates, todo, considered>>

EndIteration ==
    /\ pc = "expanding" /\ todo = <<>>
    /\ pc' = "loop"
    /\ iteration' = iteration + 1
    /\ UNCHANGED <<problem, best, candidates, todo, considered>>

Exhausted == candidates = {} \/ iteration >= problem.budget
Returning == pc = "loop" /\ Exhausted

\* The best graph is mapped once more, for the mapping.
ReturnResult(cost) ==
    /\ Returning
    /\ pc' = IF cost = Infinity THEN "aborted" ELSE "returned"
    /\ UNCHANGED <<problem, best, candidates, iteration, todo, considered>>

-----------------------------------------------------------------------------
SearchInit ==
    /\ problem \in Problems
    /\ pc = "begin"
    /\ best = State(problem.pcg, Infinity)
    /\ candidates = {} /\ considered = <<>>
    /\ iteration = 0 /\ todo = <<>>

SearchNext ==
    \/ \E cost \in Costs : Begin(cost) \/ Evaluate(cost) \/ ReturnResult(cost)
    \/ BeginUndecomposable \/ Pop \/ EvaluateUndecomposable \/ EndIteration

SearchSpec == SearchInit /\ [][SearchNext]_searchVars

-----------------------------------------------------------------------------
\* The types of the variables; the queue holds at most one state of each runtime,
\* and the loop runs at most budget times.
TypeOK ==
    /\ problem \in Problems
    /\ pc \in {"begin", "loop", "expanding", "returned", "aborted"}
    /\ best \in States
    /\ candidates \subseteq States
    /\ \A s, u \in candidates : s.runtime = u.runtime => s = u
    /\ iteration \in 0..problem.budget
    /\ todo \in Seq(PCGs)
    /\ considered \in Seq(States)

\* With alpha >= 1 the search never forgets a graph it has mapped that is faster
\* than what it holds for the best, although its queue drops graphs with equal
\* runtimes: at the head of the loop, and at the end, a faster one is at most
\* still queued.  With alpha < 1 it does not even expand the graph it was given,
\* if that graph can be mapped and takes any time.
NothingFasterIsForgotten ==
    /\ pc \in {"loop", "returned"} /\ problem.alpha[1] >= problem.alpha[2] =>
          \A i \in DOMAIN considered :
              \/ best.runtime <= considered[i].runtime
              \/ \E c \in candidates : c.runtime <= considered[i].runtime
    /\ problem.alpha[1] < problem.alpha[2] /\ considered # <<>> =>
          considered[1].runtime \in {0, Infinity} \/ Len(considered) = 1
=============================================================================
