# A verification project for FlexFlow Train

FlexFlow Train compiles a model into a *parallel computation graph* (PCG), maps
its operators to devices, lowers the mapped graph to a *dynamic graph* of
invocations, and executes training passes on the Realm runtime, which runs
operations asynchronously. This directory holds TLA+ models of that execution,
the TLC configurations that check them, and TLAPS proofs about them.

The development follows a model through the program. `lib/realm-execution`, the
concurrent core, comes first: there the order of events decides whether a training
step computes anything meaningful, and tests see one schedule out of many. Around
it are the life cycle of the runtime, the lowering that produces what is executed,
the graph algorithms both rest on, and the search that chooses the mapped graph.

## 1. Inventory

| component | state | operations | what is hard |
|---|---|---|---|
| Dependency tracking (`atomic_dependency_set.cc`, `dependency_set.cc`) | per tensor: the merged event of writers and of readers | `add_reader`, `add_writer`, `get_dependency_for_*` | one lost merge and two operations race on some schedules |
| PCG instance (`pcg_instance.cc`, `instance_allocation.cc`, `op_task.cc`) | execution order, instances with ready events, op state, optimizer attributes | create, all/forward/backward/update passes, destroy | passes are dispatched without waiting; collectives are many operations; instances are destroyed while in use |
| RealmContext (`realm_context.cc`) | queue of outstanding events, allocator | spawn, copy, reduce, create instance, get/merge outstanding events, destructor's wait | an event that is not put back is never waited for |
| Two-part tasks (`distributed_ff_handle.cc`, `distributed_per_device_op_state_initialization.cc`, `tasks/impl/*_init_*`) | result slots in the caller's memory | init task, return task, wait, read, free | raw pointers across processors; return tasks need the caller's processor; memory tied to a task's context |
| Runtime life cycle (`realm_manager.cc`, `controller_task.cc`, `realm_task_registry.cc`, `task_id_t.cc`) | the runtime, each rank's main program and registration, the controllers' arguments, results | construct, register, start controllers, wait, change or free a result, shut down | shutdown against running controllers and return tasks, lifetime of the thunk, registration against remote spawns |
| Serialisation, reduction operators | - | conversions | - |
| Dynamic graph lowering (`task-spec/dynamic_graph`) | a graph of invocations | pass expansion, loss, update and copy insertion, shard expansion, allocation | which gradients are needed; each value produced once; nothing lost on the way; which assertion fires where |
| Task specifications, operator implementations | - | argument plumbing | - |
| Local execution (`local-execution`) | the initialised graph, tensors, tracked memory | create an instance, run passes, estimate costs | accounting on deallocation |
| Compiler: search (`unity_algorithm`, `mcmc`) | best state, candidate queue, iteration | substitute, evaluate, prune | order, deduplication and budget of the queue; graphs without a decomposition |
| Compiler: machine mapping | a cache of sub-results, shared by the whole search | dynamic program over series-parallel trees | keys of the cache, views fixed before the machine is divided |
| Compiler: task graph simulator | time, ready and running tasks, busy devices | start, finish | event order, device exclusivity |
| Substitutions | a graph and a pattern match | match, apply | interfaces of the replaced part |
| PCG, op-attrs, models | graphs, shapes | build, infer shapes | case tables |
| Utilities | containers, graphs | cycle check, topological order, transitive reduction, inverse line graph, series-parallel decomposition, deduplicated priority queue | walks with hand-made stacks, graphs changed while they are rewritten |
| Kernels, FFI, bindings, tools | - | numerical code and I/O | outside a model checker's reach |

How they interact: the controller task owns a `RealmContext`; a `PCGInstance`
calls the context to spawn operations and asks a fresh `DependencySet` per pass
for their preconditions. Tasks run with a `RealmContext` of their own, whose
destructor waits for what they spawned. Everything else is communicated through
Realm events and through instances' memory. The main program of every rank owns a
`RealmManager`, which starts the controllers. What a controller executes is the
lowered graph, in the order `get_topological_ordering` gives it; the graph that is
lowered, and its mapping, are what `graph_optimize` has found by mapping
series-parallel decompositions of candidate graphs onto the machine.

What makes each of the modelled components correct:
* dependency tracking: conflicting operations never overlap and are ordered as
  issued; nothing else is ordered; nobody waits in a circle;
* PCG instance and context: the asynchronous execution has the effect of the
  sequential one, instances exist while they are used, passes do not overlap,
  nothing is in flight at exit, everything ends;
* two-part tasks: the result is complete, slots outlive the stores into them, the
  call returns;
* runtime life cycle: closures outlive their controllers, a task finds itself
  registered, nothing is in flight at shutdown, every rank exits;
* lowering: it aborts on exactly the graphs and mappings it cannot express, and otherwise every
  shard of every task is there, on its device, and reads what the source graph says;
* graph algorithms: the verdict on cycles is right, the order is topological, a
  decomposition orders what the graph orders and is found if there is one;
* search and machine mapping: no plan is faster than the result cached for a subproblem,
  the returned mapping takes no longer than claimed, nothing faster is lost, the
  search ends.

## 2. Modules

| module | models | extends |
|---|---|---|
| `DependencySet` | the two dependency-set classes and the merging of events, as operators | - |
| `DependencySet_proofs` | lemmas: what recording an invocation does to later readers and writers | `DependencySet` |
| `DependencyTracking` | the most general client of the dependency sets (the abstract specification) | `DependencySet` |
| `DependencyTracking_proofs` | the proofs about it | `DependencyTracking`, `DependencySet_proofs` |
| `RealmExecution` | the controller from instance allocation to the destructor of its context, and the runtime; refines `DependencyTracking` | `DependencySet` |
| `RealmExecution_proofs` | the proofs about it: types, the end of the context, lifetime of instances, barrier between passes, what instances hold, the refinement | `RealmExecution`, `DependencySet_proofs` |
| `TrainingLoop` | the end-to-end test's loop around `RealmExecution`, with its reads of the loss | `RealmExecution` |
| `TwoPartTasks` | init tasks, return tasks, their caller and their processors | - |
| `TwoPartTasks_proofs` | the proofs about it | `TwoPartTasks` |
| `OperatorTasks` | the table that gives operators their task ids, and the list of registered tasks | - |
| `RuntimeLifecycle` | main programs, managers, registration, controllers, tasks and return tasks on all ranks | `OperatorTasks` |
| `RuntimeLifecycle_proofs` | the proofs about it | `RuntimeLifecycle` |
| `DynamicGraph` | dynamic graphs, their validity check and the order of their invocations | - |
| `PassExpansion`, `TaskInsertion`, `CopyInsertion`, `ShardExpansion` | the lowering passes, as operators on dynamic graphs | `DynamicGraph` |
| `Lowering` | both backends' instance creation: one pass per step, with its assertions | the passes |
| `Lowering_proofs` | the proofs about it | `Lowering` |
| `TopologicalOrder` | `is_acyclic` and `get_topological_ordering` | - |
| `SPDecomposition` | `transitive_reduction`, `get_inverse_line_graph`, series and parallel reductions, `get_series_parallel_decomposition` | `TopologicalOrder` |
| `GraphAlgorithms_proofs` | the proofs about both | `SPDecomposition` |
| `MachineMapping` | views, trees, splits and results; which result `get_optimal_machine_mapping` saves for a subproblem, given those saved for its parts, and what the result should be | - |
| `CandidateSearch` | the candidate loop of `graph_optimize`, whatever mapping a graph costs (the abstract specification) | - |
| `CachedSearch` | `graph_optimize`: the loop with the machine mapping's costs and its cache, in any order of views and splits; refines `CandidateSearch` | `CandidateSearch`, `MachineMapping` |
| `CachedSearch_proofs` | the proofs about the three | `CachedSearch` |
| `UnitySearch` | `graph_optimize` as it runs, with the recursion of the dynamic program; refines `CachedSearch` | `CachedSearch` |
| `MCPrograms` | two lowered programs | - |
| `MC*` | instances for TLC | the module they are named after |

**Events** are sets of operations: an event has triggered when all operations in
it are done, `NO_EVENT` is `{}`, and `merge_events` is union. This is what Realm
gives a caller that only waits on and merges events.

**DependencyTracking** lets its client issue any member of `Invocation` (a
function from the operations an invocation becomes to what each reads and
writes, so that a broadcast or a reduction is one invocation of several
operations), register accesses that spawn nothing (inputs and weights), or begin
a new phase from all outstanding events. The runtime starts an operation whose
precondition has triggered and finishes it later.

**RealmExecution**. `ctl` is the controller's position in its straight-line code:

    allocating -> initializing -> waiting -> idle -> closing -> exited
                                             idle <-> dispatching
                                             idle -> aborted

| action | code |
|---|---|
| `AllocateInstances` | `perform_instance_allocation` |
| `SpawnInitTasks`, `InitTasksDone` | `perform_distributed_per_device_op_state_initialization`; the pair of tasks behind each init operation is `TwoPartTasks` |
| `BeginPass`, `IssueInvocation`, `EndPass` | `perform_*_for_pcg_instance` and the loop in `execute_distributed_dynamic_node_invocation_set`, one invocation per step |
| `AbortPass` | the failed `assert_unwrap` of a piece's filter |
| `DestroyInstances`, `CloseContext` | `~PCGInstance`, `~RealmContext` |
| `InstanceOperation`, `Start`, `Finish` | Realm (external), with the tasks' wait for their instances |

The program, an execution order of invocations, is a constant. `mem[v]` is the
set of operations whose results the instance of `v` holds: an ordinary write
replaces it, a reduction adds to it (`is_fold` is false), and an instance starts
with its creation, standing for uninitialised memory. Tensor data is not
modelled, but two executions that leave the same `mem` have computed the same
values, up to the order of additions in a reduction. The controller's steps
are interleaved with the runtime's, so a pass can be overtaken, or waited for, at
any point.

Realm's scheduling is over-approximated: operations start whenever their
preconditions allow, without waiting for a free processor. Safety results carry
over to every real schedule. Processors are modelled where they matter, in
`TwoPartTasks`: there a blocked wait could starve the very task waited for.

**TwoPartTasks**. `create_distributed_ff_handle` and
`perform_distributed_per_device_op_state_initialization` have the same protocol
and differ in what the slots stand for: a slot per processor, all of them
initialised, or a slot per invocation, of which some need no init task
(`Stateful`) and some keep pointers to device memory of the task's allocator
without keeping the allocator (`Borrowing`: dropout, batch norm, layer norm).
The former allocates all slots before spawning and the latter one at a time;
since a slot is touched by its own tasks only, the model takes the latter. The
`get_outstanding_events` an init task waits for before it starts is part of
`RealmExecution`. A wait gives the processor up, as a wait in a Realm task does.

**RuntimeLifecycle** has one main program per rank (`main[r]`), all running the same
code: construct the manager (`RegisterTasks`, `FinishRegistration`,
`EndConstructor`), start controllers and keep or discard their results
(`StartController`, `DiscardResult`, `WaitAndChange`), leave the scope
(`LeaveScope`, `LeaveResult`), and destroy the manager (`RequestShutdown`,
`EndManager`). A collective spawn is one task, which starts when all ranks have
asked for it; registration is local to a rank, and only that start keeps a task from
being sent to a rank too early. `BeginController`, `ControllerSpawns`,
`CloseController`, `BeginTask`, `CloseTask`, `BeginReturn`, ... are the bodies and
the contexts' destructors. `OperatorTasks` translates both tables of task ids, so a
task that can be spawned but is not registered would show.

**Lowering** takes a source graph (layers, arguments, which outputs want a gradient, the
mapping of each layer and of the loss) and performs the passes in the order of
`create_pcg_instance` and `create_computation_graph_instance`. The operators are weights,
inputs, the four parallel ones (`replicate`, which has branches of its own in
two passes, and `repartition`, `combine`, `reduction`, which take the ordinary ones) and
`compute` for all others. A mapping is what `MappedOperatorTaskGroup` holds: for every device
the shard of each slot, no two devices with the same ones throughout. The code asks nothing else of
mappings when they are made, so the model does not either (`IsMapping`): shards of one tensor may
be numbered differently by its producer and its readers, or not be there at all, and a
shard of a slot may be on several devices. A pass is an operator
of its module; its assertions (`check_dynamic_open_dataflow_graph_is_valid` after most passes,
`get_only`, `require_internal`, `assert_unwrap`, `bidict_from_unstructured_relation`,
`require_same`, `nonempty_set`, `at_l`) are guards, and what fails them
takes the step to `aborted`. Tensor data and attributes are left out; slots, values,
roles, shards, mappings and guids are kept, since lookups by equality of values
are where the passes meet.

**TopologicalOrder** and **SPDecomposition** keep the algorithms' own data: the
calls of the colouring search, the stack and the pending pushes of the unchecked
depth-first iterator, the adjacency matrix that is read while it is cleared, and the
reductions of a round, which are found together and applied one by one to a multigraph
that has changed. Where a `std::set` is walked in the order of ids, the order is left
open, except in the transitive reduction, whose loops follow the numbers.

**CandidateSearch**, **CachedSearch** and **UnitySearch**. `Begin`, `Pop`, `Evaluate`, `EndIteration` and
`ReturnResult` are the sections of `graph_optimize`; `BeginUndecomposable` and
`EvaluateUndecomposable` are the failed `expect` for a graph without a
series-parallel decomposition, of the first or any later graph. `CandidateSearch`
takes the cost of a graph as a parameter of the three sections that map one, so any
cost may come out, and another one when the same graph is mapped again. States
compare by runtime alone, so the queue is a set with at most one state per runtime,
and its top is the *slowest*. Graphs are names; what the substitutions make of
each is part of the problem, and may contain cycles.
`CachedSearch` adds the cache that all calls of `optimize_pcg` share: a call
(`Solve`) changes no entry, leaves one for the graph it maps, and every entry it adds
is `Justified`, that is, a fastest one of the results the code compares for that
subproblem, made of the entries for its parts; the cost of the graph is the
saved runtime. Justification does not say in which order the loops go or which of
several equally fast results is kept. `UnitySearch` computes: it threads the cache through every call in
the order of the code's recursion and loops and builds the problem trees from the
graphs' decompositions. `ImplementsSearch` says that this is one of the searches
`CachedSearch` allows, so every entry it ever saves is justified and none is replaced;
`CachedSearch` in turn is one of the searches `CandidateSearch` allows.
`MachineMapping` keeps the views, strides, offsets, constraints, paths and the division
of a slice (at powers of two from either end, `machine_resource_split.cc:52-64`); an
operator is its kind (equal operators have equal cost keys), a task space has at most
one dimension, and what the cost estimator answers, for an operator under a view and
for an edge of communication, is data. As in the code the estimate is made before
the view is offset, so it does not depend on where a slice begins.

## 3. Runs

| run | instance | shows |
|---|---|---|
| `dependency_tracking` | 3 operations, 2 tensors, every invocation, registration and phase structure | `SingleWriterMultipleReaders`, `ConflictsAreOrdered`, `NoSpuriousDependency`, `NoCyclicWait` |
| `replicated_training` | replicated weight, two losses, reduced gradient; up to 3 passes of any of the four kinds | `SequentialSemantics`, `InstanceLifetime`, `NothingPendingAtExit`, `PhaseBarrier`, `ImplementsDependencyTracking` |
| `pipeline_completes` | two devices, copies, op state, forward passes (which abort) and whole passes | `EverythingCompletes` |
| `two_part_tasks` | 4 values, 2 processors, one shared with the caller | `ResultComplete`, `SlotOutlivesReturn`, `CallReturns` |
| `lowering` | every graph of up to 4 layers (3 if with a repartition, combine or reduction) under mappings in which one layer or the loss is on other devices or numbers its shards differently, and larger data-parallel, pipelined, residual and twice replicated graphs under many more; both backends | `AbortsExactly`, `DataflowPreserved`, `LocalAccess`, `UpdatesComeLast`, `EveryShardRuns`, `LabelReachesLoss` |
| `runtime_lifecycle` | 2 ranks, 2 controllers, any one task | `ClosureOutlivesController`, `QuietAtShutdown`, `RegisteredBeforeUse`, `NoWaitAfterShutdown`, `EveryoneExits` |
| `graph_algorithms` | every graph of up to 3 nodes, every acyclic one of 4 under every numbering, those of 5 with one source and one sink | `VerdictIsRight`, `OrderIsTopological`, `TreesDenoteTheGraph`, `GivesUpOnlyWithoutDecomposition`, `DecompositionAnswers` |
| `compiler_search` | 9 graphs, 3 machines of up to 4 devices, 6 cost functions, 3 sets of substitutions, 3 values of alpha, every budget up to 4 | `ImplementsSearch`, `CachedResultsAreOptimal`, `ClaimIsRealised`, `NothingFasterIsForgotten`, `SearchEnds` |
| `overlapping_views` | the instance of `compiler_search`, mapping the first graph only | violates `CannotOverlap` |
| `optimizer_step` | pipeline, one pass | violates `OptimizerStepsUpdateWeights` |
| `epoch_losses` | pipeline, two epochs | violates `EpochLosses` |
| `state_memory` | as `two_part_tasks` | violates `StateMemoryLives` |

`dependency_tracking`, `replicated_training`, `two_part_tasks`, `lowering`,
`runtime_lifecycle` and `compiler_search` also check their module's `TypeOK`.

**Bounds.** `dependency_tracking`: a violation needs two conflicting operations
and at most one in between that hides the earlier record; three operations in
any grouping, with two tensors so that an operation can bridge from one to the
other, cover this. Operations and tensors are interchangeable, and the properties
do not name any, so the run uses their symmetry; it checks safety only. The
bound does not matter for what is proved. `MaxPasses = 3`: the barrier relates a
pass to *all* before it, so a merge that forgets is seen on the third pass at the
latest; with three passes each kind follows each other kind. `TwoPartTasks`: a
value on the caller's processor, two that compete for another one, and one
without an init task are all the cases its guards distinguish. `Controllers = 2`:
the second controller is started while the first one and its results live, and
nothing in the code relates three; the proofs hold for any number. Lowering: four
layers hold a weight, an input, a replicate and an operator on both, or an operator
whose result is used twice, which are the cases the passes distinguish; a repartition,
combine or reduction needs its argument and a reader around it; the passes
look at one value and its neighbours at a time. Two devices let mappings cross, four
let replicas have replicas. All its properties are proved for every graph and mapping. Graph algorithms: four nodes are the
least that can lack a decomposition (an N) and include walks that skip a node
and come back to it; with five, reductions take several rounds. The order's
properties are proved for every graph. `MaxBudget = 4`: four iterations expand the
first graph, its successors, and a graph the search has expanded before; with three
devices a machine is divided unevenly, with two by two in both dimensions.

**Deadlock** is checked in all passing runs but two; `Terminated` and `Returned` let
finished programs stutter, and only those. In `graph_algorithms` and
`compiler_search` a function returns or an assertion fails, and the model really
stops: `DecompositionAnswers` and `SearchEnds` say that it stops only there.

**Fairness.** `RealmExecution` assumes weak fairness of the controller (a thread
that is runnable is eventually run) and of the runtime as a whole (Realm goes on
as long as something can run). No fairness of a single operation is assumed: what
is issued is finite, and running operations cannot disable each other.
`TwoPartTasks` assumes only that some step is taken while one is possible, which
is the weakest assumption under which anything happens; every step makes
progress.
`RuntimeLifecycle` assumes weak fairness of each main program, of each thunk and task
body, and of the runtime's shutdown; no main program is assumed ever to wait for a
controller, and no controller to spawn anything. `SPDecomposition` and
`UnitySearch` are sequential code: some step is taken while one is possible.

**What the runs say about the code.** The properties hold as the code is written,
with four exceptions, where it disagrees with what it says about itself:
* weights are `NO_EVENT` whatever their task type (`pcg_instance.cc:322`), so no
  update task runs although the optimizer advances;
* the end-to-end test reads the loss with `NO_EVENT` (`test_e2e.cc:466`), so what it
  compares need not be from the epochs it names;
* an init task's state is allocated from the allocator of the task's own context,
  which destroys the memory when the task ends (`realm_allocator.cc:13`), so the
  state that was leaked in order to survive points to memory that did not;
* where a layer follows a parallel split, the series split fixes the views of the layers
  before it relative to the whole slice (`get_optimal_machine_mapping.cc:112`), the
  resource splits hand them on unchanged (`:250`), the leaf takes them without asking whether they
  fit its part (`:271-273`), and the right side is offset all the same: for a join of two layers on one node
  with three devices, layers claimed to run at once share a device
  (`overlapping_views`), which a test excludes at the root of a tree only.

More observations are part of the model and its properties rather than runs of their own:
* The filters of the forward, backward and update functions unwrap the task type of every
  invocation (`pcg_instance.cc:412`), which copies do not have: on a graph with a copy, each of the
  functions that `pcg_instance.h:92-96` offers "to dispatch just a piece of a training
  iteration" aborts the process. `AbortPass` is this step; `pipeline_completes` takes it.
* `AbortsExactly` names what cannot be lowered, for every source graph of the
  assumptions (`IsSourceGraph`). A tensor with two differentiated uses and a logit that
  is used again fail the validity check, a replicated input
  that wants a gradient nobody consumes fails in copy insertion. And the mappings have
  to fit (`MappingsFit`): no slot, but the input of a replicate, may have one shard on two devices
  (`mapped_operator_task_group.cc:113`, called from `copy_insertion.cc:315-320`), and what an
  operator or the loss takes for the shards of an argument must be the shards its producer makes
  (`shard_expansion.cc:187`, at the copy between the two, and the `nonempty_set` of `:259`
  for a replicate). A mapping that keeps the
  devices of both its sides apart has as many shards on one as on the other, so no
  Repartition, Combine or Reduction that changes the number of shards can be lowered,
  however it is mapped, although `task_id_t.cc` has task ids for them.
* The defect that `CannotOverlap` shows is not a corner case. Weights and inputs are
  leaves of the problem tree as operators are (`get_pcg_series_parallel_decomposition.cc:13-19`),
  so nearly every real graph has a parallel split on the boundary of a series split, and
  `FixedAround` of its tree is not empty. What the other two properties say of such
  graphs: `ClaimIsRealised` holds of every tree, but does not count the layers in
  `FixedAround` when it asks what shares a device or lies on the machine: only these
  are spoilt, all other layers and all costs and communication are as claimed.
  `CachedResultsAreOptimal` compares with the plans only where `FixedAround` is empty and
  no such view is fixed from outside (all chains and parallel splits of chains, also
  inside other trees). Elsewhere the claim need not be the best one: for two layers of two
  shards each and a third one after both, on one node with two devices, where a layer
  takes 2 and an edge of communication 5, the code claims 14 and uses a third device that does not
  exist, while running all three one after the other on the two devices takes 6. The
  proof of `CachedOptimal` showed this; TLC confirms it on that instance.
* `Plans`, what a result is compared with, divide a slice where the code does: with a
  power of two on one side. Six devices are never divided into three and three, which
  may be faster.
* `ClaimIsRealised` says that the mapping takes *no longer* than claimed. It may
  take less: two layers that the code runs one after the other may have been placed on
  different devices.
* `UpdatesComeLast` speaks of the forward tasks that read the shard of the weight that
  an update changes; a weight has one shard (`weight.cc` lifts its task space to a
  trivial one), so that shard is all of it.
* With alpha below one the search never expands a first graph that can be mapped
  (`unity_algorithm.cc:112`), and a substituted graph without a decomposition ends
  the search with a failed assertion (`:76`; the test for `nullopt` at `:124` is
  never met). `NothingFasterIsForgotten` states the former.

**Mutants.** Each property of a passing run comes with a changed definition of the
code's model that breaks it: a reader recorded as a writer, a record that
replaces instead of merging, an input's dependency forgotten, a queue not put
back, no barrier, instances destroyed when ready, an init task that does not
wait, a return task sent to the wrong processor, passes swapped, replicas paired
with each other's coordinates, a stack entry left behind, a flag that is not reset, a
cache key without its constraints, a mapping that is not offset, an iteration that is
not counted. They stand next to the definitions they change.

## 4. Proofs

`DependencyTracking_proofs` proves, for every set of operations, tensors and
invocations that meets the two assumptions about the constants' types, that
`Spec` implies `[]TypeOK`, `[]ConflictsAreOrdered`,
`[]SingleWriterMultipleReaders`, `[]NoCyclicWait` and `[]NoSpuriousDependency`.

None of these is inductive. The invariant is `IInv`, whose parts are:
* `AccessesRecorded`: for every issued operation, what a reader (writer) of a
  tensor would be told to wait for now contains the operation if it wrote (touched)
  the tensor, up to the operation's peers. This is where the dependency sets do
  their work, and three lemmas of `DependencySet_proofs` (`ReaderAfterRecord`,
  `WriterAfterRecord`, `AfterRecord`) say what a record does to the two answers;
* `EventsAreIssued`, `PeersAreIssued`: events mention only issued operations, so
  a fresh operation cannot be waited for;
* `ConflictsAreOrdered`, from the above: the later of two conflicting operations
  has the earlier one in its precondition;
* `StartedAfterPrecondition`: what runs has its precondition done; with the order
  of conflicts it gives mutual exclusion;
* `NoCyclicWait`: the precondition of a new operation consists of issued ones.

`NoSpuriousDependency` is the converse and needs more, `SInv`: whatever a later reader
(writer) of a tensor would wait for, beyond the precondition of the pass, belongs to
an invocation that writes (touches) the tensor, or is waited for by something else
that it waits for (`DependenciesHaveReasons`). The second case is
a reader before the last writer: the code merges it into the writer's event, and the
writer waited for it.

Each action has a lemma of its own (`IssueIInv`, `BeginPhaseIInv`, ...), and the
theorems follow by temporal logic from `InductiveInvariant` (the last from `SInv`).

`RealmExecution_proofs` proves every safety property of the run `replicated_training`, for every program that meets
`ProgramAssumption` (what the lowering guarantees), any passes and any number of them:
* `[]TypeOK`, `[]NothingPendingAtExit`, `[]InstanceLifetime` and `PhaseBarrier` rest on
  `IInv`. `QueueIsComplete`: the queue stands for everything issued but the
  destructions, until `CloseContext` has awaited it. `PhaseStartsFromQueue`: a pass
  takes the whole queue as the precondition of its dependency set, and whatever is
  recorded a later access still waits for it (`RecordKeepsPrecondition`). Hence every
  operation waits for all earlier passes and for all creations, and every destruction
  for everything else (`PreconditionsReach`). `IssuedInOrder` says that no operation is
  issued twice, without which an operation that is done could become undone.
* `[]SequentialSemantics` rests on `MInv`, which adds: accesses are on record
  (`AccessesRecorded`); of two clashing operations the later one in execution order waits
  for the earlier one (`ClashesAreOrdered`); an instance holds what survives of the
  results of the writers done so far (`MemoryIsSequential`). When an operation finishes,
  none that clashes with it and comes later can be done (`NotOvertaken`), so it is the
  last writer (`FinishMemory`; a reduction adds to what is there); when it reads, all
  earlier writers are done (`NothingMissed`).
* `Refinement`: `Spec` implies `ImplementsDependencyTracking`, one lemma per kind of step.
  The view of a dependency set through the operations that access tensors commutes
  with recording (`AccessingRecord`); the operations of an invocation together access
  what the invocation does (`TogetherTheyAccess`); and the execution order keeps an
  invocation that spawns nothing from producing what has been accessed (`ValuesMet`).

`TwoPartTasks_proofs` proves `[]TypeOK`, `[]ResultComplete` and
`[]SlotOutlivesReturn` for any number of values and processors and any placement.
Its invariant relates the caller's position to the init tasks
(`CallerProgress`), each init task to its return task (`InOrder`), and both to the
slot (`SlotOf`). The argument is the one the code rests on: the caller has
passed its wait only if all init tasks are done, an init task is done only after
its return task, hence while a return task can still store, the caller waits.

`RuntimeLifecycle_proofs` proves all five safety invariants of the run for any
number of ranks, controllers and tasks. The invariant says what a main program has
done when (`MainInv`), that a closure is changed or freed only once its controller is
done (`ClosureInv`), that a task's controller outlives the task and the task its
return task (`TaskInv`), and that the runtime goes down only after all controllers
(`DownInv`). That a spawnable task is registered is a lemma about the two tables,
for every operator in them.

`GraphAlgorithms_proofs` proves all four safety invariants of the run `graph_algorithms`.
`[]VerdictIsRight` and `[]OrderIsTopological` hold for every set of finite graphs.
`CheckInv`: the running calls form a path, every successor of a node under exploration is accounted for, and nodes become fully
explored after their successors; so the order of exploration ranks the nodes,
and a nonempty set of nodes has a member without a predecessor in the set
(`HasSource`). `OrderInv`: an unlisted node whose predecessors are all listed is on the
stack or about to be pushed. With an empty stack, every unlisted node thus has
an unlisted predecessor, and `HasSource` leaves none.

`[]TreesDenoteTheGraph` and `[]GivesUpOnlyWithoutDecomposition` hold for every set of
finite graphs whose nodes are positive numbers (`NodesAssumption`). What is proved
is that the multigraph is a *picture* of the order (`Net`): its edges divide the layers
among them; of two edges either all layers of one precede all of the other or none does;
edges that meet are ordered, edges that are ordered are joined by a path; and there
is one source and one sink.
* *It begins as one.* `transitive_reduction` computes the closure and then leaves
  exactly its covers, although its inner loops read the matrix they clear
  (`ClosureFacts`, `MatrixIsReduced`, `CoversAreEdges`, `ReductionFacts`). If the covers are
  a line graph, its inverse is a picture (`LineGraphIsNet`); if not, the order holds
  an N, `a < c > b < d` (`NoLineGraphOnlyWithN`).
* *It stays one.* Parallel edges and strands give way to one edge that stands for
  the same part (`ParallelReplaces`, `SeriesReplaces`, `Replaced`). The reductions of a
  round are found together and applied one by one: those not applied yet still fit
  the changed multigraph (`ParallelPending`, `SeriesPending`), since they share no edge
  with the one that was.
* *Trees.* `Poset` gives a tree its layers and its order by its depth; deeper tables
  extend shallower ones (`PosetGrows`), and the compositions, which merge nested splits of
  their own kind, mean what they should (`SeriesComposed`, `ParallelComposed`). No tree
  holds an N (`TreesAreSound`, `DenotedHasNoN`).
* *It ends right.* A round that finds nothing leaves a picture without parallel edges and
  without strands. If it has two edges, some two end at one node (`Merges`); the last such
  node, its deepest edge and the edges beside and before that one form an N
  (`StuckZigzags`, `StuckHasN`). Otherwise one edge is left, with two different ends.
`DecompositionInv` collects what each half of a round may count on.

`Lowering_proofs` proves all seven invariants of the run `lowering`, for every set of
source graphs that meet `IsSourceGraph`: any number of layers and devices, all parallel operators, any
mappings, both backends. Its inductive invariant `IInv` says what the graph *is* after each pass,
as a set of tasks built from the layers (`Dynamic`, `Expanded`, `Complete`,
`Updated`, `Copied`, `Sharded`), and which assertions have failed when the state is
`aborted`. That a pass turns one into the next is a lemma for each; the rest is about these
graphs.
* *What is differentiated.* The pass expansion finds the values that need a gradient
  by two walks; `NeededIsPath` says that what they leave is the gradient path of
  the source graph. With it, `TaskReads` and `TaskMakes` list for each layer which
  tasks read and make its values. `[]LabelReachesLoss` follows.
* *Where a slot is.* Copy insertion looks at the neighbours of a site to find where its
  value is. `SiteMapping` and `PlaceFacts` give the answer from the source alone
  (`PlaceOf`, `Home`): a value lives where its layer's mapping puts each of its shards, and
  a copy is inserted where the reader's mapping puts them elsewhere. What a mapping says of a slot is a function from
  shards to devices only if no two devices have one shard; this is what the assertion of copy
  insertion gives (`ApartFacts`, `NodeMappingIs`). A shard of a task is described by
  `IsShard`, and `ShardedMembers` lists all shards of a lowered graph. `[]EveryShardRuns`
  and `[]LocalAccess` follow, and, with `MakersAreUnique` and a case for each way
  a value comes to its reader (`MakerAtHome`, `MakerElsewhere`),
  `[]DataflowPreserved`.
* *Which assertion fires.* `AbortsExactly` is an equivalence, so both directions are
  needed. `UniqueMakersIff`: every value has one maker if and only if no tensor has
  two differentiated uses; `ResolvedIff`: if the mappings fit, copy insertion finds the mapping of every
  site if and only if the gradient of a replicate's input is read, and if they do not, it
  may find them all, but then shard expansion fails (`FittedIfAgreed`: if every copy has the same
  shards on both sides, and so on, the mappings fit). A graph that meets all three
  passes every assertion: it is acyclic because its tasks can be given levels
  (`LevelOf`: forward values by their layers, gradients above them and in the
  reverse order, doubled where copies come in between), and one that can be given
  levels is added completely by the rounds of the check (`LevelledIsAcyclic`).
* *Updates last.* What precedes a task is closed under makers (`PrecedesIsClosed`).
  A set so closed that holds an update's gradient holds the backward
  task of each user of the weight, and with it the user's forward task. A
  replicate's backward task reads nothing of its forward task; there the chain goes on
  through its users until it reaches an operator or the loss (`ForwardFirst`).

The passes and checks are written as recursive functions (iterations and closures). That
such a function exists and what it computes for every argument is proved by taking
a least counterexample (`Least`, `Iteration`, `GrowthEnds`, `PathUnfolds`), which
needs no induction principle over an operator.

`CachedSearch_proofs` first proves, of the abstract search, `[]TypeOK` (among it, the queue holds at most one
state of each runtime, and the budget is kept) and `[]NothingFasterIsForgotten` for any
graphs, substitutions, costs, budgets and alphas. The invariant strengthens the
latter to the middle of an iteration: while the successors of a candidate are mapped, a
state dropped from the queue for its equal has that equal in the queue, and one
beyond alpha is slower than the best (`BeyondAlphaIsSlower`, the one place
where `alpha >= 1` is used); for `alpha < 1`, a first graph that takes time stays
the only one (`FirstStaysAlone`, `NotWithinItself`). Since
every search with a cache is such a search (`CachedSearchSearches`), the results hold of
the costs that mapping really has.

Then it proves `[]CachedResultsAreOptimal` and `[]ClaimIsRealised` of the search with
the cache (`CachedOptimal`, `ClaimRealised`), for any operators and degrees, trees of
any shape, machines of any size and any costs, in two parts.
* *What a justified cache holds* (`CacheSolves`). `Solves(ctx, q, r)` says that the result
  `r` keeps the views fixed in `q`, stays within the slice and takes, run as `RuntimeUnder`
  runs it, no longer than it says (`Realises`), and is no slower than any plan that keeps
  them (`Beats`). In a cache that justifies all it holds, every entry solves its
  subproblem: by induction on the depth of the tree, whose step takes a leaf, a series
  split and a parallel split apart. A plan for a series split is met at the views it gives
  the boundary: for these the code asks both sides, and their results,
  keeping the boundary's views, cost the same to connect. For a parallel
  split, offsetting a mapping into its part of the slice moves its devices off the
  other part's and changes no runtime. Both need that a fixed view lies within
  the slice, hence that none is fixed for a layer whose slice may still be divided. Such
  layers are the ones outside `Exposed` and, if a split on the way fixes them,
  the ones in `FixedAround`; the induction carries for every tree that
  all other layers are placed, and `Beats` where there are none. Without
  the exceptions the statements are false (`CannotOverlap`, Section 3).
* *The cache stays justified* (`CachedIInv`). A cache that only grows keeps the
  entries it holds justified, because the parts of an entry are there and do not change
  (`PartsStay`, `ResultsStay`, `JustifiedStays`); every state in the queue and the best
  one have the runtime saved for their graphs, so the last call, which finds the best graph
  in the cache, answers with the mapping that decided the search.

The recursive functions over trees (`KindsOf`, `Exposed`, `FixedAround`, plans and
runtimes) are shown to exist, and to be what their equations say, by well-founded
recursion on `Depth`. That `UnitySearch`, which computes by `RECURSIVE` operators,
is one of the searches with a cache is model-checked (`ImplementsSearch`): with it the
theorems are about the code's recursion.

Assumed are only the named assumptions on the constants, which TLC evaluates in the runs:
types (`InvocationAssumption`, `RegisteredAssumption`, `PassAssumption`,
`CallAssumption`, `RuntimesAssumption`, `ProblemsAssumption`, `MappingAssumption`);
positive degrees (`DegreesAssumption`); that a problem tree is built from leaves in finitely
many steps (`TreesAssumption`); finiteness of the graphs
(`GraphsAssumption`) and, for their decomposition, numbers as nodes (`NodesAssumption`:
the code's nodes are ids too); a root rank and at least one controller; of a program, one
producer per value, producers before consumers, and that what becomes an operation
accesses something (`ProgramAssumption`); of a source graph, that arguments are
earlier layers, one for a parallel operator and at most two for others, that a mapping gives a
device a shard of every slot and no two devices the same ones throughout (a `bidict`), and
that the shards a replicate replicates are among those of its argument
(`SourceGraphsAssumption`; that mappings are one-to-one slot by slot, or agree from layer to
layer, is not assumed); and that the label, the loss and the copies have
identities of their own, and the optimizer's slots roles of their own
(`IdentitiesAssumption`: in the code these are different alternatives of variants).

Only model-checked:
* `ImplementsSearch`: the recursion of `get_optimal_machine_mapping`,
  which threads the cache through its loops, is one of `RECURSIVE` operators in
  `UnitySearch`, about which the prover cannot reason; everything that could be said without them was moved to `CachedSearch`;
* liveness under fairness (`EverythingCompletes`, `CallReturns`, `EveryoneExits`,
  `DecompositionAnswers`, `SearchEnds`), and `ENABLED`, which are out of its reach;
* `TrainingLoop`, whose one property is violated.

## 5. Not modelled

* In the modelled parts: the map from layers to events that a pass returns (no caller
  uses it), topology discovery and choice of memories, profiling, tensor data
  and shapes. A preallocated tensor that survives the lowering on the Realm backend is
  `NOT_IMPLEMENTED` in the code; the programs of the runs have none. Failures inside
  Realm (out of memory, lost nodes) are not handled by the code and not modelled. In
  the reductions, uninitialised memory is part of the model (the instance's creation
  stays among the contents) but not judged.
* Lowering: operators with more than an input and a weight, or with several outputs, which
  the passes treat slot by slot as they do two; and a replicate whose mapping
  names shards its input does not have. The code loops over the input's
  shards (`shard_expansion.cc:322`) and drops the devices of other shards without a word, so the task
  would run on fewer devices than its mapping names; `IsLayer` excludes it.
* Search: the Monte Carlo variants (`mcmc`), whose steps are random and of which a
  model could only say that anything may be proposed; the mapping under memory limits
  (`memory_optimization`), which has the same recursion over Pareto frontiers; task
  spaces of several dimensions; the substitutions themselves, for which the search
  takes any relation between graphs; the task graph simulator, one of several
  estimators behind the constant costs.
* Local execution: after the instance is created, a pass is a loop over the topological
  order with no concurrency; the cost estimator measures time and memory.
* Components without state or control of their own: task specifications (argument
  plumbing), operator attributes and shape inference (case tables), models (data),
  kernels (numerical code), serialisation, bindings and tools.

## 6. Plan

1. *Done*: dependency tracking, execution of a PCG instance and its refinement, two-part
   tasks, runtime life cycle, topological order, series-parallel decomposition,
   lowering, machine mapping and the search with its cache, with proofs; training
   loop; the search as it runs.
2. The calls of `get_optimal_machine_mapping` as a stack, so that `ImplementsSearch` can
   be proved.
3. The output of `Lowering` as the source of `RealmExecution`'s programs: that
   `ProgramAssumption` holds of every lowered graph in topological order.
4. The task graph simulator as a state machine that refines an abstract schedule:
   devices are exclusive, tasks start after their predecessors.
5. Machine mapping under memory limits; substitutions with their interfaces.
