---------------------------- MODULE OperatorTasks ----------------------------
(***************************************************************************)
(* The Realm tasks of the operators, from the two tables that have to      *)
(* agree: the one that gives an operator its task ids, and the list of     *)
(* tasks registered with the runtime.  A task id is <<phase, operator>>.   *)
(***************************************************************************)
EXTENDS Naturals

Kinds == {"LOC_PROC", "TOC_PROC"}   \* CPUs and GPUs

\* The operators that have a task to initialise their per-device state.
OpsWithInit ==
  {"BatchNorm", "Combine", "Conv2D", "Dropout", "ElementBinary", "ElementUnary",
   "Gather", "LayerNorm", "Linear", "MultiHeadAttention", "Pool2D", "Reduce",
   "Reduction", "Repartition", "Softmax"}

\* The operators that have a forward and a backward task.
OpsWithTasks ==
  OpsWithInit \cup
  {"BatchMatmul", "Broadcast", "Cast", "Concat", "Embedding", "Flat", "Reshape",
   "Reverse", "Split", "TopK", "Transpose", "Upsample"}

Optimizers == {"SGD", "Adam"}

InitTaskIds == {"INIT"} \X OpsWithInit
PassTaskIds ==
  ({"FWD", "BWD"} \X OpsWithTasks) \cup ({"UPD"} \X Optimizers) \cup {<<"LOSS", "Loss">>}

Controller == <<"CONTROLLER", "any">>
HandleInit == <<"INIT", "handle">>
HandleReturn == <<"RETURN", "handle">>
StateReturn == <<"RETURN", "state">>

\* The return task an initialisation task spawns.
ReturnTask(id) == IF id = HandleInit THEN HandleReturn ELSE StateReturn

\* What is registered, and for which kind of processor.
RegisteredInit ==
  {"BatchNorm", "Combine", "Conv2D", "Dropout", "ElementBinary", "ElementUnary",
   "Gather", "LayerNorm", "Linear", "MultiHeadAttention", "Pool2D", "Reduce",
   "Reduction", "Repartition", "Softmax"}
RegisteredPasses ==
  {"BatchMatmul", "BatchNorm", "Broadcast", "Cast", "Combine", "Concat", "Conv2D",
   "Dropout", "ElementBinary", "ElementUnary", "Embedding", "Flat", "Gather",
   "LayerNorm", "Linear", "MultiHeadAttention", "Pool2D", "Reduce", "Reduction",
   "Repartition", "Reshape", "Reverse", "Softmax", "Split", "TopK", "Transpose",
   "Upsample"}
RegisteredIds ==
  ({"INIT"} \X RegisteredInit) \cup ({"FWD", "BWD"} \X RegisteredPasses)
    \cup ({"UPD"} \X {"SGD", "Adam"}) \cup {<<"LOSS", "Loss">>, HandleInit}
Registered ==
  (RegisteredIds \X Kinds)
    \cup ({Controller, HandleReturn, StateReturn} \X {"LOC_PROC"})

\* The tasks a controller's context may be asked to spawn: every operator with ids,
\* three parallel operators among them (whose tasks' bodies abort: they ask for an
\* operator of the computation graph).
SpawnableIds == InitTaskIds \cup PassTaskIds \cup {HandleInit}
=============================================================================
