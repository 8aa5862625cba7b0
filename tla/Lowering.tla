------------------------------- MODULE Lowering -------------------------------
(***************************************************************************)
(* create_pcg_instance and create_computation_graph_instance up to the     *)
(* allocation of the tensors: a mapped parallel computation graph (backend *)
(* "realm") or a computation graph ("local") is lowered, one pass after    *)
(* another, to a dynamic graph of invocations.  An assertion that fails in *)
(* a pass aborts the process.                                              *)
(*                                                                         *)
(* A source graph is a sequence of layers, arguments first.  A layer has   *)
(* an operator, its arguments (layers), whether its output wants a         *)
(* gradient, and a mapping, made by hand: for every device, the shard of   *)
(* each slot it works on (no devices if it is local).  Layer k makes       *)
(* tensor k, whose shards are the ones its mapping has for the output.     *)
(***************************************************************************)
EXTENDS PassExpansion, TaskInsertion, CopyInsertion, ShardExpansion

CONSTANT SourceGraphs   \* records: backend, layers, logit (0: no loss), lossMapping

Backends == {"local", "realm"}
ParallelOperators == {"replicate", "repartition", "combine", "reduction"}
Operators == {"weight", "input", "compute"} \cup ParallelOperators

ArgumentSlot == <<"INPUT", "WEIGHT">>
NamesOf(layer) == {ArgumentSlot[a] : a \in DOMAIN layer.args} \cup {"OUTPUT"}

ShardsAt(mapping, name) == {mapping[d][name] : d \in DOMAIN mapping}

\* A device has a shard, counted from one, of every slot, and no two devices have
\* the same ones throughout (a bidict).  Nothing else is asked of a mapping.
IsMapping(backend, mapping, names) ==
  /\ mapping \in [DOMAIN mapping -> [names -> Nat \ {0}]]
  /\ IsFiniteSet(DOMAIN mapping) /\ "none" \notin DOMAIN mapping /\ IsInjective(mapping)
  /\ DOMAIN mapping = {} <=> backend = "local"

\* An operator takes an input and perhaps a weight; a parallel one changes the shards
\* of one input, and has no place in a computation graph.  A replicate makes replicas
\* of the shards there are (others would be dropped without a word).
IsLayer(src, k) ==
  LET layer == src.layers[k] IN
  /\ layer.op \in Operators /\ layer.grad \in BOOLEAN
  /\ layer.args \in Seq(1..(k - 1)) /\ Len(layer.args) <= 2
  /\ layer.args = <<>> <=> layer.op \in {"weight", "input"}
  /\ IsMapping(src.backend, layer.mapping, NamesOf(layer))
  /\ layer.op \in ParallelOperators => Len(layer.args) = 1 /\ src.backend = "realm"
  /\ layer.op = "replicate" =>
       ShardsAt(layer.mapping, "INPUT")
         \subseteq ShardsAt(src.layers[layer.args[1]].mapping, "OUTPUT")

IsSourceGraph(src) ==
  /\ src.backend \in Backends
  /\ src.layers \in Seq(Range(src.layers))
  /\ \A k \in DOMAIN src.layers : IsLayer(src, k)
  /\ src.logit \in 0..Len(src.layers)
  /\ src.logit # 0 => IsMapping(src.backend, src.lossMapping, {"INPUT", "LOGIT"})

ASSUME SourceGraphsAssumption == \A src \in SourceGraphs : IsSourceGraph(src)

\* The label, the loss and the copies have identities of their own, and the
\* optimizer's tensors have roles of their own.
ASSUME IdentitiesAssumption ==
  /\ {LabelTensor, LossGuid, CopyGuid} \cap Nat = {}
  /\ OptimizerSlots \cap {"none", "fwd", "grad", "loss"} = {}

VARIABLES stage,      \* the last pass performed, or "aborted"
          source,     \* the source graph
          graph,      \* dg
          inputs,     \* the preallocated values
          instances   \* the values memory was allocated for

vars == <<stage, source, graph, inputs, instances>>

Layer == DOMAIN source.layers
HasLoss == source.logit # 0
Local == source.backend = "local"

TensorOf(k) ==
  [tensor |-> k, grad |-> source.layers[k].grad, role |-> "none", coord |-> 0, mapping |-> {}]

InvocationOf(k) ==
  LET layer == source.layers[k]
  IN [guid |-> k, op |-> layer.op, task |-> "none", devices |-> {},
      mapping |-> layer.mapping,
      ins |-> [s \in {Slot(ArgumentSlot[a]) : a \in DOMAIN layer.args} |->
                 TensorOf(layer.args[CHOOSE a \in DOMAIN layer.args :
                                       ArgumentSlot[a] = s.name])],
      outs |-> Port(Slot("OUTPUT"), TensorOf(k))]

Init ==
  /\ source \in SourceGraphs
  /\ stage = "mapped" /\ graph = {} /\ inputs = {} /\ instances = {}

\* A pass succeeds if its assertions hold and its result is a valid graph.
Perform(from, to, asserted, result) ==
  /\ stage = from
  /\ IF asserted /\ IsValid(result)
     THEN stage' = to /\ graph' = result
     ELSE stage' = "aborted" /\ UNCHANGED graph
  /\ UNCHANGED <<source, instances>>

MakeDynamicGraph ==
  /\ Perform("mapped", "dynamic", TRUE, {InvocationOf(k) : k \in Layer})
  /\ UNCHANGED inputs

PerformPassExpansion ==
  /\ Perform("dynamic", "expanded", TRUE, ExpandPasses(graph))
  /\ UNCHANGED inputs

\* Mutant: the two values loss insertion returns are swapped.
PerformLossInsertionSwapped ==
  /\ stage = "expanded" /\ HasLoss
  /\ \E logit \in FindOutput(graph, source.logit, "fwd") :
       /\ graph' = InsertLoss(graph, logit, source.lossMapping)
       /\ inputs' = {LogitGradient(logit)}
  /\ stage' = "with loss"
  /\ UNCHANGED <<source, instances>>

PerformLossInsertion ==
  /\ stage = "expanded" /\ HasLoss
  /\ \E logit \in FindOutput(graph, source.logit, "fwd") :
       /\ graph' = InsertLoss(graph, logit, source.lossMapping)
       /\ inputs' = {LabelValue(logit)}
  /\ stage' = "with loss"
  /\ UNCHANGED <<source, instances>>

PerformUpdateInsertion ==
  /\ Perform(IF HasLoss THEN "with loss" ELSE "expanded", "with updates",
             NoDuplicates(graph, WithUpdate), InsertUpdates(graph))
  /\ UNCHANGED inputs

PerformCopyInsertion ==
  /\ ~Local
  /\ Perform("with updates", "with copies",
             MappingsResolve(graph),
             IF MappingsResolve(graph) THEN InsertCopies(graph) ELSE {})
  /\ UNCHANGED inputs

PerformShardExpansion ==
  /\ Perform("with copies", "sharded",
             /\ \A i \in graph : ShardsAgree(i)
             /\ NoDuplicates(graph, Shards),
             ExpandShards(graph))
  /\ UNCHANGED inputs

\* The local backend uses the preallocated tensors among the graph's values;
\* for the Realm backend that is not implemented.
AllocateInstances ==
  LET preallocated == AllValues(graph) \cap inputs IN
  /\ stage = IF Local THEN "with updates" ELSE "sharded"
  /\ IF Local \/ preallocated = {}
     THEN stage' = "allocated" /\ instances' = AllValues(graph) \ preallocated
     ELSE stage' = "aborted" /\ UNCHANGED instances
  /\ UNCHANGED <<source, graph, inputs>>

Terminated == stage \in {"allocated", "aborted"} /\ UNCHANGED vars

Next ==
  \/ MakeDynamicGraph \/ PerformPassExpansion \/ PerformLossInsertion
  \/ PerformUpdateInsertion \/ PerformCopyInsertion \/ PerformShardExpansion
  \/ AllocateInstances \/ Terminated

Spec == Init /\ [][Next]_vars
-------------------------------------------------------------------------------
\* What the source graph says, without the passes.

Trainable(k) ==
  source.layers[k].op = "weight" \/ (source.layers[k].op = "input" /\ source.layers[k].grad)

Arguments(k) == Range(source.layers[k].args)

\* A gradient has to flow through layer k.
InGradientPath ==
  LET Path[k \in Layer] == \E a \in Arguments(k) : Trainable(a) \/ Path[a]
  IN [k \in Layer |-> Path[k]]

\* The loss depends on tensor k.
ReachesLoss ==
  LET Reach[k \in Layer] ==
        k = source.logit \/ \E u \in Layer : k \in Arguments(u) /\ Reach[u]
  IN [k \in Layer |-> Reach[k]]

\* Where the gradient of tensor k comes from: uses that are differentiated.
GradientUses(k) ==
  {use \in Layer \X DOMAIN ArgumentSlot :
     /\ use[2] \in DOMAIN source.layers[use[1]].args
     /\ source.layers[use[1]].args[use[2]] = k
     /\ InGradientPath[use[1]]}
  \cup (IF k = source.logit THEN {<<0, 0>>} ELSE {})

\* Somebody waits for the gradient of tensor k.
GradientIsConsumed(k) == source.layers[k].op = "weight" \/ InGradientPath[k]

\* No two devices have the same shard of a tensor.
Apart(mapping, name) ==
  \A d, e \in DOMAIN mapping : mapping[d][name] = mapping[e][name] => d = e

\* The mappings keep the devices of every tensor apart, except that replicas have the
\* same input, and give an operator and the loss the shards their arguments have.
MappingsFit ==
  /\ \A k \in Layer :
       LET layer == source.layers[k] IN
       /\ \A name \in NamesOf(layer) :
            (layer.op = "replicate" /\ name = "INPUT") \/ Apart(layer.mapping, name)
       /\ \A a \in DOMAIN layer.args :
            ShardsAt(layer.mapping, ArgumentSlot[a])
              = ShardsAt(source.layers[layer.args[a]].mapping, "OUTPUT")
  /\ HasLoss =>
       /\ Apart(source.lossMapping, "INPUT") /\ Apart(source.lossMapping, "LOGIT")
       /\ ShardsAt(source.lossMapping, "LOGIT")
            = ShardsAt(source.layers[source.logit].mapping, "OUTPUT")

Lowerable ==
  /\ MappingsFit
  /\ \A k \in Layer : Cardinality(GradientUses(k)) <= 1
  /\ \A k \in Layer :
       source.layers[k].op = "replicate" /\ InGradientPath[k] =>
         \A a \in Arguments(k) : GradientIsConsumed(a)
-------------------------------------------------------------------------------
Lowered == stage \in {"sharded", "allocated"}

\* Every invocation has a task type after pass expansion (copies never get one),
\* every value a mapping after copy insertion, and both a place on the machine
\* after shard expansion and never before; the local backend gives neither.
TypeOK ==
  /\ stage \in {"aborted", "mapped", "dynamic", "expanded", "with loss", "with updates",
                "with copies", "sharded", "allocated"}
  /\ \A i \in graph :
       /\ i.task \in {"none", "FWD", "BWD", "UPD", "LOSS"}
       /\ stage \notin {"mapped", "dynamic", "aborted"} => i.op = "copy" \/ i.task # "none"
       /\ i.devices # {} <=> Lowered /\ ~Local
  /\ \A v \in AllValues(graph) :
       /\ v.coord > 0 <=> Lowered /\ ~Local
       /\ stage # "aborted" => (v.mapping # {} <=> ~Local /\ (Lowered \/ stage = "with copies"))
  /\ instances \subseteq AllValues(graph)

\* Creating an instance aborts exactly for the graphs that need a gradient to be
\* summed (a tensor with two differentiated uses, a logit that is used again)
\* or thrown away (a replicated input that wants one), and for mappings that do not
\* fit: no Repartition, Combine or Reduction that changes the number of shards can
\* be mapped so that it is lowered.  For all others the passes' assertions hold.
AbortsExactly ==
  /\ stage = "aborted" => ~Lowerable
  /\ stage = "allocated" => Lowerable
-------------------------------------------------------------------------------
\* Copies are looked through to the invocation that computes a value.
ComputedBy(v) ==
  LET Makers(w) == {i \in graph : w \in Values(i.outs)} IN
  UNION {IF i.op = "copy" THEN UNION {Makers(w) : w \in Values(i.ins)} ELSE {i} :
           i \in Makers(v)}

Reads(i) == {i.ins[s] : s \in DOMAIN i.ins}

\* What an invocation reads was computed, as this shard of this tensor, by the
\* task the source graph says: a value by its layer's forward task, a gradient
\* by the backward task of the tensor's only differentiated use or by the loss.
\* Only the label, the optimizer's state, and gradients of tensors without a
\* differentiated use come from nowhere.
DataflowPreserved ==
  Lowered => \A i \in {j \in graph : j.op # "copy"} : \A v \in Reads(i) :
    IF v.role = "loss" \/ v.role \in OptimizerSlots
       \/ (v.role = "grad" /\ GradientUses(v.tensor) = {})
    THEN ComputedBy(v) = {}
    ELSE \E j \in graph : ComputedBy(v) = {j} /\
           /\ \E w \in Values(j.outs) :
                w.tensor = v.tensor /\ w.role = v.role /\ w.coord = v.coord
           /\ v.role = "fwd" => j.guid = v.tensor /\ j.task = "FWD"
           /\ v.role = "grad" =>
                IF v.tensor = source.logit THEN j.task = "LOSS"
                ELSE j.task = "BWD" /\ \E use \in GradientUses(v.tensor) : use[1] = j.guid

\* A task only touches what its own devices hold, as it would without any
\* other device; moving data is left to copies, broadcasts and reductions,
\* and a copy changes nothing but the mapping.
LocalAccess ==
  Lowered /\ ~Local => \A i \in graph :
    LET here == {DeviceOf(v, v.coord) : v \in Values(i.ins) \cup Values(i.outs)} IN
    /\ i.op \notin {"copy", "replicate"} => here = i.devices /\ Cardinality(here) = 1
    /\ i.op = "replicate" =>
         \A p \in {i.ins, i.outs} : \A s \in DOMAIN p :
           s.shard # "none" => DeviceOf(p[s], p[s].coord) = s.shard /\ s.shard \in i.devices
    /\ i.op = "copy" =>
         \A v \in Values(i.ins), w \in Values(i.outs) :
           v.mapping # w.mapping /\ [v EXCEPT !.mapping = w.mapping] = w

\* Invocations that happen before others in every execution order.
Precedes(i, j) ==
  LET Rounds[k \in 0..Cardinality(graph)] ==
        IF k = 0 THEN {j}
        ELSE LET later == Rounds[k - 1]
             IN later \cup {p \in graph : Values(p.outs) \cap Inputs(later) # {}}
  IN i \in Rounds[Cardinality(graph)]

\* The update overwrites its shard of the weight although it has no outputs:
\* whatever order the graph allows, all other readers of that shard, copies and
\* replicas included, come first if the loss depends on the weight.
UpdatesComeLast ==
  Lowered => \A u \in {i \in graph : i.task = "UPD" /\ ReachesLoss[i.guid]} :
    \A v \in {w \in Values(u.ins) : w.role = "fwd"}, r \in graph \ {u} :
      (\E w \in Values(r.ins) : w.tensor = v.tensor /\ w.role = "fwd" /\ w.coord = v.coord)
        => Precedes(r, u)

\* Every shard of a task is there exactly once (a local task once, without a device),
\* on the device the mapping gives, or for a replicate on the devices of all replicas
\* of one shard; and every device works on the shards the mapping gives it.
EveryShardRuns ==
  Lowered => \A k \in Layer :
    LET layer == source.layers[k]
        mapping == layer.mapping
        Tasks(t) == {i \in graph : i.guid = k /\ i.task = t}
        Together ==
          IF Local THEN {{}}
          ELSE IF layer.op = "replicate"
          THEN {{d \in DOMAIN mapping : mapping[d]["INPUT"] = c} : c \in ShardsAt(mapping, "INPUT")}
          ELSE {{d} : d \in DOMAIN mapping}
    IN \A t \in {"FWD"} \cup (IF InGradientPath[k] THEN {"BWD"} ELSE {})
                \cup (IF layer.op = "weight" THEN {"UPD"} ELSE {}) :
         /\ {i.devices : i \in Tasks(t)} = Together
         /\ Cardinality(Tasks(t)) = Cardinality(Together)
         /\ \A i \in Tasks(t) : \A d \in i.devices, p \in {i.ins, i.outs} :
              \A s \in {q \in DOMAIN p : q.shard \in {"none", d}} :
                p[s].coord = mapping[d][s.name]

\* The label is the one tensor no invocation computes and the caller supplies:
\* on the local backend the loss, and nobody else, reads the caller's tensor, and
\* everything the graph computes or updates has memory of its own.
LabelReachesLoss ==
  stage = "allocated" /\ Local =>
    /\ instances = AllValues(graph) \ inputs
    /\ HasLoss => \E label \in inputs :
                   {i \in graph : label \in Reads(i)} = {i \in graph : i.task = "LOSS"}
    /\ Outputs(graph) \cup {v \in AllValues(graph) : v.role \in OptimizerSlots}
         \subseteq instances
===============================================================================
