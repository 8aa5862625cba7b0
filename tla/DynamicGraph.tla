---------------------------- MODULE DynamicGraph ----------------------------
(***************************************************************************)
(* Dynamic dataflow graphs: a graph is a set of invocations, edges are     *)
(* values that one invocation has among its outputs and others among their *)
(* inputs.                                                                 *)
(*                                                                         *)
(*   slot        name, role, shard ("none" until the passes fill them in)  *)
(*   value       tensor, grad (create_grad), role, coord (0: not sharded), *)
(*               mapping: a set of <<coordinate, device>>, {} while unset  *)
(*   invocation  guid, op, task, devices ({} until sharded), mapping (from *)
(*               devices to the coordinate of each slot name), ins and     *)
(*               outs: functions from slots to values                      *)
(***************************************************************************)
EXTENDS Naturals, FiniteSets, Sequences, Functions

Slot(name) == [name |-> name, role |-> "none", shard |-> "none"]

\* The ports of one direction: a single one, and those of two maps.
Port(slot, v) == [s \in {slot} |-> v]
Merge(f, g) == [s \in DOMAIN f \cup DOMAIN g |-> IF s \in DOMAIN f THEN f[s] ELSE g[s]]

Values(ports) == Range(ports)

Inputs(g) == UNION {Values(i.ins) : i \in g}
Outputs(g) == UNION {Values(i.outs) : i \in g}
AllValues(g) == Inputs(g) \cup Outputs(g)

\* Slot sites: an invocation, a direction and a slot.
InSites(i) == {[inv |-> i, dir |-> "in", slot |-> s] : s \in DOMAIN i.ins}
OutSites(i) == {[inv |-> i, dir |-> "out", slot |-> s] : s \in DOMAIN i.outs}
ValueAt(site) ==
  IF site.dir = "in" THEN site.inv.ins[site.slot] ELSE site.inv.outs[site.slot]

Sinks(g, v) == {s \in UNION {InSites(i) : i \in g} : ValueAt(s) = v}
Sources(g, v) == {s \in UNION {OutSites(i) : i \in g} : ValueAt(s) = v}
SinkInvocations(g, v) == {i \in g : v \in Values(i.ins)}

ProducedAtMostOnce(g) == \A v \in Outputs(g) : Cardinality(Sources(g, v)) = 1

\* Adds the invocations whose inputs have been added, one round after another,
\* starting from the values nobody produces.
Addable(g) ==
  LET Rounds[k \in 0..Cardinality(g)] ==
        IF k = 0 THEN Inputs(g) \ Outputs(g)
        ELSE LET added == Rounds[k - 1]
             IN added \cup Outputs({i \in g : Values(i.ins) \subseteq added})
  IN Rounds[Cardinality(g)]

IsAcyclic(g) == Inputs(g) \subseteq Addable(g)

IsValid(g) == ProducedAtMostOnce(g) /\ IsAcyclic(g)

\* A pass that replaces each invocation by several may not merge any two.
NoDuplicates(g, F(_)) ==
  \A i, j \in g : i # j => F(i) \cap F(j) = {}

FindOutput(g, tensor, role) ==
  {v \in Outputs(g) : v.tensor = tensor /\ v.role = role}
=============================================================================
