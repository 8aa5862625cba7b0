---------------------------- MODULE CopyInsertion ----------------------------
(***************************************************************************)
(* The pass that gives every value the mapping of the site it is used at,  *)
(* and inserts copies where the producer's mapping is not the consumer's.  *)
(***************************************************************************)
EXTENDS DynamicGraph

CONSTANT CopyGuid   \* the guid that all copies share

BindingsForSlot(mapping, name) ==
  {<<mapping[d][name], d>> : d \in DOMAIN mapping}

\* bidict_from_unstructured_relation asserts it of the bindings of every slot it is
\* asked for: no two devices have the same shard.
IsOneToOne(bindings) == \A p, q \in bindings : p[1] = q[1] <=> p[2] = q[2]

\* A replicate has a mapping for its replicas only.
SitesMappedByNode(i) ==
  IF i.op # "replicate" THEN InSites(i) \cup OutSites(i)
  ELSE IF i.task = "BWD" THEN InSites(i) ELSE OutSites(i)

NodeMapping(site) == BindingsForSlot(site.inv.mapping, site.slot.name)

\* The neighbour that decides the mapping of a replicate's other side.
Adjacent(g, site) ==
  IF site.dir = "out" THEN Sinks(g, ValueAt(site)) ELSE Sources(g, ValueAt(site))

\* The bindings are one-to-one; get_only, require_internal, and the neighbour's
\* mapping is known.
MappingsResolve(g) ==
  \A i \in g :
    /\ \A site \in SitesMappedByNode(i) : IsOneToOne(NodeMapping(site))
    /\ \A site \in (InSites(i) \cup OutSites(i)) \ SitesMappedByNode(i) :
         /\ Cardinality(Adjacent(g, site)) = 1
         /\ \A s \in Adjacent(g, site) : s \in SitesMappedByNode(s.inv)

MappingAt(g, site) ==
  IF site \in SitesMappedByNode(site.inv) THEN NodeMapping(site)
  ELSE NodeMapping(CHOOSE s \in Adjacent(g, site) : TRUE)

WithMappings(g, i) ==
  [i EXCEPT
     !.ins = [s \in DOMAIN i.ins |-> [i.ins[s] EXCEPT !.mapping =
                MappingAt(g, [inv |-> i, dir |-> "in", slot |-> s])]],
     !.outs = [s \in DOMAIN i.outs |-> [i.outs[s] EXCEPT !.mapping =
                MappingAt(g, [inv |-> i, dir |-> "out", slot |-> s])]]]

CopyTask(v, from, to) ==
  [guid |-> CopyGuid, op |-> "copy", task |-> "none", devices |-> {}, mapping |-> <<>>,
   ins |-> Port(Slot("INPUT"), [v EXCEPT !.mapping = from]),
   outs |-> Port(Slot("OUTPUT"), [v EXCEPT !.mapping = to])]

\* Mutant: gradients are not copied.
CopiesOfActivations(g, v) ==
  {CopyTask(v, MappingAt(g, p[1]), MappingAt(g, p[2])) :
     p \in {q \in Sources(g, v) \X Sinks(g, v) :
              v.role = "fwd" /\ MappingAt(g, q[1]) # MappingAt(g, q[2])}}

\* Values that come from outside are not copied.
CopiesOf(g, v) ==
  {CopyTask(v, MappingAt(g, p[1]), MappingAt(g, p[2])) :
     p \in {q \in Sources(g, v) \X Sinks(g, v) :
              MappingAt(g, q[1]) # MappingAt(g, q[2])}}

InsertCopies(g) ==
  {WithMappings(g, i) : i \in g} \cup UNION {CopiesOf(g, v) : v \in AllValues(g)}
=============================================================================
