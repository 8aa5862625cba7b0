------------------------------ MODULE MCLowering ------------------------------
(* All small graphs: sources first, then operators on earlier layers, each   *)
(* source used; and every mapping in which one layer (or the loss) is on     *)
(* other devices than the others, or numbers its shards in another order;    *)
(* and some larger graphs with many mappings.                                *)
EXTENDS Lowering

CONSTANTS MaxLayers, Gpus

MCGpus == <<"gpu0", "gpu1", "gpu2", "gpu3">>

SourceKinds == << <<"weight", TRUE>>, <<"input", FALSE>>, <<"input", TRUE>> >>

\* Graphs without mappings: <<operator, create_grad, arguments, devices>>.
OperatorsOn(p) ==
  LET n == Len(p)
      Sharded(d) == {k \in 1..n : p[k][4] = d}
      Parallel(op, from, to) == {<<op, TRUE, <<k>>, to>> : k \in Sharded(from)}
  IN Parallel("replicate", 1, 2)
     \cup {<<"compute", TRUE, <<k>>, p[k][4]>> : k \in 1..n}
     \cup UNION {{<<"compute", TRUE, <<a[1], a[2]>>, d>> :
                    a \in {b \in Sharded(d) \X Sharded(d) : b[1] <= b[2]}} : d \in {1, 2}}
     \cup UNION (IF n > 2 THEN {}
                ELSE {Parallel("replicate", 2, 1),
                      Parallel("repartition", 1, 1), Parallel("repartition", 1, 2),
                      Parallel("combine", 2, 1), Parallel("reduction", 2, 2)})

\* Graphs with a repartition, a combine or a reduction end after three layers.
Extensible(p) ==
  Len(p) <= 2 \/ \A k \in 1..Len(p) : p[k][1] \notin ParallelOperators \ {"replicate"}

SourceOf(kind) == <<SourceKinds[kind][1], SourceKinds[kind][2], <<>>, 1>>

\* Sources come in the order of their kinds.
SourcesAfter(p) ==
  {SourceOf(kind) : kind \in {c \in DOMAIN SourceKinds :
     \A k \in 1..Len(p) : \E b \in 1..c : p[k] = SourceOf(b)}}

Graphs ==
  LET Upto[n \in 1..MaxLayers] ==
        IF n = 1 THEN {<<l>> : l \in SourcesAfter(<<>>)}
        ELSE UNION {{Append(p, l) : l \in SourcesAfter(p) \cup OperatorsOn(p)} :
                      p \in {q \in Upto[n - 1] : Extensible(q)}}
      Used(p, k) == \E u \in 1..Len(p) : \E a \in DOMAIN p[u][3] : p[u][3][a] = k
  IN {p \in UNION {Upto[n] : n \in 2..MaxLayers} :
        /\ \A k \in 1..Len(p) : p[k][3] = <<>> => Used(p, k)
        /\ p[Len(p)][3] # <<>>}

\* Data parallelism, a pipeline of two layers, a residual connection, replicas of
\* replicas.
LargerGraphs ==
  LET weight == SourceOf(1) input == SourceOf(2)
      Compute(args, shards) == <<"compute", TRUE, args, shards>>
      Replicate(k, shards) == <<"replicate", TRUE, <<k>>, shards>>
  IN {<<weight, input, Replicate(1, 2), Replicate(2, 2), Compute(<<4, 3>>, 2)>>,
      <<weight, weight, input, Compute(<<3, 1>>, 1), Compute(<<4, 2>>, 1)>>,
      <<weight, input, Compute(<<2, 1>>, 1), Compute(<<3>>, 1), Compute(<<3, 4>>, 1)>>,
      <<weight, Replicate(1, 2), Replicate(2, 4), Compute(<<3>>, 4)>>}

\* The first n devices; if moved, others or in the opposite order.
Devices(n, moved) ==
  [j \in 1..n |-> Gpus[IF ~moved THEN j ELSE IF n = 1 THEN 2 ELSE n + 1 - j]]

\* The j-th of n devices works on the j-th shard of every argument, a replica or a part
\* on the shard it belongs to, and all that are reduced on one; if crossed, the output is
\* numbered from the end, and replicas and parts belong to other shards.
NumberIn(op, have, n, j, crossed) ==
  CASE op = "replicate" ->
         IF crossed \/ n < have THEN ((j - 1) % have) + 1 ELSE ((j - 1) \div (n \div have)) + 1
    [] op = "repartition" -> IF crossed THEN j ELSE 1
    [] OTHER -> j

NumberOut(op, n, j, crossed) ==
  CASE op = "replicate" -> j
    [] op = "reduction" -> IF crossed THEN j ELSE 1
    [] OTHER -> IF crossed THEN n + 1 - j ELSE j

MappingFor(p, k, moved, crossed) ==
  LET devices == Devices(p[k][4], moved)
      J(d) == CHOOSE j \in DOMAIN devices : devices[j] = d
      n == Len(devices)
      names == {ArgumentSlot[a] : a \in DOMAIN p[k][3]} \cup {"OUTPUT"}
  IN [d \in Range(devices) |-> [name \in names |->
        IF name = "OUTPUT" THEN NumberOut(p[k][1], n, J(d), crossed)
        ELSE NumberIn(p[k][1], p[p[k][3][1]][4], n, J(d), crossed)]]

LossMappingFor(n, moved, crossed) ==
  LET devices == Devices(n, moved)
      J(d) == CHOOSE j \in DOMAIN devices : devices[j] = d
  IN [d \in Range(devices) |->
        [name \in {"INPUT", "LOGIT"} |-> IF crossed /\ name = "LOGIT" THEN n + 1 - J(d) ELSE J(d)]]

Layers(p, Mapping(_)) ==
  [k \in 1..Len(p) |->
     [op |-> p[k][1], grad |-> p[k][2], args |-> p[k][3], mapping |-> Mapping(k)]]

\* Layer Len(p) + 1 stands for the loss.
MappedGraph(p, moved, crossed, logit) ==
  LET loss == Len(p) + 1 IN
  [backend |-> "realm",
   layers |-> Layers(p, LAMBDA k : MappingFor(p, k, k \in moved, k \in crossed)),
   logit |-> logit,
   lossMapping |-> IF logit = 0 THEN <<>>
                   ELSE LossMappingFor(p[logit][4], loss \in moved, loss \in crossed)]

LocalGraph(p, logit) ==
  [backend |-> "local", layers |-> Layers(p, LAMBDA k : <<>>),
   logit |-> logit, lossMapping |-> <<>>]

\* In a small graph one layer or the loss is mapped differently than the others,
\* in a larger one any of them are.
Variants(p) ==
  LET one == {{k} : k \in 0..(Len(p) + 1)} IN
  IF p \in LargerGraphs THEN (SUBSET (1..(Len(p) + 1))) \X one
  ELSE (one \X {{}}) \cup ({{}} \X one)

Logits(p) == {k \in 1..Len(p) : p[k][3] # <<>>}

SmallGraphs ==
  LET graphs == Graphs \cup LargerGraphs
      variants == UNION {{p} \X Variants(p) \X {0, Len(p)} : p \in graphs}
      logits == UNION {{p} \X Logits(p) : p \in graphs}
      plain == {p \in graphs : \A k \in 1..Len(p) : p[k][1] \notin ParallelOperators}
  IN {MappedGraph(v[1], v[2][1], v[2][2], v[3]) : v \in variants}
     \cup {MappedGraph(l[1], {}, {}, l[2]) : l \in logits}
     \cup {LocalGraph(l[1], l[2]) : l \in {m \in logits : m[1] \in plain}}
     \cup {LocalGraph(p, 0) : p \in plain}
===============================================================================
