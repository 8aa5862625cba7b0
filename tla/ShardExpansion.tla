---------------------------- MODULE ShardExpansion ----------------------------
(***************************************************************************)
(* The last pass: every invocation becomes one invocation per shard.  A    *)
(* copy runs once per coordinate, a replicate once per shard of what it    *)
(* replicates (with one port per replica), anything else once per device.  *)
(***************************************************************************)
EXTENDS DynamicGraph

Coordinates(v) == {b[1] : b \in v.mapping}
DeviceOf(v, coord) == (CHOOSE b \in v.mapping : b[1] = coord)[2]
CoordinateOn(v, device) == (CHOOSE b \in v.mapping : b[2] = device)[1]

At(v, coord) == [v EXCEPT !.coord = coord]

Only(S) == CHOOSE x \in S : TRUE

\* One invocation on one device, whose binding says which shard each slot has.
ShardOn(i, device, binding) ==
  [i EXCEPT !.devices = {device},
            !.ins = [s \in DOMAIN i.ins |-> At(i.ins[s], binding[s.name])],
            !.outs = [s \in DOMAIN i.outs |-> At(i.outs[s], binding[s.name])]]

ShardCopy(i) ==
  LET source == Only(Values(i.ins)) IN
  {ShardOn(i, DeviceOf(source, c), [name \in {"INPUT", "OUTPUT"} |-> c]) :
     c \in Coordinates(source)}

\* What a replicate replicates, its replicas, and the devices that hold the
\* replicas of shard c.
WholePorts(i) == IF i.task = "BWD" THEN i.outs ELSE i.ins
ReplicaPorts(i) == IF i.task = "BWD" THEN i.ins ELSE i.outs
DevicesFor(i, c) == {d \in DOMAIN i.mapping : i.mapping[d]["INPUT"] = c}

\* Mutant: every port gets the coordinate of another device.
ReplicasMisordered(ports, devices) ==
  LET slot == Only(DOMAIN ports)
      Another(d) == IF devices = {d} THEN d ELSE Only(devices \ {d})
  IN [s \in {[slot EXCEPT !.shard = d] : d \in devices} |->
        At(ports[slot], CoordinateOn(ports[slot], Another(s.shard)))]

\* The port of the replicas, split into one port per device.
Replicas(ports, devices) ==
  LET slot == Only(DOMAIN ports) IN
  [s \in {[slot EXCEPT !.shard = d] : d \in devices} |->
     At(ports[slot], CoordinateOn(ports[slot], s.shard))]

ShardReplicate(i) ==
  LET Whole(c) == [s \in DOMAIN WholePorts(i) |-> At(WholePorts(i)[s], c)]
      Parts(c) == Replicas(ReplicaPorts(i), DevicesFor(i, c))
  IN {IF i.task = "BWD"
      THEN [i EXCEPT !.devices = DevicesFor(i, c), !.ins = Parts(c), !.outs = Whole(c)]
      ELSE [i EXCEPT !.devices = DevicesFor(i, c), !.ins = Whole(c), !.outs = Parts(c)] :
        c \in Coordinates(Only(Values(WholePorts(i))))}

ShardOther(i) == {ShardOn(i, d, i.mapping[d]) : d \in DOMAIN i.mapping}

Shards(i) ==
  CASE i.op = "copy" -> ShardCopy(i)
    [] i.op = "replicate" -> ShardReplicate(i)
    [] OTHER -> ShardOther(i)

\* Both sides of a copy have the same shards (require_same), every shard that is
\* replicated is on some device (nonempty_set), and the values have the shards that
\* a binding names.
ShardsAgree(i) ==
  CASE i.op = "copy" ->
         \A v \in Values(i.ins), w \in Values(i.outs) : Coordinates(v) = Coordinates(w)
    [] i.op = "replicate" ->
         \A v \in Values(WholePorts(i)) : \A c \in Coordinates(v) : DevicesFor(i, c) # {}
    [] OTHER ->
         \A d \in DOMAIN i.mapping : \A p \in {i.ins, i.outs} : \A s \in DOMAIN p :
           i.mapping[d][s.name] \in Coordinates(p[s])

ExpandShards(g) == UNION {Shards(i) : i \in g}
=============================================================================
