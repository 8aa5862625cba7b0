--------------------------- MODULE Lowering_proofs ---------------------------
(***************************************************************************)
(* What the lowering leaves, for every source graph.                       *)
(*                                                                         *)
(* The graph after each pass is described in closed form (Dynamic,         *)
(* Expanded, Complete, Updated, Copied, Sharded), and IInv says that the   *)
(* state is one of them.  The theorems then follow from what these graphs  *)
(* are: which tasks they have, what those read and make, where the sites   *)
(* of their slots are, and which shards of a value their shards touch.     *)
(***************************************************************************)
EXTENDS Lowering, FiniteSetTheorems, WellFoundedInduction, TLAPS

(***************************************************************************)
(* Abbreviations: the parts of the source graph, and the values, slots and *)
(* tasks the passes make of them.                                          *)
(***************************************************************************)
Last == Len(source.layers)
Op(k) == source.layers[k].op
Args(k) == source.layers[k].args
MapOf(k) == source.layers[k].mapping
Logit == source.logit

V(k, role) ==
  [tensor |-> k, grad |-> source.layers[k].grad, role |-> role, coord |-> 0, mapping |-> {}]
P(name, role) == [name |-> name, role |-> role, shard |-> "none"]

ArgPorts(k, role) ==
  [s \in {P(ArgumentSlot[a], role) : a \in DOMAIN Args(k)} |->
     V(Args(k)[CHOOSE a \in DOMAIN Args(k) : ArgumentSlot[a] = s.name], role)]
OutPort(k, role) == Port(P("OUTPUT", role), V(k, role))

Names(k) == NamesOf(source.layers[k])

\* The devices of the shards a mapping has for a slot, and those of a tensor's shards.
PlacesOf(m, name) ==
  [c \in ShardsAt(m, name) |-> CHOOSE d \in DOMAIN m : m[d][name] = c]
Dev(k) == PlacesOf(MapOf(k), "OUTPUT")

LossNames == {"INPUT", "LOGIT"}
LossMap == source.lossMapping
Label == LabelValue(V(Logit, "fwd"))

BwdIns(k) ==
  IF Op(k) = "replicate" THEN OutPort(k, "grad")
  ELSE Merge(ArgPorts(k, "fwd"), Merge(OutPort(k, "fwd"), OutPort(k, "grad")))
Loss == LossTask(V(Logit, "fwd"), LossMap)

(***************************************************************************)
(* What the source graph says of its layers.                               *)
(***************************************************************************)
LEMMA SeqFacts ==
  ASSUME NEW S, NEW s \in Seq(S)
  PROVE  Len(s) \in Nat /\ DOMAIN s = 1..Len(s) /\ \A i \in DOMAIN s : s[i] \in S
OBVIOUS

LEMMA SourceFacts ==
  ASSUME source \in SourceGraphs
  PROVE  /\ Last \in Nat /\ Layer = 1..Last
         /\ source.backend \in Backends
         /\ Logit \in 0..Last
BY SourceGraphsAssumption DEF IsSourceGraph, Last, Layer, Logit

LEMMA LayerFacts ==
  ASSUME source \in SourceGraphs, NEW k \in Layer
  PROVE  /\ k \in Nat /\ k >= 1
         /\ Op(k) \in Operators /\ source.layers[k].grad \in BOOLEAN
         /\ Len(Args(k)) \in 0..2 /\ DOMAIN Args(k) = 1..Len(Args(k))
         /\ DOMAIN Args(k) \subseteq {1, 2}
         /\ \A a \in DOMAIN Args(k) : Args(k)[a] \in Layer /\ Args(k)[a] < k
         /\ DOMAIN Args(k) = {} <=> Op(k) \in {"weight", "input"}
         /\ Op(k) \in ParallelOperators => DOMAIN Args(k) = {1} /\ ~Local
         /\ Op(k) = "replicate" => DOMAIN Args(k) = {1} /\ ~Local
<1>1. IsLayer(source, k) /\ Layer = 1..Last /\ Last \in Nat /\ source.layers \in Seq(Range(source.layers))
  BY SourceFacts, SourceGraphsAssumption DEF IsSourceGraph, Layer
<1>2. k \in 1..Last
  BY <1>1
<1>3. Args(k) \in Seq(1..(k - 1)) /\ Len(Args(k)) <= 2
  BY <1>1 DEF IsLayer, Args
<1>5. /\ Len(Args(k)) \in Nat /\ DOMAIN Args(k) = 1..Len(Args(k))
      /\ \A a \in DOMAIN Args(k) : Args(k)[a] \in 1..(k - 1)
  BY <1>3, SeqFacts
<1>4. Len(Args(k)) \in 0..2
  BY <1>3, <1>5
<1>6. Op(k) \in Operators /\ source.layers[k].grad \in BOOLEAN
  BY <1>1 DEF IsLayer, Op
<1>7. Args(k) = <<>> <=> Op(k) \in {"weight", "input"}
  BY <1>1 DEF IsLayer, Op, Args
<1>8. DOMAIN Args(k) = {} <=> Args(k) = <<>>
  BY <1>3
<1>9. Op(k) \in ParallelOperators => Len(Args(k)) = 1 /\ ~Local
  BY <1>1 DEF IsLayer, Op, Args, Local
<1>10. "replicate" \in ParallelOperators
  BY DEF ParallelOperators
<1> QED BY <1>1, <1>2, <1>4, <1>5, <1>6, <1>7, <1>8, <1>9, <1>10

LEMMA NamesFacts ==
  ASSUME source \in SourceGraphs, NEW k \in Layer
  PROVE  /\ \A a \in DOMAIN Args(k) : ArgumentSlot[a] \in Names(k)
         /\ "OUTPUT" \in Names(k)
         /\ IsMapping(source.backend, MapOf(k), Names(k))
BY SourceGraphsAssumption DEF IsSourceGraph, IsLayer, Layer, Names, NamesOf, Args, MapOf

(***************************************************************************)
(* What a mapping says of a slot.                                          *)
(***************************************************************************)
\* Devices of shards that are numbers; no device has two.
IsDevices(devices) ==
  /\ IsFiniteSet(DOMAIN devices) /\ DOMAIN devices \subseteq Nat \ {0}
  /\ \A c, d \in DOMAIN devices : devices[c] = devices[d] => c = d

PlaceOf(devices) == {<<c, devices[c]>> : c \in DOMAIN devices}

LEMMA PlacesFacts ==
  ASSUME NEW m, NEW name
  PROVE  /\ DOMAIN PlacesOf(m, name) = ShardsAt(m, name)
         /\ \A c \in ShardsAt(m, name) :
              PlacesOf(m, name)[c] \in DOMAIN m /\ m[PlacesOf(m, name)[c]][name] = c
         /\ \A d \in DOMAIN m : m[d][name] \in ShardsAt(m, name)
<1>1. DOMAIN PlacesOf(m, name) = ShardsAt(m, name)
  BY DEF PlacesOf
<1>2. ASSUME NEW c \in ShardsAt(m, name)
      PROVE  PlacesOf(m, name)[c] \in DOMAIN m /\ m[PlacesOf(m, name)[c]][name] = c
  <2>1. \E d \in DOMAIN m : m[d][name] = c
    BY DEF ShardsAt
  <2>2. PlacesOf(m, name)[c] = CHOOSE d \in DOMAIN m : m[d][name] = c
    BY DEF PlacesOf
  <2> QED BY <2>1, <2>2
<1>3. \A d \in DOMAIN m : m[d][name] \in ShardsAt(m, name)
  BY DEF ShardsAt
<1> QED BY <1>1, <1>2, <1>3

LEMMA ApartFacts ==
  ASSUME NEW m, NEW name
  PROVE  /\ IsOneToOne(BindingsForSlot(m, name)) <=> Apart(m, name)
         /\ Apart(m, name) => /\ \A d \in DOMAIN m : PlacesOf(m, name)[m[d][name]] = d
                              /\ BindingsForSlot(m, name) = PlaceOf(PlacesOf(m, name))
<1>1. BindingsForSlot(m, name) = {<<m[d][name], d>> : d \in DOMAIN m}
  BY DEF BindingsForSlot
<1>2. ASSUME IsOneToOne(BindingsForSlot(m, name)), NEW d \in DOMAIN m, NEW e \in DOMAIN m,
             m[d][name] = m[e][name]
      PROVE  d = e
  <2>1. <<m[d][name], d>> \in BindingsForSlot(m, name) /\ <<m[e][name], e>> \in BindingsForSlot(m, name)
    BY <1>1
  <2>2. <<m[d][name], d>>[1] = <<m[e][name], e>>[1] <=> <<m[d][name], d>>[2] = <<m[e][name], e>>[2]
    BY <1>2, <2>1 DEF IsOneToOne
  <2> QED BY <1>2, <2>2
<1>3. ASSUME Apart(m, name), NEW p \in BindingsForSlot(m, name), NEW q \in BindingsForSlot(m, name)
      PROVE  p[1] = q[1] <=> p[2] = q[2]
  <2>1. PICK d \in DOMAIN m : p = <<m[d][name], d>>
    BY <1>1
  <2>2. PICK e \in DOMAIN m : q = <<m[e][name], e>>
    BY <1>1
  <2>3. m[d][name] = m[e][name] => d = e
    BY <1>3 DEF Apart
  <2> QED BY <2>1, <2>2, <2>3
<1>4. ASSUME Apart(m, name), NEW d \in DOMAIN m
      PROVE  PlacesOf(m, name)[m[d][name]] = d
  BY <1>4, PlacesFacts DEF Apart
<1>5. ASSUME Apart(m, name)
      PROVE  BindingsForSlot(m, name) = PlaceOf(PlacesOf(m, name))
  <2> DEFINE f == PlacesOf(m, name)
  <2>1. /\ \A c \in DOMAIN f : f[c] \in DOMAIN m /\ m[f[c]][name] = c
        /\ \A d \in DOMAIN m : m[d][name] \in DOMAIN f /\ f[m[d][name]] = d
    BY <1>4, <1>5, PlacesFacts
  <2> HIDE DEF f
  <2>2. \A b : b \in {<<m[d][name], d>> : d \in DOMAIN m} <=> b \in {<<c, f[c]>> : c \in DOMAIN f}
    BY <2>1
  <2> QED BY <1>1, <2>2 DEF PlaceOf, f
<1> QED BY <1>2, <1>3, <1>4, <1>5 DEF IsOneToOne, Apart

LEMMA FiniteImage ==
  ASSUME NEW f, IsFiniteSet(DOMAIN f), NEW T, \A y \in T : \E x \in DOMAIN f : y = f[x]
  PROVE  IsFiniteSet(T)
<1> DEFINE S == {f[x] : x \in DOMAIN f}
           g == [x \in DOMAIN f |-> f[x]]
<1>1. g \in [DOMAIN f -> S]
  OBVIOUS
<1>2. \A y \in S : \E x \in DOMAIN f : g[x] = y
  OBVIOUS
<1>3. g \in Surjection(DOMAIN f, S)
  <2> HIDE DEF g, S
  <2> QED BY <1>1, <1>2 DEF Surjection
<1>4. IsFiniteSet(S)
  <2> HIDE DEF g, S
  <2> QED BY <1>3, FS_Surjection
<1>5. T \in SUBSET S
  OBVIOUS
<1> QED BY <1>4, <1>5, FS_Subset

LEMMA MappingFacts ==
  ASSUME NEW backend, NEW m, NEW names, IsMapping(backend, m, names), NEW name \in names
  PROVE  /\ IsDevices(PlacesOf(m, name))
         /\ ShardsAt(m, name) = {} <=> backend = "local"
         /\ \A d \in DOMAIN m : m[d][name] \in Nat \ {0}
<1>1. \A d \in DOMAIN m : m[d][name] \in Nat \ {0}
  BY DEF IsMapping
<1>2. IsFiniteSet(ShardsAt(m, name))
  <2> DEFINE f == [d \in DOMAIN m |-> m[d][name]]
  <2>1. IsFiniteSet(DOMAIN f)
    BY DEF IsMapping
  <2>2. \A c \in ShardsAt(m, name) : \E d \in DOMAIN f : c = f[d]
    BY DEF ShardsAt
  <2> HIDE DEF f
  <2> QED BY <2>1, <2>2, FiniteImage
<1>3. ShardsAt(m, name) \subseteq Nat \ {0}
  BY <1>1 DEF ShardsAt
<1>4. \A c, d \in ShardsAt(m, name) : PlacesOf(m, name)[c] = PlacesOf(m, name)[d] => c = d
  BY PlacesFacts
<1>5. ShardsAt(m, name) = {} <=> DOMAIN m = {}
  BY DEF ShardsAt
<1> QED BY <1>1, <1>2, <1>3, <1>4, <1>5, PlacesFacts DEF IsDevices, IsMapping

LEMMA DeviceFacts ==
  ASSUME source \in SourceGraphs, NEW k \in Layer
  PROVE  /\ IsDevices(Dev(k))
         /\ DOMAIN Dev(k) = ShardsAt(MapOf(k), "OUTPUT")
         /\ DOMAIN Dev(k) = {} <=> Local
<1>1. "OUTPUT" \in Names(k) /\ IsMapping(source.backend, MapOf(k), Names(k))
  BY NamesFacts
<1>2. IsDevices(PlacesOf(MapOf(k), "OUTPUT"))
  BY <1>1, MappingFacts
<1>3. ShardsAt(MapOf(k), "OUTPUT") = {} <=> source.backend = "local"
  BY <1>1, MappingFacts
<1>4. DOMAIN PlacesOf(MapOf(k), "OUTPUT") = ShardsAt(MapOf(k), "OUTPUT")
  BY PlacesFacts
<1> QED BY <1>2, <1>3, <1>4 DEF Dev, Local

(***************************************************************************)
(* Values and slots.                                                       *)
(***************************************************************************)
LEMMA ValueRole ==
  ASSUME NEW k, NEW r, NEW q
  PROVE  [V(k, r) EXCEPT !.role = q] = V(k, q)
<1>1. \A s : V(k, s) = [tensor |-> k, grad |-> source.layers[k].grad, role |-> s, coord |-> 0,
                        mapping |-> {}]
  BY DEF V
<1> QED BY <1>1

LEMMA SlotRole ==
  ASSUME NEW name, NEW r, NEW q
  PROVE  [P(name, r) EXCEPT !.role = q] = P(name, q)
<1>1. \A s : P(name, s) = [name |-> name, role |-> s, shard |-> "none"]
  BY DEF P
<1> QED BY <1>1

LEMMA ValueFields ==
  ASSUME NEW k, NEW r
  PROVE  /\ V(k, r).tensor = k /\ V(k, r).role = r /\ V(k, r).coord = 0 /\ V(k, r).mapping = {}
         /\ V(k, r).grad = source.layers[k].grad
BY DEF V

LEMMA SlotFields ==
  ASSUME NEW name, NEW r
  PROVE  P(name, r).name = name /\ P(name, r).role = r /\ P(name, r).shard = "none"
BY DEF P

LEMMA ValuesInjective ==
  ASSUME NEW k, NEW r, NEW j, NEW q, V(k, r) = V(j, q)
  PROVE  k = j /\ r = q
BY DEF V

LEMMA ArgPortsFacts ==
  ASSUME source \in SourceGraphs, NEW k \in Layer, NEW r
  PROVE  /\ DOMAIN ArgPorts(k, r) = {P(ArgumentSlot[a], r) : a \in DOMAIN Args(k)}
         /\ \A a \in DOMAIN Args(k) : ArgPorts(k, r)[P(ArgumentSlot[a], r)] = V(Args(k)[a], r)
<1>1. \A a \in DOMAIN Args(k) :
        (CHOOSE b \in DOMAIN Args(k) : ArgumentSlot[b] = P(ArgumentSlot[a], r).name) = a
  BY LayerFacts, SlotFields DEF ArgumentSlot
<1> QED BY <1>1 DEF ArgPorts

(***************************************************************************)
(* The invocations of the source graph, and the tasks made of them.        *)
(***************************************************************************)
Inv(k) ==
  [guid |-> k, op |-> Op(k), task |-> "none", devices |-> {}, mapping |-> MapOf(k),
   ins |-> ArgPorts(k, "none"), outs |-> OutPort(k, "none")]
Fwd(k) == ForwardTask(Inv(k))
Bwd(k) == BackwardTask(Inv(k))
Upd(k) == UpdateTask(Fwd(k))

LEMMA InvocationIsInv ==
  ASSUME source \in SourceGraphs, NEW k \in Layer
  PROVE  InvocationOf(k) = Inv(k)
<1>1. \A name : Slot(name) = P(name, "none")
  BY DEF Slot, P
<1>2. \A j : TensorOf(j) = V(j, "none")
  BY DEF TensorOf, V
<1>3. [s \in {Slot(ArgumentSlot[a]) : a \in DOMAIN Args(k)} |->
         TensorOf(Args(k)[CHOOSE a \in DOMAIN Args(k) : ArgumentSlot[a] = s.name])]
        = ArgPorts(k, "none")
  BY <1>1, <1>2 DEF ArgPorts
<1>4. Port(Slot("OUTPUT"), TensorOf(k)) = OutPort(k, "none")
  BY <1>1, <1>2 DEF OutPort
<1> QED BY <1>3, <1>4, Zenon DEF InvocationOf, Inv, Args, Op, MapOf

LEMMA PortFacts ==
  ASSUME NEW s, NEW v
  PROVE  DOMAIN Port(s, v) = {s} /\ Port(s, v)[s] = v /\ Values(Port(s, v)) = {v}
BY DEF Port, Values, Range

LEMMA SameFunction ==
  ASSUME NEW f, NEW g, f = [s \in DOMAIN f |-> f[s]], g = [s \in DOMAIN g |-> g[s]],
         DOMAIN f = DOMAIN g, \A s \in DOMAIN f : f[s] = g[s]
  PROVE  f = g
OBVIOUS

LEMMA ArgPortsWithRole ==
  ASSUME source \in SourceGraphs, NEW k \in Layer, NEW r
  PROVE  WithRole(ArgPorts(k, "none"), r) = ArgPorts(k, r)
<1> DEFINE D(q) == {P(ArgumentSlot[a], q) : a \in DOMAIN Args(k)}
           W == WithRole(ArgPorts(k, "none"), r)
<1>1. \A t : t \in D("none") <=> \E a \in DOMAIN Args(k) : t = P(ArgumentSlot[a], "none")
  OBVIOUS
<1>2. DOMAIN W = {[t EXCEPT !.role = r] : t \in D("none")}
  BY ArgPortsFacts DEF WithRole
<1>3. DOMAIN W = D(r)
  BY <1>2, SlotRole
<1>4. ASSUME NEW a \in DOMAIN Args(k)
      PROVE  W[P(ArgumentSlot[a], r)] = V(Args(k)[a], r)
  <2>1. P(ArgumentSlot[a], r) \in {[t EXCEPT !.role = r] : t \in DOMAIN ArgPorts(k, "none")}
    BY <1>2, <1>3, ArgPortsFacts
  <2>2. W[P(ArgumentSlot[a], r)]
          = [ArgPorts(k, "none")[[P(ArgumentSlot[a], r) EXCEPT !.role = "none"]] EXCEPT !.role = r]
    BY <2>1 DEF WithRole
  <2>3. [P(ArgumentSlot[a], r) EXCEPT !.role = "none"] = P(ArgumentSlot[a], "none")
    BY SlotRole
  <2>4. ArgPorts(k, "none")[P(ArgumentSlot[a], "none")] = V(Args(k)[a], "none")
    BY ArgPortsFacts
  <2>5. [V(Args(k)[a], "none") EXCEPT !.role = r] = V(Args(k)[a], r)
    BY ValueRole
  <2> HIDE DEF W
  <2> QED BY <2>2, <2>3, <2>4, <2>5
<1>5. W = [s \in DOMAIN W |-> W[s]] /\ ArgPorts(k, r) = [s \in DOMAIN ArgPorts(k, r) |-> ArgPorts(k, r)[s]]
  BY DEF WithRole, ArgPorts
<1>6. DOMAIN ArgPorts(k, r) = D(r) /\ \A a \in DOMAIN Args(k) : ArgPorts(k, r)[P(ArgumentSlot[a], r)] = V(Args(k)[a], r)
  BY ArgPortsFacts
<1> HIDE DEF W
<1>7. \A s \in DOMAIN W : W[s] = ArgPorts(k, r)[s]
  BY <1>3, <1>4, <1>6
<1>8. DOMAIN W = DOMAIN ArgPorts(k, r)
  BY <1>3, <1>6
<1> DEFINE A == ArgPorts(k, r)
<1> HIDE DEF A
<1>9. W = [s \in DOMAIN W |-> W[s]] /\ A = [s \in DOMAIN A |-> A[s]] /\ DOMAIN W = DOMAIN A
      /\ \A s \in DOMAIN W : W[s] = A[s]
  BY <1>5, <1>7, <1>8 DEF A
<1>10. W = A
  BY ONLY <1>9, SameFunction
<1> QED BY <1>10 DEF W, A

LEMMA OutPortWithRole ==
  ASSUME NEW k, NEW r
  PROVE  WithRole(OutPort(k, "none"), r) = OutPort(k, r)
<1> DEFINE o == OutPort(k, "none")
<1>1. DOMAIN o = {P("OUTPUT", "none")} /\ o[P("OUTPUT", "none")] = V(k, "none")
  BY PortFacts DEF OutPort
<1>2. {[t EXCEPT !.role = r] : t \in DOMAIN o} = {P("OUTPUT", r)}
  BY <1>1, SlotRole
<1>3. [o[[P("OUTPUT", r) EXCEPT !.role = "none"]] EXCEPT !.role = r] = V(k, r)
  BY <1>1, SlotRole, ValueRole
<1> HIDE DEF o
<1>4. WithRole(o, r) = [s \in {P("OUTPUT", r)} |-> V(k, r)]
  BY <1>2, <1>3 DEF WithRole
<1> QED BY <1>4 DEF OutPort, Port, o

LEMMA FwdFacts ==
  ASSUME source \in SourceGraphs, NEW k \in Layer
  PROVE  /\ Fwd(k).guid = k /\ Fwd(k).op = Op(k) /\ Fwd(k).task = "FWD" /\ Fwd(k).devices = {}
         /\ Fwd(k).mapping = MapOf(k)
         /\ Fwd(k).ins = ArgPorts(k, "fwd") /\ Fwd(k).outs = OutPort(k, "fwd")
<1> DEFINE i == Inv(k)
<1>1. i = [guid |-> k, op |-> Op(k), task |-> "none", devices |-> {}, mapping |-> MapOf(k),
           ins |-> ArgPorts(k, "none"), outs |-> OutPort(k, "none")]
  BY DEF Inv
<1>2. WithRole(i.ins, "fwd") = ArgPorts(k, "fwd") /\ WithRole(i.outs, "fwd") = OutPort(k, "fwd")
  BY <1>1, ArgPortsWithRole, OutPortWithRole
<1>3. Fwd(k) = [i EXCEPT !.task = "FWD", !.ins = ArgPorts(k, "fwd"), !.outs = OutPort(k, "fwd")]
  BY <1>2 DEF Fwd, ForwardTask
<1> HIDE DEF i
<1> QED BY <1>1, <1>3

LEMMA BwdFacts ==
  ASSUME source \in SourceGraphs, NEW k \in Layer
  PROVE  /\ Bwd(k).guid = k /\ Bwd(k).op = Op(k) /\ Bwd(k).task = "BWD" /\ Bwd(k).devices = {}
         /\ Bwd(k).mapping = MapOf(k)
         /\ Bwd(k).ins = BwdIns(k) /\ Bwd(k).outs = ArgPorts(k, "grad")
<1> DEFINE i == Inv(k)
<1>1. i = [guid |-> k, op |-> Op(k), task |-> "none", devices |-> {}, mapping |-> MapOf(k),
           ins |-> ArgPorts(k, "none"), outs |-> OutPort(k, "none")]
  BY DEF Inv
<1>2. BackwardInputs(i) = BwdIns(k)
  BY <1>1, ArgPortsWithRole, OutPortWithRole DEF BackwardInputs, BwdIns
<1>3. WithRole(i.ins, "grad") = ArgPorts(k, "grad")
  BY <1>1, ArgPortsWithRole
<1>4. Bwd(k) = [i EXCEPT !.task = "BWD", !.ins = BwdIns(k), !.outs = ArgPorts(k, "grad")]
  BY <1>2, <1>3 DEF Bwd, BackwardTask
<1> HIDE DEF i
<1> QED BY <1>1, <1>4

-------------------------------------------------------------------------------
(***************************************************************************)
(* Induction: a set of naturals has a least element, iterations exist.     *)
(***************************************************************************)
LEMMA Least ==
  ASSUME NEW S \in SUBSET Nat, S # {}
  PROVE  \E m \in S : \A k \in S : m <= k
<1>1. IsWellFoundedOn(OpToRel(<, Nat), Nat)
  BY NatLessThanWellFounded
<1>2. \E m \in S : \A k \in S : ~ (<<k, m>> \in OpToRel(<, Nat))
  BY <1>1, WFMin
<1>3. PICK m \in S : \A k \in S : ~ (<<k, m>> \in OpToRel(<, Nat))
  BY <1>2
<1>4. \A k \in S : ~ (k < m)
  BY <1>3, Zenon DEF OpToRel
<1> QED BY <1>4

IsIteration(f, A, x, step, n) ==
  f \in [0..n -> A] /\ f[0] = x /\ \A k \in 1..n : f[k] = step[f[k - 1]]

LEMMA Iteration ==
  ASSUME NEW A, NEW x \in A, NEW step \in [A -> A], NEW n \in Nat
  PROVE  \E f : IsIteration(f, A, x, step, n)
<1> DEFINE Good(m) == \E f \in [0..m -> A] : f[0] = x /\ \A k \in 1..m : f[k] = step[f[k - 1]]
           Bad == {m \in Nat : ~Good(m)}
<1> SUFFICES ASSUME Bad # {} PROVE FALSE
  BY DEF IsIteration
<1>1. PICK m \in Bad : \A k \in Bad : m <= k
  <2> HIDE DEF Good
  <2>1. Bad \in SUBSET Nat
    OBVIOUS
  <2> HIDE DEF Bad
  <2> QED BY Least, <2>1
<1>2. m # 0
  <2>1. Good(0)
    <3> DEFINE h == [i \in 0..0 |-> x]
    <3>1. h \in [0..0 -> A] /\ h[0] = x /\ \A k \in 1..0 : h[k] = step[h[k - 1]]
      OBVIOUS
    <3> QED BY <3>1
  <2> HIDE DEF Good
  <2> QED BY <2>1
<1>3. m \in Nat /\ m - 1 \in Nat /\ Good(m - 1) /\ ~Good(m)
  <2> HIDE DEF Good
  <2> QED BY <1>1, <1>2
<1>4. PICK f \in [0..(m - 1) -> A] : f[0] = x /\ \A k \in 1..(m - 1) : f[k] = step[f[k - 1]]
  BY <1>3
<1> DEFINE g == [k \in 0..m |-> IF k = m THEN step[f[m - 1]] ELSE f[k]]
<1>5. g \in [0..m -> A] /\ g[0] = x /\ \A k \in 1..m : g[k] = step[g[k - 1]]
  BY <1>2, <1>3, <1>4
<1> HIDE DEF g
<1> QED BY <1>3, <1>5

(***************************************************************************)
(* The gradient path: a least fixed point.                                 *)
(***************************************************************************)
LEMMA ArgumentsFacts ==
  ASSUME source \in SourceGraphs, NEW k \in Layer
  PROVE  /\ \A b : b \in Arguments(k) <=> \E a \in DOMAIN Args(k) : b = Args(k)[a]
         /\ Arguments(k) \subseteq Layer
         /\ \A b \in Arguments(k) : b < k
         /\ Arguments(k) = {} <=> Op(k) \in {"weight", "input"}
<1>1. \A b : b \in Arguments(k) <=> \E a \in DOMAIN Args(k) : b = Args(k)[a]
  BY DEF Arguments, Range, Args
<1>2. \A a \in DOMAIN Args(k) : Args(k)[a] \in Layer /\ Args(k)[a] < k
  BY LayerFacts
<1>3. DOMAIN Args(k) = {} <=> Op(k) \in {"weight", "input"}
  BY LayerFacts
<1>4. \A b \in Arguments(k) : b \in Layer /\ b < k
  BY <1>1, <1>2
<1>5. Arguments(k) = {} <=> DOMAIN Args(k) = {}
  BY <1>1
<1> QED BY <1>1, <1>3, <1>4, <1>5

LEMMA PathUnfolds ==
  ASSUME source \in SourceGraphs
  PROVE  /\ InGradientPath \in [Layer -> BOOLEAN]
         /\ \A k \in Layer :
              InGradientPath[k] <=> \E a \in Arguments(k) : Trainable(a) \/ InGradientPath[a]
<1> DEFINE Onward(S) == {k \in Layer : \E a \in Arguments(k) : Trainable(a) \/ a \in S}
           Least0 == {k \in Layer : \A S \in SUBSET Layer : Onward(S) \subseteq S => k \in S}
<1>1. Onward(Least0) \subseteq Least0
  <2> SUFFICES ASSUME NEW k \in Onward(Least0), NEW S \in SUBSET Layer, Onward(S) \subseteq S
               PROVE  k \in S
    OBVIOUS
  <2> QED OBVIOUS
<1>2. Least0 \subseteq Onward(Least0)
  <2>1. Onward(Least0) \in SUBSET Layer /\ Onward(Onward(Least0)) \subseteq Onward(Least0)
    BY <1>1
  <2> DEFINE O == Onward(Least0)
  <2>2. O \in SUBSET Layer /\ Onward(O) \subseteq O
    BY <2>1
  <2> HIDE DEF O
  <2>3. \A k \in Least0 : k \in O
    BY <2>2
  <2> QED BY <2>3 DEF O
<1> DEFINE f == [k \in Layer |-> IF k \in Least0 THEN TRUE ELSE FALSE]
<1>3. \A k \in Layer : f[k] = \E a \in Arguments(k) : Trainable(a) \/ f[a]
  <2> HIDE DEF Least0
  <2>1. \A k \in Layer : k \in Least0 <=> \E a \in Arguments(k) : Trainable(a) \/ a \in Least0
    BY <1>1, <1>2
  <2>2. \A k \in Layer : f[k] = IF k \in Least0 THEN TRUE ELSE FALSE
    OBVIOUS
  <2> HIDE DEF f
  <2>3. ASSUME NEW k \in Layer
        PROVE  f[k] = \E a \in Arguments(k) : Trainable(a) \/ f[a]
    <3>1. \A a \in Arguments(k) : f[a] = IF a \in Least0 THEN TRUE ELSE FALSE
      BY <2>2, ArgumentsFacts
    <3>2. CASE k \in Least0
      <4>1. f[k] = TRUE
        BY <2>2, <3>2
      <4>2. \E a \in Arguments(k) : Trainable(a) \/ f[a]
        BY <2>1, <3>1, <3>2
      <4> QED BY <4>1, <4>2
    <3>3. CASE k \notin Least0
      <4>1. f[k] = FALSE
        BY <2>2, <3>3
      <4>2. ~ \E a \in Arguments(k) : Trainable(a) \/ f[a]
        BY <2>1, <3>1, <3>3
      <4> QED BY <4>1, <4>2
    <3> QED BY <3>2, <3>3
  <2> QED BY <2>3
<1>4. f = [k \in Layer |-> \E a \in Arguments(k) : Trainable(a) \/ f[a]]
  <2> HIDE DEF Least0
  <2>1. f = [k \in Layer |-> f[k]]
    OBVIOUS
  <2> HIDE DEF f
  <2> QED BY <1>3, <2>1
<1> DEFINE Path == CHOOSE g : g = [k \in Layer |-> \E a \in Arguments(k) : Trainable(a) \/ g[a]]
<1>5. Path = [k \in Layer |-> \E a \in Arguments(k) : Trainable(a) \/ Path[a]]
  <2> HIDE DEF f
  <2> QED BY <1>4
<1>6. InGradientPath = [k \in Layer |-> Path[k]]
  BY Zenon DEF InGradientPath
<1> HIDE DEF Path
<1>7. \A k \in Layer : Path[k] = \E a \in Arguments(k) : Trainable(a) \/ Path[a]
  BY <1>5
<1>8. InGradientPath \in [Layer -> BOOLEAN]
  BY <1>6, <1>7
<1> QED BY <1>6, <1>7, <1>8, ArgumentsFacts

-------------------------------------------------------------------------------
(***************************************************************************)
(* Rounds: sets that grow, one after another.                              *)
(***************************************************************************)
LEMMA RoundsGrow ==
  ASSUME NEW n \in Nat, NEW R, \A k \in 1..n : R[k - 1] \subseteq R[k]
  PROVE  \A i, j \in 0..n : i <= j => R[i] \subseteq R[j]
<1> SUFFICES ASSUME NEW i \in 0..n
             PROVE  \A j \in 0..n : i <= j => R[i] \subseteq R[j]
  OBVIOUS
<1> DEFINE Bad == {j \in Nat : j \in 0..n /\ i <= j /\ ~ (R[i] \subseteq R[j])}
<1> SUFFICES ASSUME Bad # {} PROVE FALSE
  OBVIOUS
<1>1. PICK m \in Bad : \A k \in Bad : m <= k
  BY Least
<1>2. m # i /\ m - 1 \in 0..n /\ i <= m - 1 /\ m \in 1..n
  BY <1>1
<1>3. m - 1 \notin Bad
  BY <1>1, <1>2
<1>4. R[i] \subseteq R[m - 1]
  BY <1>2, <1>3
<1> QED BY <1>1, <1>2, <1>4

LEMMA ClosureRounds ==
  ASSUME NEW g, IsFiniteSet(g), NEW values
  PROVE  \E R : /\ R[0] = values
                /\ \A k \in 1..Cardinality(g) :
                     R[k] = R[k - 1] \cup UNION {Outputs(SinkInvocations(g, v)) : v \in R[k - 1]}
                /\ ClosedUnderUse(g, values) = R[Cardinality(g)]
<1> DEFINE n == Cardinality(g)
           Sets == SUBSET (values \cup Outputs(g))
           Use(known) == known \cup UNION {Outputs(SinkInvocations(g, v)) : v \in known}
           Round(R) == [k \in 0..n |-> IF k = 0 THEN values ELSE Use(R[k - 1])]
           step == [known \in Sets |-> Use(known)]
<1>1. n \in Nat
  BY FS_CardinalityType
<1>2. \A v : Outputs(SinkInvocations(g, v)) \subseteq Outputs(g)
  BY DEF Outputs, SinkInvocations
<1>3. step \in [Sets -> Sets]
  <2>1. ASSUME NEW known \in Sets PROVE Use(known) \in Sets
    BY <1>2
  <2> HIDE DEF Sets, Use
  <2> QED BY <2>1
<1>4. PICK f \in [0..n -> Sets] : f[0] = values /\ \A k \in 1..n : f[k] = step[f[k - 1]]
  <2>1. values \in Sets
    OBVIOUS
  <2> HIDE DEF Sets, step, n
  <2>2. \E f : IsIteration(f, Sets, values, step, n)
    BY <1>1, <1>3, <2>1, Iteration
  <2> QED BY <2>2 DEF IsIteration
<1>5. f = Round(f)
  <2>1. \A k \in 0..n : f[k] = IF k = 0 THEN values ELSE Use(f[k - 1])
    <3>1. \A known \in Sets : step[known] = Use(known)
      <4> HIDE DEF Use, Sets
      <4> QED OBVIOUS
    <3>2. \A k \in 1..n : k - 1 \in 0..n /\ f[k] = Use(f[k - 1])
      <4> HIDE DEF Use, Sets, n, step
      <4> QED BY <1>1, <1>4, <3>1
    <3>3. \A k \in 0..n : k = 0 \/ k \in 1..n
      <4> HIDE DEF n
      <4> QED BY <1>1
    <3> HIDE DEF Use, Sets, n, step
    <3> QED BY <1>4, <3>2, <3>3
  <2> HIDE DEF Use, Sets, n
  <2> QED BY <1>4, <2>1
<1> DEFINE Rounds == CHOOSE R : R = Round(R)
<1>6. Rounds = Round(Rounds)
  <2> HIDE DEF Round
  <2> QED BY <1>5
<1>7. ClosedUnderUse(g, values) = Rounds[n]
  BY Zenon DEF ClosedUnderUse
<1> HIDE DEF Rounds
<1>8. Rounds[0] = values /\ \A k \in 1..n : Rounds[k] = Use(Rounds[k - 1])
  <2> HIDE DEF Use, n
  <2> QED BY <1>1, <1>6
<1> QED BY <1>7, <1>8

(***************************************************************************)
(* The values of the ports.                                                *)
(***************************************************************************)
LEMMA MergeFacts ==
  ASSUME NEW f, NEW g
  PROVE  /\ DOMAIN Merge(f, g) = DOMAIN f \cup DOMAIN g
         /\ \A s \in DOMAIN f : Merge(f, g)[s] = f[s]
         /\ \A s \in DOMAIN g : s \notin DOMAIN f => Merge(f, g)[s] = g[s]
BY DEF Merge

LEMMA OutPortFacts ==
  ASSUME NEW k, NEW r
  PROVE  DOMAIN OutPort(k, r) = {P("OUTPUT", r)} /\ OutPort(k, r)[P("OUTPUT", r)] = V(k, r)
BY PortFacts DEF OutPort

LEMMA PortValues ==
  ASSUME source \in SourceGraphs, NEW k \in Layer, NEW r
  PROVE  /\ Values(ArgPorts(k, r)) = {V(a, r) : a \in Arguments(k)}
         /\ Values(OutPort(k, r)) = {V(k, r)}
<1>1. Values(OutPort(k, r)) = {V(k, r)}
  BY PortFacts DEF OutPort
<1>2. \A v : v \in Values(ArgPorts(k, r)) <=> \E s \in DOMAIN ArgPorts(k, r) : v = ArgPorts(k, r)[s]
  BY DEF Values, Range
<1>5. /\ DOMAIN ArgPorts(k, r) = {P(ArgumentSlot[a], r) : a \in DOMAIN Args(k)}
      /\ \A a \in DOMAIN Args(k) : ArgPorts(k, r)[P(ArgumentSlot[a], r)] = V(Args(k)[a], r)
  BY ArgPortsFacts
<1>3. \A v : v \in Values(ArgPorts(k, r)) <=> \E a \in DOMAIN Args(k) : v = V(Args(k)[a], r)
  BY <1>2, <1>5
<1>4. \A v : v \in Values(ArgPorts(k, r)) <=> v \in {V(a, r) : a \in Arguments(k)}
  BY <1>3, ArgumentsFacts
<1> QED BY <1>1, <1>4

Dynamic == {InvocationOf(k) : k \in Layer}

LEMMA InvFields ==
  ASSUME NEW k
  PROVE  /\ Inv(k).guid = k /\ Inv(k).op = Op(k) /\ Inv(k).ins = ArgPorts(k, "none")
         /\ Inv(k).outs = OutPort(k, "none")
BY DEF Inv

LEMMA DynamicFacts ==
  ASSUME source \in SourceGraphs
  PROVE  /\ Dynamic = {Inv(k) : k \in Layer}
         /\ IsFiniteSet(Dynamic) /\ Cardinality(Dynamic) = Last
         /\ Outputs(Dynamic) = {V(k, "none") : k \in Layer}
         /\ Inputs(Dynamic) \subseteq {V(k, "none") : k \in Layer}
         /\ AllValues(Dynamic) = {V(k, "none") : k \in Layer}
<1>1. Dynamic = {Inv(k) : k \in Layer}
  BY InvocationIsInv DEF Dynamic
<1>2. IsFiniteSet(Dynamic) /\ Cardinality(Dynamic) = Last
  <2> DEFINE f == [k \in 1..Last |-> Inv(k)]
  <2>1. Last \in Nat /\ Layer = 1..Last
    BY SourceFacts
  <2>2. IsFiniteSet(1..Last) /\ Cardinality(1..Last) = Last
    BY <2>1, FS_Interval
  <2>3. f \in Bijection(1..Last, Dynamic)
    <3>1. \A j, k \in 1..Last : f[j] = f[k] => j = k
      BY InvFields
    <3>2. f \in [1..Last -> Dynamic] /\ \A i \in Dynamic : \E k \in 1..Last : f[k] = i
      BY <1>1, <2>1
    <3> HIDE DEF f
    <3> QED BY <3>1, <3>2 DEF Bijection, Injection, Surjection, IsInjective
  <2>4. ExistsBijection(1..Last, Dynamic)
    BY <2>3 DEF ExistsBijection
  <2> QED BY <2>2, <2>4, FS_Bijection
<1>3. Outputs(Dynamic) = {V(k, "none") : k \in Layer}
  <2>1. \A k \in Layer : Values(Inv(k).outs) = {V(k, "none")}
    BY InvFields, PortValues
  <2> QED BY <1>1, <2>1 DEF Outputs
<1>4. Inputs(Dynamic) \subseteq {V(k, "none") : k \in Layer}
  <2>1. \A k \in Layer : Values(Inv(k).ins) = {V(a, "none") : a \in Arguments(k)}
    BY InvFields, PortValues
  <2>2. \A k \in Layer : Arguments(k) \subseteq Layer
    BY ArgumentsFacts
  <2> QED BY <1>1, <2>1, <2>2 DEF Inputs
<1> QED BY <1>1, <1>2, <1>3, <1>4 DEF AllValues

-------------------------------------------------------------------------------
InPath(k) == InGradientPath[k]
Differentiated == {k \in Layer : InPath(k)}

\* The gradient of tensor k is asked for.
Wanted(k) == Trainable(k) \/ InPath(k)

LEMMA DynamicSites ==
  ASSUME source \in SourceGraphs, NEW k \in Layer
  PROVE  /\ Sources(Dynamic, V(k, "none")) =
              {[inv |-> Inv(k), dir |-> "out", slot |-> P("OUTPUT", "none")]}
         /\ SinkInvocations(Dynamic, V(k, "none")) = {Inv(u) : u \in {j \in Layer : k \in Arguments(j)}}
<1>1. \A j \in Layer : DOMAIN Inv(j).outs = {P("OUTPUT", "none")} /\ Inv(j).outs[P("OUTPUT", "none")] = V(j, "none")
  <2> TAKE j \in Layer
  <2>1. Inv(j).outs = OutPort(j, "none")
    BY InvFields
  <2> QED BY <2>1, OutPortFacts
<1>2. \A j \in Layer : OutSites(Inv(j)) = {[inv |-> Inv(j), dir |-> "out", slot |-> P("OUTPUT", "none")]}
  BY <1>1 DEF OutSites
<1>3. \A j \in Layer : ValueAt([inv |-> Inv(j), dir |-> "out", slot |-> P("OUTPUT", "none")]) = V(j, "none")
  BY <1>1 DEF ValueAt
<1>4. \A j \in Layer : V(j, "none") = V(k, "none") => j = k
  BY ValuesInjective
<1>5. \A s : s \in Sources(Dynamic, V(k, "none")) <=>
             \E j \in Layer : s \in OutSites(Inv(j)) /\ ValueAt(s) = V(k, "none")
  BY DynamicFacts DEF Sources
<1>6. \A s : s \in Sources(Dynamic, V(k, "none")) <=>
             s = [inv |-> Inv(k), dir |-> "out", slot |-> P("OUTPUT", "none")]
  BY <1>2, <1>3, <1>4, <1>5
<1>7. \A j \in Layer : V(k, "none") \in Values(Inv(j).ins) <=> k \in Arguments(j)
  <2> SUFFICES ASSUME NEW j \in Layer
               PROVE  V(k, "none") \in Values(Inv(j).ins) <=> k \in Arguments(j)
    OBVIOUS
  <2>1. Values(Inv(j).ins) = {V(a, "none") : a \in Arguments(j)}
    BY InvFields, PortValues
  <2> QED BY <2>1, ValuesInjective
<1>8. SinkInvocations(Dynamic, V(k, "none")) = {Inv(u) : u \in {j \in Layer : k \in Arguments(j)}}
  BY <1>7, DynamicFacts DEF SinkInvocations
<1> QED BY <1>6, <1>8

LEMMA FundamentallyRequired ==
  ASSUME source \in SourceGraphs, NEW k \in Layer
  PROVE  IsFundamentallyRequired(Dynamic, V(k, "none")) <=> Trainable(k)
<1>1. Sources(Dynamic, V(k, "none")) =
              {[inv |-> Inv(k), dir |-> "out", slot |-> P("OUTPUT", "none")]}
  BY DynamicSites
<1>2. Inv(k).op = Op(k) /\ V(k, "none").grad = source.layers[k].grad
  BY InvFields, ValueFields
<1>3. \A s \in Sources(Dynamic, V(k, "none")) : s.inv.op = Op(k)
  BY <1>1, <1>2
<1>4. Sources(Dynamic, V(k, "none")) # {}
  BY <1>1
<1> QED BY <1>2, <1>3, <1>4 DEF IsFundamentallyRequired, Trainable, Op

\* The values whose gradients are needed are those of the gradient path.
LEMMA RequiredValues ==
  ASSUME source \in SourceGraphs
  PROVE  ClosedUnderUse(Dynamic, {v \in AllValues(Dynamic) : IsFundamentallyRequired(Dynamic, v)})
           = {V(k, "none") : k \in {j \in Layer : Wanted(j)}}
<1> DEFINE values == {v \in AllValues(Dynamic) : IsFundamentallyRequired(Dynamic, v)}
           n == Cardinality(Dynamic)
           Required == ClosedUnderUse(Dynamic, values)
<1>1. values = {V(k, "none") : k \in {j \in Layer : Trainable(j)}}
  BY DynamicFacts, FundamentallyRequired
<1>2. n = Last /\ n \in Nat /\ Layer = 1..n
  BY DynamicFacts, SourceFacts
<1>3. PICK R : /\ R[0] = values
               /\ \A k \in 1..n :
                     R[k] = R[k - 1] \cup UNION {Outputs(SinkInvocations(Dynamic, v)) : v \in R[k - 1]}
               /\ Required = R[n]
  <2>1. IsFiniteSet(Dynamic)
    BY DynamicFacts
  <2> HIDE DEF values
  <2> QED BY <2>1, ClosureRounds
<1>4. \A k \in Layer : Outputs(SinkInvocations(Dynamic, V(k, "none"))) = {V(u, "none") : u \in {j \in Layer : k \in Arguments(j)}}
  <2> SUFFICES ASSUME NEW k \in Layer
               PROVE  Outputs(SinkInvocations(Dynamic, V(k, "none"))) = {V(u, "none") : u \in {j \in Layer : k \in Arguments(j)}}
    OBVIOUS
  <2>1. \A u \in Layer : Values(Inv(u).outs) = {V(u, "none")}
    BY InvFields, PortValues
  <2> QED BY <2>1, DynamicSites DEF Outputs
<1> HIDE DEF values, n, Required
<1> DEFINE G == {V(k, "none") : k \in {j \in Layer : Wanted(j)}}
<1>5. \A m \in 0..n : R[m] \subseteq G
  <2> DEFINE Bad == {m \in Nat : m \in 0..n /\ ~ (R[m] \subseteq G)}
  <2> SUFFICES ASSUME Bad # {} PROVE FALSE
    BY <1>2
  <2>1. PICK m \in Bad : \A k \in Bad : m <= k
    <3> HIDE DEF G
    <3> QED BY Least
  <2>2. m # 0
    <3>1. values \subseteq G
      BY <1>1 DEF Wanted
    <3> HIDE DEF G
    <3> QED BY <3>1, <1>3, <2>1
  <2>3. m \in 1..n /\ m - 1 \in 0..n /\ m - 1 \notin Bad
    <3> HIDE DEF G
    <3> QED BY <1>2, <2>1, <2>2
  <2>4. R[m - 1] \subseteq G
    BY <1>2, <2>3
  <2>5. R[m] = R[m - 1] \cup UNION {Outputs(SinkInvocations(Dynamic, v)) : v \in R[m - 1]}
    BY <1>3, <2>3
  <2>6. ASSUME NEW v \in R[m - 1], NEW w \in Outputs(SinkInvocations(Dynamic, v))
        PROVE  w \in G
    <3>1. PICK k \in Layer : v = V(k, "none") /\ Wanted(k)
      BY <2>4
    <3>2. PICK u \in Layer : w = V(u, "none") /\ k \in Arguments(u)
      BY <1>4, <3>1
    <3>3. InPath(u)
      BY <3>1, <3>2, PathUnfolds DEF InPath, Wanted
    <3> QED BY <3>2, <3>3 DEF Wanted
  <2>7. R[m] \subseteq G
    <3> HIDE DEF G
    <3> QED BY <2>4, <2>5, <2>6
  <2> QED BY <2>1, <2>7
<1>6. \A i, j \in 0..n : i <= j => R[i] \subseteq R[j]
  <2>1. \A k \in 1..n : R[k - 1] \subseteq R[k]
    BY <1>3
  <2> QED BY <1>2, <2>1, RoundsGrow
<1>7. \A k \in Layer : Wanted(k) => V(k, "none") \in R[k]
  <2> DEFINE Bad == {k \in Nat : k \in Layer /\ Wanted(k) /\ V(k, "none") \notin R[k]}
  <2> SUFFICES ASSUME Bad # {} PROVE FALSE
    BY <1>2
  <2>1. PICK k \in Bad : \A j \in Bad : k <= j
    BY Least
  <2>2. k \in Layer /\ k \in 1..n /\ k \in 0..n /\ k - 1 \in 0..n /\ 0 \in 0..n /\ 0 <= k
    BY <1>2, <2>1
  <2>3. CASE Trainable(k)
    <3>1. V(k, "none") \in R[0]
      BY <1>1, <1>3, <2>2, <2>3
    <3>2. R[0] \subseteq R[k]
      BY <1>6, <2>2
    <3> QED BY <2>1, <3>1, <3>2
  <2>4. CASE InPath(k)
    <3>1. PICK a \in Arguments(k) : Trainable(a) \/ InPath(a)
      BY <2>2, <2>4, PathUnfolds DEF InPath
    <3>2. a \in Layer /\ a < k /\ Wanted(a)
      BY <2>2, <3>1, ArgumentsFacts DEF Wanted
    <3>3. a \in Nat /\ a \notin Bad
      BY <1>2, <2>1, <3>2
    <3>4. V(a, "none") \in R[a]
      BY <3>2, <3>3
    <3>5. a \in 0..n /\ a <= k - 1
      BY <1>2, <2>2, <3>2
    <3>6. V(a, "none") \in R[k - 1]
      BY <1>6, <2>2, <3>4, <3>5
    <3>7. V(k, "none") \in Outputs(SinkInvocations(Dynamic, V(a, "none")))
      BY <1>4, <2>2, <3>1, <3>2
    <3>8. R[k] = R[k - 1] \cup UNION {Outputs(SinkInvocations(Dynamic, v)) : v \in R[k - 1]}
      BY <1>3, <2>2
    <3>9. V(k, "none") \in R[k]
      BY <3>6, <3>7, <3>8
    <3> QED BY <2>1, <3>9
  <2> QED BY <2>1, <2>3, <2>4 DEF Wanted
<1>8. G \subseteq R[n]
  <2>1. \A k \in Layer : k \in 0..n /\ n \in 0..n /\ k <= n
    BY <1>2
  <2>2. \A k \in Layer : R[k] \subseteq R[n]
    BY <1>6, <2>1
  <2> QED BY <1>7, <2>2
<1>9. R[n] \subseteq G
  <2>1. n \in 0..n
    BY <1>2
  <2> HIDE DEF G
  <2> QED BY <1>5, <2>1
<1>10. Required = G
  <2> HIDE DEF G
  <2> QED BY <1>3, <1>8, <1>9
<1> QED BY <1>10 DEF Required, values

LEMMA NeededIsPath ==
  ASSUME source \in SourceGraphs
  PROVE  NeededInBackward(Dynamic) = {Inv(k) : k \in Differentiated}
<1> DEFINE required == ClosedUnderUse(Dynamic, {v \in AllValues(Dynamic) : IsFundamentallyRequired(Dynamic, v)})
<1>1. required = {V(k, "none") : k \in {j \in Layer : Wanted(j)}}
  BY RequiredValues
<1>2. NeededInBackward(Dynamic) = UNION {SinkInvocations(Dynamic, v) : v \in required}
  BY DEF NeededInBackward
<1> HIDE DEF required
<1>3. \A k \in Layer : SinkInvocations(Dynamic, V(k, "none")) = {Inv(u) : u \in {j \in Layer : k \in Arguments(j)}}
  BY DynamicSites
<1>4. \A i : i \in NeededInBackward(Dynamic) <=> \E k \in Layer : Wanted(k) /\ i \in SinkInvocations(Dynamic, V(k, "none"))
  BY <1>1, <1>2
<1>5. \A i : i \in NeededInBackward(Dynamic) <=> \E u \in Layer : i = Inv(u) /\ \E k \in Layer : k \in Arguments(u) /\ Wanted(k)
  BY <1>3, <1>4
<1>6. \A u \in Layer : InPath(u) <=> \E k \in Layer : k \in Arguments(u) /\ Wanted(k)
  BY PathUnfolds, ArgumentsFacts DEF InPath, Wanted
<1> QED BY <1>5, <1>6 DEF Differentiated

-------------------------------------------------------------------------------
(***************************************************************************)
(* The graph after each pass.                                              *)
(***************************************************************************)
Expanded == ExpandPasses(Dynamic)
Complete == IF HasLoss THEN Expanded \cup {Loss} ELSE Expanded
Updated == InsertUpdates(Complete)

Weights == {k \in Layer : Op(k) = "weight"}

LEMMA ExpandedIs ==
  ASSUME source \in SourceGraphs
  PROVE  Expanded = {Fwd(k) : k \in Layer} \cup {Bwd(k) : k \in Differentiated}
<1>1. {ForwardTask(i) : i \in Dynamic} = {Fwd(k) : k \in Layer}
  BY DynamicFacts DEF Fwd
<1>2. {BackwardTask(i) : i \in NeededInBackward(Dynamic)} = {Bwd(k) : k \in Differentiated}
  BY NeededIsPath DEF Bwd
<1> QED BY <1>1, <1>2 DEF Expanded, ExpandPasses

LEMMA LabelFacts ==
  /\ Label.tensor = LabelTensor /\ Label.role = "loss" /\ Label.coord = 0 /\ Label.mapping = {}
  /\ \A k \in Nat : \A r : Label # V(k, r)
<1> DEFINE v == V(Logit, "fwd")
<1>1. v = [tensor |-> Logit, grad |-> source.layers[Logit].grad, role |-> "fwd", coord |-> 0, mapping |-> {}]
  BY DEF V
<1>2. Label = [v EXCEPT !.tensor = LabelTensor, !.grad = FALSE, !.role = "loss"]
  BY DEF Label, LabelValue
<1> HIDE DEF v
<1>3. Label.tensor = LabelTensor /\ Label.role = "loss" /\ Label.coord = 0 /\ Label.mapping = {}
  BY <1>1, <1>2
<1>4. LabelTensor \notin Nat
  BY IdentitiesAssumption
<1> QED BY <1>3, <1>4, ValueFields

LEMMA LossFacts ==
  /\ Loss.guid = LossGuid /\ Loss.op = "loss" /\ Loss.task = "LOSS" /\ Loss.devices = {}
  /\ Loss.mapping = LossMap
  /\ DOMAIN Loss.ins = {P("INPUT", "loss"), P("LOGIT", "fwd")}
  /\ Loss.ins[P("INPUT", "loss")] = Label
  /\ Loss.ins[P("LOGIT", "fwd")] = V(Logit, "fwd")
  /\ DOMAIN Loss.outs = {P("LOGIT", "grad")}
  /\ Loss.outs[P("LOGIT", "grad")] = V(Logit, "grad")
<1>1. LogitGradient(V(Logit, "fwd")) = V(Logit, "grad")
  BY ValueRole DEF LogitGradient
<1>2. \A name, r : [Slot(name) EXCEPT !.role = r] = P(name, r)
  <2>1. \A name : Slot(name) = P(name, "none")
    BY DEF Slot, P
  <2> QED BY <2>1, SlotRole
<1>3. Label.role = "loss" /\ V(Logit, "fwd").role = "fwd" /\ V(Logit, "grad").role = "grad"
  BY LabelFacts, ValueFields
<1>4. Loss.guid = LossGuid /\ Loss.op = "loss" /\ Loss.task = "LOSS" /\ Loss.devices = {}
      /\ Loss.mapping = LossMap
  BY DEF Loss, LossTask
<1>5. Loss.ins = Merge(Port([Slot("INPUT") EXCEPT !.role = Label.role], Label),
                       Port([Slot("LOGIT") EXCEPT !.role = V(Logit, "fwd").role], V(Logit, "fwd")))
  BY DEF Loss, LossTask, Label
<1>6. Loss.ins = Merge(Port(P("INPUT", "loss"), Label), Port(P("LOGIT", "fwd"), V(Logit, "fwd")))
  BY <1>2, <1>3, <1>5
<1>7. Loss.outs = Port([Slot("LOGIT") EXCEPT !.role = LogitGradient(V(Logit, "fwd")).role], LogitGradient(V(Logit, "fwd")))
  BY DEF Loss, LossTask
<1>8. Loss.outs = Port(P("LOGIT", "grad"), V(Logit, "grad"))
  BY <1>1, <1>2, <1>3, <1>7
<1>9. P("INPUT", "loss") # P("LOGIT", "fwd")
  BY DEF P
<1>10. /\ DOMAIN Loss.ins = {P("INPUT", "loss"), P("LOGIT", "fwd")}
       /\ Loss.ins[P("INPUT", "loss")] = Label
       /\ Loss.ins[P("LOGIT", "fwd")] = V(Logit, "fwd")
  <2> DEFINE f == Port(P("INPUT", "loss"), Label)
             g == Port(P("LOGIT", "fwd"), V(Logit, "fwd"))
  <2>1. DOMAIN f = {P("INPUT", "loss")} /\ f[P("INPUT", "loss")] = Label
    BY PortFacts
  <2>2. DOMAIN g = {P("LOGIT", "fwd")} /\ g[P("LOGIT", "fwd")] = V(Logit, "fwd")
    BY PortFacts
  <2> HIDE DEF f, g
  <2>3. Loss.ins = Merge(f, g)
    BY <1>6 DEF f, g
  <2> DEFINE h == Merge(f, g)
  <2>7. /\ DOMAIN h = DOMAIN f \cup DOMAIN g
        /\ \A s \in DOMAIN f : h[s] = f[s]
        /\ \A s \in DOMAIN g : s \notin DOMAIN f => h[s] = g[s]
    BY MergeFacts
  <2>8. Loss.ins = h
    BY <2>3
  <2> HIDE DEF h
  <2>4. DOMAIN Loss.ins = DOMAIN f \cup DOMAIN g
    BY <2>7, <2>8
  <2>5. Loss.ins[P("INPUT", "loss")] = Label
    BY <2>1, <2>7, <2>8
  <2>6. Loss.ins[P("LOGIT", "fwd")] = V(Logit, "fwd")
    <3>1. P("LOGIT", "fwd") \in DOMAIN g /\ P("LOGIT", "fwd") \notin DOMAIN f
      BY <1>9, <2>1, <2>2
    <3> QED BY <2>2, <2>7, <2>8, <3>1
  <2> QED BY <2>1, <2>2, <2>4, <2>5, <2>6
<1> QED BY <1>4, <1>8, <1>10, PortFacts

LEMMA UpdFacts ==
  ASSUME source \in SourceGraphs, NEW k \in Layer
  PROVE  /\ Upd(k).guid = k /\ Upd(k).op = Op(k) /\ Upd(k).task = "UPD" /\ Upd(k).devices = {}
         /\ Upd(k).mapping = MapOf(k)
         /\ DOMAIN Upd(k).ins = {P("OUTPUT", r) : r \in UpdateRoles}
         /\ \A r \in UpdateRoles : Upd(k).ins[P("OUTPUT", r)] = V(k, r)
         /\ Upd(k).outs = <<>>
<1> DEFINE i == Fwd(k)
           ports == [s \in {[P("OUTPUT", "fwd") EXCEPT !.role = r] : r \in UpdateRoles} |->
                       [V(k, "fwd") EXCEPT !.role = s.role]]
<1>1. i.outs = OutPort(k, "fwd") /\ i.guid = k /\ i.op = Op(k) /\ i.devices = {} /\ i.mapping = MapOf(k)
  BY FwdFacts
<1>2. DOMAIN i.outs = {P("OUTPUT", "fwd")} /\ i.outs[P("OUTPUT", "fwd")] = V(k, "fwd")
  BY <1>1, OutPortFacts
<1>3. (CHOOSE s \in DOMAIN i.outs : TRUE) = P("OUTPUT", "fwd")
  BY <1>2
<1>4. Upd(k) = [i EXCEPT !.task = "UPD", !.ins = ports, !.outs = <<>>]
  BY <1>2, <1>3 DEF Upd, UpdateTask
<1>5. DOMAIN ports = {P("OUTPUT", r) : r \in UpdateRoles}
  BY SlotRole
<1>6. ASSUME NEW r \in UpdateRoles
      PROVE  ports[P("OUTPUT", r)] = V(k, r)
  <2>1. P("OUTPUT", r) \in {[P("OUTPUT", "fwd") EXCEPT !.role = q] : q \in UpdateRoles}
    BY SlotRole
  <2>2. ports[P("OUTPUT", r)] = [V(k, "fwd") EXCEPT !.role = P("OUTPUT", r).role]
    BY <2>1
  <2>3. P("OUTPUT", r).role = r
    BY SlotFields
  <2> HIDE DEF ports
  <2> QED BY <2>2, <2>3, ValueRole
<1>7. i = [f \in DOMAIN i |-> i[f]] /\ {"guid", "op", "task", "devices", "mapping", "ins", "outs"} \subseteq DOMAIN i
  BY DEF Fwd, ForwardTask, Inv
<1> HIDE DEF i, ports
<1>8. Upd(k).guid = i.guid /\ Upd(k).op = i.op /\ Upd(k).task = "UPD" /\ Upd(k).devices = i.devices
      /\ Upd(k).mapping = i.mapping /\ Upd(k).ins = ports /\ Upd(k).outs = <<>>
  BY <1>4, <1>7
<1> QED BY <1>1, <1>5, <1>6, <1>8

(***************************************************************************)
(* The updated graph.                                                      *)
(***************************************************************************)
LEMMA WithUpdateIs ==
  ASSUME source \in SourceGraphs
  PROVE  /\ \A k \in Layer : WithUpdate(Fwd(k)) = IF k \in Weights THEN {Fwd(k), Upd(k)} ELSE {Fwd(k)}
         /\ \A k \in Layer : WithUpdate(Bwd(k)) = {Bwd(k)}
         /\ WithUpdate(Loss) = {Loss}
<1>1. ASSUME NEW k \in Layer
      PROVE  WithUpdate(Fwd(k)) = IF k \in Weights THEN {Fwd(k), Upd(k)} ELSE {Fwd(k)}
  BY FwdFacts DEF WithUpdate, Upd, Weights
<1>2. ASSUME NEW k \in Layer
      PROVE  WithUpdate(Bwd(k)) = {Bwd(k)}
  BY BwdFacts DEF WithUpdate
<1>3. WithUpdate(Loss) = {Loss}
  BY LossFacts DEF WithUpdate
<1> QED BY <1>1, <1>2, <1>3

\* The invocations of the updated graph.
IsTask(i) ==
  \/ \E k \in Layer : i = Fwd(k)
  \/ \E k \in Differentiated : i = Bwd(k)
  \/ \E k \in Weights : i = Upd(k)
  \/ HasLoss /\ i = Loss

LEMMA ExpandedMembers ==
  ASSUME source \in SourceGraphs, NEW i
  PROVE  i \in Expanded <=> \/ \E k \in Layer : i = Fwd(k)
                            \/ \E k \in Differentiated : i = Bwd(k)
BY ExpandedIs

LEMMA CompleteMembers ==
  ASSUME source \in SourceGraphs, NEW i
  PROVE  i \in Complete <=> i \in Expanded \/ (HasLoss /\ i = Loss)
BY DEF Complete

LEMMA UpdatedMembers ==
  ASSUME source \in SourceGraphs, NEW i
  PROVE  i \in Updated <=> IsTask(i)
<1>1. \A j : j \in Complete <=> \/ \E k \in Layer : j = Fwd(k)
                                \/ \E k \in Differentiated : j = Bwd(k)
                                \/ HasLoss /\ j = Loss
  <2> TAKE j
  <2>1. j \in Complete <=> j \in Expanded \/ (HasLoss /\ j = Loss)
    BY CompleteMembers
  <2>2. j \in Expanded <=> \/ \E k \in Layer : j = Fwd(k)
                           \/ \E k \in Differentiated : j = Bwd(k)
    BY ExpandedMembers
  <2> QED BY <2>1, <2>2
<1>2. i \in Updated <=> \E j \in Complete : i \in WithUpdate(j)
  BY DEF Updated, InsertUpdates
<1>3. Differentiated \subseteq Layer /\ Weights \subseteq Layer
  BY DEF Differentiated, Weights
<1>4. /\ \A k \in Layer : WithUpdate(Fwd(k)) = IF k \in Weights THEN {Fwd(k), Upd(k)} ELSE {Fwd(k)}
      /\ \A k \in Layer : WithUpdate(Bwd(k)) = {Bwd(k)}
      /\ WithUpdate(Loss) = {Loss}
  BY WithUpdateIs
<1>5. ASSUME NEW j \in Complete, i \in WithUpdate(j)
      PROVE  IsTask(i)
  <2>1. CASE \E k \in Layer : j = Fwd(k)
    <3>1. PICK k \in Layer : j = Fwd(k)
      BY <2>1
    <3>2. i = Fwd(k) \/ (k \in Weights /\ i = Upd(k))
      BY <1>4, <1>5, <3>1
    <3> QED BY <3>2 DEF IsTask
  <2>2. CASE \E k \in Differentiated : j = Bwd(k)
    <3>1. PICK k \in Differentiated : j = Bwd(k)
      BY <2>2
    <3>2. i = Bwd(k)
      BY <1>3, <1>4, <1>5, <3>1
    <3> QED BY <3>2 DEF IsTask
  <2>3. CASE HasLoss /\ j = Loss
    BY <1>4, <1>5, <2>3 DEF IsTask
  <2> QED BY <1>1, <2>1, <2>2, <2>3
<1>6. ASSUME IsTask(i)
      PROVE  \E j \in Complete : i \in WithUpdate(j)
  <2>1. ASSUME NEW k \in Layer, i = Fwd(k)
        PROVE  i \in Complete /\ i \in WithUpdate(i)
    BY <1>1, <1>4, <2>1
  <2>2. ASSUME NEW k \in Differentiated, i = Bwd(k)
        PROVE  i \in Complete /\ i \in WithUpdate(i)
    <3>1. i \in WithUpdate(i)
      BY <1>3, <1>4, <2>2
    <3>2. i \in Complete
      BY <1>1, <2>2
    <3> QED BY <3>1, <3>2
  <2>3. ASSUME NEW k \in Weights, i = Upd(k)
        PROVE  Fwd(k) \in Complete /\ i \in WithUpdate(Fwd(k))
    BY <1>1, <1>3, <1>4, <2>3
  <2>4. ASSUME HasLoss, i = Loss
        PROVE  i \in Complete /\ i \in WithUpdate(i)
    <3>1. i \in WithUpdate(i)
      BY <1>4, <2>4
    <3>2. i \in Complete
      BY <1>1, <2>4
    <3> QED BY <3>1, <3>2
  <2> QED BY <1>6, <2>1, <2>2, <2>3, <2>4 DEF IsTask
<1> QED BY <1>2, <1>5, <1>6

-------------------------------------------------------------------------------
Copied == InsertCopies(Updated)
Sharded == ExpandShards(Copied)

(***************************************************************************)
(* The stages: what the graph is, and which assertions have held.          *)
(***************************************************************************)
DynamicOK == IsValid(Dynamic)
ExpandedOK == IsValid(Expanded)
UpdatedOK == NoDuplicates(Complete, WithUpdate) /\ IsValid(Updated)
CopiedOK == MappingsResolve(Updated) /\ IsValid(Copied)
ShardedOK == (\A i \in Copied : ShardsAgree(i)) /\ NoDuplicates(Copied, Shards) /\ IsValid(Sharded)
LabelOutside == HasLoss => Label \notin AllValues(Sharded)

LEMMA SourceUnchanged ==
  ASSUME source' = source
  PROVE  /\ Dynamic' = Dynamic /\ Complete' = Complete /\ Label' = Label
         /\ HasLoss' = HasLoss /\ Local' = Local
         /\ Expanded' = Expanded /\ Updated' = Updated /\ Copied' = Copied /\ Sharded' = Sharded
<1>1. Layer' = Layer
  BY DEF Layer
<1>2. \A k : TensorOf(k)' = TensorOf(k)
  BY DEF TensorOf
<1>3. \A k : InvocationOf(k)' = InvocationOf(k)
  BY DEF InvocationOf, TensorOf
<1>4. Dynamic' = Dynamic
  BY <1>1, <1>3 DEF Dynamic
<1>5. Expanded' = Expanded
  BY <1>4 DEF Expanded
<1>6. \A k, r : V(k, r)' = V(k, r)
  BY DEF V
<1>7. Logit' = Logit /\ HasLoss' = HasLoss /\ Local' = Local
  BY DEF Logit, HasLoss, Local
<1>8. LossMap' = LossMap
  BY DEF LossMap
<1>9. V(Logit, "fwd")' = V(Logit, "fwd")
  BY <1>6, <1>7
<1>10. Label' = Label /\ Loss' = Loss
  BY <1>8, <1>9 DEF Label, Loss
<1>11. Complete' = Complete
  BY <1>5, <1>7, <1>10 DEF Complete
<1>12. Updated' = Updated
  BY <1>11 DEF Updated
<1>13. Copied' = Copied
  BY <1>12 DEF Copied
<1>14. Sharded' = Sharded
  BY <1>13 DEF Sharded
<1> QED BY <1>4, <1>5, <1>7, <1>10, <1>11, <1>12, <1>13, <1>14

LEMMA LogitFound ==
  ASSUME source \in SourceGraphs
  PROVE  HasLoss => FindOutput(Expanded, Logit, "fwd") = {V(Logit, "fwd")}
<1> SUFFICES ASSUME HasLoss PROVE FindOutput(Expanded, Logit, "fwd") = {V(Logit, "fwd")}
  OBVIOUS
<1>1. Logit \in Layer
  BY SourceFacts DEF HasLoss, Logit
<1>2. \A k \in Layer : Values(Fwd(k).outs) = {V(k, "fwd")}
  BY FwdFacts, PortValues
<1>3. \A k \in Layer : Values(Bwd(k).outs) = {V(a, "grad") : a \in Arguments(k)}
  BY BwdFacts, PortValues
<1>4. Differentiated \subseteq Layer
  BY DEF Differentiated
<1>5. \A v \in Outputs(Expanded) : (\E k \in Layer : v = V(k, "fwd")) \/ (\E k : v = V(k, "grad"))
  <2> TAKE v \in Outputs(Expanded)
  <2>1. PICK i \in Expanded : v \in Values(i.outs)
    BY DEF Outputs
  <2>2. CASE \E k \in Layer : i = Fwd(k)
    BY <1>2, <2>1, <2>2
  <2>3. CASE \E k \in Differentiated : i = Bwd(k)
    BY <1>3, <1>4, <2>1, <2>3
  <2> QED BY <2>1, <2>2, <2>3, ExpandedMembers
<1>6. V(Logit, "fwd") \in Outputs(Expanded)
  <2>1. Fwd(Logit) \in Expanded
    BY <1>1, ExpandedMembers
  <2> QED BY <1>1, <1>2, <2>1 DEF Outputs
<1>7. \A v : v \in FindOutput(Expanded, Logit, "fwd") <=> v = V(Logit, "fwd")
  BY <1>5, <1>6, ValueFields DEF FindOutput
<1> QED BY <1>7

(***************************************************************************)
(* The inductive invariant.                                                *)
(***************************************************************************)
Stages == {"aborted", "mapped", "dynamic", "expanded", "with loss", "with updates",
           "with copies", "sharded", "allocated"}

\* What an aborted run had come to, and the assertion that failed.
AbortedAt ==
  \/ graph = {} /\ ~DynamicOK
  \/ graph = Dynamic /\ ~ExpandedOK
  \/ graph = Complete /\ ExpandedOK /\ ~UpdatedOK
  \/ ~Local /\ graph = Updated /\ UpdatedOK /\ ~CopiedOK
  \/ ~Local /\ graph = Copied /\ UpdatedOK /\ CopiedOK /\ ~ShardedOK
  \/ ~Local /\ graph = Sharded /\ UpdatedOK /\ CopiedOK /\ ShardedOK /\ ~LabelOutside

\* The graph is what the passes so far make of the source graph.
GraphAtStage ==
  /\ stage = "mapped" => graph = {}
  /\ stage = "dynamic" => graph = Dynamic
  /\ stage = "expanded" => graph = Expanded /\ ExpandedOK
  /\ stage = "with loss" => graph = Complete /\ ExpandedOK /\ HasLoss
  /\ stage = "with updates" => graph = Updated /\ ExpandedOK /\ UpdatedOK
  /\ stage = "with copies" => ~Local /\ graph = Copied /\ ExpandedOK /\ UpdatedOK /\ CopiedOK
  /\ stage \in {"sharded", "allocated"} =>
       /\ ExpandedOK /\ UpdatedOK
       /\ ~Local => CopiedOK /\ ShardedOK
       /\ graph = IF Local THEN Updated ELSE Sharded
  /\ stage = "sharded" => ~Local
  /\ stage = "allocated" => Local \/ LabelOutside
  /\ stage = "aborted" => AbortedAt

\* The label is handed over by loss insertion.
InputsAtStage ==
  /\ stage \in {"mapped", "dynamic", "expanded"} => inputs = {}
  /\ stage \in {"with loss", "with updates", "with copies", "sharded", "allocated"} =>
       inputs = IF HasLoss THEN {Label} ELSE {}
  /\ stage = "with loss" => HasLoss
  /\ instances = IF stage = "allocated" THEN AllValues(graph) \ inputs ELSE {}

IInv ==
  /\ source \in SourceGraphs
  /\ stage \in Stages
  /\ GraphAtStage
  /\ InputsAtStage

LEMMA InitIInv == Init => IInv
BY DEF Init, IInv, GraphAtStage, InputsAtStage, Stages

LEMMA MakeDynamicGraphIInv ==
  ASSUME IInv, MakeDynamicGraph
  PROVE  IInv'
<1>1. source' = source /\ stage = "mapped" /\ inputs' = inputs /\ instances' = instances
      /\ \/ IsValid(Dynamic) /\ stage' = "dynamic" /\ graph' = Dynamic
         \/ ~IsValid(Dynamic) /\ stage' = "aborted" /\ graph' = graph
  BY DEF MakeDynamicGraph, Perform, Dynamic
<1>2. Dynamic' = Dynamic
  BY <1>1, SourceUnchanged
<1>3. DynamicOK' = DynamicOK
  BY <1>2 DEF DynamicOK
<1>4. GraphAtStage'
  BY <1>1, <1>2, <1>3 DEF IInv, GraphAtStage, AbortedAt, DynamicOK
<1> QED BY <1>1, <1>4 DEF IInv, InputsAtStage, Stages

LEMMA ChecksUnchanged ==
  ASSUME source' = source
  PROVE  /\ DynamicOK' = DynamicOK /\ ExpandedOK' = ExpandedOK /\ UpdatedOK' = UpdatedOK
         /\ CopiedOK' = CopiedOK /\ ShardedOK' = ShardedOK /\ LabelOutside' = LabelOutside
BY SourceUnchanged
   DEF DynamicOK, ExpandedOK, UpdatedOK, CopiedOK, ShardedOK, LabelOutside

LEMMA PerformPassExpansionIInv ==
  ASSUME IInv, PerformPassExpansion
  PROVE  IInv'
<1>1. source' = source /\ stage = "dynamic" /\ inputs' = inputs /\ instances' = instances
      /\ \/ ExpandedOK /\ stage' = "expanded" /\ graph' = Expanded
         \/ ~ExpandedOK /\ stage' = "aborted" /\ graph' = graph
  BY DEF PerformPassExpansion, Perform, Expanded, ExpandedOK, IInv, GraphAtStage
<1>2. Dynamic' = Dynamic /\ Expanded' = Expanded
  BY <1>1, SourceUnchanged
<1>3. ExpandedOK' = ExpandedOK
  BY <1>1, ChecksUnchanged
<1>4. GraphAtStage'
  BY <1>1, <1>2, <1>3 DEF IInv, GraphAtStage, AbortedAt
<1> QED BY <1>1, <1>4 DEF IInv, InputsAtStage, Stages

LEMMA PerformLossInsertionIInv ==
  ASSUME IInv, PerformLossInsertion
  PROVE  IInv'
<1>1. source' = source /\ stage = "expanded" /\ HasLoss /\ stage' = "with loss" /\ instances' = instances
  BY DEF PerformLossInsertion
<1>2. graph = Expanded /\ ExpandedOK
  BY <1>1 DEF IInv, GraphAtStage
<1>3. PICK logit \in FindOutput(graph, source.logit, "fwd") :
         /\ graph' = InsertLoss(graph, logit, source.lossMapping)
         /\ inputs' = {LabelValue(logit)}
  BY DEF PerformLossInsertion
<1>4. logit = V(Logit, "fwd")
  BY <1>1, <1>2, <1>3, LogitFound DEF IInv, Logit
<1>5. graph' = Complete
  BY <1>1, <1>2, <1>3, <1>4 DEF InsertLoss, Complete, Loss, LossMap
<1>6. inputs' = {Label}
  BY <1>3, <1>4 DEF Label
<1>7. Complete' = Complete /\ Label' = Label /\ HasLoss' = HasLoss
  BY <1>1, SourceUnchanged
<1>8. ExpandedOK' = ExpandedOK
  BY <1>1, ChecksUnchanged
<1>9. GraphAtStage'
  BY <1>1, <1>2, <1>5, <1>7, <1>8 DEF GraphAtStage
<1> QED BY <1>1, <1>6, <1>7, <1>9 DEF IInv, InputsAtStage, Stages

LEMMA PerformUpdateInsertionIInv ==
  ASSUME IInv, PerformUpdateInsertion
  PROVE  IInv'
<1>1. graph = Complete /\ ExpandedOK
      /\ stage = IF HasLoss THEN "with loss" ELSE "expanded"
  BY DEF PerformUpdateInsertion, Perform, IInv, GraphAtStage, Complete
<1>2. source' = source /\ inputs' = inputs /\ instances' = instances
      /\ \/ UpdatedOK /\ stage' = "with updates" /\ graph' = Updated
         \/ ~UpdatedOK /\ stage' = "aborted" /\ graph' = graph
  BY <1>1 DEF PerformUpdateInsertion, Perform, Updated, UpdatedOK
<1>3. Complete' = Complete /\ Label' = Label /\ HasLoss' = HasLoss /\ Updated' = Updated
  BY <1>2, SourceUnchanged
<1>4. ExpandedOK' = ExpandedOK /\ UpdatedOK' = UpdatedOK
  BY <1>2, ChecksUnchanged
<1>5. GraphAtStage'
  BY <1>1, <1>2, <1>3, <1>4 DEF GraphAtStage, AbortedAt
<1> QED BY <1>1, <1>2, <1>3, <1>5 DEF IInv, InputsAtStage, Stages

LEMMA PerformCopyInsertionIInv ==
  ASSUME IInv, PerformCopyInsertion
  PROVE  IInv'
<1>1. ~Local /\ stage = "with updates" /\ graph = Updated /\ ExpandedOK /\ UpdatedOK
  BY DEF PerformCopyInsertion, Perform, IInv, GraphAtStage
<1>2. source' = source /\ inputs' = inputs /\ instances' = instances
      /\ \/ CopiedOK /\ stage' = "with copies" /\ graph' = Copied
         \/ ~CopiedOK /\ stage' = "aborted" /\ graph' = graph
  BY <1>1 DEF PerformCopyInsertion, Perform, Copied, CopiedOK
<1>3. Local' = Local /\ Label' = Label /\ HasLoss' = HasLoss /\ Updated' = Updated /\ Copied' = Copied
  BY <1>2, SourceUnchanged
<1>4. ExpandedOK' = ExpandedOK /\ UpdatedOK' = UpdatedOK /\ CopiedOK' = CopiedOK
  BY <1>2, ChecksUnchanged
<1>5. GraphAtStage'
  BY <1>1, <1>2, <1>3, <1>4 DEF GraphAtStage, AbortedAt
<1> QED BY <1>1, <1>2, <1>3, <1>5 DEF IInv, InputsAtStage, Stages

LEMMA PerformShardExpansionIInv ==
  ASSUME IInv, PerformShardExpansion
  PROVE  IInv'
<1>1. ~Local /\ stage = "with copies" /\ graph = Copied /\ ExpandedOK /\ UpdatedOK /\ CopiedOK
  BY DEF PerformShardExpansion, Perform, IInv, GraphAtStage
<1>2. source' = source /\ inputs' = inputs /\ instances' = instances
      /\ \/ ShardedOK /\ stage' = "sharded" /\ graph' = Sharded
         \/ ~ShardedOK /\ stage' = "aborted" /\ graph' = graph
  BY <1>1 DEF PerformShardExpansion, Perform, Sharded, ShardedOK
<1>3. Local' = Local /\ Label' = Label /\ HasLoss' = HasLoss /\ Copied' = Copied /\ Sharded' = Sharded
  BY <1>2, SourceUnchanged
<1>4. ExpandedOK' = ExpandedOK /\ UpdatedOK' = UpdatedOK /\ CopiedOK' = CopiedOK /\ ShardedOK' = ShardedOK
  BY <1>2, ChecksUnchanged
<1>5. GraphAtStage'
  BY <1>1, <1>2, <1>3, <1>4 DEF GraphAtStage, AbortedAt
<1> QED BY <1>1, <1>2, <1>3, <1>5 DEF IInv, InputsAtStage, Stages

LEMMA AllocateInstancesIInv ==
  ASSUME IInv, AllocateInstances
  PROVE  IInv'
<1>1. source' = source /\ graph' = graph /\ inputs' = inputs
      /\ stage = (IF Local THEN "with updates" ELSE "sharded")
      /\ \/ /\ Local \/ AllValues(graph) \cap inputs = {}
            /\ stage' = "allocated" /\ instances' = AllValues(graph) \ (AllValues(graph) \cap inputs)
         \/ ~Local /\ AllValues(graph) \cap inputs # {} /\ stage' = "aborted" /\ instances' = instances
  BY DEF AllocateInstances
<1>2. Local' = Local /\ Label' = Label /\ HasLoss' = HasLoss /\ Updated' = Updated /\ Sharded' = Sharded
  BY <1>1, SourceUnchanged
<1>3. /\ ExpandedOK' = ExpandedOK /\ UpdatedOK' = UpdatedOK /\ CopiedOK' = CopiedOK
      /\ ShardedOK' = ShardedOK /\ LabelOutside' = LabelOutside
  BY <1>1, ChecksUnchanged
<1>4. inputs = IF HasLoss THEN {Label} ELSE {}
  BY <1>1 DEF IInv, InputsAtStage
<1>5. ~Local => graph = Sharded /\ (LabelOutside <=> AllValues(graph) \cap inputs = {})
  BY <1>1, <1>4 DEF IInv, GraphAtStage, LabelOutside
<1>6. GraphAtStage'
  BY <1>1, <1>2, <1>3, <1>5 DEF IInv, GraphAtStage, AbortedAt
<1>7. AllValues(graph)' = AllValues(graph)
  BY <1>1
<1>8. instances' = IF stage' = "allocated" THEN AllValues(graph)' \ inputs' ELSE {}
  BY <1>1, <1>7 DEF IInv, InputsAtStage
<1>9. InputsAtStage'
  BY <1>1, <1>2, <1>4, <1>8 DEF InputsAtStage
<1> QED BY <1>1, <1>6, <1>9 DEF IInv, Stages

\* At every stage the graph is the one the passes so far make of the source graph, or
\* the one the aborting pass was given, and inputs and instances follow from it.
THEOREM Inductive == Spec => []IInv
<1>1. IInv /\ [Next]_vars => IInv'
  <2> SUFFICES ASSUME IInv, [Next]_vars PROVE IInv'
    OBVIOUS
  <2>1. CASE UNCHANGED vars
    <3>1. source' = source /\ stage' = stage /\ graph' = graph /\ inputs' = inputs /\ instances' = instances
      BY <2>1 DEF vars
    <3>2. GraphAtStage' = GraphAtStage
      BY <3>1, SourceUnchanged, ChecksUnchanged DEF GraphAtStage, AbortedAt
    <3>3. InputsAtStage' = InputsAtStage
      BY <3>1, SourceUnchanged DEF InputsAtStage
    <3> QED BY <3>1, <3>2, <3>3 DEF IInv
  <2> QED BY <2>1, MakeDynamicGraphIInv, PerformPassExpansionIInv, PerformLossInsertionIInv,
             PerformUpdateInsertionIInv, PerformCopyInsertionIInv, PerformShardExpansionIInv,
             AllocateInstancesIInv DEF Next, Terminated
<1> QED BY InitIInv, <1>1, PTL DEF Spec

-------------------------------------------------------------------------------
(***************************************************************************)
(* The ports of the tasks.                                                 *)
(***************************************************************************)
LEMMA BwdPorts ==
  ASSUME source \in SourceGraphs, NEW k \in Layer
  PROVE  IF Op(k) = "replicate"
         THEN /\ DOMAIN BwdIns(k) = {P("OUTPUT", "grad")}
              /\ BwdIns(k)[P("OUTPUT", "grad")] = V(k, "grad")
         ELSE /\ DOMAIN BwdIns(k) = {P(ArgumentSlot[a], "fwd") : a \in DOMAIN Args(k)}
                                      \cup {P("OUTPUT", "fwd"), P("OUTPUT", "grad")}
              /\ \A a \in DOMAIN Args(k) : BwdIns(k)[P(ArgumentSlot[a], "fwd")] = V(Args(k)[a], "fwd")
              /\ BwdIns(k)[P("OUTPUT", "fwd")] = V(k, "fwd")
              /\ BwdIns(k)[P("OUTPUT", "grad")] = V(k, "grad")
<1>1. CASE Op(k) = "replicate"
  BY <1>1, OutPortFacts DEF BwdIns
<1>2. CASE Op(k) # "replicate"
  <2> DEFINE f == ArgPorts(k, "fwd")
             g == OutPort(k, "fwd")
             h == OutPort(k, "grad")
             m == Merge(g, h)
             b == Merge(f, m)
  <2>1. /\ DOMAIN f = {P(ArgumentSlot[a], "fwd") : a \in DOMAIN Args(k)}
        /\ \A a \in DOMAIN Args(k) : f[P(ArgumentSlot[a], "fwd")] = V(Args(k)[a], "fwd")
    BY ArgPortsFacts
  <2>2. DOMAIN g = {P("OUTPUT", "fwd")} /\ g[P("OUTPUT", "fwd")] = V(k, "fwd")
    BY OutPortFacts
  <2>3. DOMAIN h = {P("OUTPUT", "grad")} /\ h[P("OUTPUT", "grad")] = V(k, "grad")
    BY OutPortFacts
  <2>4. /\ DOMAIN m = DOMAIN g \cup DOMAIN h
        /\ \A s \in DOMAIN g : m[s] = g[s]
        /\ \A s \in DOMAIN h : s \notin DOMAIN g => m[s] = h[s]
    BY MergeFacts
  <2>5. /\ DOMAIN b = DOMAIN f \cup DOMAIN m
        /\ \A s \in DOMAIN f : b[s] = f[s]
        /\ \A s \in DOMAIN m : s \notin DOMAIN f => b[s] = m[s]
    BY MergeFacts
  <2>6. BwdIns(k) = b
    BY <1>2 DEF BwdIns
  <2> HIDE DEF f, g, h, m, b
  <2>7. P("OUTPUT", "grad") # P("OUTPUT", "fwd")
    BY DEF P
  <2>8. \A a \in DOMAIN Args(k) : ArgumentSlot[a] # "OUTPUT"
    BY LayerFacts DEF ArgumentSlot
  <2>9. P("OUTPUT", "grad") \notin DOMAIN f /\ P("OUTPUT", "fwd") \notin DOMAIN f
    BY <2>1, <2>8, SlotFields
  <2>10. m[P("OUTPUT", "fwd")] = V(k, "fwd") /\ m[P("OUTPUT", "grad")] = V(k, "grad")
    BY <2>2, <2>3, <2>4, <2>7
  <2>11. DOMAIN m = {P("OUTPUT", "fwd"), P("OUTPUT", "grad")}
    BY <2>2, <2>3, <2>4
  <2>12. DOMAIN b = {P(ArgumentSlot[a], "fwd") : a \in DOMAIN Args(k)} \cup {P("OUTPUT", "fwd"), P("OUTPUT", "grad")}
    BY <2>1, <2>5, <2>11
  <2>13. \A a \in DOMAIN Args(k) : b[P(ArgumentSlot[a], "fwd")] = V(Args(k)[a], "fwd")
    BY <2>1, <2>5
  <2>14. b[P("OUTPUT", "fwd")] = V(k, "fwd") /\ b[P("OUTPUT", "grad")] = V(k, "grad")
    BY <2>5, <2>9, <2>10, <2>11
  <2> QED BY <1>2, <2>6, <2>12, <2>13, <2>14
<1> QED BY <1>1, <1>2

\* What an invocation of the updated graph has at an input and at an output slot.
ReadsAt(i, s, v) ==
  \/ \E k \in Layer : \E a \in DOMAIN Args(k) :
       /\ i = Fwd(k) \/ (i = Bwd(k) /\ InPath(k) /\ Op(k) # "replicate")
       /\ s = P(ArgumentSlot[a], "fwd") /\ v = V(Args(k)[a], "fwd")
  \/ \E k \in Differentiated :
       /\ i = Bwd(k)
       /\ \/ s = P("OUTPUT", "grad") /\ v = V(k, "grad")
          \/ s = P("OUTPUT", "fwd") /\ v = V(k, "fwd") /\ Op(k) # "replicate"
  \/ \E k \in Weights : \E r \in UpdateRoles :
       i = Upd(k) /\ s = P("OUTPUT", r) /\ v = V(k, r)
  \/ /\ HasLoss /\ i = Loss
     /\ \/ s = P("INPUT", "loss") /\ v = Label
        \/ s = P("LOGIT", "fwd") /\ v = V(Logit, "fwd")

MakesAt(i, s, v) ==
  \/ \E k \in Layer : i = Fwd(k) /\ s = P("OUTPUT", "fwd") /\ v = V(k, "fwd")
  \/ \E k \in Differentiated : \E a \in DOMAIN Args(k) :
       i = Bwd(k) /\ s = P(ArgumentSlot[a], "grad") /\ v = V(Args(k)[a], "grad")
  \/ HasLoss /\ i = Loss /\ s = P("LOGIT", "grad") /\ v = V(Logit, "grad")

LEMMA SubsetsOfLayer ==
  /\ Differentiated \subseteq Layer /\ Weights \subseteq Layer
  /\ \A k : k \in Differentiated <=> k \in Layer /\ InPath(k)
BY DEF Differentiated, Weights

LEMMA TaskReads ==
  ASSUME source \in SourceGraphs, NEW i \in Updated, NEW s, NEW v
  PROVE  (s \in DOMAIN i.ins /\ v = i.ins[s]) => ReadsAt(i, s, v)
<1> SUFFICES ASSUME s \in DOMAIN i.ins, v = i.ins[s] PROVE ReadsAt(i, s, v)
  OBVIOUS
<1>1. CASE \E k \in Layer : i = Fwd(k)
  <2>1. PICK k \in Layer : i = Fwd(k)
    BY <1>1
  <2>2. i.ins = ArgPorts(k, "fwd")
    BY <2>1, FwdFacts
  <2>3. PICK a \in DOMAIN Args(k) : s = P(ArgumentSlot[a], "fwd")
    BY <2>2, ArgPortsFacts
  <2>4. v = V(Args(k)[a], "fwd")
    BY <2>2, <2>3, ArgPortsFacts
  <2> QED BY <2>1, <2>3, <2>4 DEF ReadsAt
<1>2. CASE \E k \in Differentiated : i = Bwd(k)
  <2>1. PICK k \in Differentiated : i = Bwd(k)
    BY <1>2
  <2>2. k \in Layer /\ InPath(k)
    BY SubsetsOfLayer
  <2>3. i.ins = BwdIns(k)
    BY <2>1, <2>2, BwdFacts
  <2>4. CASE Op(k) = "replicate"
    <3>1. s = P("OUTPUT", "grad") /\ v = V(k, "grad")
      BY <2>2, <2>3, <2>4, BwdPorts
    <3> QED BY <2>1, <3>1 DEF ReadsAt
  <2>5. CASE Op(k) # "replicate"
    <3>1. CASE s \in {P(ArgumentSlot[a], "fwd") : a \in DOMAIN Args(k)}
      <4>1. PICK a \in DOMAIN Args(k) : s = P(ArgumentSlot[a], "fwd")
        BY <3>1
      <4>2. v = V(Args(k)[a], "fwd")
        BY <2>2, <2>3, <2>5, <4>1, BwdPorts
      <4> QED BY <2>1, <2>2, <2>5, <4>1, <4>2 DEF ReadsAt
    <3>2. CASE s = P("OUTPUT", "fwd")
      <4>1. v = V(k, "fwd")
        BY <2>2, <2>3, <2>5, <3>2, BwdPorts
      <4> QED BY <2>1, <2>5, <3>2, <4>1 DEF ReadsAt
    <3>3. CASE s = P("OUTPUT", "grad")
      <4>1. v = V(k, "grad")
        BY <2>2, <2>3, <2>5, <3>3, BwdPorts
      <4> QED BY <2>1, <3>3, <4>1 DEF ReadsAt
    <3> QED BY <2>2, <2>3, <2>5, <3>1, <3>2, <3>3, BwdPorts
  <2> QED BY <2>4, <2>5
<1>3. CASE \E k \in Weights : i = Upd(k)
  <2>1. PICK k \in Weights : i = Upd(k)
    BY <1>3
  <2>2. PICK r \in UpdateRoles : s = P("OUTPUT", r)
    BY <2>1, UpdFacts, SubsetsOfLayer
  <2>3. v = V(k, r)
    BY <2>1, <2>2, UpdFacts, SubsetsOfLayer
  <2> QED BY <2>1, <2>2, <2>3 DEF ReadsAt
<1>4. CASE HasLoss /\ i = Loss
  BY <1>4, LossFacts DEF ReadsAt
<1> QED BY <1>1, <1>2, <1>3, <1>4, UpdatedMembers DEF IsTask

LEMMA ReadsTask ==
  ASSUME source \in SourceGraphs, NEW i, NEW s, NEW v, ReadsAt(i, s, v)
  PROVE  i \in Updated /\ s \in DOMAIN i.ins /\ v = i.ins[s]
<1>1. ASSUME NEW k \in Layer, NEW a \in DOMAIN Args(k), i = Fwd(k),
             s = P(ArgumentSlot[a], "fwd"), v = V(Args(k)[a], "fwd")
      PROVE  i \in Updated /\ s \in DOMAIN i.ins /\ v = i.ins[s]
  <2>1. i \in Updated
    BY <1>1, UpdatedMembers DEF IsTask
  <2>2. i.ins = ArgPorts(k, "fwd")
    BY <1>1, FwdFacts
  <2> QED BY <1>1, <2>1, <2>2, ArgPortsFacts
<1>2. ASSUME NEW k \in Differentiated, i = Bwd(k)
      PROVE  i \in Updated /\ i.ins = BwdIns(k) /\ k \in Layer
  BY <1>2, UpdatedMembers, BwdFacts, SubsetsOfLayer DEF IsTask
<1>3. ASSUME NEW k \in Layer, NEW a \in DOMAIN Args(k), i = Bwd(k), InPath(k), Op(k) # "replicate",
             s = P(ArgumentSlot[a], "fwd"), v = V(Args(k)[a], "fwd")
      PROVE  i \in Updated /\ s \in DOMAIN i.ins /\ v = i.ins[s]
  <2>1. i \in Updated /\ i.ins = BwdIns(k)
    BY <1>2, <1>3, SubsetsOfLayer
  <2> QED BY <1>3, <2>1, BwdPorts
<1>4. ASSUME NEW k \in Differentiated, i = Bwd(k),
             s = P("OUTPUT", "grad") /\ v = V(k, "grad")
      PROVE  i \in Updated /\ s \in DOMAIN i.ins /\ v = i.ins[s]
  <2>1. i \in Updated /\ i.ins = BwdIns(k) /\ k \in Layer
    BY <1>2, <1>4
  <2>2. CASE Op(k) = "replicate"
    BY <1>4, <2>1, <2>2, BwdPorts
  <2>3. CASE Op(k) # "replicate"
    BY <1>4, <2>1, <2>3, BwdPorts
  <2> QED BY <2>2, <2>3
<1>5. ASSUME NEW k \in Differentiated, i = Bwd(k), Op(k) # "replicate",
             s = P("OUTPUT", "fwd") /\ v = V(k, "fwd")
      PROVE  i \in Updated /\ s \in DOMAIN i.ins /\ v = i.ins[s]
  <2>1. i \in Updated /\ i.ins = BwdIns(k) /\ k \in Layer
    BY <1>2, <1>5
  <2> QED BY <1>5, <2>1, BwdPorts
<1>6. ASSUME NEW k \in Weights, NEW r \in UpdateRoles, i = Upd(k), s = P("OUTPUT", r), v = V(k, r)
      PROVE  i \in Updated /\ s \in DOMAIN i.ins /\ v = i.ins[s]
  <2>1. k \in Layer /\ i \in Updated
    BY <1>6, SubsetsOfLayer, UpdatedMembers DEF IsTask
  <2> QED BY <1>6, <2>1, UpdFacts
<1>7. ASSUME HasLoss, i = Loss,
             \/ s = P("INPUT", "loss") /\ v = Label
             \/ s = P("LOGIT", "fwd") /\ v = V(Logit, "fwd")
      PROVE  i \in Updated /\ s \in DOMAIN i.ins /\ v = i.ins[s]
  <2>1. i \in Updated
    BY <1>7, UpdatedMembers DEF IsTask
  <2> QED BY <1>7, <2>1, LossFacts
<1> QED BY <1>1, <1>3, <1>4, <1>5, <1>6, <1>7 DEF ReadsAt

LEMMA TaskMakes ==
  ASSUME source \in SourceGraphs, NEW i \in Updated, NEW s, NEW v
  PROVE  (s \in DOMAIN i.outs /\ v = i.outs[s]) => MakesAt(i, s, v)
<1> SUFFICES ASSUME s \in DOMAIN i.outs, v = i.outs[s] PROVE MakesAt(i, s, v)
  OBVIOUS
<1>1. CASE \E k \in Layer : i = Fwd(k)
  <2>1. PICK k \in Layer : i = Fwd(k)
    BY <1>1
  <2>2. i.outs = OutPort(k, "fwd")
    BY <2>1, FwdFacts
  <2>3. s = P("OUTPUT", "fwd") /\ v = V(k, "fwd")
    BY <2>2, OutPortFacts
  <2> QED BY <2>1, <2>3 DEF MakesAt
<1>2. CASE \E k \in Differentiated : i = Bwd(k)
  <2>1. PICK k \in Differentiated : i = Bwd(k)
    BY <1>2
  <2>2. i.outs = ArgPorts(k, "grad") /\ k \in Layer
    BY <2>1, BwdFacts, SubsetsOfLayer
  <2>3. PICK a \in DOMAIN Args(k) : s = P(ArgumentSlot[a], "grad")
    BY <2>2, ArgPortsFacts
  <2>4. v = V(Args(k)[a], "grad")
    BY <2>2, <2>3, ArgPortsFacts
  <2> QED BY <2>1, <2>3, <2>4 DEF MakesAt
<1>3. CASE \E k \in Weights : i = Upd(k)
  BY <1>3, UpdFacts, SubsetsOfLayer
<1>4. CASE HasLoss /\ i = Loss
  BY <1>4, LossFacts DEF MakesAt
<1> QED BY <1>1, <1>2, <1>3, <1>4, UpdatedMembers DEF IsTask

LEMMA MakesTask ==
  ASSUME source \in SourceGraphs, NEW i, NEW s, NEW v, MakesAt(i, s, v)
  PROVE  i \in Updated /\ s \in DOMAIN i.outs /\ v = i.outs[s]
<1>1. ASSUME NEW k \in Layer, i = Fwd(k), s = P("OUTPUT", "fwd"), v = V(k, "fwd")
      PROVE  i \in Updated /\ s \in DOMAIN i.outs /\ v = i.outs[s]
  <2>1. i \in Updated /\ i.outs = OutPort(k, "fwd")
    BY <1>1, UpdatedMembers, FwdFacts DEF IsTask
  <2> QED BY <1>1, <2>1, OutPortFacts
<1>2. ASSUME NEW k \in Differentiated, NEW a \in DOMAIN Args(k), i = Bwd(k),
             s = P(ArgumentSlot[a], "grad"), v = V(Args(k)[a], "grad")
      PROVE  i \in Updated /\ s \in DOMAIN i.outs /\ v = i.outs[s]
  <2>1. i \in Updated /\ k \in Layer
    BY <1>2, UpdatedMembers, SubsetsOfLayer DEF IsTask
  <2>2. i.outs = ArgPorts(k, "grad")
    BY <1>2, <2>1, BwdFacts
  <2> QED BY <1>2, <2>1, <2>2, ArgPortsFacts
<1>3. ASSUME HasLoss, i = Loss, s = P("LOGIT", "grad"), v = V(Logit, "grad")
      PROVE  i \in Updated /\ s \in DOMAIN i.outs /\ v = i.outs[s]
  <2>1. i \in Updated
    BY <1>3, UpdatedMembers DEF IsTask
  <2> QED BY <1>3, <2>1, LossFacts
<1> QED BY <1>1, <1>2, <1>3 DEF MakesAt

-------------------------------------------------------------------------------
LEMMA LogitInLayer ==
  ASSUME source \in SourceGraphs, HasLoss
  PROVE  Logit \in Layer
BY SourceFacts DEF HasLoss, Logit

\* The role of every value but the label is that of its slot.
LEMMA MadeValues ==
  ASSUME source \in SourceGraphs, NEW i, NEW s, NEW v, MakesAt(i, s, v)
  PROVE  \E k \in Layer : \E r \in {"fwd", "grad"} : v = V(k, r) /\ s.role = r /\ s.shard = "none"
<1>1. \A k \in Layer : \A a \in DOMAIN Args(k) : Args(k)[a] \in Layer
  BY LayerFacts
<1> QED BY <1>1, SlotFields, SubsetsOfLayer, LogitInLayer DEF MakesAt

LEMMA ReadValues ==
  ASSUME source \in SourceGraphs, NEW i, NEW s, NEW v, ReadsAt(i, s, v)
  PROVE  /\ s.shard = "none" /\ s.role = v.role
         /\ \/ i = Loss /\ s = P("INPUT", "loss") /\ v = Label
            \/ \E k \in Layer : \E r \in UpdateRoles : v = V(k, r)
<1>1. \A k \in Layer : \A a \in DOMAIN Args(k) : Args(k)[a] \in Layer
  BY LayerFacts
<1>2. "fwd" \in UpdateRoles /\ "grad" \in UpdateRoles
  BY DEF UpdateRoles
<1> QED BY <1>1, <1>2, SlotFields, ValueFields, LabelFacts, SubsetsOfLayer, LogitInLayer DEF ReadsAt

LEMMA LayersAreNumbers ==
  ASSUME source \in SourceGraphs
  PROVE  Layer \subseteq Nat
BY SourceFacts

\* On the local backend the loss, and nobody else, reads the label, which is not
\* allocated; everything the graph computes or updates is.
THEOREM LabelArrives == Spec => []LabelReachesLoss
<1>1. ASSUME IInv PROVE LabelReachesLoss
  <2> SUFFICES ASSUME stage = "allocated", Local PROVE
         /\ instances = AllValues(graph) \ inputs
         /\ HasLoss => \E label \in inputs :
                        {i \in graph : label \in Reads(i)} = {i \in graph : i.task = "LOSS"}
         /\ Outputs(graph) \cup {v \in AllValues(graph) : v.role \in OptimizerSlots} \subseteq instances
    BY DEF LabelReachesLoss
  <2>1. source \in SourceGraphs /\ graph = Updated /\ inputs = IF HasLoss THEN {Label} ELSE {}
    BY <1>1 DEF IInv, GraphAtStage, InputsAtStage
  <2>2. instances = AllValues(graph) \ inputs
    BY <1>1 DEF IInv, InputsAtStage
  <2>3. ASSUME HasLoss
        PROVE  {i \in graph : Label \in Reads(i)} = {i \in graph : i.task = "LOSS"}
    <3>1. ASSUME NEW i \in Updated, Label \in Reads(i)
          PROVE  i.task = "LOSS"
      <4>1. PICK s \in DOMAIN i.ins : Label = i.ins[s]
        BY <3>1 DEF Reads
      <4>2. ReadsAt(i, s, Label)
        BY <2>1, <4>1, TaskReads
      <4>3. i = Loss
        BY <2>1, <4>2, ReadValues, LabelFacts, LayersAreNumbers
      <4> QED BY <4>3, LossFacts
    <3>2. ASSUME NEW i \in Updated, i.task = "LOSS"
          PROVE  Label \in Reads(i)
      <4>1. CASE \E k \in Layer : i = Fwd(k)
        BY <2>1, <3>2, <4>1, FwdFacts
      <4>2. CASE \E k \in Differentiated : i = Bwd(k)
        BY <2>1, <3>2, <4>2, BwdFacts, SubsetsOfLayer
      <4>3. CASE \E k \in Weights : i = Upd(k)
        BY <2>1, <3>2, <4>3, UpdFacts, SubsetsOfLayer
      <4>4. CASE i = Loss
        BY <4>4, LossFacts DEF Reads
      <4> QED BY <2>1, <4>1, <4>2, <4>3, <4>4, UpdatedMembers DEF IsTask
    <3> QED BY <2>1, <3>1, <3>2
  <2>4. ASSUME NEW v \in Outputs(graph)
        PROVE  v \in instances
    <3>1. PICK i \in Updated : \E s \in DOMAIN i.outs : v = i.outs[s]
      BY <2>1 DEF Outputs, Values, Range
    <3>2. \E k \in Layer : \E r : v = V(k, r)
      BY <2>1, <3>1, TaskMakes, MadeValues
    <3>3. v # Label
      BY <2>1, <3>2, LabelFacts, LayersAreNumbers
    <3> QED BY <2>1, <2>2, <3>3 DEF AllValues
  <2>5. ASSUME NEW v \in AllValues(graph), v.role \in OptimizerSlots
        PROVE  v \in instances
    <3>1. v # Label
      BY <2>5, LabelFacts, IdentitiesAssumption
    <3> QED BY <2>1, <2>2, <3>1
  <2> QED BY <2>1, <2>2, <2>3, <2>4, <2>5
<1> QED BY <1>1, Inductive, PTL

-------------------------------------------------------------------------------
(***************************************************************************)
(* Where the sites are on the machine.                                     *)
(***************************************************************************)
\* The devices of the shards of the tensor at a slot: a replicate's input is where
\* its argument is.
IsWhole(i, s) == i.op = "replicate" /\ s.name = "INPUT"
Home(i, s) == IF IsWhole(i, s) THEN Dev(Args(i.guid)[1]) ELSE PlacesOf(i.mapping, s.name)

LEMMA LossMapping ==
  ASSUME source \in SourceGraphs, HasLoss
  PROVE  IsMapping(source.backend, LossMap, LossNames)
BY SourceGraphsAssumption DEF IsSourceGraph, HasLoss, LossMap, LossNames

(***************************************************************************)
(* The tasks' mappings.                                                    *)
(***************************************************************************)
\* The slots a task has, and what it maps them with.
SlotNamesOf(i) == IF i = Loss THEN LossNames ELSE Names(i.guid)

LEMMA TaskMapping ==
  ASSUME source \in SourceGraphs, NEW i \in Updated
  PROVE  /\ i.devices = {}
         /\ i.op \in Operators \cup {"loss"} /\ i.op # "copy"
         /\ IsMapping(source.backend, i.mapping, SlotNamesOf(i))
         /\ i = Loss => HasLoss
         /\ i # Loss => i.guid \in Layer /\ i.op = Op(i.guid) /\ i.mapping = MapOf(i.guid)
         /\ i = Loss => i.op = "loss" /\ i.mapping = LossMap
<1>1. CASE \E k \in Layer : i = Fwd(k)
  <2>1. PICK k \in Layer : i = Fwd(k)
    BY <1>1
  <2>2. i # Loss
    BY <2>1, FwdFacts, LossFacts
  <2> QED BY <2>1, <2>2, FwdFacts, LayerFacts, NamesFacts DEF SlotNamesOf, Operators, ParallelOperators
<1>2. CASE \E k \in Differentiated : i = Bwd(k)
  <2>1. PICK k \in Layer : i = Bwd(k)
    BY <1>2, SubsetsOfLayer
  <2>2. i # Loss
    BY <2>1, BwdFacts, LossFacts
  <2> QED BY <2>1, <2>2, BwdFacts, LayerFacts, NamesFacts DEF SlotNamesOf, Operators, ParallelOperators
<1>3. CASE \E k \in Weights : i = Upd(k)
  <2>1. PICK k \in Layer : i = Upd(k)
    BY <1>3, SubsetsOfLayer
  <2>2. i # Loss
    BY <2>1, UpdFacts, LossFacts
  <2> QED BY <2>1, <2>2, UpdFacts, LayerFacts, NamesFacts DEF SlotNamesOf, Operators, ParallelOperators
<1>4. CASE HasLoss /\ i = Loss
  BY <1>4, LossFacts, LossMapping DEF SlotNamesOf
<1> QED BY <1>1, <1>2, <1>3, <1>4, UpdatedMembers DEF IsTask

-------------------------------------------------------------------------------
(***************************************************************************)
(* The mapping that copy insertion finds for each site.                    *)
(***************************************************************************)
InSite(i, s) == [inv |-> i, dir |-> "in", slot |-> s]
OutSite(i, s) == [inv |-> i, dir |-> "out", slot |-> s]

LEMMA SlotNames ==
  ASSUME source \in SourceGraphs, NEW i \in Updated, NEW s, s \in DOMAIN i.ins \cup DOMAIN i.outs
  PROVE  s.name \in SlotNamesOf(i) /\ s.shard = "none"
<1>1. ASSUME NEW k \in Layer, NEW a \in DOMAIN Args(k) PROVE ArgumentSlot[a] \in Names(k)
  BY NamesFacts
<1>2. \A k \in Layer : "OUTPUT" \in Names(k)
  BY NamesFacts
<1>3. "INPUT" \in LossNames /\ "LOGIT" \in LossNames
  BY DEF LossNames
<1>4. ASSUME NEW k \in Layer, i = Fwd(k) \/ i = Bwd(k) \/ i = Upd(k)
      PROVE  SlotNamesOf(i) = Names(k)
  <2>1. i # Loss
    BY <1>4, FwdFacts, BwdFacts, UpdFacts, LossFacts
  <2>2. i.guid = k
    BY <1>4, FwdFacts, BwdFacts, UpdFacts
  <2> QED BY <2>1, <2>2 DEF SlotNamesOf
<1>5. i = Loss => SlotNamesOf(i) = LossNames
  BY DEF SlotNamesOf
<1>6. CASE s \in DOMAIN i.ins
  <2>1. ReadsAt(i, s, i.ins[s])
    BY <1>6, TaskReads
  <2>2. CASE \E k \in Layer : \E a \in DOMAIN Args(k) : (i = Fwd(k) \/ i = Bwd(k)) /\ s = P(ArgumentSlot[a], "fwd")
    BY <2>2, <1>1, <1>4, SlotFields
  <2>3. CASE \E k \in Layer : \E r : (i = Bwd(k) \/ i = Upd(k)) /\ s = P("OUTPUT", r)
    BY <2>3, <1>2, <1>4, SlotFields
  <2>4. CASE i = Loss /\ (s = P("INPUT", "loss") \/ s = P("LOGIT", "fwd"))
    BY <2>4, <1>3, <1>5, SlotFields
  <2> QED BY <2>1, <2>2, <2>3, <2>4, SubsetsOfLayer DEF ReadsAt
<1>7. CASE s \in DOMAIN i.outs
  <2>1. MakesAt(i, s, i.outs[s])
    BY <1>7, TaskMakes
  <2>2. CASE \E k \in Layer : i = Fwd(k) /\ s = P("OUTPUT", "fwd")
    BY <2>2, <1>2, <1>4, SlotFields
  <2>3. CASE \E k \in Layer : \E a \in DOMAIN Args(k) : i = Bwd(k) /\ s = P(ArgumentSlot[a], "grad")
    BY <2>3, <1>1, <1>4, SlotFields
  <2>4. CASE i = Loss /\ s = P("LOGIT", "grad")
    BY <2>4, <1>3, <1>5, SlotFields
  <2> QED BY <2>1, <2>2, <2>3, <2>4, SubsetsOfLayer DEF MakesAt
<1> QED BY <1>6, <1>7

\* A replicate's input, and its gradient, is the one site that its own mapping
\* says nothing of.
LEMMA WholeSites ==
  ASSUME source \in SourceGraphs, NEW i \in Updated, i.op = "replicate"
  PROVE  /\ \E k \in Layer : /\ Op(k) = "replicate" /\ DOMAIN Args(k) = {1}
                             /\ \/ i = Fwd(k)
                                \/ i = Bwd(k) /\ k \in Differentiated
         /\ i.task = "BWD" \/ i.task = "FWD"
         /\ i.task = "BWD" => /\ DOMAIN i.ins = {P("OUTPUT", "grad")}
                              /\ DOMAIN i.outs = {P("INPUT", "grad")}
         /\ i.task = "FWD" => /\ DOMAIN i.ins = {P("INPUT", "fwd")}
                              /\ DOMAIN i.outs = {P("OUTPUT", "fwd")}
<1>1. i # Loss
  BY LossFacts
<1>2. \A k \in Weights : i # Upd(k)
  BY SubsetsOfLayer, UpdFacts DEF Weights
<1>3. PICK k \in Layer : i = Fwd(k) \/ (i = Bwd(k) /\ k \in Differentiated)
  BY <1>1, <1>2, UpdatedMembers, SubsetsOfLayer DEF IsTask
<1>4. Op(k) = "replicate" /\ DOMAIN Args(k) = {1}
  BY <1>3, FwdFacts, BwdFacts, LayerFacts
<1>5. ArgumentSlot[1] = "INPUT"
  BY DEF ArgumentSlot
<1>6. \A r : DOMAIN ArgPorts(k, r) = {P("INPUT", r)}
  BY <1>4, <1>5, ArgPortsFacts
<1>7. CASE i = Fwd(k)
  <2>1. i.ins = ArgPorts(k, "fwd") /\ i.outs = OutPort(k, "fwd") /\ i.task = "FWD"
    BY <1>7, FwdFacts
  <2>2. DOMAIN i.ins = {P("INPUT", "fwd")} /\ DOMAIN i.outs = {P("OUTPUT", "fwd")}
    BY <1>6, <2>1, OutPortFacts
  <2> QED BY <1>4, <1>7, <2>1, <2>2
<1>8. CASE i = Bwd(k)
  <2>1. DOMAIN BwdIns(k) = {P("OUTPUT", "grad")}
    BY <1>4, BwdPorts
  <2> QED BY <1>3, <1>4, <1>6, <1>8, <2>1, BwdFacts
<1> QED BY <1>3, <1>4, <1>7, <1>8

LEMMA MappedByNode ==
  ASSUME source \in SourceGraphs, NEW i \in Updated
  PROVE  /\ \A s \in DOMAIN i.ins : InSite(i, s) \in SitesMappedByNode(i) <=> ~IsWhole(i, s)
         /\ \A s \in DOMAIN i.outs : OutSite(i, s) \in SitesMappedByNode(i) <=> ~IsWhole(i, s)
<1>1. /\ \A s : InSite(i, s) \in InSites(i) <=> s \in DOMAIN i.ins
      /\ \A s : OutSite(i, s) \in OutSites(i) <=> s \in DOMAIN i.outs
      /\ \A s : InSite(i, s) \notin OutSites(i)
      /\ \A s : OutSite(i, s) \notin InSites(i)
  BY DEF InSite, OutSite, InSites, OutSites
<1>2. CASE i.op # "replicate"
  BY <1>1, <1>2 DEF SitesMappedByNode, IsWhole
<1>3. CASE i.op = "replicate"
  <2>1. \A r : P("OUTPUT", r).name # "INPUT" /\ P("INPUT", r).name = "INPUT"
    BY SlotFields
  <2>2. CASE i.task = "BWD"
    <3>1. DOMAIN i.ins = {P("OUTPUT", "grad")} /\ DOMAIN i.outs = {P("INPUT", "grad")}
      BY <1>3, <2>2, WholeSites
    <3> QED BY <1>1, <1>3, <2>1, <2>2, <3>1 DEF SitesMappedByNode, IsWhole
  <2>3. CASE i.task = "FWD"
    <3>1. DOMAIN i.ins = {P("INPUT", "fwd")} /\ DOMAIN i.outs = {P("OUTPUT", "fwd")}
      BY <1>3, <2>3, WholeSites
    <3> QED BY <1>1, <1>3, <2>1, <2>3, <3>1 DEF SitesMappedByNode, IsWhole
  <2> QED BY <1>3, <2>2, <2>3, WholeSites
<1> QED BY <1>2, <1>3

Resolved == MappingsResolve(Updated)

LEMMA NodeMappingIs ==
  ASSUME source \in SourceGraphs, Resolved, NEW i \in Updated, NEW s, s \in DOMAIN i.ins \cup DOMAIN i.outs,
         ~IsWhole(i, s)
  PROVE  /\ Apart(i.mapping, s.name)
         /\ BindingsForSlot(i.mapping, s.name) = PlaceOf(Home(i, s))
<1>1. \A site \in SitesMappedByNode(i) : IsOneToOne(NodeMapping(site))
  BY DEF Resolved, MappingsResolve
<1>2. IsOneToOne(BindingsForSlot(i.mapping, s.name))
  <2>1. /\ NodeMapping(InSite(i, s)) = BindingsForSlot(i.mapping, s.name)
        /\ NodeMapping(OutSite(i, s)) = BindingsForSlot(i.mapping, s.name)
    BY DEF NodeMapping, InSite, OutSite
  <2>2. InSite(i, s) \in SitesMappedByNode(i) \/ OutSite(i, s) \in SitesMappedByNode(i)
    BY MappedByNode
  <2> QED BY <1>1, <2>1, <2>2
<1> QED BY <1>2, ApartFacts DEF Home

LEMMA SitesOfValue ==
  ASSUME source \in SourceGraphs, NEW v
  PROVE  /\ \A t : t \in Sinks(Updated, v) <=>
                   \E i \in Updated : \E s \in DOMAIN i.ins : t = InSite(i, s) /\ i.ins[s] = v
         /\ \A t : t \in Sources(Updated, v) <=>
                   \E i \in Updated : \E s \in DOMAIN i.outs : t = OutSite(i, s) /\ i.outs[s] = v
<1>1. \A t : t \in Sinks(Updated, v) <=>
             \E i \in Updated : \E s \in DOMAIN i.ins : t = InSite(i, s) /\ ValueAt(t) = v
  BY DEF Sinks, InSites, InSite
<1>2. \A t : t \in Sources(Updated, v) <=>
             \E i \in Updated : \E s \in DOMAIN i.outs : t = OutSite(i, s) /\ ValueAt(t) = v
  BY DEF Sources, OutSites, OutSite
<1>3. \A i, s : ValueAt(InSite(i, s)) = i.ins[s] /\ ValueAt(OutSite(i, s)) = i.outs[s]
  BY DEF ValueAt, InSite, OutSite
<1> QED BY <1>1, <1>2, <1>3

\* Who computes a tensor and who reads its gradient.
LEMMA Neighbours ==
  ASSUME source \in SourceGraphs, NEW k \in Layer
  PROVE  /\ Sources(Updated, V(k, "fwd")) = {OutSite(Fwd(k), P("OUTPUT", "fwd"))}
         /\ \A t \in Sinks(Updated, V(k, "grad")) :
              \E i \in Updated : /\ t = InSite(i, P("OUTPUT", "grad"))
                                 /\ P("OUTPUT", "grad") \in DOMAIN i.ins
                                 /\ i = Bwd(k) \/ i = Upd(k)
<1>1. ASSUME NEW t \in Sources(Updated, V(k, "fwd"))
      PROVE  t = OutSite(Fwd(k), P("OUTPUT", "fwd"))
  <2>1. PICK i \in Updated : \E s \in DOMAIN i.outs : t = OutSite(i, s) /\ i.outs[s] = V(k, "fwd")
    BY SitesOfValue
  <2>4. PICK s \in DOMAIN i.outs : t = OutSite(i, s) /\ i.outs[s] = V(k, "fwd")
    BY <2>1
  <2>2. MakesAt(i, s, V(k, "fwd"))
    BY <2>4, TaskMakes
  <2>3. i = Fwd(k) /\ s = P("OUTPUT", "fwd")
    BY <2>2, ValueFields DEF MakesAt
  <2> QED BY <2>3, <2>4
<1>2. OutSite(Fwd(k), P("OUTPUT", "fwd")) \in Sources(Updated, V(k, "fwd"))
  <2>1. MakesAt(Fwd(k), P("OUTPUT", "fwd"), V(k, "fwd"))
    BY DEF MakesAt
  <2>2. /\ Fwd(k) \in Updated /\ P("OUTPUT", "fwd") \in DOMAIN Fwd(k).outs
        /\ V(k, "fwd") = Fwd(k).outs[P("OUTPUT", "fwd")]
    BY <2>1, MakesTask
  <2> QED BY <2>2, SitesOfValue
<1>3. ASSUME NEW t \in Sinks(Updated, V(k, "grad"))
      PROVE  \E i \in Updated : /\ t = InSite(i, P("OUTPUT", "grad"))
                                /\ P("OUTPUT", "grad") \in DOMAIN i.ins
                                /\ i = Bwd(k) \/ i = Upd(k)
  <2>1. PICK i \in Updated : \E s \in DOMAIN i.ins : t = InSite(i, s) /\ i.ins[s] = V(k, "grad")
    BY SitesOfValue
  <2>4. PICK s \in DOMAIN i.ins : t = InSite(i, s) /\ i.ins[s] = V(k, "grad")
    BY <2>1
  <2>2. ReadsAt(i, s, V(k, "grad"))
    BY <2>4, TaskReads
  <2>3. s = P("OUTPUT", "grad") /\ (i = Bwd(k) \/ i = Upd(k))
    <3>1. Label # V(k, "grad")
      BY LabelFacts, ValueFields
    <3> QED BY <2>2, <3>1, ValueFields DEF ReadsAt
  <2> QED BY <2>3, <2>4
<1> QED BY <1>1, <1>2, <1>3

LEMMA SiteMapping ==
  ASSUME source \in SourceGraphs, Resolved, NEW i \in Updated
  PROVE  /\ \A s \in DOMAIN i.ins : MappingAt(Updated, InSite(i, s)) = PlaceOf(Home(i, s))
         /\ \A s \in DOMAIN i.outs : MappingAt(Updated, OutSite(i, s)) = PlaceOf(Home(i, s))
<1>1. \A s : InSite(i, s).inv = i /\ OutSite(i, s).inv = i
  BY DEF InSite, OutSite
<1>2. /\ \A j, s : NodeMapping(InSite(j, s)) = BindingsForSlot(j.mapping, s.name)
      /\ \A j, s : NodeMapping(OutSite(j, s)) = BindingsForSlot(j.mapping, s.name)
  BY DEF NodeMapping, InSite, OutSite
<1>3. ASSUME NEW s \in DOMAIN i.ins, ~IsWhole(i, s)
      PROVE  MappingAt(Updated, InSite(i, s)) = PlaceOf(Home(i, s))
  <2>1. MappingAt(Updated, InSite(i, s)) = NodeMapping(InSite(i, s))
    BY <1>1, <1>3, MappedByNode DEF MappingAt
  <2> QED BY <1>2, <1>3, <2>1, NodeMappingIs
<1>4. ASSUME NEW s \in DOMAIN i.outs, ~IsWhole(i, s)
      PROVE  MappingAt(Updated, OutSite(i, s)) = PlaceOf(Home(i, s))
  <2>1. MappingAt(Updated, OutSite(i, s)) = NodeMapping(OutSite(i, s))
    BY <1>1, <1>4, MappedByNode DEF MappingAt
  <2> QED BY <1>2, <1>4, <2>1, NodeMappingIs
<1>5. ASSUME NEW s \in DOMAIN i.ins, IsWhole(i, s)
      PROVE  MappingAt(Updated, InSite(i, s)) = PlaceOf(Home(i, s))
  <2>1. i.op = "replicate"
    BY <1>5 DEF IsWhole
  <2>2. s.name = "INPUT" /\ i.task # "BWD"
    BY <1>5, <2>1, WholeSites, SlotFields DEF IsWhole
  <2>3. PICK k \in Layer : i = Fwd(k) /\ Op(k) = "replicate" /\ DOMAIN Args(k) = {1}
    BY <2>1, <2>2, WholeSites, BwdFacts
  <2>4. s = P("INPUT", "fwd")
    BY <2>1, <2>2, WholeSites
  <2> DEFINE a == Args(k)[1]
  <2>5. a \in Layer
    BY <2>3, LayerFacts
  <2>6. i.ins[s] = V(a, "fwd")
    <3>1. ArgumentSlot[1] = "INPUT"
      BY DEF ArgumentSlot
    <3>2. i.ins = ArgPorts(k, "fwd")
      BY <2>3, FwdFacts
    <3>3. ArgPorts(k, "fwd")[P(ArgumentSlot[1], "fwd")] = V(Args(k)[1], "fwd")
      BY <2>3, ArgPortsFacts
    <3> QED BY <2>4, <3>1, <3>2, <3>3
  <2>7. Adjacent(Updated, InSite(i, s)) = {OutSite(Fwd(a), P("OUTPUT", "fwd"))}
    <3>1. Adjacent(Updated, InSite(i, s)) = Sources(Updated, V(a, "fwd"))
      BY <2>6 DEF Adjacent, ValueAt, InSite
    <3> HIDE DEF a
    <3> QED BY <2>5, <3>1, Neighbours
  <2>8. MappingAt(Updated, InSite(i, s)) = NodeMapping(OutSite(Fwd(a), P("OUTPUT", "fwd")))
    <3>1. InSite(i, s) \notin SitesMappedByNode(i)
      BY <1>5, MappedByNode
    <3> HIDE DEF a
    <3> QED BY <1>1, <2>7, <3>1 DEF MappingAt
  <2>9. Fwd(a) \in Updated /\ P("OUTPUT", "fwd") \in DOMAIN Fwd(a).outs
    <3> HIDE DEF a
    <3>1. MakesAt(Fwd(a), P("OUTPUT", "fwd"), V(a, "fwd"))
      BY <2>5 DEF MakesAt
    <3> QED BY <3>1, MakesTask
  <2>10. BindingsForSlot(Fwd(a).mapping, P("OUTPUT", "fwd").name) = PlaceOf(Home(Fwd(a), P("OUTPUT", "fwd")))
    <3> HIDE DEF a
    <3>1. ~IsWhole(Fwd(a), P("OUTPUT", "fwd"))
      BY SlotFields DEF IsWhole
    <3> QED BY <2>9, <3>1, NodeMappingIs
  <2>11. Home(Fwd(a), P("OUTPUT", "fwd")) = Dev(a)
    <3> HIDE DEF a
    <3> QED BY <2>5, FwdFacts, SlotFields DEF Home, IsWhole, Dev
  <2>12. Home(i, s) = Dev(a)
    BY <1>5, <2>3, FwdFacts DEF Home
  <2> QED BY <1>2, <2>8, <2>10, <2>11, <2>12
<1>6. ASSUME NEW s \in DOMAIN i.outs, IsWhole(i, s)
      PROVE  MappingAt(Updated, OutSite(i, s)) = PlaceOf(Home(i, s))
  <2>1. i.op = "replicate"
    BY <1>6 DEF IsWhole
  <2>2. s.name = "INPUT" /\ i.task # "FWD"
    BY <1>6, <2>1, WholeSites, SlotFields DEF IsWhole
  <2>3. PICK k \in Layer : i = Bwd(k) /\ Op(k) = "replicate" /\ DOMAIN Args(k) = {1} /\ k \in Differentiated
    BY <2>1, <2>2, WholeSites, FwdFacts
  <2>4. s = P("INPUT", "grad")
    BY <2>1, <2>2, WholeSites
  <2> DEFINE a == Args(k)[1]
  <2>5. a \in Layer
    BY <2>3, LayerFacts
  <2>6. i.outs[s] = V(a, "grad")
    <3>1. ArgumentSlot[1] = "INPUT"
      BY DEF ArgumentSlot
    <3>2. i.outs = ArgPorts(k, "grad")
      BY <2>3, BwdFacts
    <3>3. ArgPorts(k, "grad")[P(ArgumentSlot[1], "grad")] = V(Args(k)[1], "grad")
      BY <2>3, ArgPortsFacts
    <3> QED BY <2>4, <3>1, <3>2, <3>3
  <2>7. Adjacent(Updated, OutSite(i, s)) = Sinks(Updated, V(a, "grad"))
    BY <2>6 DEF Adjacent, ValueAt, OutSite
  <2> HIDE DEF a
  <2>8. OutSite(i, s) \in (InSites(i) \cup OutSites(i)) \ SitesMappedByNode(i)
    BY <1>6, MappedByNode DEF OutSites, OutSite
  <2>9. Cardinality(Adjacent(Updated, OutSite(i, s))) = 1
    BY <2>8 DEF Resolved, MappingsResolve
  <2> DEFINE t == CHOOSE u \in Adjacent(Updated, OutSite(i, s)) : TRUE
  <2>10. t \in Sinks(Updated, V(a, "grad"))
    <3>1. Adjacent(Updated, OutSite(i, s)) # {}
      BY <2>9, FS_EmptySet
    <3> QED BY <2>7, <3>1
  <2>11. MappingAt(Updated, OutSite(i, s)) = NodeMapping(t)
    <3>1. OutSite(i, s) \notin SitesMappedByNode(i)
      BY <1>6, MappedByNode
    <3> QED BY <1>1, <3>1 DEF MappingAt
  <2> HIDE DEF t
  <2>12. PICK j \in Updated : /\ t = InSite(j, P("OUTPUT", "grad"))
                              /\ P("OUTPUT", "grad") \in DOMAIN j.ins
                              /\ j = Bwd(a) \/ j = Upd(a)
    BY <2>5, <2>10, Neighbours
  <2>13. BindingsForSlot(j.mapping, P("OUTPUT", "grad").name) = PlaceOf(Home(j, P("OUTPUT", "grad")))
    <3>1. ~IsWhole(j, P("OUTPUT", "grad"))
      BY SlotFields DEF IsWhole
    <3> QED BY <2>12, <3>1, NodeMappingIs
  <2>14. Home(j, P("OUTPUT", "grad")) = Dev(a)
    BY <2>5, <2>12, BwdFacts, UpdFacts, SlotFields DEF Home, IsWhole, Dev
  <2>15. Home(i, s) = Dev(a)
    BY <1>6, <2>3, BwdFacts DEF Home, a
  <2> QED BY <1>2, <2>11, <2>12, <2>13, <2>14, <2>15
<1> QED BY <1>3, <1>4, <1>5, <1>6

-------------------------------------------------------------------------------
(***************************************************************************)
(* Values with a place, and invocations as records.                        *)
(***************************************************************************)
IsValue(v) ==
  v = [tensor |-> v.tensor, grad |-> v.grad, role |-> v.role, coord |-> v.coord,
       mapping |-> v.mapping]

\* A value on devices, and its shard with a number there.
Placed(v, devices) == [v EXCEPT !.mapping = PlaceOf(devices)]
W(v, devices, q) == At(Placed(v, devices), q)

LEMMA ValuesAreValues ==
  /\ \A k, r : IsValue(V(k, r)) /\ V(k, r).coord = 0 /\ V(k, r).mapping = {}
  /\ IsValue(Label) /\ Label.coord = 0 /\ Label.mapping = {}
<1>1. \A k, r : IsValue(V(k, r)) /\ V(k, r).coord = 0 /\ V(k, r).mapping = {}
  BY DEF IsValue, V
<1> DEFINE v == V(Logit, "fwd")
<1>2. IsValue(v)
  BY <1>1
<1>3. Label = [v EXCEPT !.tensor = LabelTensor, !.grad = FALSE, !.role = "loss"]
  BY DEF Label, LabelValue
<1> HIDE DEF v
<1>4. IsValue(Label)
  BY <1>2, <1>3 DEF IsValue
<1> QED BY <1>1, <1>4, LabelFacts

LEMMA PlacedFields ==
  ASSUME NEW v, IsValue(v), NEW d, NEW q
  PROVE  /\ Placed(v, d).tensor = v.tensor /\ Placed(v, d).role = v.role
         /\ Placed(v, d).coord = v.coord /\ Placed(v, d).mapping = PlaceOf(d)
         /\ Placed(v, d).grad = v.grad /\ IsValue(Placed(v, d))
         /\ W(v, d, q).tensor = v.tensor /\ W(v, d, q).role = v.role
         /\ W(v, d, q).coord = q /\ W(v, d, q).mapping = PlaceOf(d)
         /\ W(v, d, q).grad = v.grad /\ IsValue(W(v, d, q))
<1> DEFINE p == PlaceOf(d)
<1>0. p = PlaceOf(d)
  OBVIOUS
<1> HIDE DEF p
<1>1. Placed(v, d) = [tensor |-> v.tensor, grad |-> v.grad, role |-> v.role, coord |-> v.coord, mapping |-> p]
  BY <1>0 DEF IsValue, Placed
<1>2. W(v, d, q) = [tensor |-> v.tensor, grad |-> v.grad, role |-> v.role, coord |-> q, mapping |-> p]
  BY <1>1 DEF W, At
<1> QED BY <1>0, <1>1, <1>2 DEF IsValue

\* Shards of different values, with different numbers or in different places differ.
LEMMA ShardsInjective ==
  ASSUME NEW v, NEW w, IsValue(v), IsValue(w), v.coord = w.coord, v.mapping = w.mapping,
         NEW d, NEW e, NEW q, NEW r
  PROVE  /\ Placed(v, d) = Placed(w, e) <=> v = w /\ PlaceOf(d) = PlaceOf(e)
         /\ W(v, d, q) = W(w, e, r) <=> v = w /\ PlaceOf(d) = PlaceOf(e) /\ q = r
<1>1. ASSUME Placed(v, d) = Placed(w, e)
      PROVE  v = w /\ PlaceOf(d) = PlaceOf(e)
  BY <1>1, PlacedFields DEF IsValue
<1>2. ASSUME W(v, d, q) = W(w, e, r)
      PROVE  v = w /\ PlaceOf(d) = PlaceOf(e) /\ q = r
  <2>1. v.tensor = w.tensor /\ v.role = w.role /\ v.grad = w.grad /\ q = r /\ PlaceOf(d) = PlaceOf(e)
    BY <1>2, PlacedFields
  <2> QED BY <2>1 DEF IsValue
<1>3. ASSUME v = w, PlaceOf(d) = PlaceOf(e)
      PROVE  Placed(v, d) = Placed(w, e)
  BY <1>3 DEF Placed
<1>4. ASSUME v = w, PlaceOf(d) = PlaceOf(e), q = r
      PROVE  W(v, d, q) = W(w, e, r)
  BY <1>4 DEF W, Placed
<1> QED BY <1>1, <1>2, <1>3, <1>4

\* What a place says of its devices.
LEMMA PlaceFacts ==
  ASSUME NEW v, NEW d, IsDevices(d), v.mapping = PlaceOf(d)
  PROVE  /\ Coordinates(v) = DOMAIN d
         /\ \A q \in DOMAIN d : DeviceOf(v, q) = d[q] /\ CoordinateOn(v, d[q]) = q
<1>1. Coordinates(v) = DOMAIN d
  <2>1. \A b \in PlaceOf(d) : b[1] \in DOMAIN d
    BY DEF PlaceOf
  <2>2. \A q \in DOMAIN d : \E b \in PlaceOf(d) : q = b[1]
    <3> TAKE q \in DOMAIN d
    <3>1. <<q, d[q]>> \in PlaceOf(d) /\ <<q, d[q]>>[1] = q
      BY DEF PlaceOf
    <3> QED BY <3>1
  <2> QED BY <2>1, <2>2 DEF Coordinates
<1>2. ASSUME NEW q \in DOMAIN d PROVE DeviceOf(v, q) = d[q] /\ CoordinateOn(v, d[q]) = q
  <2>1. \A b \in PlaceOf(d) : b[1] = q <=> b = <<q, d[q]>>
    BY DEF PlaceOf
  <2>2. \A b \in PlaceOf(d) : b[2] = d[q] <=> b = <<q, d[q]>>
    BY DEF PlaceOf, IsDevices
  <2>3. <<q, d[q]>> \in PlaceOf(d)
    BY DEF PlaceOf
  <2>4. (CHOOSE b \in PlaceOf(d) : b[1] = q) = <<q, d[q]>>
    BY <2>1, <2>3
  <2>5. (CHOOSE b \in PlaceOf(d) : b[2] = d[q]) = <<q, d[q]>>
    BY <2>2, <2>3
  <2>6. DeviceOf(v, q) = <<q, d[q]>>[2]
    BY <2>4 DEF DeviceOf
  <2>7. CoordinateOn(v, d[q]) = <<q, d[q]>>[1]
    BY <2>5 DEF CoordinateOn
  <2> QED BY <2>6, <2>7
<1> QED BY <1>1, <1>2

LEMMA SamePlace ==
  ASSUME NEW d, NEW e, PlaceOf(d) = PlaceOf(e)
  PROVE  DOMAIN d = DOMAIN e /\ \A q \in DOMAIN d : d[q] = e[q]
<1>1. \A q \in DOMAIN d : q \in DOMAIN e /\ d[q] = e[q]
  <2> TAKE q \in DOMAIN d
  <2>1. <<q, d[q]>> \in PlaceOf(e)
    BY DEF PlaceOf
  <2> QED BY <2>1 DEF PlaceOf
<1>2. \A q \in DOMAIN e : q \in DOMAIN d
  <2> TAKE q \in DOMAIN e
  <2>1. <<q, e[q]>> \in PlaceOf(d)
    BY DEF PlaceOf
  <2> QED BY <2>1 DEF PlaceOf
<1> QED BY <1>1, <1>2

Fields == {"guid", "op", "task", "devices", "mapping", "ins", "outs"}
HasFields(i) == i = [f \in DOMAIN i |-> i[f]] /\ Fields \subseteq DOMAIN i

LEMMA TaskFields ==
  ASSUME source \in SourceGraphs, NEW i \in Updated
  PROVE  HasFields(i)
<1>1. \A k : HasFields(Inv(k))
  BY DEF HasFields, Fields, Inv
<1>2. \A j : HasFields(j) => HasFields(ForwardTask(j)) /\ HasFields(BackwardTask(j)) /\ HasFields(UpdateTask(j))
  BY DEF HasFields, Fields, ForwardTask, BackwardTask, UpdateTask
<1>3. HasFields(Loss)
  BY DEF HasFields, Fields, Loss, LossTask
<1> QED BY <1>1, <1>2, <1>3, UpdatedMembers DEF IsTask, Fwd, Bwd, Upd

\* The invocations as copy insertion leaves them.
M(i) == WithMappings(Updated, i)

LEMMA MappedFields ==
  ASSUME source \in SourceGraphs, Resolved, NEW i \in Updated
  PROVE  /\ HasFields(M(i))
         /\ M(i).guid = i.guid /\ M(i).op = i.op /\ M(i).task = i.task /\ M(i).devices = i.devices
         /\ M(i).mapping = i.mapping
         /\ DOMAIN M(i).ins = DOMAIN i.ins /\ DOMAIN M(i).outs = DOMAIN i.outs
         /\ \A s \in DOMAIN i.ins : M(i).ins[s] = Placed(i.ins[s], Home(i, s))
         /\ \A s \in DOMAIN i.outs : M(i).outs[s] = Placed(i.outs[s], Home(i, s))
<1> DEFINE f == [s \in DOMAIN i.ins |-> [i.ins[s] EXCEPT !.mapping =
                   MappingAt(Updated, [inv |-> i, dir |-> "in", slot |-> s])]]
           g == [s \in DOMAIN i.outs |-> [i.outs[s] EXCEPT !.mapping =
                   MappingAt(Updated, [inv |-> i, dir |-> "out", slot |-> s])]]
<1>1. M(i) = [i EXCEPT !.ins = f, !.outs = g]
  BY DEF M, WithMappings
<1>2. DOMAIN f = DOMAIN i.ins /\ DOMAIN g = DOMAIN i.outs
  OBVIOUS
<1>3. ASSUME NEW s \in DOMAIN i.ins PROVE f[s] = Placed(i.ins[s], Home(i, s))
  <2>1. f[s] = [i.ins[s] EXCEPT !.mapping = MappingAt(Updated, InSite(i, s))]
    BY DEF InSite
  <2> HIDE DEF f
  <2> QED BY <2>1, SiteMapping DEF Placed
<1>4. ASSUME NEW s \in DOMAIN i.outs PROVE g[s] = Placed(i.outs[s], Home(i, s))
  <2>1. g[s] = [i.outs[s] EXCEPT !.mapping = MappingAt(Updated, OutSite(i, s))]
    BY DEF OutSite
  <2> HIDE DEF g
  <2> QED BY <2>1, SiteMapping DEF Placed
<1> HIDE DEF f, g
<1>5. HasFields(i)
  BY TaskFields
<1>6. /\ HasFields(M(i))
      /\ M(i).guid = i.guid /\ M(i).op = i.op /\ M(i).task = i.task /\ M(i).devices = i.devices
      /\ M(i).mapping = i.mapping /\ M(i).ins = f /\ M(i).outs = g
  BY <1>1, <1>5 DEF HasFields, Fields
<1> QED BY <1>2, <1>3, <1>4, <1>6

(***************************************************************************)
(* The copied graph.                                                       *)
(***************************************************************************)
Copy(v, from, to) == CopyTask(v, PlaceOf(from), PlaceOf(to))

LEMMA CopyFields ==
  ASSUME NEW v, NEW from, NEW to
  PROVE  LET c == Copy(v, from, to) IN
         /\ HasFields(c)
         /\ c.guid = CopyGuid /\ c.op = "copy" /\ c.task = "none" /\ c.devices = {}
         /\ DOMAIN c.ins = {Slot("INPUT")} /\ c.ins[Slot("INPUT")] = Placed(v, from)
         /\ DOMAIN c.outs = {Slot("OUTPUT")} /\ c.outs[Slot("OUTPUT")] = Placed(v, to)
         /\ Values(c.ins) = {Placed(v, from)} /\ Values(c.outs) = {Placed(v, to)}
<1> DEFINE c == Copy(v, from, to)
<1>1. c = [guid |-> CopyGuid, op |-> "copy", task |-> "none", devices |-> {}, mapping |-> <<>>,
           ins |-> Port(Slot("INPUT"), Placed(v, from)), outs |-> Port(Slot("OUTPUT"), Placed(v, to))]
  BY DEF Copy, CopyTask, Placed
<1>2. HasFields(c)
  BY <1>1 DEF HasFields, Fields
<1>3. c.guid = CopyGuid /\ c.op = "copy" /\ c.task = "none" /\ c.devices = {}
      /\ c.ins = Port(Slot("INPUT"), Placed(v, from)) /\ c.outs = Port(Slot("OUTPUT"), Placed(v, to))
  BY <1>1
<1> HIDE DEF c
<1>4. /\ DOMAIN c.ins = {Slot("INPUT")} /\ c.ins[Slot("INPUT")] = Placed(v, from)
      /\ Values(c.ins) = {Placed(v, from)}
  <2> DEFINE p == Port(Slot("INPUT"), Placed(v, from))
  <2>1. DOMAIN p = {Slot("INPUT")} /\ p[Slot("INPUT")] = Placed(v, from) /\ Values(p) = {Placed(v, from)}
    BY PortFacts
  <2>2. c.ins = p
    BY <1>3
  <2> HIDE DEF p
  <2> QED BY <2>1, <2>2
<1>5. /\ DOMAIN c.outs = {Slot("OUTPUT")} /\ c.outs[Slot("OUTPUT")] = Placed(v, to)
      /\ Values(c.outs) = {Placed(v, to)}
  <2> DEFINE p == Port(Slot("OUTPUT"), Placed(v, to))
  <2>1. DOMAIN p = {Slot("OUTPUT")} /\ p[Slot("OUTPUT")] = Placed(v, to) /\ Values(p) = {Placed(v, to)}
    BY PortFacts
  <2>2. c.outs = p
    BY <1>3
  <2> HIDE DEF p
  <2> QED BY <2>1, <2>2
<1> QED BY <1>2, <1>3, <1>4, <1>5 DEF c

\* A value one task makes and another reads elsewhere.
Moves(i, s, j, t) ==
  /\ i \in Updated /\ s \in DOMAIN i.outs /\ j \in Updated /\ t \in DOMAIN j.ins
  /\ i.outs[s] = j.ins[t] /\ PlaceOf(Home(i, s)) # PlaceOf(Home(j, t))
IsCopy(x) ==
  \E i, s, j, t : Moves(i, s, j, t) /\ x = Copy(i.outs[s], Home(i, s), Home(j, t))

LEMMA CopiesMembers ==
  ASSUME source \in SourceGraphs, Resolved, NEW x
  PROVE  (\E v \in AllValues(Updated) : x \in CopiesOf(Updated, v)) <=> IsCopy(x)
<1>1. ASSUME NEW v \in AllValues(Updated), x \in CopiesOf(Updated, v)
      PROVE  IsCopy(x)
  <2>1. PICK a \in Sources(Updated, v), b \in Sinks(Updated, v) :
          /\ MappingAt(Updated, a) # MappingAt(Updated, b)
          /\ x = CopyTask(v, MappingAt(Updated, a), MappingAt(Updated, b))
    <3>1. PICK p \in {q \in Sources(Updated, v) \X Sinks(Updated, v) :
                        MappingAt(Updated, q[1]) # MappingAt(Updated, q[2])} :
            x = CopyTask(v, MappingAt(Updated, p[1]), MappingAt(Updated, p[2]))
      BY <1>1 DEF CopiesOf
    <3> QED BY <3>1
  <2>2. PICK i \in Updated : \E s \in DOMAIN i.outs : a = OutSite(i, s) /\ i.outs[s] = v
    BY SitesOfValue
  <2>3. PICK s \in DOMAIN i.outs : a = OutSite(i, s) /\ i.outs[s] = v
    BY <2>2
  <2>4. PICK j \in Updated : \E t \in DOMAIN j.ins : b = InSite(j, t) /\ j.ins[t] = v
    BY SitesOfValue
  <2>5. PICK t \in DOMAIN j.ins : b = InSite(j, t) /\ j.ins[t] = v
    BY <2>4
  <2>6. MappingAt(Updated, a) = PlaceOf(Home(i, s)) /\ MappingAt(Updated, b) = PlaceOf(Home(j, t))
    BY <2>3, <2>5, SiteMapping
  <2>7. Moves(i, s, j, t)
    BY <2>1, <2>3, <2>5, <2>6 DEF Moves
  <2>8. x = Copy(i.outs[s], Home(i, s), Home(j, t))
    BY <2>1, <2>3, <2>6 DEF Copy
  <2> QED BY <2>7, <2>8 DEF IsCopy
<1>2. ASSUME IsCopy(x)
      PROVE  \E v \in AllValues(Updated) : x \in CopiesOf(Updated, v)
  <2>1. PICK i, s, j, t : Moves(i, s, j, t) /\ x = Copy(i.outs[s], Home(i, s), Home(j, t))
    BY <1>2 DEF IsCopy
  <2> DEFINE v == i.outs[s]
             a == OutSite(i, s)
             b == InSite(j, t)
  <2>2. a \in Sources(Updated, v) /\ b \in Sinks(Updated, v)
    BY <2>1, SitesOfValue DEF Moves
  <2>3. v \in AllValues(Updated)
    BY <2>1 DEF Moves, AllValues, Outputs, Values, Range
  <2>4. MappingAt(Updated, a) = PlaceOf(Home(i, s)) /\ MappingAt(Updated, b) = PlaceOf(Home(j, t))
    BY <2>1, SiteMapping DEF Moves
  <2>5. MappingAt(Updated, a) # MappingAt(Updated, b)
    BY <2>1, <2>4 DEF Moves
  <2>6. x = CopyTask(v, MappingAt(Updated, a), MappingAt(Updated, b))
    BY <2>1, <2>4 DEF Copy
  <2> HIDE DEF a, b, v
  <2>7. <<a, b>> \in {q \in Sources(Updated, v) \X Sinks(Updated, v) :
                        MappingAt(Updated, q[1]) # MappingAt(Updated, q[2])}
    BY <2>2, <2>5
  <2>8. x \in CopiesOf(Updated, v)
    BY <2>6, <2>7 DEF CopiesOf
  <2> QED BY <2>3, <2>8
<1> QED BY <1>1, <1>2

LEMMA CopiedMembers ==
  ASSUME source \in SourceGraphs, Resolved, NEW x
  PROVE  x \in Copied <=> (\E i \in Updated : x = M(i)) \/ IsCopy(x)
BY CopiesMembers DEF Copied, InsertCopies, M

LEMMA HomeDevices ==
  ASSUME source \in SourceGraphs, NEW i \in Updated, NEW s, s \in DOMAIN i.ins \cup DOMAIN i.outs
  PROVE  IsDevices(Home(i, s)) /\ (DOMAIN Home(i, s) = {} <=> Local)
<1>1. CASE IsWhole(i, s)
  <2>1. i.op = "replicate"
    BY <1>1 DEF IsWhole
  <2>2. PICK n \in Layer : Op(n) = "replicate" /\ DOMAIN Args(n) = {1} /\ (i = Fwd(n) \/ i = Bwd(n))
    BY <2>1, WholeSites
  <2>3. i.guid = n /\ Args(n)[1] \in Layer
    BY <2>2, FwdFacts, BwdFacts, LayerFacts
  <2>4. Home(i, s) = Dev(Args(n)[1])
    BY <1>1, <2>3 DEF Home
  <2> QED BY <2>3, <2>4, DeviceFacts
<1>2. CASE ~IsWhole(i, s)
  <2>1. IsMapping(source.backend, i.mapping, SlotNamesOf(i)) /\ s.name \in SlotNamesOf(i)
    BY TaskMapping, SlotNames
  <2>2. /\ IsDevices(PlacesOf(i.mapping, s.name))
        /\ ShardsAt(i.mapping, s.name) = {} <=> Local
    BY <2>1, MappingFacts DEF Local
  <2>3. Home(i, s) = PlacesOf(i.mapping, s.name)
    BY <1>2 DEF Home
  <2>4. DOMAIN Home(i, s) = ShardsAt(i.mapping, s.name)
    BY <2>3, PlacesFacts
  <2>5. IsDevices(Home(i, s))
    BY <2>2, <2>3
  <2>6. DOMAIN Home(i, s) = {} <=> Local
    BY <2>2, <2>4
  <2> QED BY <2>5, <2>6
<1> QED BY <1>1, <1>2

LEMMA ShardsOfLink ==
  ASSUME source \in SourceGraphs, Resolved, \A x \in Copied : ShardsAgree(x),
         NEW k \in Layer, NEW j \in Updated, NEW t \in DOMAIN j.ins, j.ins[t] = V(k, "fwd")
  PROVE  DOMAIN Home(j, t) = DOMAIN Dev(k)
<1> DEFINE i == Fwd(k)
           s == P("OUTPUT", "fwd")
           v == V(k, "fwd")
<1>1. i \in Updated /\ s \in DOMAIN i.outs /\ i.outs[s] = v
  BY MakesTask DEF MakesAt
<1>2. Home(i, s) = Dev(k)
  BY FwdFacts, SlotFields DEF Home, IsWhole, Dev
<1>3. IsDevices(Dev(k)) /\ IsDevices(Home(j, t))
  BY HomeDevices, DeviceFacts
<1>4. CASE PlaceOf(Dev(k)) = PlaceOf(Home(j, t))
  BY <1>4, SamePlace
<1>5. CASE PlaceOf(Dev(k)) # PlaceOf(Home(j, t))
  <2> DEFINE c == Copy(v, Dev(k), Home(j, t))
  <2>1. Moves(i, s, j, t)
    BY <1>1, <1>2, <1>5 DEF Moves
  <2>2. IsCopy(c)
    BY <1>1, <1>2, <2>1 DEF IsCopy
  <2>3. ShardsAgree(c)
    BY <2>2, CopiedMembers
  <2>4. c.op = "copy" /\ Values(c.ins) = {Placed(v, Dev(k))} /\ Values(c.outs) = {Placed(v, Home(j, t))}
    BY CopyFields
  <2> HIDE DEF c
  <2>5. Coordinates(Placed(v, Dev(k))) = Coordinates(Placed(v, Home(j, t)))
    BY <2>3, <2>4 DEF ShardsAgree
  <2>6. /\ Placed(v, Dev(k)).mapping = PlaceOf(Dev(k))
        /\ Placed(v, Home(j, t)).mapping = PlaceOf(Home(j, t))
    BY ValuesAreValues, PlacedFields
  <2>7. Coordinates(Placed(v, Dev(k))) = DOMAIN Dev(k)
    BY <1>3, <2>6, PlaceFacts
  <2>8. Coordinates(Placed(v, Home(j, t))) = DOMAIN Home(j, t)
    BY <1>3, <2>6, PlaceFacts
  <2> QED BY <2>5, <2>7, <2>8
<1> QED BY <1>4, <1>5

LEMMA FittedIfAgreed ==
  ASSUME source \in SourceGraphs, Resolved, \A x \in Copied : ShardsAgree(x)
  PROVE  MappingsFit
<1>1. ASSUME NEW k \in Layer, NEW name \in Names(k), ~(Op(k) = "replicate" /\ name = "INPUT")
      PROVE  Apart(MapOf(k), name)
  <2>1. Fwd(k) \in Updated /\ Fwd(k).mapping = MapOf(k) /\ Fwd(k).op = Op(k)
    BY FwdFacts, UpdatedMembers DEF IsTask
  <2>2. PICK s : s \in DOMAIN Fwd(k).ins \cup DOMAIN Fwd(k).outs /\ s.name = name
    <3>1. CASE name = "OUTPUT"
      <4>1. P("OUTPUT", "fwd") \in DOMAIN Fwd(k).outs
        BY MakesTask DEF MakesAt
      <4> QED BY <3>1, <4>1, SlotFields
    <3>2. CASE \E a \in DOMAIN Args(k) : name = ArgumentSlot[a]
      <4>1. PICK a \in DOMAIN Args(k) : name = ArgumentSlot[a]
        BY <3>2
      <4>2. ReadsAt(Fwd(k), P(ArgumentSlot[a], "fwd"), V(Args(k)[a], "fwd"))
        BY DEF ReadsAt
      <4>3. P(ArgumentSlot[a], "fwd") \in DOMAIN Fwd(k).ins
        BY <4>2, ReadsTask
      <4> QED BY <4>1, <4>3, SlotFields
    <3> QED BY <3>1, <3>2 DEF Names, NamesOf, Args
  <2>3. ~IsWhole(Fwd(k), s)
    BY <1>1, <2>1, <2>2 DEF IsWhole
  <2> QED BY <2>1, <2>2, <2>3, NodeMappingIs
<1>2. ASSUME NEW k \in Layer, NEW a \in DOMAIN Args(k)
      PROVE  ShardsAt(MapOf(k), ArgumentSlot[a]) = ShardsAt(MapOf(Args(k)[a]), "OUTPUT")
  <2> DEFINE i == Fwd(k)
             s == P(ArgumentSlot[a], "fwd")
             n == Args(k)[a]
  <2>1. n \in Layer /\ DOMAIN Dev(n) = ShardsAt(MapOf(n), "OUTPUT")
    BY LayerFacts, DeviceFacts
  <2>2. i \in Updated /\ i.mapping = MapOf(k) /\ i.op = Op(k) /\ i.guid = k /\ i.task = "FWD"
    BY FwdFacts, UpdatedMembers DEF IsTask
  <2>3. ReadsAt(i, s, V(n, "fwd"))
    BY DEF ReadsAt
  <2>4. s \in DOMAIN i.ins /\ i.ins[s] = V(n, "fwd") /\ s.name = ArgumentSlot[a]
    BY <2>3, ReadsTask, SlotFields
  <2> HIDE DEF i, s, n
  <2>5. CASE ~IsWhole(i, s)
    <3>1. DOMAIN Home(i, s) = DOMAIN Dev(n)
      BY <2>1, <2>2, <2>4, ShardsOfLink
    <3>2. DOMAIN Home(i, s) = ShardsAt(MapOf(k), ArgumentSlot[a])
      BY <2>2, <2>4, <2>5, PlacesFacts DEF Home
    <3> QED BY <2>1, <3>1, <3>2 DEF n
  <2>6. CASE IsWhole(i, s)
    <3>1. Op(k) = "replicate" /\ ArgumentSlot[a] = "INPUT" /\ a = 1
      BY <2>2, <2>4, <2>6, LayerFacts DEF IsWhole
    <3>2. ShardsAt(MapOf(k), "INPUT") \subseteq ShardsAt(MapOf(n), "OUTPUT")
      <4>1. IsLayer(source, k)
        BY SourceGraphsAssumption DEF IsSourceGraph, Layer
      <4> QED BY <3>1, <4>1 DEF IsLayer, MapOf, Args, Op, n
    <3>3. ShardsAgree(M(i))
      BY <2>2, CopiedMembers
    <3>4. /\ M(i).op = "replicate" /\ M(i).mapping = MapOf(k) /\ M(i).task = "FWD"
          /\ s \in DOMAIN M(i).ins /\ M(i).ins[s] = Placed(V(n, "fwd"), Dev(n))
      <4>1. Home(i, s) = Dev(n)
        BY <2>2, <2>6, <3>1 DEF Home, n
      <4> QED BY <2>2, <2>4, <3>1, <4>1, MappedFields
    <3>5. ASSUME NEW c \in DOMAIN Dev(n)
          PROVE  c \in ShardsAt(MapOf(k), "INPUT")
      <4> DEFINE v == Placed(V(n, "fwd"), Dev(n))
      <4>1. v.mapping = PlaceOf(Dev(n)) /\ IsDevices(Dev(n))
        BY <2>1, ValuesAreValues, PlacedFields, DeviceFacts
      <4>2. c \in Coordinates(v)
        BY <4>1, PlaceFacts
      <4>3. v \in Values(M(i).ins) /\ WholePorts(M(i)) = M(i).ins
        BY <3>4 DEF Values, Range, WholePorts
      <4> HIDE DEF v
      <4>4. DevicesFor(M(i), c) # {}
        BY <3>3, <3>4, <4>2, <4>3 DEF ShardsAgree
      <4> QED BY <3>4, <4>4 DEF DevicesFor, ShardsAt
    <3> QED BY <2>1, <3>1, <3>2, <3>5 DEF n
  <2> QED BY <2>5, <2>6
<1>3. ASSUME HasLoss
      PROVE  /\ Apart(LossMap, "INPUT") /\ Apart(LossMap, "LOGIT")
             /\ ShardsAt(LossMap, "LOGIT") = ShardsAt(MapOf(Logit), "OUTPUT")
  <2>1. Loss \in Updated /\ Loss.mapping = LossMap /\ Logit \in Layer
    BY <1>3, LossFacts, UpdatedMembers, LogitInLayer DEF IsTask
  <2>2. /\ P("INPUT", "loss") \in DOMAIN Loss.ins /\ P("LOGIT", "fwd") \in DOMAIN Loss.ins
        /\ Loss.ins[P("LOGIT", "fwd")] = V(Logit, "fwd")
        /\ P("INPUT", "loss").name = "INPUT" /\ P("LOGIT", "fwd").name = "LOGIT"
    BY LossFacts, SlotFields
  <2>3. ~IsWhole(Loss, P("INPUT", "loss")) /\ ~IsWhole(Loss, P("LOGIT", "fwd"))
    BY LossFacts DEF IsWhole
  <2>4. Apart(LossMap, "INPUT") /\ Apart(LossMap, "LOGIT")
    BY <2>1, <2>2, <2>3, NodeMappingIs
  <2>5. DOMAIN Home(Loss, P("LOGIT", "fwd")) = DOMAIN Dev(Logit)
    BY <2>1, <2>2, ShardsOfLink
  <2>6. DOMAIN Home(Loss, P("LOGIT", "fwd")) = ShardsAt(LossMap, "LOGIT")
    BY <2>1, <2>2, <2>3, PlacesFacts DEF Home
  <2> QED BY <2>1, <2>4, <2>5, <2>6, DeviceFacts
<1> QED BY <1>1, <1>2, <1>3 DEF MappingsFit, Names, Op, Args, MapOf, LossMap, Logit

LEMMA LocalFits ==
  ASSUME source \in SourceGraphs, Local
  PROVE  MappingsFit
<1>1. ASSUME NEW k \in Layer PROVE DOMAIN MapOf(k) = {}
  BY NamesFacts DEF IsMapping, Local
<1>2. HasLoss => DOMAIN LossMap = {}
  BY LossMapping DEF IsMapping, Local
<1>3. \A k \in Layer : \A a \in DOMAIN Args(k) : Args(k)[a] \in Layer
  BY LayerFacts
<1>4. HasLoss => Logit \in Layer
  BY LogitInLayer
<1> QED BY <1>1, <1>2, <1>3, <1>4 DEF MappingsFit, Apart, ShardsAt, MapOf, Args, LossMap, Logit

-------------------------------------------------------------------------------
(***************************************************************************)
(* The shards of a task: one for each device, or for each shard of what a  *)
(* replicate replicates.                                                   *)
(***************************************************************************)
ShardNumbers(i) == IF i.op = "replicate" THEN DOMAIN Dev(Args(i.guid)[1]) ELSE DOMAIN i.mapping

ReplicateShard(j, c) ==
  IF j.task = "BWD"
  THEN [j EXCEPT !.devices = DevicesFor(j, c),
                 !.ins = Replicas(ReplicaPorts(j), DevicesFor(j, c)),
                 !.outs = [s \in DOMAIN WholePorts(j) |-> At(WholePorts(j)[s], c)]]
  ELSE [j EXCEPT !.devices = DevicesFor(j, c),
                 !.ins = [s \in DOMAIN WholePorts(j) |-> At(WholePorts(j)[s], c)],
                 !.outs = Replicas(ReplicaPorts(j), DevicesFor(j, c))]

Shard(i, p) ==
  IF i.op = "replicate" THEN ReplicateShard(M(i), p) ELSE ShardOn(M(i), p, i.mapping[p])

\* The shards of the tensor at a slot that shard p of the task has, and where.
CoordsAt(i, p, s) ==
  IF i.op # "replicate" THEN {i.mapping[p][s.name]}
  ELSE IF IsWhole(i, s) THEN {p}
  ELSE {q \in DOMAIN Home(i, s) : i.mapping[Home(i, s)[q]]["INPUT"] = p}
SlotOf(i, s, q) ==
  IF i.op = "replicate" /\ ~IsWhole(i, s) THEN [s EXCEPT !.shard = Home(i, s)[q]] ELSE s

\* The shard of the task that has shard q of the tensor at a slot.
NumberOf(i, s, q) ==
  IF i.op # "replicate" THEN Home(i, s)[q]
  ELSE IF IsWhole(i, s) THEN q
  ELSE i.mapping[Home(i, s)[q]]["INPUT"]

LEMMA ShardOnFields ==
  ASSUME NEW j, HasFields(j), NEW d, NEW b
  PROVE  LET x == ShardOn(j, d, b) IN
         /\ x.guid = j.guid /\ x.op = j.op /\ x.task = j.task /\ x.devices = {d}
         /\ DOMAIN x.ins = DOMAIN j.ins /\ \A s \in DOMAIN j.ins : x.ins[s] = At(j.ins[s], b[s.name])
         /\ DOMAIN x.outs = DOMAIN j.outs /\ \A s \in DOMAIN j.outs : x.outs[s] = At(j.outs[s], b[s.name])
<1> DEFINE f == [s \in DOMAIN j.ins |-> At(j.ins[s], b[s.name])]
           g == [s \in DOMAIN j.outs |-> At(j.outs[s], b[s.name])]
           x == ShardOn(j, d, b)
<1>1. x = [j EXCEPT !.devices = {d}, !.ins = f, !.outs = g]
  BY DEF ShardOn
<1>2. /\ DOMAIN f = DOMAIN j.ins /\ \A s \in DOMAIN j.ins : f[s] = At(j.ins[s], b[s.name])
      /\ DOMAIN g = DOMAIN j.outs /\ \A s \in DOMAIN j.outs : g[s] = At(j.outs[s], b[s.name])
  OBVIOUS
<1> HIDE DEF f, g, x
<1>3. x.guid = j.guid /\ x.op = j.op /\ x.task = j.task /\ x.devices = {d} /\ x.ins = f /\ x.outs = g
  BY <1>1 DEF HasFields, Fields
<1> QED BY <1>2, <1>3 DEF x

AreReplicas(ports, slot, v, d, Q) ==
  /\ DOMAIN ports = {[slot EXCEPT !.shard = d[q]] : q \in Q}
  /\ \A q \in Q : ports[[slot EXCEPT !.shard = d[q]]] = At(v, q)

LEMMA ReplicasFacts ==
  ASSUME NEW name, NEW r, NEW ports, DOMAIN ports = {P(name, r)}, NEW d, IsDevices(d),
         ports[P(name, r)].mapping = PlaceOf(d), NEW Q \in SUBSET DOMAIN d,
         NEW D, \A e : e \in D <=> \E q \in Q : e = d[q]
  PROVE  AreReplicas(Replicas(ports, D), P(name, r), ports[P(name, r)], d, Q)
<1> DEFINE slot == P(name, r)
           v == ports[slot]
<1>1. Only(DOMAIN ports) = slot
  BY DEF Only
<1>2. \A e : [slot EXCEPT !.shard = e].shard = e
  BY DEF P
<1>3. \A q \in Q : CoordinateOn(v, d[q]) = q
  BY PlaceFacts
<1> HIDE DEF slot, v
<1>4. Replicas(ports, D) = [s \in {[slot EXCEPT !.shard = e] : e \in D} |-> At(v, CoordinateOn(v, s.shard))]
  BY <1>1 DEF Replicas, v
<1>5. {[slot EXCEPT !.shard = e] : e \in D} = {[slot EXCEPT !.shard = d[q]] : q \in Q}
  OBVIOUS
<1>6. ASSUME NEW q \in Q
      PROVE  Replicas(ports, D)[[slot EXCEPT !.shard = d[q]]] = At(v, q)
  <2> DEFINE t == [slot EXCEPT !.shard = d[q]]
  <2>1. t \in {[slot EXCEPT !.shard = e] : e \in D}
    OBVIOUS
  <2>2. t.shard = d[q]
    BY <1>2
  <2> HIDE DEF t
  <2>3. Replicas(ports, D)[t] = At(v, CoordinateOn(v, t.shard))
    BY <1>4, <2>1
  <2> QED BY <1>3, <2>2, <2>3 DEF t
<1> QED BY <1>4, <1>5, <1>6 DEF slot, v, AreReplicas

\* The devices and the shards of what a site has.
LEMMA FitFacts ==
  ASSUME MappingsFit
  PROVE  /\ \A k \in Layer : \A name \in Names(k) :
              (Op(k) = "replicate" /\ name = "INPUT") \/ Apart(MapOf(k), name)
         /\ \A k \in Layer : \A a \in DOMAIN Args(k) :
              ShardsAt(MapOf(k), ArgumentSlot[a]) = ShardsAt(MapOf(Args(k)[a]), "OUTPUT")
         /\ HasLoss => /\ Apart(LossMap, "INPUT") /\ Apart(LossMap, "LOGIT")
                       /\ ShardsAt(LossMap, "LOGIT") = ShardsAt(MapOf(Logit), "OUTPUT")
BY DEF MappingsFit, Names, Op, Args, MapOf, LossMap, Logit

\* An argument has the same shards wherever it is used.
LEMMA HomeOfArgument ==
  ASSUME source \in SourceGraphs, MappingsFit, NEW j \in Layer, NEW a \in DOMAIN Args(j),
         NEW i, i = Fwd(j) \/ i = Bwd(j), NEW r
  PROVE  DOMAIN Home(i, P(ArgumentSlot[a], r)) = DOMAIN Dev(Args(j)[a])
<1> DEFINE s == P(ArgumentSlot[a], r)
<1>1. i.guid = j /\ i.op = Op(j) /\ i.mapping = MapOf(j)
  BY FwdFacts, BwdFacts
<1>2. Args(j)[a] \in Layer /\ s.name = ArgumentSlot[a]
  BY LayerFacts, SlotFields
<1>3. CASE IsWhole(i, s)
  <2>1. a = 1
    BY <1>1, <1>3, LayerFacts DEF IsWhole
  <2> QED BY <1>1, <1>3, <2>1 DEF Home
<1>4. CASE ~IsWhole(i, s)
  <2>1. Home(i, s) = PlacesOf(MapOf(j), ArgumentSlot[a])
    BY <1>1, <1>2, <1>4 DEF Home
  <2>2. DOMAIN Home(i, s) = ShardsAt(MapOf(j), ArgumentSlot[a])
    BY <2>1, PlacesFacts
  <2> QED BY <1>2, <2>2, FitFacts, DeviceFacts
<1> QED BY <1>3, <1>4

LEMMA HomeOfOutput ==
  ASSUME source \in SourceGraphs, NEW k \in Layer, NEW i, i = Fwd(k) \/ i = Bwd(k) \/ i = Upd(k), NEW r
  PROVE  ~IsWhole(i, P("OUTPUT", r)) /\ Home(i, P("OUTPUT", r)) = Dev(k)
BY FwdFacts, BwdFacts, UpdFacts, SlotFields DEF Home, IsWhole, Dev

LEMMA HomeOfLogit ==
  ASSUME source \in SourceGraphs, MappingsFit, HasLoss, NEW r
  PROVE  DOMAIN Home(Loss, P("LOGIT", r)) = DOMAIN Dev(Logit)
<1>1. Home(Loss, P("LOGIT", r)) = PlacesOf(LossMap, "LOGIT")
  BY LossFacts, SlotFields DEF Home, IsWhole
<1> QED BY <1>1, FitFacts, LogitInLayer, DeviceFacts, PlacesFacts

LEMMA HomeOfReads ==
  ASSUME source \in SourceGraphs, MappingsFit, NEW i, NEW s, NEW k, NEW r, ReadsAt(i, s, V(k, r)), k \in Layer
  PROVE  DOMAIN Home(i, s) = DOMAIN Dev(k)
<1>1. V(k, r) # Label
  BY LabelFacts, LayersAreNumbers
<1>2. CASE \E j \in Layer : \E a \in DOMAIN Args(j) :
             /\ i = Fwd(j) \/ (i = Bwd(j) /\ InPath(j) /\ Op(j) # "replicate")
             /\ s = P(ArgumentSlot[a], "fwd") /\ V(k, r) = V(Args(j)[a], "fwd")
  <2>1. PICK j \in Layer : \E a \in DOMAIN Args(j) :
             /\ i = Fwd(j) \/ (i = Bwd(j) /\ InPath(j) /\ Op(j) # "replicate")
             /\ s = P(ArgumentSlot[a], "fwd") /\ V(k, r) = V(Args(j)[a], "fwd")
    BY <1>2
  <2>2. PICK a \in DOMAIN Args(j) :
             /\ i = Fwd(j) \/ (i = Bwd(j) /\ InPath(j) /\ Op(j) # "replicate")
             /\ s = P(ArgumentSlot[a], "fwd") /\ V(k, r) = V(Args(j)[a], "fwd")
    BY <2>1
  <2>3. k = Args(j)[a]
    BY <2>2, ValuesInjective
  <2> QED BY <2>2, <2>3, HomeOfArgument
<1>3. CASE \E j \in Differentiated :
             /\ i = Bwd(j)
             /\ \/ s = P("OUTPUT", "grad") /\ V(k, r) = V(j, "grad")
                \/ s = P("OUTPUT", "fwd") /\ V(k, r) = V(j, "fwd") /\ Op(j) # "replicate"
  BY <1>3, ValuesInjective, HomeOfOutput
<1>4. CASE \E j \in Weights : \E q \in UpdateRoles : i = Upd(j) /\ s = P("OUTPUT", q) /\ V(k, r) = V(j, q)
  BY <1>4, ValuesInjective, HomeOfOutput
<1>5. CASE /\ HasLoss /\ i = Loss
           /\ \/ s = P("INPUT", "loss") /\ V(k, r) = Label
              \/ s = P("LOGIT", "fwd") /\ V(k, r) = V(Logit, "fwd")
  BY <1>1, <1>5, ValuesInjective, HomeOfLogit
<1> QED BY <1>2, <1>3, <1>4, <1>5 DEF ReadsAt

LEMMA HomeOfMakes ==
  ASSUME source \in SourceGraphs, MappingsFit, NEW i, NEW s, NEW k, NEW r, MakesAt(i, s, V(k, r)), k \in Layer
  PROVE  DOMAIN Home(i, s) = DOMAIN Dev(k)
<1>1. CASE \E j \in Layer : \E a \in DOMAIN Args(j) :
             i = Bwd(j) /\ k = Args(j)[a] /\ s = P(ArgumentSlot[a], "grad")
  BY <1>1, HomeOfArgument
<1>2. CASE i = Fwd(k) /\ s = P("OUTPUT", "fwd")
  BY <1>2, HomeOfOutput
<1>3. CASE HasLoss /\ i = Loss /\ k = Logit /\ s = P("LOGIT", "grad")
  BY <1>3, HomeOfLogit
<1> QED BY <1>1, <1>2, <1>3, ValuesInjective, SubsetsOfLayer DEF MakesAt

\* Every task's ports are values without a place, on devices.
LEMMA PortsOfTasks ==
  ASSUME source \in SourceGraphs, NEW i \in Updated
  PROVE  /\ \A s \in DOMAIN i.ins :
              /\ IsValue(i.ins[s]) /\ i.ins[s].coord = 0 /\ i.ins[s].mapping = {}
              /\ IsDevices(Home(i, s))
         /\ \A s \in DOMAIN i.outs :
              /\ IsValue(i.outs[s]) /\ i.outs[s].coord = 0 /\ i.outs[s].mapping = {}
              /\ IsDevices(Home(i, s))
<1>1. ASSUME NEW s \in DOMAIN i.ins
      PROVE  /\ IsValue(i.ins[s]) /\ i.ins[s].coord = 0 /\ i.ins[s].mapping = {}
             /\ IsDevices(Home(i, s))
  <2>1. ReadsAt(i, s, i.ins[s])
    BY TaskReads
  <2>2. i.ins[s] = Label \/ \E k \in Layer : \E r : i.ins[s] = V(k, r)
    BY <2>1, ReadValues
  <2> QED BY <2>2, HomeDevices, ValuesAreValues
<1>2. ASSUME NEW s \in DOMAIN i.outs
      PROVE  /\ IsValue(i.outs[s]) /\ i.outs[s].coord = 0 /\ i.outs[s].mapping = {}
             /\ IsDevices(Home(i, s))
  <2>1. MakesAt(i, s, i.outs[s])
    BY TaskMakes
  <2>2. \E k \in Layer : \E r : i.outs[s] = V(k, r)
    BY <2>1, MadeValues
  <2> QED BY <2>2, HomeDevices, ValuesAreValues
<1> QED BY <1>1, <1>2

\* Every shard of the tensor at a slot belongs to one shard of the task.
LEMMA NumbersOfHome ==
  ASSUME source \in SourceGraphs, Resolved, NEW i \in Updated, NEW s, s \in DOMAIN i.ins \cup DOMAIN i.outs
  PROVE  /\ \A q \in DOMAIN Home(i, s) :
              NumberOf(i, s, q) \in ShardNumbers(i) /\ q \in CoordsAt(i, NumberOf(i, s, q), s)
         /\ \A p \in ShardNumbers(i) : \A q \in CoordsAt(i, p, s) :
              q \in DOMAIN Home(i, s) /\ p = NumberOf(i, s, q)
<1>1. CASE i.op # "replicate"
  <2>1. ~IsWhole(i, s)
    BY <1>1 DEF IsWhole
  <2>2. Home(i, s) = PlacesOf(i.mapping, s.name)
    BY <2>1 DEF Home
  <2>3. \A d \in DOMAIN i.mapping : Home(i, s)[i.mapping[d][s.name]] = d
    BY <2>1, <2>2, NodeMappingIs, ApartFacts
  <2>4. /\ \A q \in DOMAIN Home(i, s) :
             Home(i, s)[q] \in DOMAIN i.mapping /\ i.mapping[Home(i, s)[q]][s.name] = q
        /\ \A d \in DOMAIN i.mapping : i.mapping[d][s.name] \in DOMAIN Home(i, s)
    BY <2>2, PlacesFacts
  <2>5. /\ ShardNumbers(i) = DOMAIN i.mapping
        /\ \A q : NumberOf(i, s, q) = Home(i, s)[q]
        /\ \A p : CoordsAt(i, p, s) = {i.mapping[p][s.name]}
    BY <1>1 DEF ShardNumbers, NumberOf, CoordsAt
  <2> QED BY <2>3, <2>4, <2>5
<1>2. CASE i.op = "replicate" /\ IsWhole(i, s)
  BY <1>2 DEF ShardNumbers, NumberOf, CoordsAt, Home
<1>3. CASE i.op = "replicate" /\ ~IsWhole(i, s)
  <2>1. PICK k \in Layer : Op(k) = "replicate" /\ DOMAIN Args(k) = {1} /\ (i = Fwd(k) \/ i = Bwd(k))
    BY <1>3, WholeSites
  <2>2. i.guid = k /\ i.mapping = MapOf(k) /\ Args(k)[1] \in Layer
    BY <2>1, FwdFacts, BwdFacts, LayerFacts
  <2>3. ShardsAt(MapOf(k), "INPUT") \subseteq DOMAIN Dev(Args(k)[1])
    <3>1. IsLayer(source, k)
      BY SourceGraphsAssumption DEF IsSourceGraph, Layer
    <3> QED BY <2>1, <2>2, <3>1, DeviceFacts DEF IsLayer, MapOf, Args, Op
  <2>4. \A q \in DOMAIN Home(i, s) : Home(i, s)[q] \in DOMAIN i.mapping
    BY <1>3, PlacesFacts DEF Home
  <2>5. \A d \in DOMAIN i.mapping : i.mapping[d]["INPUT"] \in ShardNumbers(i)
    BY <1>3, <2>2, <2>3, PlacesFacts DEF ShardNumbers
  <2> QED BY <1>3, <2>4, <2>5 DEF NumberOf, CoordsAt
<1> QED BY <1>1, <1>2, <1>3

-------------------------------------------------------------------------------
IsShard(x, i, p) ==
  /\ x.guid = i.guid /\ x.op = i.op /\ x.task = i.task
  /\ x.devices = IF i.op = "replicate" THEN DevicesFor(i, p) ELSE {p}
  /\ \A t : t \in DOMAIN x.ins <=> \E s \in DOMAIN i.ins : \E q \in CoordsAt(i, p, s) : t = SlotOf(i, s, q)
  /\ \A s \in DOMAIN i.ins : \A q \in CoordsAt(i, p, s) :
       x.ins[SlotOf(i, s, q)] = W(i.ins[s], Home(i, s), q)
  /\ \A t : t \in DOMAIN x.outs <=> \E s \in DOMAIN i.outs : \E q \in CoordsAt(i, p, s) : t = SlotOf(i, s, q)
  /\ \A s \in DOMAIN i.outs : \A q \in CoordsAt(i, p, s) :
       x.outs[SlotOf(i, s, q)] = W(i.outs[s], Home(i, s), q)

LEMMA OtherShards ==
  ASSUME source \in SourceGraphs, Resolved, NEW i \in Updated, i.op # "replicate"
  PROVE  /\ Shards(M(i)) = {Shard(i, p) : p \in ShardNumbers(i)}
         /\ \A p \in ShardNumbers(i) : IsShard(Shard(i, p), i, p)
<1>1. M(i).op = i.op /\ M(i).mapping = i.mapping /\ i.op # "copy"
  BY MappedFields, TaskMapping
<1>2. Shards(M(i)) = {ShardOn(M(i), e, i.mapping[e]) : e \in DOMAIN i.mapping}
  BY <1>1 DEF Shards, ShardOther
<1>3. ShardNumbers(i) = DOMAIN i.mapping /\ \A p : Shard(i, p) = ShardOn(M(i), p, i.mapping[p])
  BY DEF ShardNumbers, Shard
<1>4. Shards(M(i)) = {Shard(i, p) : p \in ShardNumbers(i)}
  BY <1>2, <1>3
<1>5. ASSUME NEW p \in ShardNumbers(i)
      PROVE  IsShard(Shard(i, p), i, p)
  <2> DEFINE x == Shard(i, p)
             b == i.mapping[p]
  <2>1. /\ x.guid = i.guid /\ x.op = i.op /\ x.task = i.task /\ x.devices = {p}
        /\ DOMAIN x.ins = DOMAIN i.ins /\ \A s \in DOMAIN i.ins : x.ins[s] = At(M(i).ins[s], b[s.name])
        /\ DOMAIN x.outs = DOMAIN i.outs /\ \A s \in DOMAIN i.outs : x.outs[s] = At(M(i).outs[s], b[s.name])
    BY <1>3, MappedFields, ShardOnFields
  <2>2. \A s : CoordsAt(i, p, s) = {b[s.name]} /\ \A q : SlotOf(i, s, q) = s
    BY DEF CoordsAt, SlotOf
  <2> HIDE DEF x, b
  <2>3. \A s \in DOMAIN i.ins : x.ins[s] = W(i.ins[s], Home(i, s), b[s.name])
    BY <2>1, MappedFields DEF W
  <2>4. \A s \in DOMAIN i.outs : x.outs[s] = W(i.outs[s], Home(i, s), b[s.name])
    BY <2>1, MappedFields DEF W
  <2>5. x.devices = IF i.op = "replicate" THEN DevicesFor(i, p) ELSE {p}
    BY <2>1
  <2>11. \A s, t : (\E q \in CoordsAt(i, p, s) : t = SlotOf(i, s, q)) <=> t = s
    BY ONLY <2>2
  <2>12. DOMAIN x.ins = DOMAIN i.ins /\ DOMAIN x.outs = DOMAIN i.outs
    BY <2>1
  <2>6. \A t : t \in DOMAIN x.ins <=> \E s \in DOMAIN i.ins : \E q \in CoordsAt(i, p, s) : t = SlotOf(i, s, q)
    BY ONLY <2>11, <2>12, Zenon
  <2>7. \A t : t \in DOMAIN x.outs <=> \E s \in DOMAIN i.outs : \E q \in CoordsAt(i, p, s) : t = SlotOf(i, s, q)
    BY ONLY <2>11, <2>12, Zenon
  <2>8. \A s \in DOMAIN i.ins : \A q \in CoordsAt(i, p, s) :
          x.ins[SlotOf(i, s, q)] = W(i.ins[s], Home(i, s), q)
    BY <2>2, <2>3
  <2>9. \A s \in DOMAIN i.outs : \A q \in CoordsAt(i, p, s) :
          x.outs[SlotOf(i, s, q)] = W(i.outs[s], Home(i, s), q)
    BY <2>2, <2>4
  <2>10. IsShard(x, i, p)
    BY <2>1, <2>5, <2>6, <2>7, <2>8, <2>9, Zenon DEF IsShard
  <2> QED BY <2>10 DEF x
<1> QED BY <1>4, <1>5

\* The ports of a replicate: one on the whole's side, and one on the replicas' side.
ReplicatePorts(i, k, r, whole, replicas) ==
  /\ Op(k) = "replicate" /\ k \in Layer /\ i.guid = k /\ DOMAIN Args(k) = {1}
  /\ Args(k)[1] \in Layer /\ i.mapping = MapOf(k)
  /\ DOMAIN whole = {P("INPUT", r)} /\ whole[P("INPUT", r)] = V(Args(k)[1], r)
  /\ DOMAIN replicas = {P("OUTPUT", r)} /\ replicas[P("OUTPUT", r)] = V(k, r)

LEMMA PortsOfReplicate ==
  ASSUME source \in SourceGraphs, NEW i \in Updated, i.op = "replicate"
  PROVE  \/ i.task = "FWD" /\ \E k : ReplicatePorts(i, k, "fwd", i.ins, i.outs)
         \/ i.task = "BWD" /\ \E k : ReplicatePorts(i, k, "grad", i.outs, i.ins)
<1>1. PICK k \in Layer : /\ Op(k) = "replicate" /\ DOMAIN Args(k) = {1}
                         /\ \/ i = Fwd(k)
                            \/ i = Bwd(k) /\ k \in Differentiated
  BY WholeSites
<1>2. Args(k)[1] \in Layer /\ i.mapping = MapOf(k)
  BY <1>1, LayerFacts, FwdFacts, BwdFacts
<1>3. \A r : DOMAIN ArgPorts(k, r) = {P("INPUT", r)} /\ ArgPorts(k, r)[P("INPUT", r)] = V(Args(k)[1], r)
  <2>1. ArgumentSlot[1] = "INPUT"
    BY DEF ArgumentSlot
  <2> TAKE r
  <2>2. /\ DOMAIN ArgPorts(k, r) = {P(ArgumentSlot[b], r) : b \in DOMAIN Args(k)}
        /\ \A b \in DOMAIN Args(k) : ArgPorts(k, r)[P(ArgumentSlot[b], r)] = V(Args(k)[b], r)
    BY ArgPortsFacts
  <2> QED BY <1>1, <2>1, <2>2
<1>4. CASE i = Fwd(k)
  <2>1. i.task = "FWD" /\ i.guid = k /\ i.ins = ArgPorts(k, "fwd") /\ i.outs = OutPort(k, "fwd")
    BY <1>4, FwdFacts
  <2>2. ReplicatePorts(i, k, "fwd", i.ins, i.outs)
    BY <1>1, <1>2, <1>3, <2>1, OutPortFacts DEF ReplicatePorts
  <2> QED BY <2>1, <2>2
<1>5. CASE i = Bwd(k)
  <2>1. i.task = "BWD" /\ i.guid = k /\ i.ins = BwdIns(k) /\ i.outs = ArgPorts(k, "grad")
    BY <1>5, BwdFacts
  <2>2. DOMAIN BwdIns(k) = {P("OUTPUT", "grad")} /\ BwdIns(k)[P("OUTPUT", "grad")] = V(k, "grad")
    BY <1>1, BwdPorts
  <2>3. ReplicatePorts(i, k, "grad", i.outs, i.ins)
    BY <1>1, <1>2, <1>3, <2>1, <2>2 DEF ReplicatePorts
  <2> QED BY <2>1, <2>3
<1> QED BY <1>1, <1>4, <1>5

\* The ports of the shard of a replicate.
LEMMA ReplicateHomes ==
  ASSUME source \in SourceGraphs, NEW i \in Updated, i.op = "replicate", NEW k, NEW r, NEW whole, NEW replicas,
         ReplicatePorts(i, k, r, whole, replicas)
  PROVE  /\ IsWhole(i, P("INPUT", r)) /\ Home(i, P("INPUT", r)) = Dev(Args(k)[1])
         /\ ~IsWhole(i, P("OUTPUT", r)) /\ Home(i, P("OUTPUT", r)) = Dev(k)
<1>1. IsWhole(i, P("INPUT", r)) /\ ~IsWhole(i, P("OUTPUT", r)) /\ P("OUTPUT", r).name = "OUTPUT"
  BY SlotFields DEF IsWhole
<1> QED BY <1>1 DEF Home, Dev, ReplicatePorts

\* The shards of ports that shard p of a task has.
PortShards(x, ports, i, p) ==
  /\ \A t : t \in DOMAIN x <=> \E s \in DOMAIN ports : \E q \in CoordsAt(i, p, s) : t = SlotOf(i, s, q)
  /\ \A s \in DOMAIN ports : \A q \in CoordsAt(i, p, s) :
       x[SlotOf(i, s, q)] = W(ports[s], Home(i, s), q)

\* On the devices that have the whole's shard c as their input.
LEMMA WholeSide ==
  ASSUME source \in SourceGraphs, Resolved, NEW i \in Updated, i.op = "replicate", NEW k, NEW r,
         NEW whole, NEW replicas, ReplicatePorts(i, k, r, whole, replicas),
         NEW c, NEW x, DOMAIN x = DOMAIN whole, x[P("INPUT", r)] = W(V(Args(k)[1], r), Dev(Args(k)[1]), c)
  PROVE  PortShards(x, whole, i, c)
<1> DEFINE s == P("INPUT", r)
<1>1. DOMAIN whole = {s} /\ whole[s] = V(Args(k)[1], r)
  BY DEF ReplicatePorts
<1>2. CoordsAt(i, c, s) = {c} /\ SlotOf(i, s, c) = s /\ Home(i, s) = Dev(Args(k)[1])
  BY ReplicateHomes DEF ReplicatePorts, CoordsAt, SlotOf
<1>3. DOMAIN x = {s} /\ x[s] = W(whole[s], Home(i, s), c)
  BY <1>1, <1>2
<1> HIDE DEF s
<1> QED BY <1>1, <1>2, <1>3 DEF PortShards

LEMMA ReplicasSide ==
  ASSUME source \in SourceGraphs, Resolved, NEW i \in Updated, i.op = "replicate", NEW k, NEW r,
         NEW whole, NEW replicas, ReplicatePorts(i, k, r, whole, replicas),
         P("OUTPUT", r) \in DOMAIN i.ins \cup DOMAIN i.outs,
         NEW f, DOMAIN f = DOMAIN replicas, f[P("OUTPUT", r)] = Placed(V(k, r), Dev(k)),
         NEW c, NEW x, x = Replicas(f, DevicesFor(i, c))
  PROVE  PortShards(x, replicas, i, c)
<1> DEFINE s == P("OUTPUT", r)
           d == Dev(k)
           Q == CoordsAt(i, c, s)
           D == DevicesFor(i, c)
<1>1. DOMAIN replicas = {s} /\ replicas[s] = V(k, r) /\ k \in Layer /\ i.mapping = MapOf(k)
  BY DEF ReplicatePorts
<1>2. /\ ~IsWhole(i, s) /\ Home(i, s) = d
      /\ Q = {q \in DOMAIN d : MapOf(k)[d[q]]["INPUT"] = c}
      /\ \A q : SlotOf(i, s, q) = [s EXCEPT !.shard = d[q]]
  BY <1>1, ReplicateHomes DEF CoordsAt, SlotOf
<1>3. IsDevices(d) /\ f[s].mapping = PlaceOf(d)
  BY <1>1, DeviceFacts, ValuesAreValues, PlacedFields
<1>4. \A e : e \in D <=> \E q \in Q : e = d[q]
  <2>1. Apart(MapOf(k), "OUTPUT")
    BY <1>1, <1>2, NodeMappingIs, SlotFields
  <2>2. /\ \A q \in DOMAIN d : d[q] \in DOMAIN MapOf(k)
        /\ \A e \in DOMAIN MapOf(k) : \E q \in DOMAIN d : d[q] = e
    BY <2>1, PlacesFacts, ApartFacts DEF Dev
  <2>3. D = {e \in DOMAIN MapOf(k) : MapOf(k)[e]["INPUT"] = c}
    BY <1>1 DEF DevicesFor
  <2> HIDE DEF D, Q, d, s
  <2> QED BY <1>2, <2>2, <2>3
<1>5. AreReplicas(x, s, f[s], d, Q)
  <2>1. DOMAIN f = {P("OUTPUT", r)} /\ Q \in SUBSET DOMAIN d /\ x = Replicas(f, D)
    BY <1>1, <1>2
  <2> HIDE DEF D, Q, d
  <2>2. AreReplicas(Replicas(f, D), P("OUTPUT", r), f[P("OUTPUT", r)], d, Q)
    BY ONLY <1>3, <1>4, <2>1, ReplicasFacts
  <2> QED BY <2>1, <2>2
<1>6. \A q : At(f[s], q) = W(replicas[s], d, q)
  BY <1>1 DEF W
<1> HIDE DEF s, d, Q
<1>7. \A t : t \in DOMAIN x <=> \E q \in Q : t = SlotOf(i, s, q)
  BY <1>2, <1>5 DEF AreReplicas
<1>8. \A q \in Q : x[SlotOf(i, s, q)] = W(replicas[s], Home(i, s), q)
  BY <1>2, <1>5, <1>6 DEF AreReplicas
<1> QED BY <1>1, <1>7, <1>8 DEF Q, PortShards

LEMMA ReplicateShards ==
  ASSUME source \in SourceGraphs, Resolved, NEW i \in Updated, i.op = "replicate"
  PROVE  /\ Shards(M(i)) = {Shard(i, p) : p \in ShardNumbers(i)}
         /\ \A p \in ShardNumbers(i) : IsShard(Shard(i, p), i, p)
<1> DEFINE j == M(i)
           whole == WholePorts(j)
           replicas == ReplicaPorts(j)
<1>1. ShardReplicate(j) = {ReplicateShard(j, c) : c \in Coordinates(Only(Values(whole)))}
  BY Zenon DEF ShardReplicate, ReplicateShard
<1>2. HasFields(j) /\ j.guid = i.guid /\ j.op = i.op /\ j.task = i.task /\ j.mapping = i.mapping
  BY MappedFields
<1>3. PICK k, r, w, e : /\ ReplicatePorts(i, k, r, w, e)
                        /\ \/ i.task = "FWD" /\ w = i.ins /\ e = i.outs
                           \/ i.task = "BWD" /\ w = i.outs /\ e = i.ins
  <2>1. CASE i.task = "FWD" /\ \E k : ReplicatePorts(i, k, "fwd", i.ins, i.outs)
    BY <2>1
  <2>2. CASE i.task = "BWD" /\ \E k : ReplicatePorts(i, k, "grad", i.outs, i.ins)
    BY <2>2
  <2> QED BY <2>1, <2>2, PortsOfReplicate
<1> DEFINE a == Args(k)[1]
<1>4. /\ DOMAIN whole = DOMAIN w /\ whole[P("INPUT", r)] = Placed(V(a, r), Dev(a))
      /\ DOMAIN replicas = DOMAIN e /\ replicas[P("OUTPUT", r)] = Placed(V(k, r), Dev(k))
      /\ P("OUTPUT", r) \in DOMAIN i.ins \cup DOMAIN i.outs
  <2>1. /\ P("INPUT", r) \in DOMAIN w /\ P("OUTPUT", r) \in DOMAIN e
        /\ w[P("INPUT", r)] = V(a, r) /\ e[P("OUTPUT", r)] = V(k, r)
    BY <1>3 DEF ReplicatePorts
  <2>2. Home(i, P("INPUT", r)) = Dev(a) /\ Home(i, P("OUTPUT", r)) = Dev(k)
    BY <1>3, ReplicateHomes
  <2>3. CASE i.task = "FWD" /\ w = i.ins /\ e = i.outs
    <3>1. whole = j.ins /\ replicas = j.outs
      BY <1>2, <2>3 DEF WholePorts, ReplicaPorts
    <3> HIDE DEF whole, replicas, a
    <3> QED BY <2>1, <2>2, <2>3, <3>1, MappedFields
  <2>4. CASE i.task = "BWD" /\ w = i.outs /\ e = i.ins
    <3>1. whole = j.outs /\ replicas = j.ins
      BY <1>2, <2>4 DEF WholePorts, ReplicaPorts
    <3> HIDE DEF whole, replicas, a
    <3> QED BY <2>1, <2>2, <2>4, <3>1, MappedFields
  <2> QED BY <1>3, <2>3, <2>4
<1>5. \A c : DevicesFor(j, c) = DevicesFor(i, c)
  BY <1>2 DEF DevicesFor
<1>6. Coordinates(Only(Values(whole))) = ShardNumbers(i)
  <2>1. DOMAIN whole = {P("INPUT", r)}
    BY <1>3, <1>4 DEF ReplicatePorts
  <2> HIDE DEF whole
  <2>2. Only(Values(whole)) = Placed(V(a, r), Dev(a))
    BY <1>4, <2>1 DEF Values, Range, Only
  <2>3. a \in Layer /\ ShardNumbers(i) = DOMAIN Dev(a)
    BY <1>3 DEF ReplicatePorts, ShardNumbers
  <2>4. Placed(V(a, r), Dev(a)).mapping = PlaceOf(Dev(a)) /\ IsDevices(Dev(a))
    BY <2>3, ValuesAreValues, PlacedFields, DeviceFacts
  <2> HIDE DEF a
  <2> QED BY <2>2, <2>3, <2>4, PlaceFacts
<1>7. Shards(j) = {Shard(i, p) : p \in ShardNumbers(i)}
  <2>1. \A p : Shard(i, p) = ReplicateShard(j, p)
    BY DEF Shard
  <2>2. Shards(j) = ShardReplicate(j)
    BY <1>2 DEF Shards
  <2> HIDE DEF j, whole
  <2> QED BY <1>1, <1>6, <2>1, <2>2
<1>8. ASSUME NEW p \in ShardNumbers(i)
      PROVE  IsShard(Shard(i, p), i, p)
  <2> DEFINE x == Shard(i, p)
             D == DevicesFor(i, p)
             o == [s \in DOMAIN whole |-> At(whole[s], p)]
             c == Replicas(replicas, D)
  <2>1. x = IF j.task = "BWD" THEN [j EXCEPT !.devices = D, !.ins = c, !.outs = o]
            ELSE [j EXCEPT !.devices = D, !.ins = o, !.outs = c]
    <3>1. x = ReplicateShard(j, p)
      BY DEF Shard
    <3>2. DevicesFor(j, p) = D
      BY <1>5
    <3> HIDE DEF x, D, j
    <3> QED BY <3>1, <3>2, Zenon DEF ReplicateShard
  <2>2. PortShards(o, w, i, p)
    <3>1. DOMAIN o = DOMAIN w /\ P("INPUT", r) \in DOMAIN whole
      BY <1>3, <1>4 DEF ReplicatePorts
    <3>2. o[P("INPUT", r)] = W(V(Args(k)[1], r), Dev(Args(k)[1]), p)
      BY <1>4, <3>1 DEF W
    <3>3. ReplicatePorts(i, k, r, w, e)
      BY <1>3
    <3> HIDE DEF o, whole
    <3> QED BY <3>1, <3>2, <3>3, WholeSide
  <2>3. PortShards(c, e, i, p)
    <3> DEFINE f == replicas
    <3>1. DOMAIN f = DOMAIN e /\ f[P("OUTPUT", r)] = Placed(V(k, r), Dev(k))
      BY <1>4
    <3>2. c = Replicas(f, DevicesFor(i, p))
      OBVIOUS
    <3> HIDE DEF f, c
    <3> QED BY <1>3, <1>4, <3>1, <3>2, ReplicasSide
  <2> HIDE DEF x, D, o, c, j
  <2>4. /\ x.guid = i.guid /\ x.op = i.op /\ x.task = i.task /\ x.devices = D
        /\ \/ w = i.ins /\ e = i.outs /\ x.ins = o /\ x.outs = c
           \/ w = i.outs /\ e = i.ins /\ x.ins = c /\ x.outs = o
    <3>1. CASE i.task = "BWD" /\ w = i.outs /\ e = i.ins
      <4>1. x = [j EXCEPT !.devices = D, !.ins = c, !.outs = o]
        BY <1>2, <2>1, <3>1
      <4> QED BY <1>2, <3>1, <4>1 DEF HasFields, Fields
    <3>2. CASE i.task = "FWD" /\ w = i.ins /\ e = i.outs
      <4>1. x = [j EXCEPT !.devices = D, !.ins = o, !.outs = c]
        BY <1>2, <2>1, <3>2
      <4> QED BY <1>2, <3>2, <4>1 DEF HasFields, Fields
    <3> QED BY <1>3, <3>1, <3>2
  <2>5. x.devices = IF i.op = "replicate" THEN DevicesFor(i, p) ELSE {p}
    BY <2>4 DEF D
  <2>6. IsShard(x, i, p)
    <3>1. CASE w = i.ins /\ e = i.outs /\ x.ins = o /\ x.outs = c
      BY <2>2, <2>3, <2>4, <2>5, <3>1 DEF IsShard, PortShards
    <3>2. CASE w = i.outs /\ e = i.ins /\ x.ins = c /\ x.outs = o
      BY <2>2, <2>3, <2>4, <2>5, <3>2 DEF IsShard, PortShards
    <3> QED BY <2>4, <3>1, <3>2
  <2> QED BY <2>6 DEF x
<1> QED BY <1>7, <1>8

-------------------------------------------------------------------------------
(***************************************************************************)
(* The sharded graph.                                                      *)
(***************************************************************************)
CopyShard(v, from, to, q) ==
  ShardOn(Copy(v, from, to), from[q], [name \in {"INPUT", "OUTPUT"} |-> q])

LEMMA CopyShardFields ==
  ASSUME NEW v, NEW from, NEW to, NEW q
  PROVE  LET x == CopyShard(v, from, to, q) IN
         /\ x.guid = CopyGuid /\ x.op = "copy" /\ x.task = "none" /\ x.devices = {from[q]}
         /\ DOMAIN x.ins = {Slot("INPUT")} /\ x.ins[Slot("INPUT")] = W(v, from, q)
         /\ DOMAIN x.outs = {Slot("OUTPUT")} /\ x.outs[Slot("OUTPUT")] = W(v, to, q)
<1> DEFINE c == Copy(v, from, to)
           b == [name \in {"INPUT", "OUTPUT"} |-> q]
           x == CopyShard(v, from, to, q)
<1>1. /\ HasFields(c) /\ c.guid = CopyGuid /\ c.op = "copy" /\ c.task = "none"
      /\ DOMAIN c.ins = {Slot("INPUT")} /\ c.ins[Slot("INPUT")] = Placed(v, from)
      /\ DOMAIN c.outs = {Slot("OUTPUT")} /\ c.outs[Slot("OUTPUT")] = Placed(v, to)
  BY CopyFields
<1>2. Slot("INPUT").name = "INPUT" /\ Slot("OUTPUT").name = "OUTPUT"
  BY DEF Slot
<1>3. b["INPUT"] = q /\ b["OUTPUT"] = q
  OBVIOUS
<1>4. x = ShardOn(c, from[q], b)
  BY DEF CopyShard
<1> HIDE DEF c, b, x
<1>5. /\ x.guid = c.guid /\ x.op = c.op /\ x.task = c.task /\ x.devices = {from[q]}
      /\ DOMAIN x.ins = DOMAIN c.ins /\ \A s \in DOMAIN c.ins : x.ins[s] = At(c.ins[s], b[s.name])
      /\ DOMAIN x.outs = DOMAIN c.outs /\ \A s \in DOMAIN c.outs : x.outs[s] = At(c.outs[s], b[s.name])
  BY <1>1, <1>4, ShardOnFields
<1>6. x.ins[Slot("INPUT")] = W(v, from, q) /\ x.outs[Slot("OUTPUT")] = W(v, to, q)
  BY <1>1, <1>2, <1>3, <1>5 DEF W
<1> QED BY <1>1, <1>5, <1>6 DEF x

LEMMA MovesFacts ==
  ASSUME source \in SourceGraphs, NEW i, NEW s, NEW j, NEW t, Moves(i, s, j, t)
  PROVE  /\ MakesAt(i, s, i.outs[s]) /\ ReadsAt(j, t, i.outs[s])
         /\ \E k \in Layer : \E r \in {"fwd", "grad"} : i.outs[s] = V(k, r)
         /\ IsDevices(Home(i, s)) /\ IsDevices(Home(j, t))
         /\ IsValue(i.outs[s]) /\ i.outs[s].coord = 0 /\ i.outs[s].mapping = {}
<1>1. MakesAt(i, s, i.outs[s]) /\ ReadsAt(j, t, i.outs[s])
  BY TaskMakes, TaskReads DEF Moves
<1>2. \E k \in Layer : \E r \in {"fwd", "grad"} : i.outs[s] = V(k, r)
  BY <1>1, MadeValues
<1>3. IsDevices(Home(i, s)) /\ IsDevices(Home(j, t))
  BY HomeDevices DEF Moves
<1> QED BY <1>1, <1>2, <1>3, ValuesAreValues

\* A copy keeps the shards.
LEMMA MovesAlike ==
  ASSUME source \in SourceGraphs, MappingsFit, NEW i, NEW s, NEW j, NEW t, Moves(i, s, j, t)
  PROVE  DOMAIN Home(i, s) = DOMAIN Home(j, t)
<1>1. PICK k \in Layer : \E r \in {"fwd", "grad"} : i.outs[s] = V(k, r)
  BY MovesFacts
<1>2. PICK r \in {"fwd", "grad"} : i.outs[s] = V(k, r)
  BY <1>1
<1>3. MakesAt(i, s, V(k, r)) /\ ReadsAt(j, t, V(k, r))
  BY <1>2, MovesFacts
<1> QED BY <1>3, HomeOfMakes, HomeOfReads

LEMMA ShardsOfCopy ==
  ASSUME NEW v, IsValue(v), NEW from, IsDevices(from), NEW to
  PROVE  Shards(Copy(v, from, to)) = {CopyShard(v, from, to, q) : q \in DOMAIN from}
<1> DEFINE c == Copy(v, from, to)
           u == Placed(v, from)
<1>1. c.op = "copy" /\ Values(c.ins) = {u}
  BY CopyFields
<1>2. u.mapping = PlaceOf(from)
  BY PlacedFields
<1>3. Coordinates(u) = DOMAIN from /\ \A q \in DOMAIN from : DeviceOf(u, q) = from[q]
  BY <1>2, PlaceFacts
<1>4. \A q : CopyShard(v, from, to, q) = ShardOn(c, from[q], [name \in {"INPUT", "OUTPUT"} |-> q])
  BY DEF CopyShard
<1> HIDE DEF c, u
<1>5. Only(Values(c.ins)) = u
  BY <1>1 DEF Only
<1>6. Shards(c) = {ShardOn(c, DeviceOf(u, q), [name \in {"INPUT", "OUTPUT"} |-> q]) : q \in Coordinates(u)}
  BY <1>1, <1>5, Zenon DEF Shards, ShardCopy
<1> QED BY <1>3, <1>4, <1>6 DEF c

LEMMA ShardsOfTask ==
  ASSUME source \in SourceGraphs, Resolved, NEW i \in Updated
  PROVE  /\ Shards(M(i)) = {Shard(i, p) : p \in ShardNumbers(i)}
         /\ \A p \in ShardNumbers(i) : IsShard(Shard(i, p), i, p)
<1>1. CASE i.op = "replicate"
  BY <1>1, ReplicateShards
<1>2. CASE i.op # "replicate"
  BY <1>2, OtherShards
<1> QED BY <1>1, <1>2

IsTaskShard(x) == \E i \in Updated : \E p \in ShardNumbers(i) : x = Shard(i, p)
IsCopyShard(x) ==
  \E i, s, j, t, q : /\ Moves(i, s, j, t) /\ q \in DOMAIN Home(i, s)
                     /\ x = CopyShard(i.outs[s], Home(i, s), Home(j, t), q)

LEMMA ShardedMembers ==
  ASSUME source \in SourceGraphs, Resolved, NEW x
  PROVE  x \in Sharded <=> IsTaskShard(x) \/ IsCopyShard(x)
<1>1. x \in Sharded <=> \E c \in Copied : x \in Shards(c)
  BY DEF Sharded, ExpandShards
<1>2. (\E c \in Copied : x \in Shards(c)) <=>
         \/ \E i \in Updated : x \in Shards(M(i))
         \/ \E c : IsCopy(c) /\ x \in Shards(c)
  BY CopiedMembers
<1>3. (\E i \in Updated : x \in Shards(M(i))) <=> IsTaskShard(x)
  BY ShardsOfTask DEF IsTaskShard
<1>4. (\E c : IsCopy(c) /\ x \in Shards(c)) <=>
        \E i, s, j, t : Moves(i, s, j, t) /\ x \in Shards(Copy(i.outs[s], Home(i, s), Home(j, t)))
  BY DEF IsCopy
<1>5. \A i, s, j, t : Moves(i, s, j, t) =>
        Shards(Copy(i.outs[s], Home(i, s), Home(j, t)))
          = {CopyShard(i.outs[s], Home(i, s), Home(j, t), q) : q \in DOMAIN Home(i, s)}
  BY MovesFacts, ShardsOfCopy
<1>6. (\E c : IsCopy(c) /\ x \in Shards(c)) <=> IsCopyShard(x)
  <2>1. ASSUME IsCopyShard(x)
        PROVE  \E i, s, j, t : Moves(i, s, j, t) /\ x \in Shards(Copy(i.outs[s], Home(i, s), Home(j, t)))
    <3>1. PICK i, s, j, t, q : /\ Moves(i, s, j, t) /\ q \in DOMAIN Home(i, s)
                               /\ x = CopyShard(i.outs[s], Home(i, s), Home(j, t), q)
      BY <2>1 DEF IsCopyShard
    <3>2. x \in {CopyShard(i.outs[s], Home(i, s), Home(j, t), e) : e \in DOMAIN Home(i, s)}
      BY <3>1
    <3> QED BY <1>5, <3>1, <3>2
  <2>2. ASSUME NEW i, NEW s, NEW j, NEW t, Moves(i, s, j, t),
               x \in Shards(Copy(i.outs[s], Home(i, s), Home(j, t)))
        PROVE  IsCopyShard(x)
    <3>1. x \in {CopyShard(i.outs[s], Home(i, s), Home(j, t), e) : e \in DOMAIN Home(i, s)}
      BY <1>5, <2>2
    <3>2. PICK q \in DOMAIN Home(i, s) : x = CopyShard(i.outs[s], Home(i, s), Home(j, t), q)
      BY <3>1
    <3> QED BY <2>2, <3>2 DEF IsCopyShard
  <2> QED BY <1>4, <2>1, <2>2
<1> QED BY <1>1, <1>2, <1>3, <1>6

(***************************************************************************)
(* Every shard is there, once.                                             *)
(***************************************************************************)
LEMMA Counted ==
  ASSUME NEW A, IsFiniteSet(A), NEW f, DOMAIN f = A, \A a, b \in A : f[a] = f[b] => a = b,
         NEW S, S = {f[a] : a \in A}
  PROVE  IsFiniteSet(S) /\ Cardinality(S) = Cardinality(A)
<1> DEFINE g == [a \in A |-> f[a]]
<1>1. g \in [A -> S] /\ (\A a, b \in A : g[a] = g[b] => a = b) /\ \A e \in S : \E a \in A : g[a] = e
  OBVIOUS
<1>2. g \in Bijection(A, S)
  <2> HIDE DEF g
  <2> QED BY <1>1 DEF Bijection, Injection, Surjection, IsInjective
<1>3. ExistsBijection(A, S)
  BY <1>2 DEF ExistsBijection
<1> QED BY <1>3, FS_Bijection

\* The task types of a layer, and its task of a type.
TaskTypes(k) ==
  {"FWD"} \cup (IF InGradientPath[k] THEN {"BWD"} ELSE {})
          \cup (IF source.layers[k].op = "weight" THEN {"UPD"} ELSE {})
TaskOf(k, t) == IF t = "FWD" THEN Fwd(k) ELSE IF t = "BWD" THEN Bwd(k) ELSE Upd(k)

LEMMA TheTask ==
  ASSUME source \in SourceGraphs, NEW k \in Layer, NEW t \in TaskTypes(k)
  PROVE  /\ TaskOf(k, t) \in Updated
         /\ TaskOf(k, t).guid = k /\ TaskOf(k, t).task = t /\ TaskOf(k, t).op = Op(k)
         /\ TaskOf(k, t).devices = {} /\ TaskOf(k, t) # Loss
         /\ \A i \in Updated : i.guid = k /\ i.task = t => i = TaskOf(k, t)
<1>1. /\ t = "FWD" \/ (t = "BWD" /\ k \in Differentiated) \/ (t = "UPD" /\ k \in Weights)
  BY DEF TaskTypes, Differentiated, InPath, Weights, Op
<1>2. TaskOf(k, t) \in Updated
  BY <1>1, UpdatedMembers DEF IsTask, TaskOf
<1>3. /\ TaskOf(k, t).guid = k /\ TaskOf(k, t).task = t /\ TaskOf(k, t).op = Op(k)
      /\ TaskOf(k, t).devices = {} /\ TaskOf(k, t) # Loss
  BY <1>1, FwdFacts, BwdFacts, UpdFacts, LossFacts DEF TaskOf
<1>4. ASSUME NEW i \in Updated, i.guid = k, i.task = t
      PROVE  i = TaskOf(k, t)
  <2>1. i # Loss
    <3>1. k \in Nat
      BY LayersAreNumbers
    <3> QED BY <3>1, <1>4, LossFacts, IdentitiesAssumption
  <2>2. CASE \E j \in Layer : i = Fwd(j)
    BY <1>4, <2>2, FwdFacts DEF TaskOf
  <2>3. CASE \E j \in Differentiated : i = Bwd(j)
    BY <1>4, <2>3, BwdFacts, SubsetsOfLayer DEF TaskOf
  <2>4. CASE \E j \in Weights : i = Upd(j)
    BY <1>4, <2>4, UpdFacts, SubsetsOfLayer DEF TaskOf
  <2> QED BY <2>1, <2>2, <2>3, <2>4, UpdatedMembers DEF IsTask
<1> QED BY <1>2, <1>3, <1>4

LEMMA ShardsOfLayer ==
  ASSUME source \in SourceGraphs, Resolved, NEW k \in Layer, NEW t \in TaskTypes(k)
  PROVE  {x \in Sharded : x.guid = k /\ x.task = t}
           = {Shard(TaskOf(k, t), p) : p \in ShardNumbers(TaskOf(k, t))}
<1> DEFINE i == TaskOf(k, t)
<1>1. i \in Updated /\ i.guid = k /\ i.task = t /\ \A j \in Updated : j.guid = k /\ j.task = t => j = i
  BY TheTask
<1> HIDE DEF i
<1>2. ASSUME NEW x \in Sharded, x.guid = k, x.task = t
      PROVE  \E p \in ShardNumbers(i) : x = Shard(i, p)
  <2>1. CASE IsCopyShard(x)
    <3>1. x.guid = CopyGuid
      BY <2>1, CopyShardFields DEF IsCopyShard
    <3> QED BY <1>2, <3>1, LayersAreNumbers, IdentitiesAssumption
  <2>2. CASE IsTaskShard(x)
    <3>1. PICK j \in Updated : \E p \in ShardNumbers(j) : x = Shard(j, p)
      BY <2>2 DEF IsTaskShard
    <3>2. j.guid = k /\ j.task = t
      BY <1>2, <3>1, ShardsOfTask DEF IsShard
    <3> QED BY <1>1, <3>1, <3>2
  <2> QED BY <2>1, <2>2, ShardedMembers
<1>3. ASSUME NEW p \in ShardNumbers(i)
      PROVE  Shard(i, p) \in Sharded /\ Shard(i, p).guid = k /\ Shard(i, p).task = t
  <2>1. IsShard(Shard(i, p), i, p)
    BY <1>1, ShardsOfTask
  <2>2. IsTaskShard(Shard(i, p))
    BY <1>1 DEF IsTaskShard
  <2> QED BY <1>1, <2>1, <2>2, ShardedMembers DEF IsShard
<1>4. \A x : x \in {y \in Sharded : y.guid = k /\ y.task = t} <=> x \in {Shard(i, p) : p \in ShardNumbers(i)}
  BY <1>2, <1>3
<1> QED BY <1>4 DEF i

-------------------------------------------------------------------------------
LEMMA LoweredGraph ==
  ASSUME IInv, Lowered
  PROVE  /\ source \in SourceGraphs
         /\ Local => graph = Updated
         /\ ~Local => graph = Sharded /\ Resolved
         /\ MappingsFit
<1>1. /\ source \in SourceGraphs
      /\ Local => graph = Updated
      /\ ~Local => graph = Sharded /\ Resolved /\ \A x \in Copied : ShardsAgree(x)
  BY DEF IInv, Lowered, GraphAtStage, CopiedOK, ShardedOK, Resolved
<1> QED BY <1>1, FittedIfAgreed, LocalFits

\* The devices of a shard of a task.
ShardDevices(i, p) == IF i.op = "replicate" THEN DevicesFor(i, p) ELSE {p}

LEMMA SlotFacts ==
  ASSUME source \in SourceGraphs, NEW i \in Updated, NEW s, s \in DOMAIN i.ins \cup DOMAIN i.outs
  PROVE  \E name, r : s = P(name, r)
<1>1. CASE s \in DOMAIN i.ins
  <2>1. ReadsAt(i, s, i.ins[s])
    BY <1>1, TaskReads
  <2> QED BY <2>1 DEF ReadsAt
<1>2. CASE s \in DOMAIN i.outs
  <2>1. MakesAt(i, s, i.outs[s])
    BY <1>2, TaskMakes
  <2> QED BY <2>1 DEF MakesAt
<1> QED BY <1>1, <1>2

\* The slots of a shard of a task: what they have is on its devices, and what the
\* mapping gives those.
LEMMA SlotOfShard ==
  ASSUME source \in SourceGraphs, Resolved, NEW i \in Updated, NEW s, s \in DOMAIN i.ins \cup DOMAIN i.outs,
         NEW p \in ShardNumbers(i), NEW q \in CoordsAt(i, p, s), NEW t, t = SlotOf(i, s, q)
  PROVE  /\ q \in DOMAIN Home(i, s)
         /\ i.op # "replicate" => Home(i, s)[q] = p
         /\ t.shard # "none" => t.shard = Home(i, s)[q] /\ t.shard \in ShardDevices(i, p)
         /\ \A d \in ShardDevices(i, p) : t.shard \in {"none", d} => i.mapping[d][t.name] = q
<1>1. q \in DOMAIN Home(i, s) /\ p = NumberOf(i, s, q)
  BY NumbersOfHome
<1>2. s.shard = "none" /\ \E name, r : s = P(name, r)
  BY SlotNames, SlotFacts
<1>3. CASE i.op # "replicate"
  <2>1. t = s /\ q = i.mapping[p][s.name] /\ ShardDevices(i, p) = {p} /\ Home(i, s)[q] = p
    BY <1>1, <1>3 DEF SlotOf, CoordsAt, ShardDevices, NumberOf
  <2> QED BY <1>1, <1>2, <1>3, <2>1
<1>4. CASE IsWhole(i, s)
  <2>1. i.op = "replicate" /\ s.name = "INPUT"
    BY <1>4 DEF IsWhole
  <2>2. t = s /\ q = p /\ ShardDevices(i, p) = {d \in DOMAIN i.mapping : i.mapping[d]["INPUT"] = p}
    BY <1>4, <2>1 DEF SlotOf, CoordsAt, ShardDevices, DevicesFor
  <2> QED BY <1>1, <1>2, <2>1, <2>2
<1>5. CASE i.op = "replicate" /\ ~IsWhole(i, s)
  <2> DEFINE e == Home(i, s)[q]
  <2>1. t = [s EXCEPT !.shard = e] /\ i.mapping[e]["INPUT"] = p
    BY <1>5 DEF SlotOf, CoordsAt
  <2>2. e \in DOMAIN i.mapping /\ i.mapping[e][s.name] = q
    BY <1>1, <1>5, PlacesFacts DEF Home
  <2> HIDE DEF e
  <2>3. t.shard = e /\ t.name = s.name
    BY <1>2, <2>1 DEF P
  <2>4. e \in ShardDevices(i, p)
    BY <1>5, <2>1, <2>2 DEF ShardDevices, DevicesFor
  <2>5. e # "none"
    BY <2>2, TaskMapping DEF IsMapping
  <2> QED BY <1>1, <1>5, <2>2, <2>3, <2>4, <2>5 DEF e
<1> QED BY <1>3, <1>4, <1>5

\* Every shard of a task is there exactly once.
THEOREM ShardsRun == Spec => []EveryShardRuns
<1>1. ASSUME IInv PROVE EveryShardRuns
  <2> DEFINE Tasks(k, t) == {i \in graph : i.guid = k /\ i.task = t}
             Together(k) ==
               IF Local THEN {{}}
               ELSE IF Op(k) = "replicate"
               THEN {{d \in DOMAIN MapOf(k) : MapOf(k)[d]["INPUT"] = c} : c \in ShardsAt(MapOf(k), "INPUT")}
               ELSE {{d} : d \in DOMAIN MapOf(k)}
             Placement(k, x) ==
               \A d \in x.devices, p \in {x.ins, x.outs} :
                 \A s \in {q \in DOMAIN p : q.shard \in {"none", d}} : p[s].coord = MapOf(k)[d][s.name]
  <2>1. ASSUME Lowered, NEW k \in Layer, NEW t \in TaskTypes(k)
        PROVE  /\ {i.devices : i \in Tasks(k, t)} = Together(k)
               /\ Cardinality(Tasks(k, t)) = Cardinality(Together(k))
               /\ \A i \in Tasks(k, t) : Placement(k, i)
    <3> DEFINE i == TaskOf(k, t)
               T == Tasks(k, t)
               E == Together(k)
    <3>1. source \in SourceGraphs /\ MappingsFit
      BY <1>1, <2>1, LoweredGraph
    <3>2. /\ i \in Updated /\ i.guid = k /\ i.task = t /\ i.op = Op(k) /\ i.devices = {} /\ i # Loss
          /\ \A j \in Updated : j.guid = k /\ j.task = t => j = i
      BY <3>1, TheTask
    <3>3. i.mapping = MapOf(k)
      BY <3>1, <3>2, TaskMapping
    <3> HIDE DEF i
    <3>4. CASE Local
      <4>1. T = {i}
        BY <1>1, <2>1, <3>2, <3>4, LoweredGraph
      <4>2. E = {{}}
        BY <3>4
      <4>3. \A j \in T : Placement(k, j)
        BY <3>2, <4>1
      <4> HIDE DEF T, E, Placement
      <4>4. {j.devices : j \in T} = E
        BY <3>2, <4>1, <4>2
      <4>5. Cardinality(T) = Cardinality(E)
        BY <4>1, <4>2, FS_Singleton
      <4> QED BY <4>3, <4>4, <4>5 DEF T, E
    <3>5. CASE ~Local
      <4> DEFINE A == ShardNumbers(i)
      <4>1. graph = Sharded /\ Resolved
        BY <1>1, <2>1, <3>5, LoweredGraph
      <4>2. T = {Shard(i, p) : p \in A}
        BY <3>1, <4>1, ShardsOfLayer DEF i
      <4>3. \A p \in A : IsShard(Shard(i, p), i, p)
        BY <3>1, <3>2, <4>1, ShardsOfTask
      <4>4. \A p \in A : Shard(i, p).devices = ShardDevices(i, p)
        BY <4>3 DEF IsShard, ShardDevices
      <4>5. IsFiniteSet(A) /\ E = {ShardDevices(i, p) : p \in A}
            /\ \A p, q \in A : ShardDevices(i, p) = ShardDevices(i, q) => p = q
        <5>1. IsMapping(source.backend, MapOf(k), Names(k))
          BY <3>1, NamesFacts
        <5>2. CASE Op(k) = "replicate"
          <6>1. DOMAIN Args(k) = {1} /\ Args(k)[1] \in Layer /\ ArgumentSlot[1] = "INPUT"
            BY <3>1, <5>2, LayerFacts DEF ArgumentSlot
          <6>2. A = DOMAIN Dev(Args(k)[1])
            BY <3>2, <5>2 DEF ShardNumbers
          <6>3. ShardsAt(MapOf(k), "INPUT") = ShardsAt(MapOf(Args(k)[1]), "OUTPUT")
            BY <3>1, <6>1, FitFacts
          <6>4. A = ShardsAt(MapOf(k), "INPUT") /\ IsFiniteSet(A)
            BY <3>1, <6>1, <6>2, <6>3, DeviceFacts DEF IsDevices
          <6>5. \A p : ShardDevices(i, p) = {d \in DOMAIN MapOf(k) : MapOf(k)[d]["INPUT"] = p}
            BY <3>2, <3>3, <5>2 DEF ShardDevices, DevicesFor
          <6>6. E = {ShardDevices(i, p) : p \in A}
            BY <3>5, <5>2, <6>4, <6>5
          <6>7. \A p, q \in A : ShardDevices(i, p) = ShardDevices(i, q) => p = q
            <7> TAKE p, q \in A
            <7>1. PICK d \in DOMAIN MapOf(k) : MapOf(k)[d]["INPUT"] = p
              BY <6>4 DEF ShardsAt
            <7> QED BY <6>5, <7>1
          <6> QED BY <6>4, <6>6, <6>7
        <5>3. CASE Op(k) # "replicate"
          <6>1. A = DOMAIN MapOf(k) /\ \A p : ShardDevices(i, p) = {p}
            BY <3>2, <3>3, <5>3 DEF ShardNumbers, ShardDevices
          <6>2. E = {{d} : d \in DOMAIN MapOf(k)}
            BY <3>5, <5>3
          <6>3. IsFiniteSet(DOMAIN MapOf(k))
            BY <5>1 DEF IsMapping
          <6>4. E = {ShardDevices(i, p) : p \in A}
            BY <6>1, <6>2
          <6>5. \A p, q \in A : ShardDevices(i, p) = ShardDevices(i, q) => p = q
            BY <6>1
          <6> QED BY <6>1, <6>3, <6>4, <6>5
        <5> QED BY <5>2, <5>3
      <4>6. ASSUME NEW x \in T
            PROVE  Placement(k, x)
        <5> SUFFICES ASSUME NEW d \in x.devices, NEW u \in {x.ins, x.outs}, NEW s \in DOMAIN u,
                            s.shard \in {"none", d}
                     PROVE  u[s].coord = MapOf(k)[d][s.name]
          OBVIOUS
        <5>1. PICK p \in A : x = Shard(i, p)
          BY <4>2
        <5>2. IsShard(x, i, p) /\ d \in ShardDevices(i, p)
          BY <4>3, <4>4, <5>1
        <5> HIDE DEF T, E, A, Placement
        <5>3. CASE u = x.ins
          <6>1. PICK w \in DOMAIN i.ins : \E q \in CoordsAt(i, p, w) : s = SlotOf(i, w, q)
            BY <5>2, <5>3 DEF IsShard
          <6>2. PICK q \in CoordsAt(i, p, w) : s = SlotOf(i, w, q)
            BY <6>1
          <6>3. u[s] = W(i.ins[w], Home(i, w), q)
            BY <5>2, <5>3, <6>2 DEF IsShard
          <6>4. u[s].coord = q
            BY <3>1, <3>2, <6>3, PortsOfTasks, PlacedFields
          <6>5. i.mapping[d][s.name] = q
            BY <3>1, <3>2, <4>1, <5>2, <6>2, SlotOfShard DEF A
          <6> QED BY <3>3, <6>4, <6>5
        <5>4. CASE u = x.outs
          <6>1. PICK w \in DOMAIN i.outs : \E q \in CoordsAt(i, p, w) : s = SlotOf(i, w, q)
            BY <5>2, <5>4 DEF IsShard
          <6>2. PICK q \in CoordsAt(i, p, w) : s = SlotOf(i, w, q)
            BY <6>1
          <6>3. u[s] = W(i.outs[w], Home(i, w), q)
            BY <5>2, <5>4, <6>2 DEF IsShard
          <6>4. u[s].coord = q
            BY <3>1, <3>2, <6>3, PortsOfTasks, PlacedFields
          <6>5. i.mapping[d][s.name] = q
            BY <3>1, <3>2, <4>1, <5>2, <6>2, SlotOfShard DEF A
          <6> QED BY <3>3, <6>4, <6>5
        <5> QED BY <5>3, <5>4
      <4> HIDE DEF T, E, A, Placement
      <4>7. {j.devices : j \in T} = E
        <5>1. \A j \in T : j.devices \in E
          BY <4>2, <4>4, <4>5
        <5>2. \A e \in E : \E j \in T : j.devices = e
          <6> TAKE e \in E
          <6>1. PICK p \in A : e = ShardDevices(i, p)
            BY <4>5
          <6>2. Shard(i, p) \in T /\ Shard(i, p).devices = e
            BY <4>2, <4>4, <6>1
          <6> QED BY <6>2
        <5> QED BY <5>1, <5>2
      <4>8. Cardinality(T) = Cardinality(A)
        <5> DEFINE f == [p \in A |-> Shard(i, p)]
        <5>1. DOMAIN f = A /\ \A a, b \in A : f[a] = f[b] => a = b
          BY <4>4, <4>5
        <5>2. T = {f[p] : p \in A}
          BY <4>2
        <5> HIDE DEF f
        <5> QED BY <4>5, <5>1, <5>2, Counted
      <4>9. Cardinality(E) = Cardinality(A)
        <5> DEFINE f == [p \in A |-> ShardDevices(i, p)]
        <5>1. DOMAIN f = A /\ \A a, b \in A : f[a] = f[b] => a = b
          BY <4>5
        <5>2. E = {f[p] : p \in A}
          BY <4>5
        <5> HIDE DEF f
        <5> QED BY <4>5, <5>1, <5>2, Counted
      <4> QED BY <4>6, <4>7, <4>8, <4>9 DEF T, E
    <3> QED BY <3>4, <3>5
  <2> HIDE DEF Placement, Together, Tasks
  <2>2. \A k : ShardsAt(source.layers[k].mapping, "INPUT") = ShardsAt(MapOf(k), "INPUT")
    BY DEF MapOf
  <2> QED BY <2>1, Zenon DEF EveryShardRuns, TaskTypes, Op, MapOf, Placement, Together, Tasks
<1> QED BY <1>1, Inductive, PTL

(***************************************************************************)
(* Tasks stay on their devices.                                            *)
(***************************************************************************)
\* Every task has a port.
LEMMA SomePort ==
  ASSUME source \in SourceGraphs, NEW i \in Updated
  PROVE  DOMAIN i.ins # {} \/ DOMAIN i.outs # {}
<1>1. \A k \in Layer : P("OUTPUT", "fwd") \in DOMAIN Fwd(k).outs
  <2> TAKE k \in Layer
  <2>1. Fwd(k).outs = OutPort(k, "fwd")
    BY FwdFacts
  <2> QED BY <2>1, OutPortFacts
<1>2. \A k \in Differentiated : P("OUTPUT", "grad") \in DOMAIN Bwd(k).ins
  <2> TAKE k \in Differentiated
  <2>1. ReadsAt(Bwd(k), P("OUTPUT", "grad"), V(k, "grad"))
    BY DEF ReadsAt
  <2> QED BY <2>1, ReadsTask
<1>3. \A k \in Weights : P("OUTPUT", "fwd") \in DOMAIN Upd(k).ins
  <2> TAKE k \in Weights
  <2>1. ReadsAt(Upd(k), P("OUTPUT", "fwd"), V(k, "fwd"))
    BY DEF ReadsAt, UpdateRoles
  <2> QED BY <2>1, ReadsTask
<1> QED BY <1>1, <1>2, <1>3, LossFacts, UpdatedMembers DEF IsTask

\* A task touches only what its own devices hold, and a copy changes nothing but
\* the mapping.
THEOREM AccessIsLocal == Spec => []LocalAccess
<1>1. ASSUME IInv PROVE LocalAccess
  <2> DEFINE Here(x) == {DeviceOf(v, v.coord) : v \in Values(x.ins) \cup Values(x.outs)}
  <2> SUFFICES ASSUME Lowered, ~Local, NEW x \in graph
               PROVE  /\ x.op \notin {"copy", "replicate"} => Here(x) = x.devices /\ Cardinality(Here(x)) = 1
                      /\ x.op = "replicate" =>
                           \A p \in {x.ins, x.outs} : \A s \in DOMAIN p :
                             s.shard # "none" => DeviceOf(p[s], p[s].coord) = s.shard /\ s.shard \in x.devices
                      /\ x.op = "copy" =>
                           \A v \in Values(x.ins), w \in Values(x.outs) :
                             v.mapping # w.mapping /\ [v EXCEPT !.mapping = w.mapping] = w
    BY DEF LocalAccess
  <2>1. source \in SourceGraphs /\ graph = Sharded /\ Resolved
    BY <1>1, LoweredGraph
  <2>2. ASSUME NEW i \in Updated, NEW p \in ShardNumbers(i), x = Shard(i, p)
        PROVE  /\ x.op = i.op /\ i.op # "copy"
               /\ \A q, s : q \in DOMAIN Home(i, s) =>
                    /\ s \in DOMAIN i.ins => DeviceOf(W(i.ins[s], Home(i, s), q), q) = Home(i, s)[q]
                    /\ s \in DOMAIN i.outs => DeviceOf(W(i.outs[s], Home(i, s), q), q) = Home(i, s)[q]
    <3>1. x.op = i.op
      BY <2>1, <2>2, ShardsOfTask DEF IsShard
    <3>2. i.op # "copy"
      BY <2>1, TaskMapping
    <3>3. ASSUME NEW s \in DOMAIN i.ins, NEW q \in DOMAIN Home(i, s)
          PROVE  DeviceOf(W(i.ins[s], Home(i, s), q), q) = Home(i, s)[q]
      <4>1. W(i.ins[s], Home(i, s), q).mapping = PlaceOf(Home(i, s)) /\ IsDevices(Home(i, s))
        BY <2>1, PortsOfTasks, PlacedFields
      <4> QED BY <4>1, PlaceFacts
    <3>4. ASSUME NEW s \in DOMAIN i.outs, NEW q \in DOMAIN Home(i, s)
          PROVE  DeviceOf(W(i.outs[s], Home(i, s), q), q) = Home(i, s)[q]
      <4>1. W(i.outs[s], Home(i, s), q).mapping = PlaceOf(Home(i, s)) /\ IsDevices(Home(i, s))
        BY <2>1, PortsOfTasks, PlacedFields
      <4> QED BY <4>1, PlaceFacts
    <3> QED BY <3>1, <3>2, <3>3, <3>4
  <2>3. ASSUME NEW i \in Updated, NEW p \in ShardNumbers(i), x = Shard(i, p), i.op # "replicate"
        PROVE  Here(x) = x.devices /\ Cardinality(Here(x)) = 1
    <3>1. IsShard(x, i, p)
      BY <2>1, <2>3, ShardsOfTask
    <3>2. x.devices = {p}
      BY <2>3, <3>1 DEF IsShard
    <3>3. ASSUME NEW t \in DOMAIN x.ins PROVE DeviceOf(x.ins[t], x.ins[t].coord) = p
      <4>1. PICK s \in DOMAIN i.ins : \E q \in CoordsAt(i, p, s) : t = SlotOf(i, s, q)
        BY <3>1, <3>3 DEF IsShard
      <4>2. PICK q \in CoordsAt(i, p, s) : t = SlotOf(i, s, q)
        BY <4>1
      <4>3. x.ins[t] = W(i.ins[s], Home(i, s), q)
        BY <3>1, <4>2 DEF IsShard
      <4>4. x.ins[t].coord = q
        BY <2>1, <4>3, PortsOfTasks, PlacedFields
      <4>5. q \in DOMAIN Home(i, s) /\ Home(i, s)[q] = p
        BY <2>1, <2>3, <4>2, SlotOfShard
      <4> QED BY <2>2, <2>3, <4>3, <4>4, <4>5
    <3>4. ASSUME NEW t \in DOMAIN x.outs PROVE DeviceOf(x.outs[t], x.outs[t].coord) = p
      <4>1. PICK s \in DOMAIN i.outs : \E q \in CoordsAt(i, p, s) : t = SlotOf(i, s, q)
        BY <3>1, <3>4 DEF IsShard
      <4>2. PICK q \in CoordsAt(i, p, s) : t = SlotOf(i, s, q)
        BY <4>1
      <4>3. x.outs[t] = W(i.outs[s], Home(i, s), q)
        BY <3>1, <4>2 DEF IsShard
      <4>4. x.outs[t].coord = q
        BY <2>1, <4>3, PortsOfTasks, PlacedFields
      <4>5. q \in DOMAIN Home(i, s) /\ Home(i, s)[q] = p
        BY <2>1, <2>3, <4>2, SlotOfShard
      <4> QED BY <2>2, <2>3, <4>3, <4>4, <4>5
    <3>5. DOMAIN x.ins # {} \/ DOMAIN x.outs # {}
      <4>1. \A s : CoordsAt(i, p, s) # {} /\ \A q : SlotOf(i, s, q) = s
        BY <2>3 DEF CoordsAt, SlotOf
      <4>2. \A s \in DOMAIN i.ins : s \in DOMAIN x.ins
        BY <3>1, <4>1 DEF IsShard
      <4>3. \A s \in DOMAIN i.outs : s \in DOMAIN x.outs
        BY <3>1, <4>1 DEF IsShard
      <4> QED BY <2>1, <4>2, <4>3, SomePort
    <3>6. Here(x) = {p}
      <4>1. \A v \in Values(x.ins) \cup Values(x.outs) : DeviceOf(v, v.coord) = p
        BY <3>3, <3>4 DEF Values, Range
      <4>2. Values(x.ins) \cup Values(x.outs) # {}
        <5>1. \A s \in DOMAIN x.ins : x.ins[s] \in Values(x.ins)
          BY DEF Values, Range
        <5>2. \A s \in DOMAIN x.outs : x.outs[s] \in Values(x.outs)
          BY DEF Values, Range
        <5> QED BY <3>5, <5>1, <5>2
      <4> QED BY <4>1, <4>2
    <3> HIDE DEF Here
    <3> QED BY <3>2, <3>6, FS_Singleton
  <2>4. ASSUME NEW i \in Updated, NEW p \in ShardNumbers(i), x = Shard(i, p), i.op = "replicate",
               NEW t, t.shard # "none"
        PROVE  /\ t \in DOMAIN x.ins => DeviceOf(x.ins[t], x.ins[t].coord) = t.shard /\ t.shard \in x.devices
               /\ t \in DOMAIN x.outs => DeviceOf(x.outs[t], x.outs[t].coord) = t.shard /\ t.shard \in x.devices
    <3>1. IsShard(x, i, p)
      BY <2>1, <2>4, ShardsOfTask
    <3>2. x.devices = ShardDevices(i, p)
      BY <3>1, Zenon DEF IsShard, ShardDevices
    <3>3. ASSUME NEW s, s \in DOMAIN i.ins \cup DOMAIN i.outs, NEW q \in CoordsAt(i, p, s), t = SlotOf(i, s, q)
          PROVE  t.shard = Home(i, s)[q] /\ t.shard \in x.devices /\ q \in DOMAIN Home(i, s)
      BY <2>1, <2>4, <3>3, <3>2, SlotOfShard
    <3>4. ASSUME t \in DOMAIN x.ins
          PROVE  DeviceOf(x.ins[t], x.ins[t].coord) = t.shard /\ t.shard \in x.devices
      <4>1. PICK s \in DOMAIN i.ins : \E q \in CoordsAt(i, p, s) : t = SlotOf(i, s, q)
        BY <3>1, <3>4 DEF IsShard
      <4>2. PICK q \in CoordsAt(i, p, s) : t = SlotOf(i, s, q)
        BY <4>1
      <4>3. x.ins[t] = W(i.ins[s], Home(i, s), q)
        BY <3>1, <4>2 DEF IsShard
      <4>4. x.ins[t].coord = q
        BY <2>1, <4>3, PortsOfTasks, PlacedFields
      <4> QED BY <2>2, <2>4, <3>3, <4>2, <4>3, <4>4
    <3>5. ASSUME t \in DOMAIN x.outs
          PROVE  DeviceOf(x.outs[t], x.outs[t].coord) = t.shard /\ t.shard \in x.devices
      <4>1. PICK s \in DOMAIN i.outs : \E q \in CoordsAt(i, p, s) : t = SlotOf(i, s, q)
        BY <3>1, <3>5 DEF IsShard
      <4>2. PICK q \in CoordsAt(i, p, s) : t = SlotOf(i, s, q)
        BY <4>1
      <4>3. x.outs[t] = W(i.outs[s], Home(i, s), q)
        BY <3>1, <4>2 DEF IsShard
      <4>4. x.outs[t].coord = q
        BY <2>1, <4>3, PortsOfTasks, PlacedFields
      <4> QED BY <2>2, <2>4, <3>3, <4>2, <4>3, <4>4
    <3> QED BY <3>4, <3>5
  <2>5. ASSUME IsCopyShard(x)
        PROVE  /\ x.op = "copy"
               /\ \A v \in Values(x.ins), w \in Values(x.outs) :
                    v.mapping # w.mapping /\ [v EXCEPT !.mapping = w.mapping] = w
    <3>1. PICK i, s, j, t, q : /\ Moves(i, s, j, t) /\ q \in DOMAIN Home(i, s)
                               /\ x = CopyShard(i.outs[s], Home(i, s), Home(j, t), q)
      BY <2>5 DEF IsCopyShard
    <3> DEFINE u == i.outs[s]
               v == W(u, Home(i, s), q)
               w == W(u, Home(j, t), q)
    <3>2. IsValue(u) /\ PlaceOf(Home(i, s)) # PlaceOf(Home(j, t))
      BY <2>1, <3>1, MovesFacts DEF Moves
    <3>3. x.op = "copy" /\ Values(x.ins) = {v} /\ Values(x.outs) = {w}
      BY <3>1, CopyShardFields DEF Values, Range
    <3> HIDE DEF u
    <3>4. /\ IsValue(v) /\ IsValue(w) /\ v.tensor = w.tensor /\ v.grad = w.grad /\ v.role = w.role
          /\ v.coord = w.coord /\ v.mapping # w.mapping
      BY <3>2, PlacedFields
    <3> HIDE DEF v, w
    <3>5. [v EXCEPT !.mapping = w.mapping] = w
      BY <3>4 DEF IsValue
    <3> QED BY <3>3, <3>4, <3>5
  <2>6. IsTaskShard(x) \/ IsCopyShard(x)
    BY <2>1, ShardedMembers
  <2>7. CASE IsTaskShard(x)
    <3>1. PICK i \in Updated : \E p \in ShardNumbers(i) : x = Shard(i, p)
      BY <2>7 DEF IsTaskShard
    <3>2. PICK p \in ShardNumbers(i) : x = Shard(i, p)
      BY <3>1
    <3>3. x.op = i.op /\ i.op # "copy"
      BY <2>2, <3>2
    <3> HIDE DEF Here
    <3>4. CASE i.op = "replicate"
      BY <2>4, <3>2, <3>3, <3>4
    <3>5. CASE i.op # "replicate"
      BY <2>3, <3>2, <3>3, <3>5
    <3> QED BY <3>4, <3>5
  <2> HIDE DEF Here
  <2> QED BY <2>5, <2>6, <2>7
<1> QED BY <1>1, Inductive, PTL

-------------------------------------------------------------------------------
(***************************************************************************)
(* Finite sets.                                                            *)
(***************************************************************************)
LEMMA LayerFinite ==
  ASSUME source \in SourceGraphs
  PROVE  IsFiniteSet(Layer) /\ Cardinality(Layer) = Last
<1>1. Last \in Nat /\ Layer = 1..Last
  BY SourceFacts
<1>2. IsFiniteSet(1..Last) /\ Cardinality(1..Last) = IF 1 > Last THEN 0 ELSE Last - 1 + 1
  BY <1>1, FS_Interval
<1> QED BY <1>1, <1>2

LEMMA UpdatedFinite ==
  ASSUME source \in SourceGraphs
  PROVE  IsFiniteSet(Updated)
<1> DEFINE Kinds == {"FWD", "BWD", "UPD", "LOSS"}
           D == Layer \X Kinds
           f == [x \in D |-> IF x[2] = "FWD" THEN Fwd(x[1]) ELSE IF x[2] = "BWD" THEN Bwd(x[1])
                             ELSE Upd(x[1])]
<1>1. IsFiniteSet(Kinds)
  <2>1. IsFiniteSet({"FWD"}) /\ IsFiniteSet({"BWD"}) /\ IsFiniteSet({"UPD"}) /\ IsFiniteSet({"LOSS"})
    BY FS_Singleton
  <2>2. IsFiniteSet({"FWD"} \cup {"BWD"}) /\ IsFiniteSet({"UPD"} \cup {"LOSS"})
    BY <2>1, FS_Union
  <2>3. IsFiniteSet(({"FWD"} \cup {"BWD"}) \cup ({"UPD"} \cup {"LOSS"}))
    BY <2>2, FS_Union
  <2>4. Kinds = ({"FWD"} \cup {"BWD"}) \cup ({"UPD"} \cup {"LOSS"})
    OBVIOUS
  <2> QED BY <2>3, <2>4
<1>2. IsFiniteSet(D)
  <2> HIDE DEF Kinds
  <2> QED BY <1>1, LayerFinite, FS_Product
<1>3. \A k \in Layer : <<k, "FWD">> \in D /\ f[<<k, "FWD">>] = Fwd(k)
  OBVIOUS
<1>4. \A k \in Layer : <<k, "BWD">> \in D /\ f[<<k, "BWD">>] = Bwd(k)
  OBVIOUS
<1>5. \A k \in Layer : <<k, "UPD">> \in D /\ f[<<k, "UPD">>] = Upd(k)
  OBVIOUS
<1>6. DOMAIN f = D
  OBVIOUS
<1> HIDE DEF D, f
<1>7. \A y \in Updated \ {Loss} : \E x \in DOMAIN f : y = f[x]
  <2> TAKE y \in Updated \ {Loss}
  <2>1. \/ \E k \in Layer : y = Fwd(k)
        \/ \E k \in Layer : y = Bwd(k)
        \/ \E k \in Layer : y = Upd(k)
    BY UpdatedMembers, SubsetsOfLayer DEF IsTask
  <2>2. CASE \E k \in Layer : y = Fwd(k)
    BY <2>2, <1>3, <1>6
  <2>3. CASE \E k \in Layer : y = Bwd(k)
    BY <2>3, <1>4, <1>6
  <2>4. CASE \E k \in Layer : y = Upd(k)
    BY <2>4, <1>5, <1>6
  <2> QED BY <2>1, <2>2, <2>3, <2>4
<1>8. IsFiniteSet(Updated \ {Loss})
  BY <1>2, <1>6, <1>7, FiniteImage
<1>9. IsFiniteSet((Updated \ {Loss}) \cup {Loss})
  BY <1>8, FS_AddElement
<1> QED BY <1>9, FS_Subset

(***************************************************************************)
(* Every value has one maker.                                              *)
(***************************************************************************)
\* The slots a task may make a value at.
MakerSlots == {"INPUT", "WEIGHT", "OUTPUT", "LOGIT"} \X {"fwd", "grad"}

LEMMA SourcesFinite ==
  ASSUME source \in SourceGraphs, NEW v
  PROVE  IsFiniteSet(Sources(Updated, v))
<1> DEFINE D == Updated \X MakerSlots
           f == [x \in D |-> OutSite(x[1], P(x[2][1], x[2][2]))]
<1>1. IsFiniteSet(MakerSlots)
  <2>1. IsFiniteSet({"INPUT"}) /\ IsFiniteSet({"WEIGHT"}) /\ IsFiniteSet({"OUTPUT"})
        /\ IsFiniteSet({"LOGIT"}) /\ IsFiniteSet({"fwd"}) /\ IsFiniteSet({"grad"})
    BY FS_Singleton
  <2>2. IsFiniteSet({"INPUT"} \cup {"WEIGHT"}) /\ IsFiniteSet({"OUTPUT"} \cup {"LOGIT"})
        /\ IsFiniteSet({"fwd"} \cup {"grad"})
    BY <2>1, FS_Union
  <2>3. IsFiniteSet(({"INPUT"} \cup {"WEIGHT"}) \cup ({"OUTPUT"} \cup {"LOGIT"}))
    BY <2>2, FS_Union
  <2>4. /\ {"INPUT", "WEIGHT", "OUTPUT", "LOGIT"} = ({"INPUT"} \cup {"WEIGHT"}) \cup ({"OUTPUT"} \cup {"LOGIT"})
        /\ {"fwd", "grad"} = {"fwd"} \cup {"grad"}
    OBVIOUS
  <2>5. IsFiniteSet({"INPUT", "WEIGHT", "OUTPUT", "LOGIT"}) /\ IsFiniteSet({"fwd", "grad"})
    BY <2>2, <2>3, <2>4
  <2> QED BY <2>5, FS_Product DEF MakerSlots
<1>2. IsFiniteSet(D)
  BY <1>1, UpdatedFinite, FS_Product
<1>3. DOMAIN f = D /\ \A i \in Updated : \A m \in MakerSlots :
        <<i, m>> \in D /\ f[<<i, m>>] = OutSite(i, P(m[1], m[2]))
  OBVIOUS
<1> HIDE DEF f, D
<1>4. \A t \in Sources(Updated, v) : \E x \in DOMAIN f : t = f[x]
  <2> TAKE t \in Sources(Updated, v)
  <2>1. PICK i \in Updated : \E s \in DOMAIN i.outs : t = OutSite(i, s) /\ i.outs[s] = v
    BY SitesOfValue
  <2>2. PICK s \in DOMAIN i.outs : t = OutSite(i, s) /\ i.outs[s] = v
    BY <2>1
  <2>3. MakesAt(i, s, v)
    BY <2>2, TaskMakes
  <2>4. \E name \in {"INPUT", "WEIGHT", "OUTPUT", "LOGIT"} : \E r \in {"fwd", "grad"} : s = P(name, r)
    <3>1. ASSUME NEW k \in Layer, NEW a \in DOMAIN Args(k)
          PROVE  ArgumentSlot[a] \in {"INPUT", "WEIGHT"}
      BY LayerFacts DEF ArgumentSlot
    <3> QED BY <2>3, <3>1, SubsetsOfLayer DEF MakesAt
  <2>5. PICK name \in {"INPUT", "WEIGHT", "OUTPUT", "LOGIT"}, r \in {"fwd", "grad"} : s = P(name, r)
    BY <2>4
  <2>6. <<name, r>> \in MakerSlots
    BY DEF MakerSlots
  <2>7. f[<<i, <<name, r>>>>] = OutSite(i, P(name, r)) /\ <<i, <<name, r>>>> \in DOMAIN f
    BY <1>3, <2>6
  <2> QED BY <2>2, <2>5, <2>7
<1> QED BY <1>2, <1>3, <1>4, FiniteImage

\* What the validity check says: no value is made twice.
UniqueMakers ==
  \A v, i, s, j, t : MakesAt(i, s, v) /\ MakesAt(j, t, v) => i = j /\ s = t

LEMMA MakersAreUnique ==
  ASSUME source \in SourceGraphs
  PROVE  ProducedAtMostOnce(Updated) <=> UniqueMakers
<1>0. \A v, i, s : MakesAt(i, s, v) => OutSite(i, s) \in Sources(Updated, v) /\ v \in Outputs(Updated)
  <2> TAKE v, i, s
  <2> HAVE MakesAt(i, s, v)
  <2>1. i \in Updated /\ s \in DOMAIN i.outs /\ v = i.outs[s]
    BY MakesTask
  <2>2. OutSite(i, s) \in Sources(Updated, v)
    BY <2>1, SitesOfValue
  <2> QED BY <2>1, <2>2 DEF Outputs, Values, Range
<1>1. ASSUME ProducedAtMostOnce(Updated)
      PROVE  UniqueMakers
  <2> SUFFICES ASSUME NEW v, NEW i, NEW s, NEW j, NEW t, MakesAt(i, s, v), MakesAt(j, t, v)
               PROVE  i = j /\ s = t
    BY DEF UniqueMakers
  <2>1. Cardinality(Sources(Updated, v)) = 1
    BY <1>0, <1>1 DEF ProducedAtMostOnce
  <2>2. PICK x : Sources(Updated, v) = {x}
    BY <2>1, SourcesFinite, FS_Singleton
  <2>3. OutSite(i, s) = OutSite(j, t)
    BY <1>0, <2>2
  <2>4. OutSite(i, s).inv = i /\ OutSite(i, s).slot = s /\ OutSite(j, t).inv = j /\ OutSite(j, t).slot = t
    BY DEF OutSite
  <2> QED BY <2>3, <2>4
<1>2. ASSUME UniqueMakers
      PROVE  ProducedAtMostOnce(Updated)
  <2> SUFFICES ASSUME NEW v \in Outputs(Updated)
               PROVE  \E x : Sources(Updated, v) = {x}
    BY FS_Singleton DEF ProducedAtMostOnce
  <2>1. PICK i \in Updated : \E s \in DOMAIN i.outs : v = i.outs[s]
    BY DEF Outputs, Values, Range
  <2>2. PICK s \in DOMAIN i.outs : v = i.outs[s]
    BY <2>1
  <2>3. MakesAt(i, s, v)
    BY <2>2, TaskMakes
  <2>4. \A x \in Sources(Updated, v) : x = OutSite(i, s)
    <3> TAKE x \in Sources(Updated, v)
    <3>1. PICK j \in Updated : \E t \in DOMAIN j.outs : x = OutSite(j, t) /\ j.outs[t] = v
      BY SitesOfValue
    <3>2. PICK t \in DOMAIN j.outs : x = OutSite(j, t) /\ j.outs[t] = v
      BY <3>1
    <3>3. MakesAt(j, t, v)
      BY <3>2, TaskMakes
    <3> QED BY <1>2, <2>3, <3>2, <3>3 DEF UniqueMakers
  <2>5. Sources(Updated, v) = {OutSite(i, s)}
    BY <1>0, <2>3, <2>4
  <2> QED BY <2>5
<1> QED BY <1>1, <1>2

-------------------------------------------------------------------------------
(***************************************************************************)
(* Who makes what a task reads.                                            *)
(***************************************************************************)
LEMMA UseFacts ==
  ASSUME source \in SourceGraphs, NEW k \in Layer
  PROVE  /\ \A u \in Layer : \A a \in DOMAIN Args(u) :
              Args(u)[a] = k /\ InPath(u) => <<u, a>> \in GradientUses(k)
         /\ k = Logit => <<0, 0>> \in GradientUses(k)
         /\ \A use \in GradientUses(k) :
              \/ use = <<0, 0>> /\ k = Logit
              \/ \E u \in Layer : \E a \in DOMAIN Args(u) :
                   use = <<u, a>> /\ Args(u)[a] = k /\ InPath(u)
<1> DEFINE Uses == {use \in Layer \X DOMAIN ArgumentSlot :
                      /\ use[2] \in DOMAIN source.layers[use[1]].args
                      /\ source.layers[use[1]].args[use[2]] = k
                      /\ InGradientPath[use[1]]}
<1>1. GradientUses(k) = Uses \cup (IF k = source.logit THEN {<<0, 0>>} ELSE {})
  BY DEF GradientUses
<1>2. DOMAIN ArgumentSlot = {1, 2}
  BY DEF ArgumentSlot
<1>3. ASSUME NEW u \in Layer, NEW a \in DOMAIN Args(u), Args(u)[a] = k, InPath(u)
      PROVE  <<u, a>> \in Uses
  <2>1. a \in {1, 2}
    BY LayerFacts
  <2> QED BY <1>2, <1>3, <2>1 DEF Args, InPath
<1>4. ASSUME NEW use \in Uses
      PROVE  \E u \in Layer : \E a \in DOMAIN Args(u) :
                   use = <<u, a>> /\ Args(u)[a] = k /\ InPath(u)
  <2>1. use = <<use[1], use[2]>> /\ use[1] \in Layer
    OBVIOUS
  <2>2. use[2] \in DOMAIN Args(use[1]) /\ Args(use[1])[use[2]] = k /\ InPath(use[1])
    BY DEF Args, InPath
  <2> QED BY <2>1, <2>2
<1> HIDE DEF Uses
<1> QED BY <1>1, <1>3, <1>4 DEF Logit

\* The label, the optimizer's tensors and the gradients nobody computes.
FromNowhere(v) ==
  \/ v.role = "loss" \/ v.role \in OptimizerSlots
  \/ v.role = "grad" /\ GradientUses(v.tensor) = {}

RightMaker(v, j) ==
  /\ v.role = "fwd" => j.guid = v.tensor /\ j.task = "FWD"
  /\ v.role = "grad" =>
       IF v.tensor = source.logit THEN j.task = "LOSS"
       ELSE j.task = "BWD" /\ \E use \in GradientUses(v.tensor) : use[1] = j.guid

LEMMA MakerOfRead ==
  ASSUME source \in SourceGraphs, NEW i, NEW s, NEW v, ReadsAt(i, s, v)
  PROVE  IF FromNowhere(v) THEN \A j, t : ~MakesAt(j, t, v)
         ELSE \E j, t : MakesAt(j, t, v) /\ RightMaker(v, j)
<1>1. CASE v = Label
  <2>1. FromNowhere(v)
    BY <1>1, LabelFacts DEF FromNowhere
  <2>2. \A j, t : ~MakesAt(j, t, v)
    BY <1>1, MadeValues, LabelFacts, LayersAreNumbers
  <2> QED BY <2>1, <2>2
<1>2. CASE \E k \in Layer : \E r \in UpdateRoles : v = V(k, r)
  <2>1. PICK k \in Layer, r \in UpdateRoles : v = V(k, r)
    BY <1>2
  <2>2. v.tensor = k /\ v.role = r
    BY <2>1, ValueFields
  <2>3. OptimizerSlots \cap {"none", "fwd", "grad", "loss"} = {}
    BY IdentitiesAssumption
  <2>4. CASE r = "fwd"
    <3>1. MakesAt(Fwd(k), P("OUTPUT", "fwd"), V(k, "fwd"))
      BY DEF MakesAt
    <3>2. RightMaker(v, Fwd(k))
      BY <2>2, <2>4, FwdFacts DEF RightMaker
    <3>3. ~FromNowhere(v)
      BY <2>2, <2>3, <2>4 DEF FromNowhere
    <3> QED BY <2>1, <2>4, <3>1, <3>2, <3>3
  <2>5. CASE r \in OptimizerSlots
    <3>1. FromNowhere(v)
      BY <2>2, <2>5 DEF FromNowhere
    <3>2. ASSUME NEW j, NEW t, MakesAt(j, t, v) PROVE FALSE
      <4>1. PICK m \in Layer, q \in {"fwd", "grad"} : v = V(m, q)
        BY <3>2, MadeValues
      <4> QED BY <2>2, <2>3, <2>5, <4>1, ValueFields
    <3> QED BY <3>1, <3>2
  <2>6. CASE r = "grad" /\ GradientUses(k) = {}
    <3>1. FromNowhere(v)
      BY <2>2, <2>6 DEF FromNowhere
    <3>2. ASSUME NEW j, NEW t, MakesAt(j, t, v) PROVE FALSE
      <4>1. CASE \E m \in Layer : v = V(m, "fwd")
        BY <2>2, <2>6, <4>1, ValueFields
      <4>2. CASE \E m \in Differentiated : \E a \in DOMAIN Args(m) : v = V(Args(m)[a], "grad")
        <5>1. PICK m \in Differentiated : \E a \in DOMAIN Args(m) : v = V(Args(m)[a], "grad")
          BY <4>2
        <5>2. PICK a \in DOMAIN Args(m) : v = V(Args(m)[a], "grad")
          BY <5>1
        <5>3. Args(m)[a] = k /\ m \in Layer /\ InPath(m)
          BY <2>2, <5>2, ValueFields, SubsetsOfLayer
        <5> QED BY <2>6, <5>3, UseFacts
      <4>3. CASE HasLoss /\ v = V(Logit, "grad")
        <5>1. k = Logit
          BY <2>2, <4>3, ValueFields
        <5> QED BY <2>6, <5>1, UseFacts
      <4> QED BY <3>2, <4>1, <4>2, <4>3 DEF MakesAt
    <3> QED BY <3>1, <3>2
  <2>7. CASE r = "grad" /\ GradientUses(k) # {}
    <3>1. ~FromNowhere(v)
      BY <2>2, <2>3, <2>7 DEF FromNowhere
    <3>2. CASE k = Logit
      <4>1. HasLoss
        BY <3>2, LayerFacts DEF HasLoss, Logit
      <4>2. MakesAt(Loss, P("LOGIT", "grad"), V(Logit, "grad"))
        BY <4>1 DEF MakesAt
      <4>3. RightMaker(v, Loss)
        BY <2>2, <2>7, <3>2, LossFacts DEF RightMaker, Logit
      <4> QED BY <2>1, <2>7, <3>1, <3>2, <4>2, <4>3
    <3>3. CASE k # Logit
      <4>1. PICK use \in GradientUses(k) : TRUE
        BY <2>7
      <4>2. PICK u \in Layer : \E a \in DOMAIN Args(u) : use = <<u, a>> /\ Args(u)[a] = k /\ InPath(u)
        BY <3>3, <4>1, UseFacts
      <4>3. PICK a \in DOMAIN Args(u) : use = <<u, a>> /\ Args(u)[a] = k /\ InPath(u)
        BY <4>2
      <4>4. u \in Differentiated /\ use[1] = u
        BY <4>3, SubsetsOfLayer
      <4>5. MakesAt(Bwd(u), P(ArgumentSlot[a], "grad"), V(Args(u)[a], "grad"))
        BY <4>4 DEF MakesAt
      <4>6. RightMaker(v, Bwd(u))
        BY <2>2, <2>7, <3>3, <4>1, <4>4, BwdFacts DEF RightMaker, Logit
      <4> QED BY <2>1, <2>7, <3>1, <4>3, <4>5, <4>6
    <3> QED BY <3>2, <3>3
  <2> QED BY <2>4, <2>5, <2>6, <2>7 DEF UpdateRoles
<1> QED BY <1>1, <1>2, ReadValues

(***************************************************************************)
(* Looking through copies.                                                 *)
(***************************************************************************)
MakersOf(w) == {i \in graph : w \in Values(i.outs)}

LEMMA ComputedByCases ==
  ASSUME NEW v
  PROVE  /\ MakersOf(v) = {} => ComputedBy(v) = {}
         /\ \A j : MakersOf(v) = {j} /\ j.op # "copy" => ComputedBy(v) = {j}
         /\ \A c, w, j : /\ MakersOf(v) = {c} /\ c.op = "copy" /\ Values(c.ins) = {w}
                         /\ MakersOf(w) = {j}
                         => ComputedBy(v) = {j}
<1> DEFINE One(i) == IF i.op = "copy" THEN UNION {MakersOf(w) : w \in Values(i.ins)} ELSE {i}
<1>1. ComputedBy(v) = UNION {One(i) : i \in MakersOf(v)}
  BY DEF ComputedBy, MakersOf
<1>2. ASSUME NEW j, MakersOf(v) = {j} PROVE ComputedBy(v) = One(j)
  <2> HIDE DEF One
  <2>1. {One(i) : i \in {j}} = {One(j)}
    OBVIOUS
  <2> QED BY <1>1, <1>2, <2>1
<1>3. MakersOf(v) = {} => ComputedBy(v) = {}
  <2> HIDE DEF One
  <2> QED BY <1>1
<1>4. ASSUME NEW c, NEW w, NEW j, c.op = "copy", Values(c.ins) = {w}, MakersOf(w) = {j}
      PROVE  One(c) = {j}
  <2>1. {MakersOf(x) : x \in Values(c.ins)} = {MakersOf(w)}
    BY <1>4
  <2> QED BY <1>4, <2>1
<1> HIDE DEF One
<1>5. \A j : j.op # "copy" => One(j) = {j}
  BY DEF One
<1>6. ASSUME NEW j, MakersOf(v) = {j}, j.op # "copy" PROVE ComputedBy(v) = {j}
  BY <1>2, <1>5, <1>6
<1>7. ASSUME NEW c, NEW w, NEW j, MakersOf(v) = {c}, c.op = "copy", Values(c.ins) = {w}, MakersOf(w) = {j}
      PROVE  ComputedBy(v) = {j}
  <2>1. One(c) = {j}
    BY <1>4, <1>7
  <2> QED BY <1>2, <1>7, <2>1
<1> QED BY <1>3, <1>6, <1>7

-------------------------------------------------------------------------------
(***************************************************************************)
(* The makers of a shard.                                                  *)
(***************************************************************************)
ShardMakers(w) == {x \in Sharded : w \in Values(x.outs)}

\* A shard of a task makes shards of what the task makes, where it makes it.
LEMMA TaskShardMakes ==
  ASSUME source \in SourceGraphs, Resolved, NEW i \in Updated, NEW p \in ShardNumbers(i), NEW w
  PROVE  w \in Values(Shard(i, p).outs) <=>
           \E s \in DOMAIN i.outs : \E q \in CoordsAt(i, p, s) : w = W(i.outs[s], Home(i, s), q)
<1> DEFINE x == Shard(i, p)
<1>1. IsShard(x, i, p)
  BY ShardsOfTask
<1> HIDE DEF x
<1>2. ASSUME w \in Values(x.outs)
      PROVE  \E s \in DOMAIN i.outs : \E q \in CoordsAt(i, p, s) : w = W(i.outs[s], Home(i, s), q)
  <2>1. PICK t \in DOMAIN x.outs : w = x.outs[t]
    BY <1>2 DEF Values, Range
  <2>2. \E s \in DOMAIN i.outs : \E q \in CoordsAt(i, p, s) : t = SlotOf(i, s, q)
    BY <1>1, <2>1 DEF IsShard
  <2> QED BY <1>1, <2>1, <2>2 DEF IsShard
<1>3. ASSUME NEW s \in DOMAIN i.outs, NEW q \in CoordsAt(i, p, s), w = W(i.outs[s], Home(i, s), q)
      PROVE  w \in Values(x.outs)
  <2>1. SlotOf(i, s, q) \in DOMAIN x.outs /\ w = x.outs[SlotOf(i, s, q)]
    BY <1>1, <1>3 DEF IsShard
  <2> QED BY <2>1 DEF Values, Range
<1> QED BY <1>2, <1>3 DEF x

LEMMA CopyShardMakes ==
  ASSUME NEW v, NEW from, NEW to, NEW q
  PROVE  /\ Values(CopyShard(v, from, to, q).outs) = {W(v, to, q)}
         /\ Values(CopyShard(v, from, to, q).ins) = {W(v, from, q)}
         /\ CopyShard(v, from, to, q).op = "copy"
<1> DEFINE x == CopyShard(v, from, to, q)
<1>1. /\ DOMAIN x.ins = {Slot("INPUT")} /\ x.ins[Slot("INPUT")] = W(v, from, q)
      /\ DOMAIN x.outs = {Slot("OUTPUT")} /\ x.outs[Slot("OUTPUT")] = W(v, to, q)
      /\ x.op = "copy"
  BY CopyShardFields
<1> HIDE DEF x
<1> QED BY <1>1 DEF Values, Range, x

\* The values that have no place yet.
IsPlain(v) == IsValue(v) /\ v.coord = 0 /\ v.mapping = {}

LEMMA PlainPorts ==
  ASSUME source \in SourceGraphs, NEW i, NEW s, NEW v
  PROVE  /\ ReadsAt(i, s, v) => IsPlain(v)
         /\ MakesAt(i, s, v) => IsPlain(v)
BY ReadsTask, MakesTask, PortsOfTasks DEF IsPlain

LEMMA PlainShards ==
  ASSUME NEW v, NEW w, IsPlain(v), IsPlain(w), NEW d, NEW e, NEW q, NEW r, W(v, d, q) = W(w, e, r)
  PROVE  v = w /\ PlaceOf(d) = PlaceOf(e) /\ q = r
BY ShardsInjective DEF IsPlain

LEMMA NobodyMakes ==
  ASSUME source \in SourceGraphs, Resolved, NEW v, IsPlain(v), \A j, t : ~MakesAt(j, t, v),
         NEW d, NEW q
  PROVE  ShardMakers(W(v, d, q)) = {}
<1> SUFFICES ASSUME NEW x \in Sharded, W(v, d, q) \in Values(x.outs) PROVE FALSE
  BY DEF ShardMakers
<1>1. CASE IsTaskShard(x)
  <2>1. PICK i \in Updated : \E p \in ShardNumbers(i) : x = Shard(i, p)
    BY <1>1 DEF IsTaskShard
  <2>2. PICK p \in ShardNumbers(i) : x = Shard(i, p)
    BY <2>1
  <2>3. PICK s \in DOMAIN i.outs : \E r \in CoordsAt(i, p, s) : W(v, d, q) = W(i.outs[s], Home(i, s), r)
    BY <2>2, TaskShardMakes
  <2>4. MakesAt(i, s, i.outs[s])
    BY TaskMakes
  <2>5. IsPlain(i.outs[s])
    BY <2>4, PlainPorts
  <2>6. v = i.outs[s]
    BY <2>3, <2>5, PlainShards
  <2> QED BY <2>4, <2>6
<1>2. CASE IsCopyShard(x)
  <2>1. PICK i, s, j, t, r : /\ Moves(i, s, j, t)
                             /\ x = CopyShard(i.outs[s], Home(i, s), Home(j, t), r)
    BY <1>2 DEF IsCopyShard
  <2>2. W(v, d, q) = W(i.outs[s], Home(j, t), r)
    BY <2>1, CopyShardMakes
  <2>3. MakesAt(i, s, i.outs[s])
    BY <2>1, MovesFacts
  <2>4. IsPlain(i.outs[s])
    BY <2>3, PlainPorts
  <2>5. v = i.outs[s]
    BY <2>2, <2>4, PlainShards
  <2> QED BY <2>3, <2>5
<1> QED BY <1>1, <1>2, ShardedMembers

\* At the place where a value is made only the task's shard makes it.
LEMMA MakerAtHome ==
  ASSUME source \in SourceGraphs, Resolved, UniqueMakers,
         NEW m, NEW u, NEW v, MakesAt(m, u, v),
         NEW d, PlaceOf(d) = PlaceOf(Home(m, u)), NEW q \in DOMAIN Home(m, u)
  PROVE  ShardMakers(W(v, d, q)) = {Shard(m, NumberOf(m, u, q))}
<1>0. m \in Updated /\ u \in DOMAIN m.outs /\ v = m.outs[u] /\ IsPlain(v)
  BY MakesTask, PlainPorts
<1>1. W(v, d, q) = W(v, Home(m, u), q)
  BY DEF W, Placed
<1>2. Shard(m, NumberOf(m, u, q)) \in ShardMakers(W(v, d, q))
  <2>1. NumberOf(m, u, q) \in ShardNumbers(m) /\ q \in CoordsAt(m, NumberOf(m, u, q), u)
    BY <1>0, NumbersOfHome
  <2>2. W(v, d, q) \in Values(Shard(m, NumberOf(m, u, q)).outs)
    BY <1>0, <1>1, <2>1, TaskShardMakes
  <2>3. Shard(m, NumberOf(m, u, q)) \in Sharded
    BY <1>0, <2>1, ShardedMembers DEF IsTaskShard
  <2> QED BY <2>2, <2>3 DEF ShardMakers
<1>3. ASSUME NEW x \in ShardMakers(W(v, d, q))
      PROVE  x = Shard(m, NumberOf(m, u, q))
  <2>0. x \in Sharded /\ W(v, d, q) \in Values(x.outs)
    BY <1>3 DEF ShardMakers
  <2>1. CASE IsTaskShard(x)
    <3>1. PICK i \in Updated : \E p \in ShardNumbers(i) : x = Shard(i, p)
      BY <2>1 DEF IsTaskShard
    <3>2. PICK p \in ShardNumbers(i) : x = Shard(i, p)
      BY <3>1
    <3>3. PICK s \in DOMAIN i.outs : \E r \in CoordsAt(i, p, s) : W(v, d, q) = W(i.outs[s], Home(i, s), r)
      BY <2>0, <3>2, TaskShardMakes
    <3>4. PICK r \in CoordsAt(i, p, s) : W(v, d, q) = W(i.outs[s], Home(i, s), r)
      BY <3>3
    <3>5. MakesAt(i, s, i.outs[s])
      BY TaskMakes
    <3>6. IsPlain(i.outs[s])
      BY <3>5, PlainPorts
    <3>7. v = i.outs[s] /\ q = r
      BY <1>0, <3>4, <3>6, PlainShards
    <3>8. i = m /\ s = u
      BY <3>5, <3>7 DEF UniqueMakers
    <3>9. p = NumberOf(i, s, r)
      BY <3>4, NumbersOfHome
    <3> QED BY <3>2, <3>7, <3>8, <3>9
  <2>2. CASE IsCopyShard(x)
    <3>1. PICK i, s, j, t, r : /\ Moves(i, s, j, t)
                               /\ x = CopyShard(i.outs[s], Home(i, s), Home(j, t), r)
      BY <2>2 DEF IsCopyShard
    <3>2. W(v, d, q) = W(i.outs[s], Home(j, t), r)
      BY <2>0, <3>1, CopyShardMakes
    <3>3. MakesAt(i, s, i.outs[s])
      BY <3>1, MovesFacts
    <3>4. IsPlain(i.outs[s])
      BY <3>3, PlainPorts
    <3>5. v = i.outs[s] /\ PlaceOf(d) = PlaceOf(Home(j, t))
      BY <1>0, <3>2, <3>4, PlainShards
    <3>6. i = m /\ s = u
      BY <3>3, <3>5 DEF UniqueMakers
    <3> QED BY <3>1, <3>5, <3>6 DEF Moves
  <2> QED BY <2>0, <2>1, <2>2, ShardedMembers
<1> QED BY <1>2, <1>3

\* Elsewhere only the copy of it does.
LEMMA MakerElsewhere ==
  ASSUME source \in SourceGraphs, Resolved, UniqueMakers,
         NEW m, NEW u, NEW v, MakesAt(m, u, v), NEW i, NEW s, ReadsAt(i, s, v),
         PlaceOf(Home(i, s)) # PlaceOf(Home(m, u)), NEW q \in DOMAIN Home(m, u)
  PROVE  ShardMakers(W(v, Home(i, s), q)) = {CopyShard(v, Home(m, u), Home(i, s), q)}
<1>0. m \in Updated /\ u \in DOMAIN m.outs /\ v = m.outs[u] /\ IsPlain(v)
  BY MakesTask, PlainPorts
<1>1. i \in Updated /\ s \in DOMAIN i.ins /\ v = i.ins[s]
  BY ReadsTask
<1>2. CopyShard(v, Home(m, u), Home(i, s), q) \in ShardMakers(W(v, Home(i, s), q))
  <2>1. Moves(m, u, i, s)
    BY <1>0, <1>1 DEF Moves
  <2>2. IsCopyShard(CopyShard(v, Home(m, u), Home(i, s), q))
    BY <1>0, <2>1 DEF IsCopyShard
  <2> QED BY <2>2, CopyShardMakes, ShardedMembers DEF ShardMakers
<1>3. ASSUME NEW x \in ShardMakers(W(v, Home(i, s), q))
      PROVE  x = CopyShard(v, Home(m, u), Home(i, s), q)
  <2>0. x \in Sharded /\ W(v, Home(i, s), q) \in Values(x.outs)
    BY <1>3 DEF ShardMakers
  <2>1. CASE IsTaskShard(x)
    <3>1. PICK j \in Updated : \E p \in ShardNumbers(j) : x = Shard(j, p)
      BY <2>1 DEF IsTaskShard
    <3>2. PICK p \in ShardNumbers(j) : x = Shard(j, p)
      BY <3>1
    <3>3. PICK t \in DOMAIN j.outs : \E r \in CoordsAt(j, p, t) :
                 W(v, Home(i, s), q) = W(j.outs[t], Home(j, t), r)
      BY <2>0, <3>2, TaskShardMakes
    <3>5. MakesAt(j, t, j.outs[t])
      BY TaskMakes
    <3>6. IsPlain(j.outs[t])
      BY <3>5, PlainPorts
    <3>7. v = j.outs[t] /\ PlaceOf(Home(i, s)) = PlaceOf(Home(j, t))
      BY <1>0, <3>3, <3>6, PlainShards
    <3>8. j = m /\ t = u
      BY <3>5, <3>7 DEF UniqueMakers
    <3> QED BY <3>7, <3>8
  <2>2. CASE IsCopyShard(x)
    <3>1. PICK n, t, j, l, r : /\ Moves(n, t, j, l)
                               /\ x = CopyShard(n.outs[t], Home(n, t), Home(j, l), r)
      BY <2>2 DEF IsCopyShard
    <3>2. W(v, Home(i, s), q) = W(n.outs[t], Home(j, l), r)
      BY <2>0, <3>1, CopyShardMakes
    <3>3. MakesAt(n, t, n.outs[t])
      BY <3>1, MovesFacts
    <3>4. IsPlain(n.outs[t])
      BY <3>3, PlainPorts
    <3>5. v = n.outs[t] /\ PlaceOf(Home(i, s)) = PlaceOf(Home(j, l)) /\ q = r
      BY <1>0, <3>2, <3>4, PlainShards
    <3>6. n = m /\ t = u
      BY <3>3, <3>5 DEF UniqueMakers
    <3>7. x = CopyShard(v, Home(m, u), Home(j, l), q)
      BY <3>1, <3>5, <3>6
    <3>8. CopyShard(v, Home(m, u), Home(j, l), q) = CopyShard(v, Home(m, u), Home(i, s), q)
      BY <3>5 DEF CopyShard, Copy
    <3> QED BY <3>7, <3>8
  <2> QED BY <2>0, <2>1, <2>2, ShardedMembers
<1> QED BY <1>2, <1>3

-------------------------------------------------------------------------------
(***************************************************************************)
(* Everything is read from where the source graph says.                    *)
(***************************************************************************)
Preserved(v) ==
  IF FromNowhere(v) THEN ComputedBy(v) = {}
  ELSE \E j \in graph : /\ ComputedBy(v) = {j}
                        /\ \E w \in Values(j.outs) :
                             w.tensor = v.tensor /\ w.role = v.role /\ w.coord = v.coord
                        /\ RightMaker(v, j)

LEMMA PreservedIsEnough ==
  ASSUME Lowered => \A i \in graph : i.op # "copy" => \A v \in Reads(i) : Preserved(v)
  PROVE  DataflowPreserved
BY DEF DataflowPreserved, Preserved, FromNowhere, RightMaker

LEMMA PreservedLocally ==
  ASSUME source \in SourceGraphs, graph = Updated, UniqueMakers, NEW i \in Updated, NEW v \in Reads(i)
  PROVE  Preserved(v)
<1>1. PICK s \in DOMAIN i.ins : v = i.ins[s]
  BY DEF Reads
<1>2. ReadsAt(i, s, v)
  BY <1>1, TaskReads
<1>3. \A x : x \in MakersOf(v) <=> \E t : MakesAt(x, t, v)
  <2> TAKE x
  <2>1. ASSUME NEW t, MakesAt(x, t, v) PROVE x \in MakersOf(v)
    <3>1. x \in Updated /\ t \in DOMAIN x.outs /\ v = x.outs[t]
      BY <2>1, MakesTask
    <3> QED BY <3>1 DEF MakersOf, Values, Range
  <2>2. ASSUME x \in MakersOf(v) PROVE \E t : MakesAt(x, t, v)
    <3>1. x \in Updated /\ \E t \in DOMAIN x.outs : v = x.outs[t]
      BY <2>2 DEF MakersOf, Values, Range
    <3> QED BY <3>1, TaskMakes
  <2> QED BY <2>1, <2>2
<1>4. CASE FromNowhere(v)
  <2>1. \A j, t : ~MakesAt(j, t, v)
    BY <1>2, <1>4, MakerOfRead
  <2>2. MakersOf(v) = {}
    BY <1>3, <2>1
  <2> QED BY <1>4, <2>2, ComputedByCases DEF Preserved
<1>5. CASE ~FromNowhere(v)
  <2>1. PICK j, t : MakesAt(j, t, v) /\ RightMaker(v, j)
    BY <1>2, <1>5, MakerOfRead
  <2>2. j \in Updated /\ t \in DOMAIN j.outs /\ v = j.outs[t] /\ v \in Values(j.outs)
    BY <2>1, MakesTask DEF Values, Range
  <2>3. \A x \in MakersOf(v) : x = j
    BY <1>3, <2>1 DEF UniqueMakers
  <2>4. j \in MakersOf(v)
    BY <1>3, <2>1
  <2>5. MakersOf(v) = {j}
    BY <2>3, <2>4
  <2>6. ComputedBy(v) = {j}
    BY <2>2, <2>5, ComputedByCases, TaskMapping
  <2> QED BY <1>5, <2>1, <2>2, <2>6 DEF Preserved
<1> QED BY <1>4, <1>5

LEMMA PreservedOnDevices ==
  ASSUME source \in SourceGraphs, graph = Sharded, Resolved, UniqueMakers,
         MappingsFit, NEW x \in Sharded, x.op # "copy", NEW w \in Reads(x)
  PROVE  Preserved(w)
<1>1. PICK i \in Updated : \E p \in ShardNumbers(i) : x = Shard(i, p)
  <2>1. ~IsCopyShard(x)
    BY CopyShardMakes DEF IsCopyShard
  <2> QED BY <2>1, ShardedMembers DEF IsTaskShard
<1>2. PICK p \in ShardNumbers(i) : x = Shard(i, p)
  BY <1>1
<1>3. IsShard(x, i, p)
  BY <1>2, ShardsOfTask
<1>4. PICK y \in DOMAIN x.ins : w = x.ins[y]
  BY DEF Reads
<1>5. PICK s \in DOMAIN i.ins : \E q \in CoordsAt(i, p, s) : y = SlotOf(i, s, q)
  BY <1>3, <1>4 DEF IsShard
<1>6. PICK q \in CoordsAt(i, p, s) : y = SlotOf(i, s, q)
  BY <1>5
<1> DEFINE v == i.ins[s]
<1>7. w = W(v, Home(i, s), q)
  BY <1>3, <1>4, <1>6 DEF IsShard
<1>8. ReadsAt(i, s, v)
  BY TaskReads
<1> HIDE DEF v
<1>9. IsPlain(v)
  BY <1>8, PlainPorts
<1>10. w.tensor = v.tensor /\ w.role = v.role /\ w.coord = q
  BY <1>7, <1>9, PlacedFields DEF IsPlain
<1>11. FromNowhere(w) <=> FromNowhere(v)
  BY <1>10 DEF FromNowhere
<1>12. q \in DOMAIN Home(i, s)
  BY <1>6, NumbersOfHome
<1>13. \A z : MakersOf(z) = ShardMakers(z)
  BY DEF MakersOf, ShardMakers
<1>14. CASE FromNowhere(v)
  <2>1. \A j, t : ~MakesAt(j, t, v)
    BY <1>8, <1>14, MakerOfRead
  <2>2. MakersOf(w) = {}
    BY <1>7, <1>9, <1>13, <2>1, NobodyMakes
  <2> QED BY <1>11, <1>14, <2>2, ComputedByCases DEF Preserved
<1>15. CASE ~FromNowhere(v)
  <2>1. PICK m, u : MakesAt(m, u, v) /\ RightMaker(v, m)
    BY <1>8, <1>15, MakerOfRead
  <2>2. m \in Updated /\ u \in DOMAIN m.outs /\ v = m.outs[u]
    BY <2>1, MakesTask
  <2>3. PICK k \in Layer : \E r \in {"fwd", "grad"} : v = V(k, r)
    BY <2>1, MadeValues
  <2>4. DOMAIN Home(m, u) = DOMAIN Home(i, s)
    BY <1>8, <2>1, <2>3, HomeOfReads, HomeOfMakes
  <2>5. q \in DOMAIN Home(m, u)
    BY <1>12, <2>4
  <2> DEFINE z == Shard(m, NumberOf(m, u, q))
             home == W(v, Home(m, u), q)
  <2>6. MakersOf(home) = {z}
    BY <1>13, <2>1, <2>5, MakerAtHome
  <2>7. z \in Sharded /\ home \in Values(z.outs)
    BY <1>13, <2>6 DEF ShardMakers
  <2>8. z.guid = m.guid /\ z.op = m.op /\ z.task = m.task
    BY <2>1, <2>2, <2>5, NumbersOfHome, ShardsOfTask DEF IsShard
  <2>9. m.op # "copy"
    BY <2>2, TaskMapping
  <2>10. home.tensor = v.tensor /\ home.role = v.role /\ home.coord = q
    BY <1>9, PlacedFields DEF IsPlain
  <2>11. ComputedBy(w) = {z}
    <3>1. CASE PlaceOf(Home(i, s)) = PlaceOf(Home(m, u))
      <4>1. MakersOf(w) = {z}
        BY <1>7, <1>13, <2>1, <2>5, <3>1, MakerAtHome
      <4> HIDE DEF z
      <4> QED BY <2>8, <2>9, <4>1, ComputedByCases
    <3>2. CASE PlaceOf(Home(i, s)) # PlaceOf(Home(m, u))
      <4> DEFINE c == CopyShard(v, Home(m, u), Home(i, s), q)
      <4>1. MakersOf(w) = {c}
        BY <1>7, <1>8, <1>13, <2>1, <2>5, <3>2, MakerElsewhere
      <4>2. c.op = "copy" /\ Values(c.ins) = {home}
        BY CopyShardMakes
      <4> HIDE DEF z, c, home
      <4>3. \A a, b, j : /\ MakersOf(w) = {a} /\ a.op = "copy" /\ Values(a.ins) = {b}
                         /\ MakersOf(b) = {j}
                         => ComputedBy(w) = {j}
        BY ComputedByCases
      <4> QED BY ONLY <2>6, <4>1, <4>2, <4>3
    <3> QED BY <3>1, <3>2
  <2>12. RightMaker(w, z)
    <3> HIDE DEF z
    <3> QED BY <1>10, <2>1, <2>8 DEF RightMaker
  <2> HIDE DEF z, home
  <2> QED BY <1>10, <1>11, <1>15, <2>7, <2>10, <2>11, <2>12 DEF Preserved
<1> QED BY <1>14, <1>15

\* What a task reads was computed, as this shard of this tensor, by the task the source
\* graph says, perhaps through a copy; only the label, the optimizer's tensors and
\* the gradients without a use come from nowhere.
THEOREM Dataflow == Spec => []DataflowPreserved
<1>1. IInv => DataflowPreserved
  <2> SUFFICES ASSUME IInv, Lowered, NEW i \in graph, i.op # "copy", NEW v \in Reads(i)
               PROVE  Preserved(v)
    BY PreservedIsEnough
  <2>1. source \in SourceGraphs /\ UniqueMakers
    BY MakersAreUnique DEF IInv, Lowered, GraphAtStage, UpdatedOK, IsValid
  <2>2. CASE Local
    BY <2>1, <2>2, LoweredGraph, PreservedLocally
  <2>3. CASE ~Local
    BY <2>1, <2>3, LoweredGraph, PreservedOnDevices
  <2> QED BY <2>2, <2>3
<1> QED BY <1>1, Inductive, PTL

-------------------------------------------------------------------------------
(***************************************************************************)
(* Acyclic graphs: what a graph adds in rounds ends with everything.       *)
(***************************************************************************)
\* A growing family of subsets stops growing, or ends with everything.
LEMMA GrowthEnds ==
  ASSUME NEW g, IsFiniteSet(g), NEW E,
         \A k \in 0..Cardinality(g) : E[k] \subseteq g,
         \A k \in 1..Cardinality(g) : E[k - 1] \subseteq E[k] /\ E[k - 1] # E[k]
  PROVE  E[Cardinality(g)] = g
<1> DEFINE n == Cardinality(g)
           Bad == {k \in Nat : k \in 0..n /\ Cardinality(E[k]) < k}
<1>1. n \in Nat
  BY FS_CardinalityType
<1>2. \A k \in 0..n : IsFiniteSet(E[k]) /\ Cardinality(E[k]) \in Nat
  BY FS_Subset, FS_CardinalityType
<1>3. \A k \in 1..n : Cardinality(E[k - 1]) < Cardinality(E[k])
  <2> TAKE k \in 1..n
  <2>0. k \in 0..n /\ k - 1 \in 0..n
    BY <1>1
  <2>1. E[k - 1] \in SUBSET E[k] /\ IsFiniteSet(E[k])
    BY <1>2, <2>0
  <2>2. Cardinality(E[k - 1]) <= Cardinality(E[k]) /\ Cardinality(E[k - 1]) # Cardinality(E[k])
    BY <2>1, FS_Subset
  <2> QED BY <1>2, <2>0, <2>2
<1>4. Bad = {}
  <2> SUFFICES ASSUME Bad # {} PROVE FALSE
    OBVIOUS
  <2>1. PICK m \in Bad : \A k \in Bad : m <= k
    BY Least
  <2>2. m # 0
    BY <1>2, <2>1
  <2>3. m \in 1..n /\ m - 1 \in 0..n /\ m - 1 \in Nat
    BY <1>1, <2>1, <2>2
  <2>4. m - 1 \notin Bad
    BY <2>1, <2>3
  <2>5. Cardinality(E[m - 1]) >= m - 1
    BY <1>2, <2>3, <2>4
  <2>6. Cardinality(E[m]) > Cardinality(E[m - 1])
    BY <1>3, <2>3
  <2> QED BY <1>2, <2>1, <2>3, <2>5, <2>6
<1>5. Cardinality(E[n]) >= n
  BY <1>1, <1>2, <1>4
<1>6. E[n] \in SUBSET g
  BY <1>1
<1>7. Cardinality(E[n]) <= n
  BY <1>6, FS_Subset
<1>8. Cardinality(g) = Cardinality(E[n])
  BY <1>1, <1>2, <1>5, <1>7
<1> QED BY <1>6, <1>8, FS_Subset

LEMMA AddableRounds ==
  ASSUME NEW g, IsFiniteSet(g)
  PROVE  \E R : /\ R[0] = Inputs(g) \ Outputs(g)
                /\ \A k \in 1..Cardinality(g) :
                     R[k] = R[k - 1] \cup Outputs({i \in g : Values(i.ins) \subseteq R[k - 1]})
                /\ Addable(g) = R[Cardinality(g)]
<1> DEFINE n == Cardinality(g)
           free == Inputs(g) \ Outputs(g)
           Sets == SUBSET (free \cup Outputs(g))
           Use(added) == added \cup Outputs({i \in g : Values(i.ins) \subseteq added})
           Round(R) == [k \in 0..n |-> IF k = 0 THEN free ELSE Use(R[k - 1])]
           step == [added \in Sets |-> Use(added)]
<1>1. n \in Nat
  BY FS_CardinalityType
<1>2. \A S \in SUBSET g : Outputs(S) \subseteq Outputs(g)
  BY DEF Outputs
<1>3. step \in [Sets -> Sets]
  <2>1. ASSUME NEW added \in Sets PROVE Use(added) \in Sets
    BY <1>2
  <2> HIDE DEF Sets, Use
  <2> QED BY <2>1
<1>4. PICK f \in [0..n -> Sets] : f[0] = free /\ \A k \in 1..n : f[k] = step[f[k - 1]]
  <2>1. free \in Sets
    OBVIOUS
  <2> HIDE DEF Sets, step, n, free
  <2>2. \E f : IsIteration(f, Sets, free, step, n)
    BY <1>1, <1>3, <2>1, Iteration
  <2> QED BY <2>2 DEF IsIteration
<1>5. f = Round(f)
  <2>1. \A k \in 0..n : f[k] = IF k = 0 THEN free ELSE Use(f[k - 1])
    <3>1. \A added \in Sets : step[added] = Use(added)
      <4> HIDE DEF Use, Sets
      <4> QED OBVIOUS
    <3>2. \A k \in 1..n : k - 1 \in 0..n /\ f[k] = Use(f[k - 1])
      <4> HIDE DEF Use, Sets, n, step
      <4> QED BY <1>1, <1>4, <3>1
    <3>3. \A k \in 0..n : k = 0 \/ k \in 1..n
      <4> HIDE DEF n
      <4> QED BY <1>1
    <3> HIDE DEF Use, Sets, n, step, free
    <3> QED BY <1>4, <3>2, <3>3
  <2> HIDE DEF Use, Sets, n, free
  <2> QED BY <1>4, <2>1
<1> DEFINE Rounds == CHOOSE R : R = Round(R)
<1>6. Rounds = Round(Rounds)
  <2> HIDE DEF Round
  <2> QED BY <1>5
<1>7. Addable(g) = Rounds[n]
  BY Zenon DEF Addable
<1> HIDE DEF Rounds
<1>8. Rounds[0] = free /\ \A k \in 1..n : Rounds[k] = Use(Rounds[k - 1])
  <2> HIDE DEF Use, n, free
  <2> QED BY <1>1, <1>6
<1> QED BY <1>7, <1>8

\* Every invocation makes values of higher levels than those it reads.
Levelled(g, level) ==
  /\ \A v \in AllValues(g) : level[v] \in Nat
  /\ \A i \in g : \A v \in Values(i.ins) : \A w \in Values(i.outs) : level[v] < level[w]

LEMMA LevelledIsAcyclic ==
  ASSUME NEW g, IsFiniteSet(g), NEW level, Levelled(g, level)
  PROVE  IsAcyclic(g)
<1> DEFINE n == Cardinality(g)
<1>1. n \in Nat
  BY FS_CardinalityType
<1>2. PICK R : /\ R[0] = Inputs(g) \ Outputs(g)
               /\ \A k \in 1..n :
                    R[k] = R[k - 1] \cup Outputs({i \in g : Values(i.ins) \subseteq R[k - 1]})
               /\ Addable(g) = R[n]
  BY AddableRounds
<1> DEFINE E == [k \in 0..n |-> {i \in g : Values(i.ins) \subseteq R[k]}]
<1>3. \A k \in 0..n : E[k] = {i \in g : Values(i.ins) \subseteq R[k]}
  OBVIOUS
<1> HIDE DEF E
<1>4. \A k \in 1..n : k - 1 \in 0..n /\ k \in 0..n /\ R[k] = R[k - 1] \cup Outputs(E[k - 1])
  <2> HIDE DEF n
  <2> QED BY <1>1, <1>2, <1>3
<1>5. \A k \in 1..n : R[k - 1] \subseteq R[k]
  BY <1>4
<1>6. \A i, j \in 0..n : i <= j => R[i] \subseteq R[j]
  <2> HIDE DEF n
  <2> QED BY <1>1, <1>5, RoundsGrow
<1>7. \A k \in 1..n : E[k - 1] \subseteq E[k]
  BY <1>3, <1>4
\* What has been added at the end is closed, or everything.
<1>8. CASE E[n] = g
  <2>1. 0 \in 0..n /\ n \in 0..n
    BY <1>1
  <2>2. \A i \in g : Values(i.ins) \subseteq R[n]
    BY <1>3, <1>8, <2>1
  <2> QED BY <1>2, <2>2 DEF IsAcyclic, Inputs
<1>9. CASE E[n] # g
  <2>1. PICK k \in 1..n : E[k - 1] = E[k]
    <3>1. \A k \in 0..n : E[k] \subseteq g
      BY <1>3
    <3> QED BY <1>7, <1>9, <3>1, GrowthEnds
  <2> DEFINE Unstable == {m \in Nat : m \in k..n /\ E[m] # E[k]}
  <2>2. Unstable = {}
    <3> SUFFICES ASSUME Unstable # {} PROVE FALSE
      OBVIOUS
    <3>1. PICK m \in Unstable : \A l \in Unstable : m <= l
      BY Least
    <3>2. m # k /\ m - 1 \in k..n /\ m - 1 \in Nat /\ m \in 1..n /\ k \in Nat
      <4> HIDE DEF n
      <4> QED BY <1>1, <3>1
    <3>3. E[m - 1] = E[k]
      BY <3>1, <3>2
    <3>4. R[m] = R[m - 1] \cup Outputs(E[m - 1]) /\ R[k] = R[k - 1] \cup Outputs(E[k - 1])
      BY <1>4, <3>2
    <3>5. Outputs(E[k]) \subseteq R[m - 1]
      <4>1. Outputs(E[k]) \subseteq R[k]
        BY <2>1, <3>4
      <4>2. R[k] \subseteq R[m - 1]
        <5> HIDE DEF n
        <5> QED BY <1>1, <1>6, <3>2
      <4> QED BY <4>1, <4>2
    <3>6. R[m] = R[m - 1]
      BY <3>3, <3>4, <3>5
    <3>7. E[m] = E[m - 1]
      <4>1. m \in 0..n /\ m - 1 \in 0..n
        BY <1>4, <3>2
      <4>2. E[m] = {i \in g : Values(i.ins) \subseteq R[m]}
        BY <1>3, <4>1
      <4>3. E[m - 1] = {i \in g : Values(i.ins) \subseteq R[m - 1]}
        BY <1>3, <4>1
      <4> QED BY <3>6, <4>2, <4>3
    <3> QED BY <3>1, <3>3, <3>7
  <2>3. E[n] = E[k] /\ k \in 0..n /\ n \in 0..n /\ n \in k..n
    <3>1. n \in k..n /\ n \in Nat /\ k \in 0..n /\ n \in 0..n
      BY <1>1
    <3> QED BY <2>2, <3>1
  <2>4. \A i \in g : Values(i.ins) \subseteq R[n] => Values(i.outs) \subseteq R[n]
    <3> TAKE i \in g
    <3> HAVE Values(i.ins) \subseteq R[n]
    <3>1. i \in E[k - 1]
      BY <1>3, <2>1, <2>3
    <3>2. Values(i.outs) \subseteq R[k]
      BY <1>4, <3>1 DEF Outputs
    <3>3. R[k] \subseteq R[n]
      BY <1>6, <2>3
    <3> QED BY <3>2, <3>3
  <2> DEFINE Missing == Inputs(g) \ R[n]
             Ls == {l \in Nat : \E v \in Missing : level[v] = l}
  <2>5. Missing = {}
    <3> SUFFICES ASSUME NEW x \in Missing PROVE FALSE
      OBVIOUS
    <3>1. \A v \in Missing : level[v] \in Nat
      BY DEF Levelled, AllValues
    <3>2. Ls # {} /\ Ls \subseteq Nat
      BY <3>1
    <3>3. PICK l \in Ls : \A m \in Ls : l <= m
      <4> HIDE DEF Ls
      <4> QED BY <3>2, Least
    <3>4. PICK v \in Missing : level[v] = l
      BY <3>3
    <3>5. R[0] \subseteq R[n]
      BY <1>1, <1>6
    <3>6. v \in Outputs(g)
      BY <1>2, <3>4, <3>5
    <3>7. PICK j \in g : v \in Values(j.outs)
      BY <3>6 DEF Outputs
    <3>8. \A w \in Values(j.ins) : w \in R[n]
      <4> TAKE w \in Values(j.ins)
      <4>1. level[w] < level[v]
        BY <3>7 DEF Levelled
      <4>2. w \in Inputs(g)
        BY <3>7 DEF Inputs
      <4>3. level[w] \in Nat /\ level[v] \in Nat
        BY <3>1, <4>2 DEF Levelled, AllValues
      <4>4. level[w] \notin Ls
        BY <3>3, <3>4, <4>1, <4>3
      <4> QED BY <4>2, <4>3, <4>4
    <3>9. v \in R[n]
      BY <2>4, <3>7, <3>8
    <3> QED BY <3>4, <3>9
  <2> QED BY <1>2, <2>5 DEF IsAcyclic
<1> QED BY <1>8, <1>9

-------------------------------------------------------------------------------
(***************************************************************************)
(* Levels: forward values by their layers, gradients above them and the    *)
(* other way round.                                                        *)
(***************************************************************************)
LevelOf(v) ==
  IF v.role \in {"none", "fwd"} THEN v.tensor
  ELSE IF v.role = "grad" THEN 2 * Last + 2 - v.tensor ELSE 0

LEMMA LevelFacts ==
  ASSUME source \in SourceGraphs
  PROVE  /\ \A k \in Layer : /\ LevelOf(V(k, "none")) = k /\ LevelOf(V(k, "fwd")) = k
                             /\ LevelOf(V(k, "grad")) = 2 * Last + 2 - k
                             /\ k \in Nat /\ k >= 1 /\ k <= Last
                             /\ \A r \in OptimizerSlots : LevelOf(V(k, r)) = 0
         /\ LevelOf(Label) = 0
         /\ Last \in Nat
<1>1. Last \in Nat /\ Layer = 1..Last
  BY SourceFacts
<1>2. \A k, r : V(k, r).role = r /\ V(k, r).tensor = k
  BY ValueFields
<1>3. Label.role = "loss"
  BY LabelFacts
<1>4. \A r \in OptimizerSlots : r \notin {"none", "fwd", "grad", "loss"}
  BY IdentitiesAssumption
<1>5. \A k \in Layer : /\ LevelOf(V(k, "none")) = k /\ LevelOf(V(k, "fwd")) = k
                       /\ LevelOf(V(k, "grad")) = 2 * Last + 2 - k
  BY <1>2 DEF LevelOf
<1>6. \A k \in Layer : \A r \in OptimizerSlots : LevelOf(V(k, r)) = 0
  BY <1>2, <1>4 DEF LevelOf
<1>7. LevelOf(Label) = 0
  BY <1>3 DEF LevelOf
<1>8. \A k \in Layer : k \in Nat /\ k >= 1 /\ k <= Last
  BY <1>1
<1> QED BY <1>1, <1>5, <1>6, <1>7, <1>8

LEMMA PortLevels ==
  ASSUME source \in SourceGraphs, NEW i, NEW s, NEW v
  PROVE  ReadsAt(i, s, v) \/ MakesAt(i, s, v) => LevelOf(v) \in Nat
<1>1. \A k \in Layer : 2 * Last + 2 - k \in Nat
  BY LevelFacts
<1>2. ASSUME ReadsAt(i, s, v) PROVE LevelOf(v) \in Nat
  <2>1. v = Label \/ \E k \in Layer : \E r \in UpdateRoles : v = V(k, r)
    BY <1>2, ReadValues
  <2> QED BY <1>1, <2>1, LevelFacts DEF UpdateRoles
<1>3. ASSUME MakesAt(i, s, v) PROVE LevelOf(v) \in Nat
  <2>1. \E k \in Layer : \E r \in {"fwd", "grad"} : v = V(k, r)
    BY <1>3, MadeValues
  <2> QED BY <1>1, <2>1, LevelFacts
<1> QED BY <1>2, <1>3

LEMMA TaskLevels ==
  ASSUME source \in SourceGraphs, NEW i, NEW s, NEW v, NEW t, NEW w,
         ReadsAt(i, s, v), MakesAt(i, t, w)
  PROVE  LevelOf(v) < LevelOf(w)
<1>0. /\ \A k \in Layer : \A a \in DOMAIN Args(k) : Args(k)[a] \in Layer /\ Args(k)[a] < k
      /\ Differentiated \subseteq Layer /\ Weights \subseteq Layer
  BY LayerFacts, SubsetsOfLayer
<1>1. CASE \E k \in Layer : i = Fwd(k)
  <2>1. PICK k \in Layer : i = Fwd(k)
    BY <1>1
  <2>2. i.guid = k /\ i.task = "FWD"
    BY <2>1, FwdFacts
  <2>3. \A j \in Layer : /\ i = Fwd(j) => j = k
                         /\ i # Bwd(j) /\ i # Upd(j)
    BY <2>1, <2>2, FwdFacts, BwdFacts, UpdFacts
  <2>4. i # Loss
    BY <2>2, LossFacts
  <2>5. PICK a \in DOMAIN Args(k) : v = V(Args(k)[a], "fwd")
    BY <1>0, <2>3, <2>4 DEF ReadsAt
  <2>6. w = V(k, "fwd")
    BY <1>0, <2>3, <2>4 DEF MakesAt
  <2> QED BY <1>0, <2>5, <2>6, LevelFacts
<1>2. CASE \E k \in Differentiated : i = Bwd(k)
  <2>1. PICK k \in Differentiated : i = Bwd(k)
    BY <1>2
  <2>2. i.guid = k /\ i.task = "BWD" /\ k \in Layer
    BY <1>0, <2>1, BwdFacts
  <2>3. \A j \in Layer : /\ i = Bwd(j) => j = k
                         /\ i # Fwd(j) /\ i # Upd(j)
    BY <2>1, <2>2, FwdFacts, BwdFacts, UpdFacts
  <2>4. i # Loss
    BY <2>2, LossFacts
  <2>5. \/ \E a \in DOMAIN Args(k) : v = V(Args(k)[a], "fwd")
        \/ v = V(k, "grad") \/ v = V(k, "fwd")
    BY <1>0, <2>3, <2>4 DEF ReadsAt
  <2>6. \E a \in DOMAIN Args(k) : w = V(Args(k)[a], "grad")
    BY <1>0, <2>3, <2>4 DEF MakesAt
  <2>7. PICK a \in Layer : w = V(a, "grad") /\ a < k
    BY <1>0, <2>2, <2>6
  <2>8. LevelOf(w) = 2 * Last + 2 - a /\ a \in Nat /\ k \in Nat /\ a <= Last /\ k <= Last /\ Last \in Nat
    BY <2>2, <2>7, LevelFacts
  <2>9. LevelOf(v) <= Last \/ LevelOf(v) = 2 * Last + 2 - k
    BY <1>0, <2>2, <2>5, LevelFacts
  <2>10. LevelOf(v) \in Nat
    BY PortLevels
  <2> QED BY <2>7, <2>8, <2>9, <2>10
<1>3. CASE HasLoss /\ i = Loss
  <2>1. i.task = "LOSS"
    BY <1>3, LossFacts
  <2>2. \A j \in Layer : i # Fwd(j) /\ i # Bwd(j) /\ i # Upd(j)
    BY <2>1, FwdFacts, BwdFacts, UpdFacts
  <2>3. v = Label \/ v = V(Logit, "fwd")
    BY <1>0, <2>2 DEF ReadsAt
  <2>4. w = V(Logit, "grad") /\ Logit \in Layer
    BY <1>0, <1>3, <2>2, LogitInLayer DEF MakesAt
  <2>5. LevelOf(w) = 2 * Last + 2 - Logit /\ Logit \in Nat /\ Logit <= Last /\ Last \in Nat
    BY <2>4, LevelFacts
  <2>6. LevelOf(v) = 0 \/ LevelOf(v) = Logit
    BY <2>3, <2>4, LevelFacts
  <2> QED BY <2>5, <2>6
<1> QED BY <1>1, <1>2, <1>3 DEF MakesAt

\* The graphs of the first passes are parts of the updated graph.
LEMMA PartAcyclic ==
  ASSUME source \in SourceGraphs, NEW g \in SUBSET Updated
  PROVE  IsAcyclic(g)
<1> DEFINE level == [v \in AllValues(g) |-> LevelOf(v)]
<1>1. \A v \in AllValues(g) : level[v] = LevelOf(v)
  OBVIOUS
<1> HIDE DEF level
<1>2. ASSUME NEW i \in g, NEW v \in Values(i.ins)
      PROVE  v \in AllValues(g) /\ \E s : ReadsAt(i, s, v)
  <2>1. \E s \in DOMAIN i.ins : v = i.ins[s]
    BY DEF Values, Range
  <2>2. v \in AllValues(g)
    BY DEF AllValues, Inputs
  <2> QED BY <2>1, <2>2, TaskReads
<1>3. ASSUME NEW i \in g, NEW v \in Values(i.outs)
      PROVE  v \in AllValues(g) /\ \E s : MakesAt(i, s, v)
  <2>1. \E s \in DOMAIN i.outs : v = i.outs[s]
    BY DEF Values, Range
  <2>2. v \in AllValues(g)
    BY DEF AllValues, Outputs
  <2> QED BY <2>1, <2>2, TaskMakes
<1>4. \A v \in AllValues(g) : level[v] \in Nat
  <2> TAKE v \in AllValues(g)
  <2>1. \E i \in g : v \in Values(i.ins) \/ v \in Values(i.outs)
    BY DEF AllValues, Inputs, Outputs
  <2>2. \E i, s : ReadsAt(i, s, v) \/ MakesAt(i, s, v)
    BY <1>2, <1>3, <2>1
  <2> QED BY <1>1, <2>2, PortLevels
<1>5. \A i \in g : \A v \in Values(i.ins) : \A w \in Values(i.outs) : level[v] < level[w]
  BY <1>1, <1>2, <1>3, TaskLevels
<1>6. IsFiniteSet(g)
  BY UpdatedFinite, FS_Subset
<1> QED BY <1>4, <1>5, <1>6, LevelledIsAcyclic DEF Levelled

LEMMA PartOnce ==
  ASSUME source \in SourceGraphs, UniqueMakers, NEW g \in SUBSET Updated
  PROVE  ProducedAtMostOnce(g)
<1> SUFFICES ASSUME NEW v \in Outputs(g)
             PROVE  \E x : Sources(g, v) = {x}
  BY FS_Singleton DEF ProducedAtMostOnce
<1>1. PICK i \in g : \E s \in DOMAIN i.outs : v = i.outs[s]
  BY DEF Outputs, Values, Range
<1>2. PICK s \in DOMAIN i.outs : v = i.outs[s]
  BY <1>1
<1>3. MakesAt(i, s, v)
  BY <1>2, TaskMakes
<1>4. OutSite(i, s) \in Sources(g, v)
  BY <1>2 DEF Sources, OutSites, OutSite, ValueAt
<1>5. \A x \in Sources(g, v) : x = OutSite(i, s)
  <2> TAKE x \in Sources(g, v)
  <2>1. PICK j \in g : \E t \in DOMAIN j.outs : x = OutSite(j, t)
    BY DEF Sources, OutSites, OutSite
  <2>2. PICK t \in DOMAIN j.outs : x = OutSite(j, t)
    BY <2>1
  <2>3. j.outs[t] = v
    BY <2>2 DEF Sources, OutSite, ValueAt
  <2>4. MakesAt(j, t, v)
    BY <2>2, <2>3, TaskMakes
  <2> QED BY <1>3, <2>2, <2>4 DEF UniqueMakers
<1>6. Sources(g, v) = {OutSite(i, s)}
  BY <1>4, <1>5
<1> QED BY <1>6

LEMMA DynamicIsValid ==
  ASSUME source \in SourceGraphs
  PROVE  DynamicOK
<1>1. ProducedAtMostOnce(Dynamic)
  <2> SUFFICES ASSUME NEW v \in Outputs(Dynamic)
               PROVE  \E x : Sources(Dynamic, v) = {x}
    BY FS_Singleton DEF ProducedAtMostOnce
  <2>1. PICK k \in Layer : v = V(k, "none")
    BY DynamicFacts
  <2> QED BY <2>1, DynamicSites
<1>2. IsAcyclic(Dynamic)
  <2> DEFINE level == [v \in AllValues(Dynamic) |-> LevelOf(v)]
  <2>1. \A v \in AllValues(Dynamic) : level[v] = LevelOf(v)
    OBVIOUS
  <2> HIDE DEF level
  <2>2. \A v \in AllValues(Dynamic) : level[v] \in Nat
    BY <2>1, DynamicFacts, LevelFacts
  <2>3. ASSUME NEW i \in Dynamic, NEW v \in Values(i.ins), NEW w \in Values(i.outs)
        PROVE  level[v] < level[w]
    <3>1. PICK k \in Layer : i = Inv(k)
      BY DynamicFacts
    <3>2. PICK a \in Arguments(k) : v = V(a, "none")
      BY <3>1, InvFields, PortValues
    <3>3. w = V(k, "none")
      BY <3>1, InvFields, PortValues
    <3>4. a \in Layer /\ a < k
      BY <3>2, ArgumentsFacts
    <3>5. v \in AllValues(Dynamic) /\ w \in AllValues(Dynamic)
      BY <3>2, <3>3, <3>4, DynamicFacts
    <3> QED BY <2>1, <3>2, <3>3, <3>4, <3>5, LevelFacts
  <2> QED BY <2>2, <2>3, DynamicFacts, LevelledIsAcyclic DEF Levelled
<1> QED BY <1>1, <1>2 DEF DynamicOK, IsValid

\* The tasks that update insertion makes of an invocation belong to it alone.
LEMMA UpdatesSeparate ==
  ASSUME source \in SourceGraphs
  PROVE  NoDuplicates(Complete, WithUpdate)
<1> SUFFICES ASSUME NEW i \in Complete, NEW j \in Complete, NEW x \in WithUpdate(i), x \in WithUpdate(j)
             PROVE  i = j
  BY DEF NoDuplicates
<1>1. Differentiated \subseteq Layer /\ Weights \subseteq Layer
  BY SubsetsOfLayer
<1>2. ASSUME NEW y \in Complete, x \in WithUpdate(y)
      PROVE  \/ \E k \in Layer : y = Fwd(k) /\ x.guid = k /\ x.task \in {"FWD", "UPD"}
             \/ \E k \in Layer : y = Bwd(k) /\ x.guid = k /\ x.task = "BWD"
             \/ y = Loss /\ x.task = "LOSS"
  <2>1. CASE \E k \in Layer : y = Fwd(k)
    <3>1. PICK k \in Layer : y = Fwd(k)
      BY <2>1
    <3>2. x = Fwd(k) \/ x = Upd(k)
      BY <1>2, <3>1, WithUpdateIs
    <3> QED BY <3>1, <3>2, FwdFacts, UpdFacts
  <2>2. CASE \E k \in Layer : y = Bwd(k)
    <3>1. PICK k \in Layer : y = Bwd(k)
      BY <2>2
    <3>2. x = Bwd(k)
      BY <1>2, <3>1, WithUpdateIs
    <3> QED BY <3>1, <3>2, BwdFacts
  <2>3. CASE y = Loss
    <3>1. x = Loss
      BY <1>2, <2>3, WithUpdateIs
    <3> QED BY <2>3, <3>1, LossFacts
  <2> QED BY <1>1, <2>1, <2>2, <2>3, CompleteMembers, ExpandedMembers
<1> QED BY <1>2

LEMMA UpdatedIsValid ==
  ASSUME source \in SourceGraphs
  PROVE  /\ UpdatedOK <=> UniqueMakers
         /\ UniqueMakers => ExpandedOK
<1>1. Expanded \subseteq Updated
  BY ExpandedMembers, UpdatedMembers DEF IsTask
<1>2. IsAcyclic(Updated) /\ IsAcyclic(Expanded)
  BY <1>1, PartAcyclic
<1>3. UniqueMakers => ProducedAtMostOnce(Expanded)
  BY <1>1, PartOnce
<1> QED BY <1>2, <1>3, MakersAreUnique, UpdatesSeparate DEF UpdatedOK, ExpandedOK, IsValid

-------------------------------------------------------------------------------
(***************************************************************************)
(* What can be lowered.                                                    *)
(***************************************************************************)
LEMMA SlotsInjective ==
  ASSUME NEW a \in {1, 2}, NEW b \in {1, 2}, NEW r, NEW q, P(ArgumentSlot[a], r) = P(ArgumentSlot[b], q)
  PROVE  a = b /\ r = q
<1>1. ArgumentSlot[1] = "INPUT" /\ ArgumentSlot[2] = "WEIGHT"
  BY DEF ArgumentSlot
<1>2. P(ArgumentSlot[a], r).name = ArgumentSlot[a] /\ P(ArgumentSlot[b], q).name = ArgumentSlot[b]
      /\ P(ArgumentSlot[a], r).role = r /\ P(ArgumentSlot[b], q).role = q
  BY SlotFields
<1> QED BY <1>1, <1>2

LEMMA TasksInjective ==
  ASSUME source \in SourceGraphs, NEW j \in Layer, NEW k \in Layer
  PROVE  /\ Fwd(j) = Fwd(k) => j = k
         /\ Bwd(j) = Bwd(k) => j = k
         /\ Upd(j) = Upd(k) => j = k
         /\ Fwd(j) # Bwd(k) /\ Fwd(j) # Upd(k) /\ Bwd(j) # Upd(k)
         /\ Fwd(j) # Loss /\ Bwd(j) # Loss /\ Upd(j) # Loss
BY FwdFacts, BwdFacts, UpdFacts, LossFacts

LEMMA UsesFinite ==
  ASSUME source \in SourceGraphs, NEW k \in Layer
  PROVE  IsFiniteSet(GradientUses(k))
<1>1. IsFiniteSet(Layer)
  BY LayerFinite
<1>2. IsFiniteSet({1, 2})
  <2>1. IsFiniteSet({1} \cup {2})
    BY FS_Singleton, FS_Union
  <2> QED BY <2>1
<1>3. IsFiniteSet(Layer \X {1, 2})
  BY <1>1, <1>2, FS_Product
<1>4. IsFiniteSet((Layer \X {1, 2}) \cup {<<0, 0>>})
  BY <1>3, FS_AddElement
<1>5. GradientUses(k) \subseteq (Layer \X {1, 2}) \cup {<<0, 0>>}
  BY UseFacts, LayerFacts
<1> QED BY <1>4, <1>5, FS_Subset

LEMMA AtMostOne ==
  ASSUME NEW S, IsFiniteSet(S)
  PROVE  Cardinality(S) <= 1 <=> \A x, y \in S : x = y
<1>1. ASSUME Cardinality(S) <= 1 PROVE \A x, y \in S : x = y
  <2>1. Cardinality(S) = 0 \/ Cardinality(S) = 1
    BY <1>1, FS_CardinalityType
  <2>2. S = {} \/ \E x : S = {x}
    BY <2>1, FS_EmptySet, FS_Singleton
  <2> QED BY <2>2
<1>2. ASSUME \A x, y \in S : x = y PROVE Cardinality(S) <= 1
  <2>1. CASE S = {}
    BY <2>1, FS_EmptySet
  <2>2. CASE S # {}
    <3>1. PICK x \in S : TRUE
      BY <2>2
    <3>2. S = {x}
      BY <1>2, <3>1
    <3>3. Cardinality(S) = 1
      BY <3>2, FS_Singleton
    <3> QED BY <3>3
  <2> QED BY <2>1, <2>2
<1> QED BY <1>1, <1>2

\* No value is made twice if no gradient has to be summed.
LEMMA UniqueMakersIff ==
  ASSUME source \in SourceGraphs
  PROVE  UniqueMakers <=> \A k \in Layer : Cardinality(GradientUses(k)) <= 1
<1>0. \A k \in Layer : \A a \in DOMAIN Args(k) : a \in {1, 2} /\ Args(k)[a] \in Layer
  BY LayerFacts
<1>1. ASSUME UniqueMakers, NEW k \in Layer
      PROVE  Cardinality(GradientUses(k)) <= 1
  <2>1. SUFFICES ASSUME NEW x \in GradientUses(k), NEW y \in GradientUses(k)
                 PROVE  x = y
    BY UsesFinite, AtMostOne
  <2>2. HasLoss \/ k # Logit
    BY LayerFacts DEF HasLoss, Logit
  <2>3. ASSUME NEW u \in Layer, NEW a \in DOMAIN Args(u), Args(u)[a] = k, InPath(u)
        PROVE  MakesAt(Bwd(u), P(ArgumentSlot[a], "grad"), V(k, "grad"))
    BY <2>3, SubsetsOfLayer DEF MakesAt
  <2>4. k = Logit => MakesAt(Loss, P("LOGIT", "grad"), V(k, "grad"))
    BY <2>2 DEF MakesAt
  <2>5. CASE x = <<0, 0>> /\ k = Logit /\ \E u \in Layer : \E a \in DOMAIN Args(u) :
                                              y = <<u, a>> /\ Args(u)[a] = k /\ InPath(u)
    BY <1>1, <2>3, <2>4, <2>5, TasksInjective DEF UniqueMakers
  <2>6. CASE y = <<0, 0>> /\ k = Logit /\ \E u \in Layer : \E a \in DOMAIN Args(u) :
                                              x = <<u, a>> /\ Args(u)[a] = k /\ InPath(u)
    BY <1>1, <2>3, <2>4, <2>6, TasksInjective DEF UniqueMakers
  <2>7. CASE /\ \E u \in Layer : \E a \in DOMAIN Args(u) : x = <<u, a>> /\ Args(u)[a] = k /\ InPath(u)
             /\ \E u \in Layer : \E a \in DOMAIN Args(u) : y = <<u, a>> /\ Args(u)[a] = k /\ InPath(u)
    <3>1. PICK u \in Layer : \E a \in DOMAIN Args(u) : x = <<u, a>> /\ Args(u)[a] = k /\ InPath(u)
      BY <2>7
    <3>2. PICK a \in DOMAIN Args(u) : x = <<u, a>> /\ Args(u)[a] = k /\ InPath(u)
      BY <3>1
    <3>3. PICK w \in Layer : \E b \in DOMAIN Args(w) : y = <<w, b>> /\ Args(w)[b] = k /\ InPath(w)
      BY <2>7
    <3>4. PICK b \in DOMAIN Args(w) : y = <<w, b>> /\ Args(w)[b] = k /\ InPath(w)
      BY <3>3
    <3>5. Bwd(u) = Bwd(w) /\ P(ArgumentSlot[a], "grad") = P(ArgumentSlot[b], "grad")
      BY <1>1, <2>3, <3>2, <3>4 DEF UniqueMakers
    <3>6. u = w
      BY <3>5, TasksInjective
    <3>7. a = b
      BY <1>0, <3>5, SlotsInjective
    <3> QED BY <3>2, <3>4, <3>6, <3>7
  <2> QED BY <2>5, <2>6, <2>7, UseFacts
<1>2. ASSUME \A k \in Layer : Cardinality(GradientUses(k)) <= 1
      PROVE  UniqueMakers
  <2> SUFFICES ASSUME NEW v, NEW i, NEW s, NEW j, NEW t, MakesAt(i, s, v), MakesAt(j, t, v)
               PROVE  i = j /\ s = t
    BY DEF UniqueMakers
  <2>1. ASSUME NEW k \in Layer, v = V(k, "fwd"), NEW x, NEW y, MakesAt(x, y, v)
        PROVE  x = Fwd(k) /\ y = P("OUTPUT", "fwd")
    BY <2>1, ValuesInjective DEF MakesAt
  <2>2. ASSUME NEW k \in Layer, v = V(k, "grad"), NEW x, NEW y, MakesAt(x, y, v)
        PROVE  \/ k = Logit /\ x = Loss /\ y = P("LOGIT", "grad")
               \/ \E u \in Layer : \E a \in DOMAIN Args(u) :
                    /\ Args(u)[a] = k /\ InPath(u)
                    /\ x = Bwd(u) /\ y = P(ArgumentSlot[a], "grad")
    <3>1. CASE \E u \in Differentiated : \E a \in DOMAIN Args(u) :
                 x = Bwd(u) /\ y = P(ArgumentSlot[a], "grad") /\ v = V(Args(u)[a], "grad")
      BY <2>2, <3>1, ValuesInjective, SubsetsOfLayer
    <3>2. CASE x = Loss /\ y = P("LOGIT", "grad") /\ v = V(Logit, "grad")
      BY <2>2, <3>2, ValuesInjective
    <3>3. ~ \E m \in Layer : v = V(m, "fwd")
      BY <2>2, ValuesInjective
    <3> QED BY <2>2, <3>1, <3>2, <3>3 DEF MakesAt
  <2>3. PICK k \in Layer : v = V(k, "fwd") \/ v = V(k, "grad")
    BY MadeValues
  <2>4. CASE v = V(k, "fwd")
    BY <2>1, <2>4
  <2>5. CASE v = V(k, "grad")
    <3>0. \A x, y \in GradientUses(k) : x = y
      BY <1>2, UsesFinite, AtMostOne
    <3>1. \A u \in Layer : \A a \in DOMAIN Args(u) :
            Args(u)[a] = k /\ InPath(u) => <<u, a>> \in GradientUses(k) /\ u # 0
      BY UseFacts, LayerFacts
    <3>2. k = Logit => <<0, 0>> \in GradientUses(k)
      BY UseFacts
    <3>3. \/ k = Logit /\ i = Loss /\ s = P("LOGIT", "grad")
          \/ \E u \in Layer : \E a \in DOMAIN Args(u) :
               /\ Args(u)[a] = k /\ InPath(u)
               /\ i = Bwd(u) /\ s = P(ArgumentSlot[a], "grad")
      BY <2>2, <2>5
    <3>4. \/ k = Logit /\ j = Loss /\ t = P("LOGIT", "grad")
          \/ \E u \in Layer : \E a \in DOMAIN Args(u) :
               /\ Args(u)[a] = k /\ InPath(u)
               /\ j = Bwd(u) /\ t = P(ArgumentSlot[a], "grad")
      BY <2>2, <2>5
    <3>5. CASE k = Logit
      <4>1. ~ \E u \in Layer : \E a \in DOMAIN Args(u) : Args(u)[a] = k /\ InPath(u)
        BY <3>0, <3>1, <3>2, <3>5
      <4> QED BY <3>3, <3>4, <4>1
    <3>6. CASE k # Logit
      <4>1. PICK u \in Layer : \E a \in DOMAIN Args(u) :
               Args(u)[a] = k /\ InPath(u) /\ i = Bwd(u) /\ s = P(ArgumentSlot[a], "grad")
        BY <3>3, <3>6
      <4>2. PICK a \in DOMAIN Args(u) :
               Args(u)[a] = k /\ InPath(u) /\ i = Bwd(u) /\ s = P(ArgumentSlot[a], "grad")
        BY <4>1
      <4>3. PICK w \in Layer : \E b \in DOMAIN Args(w) :
               Args(w)[b] = k /\ InPath(w) /\ j = Bwd(w) /\ t = P(ArgumentSlot[b], "grad")
        BY <3>4, <3>6
      <4>4. PICK b \in DOMAIN Args(w) :
               Args(w)[b] = k /\ InPath(w) /\ j = Bwd(w) /\ t = P(ArgumentSlot[b], "grad")
        BY <4>3
      <4>5. <<u, a>> = <<w, b>>
        BY <3>0, <3>1, <4>2, <4>4
      <4> QED BY <4>2, <4>4, <4>5
    <3> QED BY <3>5, <3>6
  <2> QED BY <2>3, <2>4, <2>5
<1> QED BY <1>1, <1>2

-------------------------------------------------------------------------------
\* The gradient of a weight is read by its update, any other by the layer's
\* backward task if there is one.
LEMMA GradientReaders ==
  ASSUME source \in SourceGraphs, NEW k \in Layer
  PROVE  /\ ~GradientIsConsumed(k) => Sinks(Updated, V(k, "grad")) = {}
         /\ GradientIsConsumed(k) =>
              \E i \in Updated : /\ Sinks(Updated, V(k, "grad")) = {InSite(i, P("OUTPUT", "grad"))}
                                 /\ InSite(i, P("OUTPUT", "grad")) \in SitesMappedByNode(i)
<1>1. GradientIsConsumed(k) <=> k \in Weights \/ k \in Differentiated
  BY SubsetsOfLayer DEF GradientIsConsumed, Weights, Op, InPath
<1>2. ~(k \in Weights /\ k \in Differentiated)
  <2>1. k \in Weights => Arguments(k) = {}
    BY ArgumentsFacts DEF Weights
  <2> QED BY <2>1, PathUnfolds, SubsetsOfLayer DEF InPath
<1>3. "grad" \in UpdateRoles
  BY DEF UpdateRoles
<1>4. ASSUME NEW i, ReadsAt(i, P("OUTPUT", "grad"), V(k, "grad"))
      PROVE  InSite(i, P("OUTPUT", "grad")) \in Sinks(Updated, V(k, "grad"))
  BY <1>4, ReadsTask, SitesOfValue
<1>5. ASSUME NEW t \in Sinks(Updated, V(k, "grad"))
      PROVE  \/ k \in Differentiated /\ t = InSite(Bwd(k), P("OUTPUT", "grad"))
             \/ k \in Weights /\ t = InSite(Upd(k), P("OUTPUT", "grad"))
  <2>1. PICK i \in Updated : \E s \in DOMAIN i.ins : t = InSite(i, s) /\ i.ins[s] = V(k, "grad")
    BY SitesOfValue
  <2>2. PICK s \in DOMAIN i.ins : t = InSite(i, s) /\ i.ins[s] = V(k, "grad")
    BY <2>1
  <2>3. ReadsAt(i, s, V(k, "grad"))
    BY <2>2, TaskReads
  <2>4. Label # V(k, "grad")
    BY LabelFacts, LayerFacts
  <2>5. \/ \E u \in Differentiated : i = Bwd(u) /\ s = P("OUTPUT", "grad") /\ V(k, "grad") = V(u, "grad")
        \/ \E u \in Weights : \E r \in UpdateRoles :
             i = Upd(u) /\ s = P("OUTPUT", r) /\ V(k, "grad") = V(u, r)
    BY <2>3, <2>4, ValueFields DEF ReadsAt
  <2> QED BY <2>2, <2>5, ValuesInjective
<1>6. ASSUME NEW i \in Updated, InSite(i, P("OUTPUT", "grad")) \in Sinks(Updated, V(k, "grad"))
      PROVE  InSite(i, P("OUTPUT", "grad")) \in SitesMappedByNode(i)
  <2>1. PICK j \in Updated : \E s \in DOMAIN j.ins : InSite(i, P("OUTPUT", "grad")) = InSite(j, s)
    BY <1>6, SitesOfValue
  <2>2. PICK s \in DOMAIN j.ins : InSite(i, P("OUTPUT", "grad")) = InSite(j, s)
    BY <2>1
  <2>3. j = i /\ s = P("OUTPUT", "grad")
    BY <2>2 DEF InSite
  <2>4. ~IsWhole(i, P("OUTPUT", "grad"))
    BY SlotFields DEF IsWhole
  <2> QED BY <2>3, <2>4, MappedByNode
<1>7. CASE k \in Differentiated
  <2>1. ReadsAt(Bwd(k), P("OUTPUT", "grad"), V(k, "grad"))
    BY <1>7 DEF ReadsAt
  <2>2. Sinks(Updated, V(k, "grad")) = {InSite(Bwd(k), P("OUTPUT", "grad"))}
    BY <1>2, <1>4, <1>5, <1>7, <2>1
  <2>3. Bwd(k) \in Updated
    BY <2>1, ReadsTask
  <2> QED BY <1>1, <1>6, <1>7, <2>2, <2>3
<1>8. CASE k \in Weights
  <2>1. ReadsAt(Upd(k), P("OUTPUT", "grad"), V(k, "grad"))
    BY <1>3, <1>8 DEF ReadsAt
  <2>2. Sinks(Updated, V(k, "grad")) = {InSite(Upd(k), P("OUTPUT", "grad"))}
    BY <1>2, <1>4, <1>5, <1>8, <2>1
  <2>3. Upd(k) \in Updated
    BY <2>1, ReadsTask
  <2> QED BY <1>1, <1>6, <1>8, <2>2, <2>3
<1>9. CASE k \notin Differentiated /\ k \notin Weights
  BY <1>1, <1>5, <1>9
<1> QED BY <1>7, <1>8, <1>9

LEMMA WholeNeighbours ==
  ASSUME source \in SourceGraphs, NEW i \in Updated
  PROVE  /\ \A s \in DOMAIN i.ins : IsWhole(i, s) =>
              \E a \in Layer : Adjacent(Updated, InSite(i, s)) = {OutSite(Fwd(a), P("OUTPUT", "fwd"))}
         /\ \A s \in DOMAIN i.outs : IsWhole(i, s) =>
              \E k \in Differentiated :
                /\ Op(k) = "replicate" /\ DOMAIN Args(k) = {1} /\ Args(k)[1] \in Layer
                /\ Adjacent(Updated, OutSite(i, s)) = Sinks(Updated, V(Args(k)[1], "grad"))
<1>1. ASSUME NEW s \in DOMAIN i.ins, IsWhole(i, s)
      PROVE  \E a \in Layer : Adjacent(Updated, InSite(i, s)) = {OutSite(Fwd(a), P("OUTPUT", "fwd"))}
  <2>1. i.op = "replicate" /\ s.name = "INPUT"
    BY <1>1 DEF IsWhole
  <2>2. ReadsAt(i, s, i.ins[s])
    BY TaskReads
  <2>3. PICK k \in Layer : Op(k) = "replicate" /\ (i = Fwd(k) \/ i = Bwd(k))
    BY <2>1, WholeSites, SubsetsOfLayer
  <2>4. i.guid = k /\ i # Loss /\ \A u \in Layer : i # Upd(u)
    BY <2>3, TasksInjective, FwdFacts, BwdFacts
  <2>5. P("OUTPUT", "grad").name = "OUTPUT" /\ P("OUTPUT", "fwd").name = "OUTPUT"
    BY SlotFields
  <2>6. \E u \in Layer : \E a \in DOMAIN Args(u) : i.ins[s] = V(Args(u)[a], "fwd")
    BY <2>1, <2>2, <2>4, <2>5, SubsetsOfLayer DEF ReadsAt
  <2>7. PICK a \in Layer : i.ins[s] = V(a, "fwd")
    BY <2>6, LayerFacts
  <2>8. Adjacent(Updated, InSite(i, s)) = Sources(Updated, V(a, "fwd"))
    BY <2>7 DEF Adjacent, ValueAt, InSite
  <2> QED BY <2>8, Neighbours
<1>2. ASSUME NEW s \in DOMAIN i.outs, IsWhole(i, s)
      PROVE  \E k \in Differentiated :
                /\ Op(k) = "replicate" /\ DOMAIN Args(k) = {1} /\ Args(k)[1] \in Layer
                /\ Adjacent(Updated, OutSite(i, s)) = Sinks(Updated, V(Args(k)[1], "grad"))
  <2>1. i.op = "replicate" /\ s.name = "INPUT"
    BY <1>2 DEF IsWhole
  <2>2. MakesAt(i, s, i.outs[s])
    BY TaskMakes
  <2>3. P("OUTPUT", "fwd").name = "OUTPUT"
    BY SlotFields
  <2>4. i # Loss
    BY <2>1, LossFacts
  <2>5. PICK k \in Differentiated : \E a \in DOMAIN Args(k) :
               i = Bwd(k) /\ s = P(ArgumentSlot[a], "grad") /\ i.outs[s] = V(Args(k)[a], "grad")
    BY <2>1, <2>2, <2>3, <2>4 DEF MakesAt
  <2>6. k \in Layer /\ Op(k) = "replicate"
    BY <2>1, <2>5, SubsetsOfLayer, BwdFacts
  <2>7. DOMAIN Args(k) = {1} /\ Args(k)[1] \in Layer
    BY <2>6, LayerFacts
  <2>8. i.outs[s] = V(Args(k)[1], "grad")
    BY <2>5, <2>7
  <2>9. Adjacent(Updated, OutSite(i, s)) = Sinks(Updated, V(Args(k)[1], "grad"))
    BY <2>8 DEF Adjacent, ValueAt, OutSite
  <2> QED BY <2>6, <2>7, <2>9
<1> QED BY <1>1, <1>2

\* No replica's gradient is thrown away.
NoneThrownAway ==
  \A k \in Layer : Op(k) = "replicate" /\ InPath(k) => \A a \in Arguments(k) : GradientIsConsumed(a)

\* A mapping that fits binds the shards of every slot one to one.
LEMMA OneToOneIfFit ==
  ASSUME source \in SourceGraphs, MappingsFit, NEW i \in Updated, NEW site \in SitesMappedByNode(i)
  PROVE  IsOneToOne(NodeMapping(site))
<1>1. PICK s \in DOMAIN i.ins \cup DOMAIN i.outs : (site = InSite(i, s) \/ site = OutSite(i, s)) /\ ~IsWhole(i, s)
  <2>1. site \in InSites(i) \cup OutSites(i)
    BY DEF SitesMappedByNode
  <2> QED BY <2>1, MappedByNode DEF InSites, OutSites, InSite, OutSite
<1>2. NodeMapping(site) = BindingsForSlot(i.mapping, s.name)
  BY <1>1 DEF NodeMapping, InSite, OutSite
<1>3. Apart(i.mapping, s.name)
  <2>1. s.name \in SlotNamesOf(i)
    BY SlotNames
  <2>2. CASE i = Loss
    BY <2>1, <2>2, TaskMapping, FitFacts DEF SlotNamesOf, LossNames
  <2>3. CASE i # Loss
    BY <1>1, <2>1, <2>3, TaskMapping, FitFacts DEF SlotNamesOf, IsWhole
  <2> QED BY <2>2, <2>3
<1> QED BY <1>2, <1>3, ApartFacts

\* Mappings that fit resolve if no replica's gradient is thrown away.
LEMMA ResolvedIff ==
  ASSUME source \in SourceGraphs
  PROVE  /\ Resolved => NoneThrownAway
         /\ MappingsFit /\ NoneThrownAway => Resolved
<1>1. ASSUME Resolved, NEW k \in Layer, Op(k) = "replicate", InPath(k), NEW a \in Arguments(k)
      PROVE  GradientIsConsumed(a)
  <2>1. DOMAIN Args(k) = {1} /\ a = Args(k)[1] /\ a \in Layer
    BY <1>1, LayerFacts, ArgumentsFacts
  <2>2. ArgumentSlot[1] = "INPUT"
    BY DEF ArgumentSlot
  <2>3. k \in Differentiated
    BY <1>1, SubsetsOfLayer
  <2>4. MakesAt(Bwd(k), P("INPUT", "grad"), V(a, "grad"))
    BY <2>1, <2>2, <2>3 DEF MakesAt
  <2> DEFINE i == Bwd(k)
             s == P("INPUT", "grad")
  <2>5. i \in Updated /\ s \in DOMAIN i.outs /\ i.outs[s] = V(a, "grad") /\ i.op = "replicate"
    BY <1>1, <2>4, MakesTask, BwdFacts
  <2>6. IsWhole(i, s)
    BY <2>5, SlotFields DEF IsWhole
  <2> HIDE DEF i, s
  <2>7. OutSite(i, s) \in (InSites(i) \cup OutSites(i)) \ SitesMappedByNode(i)
    BY <2>5, <2>6, MappedByNode DEF OutSites, OutSite
  <2>8. Cardinality(Adjacent(Updated, OutSite(i, s))) = 1
    BY <1>1, <2>5, <2>7 DEF Resolved, MappingsResolve
  <2>9. Adjacent(Updated, OutSite(i, s)) = Sinks(Updated, V(a, "grad"))
    BY <2>5 DEF Adjacent, ValueAt, OutSite
  <2> QED BY <2>1, <2>8, <2>9, GradientReaders, FS_EmptySet
<1>2. ASSUME MappingsFit, NoneThrownAway
      PROVE  Resolved
  <2> SUFFICES ASSUME NEW i \in Updated,
                      NEW site \in (InSites(i) \cup OutSites(i)) \ SitesMappedByNode(i)
               PROVE  \E x : Adjacent(Updated, site) = {x} /\ x \in SitesMappedByNode(x.inv)
    <3>1. ASSUME NEW S, NEW x, S = {x}, x \in SitesMappedByNode(x.inv)
          PROVE  Cardinality(S) = 1 /\ \A s \in S : s \in SitesMappedByNode(s.inv)
      BY <3>1, FS_Singleton
    <3> QED BY <1>2, <3>1, OneToOneIfFit DEF Resolved, MappingsResolve
  <2>0. \A j, s : InSite(j, s).inv = j /\ OutSite(j, s).inv = j
    BY DEF InSite, OutSite
  <2>1. CASE site \in InSites(i)
    <3>1. PICK s \in DOMAIN i.ins : site = InSite(i, s)
      BY <2>1 DEF InSites, InSite
    <3>2. IsWhole(i, s)
      BY <3>1, MappedByNode
    <3>3. PICK a \in Layer : Adjacent(Updated, site) = {OutSite(Fwd(a), P("OUTPUT", "fwd"))}
      BY <3>1, <3>2, WholeNeighbours
    <3>4. MakesAt(Fwd(a), P("OUTPUT", "fwd"), V(a, "fwd"))
      BY DEF MakesAt
    <3>5. Fwd(a) \in Updated /\ P("OUTPUT", "fwd") \in DOMAIN Fwd(a).outs
      BY <3>4, MakesTask
    <3>6. ~IsWhole(Fwd(a), P("OUTPUT", "fwd"))
      BY SlotFields DEF IsWhole
    <3>7. OutSite(Fwd(a), P("OUTPUT", "fwd")) \in SitesMappedByNode(Fwd(a))
      BY <3>5, <3>6, MappedByNode
    <3> QED BY <2>0, <3>3, <3>7
  <2>2. CASE site \in OutSites(i)
    <3>1. PICK s \in DOMAIN i.outs : site = OutSite(i, s)
      BY <2>2 DEF OutSites, OutSite
    <3>2. IsWhole(i, s)
      BY <3>1, MappedByNode
    <3>3. PICK k \in Differentiated :
                /\ Op(k) = "replicate" /\ DOMAIN Args(k) = {1} /\ Args(k)[1] \in Layer
                /\ Adjacent(Updated, site) = Sinks(Updated, V(Args(k)[1], "grad"))
      BY <3>1, <3>2, WholeNeighbours
    <3>4. k \in Layer /\ InPath(k) /\ Args(k)[1] \in Arguments(k)
      BY <3>3, SubsetsOfLayer, ArgumentsFacts
    <3>5. GradientIsConsumed(Args(k)[1])
      BY <1>2, <3>3, <3>4 DEF NoneThrownAway
    <3>6. PICK j \in Updated : /\ Adjacent(Updated, site) = {InSite(j, P("OUTPUT", "grad"))}
                               /\ InSite(j, P("OUTPUT", "grad")) \in SitesMappedByNode(j)
      BY <3>3, <3>5, GradientReaders
    <3> QED BY <2>0, <3>6
  <2> QED BY <2>1, <2>2
<1> QED BY <1>1, <1>2 DEF NoneThrownAway

LEMMA LowerableIff ==
  ASSUME source \in SourceGraphs
  PROVE  Lowerable <=> MappingsFit /\ UniqueMakers /\ Resolved
<1>1. Lowerable <=> MappingsFit /\ (\A k \in Layer : Cardinality(GradientUses(k)) <= 1) /\ NoneThrownAway
  BY DEF Lowerable, NoneThrownAway, Op, InPath
<1> QED BY <1>1, UniqueMakersIff, ResolvedIff

-------------------------------------------------------------------------------
(***************************************************************************)
(* When a graph on devices is valid.                                       *)
(***************************************************************************)
LEMMA OnceIf ==
  ASSUME NEW g,
         \A y, z \in g : \A t \in DOMAIN y.outs : \A u \in DOMAIN z.outs :
           y.outs[t] = z.outs[u] => y = z /\ t = u
  PROVE  ProducedAtMostOnce(g)
<1> SUFFICES ASSUME NEW v \in Outputs(g)
             PROVE  \E x : Sources(g, v) = {x}
  BY FS_Singleton DEF ProducedAtMostOnce
<1>1. PICK y \in g : \E t \in DOMAIN y.outs : v = y.outs[t]
  BY DEF Outputs, Values, Range
<1>2. PICK t \in DOMAIN y.outs : v = y.outs[t]
  BY <1>1
<1>3. OutSite(y, t) \in Sources(g, v)
  BY <1>2 DEF Sources, OutSites, OutSite, ValueAt
<1>4. \A x \in Sources(g, v) : x = OutSite(y, t)
  <2> TAKE x \in Sources(g, v)
  <2>1. PICK z \in g : \E u \in DOMAIN z.outs : x = OutSite(z, u)
    BY DEF Sources, OutSites, OutSite
  <2>2. PICK u \in DOMAIN z.outs : x = OutSite(z, u)
    BY <2>1
  <2>3. z.outs[u] = v
    BY <2>2 DEF Sources, OutSite, ValueAt
  <2> QED BY <1>2, <2>2, <2>3
<1>5. Sources(g, v) = {OutSite(y, t)}
  BY <1>3, <1>4
<1> QED BY <1>5

\* A value of the tensor and role of v on devices d.
OfPlace(w, v, d) == w.tensor = v.tensor /\ w.role = v.role /\ w.mapping = PlaceOf(d)

\* A value is made at its home, or is a copy of one.
AtHome(w) == \E i, s, v : MakesAt(i, s, v) /\ OfPlace(w, v, Home(i, s))
LevelThere(w) == 2 * LevelOf(w) + (IF AtHome(w) THEN 0 ELSE 1)

\* What a task or a shard of it does to values, and what a copy does.
DoesTask(y) ==
  \E i \in Updated :
    /\ \A w \in Values(y.ins) : \E s, v, d : ReadsAt(i, s, v) /\ OfPlace(w, v, d)
    /\ \A w \in Values(y.outs) : \E s, v, d : MakesAt(i, s, v) /\ OfPlace(w, v, d)

DoesCopy(y) ==
  \E i, s, v, d :
    /\ MakesAt(i, s, v) /\ PlaceOf(d) # PlaceOf(Home(i, s))
    /\ \A w \in Values(y.ins) : OfPlace(w, v, Home(i, s))
    /\ \A w \in Values(y.outs) : OfPlace(w, v, d)

LEMMA SameLevel ==
  ASSUME NEW w, NEW v, NEW d, OfPlace(w, v, d)
  PROVE  LevelOf(w) = LevelOf(v)
BY DEF OfPlace, LevelOf

LEMMA SameValue ==
  ASSUME source \in SourceGraphs, NEW i, NEW s, NEW v, MakesAt(i, s, v), NEW j, NEW t, NEW u,
         MakesAt(j, t, u), v.tensor = u.tensor, v.role = u.role
  PROVE  v = u
<1>1. PICK k \in Layer, r \in {"fwd", "grad"} : v = V(k, r)
  BY MadeValues
<1>2. PICK m \in Layer, q \in {"fwd", "grad"} : u = V(m, q)
  BY MadeValues
<1> QED BY <1>1, <1>2, ValueFields

LEMMA PlacedAcyclic ==
  ASSUME source \in SourceGraphs, UniqueMakers, NEW g, IsFiniteSet(g),
         \A y \in g : DoesTask(y) \/ DoesCopy(y)
  PROVE  IsAcyclic(g)
<1> DEFINE level == [v \in AllValues(g) |-> LevelThere(v)]
<1>1. \A v \in AllValues(g) : level[v] = LevelThere(v)
  OBVIOUS
<1> HIDE DEF level
<1>2. ASSUME NEW y \in g
      PROVE  /\ \A w \in Values(y.ins) : w \in AllValues(g)
             /\ \A w \in Values(y.outs) : w \in AllValues(g)
  BY DEF AllValues, Inputs, Outputs
<1>3. \A v \in AllValues(g) : LevelOf(v) \in Nat
  <2> TAKE v \in AllValues(g)
  <2>1. PICK y \in g : v \in Values(y.ins) \/ v \in Values(y.outs)
    BY DEF AllValues, Inputs, Outputs
  <2>2. \E i, s, u, d : (ReadsAt(i, s, u) \/ MakesAt(i, s, u)) /\ OfPlace(v, u, d)
    BY <2>1 DEF DoesTask, DoesCopy
  <2> QED BY <2>2, PortLevels, SameLevel
<1>4. \A v : LevelThere(v) = 2 * LevelOf(v) + 0 \/ LevelThere(v) = 2 * LevelOf(v) + 1
  BY DEF LevelThere
<1>5. \A v \in AllValues(g) : level[v] \in Nat
  BY <1>1, <1>3, <1>4
<1>6. ASSUME NEW y \in g, NEW v \in Values(y.ins), NEW w \in Values(y.outs)
      PROVE  level[v] < level[w]
  <2>1. /\ v \in AllValues(g) /\ w \in AllValues(g)
        /\ level[v] = LevelThere(v) /\ level[w] = LevelThere(w)
        /\ LevelOf(v) \in Nat /\ LevelOf(w) \in Nat
    BY <1>1, <1>2, <1>3
  <2>2. CASE DoesTask(y)
    <3>1. PICK i \in Updated :
            /\ \E s, u, d : ReadsAt(i, s, u) /\ OfPlace(v, u, d)
            /\ \E s, u, d : MakesAt(i, s, u) /\ OfPlace(w, u, d)
      BY <2>2 DEF DoesTask
    <3>2. PICK s, u, d : ReadsAt(i, s, u) /\ OfPlace(v, u, d)
      BY <3>1
    <3>3. PICK t, x, e : MakesAt(i, t, x) /\ OfPlace(w, x, e)
      BY <3>1
    <3>4. LevelOf(u) < LevelOf(x)
      BY <3>2, <3>3, TaskLevels
    <3>5. LevelOf(v) < LevelOf(w)
      BY <3>2, <3>3, <3>4, SameLevel
    <3> QED BY <1>4, <2>1, <3>5
  <2>3. CASE DoesCopy(y)
    <3>1. PICK i, s, u, d :
            /\ MakesAt(i, s, u) /\ PlaceOf(d) # PlaceOf(Home(i, s))
            /\ OfPlace(v, u, Home(i, s)) /\ OfPlace(w, u, d)
      BY <2>3 DEF DoesCopy
    <3>2. AtHome(v)
      BY <3>1 DEF AtHome
    <3>3. ~AtHome(w)
      <4> SUFFICES ASSUME AtHome(w) PROVE FALSE
        OBVIOUS
      <4>1. PICK j, t, x : MakesAt(j, t, x) /\ OfPlace(w, x, Home(j, t))
        BY DEF AtHome
      <4>2. x.tensor = u.tensor /\ x.role = u.role
        BY <3>1, <4>1 DEF OfPlace
      <4>3. x = u
        BY <3>1, <4>1, <4>2, SameValue
      <4>4. j = i /\ t = s
        BY <3>1, <4>1, <4>3 DEF UniqueMakers
      <4> QED BY <3>1, <4>1, <4>4 DEF OfPlace
    <3>4. LevelOf(v) = LevelOf(w)
      BY <3>1, SameLevel
    <3>5. LevelThere(v) = 2 * LevelOf(v) + 0 /\ LevelThere(w) = 2 * LevelOf(w) + 1
      BY <3>2, <3>3 DEF LevelThere
    <3> QED BY <2>1, <3>4, <3>5
  <2> QED BY <2>2, <2>3
<1> QED BY <1>5, <1>6, LevelledIsAcyclic DEF Levelled

-------------------------------------------------------------------------------
(***************************************************************************)
(* The copied graph is valid.                                              *)
(***************************************************************************)
LEMMA MoverSlots ==
  ASSUME source \in SourceGraphs, NEW i, NEW s, NEW j, NEW t, Moves(i, s, j, t)
  PROVE  /\ \E m \in MakerSlots : s = P(m[1], m[2])
         /\ \E m \in MakerSlots : t = P(m[1], m[2])
<1>0. \A k \in Layer : \A a \in DOMAIN Args(k) : ArgumentSlot[a] \in {"INPUT", "WEIGHT"}
  BY LayerFacts DEF ArgumentSlot
<1>1. \A name \in {"INPUT", "WEIGHT", "OUTPUT", "LOGIT"} : \A r \in {"fwd", "grad"} :
        \E m \in MakerSlots : P(name, r) = P(m[1], m[2])
  <2> TAKE name \in {"INPUT", "WEIGHT", "OUTPUT", "LOGIT"}, r \in {"fwd", "grad"}
  <2>1. <<name, r>> \in MakerSlots /\ <<name, r>>[1] = name /\ <<name, r>>[2] = r
    BY DEF MakerSlots
  <2> QED BY <2>1
<1>2. MakesAt(i, s, i.outs[s]) /\ ReadsAt(j, t, i.outs[s])
  BY MovesFacts
<1>3. \E name \in {"INPUT", "WEIGHT", "OUTPUT", "LOGIT"} : \E r \in {"fwd", "grad"} : s = P(name, r)
  BY <1>0, <1>2, SubsetsOfLayer DEF MakesAt
<1>4. \E name \in {"INPUT", "WEIGHT", "OUTPUT", "LOGIT"} : \E r \in {"fwd", "grad"} : t = P(name, r)
  <2>1. PICK k \in Layer, r \in {"fwd", "grad"} : i.outs[s] = V(k, r)
    BY MovesFacts
  <2>2. V(k, r).role = r /\ \A q : P("OUTPUT", q).role = q /\ P("INPUT", "loss").role = "loss"
    BY ValueFields, SlotFields
  <2>3. t.role = r
    BY <1>2, <2>1, <2>2, ReadValues
  <2> QED BY <1>0, <1>2, <2>2, <2>3, SubsetsOfLayer DEF ReadsAt
<1> QED BY <1>1, <1>3, <1>4

LEMMA MakerSlotsFinite == IsFiniteSet(MakerSlots)
<1>1. IsFiniteSet({"INPUT"} \cup {"WEIGHT"}) /\ IsFiniteSet({"OUTPUT"} \cup {"LOGIT"})
      /\ IsFiniteSet({"fwd"} \cup {"grad"})
  BY FS_Singleton, FS_Union
<1>2. IsFiniteSet(({"INPUT"} \cup {"WEIGHT"}) \cup ({"OUTPUT"} \cup {"LOGIT"}))
  BY <1>1, FS_Union
<1>3. /\ {"INPUT", "WEIGHT", "OUTPUT", "LOGIT"} = ({"INPUT"} \cup {"WEIGHT"}) \cup ({"OUTPUT"} \cup {"LOGIT"})
      /\ {"fwd", "grad"} = {"fwd"} \cup {"grad"}
  OBVIOUS
<1>4. IsFiniteSet({"INPUT", "WEIGHT", "OUTPUT", "LOGIT"}) /\ IsFiniteSet({"fwd", "grad"})
  BY <1>1, <1>2, <1>3
<1> QED BY <1>4, FS_Product DEF MakerSlots

LEMMA CopiedFinite ==
  ASSUME source \in SourceGraphs, Resolved
  PROVE  IsFiniteSet(Copied)
<1> DEFINE tasks == {x \in Copied : \E i \in Updated : x = M(i)}
           copies == {x \in Copied : IsCopy(x)}
<1>1. IsFiniteSet(tasks)
  <2> DEFINE f == [i \in Updated |-> M(i)]
  <2>1. DOMAIN f = Updated /\ \A i \in Updated : f[i] = M(i)
    OBVIOUS
  <2>2. \A x \in tasks : \E i \in Updated : x = M(i)
    OBVIOUS
  <2> HIDE DEF f, tasks
  <2> QED BY <2>1, <2>2, UpdatedFinite, FiniteImage
<1>2. IsFiniteSet(copies)
  <2> DEFINE Sites == Updated \X MakerSlots
             D == Sites \X Sites
             C(i, m, j, n) == Copy(i.outs[P(m[1], m[2])], Home(i, P(m[1], m[2])), Home(j, P(n[1], n[2])))
             f == [x \in D |-> C(x[1][1], x[1][2], x[2][1], x[2][2])]
  <2>1. IsFiniteSet(D)
    <3>1. IsFiniteSet(Sites)
      BY MakerSlotsFinite, UpdatedFinite, FS_Product
    <3> HIDE DEF Sites
    <3> QED BY <3>1, FS_Product
  <2>2. \A i, j \in Updated : \A m, n \in MakerSlots :
          <<<<i, m>>, <<j, n>>>> \in D /\ f[<<<<i, m>>, <<j, n>>>>] = C(i, m, j, n)
    <3> HIDE DEF C
    <3> QED OBVIOUS
  <2>3. DOMAIN f = D
    OBVIOUS
  <2>4. \A x \in copies : \E y \in DOMAIN f : x = f[y]
    <3> TAKE x \in copies
    <3>1. PICK i, s, j, t : Moves(i, s, j, t) /\ x = Copy(i.outs[s], Home(i, s), Home(j, t))
      BY DEF IsCopy
    <3>2. PICK m \in MakerSlots : s = P(m[1], m[2])
      BY <3>1, MoverSlots
    <3>3. PICK n \in MakerSlots : t = P(n[1], n[2])
      BY <3>1, MoverSlots
    <3>4. i \in Updated /\ j \in Updated
      BY <3>1 DEF Moves
    <3>5. x = C(i, m, j, n)
      BY <3>1, <3>2, <3>3
    <3> HIDE DEF f, D, C
    <3> QED BY <2>2, <2>3, <3>4, <3>5
  <2> HIDE DEF f, D, C, copies
  <2> QED BY <2>1, <2>3, <2>4, FiniteImage
<1>3. Copied = tasks \cup copies
  BY CopiedMembers
<1> HIDE DEF tasks, copies
<1> QED BY <1>1, <1>2, <1>3, FS_Union

LEMMA PlacedInjective ==
  ASSUME NEW v, NEW w, IsPlain(v), IsPlain(w), NEW d, NEW e, Placed(v, d) = Placed(w, e)
  PROVE  v = w /\ PlaceOf(d) = PlaceOf(e)
BY ShardsInjective DEF IsPlain

\* What the copied graph's outputs are.
LEMMA CopiedOutputs ==
  ASSUME source \in SourceGraphs, Resolved, NEW y \in Copied, NEW t \in DOMAIN y.outs
  PROVE  \/ \E i : /\ MakesAt(i, t, i.outs[t])
                   /\ y = M(i) /\ y.outs[t] = Placed(i.outs[t], Home(i, t))
         \/ \E i, s, j, l : /\ Moves(i, s, j, l) /\ MakesAt(i, s, i.outs[s])
                            /\ y = Copy(i.outs[s], Home(i, s), Home(j, l)) /\ t = Slot("OUTPUT")
                            /\ y.outs[t] = Placed(i.outs[s], Home(j, l))
<1>1. CASE \E i \in Updated : y = M(i)
  <2>1. PICK i \in Updated : y = M(i)
    BY <1>1
  <2>2. t \in DOMAIN i.outs /\ y.outs[t] = Placed(i.outs[t], Home(i, t))
    BY <2>1, MappedFields
  <2>3. MakesAt(i, t, i.outs[t])
    BY <2>2, TaskMakes
  <2> QED BY <2>1, <2>2, <2>3
<1>2. CASE IsCopy(y)
  <2>1. PICK i, s, j, l : Moves(i, s, j, l) /\ y = Copy(i.outs[s], Home(i, s), Home(j, l))
    BY <1>2 DEF IsCopy
  <2>2. DOMAIN y.outs = {Slot("OUTPUT")} /\ y.outs[Slot("OUTPUT")] = Placed(i.outs[s], Home(j, l))
    BY <2>1, CopyFields
  <2>3. MakesAt(i, s, i.outs[s])
    BY <2>1, MovesFacts
  <2> QED BY <2>1, <2>2, <2>3
<1> QED BY <1>1, <1>2, CopiedMembers

LEMMA CopiedOnce ==
  ASSUME source \in SourceGraphs, Resolved, UniqueMakers
  PROVE  ProducedAtMostOnce(Copied)
<1> SUFFICES ASSUME NEW y \in Copied, NEW z \in Copied, NEW t \in DOMAIN y.outs, NEW u \in DOMAIN z.outs,
                    y.outs[t] = z.outs[u]
             PROVE  y = z /\ t = u
  BY OnceIf
<1> DEFINE Home1(x, o, i) == /\ MakesAt(i, o, i.outs[o])
                             /\ x = M(i) /\ x.outs[o] = Placed(i.outs[o], Home(i, o))
           Copy1(x, o, i, s, j, l) ==
             /\ Moves(i, s, j, l) /\ MakesAt(i, s, i.outs[s])
             /\ x = Copy(i.outs[s], Home(i, s), Home(j, l)) /\ o = Slot("OUTPUT")
             /\ x.outs[o] = Placed(i.outs[s], Home(j, l))
<1>1. (\E i : Home1(y, t, i)) \/ (\E i, s, j, l : Copy1(y, t, i, s, j, l))
  BY CopiedOutputs
<1>2. (\E i : Home1(z, u, i)) \/ (\E i, s, j, l : Copy1(z, u, i, s, j, l))
  BY CopiedOutputs
<1>3. ASSUME NEW x, NEW o, NEW i, NEW w, NEW p, NEW m, NEW s, NEW j, NEW l,
             Home1(x, o, i), Copy1(w, p, m, s, j, l), x.outs[o] = w.outs[p]
      PROVE  FALSE
  <2>0. IsPlain(i.outs[o]) /\ IsPlain(m.outs[s])
    BY <1>3, PlainPorts
  <2>1. Placed(i.outs[o], Home(i, o)) = Placed(m.outs[s], Home(j, l))
    BY <1>3
  <2>2. i.outs[o] = m.outs[s] /\ PlaceOf(Home(i, o)) = PlaceOf(Home(j, l))
    BY <2>0, <2>1, PlacedInjective
  <2>3. i = m /\ o = s
    BY <1>3, <2>2 DEF UniqueMakers
  <2> QED BY <1>3, <2>2, <2>3 DEF Moves
<1>4. ASSUME NEW i, NEW j, Home1(y, t, i), Home1(z, u, j)
      PROVE  y = z /\ t = u
  <2>1. i.outs[t] = j.outs[u]
    BY <1>4, PlainPorts, PlacedInjective
  <2> QED BY <1>4, <2>1 DEF UniqueMakers
<1>5. ASSUME NEW i, NEW s, NEW j, NEW l, NEW m, NEW r, NEW k, NEW q,
             Copy1(y, t, i, s, j, l), Copy1(z, u, m, r, k, q)
      PROVE  y = z /\ t = u
  <2>1. i.outs[s] = m.outs[r] /\ PlaceOf(Home(j, l)) = PlaceOf(Home(k, q))
    BY <1>5, PlainPorts, PlacedInjective
  <2>2. i = m /\ s = r
    BY <1>5, <2>1 DEF UniqueMakers
  <2>3. y = CopyTask(i.outs[s], PlaceOf(Home(i, s)), PlaceOf(Home(j, l)))
    BY <1>5 DEF Copy
  <2>4. z = CopyTask(i.outs[s], PlaceOf(Home(i, s)), PlaceOf(Home(j, l)))
    BY <1>5, <2>1, <2>2 DEF Copy
  <2> QED BY <1>5, <2>3, <2>4
<1> HIDE DEF Home1, Copy1
<1> QED BY <1>1, <1>2, <1>3, <1>4, <1>5

LEMMA CopiedAcyclic ==
  ASSUME source \in SourceGraphs, Resolved, UniqueMakers
  PROVE  IsAcyclic(Copied)
<1> SUFFICES ASSUME NEW y \in Copied PROVE DoesTask(y) \/ DoesCopy(y)
  BY CopiedFinite, PlacedAcyclic
<1>0. \A v, d : IsPlain(v) => OfPlace(Placed(v, d), v, d)
  BY PlacedFields DEF IsPlain, OfPlace
<1>1. CASE \E i \in Updated : y = M(i)
  <2>1. PICK i \in Updated : y = M(i)
    BY <1>1
  <2>2. ASSUME NEW w \in Values(y.ins) PROVE \E s, v, d : ReadsAt(i, s, v) /\ OfPlace(w, v, d)
    <3>1. PICK s \in DOMAIN y.ins : w = y.ins[s]
      BY DEF Values, Range
    <3>2. s \in DOMAIN i.ins /\ w = Placed(i.ins[s], Home(i, s))
      BY <2>1, <3>1, MappedFields
    <3>3. ReadsAt(i, s, i.ins[s])
      BY <3>2, TaskReads
    <3> QED BY <1>0, <3>2, <3>3, PlainPorts
  <2>3. ASSUME NEW w \in Values(y.outs) PROVE \E s, v, d : MakesAt(i, s, v) /\ OfPlace(w, v, d)
    <3>1. PICK s \in DOMAIN y.outs : w = y.outs[s]
      BY DEF Values, Range
    <3>2. s \in DOMAIN i.outs /\ w = Placed(i.outs[s], Home(i, s))
      BY <2>1, <3>1, MappedFields
    <3>3. MakesAt(i, s, i.outs[s])
      BY <3>2, TaskMakes
    <3> QED BY <1>0, <3>2, <3>3, PlainPorts
  <2> QED BY <2>2, <2>3 DEF DoesTask
<1>2. CASE IsCopy(y)
  <2>1. PICK i, s, j, l : Moves(i, s, j, l) /\ y = Copy(i.outs[s], Home(i, s), Home(j, l))
    BY <1>2 DEF IsCopy
  <2> DEFINE v == i.outs[s]
             from == Home(i, s)
             to == Home(j, l)
  <2>2. MakesAt(i, s, v) /\ PlaceOf(to) # PlaceOf(from)
    BY <2>1, MovesFacts DEF Moves
  <2>3. Values(y.ins) = {Placed(v, from)} /\ Values(y.outs) = {Placed(v, to)}
    BY <2>1, CopyFields
  <2>4. OfPlace(Placed(v, from), v, from) /\ OfPlace(Placed(v, to), v, to)
    BY <1>0, <2>2, PlainPorts
  <2> HIDE DEF v, to
  <2> QED BY <2>2, <2>3, <2>4 DEF DoesCopy
<1> QED BY <1>1, <1>2, CopiedMembers

LEMMA CopiedIsValid ==
  ASSUME source \in SourceGraphs, UniqueMakers, Resolved
  PROVE  CopiedOK
BY CopiedOnce, CopiedAcyclic DEF CopiedOK, IsValid, Resolved

-------------------------------------------------------------------------------
(***************************************************************************)
(* Shard expansion succeeds.                                               *)
(***************************************************************************)
\* Every shard that is replicated is on some device.
LEMMA ReplicasExist ==
  ASSUME source \in SourceGraphs, MappingsFit, NEW i \in Updated, i.op = "replicate", NEW p \in ShardNumbers(i)
  PROVE  \E d \in DOMAIN i.mapping : i.mapping[d]["INPUT"] = p
<1>1. i.guid \in Layer /\ Op(i.guid) = "replicate" /\ i.mapping = MapOf(i.guid)
  BY LossFacts, TaskMapping
<1>2. DOMAIN Args(i.guid) = {1} /\ Args(i.guid)[1] \in Layer /\ ArgumentSlot[1] = "INPUT"
  BY <1>1, LayerFacts DEF ArgumentSlot
<1>3. ShardsAt(MapOf(i.guid), "INPUT") = DOMAIN Dev(Args(i.guid)[1])
  BY <1>1, <1>2, FitFacts, DeviceFacts
<1>4. p \in ShardsAt(i.mapping, "INPUT")
  BY <1>1, <1>3 DEF ShardNumbers
<1> QED BY <1>4 DEF ShardsAt

\* A mapped value has the shards of its home.
LEMMA MappedCoordinates ==
  ASSUME source \in SourceGraphs, Resolved, NEW i \in Updated
  PROVE  /\ \A s \in DOMAIN i.ins : Coordinates(M(i).ins[s]) = DOMAIN Home(i, s)
         /\ \A s \in DOMAIN i.outs : Coordinates(M(i).outs[s]) = DOMAIN Home(i, s)
<1>1. ASSUME NEW v, IsValue(v), NEW d, IsDevices(d)
      PROVE  Coordinates(Placed(v, d)) = DOMAIN d
  BY <1>1, PlacedFields, PlaceFacts
<1> QED BY <1>1, MappedFields, PortsOfTasks

\* In mappings that fit, a binding names shards that the values have.
LEMMA AllShardsAgree ==
  ASSUME source \in SourceGraphs, Resolved, MappingsFit, NEW x \in Copied
  PROVE  ShardsAgree(x)
<1>1. CASE \E i \in Updated : x = M(i)
  <2>1. PICK i \in Updated : x = M(i)
    BY <1>1
  <2>2. /\ x.op = i.op /\ x.task = i.task /\ x.mapping = i.mapping /\ x.op # "copy"
        /\ DOMAIN x.ins = DOMAIN i.ins /\ DOMAIN x.outs = DOMAIN i.outs
    BY <2>1, MappedFields, TaskMapping
  <2>3. CASE i.op = "replicate"
    <3>1. ASSUME NEW v \in Values(WholePorts(x)), NEW c \in Coordinates(v)
          PROVE  DevicesFor(x, c) # {}
      <4>1. PICK s : /\ s.name = "INPUT"
                     /\ \/ s \in DOMAIN i.ins /\ v = x.ins[s]
                        \/ s \in DOMAIN i.outs /\ v = x.outs[s]
        <5>1. \A r : P("INPUT", r).name = "INPUT"
          BY SlotFields
        <5> QED BY <2>2, <2>3, <5>1, WholeSites DEF WholePorts, Values, Range
      <4>2. Coordinates(v) = DOMAIN Home(i, s)
        BY <2>1, <4>1, MappedCoordinates
      <4>3. Home(i, s) = Dev(Args(i.guid)[1])
        BY <2>3, <4>1 DEF Home, IsWhole
      <4>4. c \in ShardNumbers(i)
        BY <2>3, <4>2, <4>3 DEF ShardNumbers
      <4> QED BY <2>2, <2>3, <4>4, ReplicasExist DEF DevicesFor
    <3> QED BY <2>2, <2>3, <3>1 DEF ShardsAgree
  <2>4. CASE i.op # "replicate"
    <3>1. ASSUME NEW e \in DOMAIN i.mapping, NEW s \in DOMAIN i.ins \cup DOMAIN i.outs
          PROVE  i.mapping[e][s.name] \in DOMAIN Home(i, s)
      BY <2>4, PlacesFacts DEF Home, IsWhole
    <3>2. \A e \in DOMAIN i.mapping : \A s \in DOMAIN i.ins : i.mapping[e][s.name] \in Coordinates(x.ins[s])
      BY <2>1, <3>1, MappedCoordinates
    <3>3. \A e \in DOMAIN i.mapping : \A s \in DOMAIN i.outs : i.mapping[e][s.name] \in Coordinates(x.outs[s])
      BY <2>1, <3>1, MappedCoordinates
    <3> QED BY <2>2, <2>4, <3>2, <3>3 DEF ShardsAgree
  <2> QED BY <2>3, <2>4
<1>2. CASE IsCopy(x)
  <2>1. PICK i, s, j, t : Moves(i, s, j, t) /\ x = Copy(i.outs[s], Home(i, s), Home(j, t))
    BY <1>2 DEF IsCopy
  <2>2. /\ x.op = "copy" /\ Values(x.ins) = {Placed(i.outs[s], Home(i, s))}
        /\ Values(x.outs) = {Placed(i.outs[s], Home(j, t))}
    BY <2>1, CopyFields
  <2>3. DOMAIN Home(i, s) = DOMAIN Home(j, t)
    BY <2>1, MovesAlike
  <2>4. \A d : IsDevices(d) => Coordinates(Placed(i.outs[s], d)) = DOMAIN d
    <3>1. IsValue(i.outs[s])
      BY <2>1, MovesFacts
    <3> TAKE d
    <3>2. Placed(i.outs[s], d).mapping = PlaceOf(d)
      BY <3>1, PlacedFields
    <3> QED BY <3>2, PlaceFacts
  <2>5. IsDevices(Home(i, s)) /\ IsDevices(Home(j, t))
    BY <2>1, MovesFacts
  <2> QED BY <2>2, <2>3, <2>4, <2>5 DEF ShardsAgree
<1> QED BY <1>1, <1>2, CopiedMembers

\* A layer has one task of a type, and the loss is no layer's.
LEMMA TasksByName ==
  ASSUME source \in SourceGraphs, NEW i \in Updated, NEW j \in Updated,
         i.guid = j.guid, i.task = j.task
  PROVE  i = j
<1>1. \A k \in Layer : /\ Fwd(k).guid = k /\ Fwd(k).task = "FWD"
                       /\ Bwd(k).guid = k /\ Bwd(k).task = "BWD"
                       /\ Upd(k).guid = k /\ Upd(k).task = "UPD"
  BY FwdFacts, BwdFacts, UpdFacts
<1>2. Loss.task = "LOSS"
  BY LossFacts
<1>3. IsTask(i) /\ IsTask(j)
  BY UpdatedMembers
<1> QED BY <1>1, <1>2, <1>3, SubsetsOfLayer DEF IsTask

LEMMA ShardsOfMove ==
  ASSUME source \in SourceGraphs, NEW i, NEW s, NEW j, NEW t, Moves(i, s, j, t)
  PROVE  \A z : z \in Shards(Copy(i.outs[s], Home(i, s), Home(j, t))) <=>
           \E q \in DOMAIN Home(i, s) : z = CopyShard(i.outs[s], Home(i, s), Home(j, t), q)
<1>1. IsValue(i.outs[s]) /\ IsDevices(Home(i, s))
  BY MovesFacts
<1> QED BY <1>1, ShardsOfCopy

LEMMA CopiesInjective ==
  ASSUME NEW v, NEW w, IsPlain(v), IsPlain(w), NEW from, NEW to, NEW q, NEW here, NEW there, NEW r,
         CopyShard(v, from, to, q) = CopyShard(w, here, there, r)
  PROVE  Copy(v, from, to) = Copy(w, here, there)
<1>1. W(v, from, q) = W(w, here, r) /\ W(v, to, q) = W(w, there, r)
  <2>1. /\ CopyShard(v, from, to, q).ins[Slot("INPUT")] = W(v, from, q)
        /\ CopyShard(v, from, to, q).outs[Slot("OUTPUT")] = W(v, to, q)
    BY CopyShardFields
  <2>2. /\ CopyShard(w, here, there, r).ins[Slot("INPUT")] = W(w, here, r)
        /\ CopyShard(w, here, there, r).outs[Slot("OUTPUT")] = W(w, there, r)
    BY CopyShardFields
  <2> QED BY <2>1, <2>2
<1>2. v = w /\ PlaceOf(from) = PlaceOf(here)
  BY <1>1, PlainShards
<1>3. PlaceOf(to) = PlaceOf(there)
  BY <1>1, PlainShards
<1> QED BY <1>2, <1>3 DEF Copy

\* No two invocations have a shard in common.
LEMMA ShardsSeparate ==
  ASSUME source \in SourceGraphs, Resolved
  PROVE  NoDuplicates(Copied, Shards)
<1> SUFFICES ASSUME NEW x \in Copied, NEW y \in Copied, NEW z, z \in Shards(x), z \in Shards(y)
             PROVE  x = y
  BY DEF NoDuplicates
<1> DEFINE Task(w, i, p) == i \in Updated /\ w = M(i) /\ p \in ShardNumbers(i) /\ IsShard(z, i, p)
           Move(w, i, s, j, t, q) ==
             /\ Moves(i, s, j, t) /\ w = Copy(i.outs[s], Home(i, s), Home(j, t))
             /\ z = CopyShard(i.outs[s], Home(i, s), Home(j, t), q)
<1>1. ASSUME NEW w \in Copied, z \in Shards(w)
      PROVE  (\E i, p : Task(w, i, p)) \/ (\E i, s, j, t, q : Move(w, i, s, j, t, q))
  <2>1. CASE \E i \in Updated : w = M(i)
    <3>1. PICK i \in Updated : w = M(i)
      BY <2>1
    <3>2. PICK p \in ShardNumbers(i) : z = Shard(i, p)
      BY <1>1, <3>1, ShardsOfTask
    <3>3. IsShard(z, i, p)
      BY <3>2, ShardsOfTask
    <3> QED BY <3>1, <3>3
  <2>2. CASE IsCopy(w)
    <3>1. PICK i, s, j, t : Moves(i, s, j, t) /\ w = Copy(i.outs[s], Home(i, s), Home(j, t))
      BY <2>2 DEF IsCopy
    <3>2. PICK q \in DOMAIN Home(i, s) : z = CopyShard(i.outs[s], Home(i, s), Home(j, t), q)
      BY <1>1, <3>1, ShardsOfMove
    <3> QED BY <3>1, <3>2
  <2> QED BY <1>1, <2>1, <2>2, CopiedMembers
<1>2. ASSUME NEW v, NEW w, NEW i, NEW p, Task(v, i, p),
             NEW j, NEW s, NEW k, NEW t, NEW q, Move(w, j, s, k, t, q)
      PROVE  FALSE
  <2>1. z.op = i.op /\ i.op # "copy"
    BY <1>2, TaskMapping DEF IsShard
  <2>2. z.op = "copy"
    BY <1>2, CopyShardFields
  <2> QED BY <2>1, <2>2
<1>3. ASSUME NEW i, NEW p, Task(x, i, p), NEW j, NEW q, Task(y, j, q)
      PROVE  x = y
  <2>1. i.guid = j.guid /\ i.task = j.task
    BY <1>3 DEF IsShard
  <2>2. i = j
    BY <1>3, <2>1, TasksByName
  <2> QED BY <1>3, <2>2
<1>4. ASSUME NEW i, NEW s, NEW j, NEW t, NEW q, Move(x, i, s, j, t, q),
             NEW k, NEW u, NEW l, NEW n, NEW r, Move(y, k, u, l, n, r)
      PROVE  x = y
  <2>1. MakesAt(i, s, i.outs[s]) /\ MakesAt(k, u, k.outs[u])
    BY <1>4, MovesFacts
  <2>2. IsPlain(i.outs[s]) /\ IsPlain(k.outs[u])
    BY <2>1, PlainPorts
  <2>3. CopyShard(i.outs[s], Home(i, s), Home(j, t), q) = CopyShard(k.outs[u], Home(k, u), Home(l, n), r)
    BY <1>4
  <2>4. Copy(i.outs[s], Home(i, s), Home(j, t)) = Copy(k.outs[u], Home(k, u), Home(l, n))
    BY <2>2, <2>3, CopiesInjective
  <2> QED BY <1>4, <2>4
<1> HIDE DEF Task, Move
<1> QED BY <1>1, <1>2, <1>3, <1>4

LEMMA ShardedFinite ==
  ASSUME source \in SourceGraphs, Resolved
  PROVE  IsFiniteSet(Sharded)
<1>1. \A x \in Copied : IsFiniteSet(Shards(x))
  <2> TAKE x \in Copied
  <2>1. CASE \E i \in Updated : x = M(i)
    <3>1. PICK i \in Updated : x = M(i)
      BY <2>1
    <3>3. IsFiniteSet(ShardNumbers(i))
      <4>1. CASE i.op = "replicate"
        <5>1. i.guid \in Layer /\ Op(i.guid) = "replicate"
          BY <4>1, LossFacts, TaskMapping
        <5>2. Args(i.guid)[1] \in Layer
          BY <5>1, LayerFacts
        <5> QED BY <4>1, <5>2, DeviceFacts DEF ShardNumbers, IsDevices
      <4>2. CASE i.op # "replicate"
        BY <4>2, TaskMapping DEF ShardNumbers, IsMapping
      <4> QED BY <4>1, <4>2
    <3> DEFINE f == [p \in ShardNumbers(i) |-> Shard(i, p)]
    <3>4. DOMAIN f = ShardNumbers(i) /\ \A p \in ShardNumbers(i) : f[p] = Shard(i, p)
      OBVIOUS
    <3>5. Shards(x) = {Shard(i, p) : p \in ShardNumbers(i)}
      BY <3>1, ShardsOfTask
    <3> HIDE DEF f
    <3> QED BY <3>3, <3>4, <3>5, FiniteImage
  <2>2. CASE IsCopy(x)
    <3>1. PICK i, s, j, t : Moves(i, s, j, t) /\ x = Copy(i.outs[s], Home(i, s), Home(j, t))
      BY <2>2 DEF IsCopy
    <3>2. IsDevices(Home(i, s))
      BY <3>1, MovesFacts
    <3>3. IsFiniteSet(DOMAIN Home(i, s))
      BY <3>2 DEF IsDevices
    <3>5. \A z \in Shards(x) : \E q \in DOMAIN Home(i, s) :
            z = CopyShard(i.outs[s], Home(i, s), Home(j, t), q)
      BY <3>1, ShardsOfMove
    <3> DEFINE f == [q \in DOMAIN Home(i, s) |-> CopyShard(i.outs[s], Home(i, s), Home(j, t), q)]
    <3>4. /\ DOMAIN f = DOMAIN Home(i, s)
          /\ \A q \in DOMAIN Home(i, s) : f[q] = CopyShard(i.outs[s], Home(i, s), Home(j, t), q)
      OBVIOUS
    <3> HIDE DEF f
    <3> QED BY <3>3, <3>4, <3>5, FiniteImage
  <2> QED BY <2>1, <2>2, CopiedMembers
<1> DEFINE f == [x \in Copied |-> Shards(x)]
           T == {Shards(x) : x \in Copied}
<1>2. DOMAIN f = Copied /\ \A y \in T : \E x \in Copied : y = f[x]
  OBVIOUS
<1>3. Sharded = UNION T /\ \A y \in T : IsFiniteSet(y)
  BY <1>1 DEF Sharded, ExpandShards
<1> HIDE DEF f, T
<1>4. IsFiniteSet(T)
  BY <1>2, CopiedFinite, FiniteImage
<1> QED BY <1>3, <1>4, FS_UNION

-------------------------------------------------------------------------------
(***************************************************************************)
(* The sharded graph is valid.                                             *)
(***************************************************************************)
\* What the sharded graph's outputs are.
LEMMA ShardedOutputs ==
  ASSUME source \in SourceGraphs, Resolved, NEW y \in Sharded, NEW t \in DOMAIN y.outs
  PROVE  \/ \E i, p, s, q : /\ MakesAt(i, s, i.outs[s]) /\ p \in ShardNumbers(i) /\ q \in CoordsAt(i, p, s)
                            /\ y = Shard(i, p) /\ t = SlotOf(i, s, q)
                            /\ y.outs[t] = W(i.outs[s], Home(i, s), q)
         \/ \E i, s, j, l, q : /\ Moves(i, s, j, l) /\ MakesAt(i, s, i.outs[s])
                               /\ y = CopyShard(i.outs[s], Home(i, s), Home(j, l), q)
                               /\ t = Slot("OUTPUT") /\ y.outs[t] = W(i.outs[s], Home(j, l), q)
<1>1. CASE IsTaskShard(y)
  <2>1. PICK i \in Updated : \E p \in ShardNumbers(i) : y = Shard(i, p)
    BY <1>1 DEF IsTaskShard
  <2>2. PICK p \in ShardNumbers(i) : y = Shard(i, p)
    BY <2>1
  <2>3. IsShard(y, i, p)
    BY <2>2, ShardsOfTask
  <2>4. PICK s \in DOMAIN i.outs : \E q \in CoordsAt(i, p, s) : t = SlotOf(i, s, q)
    BY <2>3 DEF IsShard
  <2>5. PICK q \in CoordsAt(i, p, s) : t = SlotOf(i, s, q)
    BY <2>4
  <2>6. y.outs[t] = W(i.outs[s], Home(i, s), q)
    BY <2>3, <2>5 DEF IsShard
  <2>7. MakesAt(i, s, i.outs[s])
    BY TaskMakes
  <2> QED BY <2>2, <2>5, <2>6, <2>7
<1>2. CASE IsCopyShard(y)
  <2>1. PICK i, s, j, l, q :
          Moves(i, s, j, l) /\ y = CopyShard(i.outs[s], Home(i, s), Home(j, l), q)
    BY <1>2 DEF IsCopyShard
  <2>2. DOMAIN y.outs = {Slot("OUTPUT")} /\ y.outs[Slot("OUTPUT")] = W(i.outs[s], Home(j, l), q)
    BY <2>1, CopyShardFields
  <2>3. MakesAt(i, s, i.outs[s])
    BY <2>1, MovesFacts
  <2> QED BY <2>1, <2>2, <2>3
<1> QED BY <1>1, <1>2, ShardedMembers

LEMMA ShardedOnce ==
  ASSUME source \in SourceGraphs, Resolved, UniqueMakers
  PROVE  ProducedAtMostOnce(Sharded)
<1> SUFFICES ASSUME NEW y \in Sharded, NEW z \in Sharded, NEW t \in DOMAIN y.outs, NEW u \in DOMAIN z.outs,
                    y.outs[t] = z.outs[u]
             PROVE  y = z /\ t = u
  BY OnceIf
<1> DEFINE Home1(x, o, i, p, s, q) ==
             /\ MakesAt(i, s, i.outs[s]) /\ p \in ShardNumbers(i) /\ q \in CoordsAt(i, p, s)
             /\ x = Shard(i, p) /\ o = SlotOf(i, s, q)
             /\ x.outs[o] = W(i.outs[s], Home(i, s), q)
           Copy1(x, o, i, s, j, l, q) ==
             /\ Moves(i, s, j, l) /\ MakesAt(i, s, i.outs[s])
             /\ x = CopyShard(i.outs[s], Home(i, s), Home(j, l), q)
             /\ o = Slot("OUTPUT") /\ x.outs[o] = W(i.outs[s], Home(j, l), q)
<1>1. (\E i, p, s, q : Home1(y, t, i, p, s, q)) \/ (\E i, s, j, l, q : Copy1(y, t, i, s, j, l, q))
  BY ShardedOutputs
<1>2. (\E i, p, s, q : Home1(z, u, i, p, s, q)) \/ (\E i, s, j, l, q : Copy1(z, u, i, s, j, l, q))
  BY ShardedOutputs
<1>3. ASSUME NEW x, NEW o, NEW i, NEW a, NEW e, NEW b, Home1(x, o, i, a, e, b),
             NEW w, NEW p, NEW m, NEW s, NEW j, NEW l, NEW c, Copy1(w, p, m, s, j, l, c),
             x.outs[o] = w.outs[p]
      PROVE  FALSE
  <2>0. IsPlain(i.outs[e]) /\ IsPlain(m.outs[s])
    BY <1>3, PlainPorts
  <2>1. W(i.outs[e], Home(i, e), b) = W(m.outs[s], Home(j, l), c)
    BY <1>3
  <2>2. i.outs[e] = m.outs[s] /\ PlaceOf(Home(i, e)) = PlaceOf(Home(j, l))
    BY <2>0, <2>1, PlainShards
  <2>3. i = m /\ e = s
    BY <1>3, <2>2 DEF UniqueMakers
  <2> QED BY <1>3, <2>2, <2>3 DEF Moves
<1>4. ASSUME NEW i, NEW p, NEW s, NEW q, Home1(y, t, i, p, s, q),
             NEW j, NEW n, NEW l, NEW r, Home1(z, u, j, n, l, r)
      PROVE  y = z /\ t = u
  <2>0. IsPlain(i.outs[s]) /\ IsPlain(j.outs[l])
    BY <1>4, PlainPorts
  <2>1. W(i.outs[s], Home(i, s), q) = W(j.outs[l], Home(j, l), r)
    BY <1>4
  <2>2. i.outs[s] = j.outs[l] /\ q = r
    BY <2>0, <2>1, PlainShards
  <2>3. i = j /\ s = l
    BY <1>4, <2>2 DEF UniqueMakers
  <2>4. p = NumberOf(i, s, q) /\ n = NumberOf(j, l, r)
    BY <1>4, MakesTask, NumbersOfHome
  <2> QED BY <1>4, <2>2, <2>3, <2>4
<1>5. ASSUME NEW i, NEW s, NEW j, NEW l, NEW q, Copy1(y, t, i, s, j, l, q),
             NEW m, NEW r, NEW k, NEW n, NEW c, Copy1(z, u, m, r, k, n, c)
      PROVE  y = z /\ t = u
  <2>0. IsPlain(i.outs[s]) /\ IsPlain(m.outs[r])
    BY <1>5, PlainPorts
  <2>1. W(i.outs[s], Home(j, l), q) = W(m.outs[r], Home(k, n), c)
    BY <1>5
  <2>2. i.outs[s] = m.outs[r] /\ PlaceOf(Home(j, l)) = PlaceOf(Home(k, n)) /\ q = c
    BY <2>0, <2>1, PlainShards
  <2>3. i = m /\ s = r
    BY <1>5, <2>2 DEF UniqueMakers
  <2>4. Copy(i.outs[s], Home(i, s), Home(j, l)) = Copy(m.outs[r], Home(m, r), Home(k, n))
    BY <2>2, <2>3 DEF Copy
  <2>5. CopyShard(i.outs[s], Home(i, s), Home(j, l), q) = CopyShard(m.outs[r], Home(m, r), Home(k, n), c)
    BY <2>2, <2>3, <2>4 DEF CopyShard
  <2> QED BY <1>5, <2>5
<1> HIDE DEF Home1, Copy1
<1> QED BY <1>1, <1>2, <1>3, <1>4, <1>5

LEMMA ShardedAcyclic ==
  ASSUME source \in SourceGraphs, Resolved, UniqueMakers
  PROVE  IsAcyclic(Sharded)
<1> SUFFICES ASSUME NEW y \in Sharded PROVE DoesTask(y) \/ DoesCopy(y)
  BY ShardedFinite, PlacedAcyclic
<1>0. \A v, d, q : IsPlain(v) => OfPlace(W(v, d, q), v, d)
  BY PlacedFields DEF IsPlain, OfPlace
<1>1. CASE IsTaskShard(y)
  <2>1. PICK i \in Updated : \E p \in ShardNumbers(i) : y = Shard(i, p)
    BY <1>1 DEF IsTaskShard
  <2>2. PICK p \in ShardNumbers(i) : y = Shard(i, p)
    BY <2>1
  <2>3. IsShard(y, i, p)
    BY <2>2, ShardsOfTask
  <2>4. ASSUME NEW w \in Values(y.ins) PROVE \E s, v, d : ReadsAt(i, s, v) /\ OfPlace(w, v, d)
    <3>1. PICK t \in DOMAIN y.ins : w = y.ins[t]
      BY DEF Values, Range
    <3>2. PICK s \in DOMAIN i.ins : \E q \in CoordsAt(i, p, s) : t = SlotOf(i, s, q)
      BY <2>3 DEF IsShard
    <3>3. PICK q \in CoordsAt(i, p, s) : t = SlotOf(i, s, q)
      BY <3>2
    <3>4. w = W(i.ins[s], Home(i, s), q)
      BY <2>3, <3>1, <3>3 DEF IsShard
    <3>5. ReadsAt(i, s, i.ins[s])
      BY TaskReads
    <3> QED BY <1>0, <3>4, <3>5, PlainPorts
  <2>5. ASSUME NEW w \in Values(y.outs) PROVE \E s, v, d : MakesAt(i, s, v) /\ OfPlace(w, v, d)
    <3>1. PICK t \in DOMAIN y.outs : w = y.outs[t]
      BY DEF Values, Range
    <3>2. PICK s \in DOMAIN i.outs : \E q \in CoordsAt(i, p, s) : t = SlotOf(i, s, q)
      BY <2>3 DEF IsShard
    <3>3. PICK q \in CoordsAt(i, p, s) : t = SlotOf(i, s, q)
      BY <3>2
    <3>4. w = W(i.outs[s], Home(i, s), q)
      BY <2>3, <3>1, <3>3 DEF IsShard
    <3>5. MakesAt(i, s, i.outs[s])
      BY TaskMakes
    <3> QED BY <1>0, <3>4, <3>5, PlainPorts
  <2> QED BY <2>4, <2>5 DEF DoesTask
<1>2. CASE IsCopyShard(y)
  <2>1. PICK i, s, j, l, q :
          Moves(i, s, j, l) /\ y = CopyShard(i.outs[s], Home(i, s), Home(j, l), q)
    BY <1>2 DEF IsCopyShard
  <2> DEFINE v == i.outs[s]
             from == Home(i, s)
             to == Home(j, l)
  <2>2. MakesAt(i, s, v) /\ PlaceOf(to) # PlaceOf(from)
    BY <2>1, MovesFacts DEF Moves
  <2>3. Values(y.ins) = {W(v, from, q)} /\ Values(y.outs) = {W(v, to, q)}
    BY <2>1, CopyShardMakes
  <2>4. OfPlace(W(v, from, q), v, from) /\ OfPlace(W(v, to, q), v, to)
    BY <1>0, <2>2, PlainPorts
  <2> HIDE DEF v, to
  <2> QED BY <2>2, <2>3, <2>4 DEF DoesCopy
<1> QED BY <1>1, <1>2, ShardedMembers

LEMMA ShardedIsValid ==
  ASSUME source \in SourceGraphs, UniqueMakers, Resolved, MappingsFit
  PROVE  ShardedOK
BY AllShardsAgree, ShardsSeparate, ShardedOnce, ShardedAcyclic DEF ShardedOK, IsValid


(***************************************************************************)
(* The values and invocations of each graph.                               *)
(***************************************************************************)
LEMMA HomesOfValues ==
  ASSUME source \in SourceGraphs, NEW i \in Updated, NEW s, s \in DOMAIN i.ins \cup DOMAIN i.outs
  PROVE  IsDevices(Home(i, s)) /\ (~Local => DOMAIN Home(i, s) # {})
BY HomeDevices

\* The sharded graph has shards of values on devices.
LEMMA ShardedValues ==
  ASSUME source \in SourceGraphs, Resolved, MappingsFit, NEW w \in AllValues(Sharded)
  PROVE  \E v, d, q : IsPlain(v) /\ IsDevices(d) /\ q \in DOMAIN d /\ w = W(v, d, q)
<1>1. PICK y \in Sharded : w \in Values(y.ins) \/ w \in Values(y.outs)
  BY DEF AllValues, Inputs, Outputs
<1>2. CASE IsTaskShard(y)
  <2>1. PICK i \in Updated : \E p \in ShardNumbers(i) : y = Shard(i, p)
    BY <1>2 DEF IsTaskShard
  <2>2. PICK p \in ShardNumbers(i) : y = Shard(i, p)
    BY <2>1
  <2>3. IsShard(y, i, p)
    BY <2>2, ShardsOfTask
  <2>4. CASE w \in Values(y.ins)
    <3>1. PICK t \in DOMAIN y.ins : w = y.ins[t]
      BY <2>4 DEF Values, Range
    <3>2. PICK s \in DOMAIN i.ins : \E q \in CoordsAt(i, p, s) : t = SlotOf(i, s, q)
      BY <2>3 DEF IsShard
    <3>3. PICK q \in CoordsAt(i, p, s) : t = SlotOf(i, s, q)
      BY <3>2
    <3>4. w = W(i.ins[s], Home(i, s), q)
      BY <2>3, <3>1, <3>3 DEF IsShard
    <3>5. ReadsAt(i, s, i.ins[s])
      BY TaskReads
    <3> QED BY <3>4, <3>5, PlainPorts, HomesOfValues, NumbersOfHome
  <2>5. CASE w \in Values(y.outs)
    <3>1. PICK t \in DOMAIN y.outs : w = y.outs[t]
      BY <2>5 DEF Values, Range
    <3>2. PICK s \in DOMAIN i.outs : \E q \in CoordsAt(i, p, s) : t = SlotOf(i, s, q)
      BY <2>3 DEF IsShard
    <3>3. PICK q \in CoordsAt(i, p, s) : t = SlotOf(i, s, q)
      BY <3>2
    <3>4. w = W(i.outs[s], Home(i, s), q)
      BY <2>3, <3>1, <3>3 DEF IsShard
    <3>5. MakesAt(i, s, i.outs[s])
      BY TaskMakes
    <3> QED BY <3>4, <3>5, PlainPorts, HomesOfValues, NumbersOfHome
  <2> QED BY <1>1, <2>4, <2>5
<1>3. CASE IsCopyShard(y)
  <2>1. PICK i, s, j, l, q : /\ Moves(i, s, j, l) /\ q \in DOMAIN Home(i, s)
                             /\ y = CopyShard(i.outs[s], Home(i, s), Home(j, l), q)
    BY <1>3 DEF IsCopyShard
  <2> DEFINE v == i.outs[s]
             from == Home(i, s)
             to == Home(j, l)
  <2>2. MakesAt(i, s, v) /\ IsDevices(from) /\ IsDevices(to) /\ DOMAIN from = DOMAIN to
    BY <2>1, MovesFacts, MovesAlike
  <2>3. Values(y.ins) = {W(v, from, q)} /\ Values(y.outs) = {W(v, to, q)}
    BY <2>1, CopyShardMakes
  <2>4. IsPlain(v)
    BY <2>2, PlainPorts
  <2> HIDE DEF v, to
  <2> QED BY <1>1, <2>1, <2>2, <2>3, <2>4
<1> QED BY <1>2, <1>3, ShardedMembers

\* The copied graph has values on devices.
LEMMA CopiedValues ==
  ASSUME source \in SourceGraphs, Resolved, ~Local, NEW w \in AllValues(Copied)
  PROVE  \E v, d : IsPlain(v) /\ IsDevices(d) /\ DOMAIN d # {} /\ w = Placed(v, d)
<1>1. PICK y \in Copied : w \in Values(y.ins) \/ w \in Values(y.outs)
  BY DEF AllValues, Inputs, Outputs
<1>2. CASE \E i \in Updated : y = M(i)
  <2>1. PICK i \in Updated : y = M(i)
    BY <1>2
  <2>2. CASE w \in Values(y.ins)
    <3>1. PICK s \in DOMAIN y.ins : w = y.ins[s]
      BY <2>2 DEF Values, Range
    <3>2. s \in DOMAIN i.ins /\ w = Placed(i.ins[s], Home(i, s))
      BY <2>1, <3>1, MappedFields
    <3>3. ReadsAt(i, s, i.ins[s])
      BY <3>2, TaskReads
    <3> QED BY <3>2, <3>3, PlainPorts, HomesOfValues
  <2>3. CASE w \in Values(y.outs)
    <3>1. PICK s \in DOMAIN y.outs : w = y.outs[s]
      BY <2>3 DEF Values, Range
    <3>2. s \in DOMAIN i.outs /\ w = Placed(i.outs[s], Home(i, s))
      BY <2>1, <3>1, MappedFields
    <3>3. MakesAt(i, s, i.outs[s])
      BY <3>2, TaskMakes
    <3> QED BY <3>2, <3>3, PlainPorts, HomesOfValues
  <2> QED BY <1>1, <2>2, <2>3
<1>3. CASE IsCopy(y)
  <2>1. PICK i, s, j, l : Moves(i, s, j, l) /\ y = Copy(i.outs[s], Home(i, s), Home(j, l))
    BY <1>3 DEF IsCopy
  <2> DEFINE v == i.outs[s]
             from == Home(i, s)
             to == Home(j, l)
  <2>2. MakesAt(i, s, v) /\ IsDevices(from) /\ IsDevices(to)
    BY <2>1, MovesFacts
  <2>3. Values(y.ins) = {Placed(v, from)} /\ Values(y.outs) = {Placed(v, to)}
    BY <2>1, CopyFields
  <2>4. IsPlain(v)
    BY <2>2, PlainPorts
  <2>5. DOMAIN from # {} /\ DOMAIN to # {}
    BY <2>1, HomesOfValues DEF Moves
  <2> HIDE DEF v, from, to
  <2> QED BY <1>1, <2>2, <2>3, <2>4, <2>5
<1> QED BY <1>2, <1>3, CopiedMembers

-------------------------------------------------------------------------------
(***************************************************************************)
(* What aborts and what does not.                                          *)
(***************************************************************************)
LEMMA LabelIsOutside ==
  ASSUME source \in SourceGraphs, Resolved, MappingsFit
  PROVE  LabelOutside
<1> SUFFICES ASSUME HasLoss, Label \in AllValues(Sharded) PROVE FALSE
  BY DEF LabelOutside
<1>1. PICK v, d, q : IsPlain(v) /\ IsDevices(d) /\ q \in DOMAIN d /\ Label = W(v, d, q)
  BY ShardedValues
<1>2. Label.coord = q
  BY <1>1, PlacedFields DEF IsPlain
<1>3. q \in Nat \ {0}
  BY <1>1 DEF IsDevices
<1> QED BY <1>2, <1>3, LabelFacts

\* Where a run can abort: two gradients meet, a mapping is unknown (not one-to-one, or
\* a replica's gradient has no reader), or the mappings of two slots do not fit.
LEMMA AbortReasons ==
  ASSUME IInv
  PROVE  stage = "aborted" => \/ ~UniqueMakers /\ (graph = {} \/ graph = Dynamic \/ graph = Complete)
                              \/ ~Local /\ ~Resolved /\ graph = Updated
                              \/ ~Local /\ Resolved /\ ~MappingsFit /\ graph = Copied
<1> SUFFICES ASSUME stage = "aborted", AbortedAt
             PROVE  \/ ~UniqueMakers /\ (graph = {} \/ graph = Dynamic \/ graph = Complete)
                    \/ ~Local /\ ~Resolved /\ graph = Updated
                    \/ ~Local /\ Resolved /\ ~MappingsFit /\ graph = Copied
  BY DEF IInv, GraphAtStage
<1>1. source \in SourceGraphs
  BY DEF IInv
<1>2. DynamicOK
  BY <1>1, DynamicIsValid
<1>3. (UpdatedOK <=> UniqueMakers) /\ (UniqueMakers => ExpandedOK)
  BY <1>1, UpdatedIsValid
<1>4. CopiedOK => Resolved
  BY DEF CopiedOK, Resolved
<1>5. UniqueMakers /\ Resolved => CopiedOK
  BY <1>1, CopiedIsValid
<1>6. UniqueMakers /\ Resolved /\ MappingsFit => ShardedOK /\ LabelOutside
  BY <1>1, ShardedIsValid, LabelIsOutside
<1>7. Resolved /\ ShardedOK => MappingsFit
  BY <1>1, FittedIfAgreed DEF ShardedOK
<1> QED BY <1>2, <1>3, <1>4, <1>5, <1>6, <1>7 DEF AbortedAt

\* Creating an instance aborts exactly for the graphs that need a gradient to be
\* summed or thrown away and for mappings that do not fit, parallel operators that
\* change the number of shards among them; for all others every assertion of the
\* passes holds.
THEOREM AbortsRightly == Spec => []AbortsExactly
<1>1. IInv => AbortsExactly
  <2> SUFFICES ASSUME IInv PROVE AbortsExactly
    OBVIOUS
  <2>1. source \in SourceGraphs
    BY DEF IInv
  <2>2. ASSUME stage = "aborted" PROVE ~Lowerable
    BY <2>1, <2>2, AbortReasons, LowerableIff
  <2>3. ASSUME stage = "allocated" PROVE Lowerable
    <3>1. UniqueMakers /\ MappingsFit
      BY <2>1, <2>3, UpdatedIsValid, LoweredGraph DEF IInv, GraphAtStage, Lowered
    <3>2. CASE Local
      <4>1. NoneThrownAway
        BY <2>1, <3>2, LayerFacts DEF NoneThrownAway
      <4> QED BY <2>1, <3>1, <4>1, ResolvedIff, LowerableIff
    <3>3. CASE ~Local
      <4>1. Resolved
        BY <2>3, <3>3 DEF IInv, GraphAtStage, CopiedOK, Resolved
      <4> QED BY <2>1, <3>1, <4>1, LowerableIff
    <3> QED BY <3>2, <3>3
  <2> QED BY <2>2, <2>3 DEF AbortsExactly
<1> QED BY <1>1, Inductive, PTL

(***************************************************************************)
(* Types.                                                                  *)
(***************************************************************************)
TaskNames == {"none", "FWD", "BWD", "UPD", "LOSS"}

\* Nothing has a place before copy insertion.
Unplaced(g) ==
  /\ \A i \in g : i.task \in TaskNames /\ i.devices = {}
  /\ \A v \in AllValues(g) : v.coord = 0 /\ v.mapping = {}

Marked(g) == \A i \in g : i.op = "copy" \/ i.task # "none"

LEMMA DynamicUnplaced ==
  ASSUME source \in SourceGraphs
  PROVE  Unplaced(Dynamic)
<1>1. \A i \in Dynamic : i.task = "none" /\ i.devices = {}
  BY DynamicFacts DEF Inv
<1>2. \A v \in AllValues(Dynamic) : v.coord = 0 /\ v.mapping = {}
  BY DynamicFacts, ValueFields
<1> QED BY <1>1, <1>2 DEF Unplaced, TaskNames

LEMMA UpdatedUnplaced ==
  ASSUME source \in SourceGraphs, NEW g \in SUBSET Updated
  PROVE  Unplaced(g) /\ Marked(g)
<1>1. ASSUME NEW i \in g PROVE i.task \in TaskNames \ {"none"} /\ i.devices = {}
  <2>1. i.task \in TaskNames \ {"none"}
    BY UpdatedMembers, SubsetsOfLayer, FwdFacts, BwdFacts, UpdFacts, LossFacts DEF IsTask, TaskNames
  <2>2. i.devices = {}
    BY TaskMapping
  <2> QED BY <2>1, <2>2
<1>2. ASSUME NEW v \in AllValues(g) PROVE v.coord = 0 /\ v.mapping = {}
  <2>1. PICK i \in g : v \in Values(i.ins) \/ v \in Values(i.outs)
    BY DEF AllValues, Inputs, Outputs
  <2>2. (\E s \in DOMAIN i.ins : v = i.ins[s]) \/ (\E s \in DOMAIN i.outs : v = i.outs[s])
    BY <2>1 DEF Values, Range
  <2> QED BY <2>2, PortsOfTasks
<1> QED BY <1>1, <1>2 DEF Unplaced, Marked

LEMMA EarlyGraphs ==
  ASSUME source \in SourceGraphs
  PROVE  /\ Unplaced({}) /\ Marked({})
         /\ Unplaced(Dynamic)
         /\ Unplaced(Expanded) /\ Marked(Expanded)
         /\ Unplaced(Complete) /\ Marked(Complete)
         /\ Unplaced(Updated) /\ Marked(Updated)
<1>1. Complete \subseteq Updated /\ Expanded \subseteq Updated /\ {} \subseteq Updated
  BY ExpandedMembers, CompleteMembers, UpdatedMembers DEF IsTask
<1> QED BY <1>1, DynamicUnplaced, UpdatedUnplaced

LEMMA CopiedTypes ==
  ASSUME source \in SourceGraphs, Resolved, ~Local
  PROVE  /\ \A x \in Copied : x.task \in TaskNames /\ x.devices = {}
         /\ Marked(Copied)
         /\ \A w \in AllValues(Copied) : w.coord = 0 /\ w.mapping # {}
<1>1. ASSUME NEW x \in Copied
      PROVE  x.task \in TaskNames /\ x.devices = {} /\ (x.op = "copy" \/ x.task # "none")
  <2>1. CASE \E i \in Updated : x = M(i)
    <3>1. PICK i \in Updated : x = M(i)
      BY <2>1
    <3>2. x.task = i.task /\ x.devices = i.devices /\ x.op = i.op
      BY <3>1, MappedFields
    <3> QED BY <3>2, EarlyGraphs DEF Unplaced, Marked
  <2>2. CASE IsCopy(x)
    BY <2>2, CopyFields DEF IsCopy, TaskNames
  <2> QED BY <2>1, <2>2, CopiedMembers
<1>2. ASSUME NEW w \in AllValues(Copied) PROVE w.coord = 0 /\ w.mapping # {}
  <2>1. PICK v, d : IsPlain(v) /\ IsDevices(d) /\ DOMAIN d # {} /\ w = Placed(v, d)
    BY CopiedValues
  <2>2. w.coord = 0 /\ w.mapping = PlaceOf(d)
    BY <2>1, PlacedFields DEF IsPlain
  <2> QED BY <2>1, <2>2 DEF PlaceOf
<1> QED BY <1>1, <1>2 DEF Marked

LEMMA ShardedTypes ==
  ASSUME source \in SourceGraphs, Resolved, MappingsFit, ~Local
  PROVE  /\ \A x \in Sharded : x.task \in TaskNames /\ x.devices # {}
         /\ Marked(Sharded)
         /\ \A w \in AllValues(Sharded) : w.coord > 0 /\ w.mapping # {}
<1>1. ASSUME NEW x \in Sharded
      PROVE  x.task \in TaskNames /\ x.devices # {} /\ (x.op = "copy" \/ x.task # "none")
  <2>1. CASE IsTaskShard(x)
    <3>1. PICK i \in Updated : \E p \in ShardNumbers(i) : x = Shard(i, p)
      BY <2>1 DEF IsTaskShard
    <3>2. PICK p \in ShardNumbers(i) : x = Shard(i, p)
      BY <3>1
    <3>3. IsShard(x, i, p)
      BY <3>2, ShardsOfTask
    <3>4. x.task = i.task /\ x.op = i.op
      BY <3>3 DEF IsShard
    <3>5. x.devices # {}
      <4>1. CASE i.op = "replicate"
        BY <3>2, <3>3, <4>1, ReplicasExist DEF IsShard, DevicesFor
      <4>2. CASE i.op # "replicate"
        BY <3>3, <4>2 DEF IsShard
      <4> QED BY <4>1, <4>2
    <3> QED BY <3>4, <3>5, EarlyGraphs DEF Unplaced, Marked
  <2>2. CASE IsCopyShard(x)
    BY <2>2, CopyShardFields DEF IsCopyShard, TaskNames
  <2> QED BY <2>1, <2>2, ShardedMembers
<1>2. ASSUME NEW w \in AllValues(Sharded) PROVE w.coord > 0 /\ w.mapping # {}
  <2>1. PICK v, d, q : IsPlain(v) /\ IsDevices(d) /\ q \in DOMAIN d /\ w = W(v, d, q)
    BY ShardedValues
  <2>2. w.coord = q /\ w.mapping = PlaceOf(d)
    BY <2>1, PlacedFields DEF IsPlain
  <2>3. q \in Nat \ {0}
    BY <2>1 DEF IsDevices
  <2>4. w.mapping # {}
    BY <2>1, <2>2 DEF PlaceOf
  <2>5. w.coord > 0
    BY <2>2, <2>3
  <2> QED BY <2>4, <2>5
<1> QED BY <1>1, <1>2 DEF Marked

\* Task types, devices, shards and mappings are there from the pass on that gives
\* them, and never before.
THEOREM TypeCorrect == Spec => []TypeOK
<1>1. IInv => TypeOK
  <2> SUFFICES ASSUME IInv PROVE TypeOK
    OBVIOUS
  <2>1. source \in SourceGraphs /\ stage \in Stages
    BY DEF IInv
  <2>2. instances \subseteq AllValues(graph)
    BY DEF IInv, InputsAtStage
  <2>3. CASE stage = "with copies"
    <3>1. ~Local /\ graph = Copied /\ Resolved
      BY <2>3 DEF IInv, GraphAtStage, CopiedOK, Resolved
    <3>2. ~Lowered
      BY <2>3 DEF Lowered
    <3>3. \A i \in graph : i.task \in TaskNames /\ i.devices = {} /\ (i.op = "copy" \/ i.task # "none")
      BY <2>1, <3>1, CopiedTypes DEF Marked
    <3>4. \A v \in AllValues(graph) : ~(v.coord > 0) /\ v.mapping # {}
      BY <2>1, <3>1, CopiedTypes
    <3> QED BY <2>1, <2>2, <2>3, <3>1, <3>2, <3>3, <3>4 DEF TypeOK, Stages, TaskNames
  <2>4. CASE Lowered /\ ~Local
    <3>1. graph = Sharded /\ Resolved /\ MappingsFit
      BY <2>4, LoweredGraph
    <3> QED BY <2>1, <2>2, <2>4, <3>1, ShardedTypes DEF TypeOK, Stages, TaskNames, Lowered, Marked
  <2>5. CASE stage = "aborted" /\ graph = Copied /\ ~Local /\ Resolved
    <3>1. \A i \in graph : i.task \in TaskNames /\ i.devices = {}
      BY <2>1, <2>5, CopiedTypes
    <3>2. \A v \in AllValues(graph) : ~(v.coord > 0)
      BY <2>1, <2>5, CopiedTypes
    <3> QED BY <2>2, <2>5, <3>1, <3>2 DEF TypeOK, TaskNames, Lowered
  <2>6. CASE /\ stage # "with copies" /\ ~(Lowered /\ ~Local)
             /\ ~(stage = "aborted" /\ graph = Copied /\ ~Local /\ Resolved)
    <3>1. /\ Unplaced(graph)
          /\ stage \notin {"mapped", "dynamic", "aborted"} => Marked(graph)
      <4>1. CASE stage = "aborted"
        BY <2>1, <2>6, <4>1, AbortReasons, EarlyGraphs
      <4>2. CASE stage # "aborted"
        BY <2>1, <2>6, <4>2, EarlyGraphs DEF IInv, GraphAtStage, Stages, Lowered
      <4> QED BY <4>1, <4>2
    <3>2. \A i \in graph :
            /\ i.task \in TaskNames /\ i.devices = {}
            /\ stage \notin {"mapped", "dynamic", "aborted"} => i.op = "copy" \/ i.task # "none"
      BY <3>1 DEF Unplaced, Marked
    <3>3. \A v \in AllValues(graph) : ~(v.coord > 0) /\ v.mapping = {}
      BY <3>1 DEF Unplaced
    <3>4. ~(~Local /\ (Lowered \/ stage = "with copies"))
      <4>1. stage = "with copies" => ~Local
        BY DEF IInv, GraphAtStage
      <4> QED BY <2>6, <4>1
    <3> QED BY <2>1, <2>2, <2>6, <3>2, <3>3, <3>4 DEF TypeOK, Stages, TaskNames
  <2> QED BY <2>3, <2>4, <2>5, <2>6
<1> QED BY <1>1, Inductive, PTL

-------------------------------------------------------------------------------
(***************************************************************************)
(* What precedes an invocation: a set closed under producers.              *)
(***************************************************************************)
\* A growing iteration in a finite set stops.
LEMMA GrowthStops ==
  ASSUME NEW g, IsFiniteSet(g), NEW step, NEW E,
         \A k \in 0..Cardinality(g) : E[k] \subseteq g,
         \A k \in 1..Cardinality(g) : E[k - 1] \subseteq E[k] /\ E[k] = step[E[k - 1]],
         E[Cardinality(g)] # g
  PROVE  step[E[Cardinality(g)]] = E[Cardinality(g)]
<1> DEFINE n == Cardinality(g)
<1>1. n \in Nat
  BY FS_CardinalityType
<1>2. PICK k \in 1..n : E[k - 1] = E[k]
  BY GrowthEnds
<1> DEFINE Unstable == {m \in Nat : m \in k..n /\ E[m] # E[k]}
<1>3. Unstable = {}
  <2> SUFFICES ASSUME Unstable # {} PROVE FALSE
    OBVIOUS
  <2>1. PICK m \in Unstable : \A l \in Unstable : m <= l
    BY Least
  <2>2. m # k /\ m - 1 \in k..n /\ m - 1 \in Nat /\ m \in 1..n /\ k \in Nat
    <3> HIDE DEF n
    <3> QED BY <1>1, <2>1
  <2>3. E[m - 1] = E[k]
    BY <2>1, <2>2
  <2>4. E[m] = step[E[m - 1]] /\ E[k] = step[E[k - 1]]
    BY <2>2
  <2> QED BY <1>2, <2>1, <2>3, <2>4
<1>4. n \in k..n /\ n \in Nat /\ k \in 1..n
  BY <1>1
<1>5. E[n] = E[k]
  BY <1>3, <1>4
<1>6. E[k] = step[E[k - 1]]
  BY <1>4
<1> QED BY <1>2, <1>5, <1>6

ClosedUnderMakers(g, S) == \A p \in g : Values(p.outs) \cap Inputs(S) # {} => p \in S

LEMMA PrecedesIsClosed ==
  ASSUME IsFiniteSet(graph), NEW j \in graph
  PROVE  \E S \in SUBSET graph : /\ j \in S /\ ClosedUnderMakers(graph, S)
                                 /\ \A i : i \in S => Precedes(i, j)
<1> DEFINE n == Cardinality(graph)
           Sets == SUBSET graph
           Back(later) == later \cup {p \in graph : Values(p.outs) \cap Inputs(later) # {}}
           start == {j}
           Round(R) == [k \in 0..n |-> IF k = 0 THEN start ELSE Back(R[k - 1])]
           step == [later \in Sets |-> Back(later)]
<1>1. n \in Nat
  BY FS_CardinalityType
<1>2. \A later \in Sets : Back(later) \in Sets /\ step[later] = Back(later) /\ later \subseteq Back(later)
  OBVIOUS
<1>3. step \in [Sets -> Sets]
  <2> HIDE DEF Sets, Back
  <2> QED BY <1>2
<1>4. PICK f \in [0..n -> Sets] : f[0] = start /\ \A k \in 1..n : f[k] = step[f[k - 1]]
  <2>1. start \in Sets
    OBVIOUS
  <2> HIDE DEF Sets, step, n, start
  <2>2. \E f : IsIteration(f, Sets, start, step, n)
    BY <1>1, <1>3, <2>1, Iteration
  <2> QED BY <2>2 DEF IsIteration
<1>5. f = Round(f)
  <2>1. \A k \in 0..n : f[k] = IF k = 0 THEN start ELSE Back(f[k - 1])
    <3>1. \A k \in 1..n : k - 1 \in 0..n /\ f[k] = Back(f[k - 1])
      <4> HIDE DEF Back, Sets, n, step
      <4> QED BY <1>1, <1>2, <1>4
    <3>2. \A k \in 0..n : k = 0 \/ k \in 1..n
      <4> HIDE DEF n
      <4> QED BY <1>1
    <3> HIDE DEF Back, Sets, n, step, start
    <3> QED BY <1>4, <3>1, <3>2
  <2> HIDE DEF Back, Sets, n, start
  <2> QED BY <1>4, <2>1
<1> DEFINE Rounds == CHOOSE R : R = Round(R)
<1>6. Rounds = Round(Rounds)
  <2> HIDE DEF Round
  <2> QED BY <1>5
<1>7. \A i : Precedes(i, j) <=> i \in Rounds[n]
  BY Zenon DEF Precedes
<1> HIDE DEF Rounds
<1>8. Rounds[0] = {j} /\ \A k \in 1..n : Rounds[k] = Back(Rounds[k - 1])
  <2>1. Rounds[0] = start /\ \A k \in 1..n : Rounds[k] = Back(Rounds[k - 1])
    <3> HIDE DEF Back, n, start
    <3> QED BY <1>1, <1>6
  <2> HIDE DEF Back, n
  <2> QED BY <2>1
<1> DEFINE Outside == {k \in Nat : k \in 0..n /\ Rounds[k] \notin Sets}
<1>9. Outside = {}
  <2> SUFFICES ASSUME Outside # {} PROVE FALSE
    OBVIOUS
  <2>1. PICK m \in Outside : \A l \in Outside : m <= l
    BY Least
  <2>2. m # 0
    BY <1>8, <2>1
  <2>3. m \in 1..n /\ m - 1 \in 0..n /\ m - 1 \in Nat
    <3> HIDE DEF n, Sets
    <3> QED BY <1>1, <2>1, <2>2
  <2>4. Rounds[m - 1] \in Sets
    <3>1. m - 1 \notin Outside
      <4> HIDE DEF n, Sets
      <4> QED BY <2>1, <2>3
    <3> QED BY <2>3, <3>1
  <2>5. Rounds[m] = Back(Rounds[m - 1])
    BY <1>8, <2>3
  <2> HIDE DEF Back, Sets
  <2> QED BY <1>2, <2>1, <2>4, <2>5
<1>10. \A k \in 0..n : Rounds[k] \in Sets
  <2> HIDE DEF n, Sets
  <2> QED BY <1>1, <1>9
<1>11. \A k \in 1..n : Rounds[k - 1] \subseteq Rounds[k] /\ Rounds[k] = step[Rounds[k - 1]]
  <2> TAKE k \in 1..n
  <2>1. k - 1 \in 0..n
    BY <1>1
  <2>2. Rounds[k - 1] \in Sets /\ Rounds[k] = Back(Rounds[k - 1])
    BY <1>8, <1>10, <2>1
  <2> HIDE DEF Back, Sets, step
  <2> QED BY <1>2, <2>2
<1>12. 0 \in 0..n /\ n \in 0..n
  BY <1>1
<1>13. j \in Rounds[n]
  <2>1. Rounds[0] \subseteq Rounds[n]
    <3>1. \A k \in 1..n : Rounds[k - 1] \subseteq Rounds[k]
      BY <1>11
    <3> HIDE DEF n
    <3>2. \A a, b \in 0..n : a <= b => Rounds[a] \subseteq Rounds[b]
      BY <1>1, <3>1, RoundsGrow
    <3> QED BY <1>1, <1>12, <3>2
  <2> QED BY <1>8, <2>1
<1>14. ClosedUnderMakers(graph, Rounds[n])
  <2>1. CASE Rounds[n] = graph
    BY <2>1 DEF ClosedUnderMakers
  <2>2. CASE Rounds[n] # graph
    <3>1. step[Rounds[n]] = Rounds[n]
      <4> HIDE DEF step
      <4> QED BY <1>10, <1>11, <2>2, GrowthStops
    <3>2. Back(Rounds[n]) = Rounds[n]
      <4> HIDE DEF Back, step, Sets
      <4> QED BY <1>2, <1>10, <1>12, <3>1
    <3> QED BY <3>2 DEF ClosedUnderMakers
  <2> QED BY <2>1, <2>2
<1> QED BY <1>7, <1>10, <1>12, <1>13, <1>14

(***************************************************************************)
(* The layers the loss depends on: a fixed point.                          *)
(***************************************************************************)
LEMMA ReachUnfolds ==
  ASSUME source \in SourceGraphs, NEW k \in Layer
  PROVE  ReachesLoss[k] <=> k = Logit \/ \E u \in Layer : k \in Arguments(u) /\ ReachesLoss[u]
<1> DEFINE Onward(S) == {l \in Layer : l = source.logit \/ \E u \in Layer : l \in Arguments(u) /\ u \in S}
           Least0 == {l \in Layer : \A S \in SUBSET Layer : Onward(S) \subseteq S => l \in S}
<1>1. Onward(Least0) \subseteq Least0
  <2> SUFFICES ASSUME NEW l \in Onward(Least0), NEW S \in SUBSET Layer, Onward(S) \subseteq S
               PROVE  l \in S
    OBVIOUS
  <2> QED OBVIOUS
<1>2. Least0 \subseteq Onward(Least0)
  <2>1. Onward(Least0) \in SUBSET Layer /\ Onward(Onward(Least0)) \subseteq Onward(Least0)
    BY <1>1
  <2> DEFINE O == Onward(Least0)
  <2>2. O \in SUBSET Layer /\ Onward(O) \subseteq O
    BY <2>1
  <2> HIDE DEF O
  <2>3. \A l \in Least0 : l \in O
    BY <2>2
  <2> QED BY <2>3 DEF O
<1> DEFINE f == [l \in Layer |-> IF l \in Least0 THEN TRUE ELSE FALSE]
<1>3. \A l \in Layer : f[l] = (l = source.logit \/ \E u \in Layer : l \in Arguments(u) /\ f[u])
  <2> HIDE DEF Least0
  <2>1. \A l \in Layer : l \in Least0 <=> (l = source.logit \/ \E u \in Layer : l \in Arguments(u) /\ u \in Least0)
    BY <1>1, <1>2
  <2>2. \A l \in Layer : f[l] = IF l \in Least0 THEN TRUE ELSE FALSE
    OBVIOUS
  <2> HIDE DEF f
  <2>3. ASSUME NEW l \in Layer
        PROVE  f[l] = (l = source.logit \/ \E u \in Layer : l \in Arguments(u) /\ f[u])
    <3>2. CASE l \in Least0
      <4>1. f[l] = TRUE
        BY <2>2, <3>2
      <4>2. l = source.logit \/ \E u \in Layer : l \in Arguments(u) /\ f[u]
        BY <2>1, <2>2, <3>2
      <4> QED BY <4>1, <4>2
    <3>3. CASE l \notin Least0
      <4>1. f[l] = FALSE
        BY <2>2, <3>3
      <4>2. ~ (l = source.logit \/ \E u \in Layer : l \in Arguments(u) /\ f[u])
        BY <2>1, <2>2, <3>3
      <4> QED BY <4>1, <4>2
    <3> QED BY <3>2, <3>3
  <2> QED BY <2>3
<1>4. f = [l \in Layer |-> l = source.logit \/ \E u \in Layer : l \in Arguments(u) /\ f[u]]
  <2> HIDE DEF Least0
  <2>1. f = [l \in Layer |-> f[l]]
    OBVIOUS
  <2> HIDE DEF f
  <2> QED BY <1>3, <2>1
<1> DEFINE Reach == CHOOSE g : g = [l \in Layer |-> l = source.logit \/ \E u \in Layer : l \in Arguments(u) /\ g[u]]
<1>5. Reach = [l \in Layer |-> l = source.logit \/ \E u \in Layer : l \in Arguments(u) /\ Reach[u]]
  <2> HIDE DEF f
  <2> QED BY <1>4
<1>6. ReachesLoss = [l \in Layer |-> Reach[l]]
  BY Zenon DEF ReachesLoss
<1> HIDE DEF Reach
<1>7. \A l \in Layer : Reach[l] = (l = source.logit \/ \E u \in Layer : l \in Arguments(u) /\ Reach[u])
  BY <1>5
<1>8. \A l \in Layer : ReachesLoss[l] = Reach[l]
  BY <1>6
<1> QED BY <1>7, <1>8 DEF Logit

-------------------------------------------------------------------------------
(***************************************************************************)
(* The lowered graph of either backend: pieces of tasks, with a coordinate *)
(* of the tensors they read and make, and copies.                          *)
(***************************************************************************)
LoweredOf == IF Local THEN Updated ELSE Sharded
PieceOf(i, s, c) == IF Local THEN i ELSE Shard(i, NumberOf(i, s, c))
PieceValue(v, i, s, c) == IF Local THEN v ELSE W(v, Home(i, s), c)
Coords(k) == IF Local THEN {0} ELSE DOMAIN Dev(k)

LEMMA SomeCoord ==
  ASSUME source \in SourceGraphs, NEW k \in Layer
  PROVE  \E c : c \in Coords(k)
BY DeviceFacts DEF Coords

\* The piece depends on the slot's name only, and forward and backward tasks have the
\* same pieces.
LEMMA SamePiece ==
  ASSUME NEW i, NEW j, i.op = j.op, i.guid = j.guid, i.mapping = j.mapping,
         NEW s, NEW t, s.name = t.name, NEW c
  PROVE  NumberOf(i, s, c) = NumberOf(j, t, c)
BY DEF NumberOf, Home, IsWhole

LEMMA PieceReads ==
  ASSUME source \in SourceGraphs, Resolved, MappingsFit, NEW k \in Layer, NEW r, NEW c \in Coords(k),
         NEW i, NEW s, ReadsAt(i, s, V(k, r))
  PROVE  PieceOf(i, s, c) \in LoweredOf /\ PieceValue(V(k, r), i, s, c) \in Values(PieceOf(i, s, c).ins)
<1>1. i \in Updated /\ s \in DOMAIN i.ins /\ V(k, r) = i.ins[s]
  BY ReadsTask
<1>2. CASE Local
  BY <1>1, <1>2 DEF PieceOf, PieceValue, LoweredOf, Values, Range
<1>3. CASE ~Local
  <2>1. c \in DOMAIN Home(i, s)
    BY <1>3, HomeOfReads DEF Coords
  <2>2. NumberOf(i, s, c) \in ShardNumbers(i) /\ c \in CoordsAt(i, NumberOf(i, s, c), s)
    BY <1>1, <2>1, NumbersOfHome
  <2>3. IsShard(Shard(i, NumberOf(i, s, c)), i, NumberOf(i, s, c))
    BY <1>1, <2>2, ShardsOfTask
  <2>4. /\ SlotOf(i, s, c) \in DOMAIN Shard(i, NumberOf(i, s, c)).ins
        /\ Shard(i, NumberOf(i, s, c)).ins[SlotOf(i, s, c)] = W(V(k, r), Home(i, s), c)
    BY <1>1, <2>2, <2>3 DEF IsShard
  <2>5. Shard(i, NumberOf(i, s, c)) \in Sharded
    BY <1>1, <2>2, ShardedMembers DEF IsTaskShard
  <2> QED BY <1>3, <2>4, <2>5 DEF PieceOf, PieceValue, LoweredOf, Values, Range
<1> QED BY <1>2, <1>3

LEMMA PieceMakes ==
  ASSUME source \in SourceGraphs, Resolved, MappingsFit, NEW k \in Layer, NEW r, NEW c \in Coords(k),
         NEW i, NEW s, MakesAt(i, s, V(k, r))
  PROVE  PieceOf(i, s, c) \in LoweredOf /\ PieceValue(V(k, r), i, s, c) \in Values(PieceOf(i, s, c).outs)
<1>1. i \in Updated /\ s \in DOMAIN i.outs /\ V(k, r) = i.outs[s]
  BY MakesTask
<1>2. CASE Local
  BY <1>1, <1>2 DEF PieceOf, PieceValue, LoweredOf, Values, Range
<1>3. CASE ~Local
  <2>1. c \in DOMAIN Home(i, s)
    BY <1>3, HomeOfMakes DEF Coords
  <2>2. NumberOf(i, s, c) \in ShardNumbers(i) /\ c \in CoordsAt(i, NumberOf(i, s, c), s)
    BY <1>1, <2>1, NumbersOfHome
  <2>3. W(V(k, r), Home(i, s), c) \in Values(Shard(i, NumberOf(i, s, c)).outs)
    BY <1>1, <2>2, TaskShardMakes
  <2>4. Shard(i, NumberOf(i, s, c)) \in Sharded
    BY <1>1, <2>2, ShardedMembers DEF IsTaskShard
  <2> QED BY <1>3, <2>3, <2>4 DEF PieceOf, PieceValue, LoweredOf
<1> QED BY <1>2, <1>3

\* The copy of a value from where it is made to where it is read.
LEMMA PieceMoves ==
  ASSUME source \in SourceGraphs, Resolved, MappingsFit, ~Local, NEW k \in Layer, NEW r, NEW c \in Coords(k),
         NEW i, NEW s, MakesAt(i, s, V(k, r)), NEW j, NEW t, ReadsAt(j, t, V(k, r)),
         PlaceOf(Home(i, s)) # PlaceOf(Home(j, t))
  PROVE  CopyShard(V(k, r), Home(i, s), Home(j, t), c) \in Sharded
<1>1. i \in Updated /\ s \in DOMAIN i.outs /\ V(k, r) = i.outs[s]
  BY MakesTask
<1>2. j \in Updated /\ t \in DOMAIN j.ins /\ V(k, r) = j.ins[t]
  BY ReadsTask
<1>3. Moves(i, s, j, t)
  BY <1>1, <1>2 DEF Moves
<1>4. c \in DOMAIN Home(i, s)
  BY HomeOfMakes DEF Coords
<1> QED BY <1>1, <1>3, <1>4, ShardedMembers DEF IsCopyShard

\* Who makes what a piece in a closed set reads is in the set, and so is the copy of it.
LEMMA Backward ==
  ASSUME source \in SourceGraphs, Resolved, MappingsFit, NEW S, ClosedUnderMakers(LoweredOf, S),
         NEW k \in Layer, NEW r, NEW c \in Coords(k),
         NEW i, NEW s, MakesAt(i, s, V(k, r)), NEW j, NEW t, ReadsAt(j, t, V(k, r)),
         PieceOf(j, t, c) \in S
  PROVE  /\ PieceOf(i, s, c) \in S
         /\ ~Local /\ PlaceOf(Home(i, s)) # PlaceOf(Home(j, t)) =>
              CopyShard(V(k, r), Home(i, s), Home(j, t), c) \in S
<1>0. ASSUME NEW x \in S, NEW p \in LoweredOf, NEW v, v \in Values(x.ins), v \in Values(p.outs)
      PROVE  p \in S
  BY <1>0 DEF ClosedUnderMakers, Inputs
<1>1. PieceValue(V(k, r), j, t, c) \in Values(PieceOf(j, t, c).ins)
  BY PieceReads
<1>2. /\ PieceOf(i, s, c) \in LoweredOf
      /\ PieceValue(V(k, r), i, s, c) \in Values(PieceOf(i, s, c).outs)
  BY PieceMakes
<1>3. CASE Local \/ PlaceOf(Home(i, s)) = PlaceOf(Home(j, t))
  <2>1. PieceValue(V(k, r), j, t, c) = PieceValue(V(k, r), i, s, c)
    BY <1>3 DEF PieceValue, W, Placed
  <2> QED BY <1>0, <1>1, <1>2, <1>3, <2>1
<1>4. CASE ~Local /\ PlaceOf(Home(i, s)) # PlaceOf(Home(j, t))
  <2> DEFINE copy == CopyShard(V(k, r), Home(i, s), Home(j, t), c)
  <2>1. copy \in LoweredOf
    BY <1>4, PieceMoves DEF LoweredOf
  <2>2. Values(copy.outs) = {PieceValue(V(k, r), j, t, c)} /\ Values(copy.ins) = {PieceValue(V(k, r), i, s, c)}
    BY <1>4, CopyShardMakes DEF PieceValue
  <2> HIDE DEF copy
  <2>3. copy \in S
    BY <1>0, <1>1, <2>1, <2>2
  <2>4. PieceOf(i, s, c) \in S
    BY <1>0, <1>2, <2>2, <2>3
  <2> QED BY <2>3, <2>4 DEF copy
<1> QED BY <1>3, <1>4

\* What a lowered invocation reads: a piece, or a copy for one.
LEMMA LoweredReads ==
  ASSUME source \in SourceGraphs, Resolved, MappingsFit, NEW x \in LoweredOf, NEW w \in Values(x.ins), w.role = "fwd"
  PROVE  \E k \in Layer : \E c \in Coords(k) : \E j, t :
           /\ ReadsAt(j, t, V(k, "fwd")) /\ w.tensor = k /\ w.coord = c
           /\ \/ x = PieceOf(j, t, c) /\ x.task = j.task /\ x.guid = j.guid
              \/ /\ ~Local /\ x.task = "none"
                 /\ \E i, s : /\ MakesAt(i, s, V(k, "fwd"))
                              /\ PlaceOf(Home(i, s)) # PlaceOf(Home(j, t))
                              /\ x = CopyShard(V(k, "fwd"), Home(i, s), Home(j, t), c)
<1>0. ASSUME NEW j, NEW t, NEW v, ReadsAt(j, t, v), v.role = "fwd"
      PROVE  \E k \in Layer : v = V(k, "fwd")
  <2>1. v # Label
    BY <1>0, LabelFacts
  <2> QED BY <1>0, <2>1, ReadValues, ValueFields
<1>1. CASE Local
  <2>1. x \in Updated
    BY <1>1 DEF LoweredOf
  <2>2. PICK t \in DOMAIN x.ins : w = x.ins[t]
    BY DEF Values, Range
  <2>3. ReadsAt(x, t, w)
    BY <2>1, <2>2, TaskReads
  <2>4. PICK k \in Layer : w = V(k, "fwd")
    BY <1>0, <2>3
  <2>5. w.tensor = k /\ w.coord = 0 /\ 0 \in Coords(k) /\ x = PieceOf(x, t, 0)
    BY <1>1, <2>4, ValueFields DEF Coords, PieceOf
  <2> QED BY <2>3, <2>4, <2>5
<1>2. CASE ~Local /\ IsTaskShard(x)
  <2>1. PICK j \in Updated : \E p \in ShardNumbers(j) : x = Shard(j, p)
    BY <1>2 DEF IsTaskShard
  <2>2. PICK p \in ShardNumbers(j) : x = Shard(j, p)
    BY <2>1
  <2>3. IsShard(x, j, p)
    BY <2>2, ShardsOfTask
  <2>4. PICK l \in DOMAIN x.ins : w = x.ins[l]
    BY DEF Values, Range
  <2>5. PICK t \in DOMAIN j.ins : \E q \in CoordsAt(j, p, t) : l = SlotOf(j, t, q)
    BY <2>3 DEF IsShard
  <2>6. PICK q \in CoordsAt(j, p, t) : l = SlotOf(j, t, q)
    BY <2>5
  <2>7. w = W(j.ins[t], Home(j, t), q)
    BY <2>3, <2>4, <2>6 DEF IsShard
  <2>8. ReadsAt(j, t, j.ins[t])
    BY TaskReads
  <2>9. w.role = j.ins[t].role /\ w.tensor = j.ins[t].tensor /\ w.coord = q
    BY <2>7, <2>8, PlainPorts, PlacedFields DEF IsPlain
  <2>10. PICK k \in Layer : j.ins[t] = V(k, "fwd")
    BY <1>0, <2>8, <2>9
  <2>11. q \in DOMAIN Home(j, t) /\ p = NumberOf(j, t, q)
    BY NumbersOfHome
  <2>12. q \in Coords(k)
    BY <1>2, <2>8, <2>10, <2>11, HomeOfReads DEF Coords
  <2>13. w.tensor = k /\ x = PieceOf(j, t, q)
    BY <1>2, <2>2, <2>9, <2>10, <2>11, ValueFields DEF PieceOf
  <2>14. x.task = j.task /\ x.guid = j.guid
    BY <2>3 DEF IsShard
  <2> QED BY <2>8, <2>9, <2>10, <2>12, <2>13, <2>14
<1>3. CASE ~Local /\ IsCopyShard(x)
  <2>1. PICK i, s, j, t, q : /\ Moves(i, s, j, t) /\ q \in DOMAIN Home(i, s)
                             /\ x = CopyShard(i.outs[s], Home(i, s), Home(j, t), q)
    BY <1>3 DEF IsCopyShard
  <2> DEFINE v == i.outs[s]
  <2>2. MakesAt(i, s, v) /\ ReadsAt(j, t, v)
    BY <2>1, MovesFacts
  <2>3. w = W(v, Home(i, s), q) /\ x.task = "none"
    BY <2>1, CopyShardMakes, CopyShardFields
  <2>4. w.role = v.role /\ w.tensor = v.tensor /\ w.coord = q
    BY <2>2, <2>3, PlainPorts, PlacedFields DEF IsPlain
  <2>5. PICK k \in Layer : v = V(k, "fwd")
    BY <1>0, <2>2, <2>4
  <2>6. q \in Coords(k)
    BY <1>3, <2>1, <2>2, <2>5, HomeOfMakes DEF Coords
  <2>7. w.tensor = k
    BY <2>4, <2>5, ValueFields
  <2>8. PlaceOf(Home(i, s)) # PlaceOf(Home(j, t))
    BY <2>1 DEF Moves
  <2>9. x = CopyShard(V(k, "fwd"), Home(i, s), Home(j, t), q)
    BY <2>1, <2>5
  <2> HIDE DEF v
  <2> QED BY <1>3, <2>2, <2>3, <2>4, <2>5, <2>6, <2>7, <2>8, <2>9
<1>4. ~Local => IsTaskShard(x) \/ IsCopyShard(x)
  BY ShardedMembers DEF LoweredOf
<1> QED BY <1>1, <1>2, <1>3, <1>4

-------------------------------------------------------------------------------
(***************************************************************************)
(* The backward tasks come after the forward tasks of the layers that the  *)
(* loss depends on.                                                        *)
(***************************************************************************)
LEMMA TaskPorts ==
  ASSUME source \in SourceGraphs, NEW u \in Layer
  PROVE  /\ MakesAt(Fwd(u), P("OUTPUT", "fwd"), V(u, "fwd"))
         /\ InPath(u) => /\ Op(u) = "replicate" => ReadsAt(Bwd(u), P("OUTPUT", "grad"), V(u, "grad"))
                         /\ Op(u) # "replicate" => ReadsAt(Bwd(u), P("OUTPUT", "fwd"), V(u, "fwd"))
         /\ \A k \in Arguments(u) : \E a \in DOMAIN Args(u) :
              /\ k = Args(u)[a]
              /\ ReadsAt(Fwd(u), P(ArgumentSlot[a], "fwd"), V(k, "fwd"))
              /\ InPath(u) => MakesAt(Bwd(u), P(ArgumentSlot[a], "grad"), V(k, "grad"))
         /\ u = Logit => /\ HasLoss
                         /\ ReadsAt(Loss, P("LOGIT", "fwd"), V(u, "fwd"))
                         /\ MakesAt(Loss, P("LOGIT", "grad"), V(u, "grad"))
<1>1. \A k \in Arguments(u) : \E a \in DOMAIN Args(u) : k = Args(u)[a]
  BY ArgumentsFacts
<1>2. u = Logit => HasLoss
  BY LayerFacts DEF HasLoss, Logit
<1>3. InPath(u) => u \in Differentiated
  BY SubsetsOfLayer
<1>4. MakesAt(Fwd(u), P("OUTPUT", "fwd"), V(u, "fwd"))
  BY DEF MakesAt
<1>5. InPath(u) => /\ Op(u) = "replicate" => ReadsAt(Bwd(u), P("OUTPUT", "grad"), V(u, "grad"))
                   /\ Op(u) # "replicate" => ReadsAt(Bwd(u), P("OUTPUT", "fwd"), V(u, "fwd"))
  BY <1>3 DEF ReadsAt
<1>6. \A a \in DOMAIN Args(u) : ReadsAt(Fwd(u), P(ArgumentSlot[a], "fwd"), V(Args(u)[a], "fwd"))
  BY DEF ReadsAt
<1>7. InPath(u) => \A a \in DOMAIN Args(u) : MakesAt(Bwd(u), P(ArgumentSlot[a], "grad"), V(Args(u)[a], "grad"))
  BY <1>3 DEF MakesAt
<1>8. u = Logit => /\ ReadsAt(Loss, P("LOGIT", "fwd"), V(u, "fwd"))
                   /\ MakesAt(Loss, P("LOGIT", "grad"), V(u, "grad"))
  BY <1>2 DEF ReadsAt, MakesAt
<1> QED BY <1>1, <1>2, <1>4, <1>5, <1>6, <1>7, <1>8

\* The gradient of a tensor the loss depends on is made by the backward task of its
\* only user, or by the loss if nobody uses it.
LEMMA SoleUser ==
  ASSUME source \in SourceGraphs, UniqueMakers, NEW k \in Layer, Wanted(k), ReachesLoss[k]
  PROVE  \/ /\ k = Logit
            /\ \A u \in Layer : k \notin Arguments(u)
         \/ /\ k # Logit
            /\ \E u \in Layer : /\ k \in Arguments(u) /\ InPath(u) /\ ReachesLoss[u]
                                /\ \A m \in Layer : k \in Arguments(m) => m = u
<1>1. \A u \in Layer : k \in Arguments(u) => InPath(u)
  BY PathUnfolds DEF Wanted, InPath
<1>2. \A u \in Layer : k \in Arguments(u) => \E a : MakesAt(Bwd(u), P(ArgumentSlot[a], "grad"), V(k, "grad"))
  BY <1>1, TaskPorts
<1>3. CASE k = Logit
  <2>1. MakesAt(Loss, P("LOGIT", "grad"), V(k, "grad"))
    BY <1>3, TaskPorts
  <2>2. \A u \in Layer : k \in Arguments(u) => Bwd(u) = Loss
    BY <1>2, <2>1 DEF UniqueMakers
  <2> QED BY <1>3, <2>2, TasksInjective
<1>4. CASE k # Logit
  <2>1. PICK u \in Layer : k \in Arguments(u) /\ ReachesLoss[u]
    BY <1>4, ReachUnfolds
  <2>2. \A m \in Layer : k \in Arguments(m) => Bwd(m) = Bwd(u)
    BY <1>2, <2>1 DEF UniqueMakers
  <2> QED BY <1>1, <1>4, <2>1, <2>2, TasksInjective
<1> QED BY <1>3, <1>4

\* The role of a slot does not matter.
LEMMA AnyRole ==
  ASSUME NEW i, NEW name, NEW r, NEW q, NEW c
  PROVE  PieceOf(i, P(name, r), c) = PieceOf(i, P(name, q), c)
BY SlotFields, SamePiece DEF PieceOf

\* Every shard of a layer's forward task makes a shard of the output.
LEMMA EveryNumberMakes ==
  ASSUME source \in SourceGraphs, Resolved, MappingsFit, NEW u \in Layer, NEW p \in ShardNumbers(Fwd(u))
  PROVE  \E q \in DOMAIN Dev(u) : p = NumberOf(Fwd(u), P("OUTPUT", "fwd"), q)
<1> DEFINE i == Fwd(u)
           s == P("OUTPUT", "fwd")
<1>1. i \in Updated /\ s \in DOMAIN i.outs
  BY MakesTask DEF MakesAt
<1>2. ~IsWhole(i, s) /\ Home(i, s) = Dev(u)
  BY HomeOfOutput
<1>3. i.op = Op(u) /\ i.mapping = MapOf(u) /\ s.name = "OUTPUT"
  BY FwdFacts, SlotFields
<1> HIDE DEF i, s
<1>4. \A q \in CoordsAt(i, p, s) : q \in DOMAIN Dev(u) /\ p = NumberOf(i, s, q)
  BY <1>1, <1>2, NumbersOfHome DEF i
<1>5. \E q : q \in CoordsAt(i, p, s)
  <2>1. CASE i.op # "replicate"
    BY <2>1 DEF CoordsAt
  <2>2. CASE i.op = "replicate"
    <3>1. PICK e \in DOMAIN i.mapping : i.mapping[e]["INPUT"] = p
      BY <1>1, <2>2, ReplicasExist DEF i
    <3>2. Apart(i.mapping, "OUTPUT")
      BY <1>3, FitFacts, NamesFacts
    <3>3. Dev(u)[i.mapping[e]["OUTPUT"]] = e /\ i.mapping[e]["OUTPUT"] \in DOMAIN Dev(u)
      BY <1>3, <3>1, <3>2, ApartFacts, PlacesFacts DEF Dev
    <3> QED BY <1>2, <2>2, <3>1, <3>3 DEF CoordsAt
  <2> QED BY <2>1, <2>2
<1> QED BY <1>4, <1>5 DEF i, s

\* The piece of a layer's task that has a shard of an argument has a shard of the output.
LEMMA UserCoord ==
  ASSUME source \in SourceGraphs, Resolved, MappingsFit, NEW u \in Layer, NEW a \in DOMAIN Args(u),
         NEW c \in Coords(Args(u)[a])
  PROVE  \E q \in Coords(u) :
           /\ PieceOf(Fwd(u), P("OUTPUT", "fwd"), q) = PieceOf(Fwd(u), P(ArgumentSlot[a], "fwd"), c)
           /\ PieceOf(Bwd(u), P("OUTPUT", "fwd"), q) = PieceOf(Bwd(u), P(ArgumentSlot[a], "fwd"), c)
<1>1. CASE Local
  <2>1. PICK q : q \in Coords(u)
    BY SomeCoord
  <2> QED BY <1>1, <2>1 DEF PieceOf
<1>2. CASE ~Local
  <2> DEFINE s == P(ArgumentSlot[a], "fwd")
             t == P("OUTPUT", "fwd")
  <2>1. Fwd(u) \in Updated /\ s \in DOMAIN Fwd(u).ins
    <3>1. ReadsAt(Fwd(u), s, V(Args(u)[a], "fwd"))
      BY DEF ReadsAt
    <3> QED BY <3>1, ReadsTask
  <2>2. c \in DOMAIN Home(Fwd(u), s)
    BY <1>2, HomeOfArgument DEF Coords
  <2>3. NumberOf(Fwd(u), s, c) \in ShardNumbers(Fwd(u))
    BY <2>1, <2>2, NumbersOfHome
  <2>4. PICK q \in DOMAIN Dev(u) : NumberOf(Fwd(u), s, c) = NumberOf(Fwd(u), t, q)
    BY <2>3, EveryNumberMakes
  <2>5. Fwd(u).op = Bwd(u).op /\ Fwd(u).guid = Bwd(u).guid /\ Fwd(u).mapping = Bwd(u).mapping
    BY FwdFacts, BwdFacts
  <2> HIDE DEF s, t
  <2>6. NumberOf(Fwd(u), s, c) = NumberOf(Bwd(u), s, c) /\ NumberOf(Fwd(u), t, q) = NumberOf(Bwd(u), t, q)
    BY <2>5, SamePiece
  <2> QED BY <1>2, <2>4, <2>6 DEF Coords, PieceOf, s, t
<1> QED BY <1>1, <1>2

\* A replicate's backward task does not wait for its forward task itself, but for
\* the backward task of its user, or for the loss.
LEMMA ForwardFirst ==
  ASSUME source \in SourceGraphs, UniqueMakers, Resolved, MappingsFit, NEW S, ClosedUnderMakers(LoweredOf, S)
  PROVE  \A u \in Layer : InPath(u) /\ ReachesLoss[u] =>
           \A q \in Coords(u) : PieceOf(Bwd(u), P("OUTPUT", "fwd"), q) \in S
                                  => PieceOf(Fwd(u), P("OUTPUT", "fwd"), q) \in S
<1> DEFINE First(u) == InPath(u) /\ ReachesLoss[u] =>
                         \A q \in Coords(u) : PieceOf(Bwd(u), P("OUTPUT", "fwd"), q) \in S
                                                => PieceOf(Fwd(u), P("OUTPUT", "fwd"), q) \in S
           Late == {d \in Nat : \E u \in Layer : d = Last - u /\ ~First(u)}
<1>1. ASSUME NEW u \in Layer, \A m \in Layer : m > u => First(m)
      PROVE  First(u)
  <2> SUFFICES ASSUME InPath(u), ReachesLoss[u], NEW q \in Coords(u),
                      PieceOf(Bwd(u), P("OUTPUT", "fwd"), q) \in S
               PROVE  PieceOf(Fwd(u), P("OUTPUT", "fwd"), q) \in S
    OBVIOUS
  <2>1. MakesAt(Fwd(u), P("OUTPUT", "fwd"), V(u, "fwd"))
    BY TaskPorts
  <2>2. ASSUME NEW j, NEW t, ReadsAt(j, t, V(u, "fwd")), PieceOf(j, t, q) \in S
        PROVE  PieceOf(Fwd(u), P("OUTPUT", "fwd"), q) \in S
    BY <2>1, <2>2, Backward
  <2>3. CASE Op(u) # "replicate"
    BY <2>2, <2>3, TaskPorts
  <2>4. CASE Op(u) = "replicate"
    <3>1. ReadsAt(Bwd(u), P("OUTPUT", "grad"), V(u, "grad"))
      BY <2>4, TaskPorts
    <3>2. ASSUME NEW i, NEW s, MakesAt(i, s, V(u, "grad")) PROVE PieceOf(i, s, q) \in S
      <4>1. PieceOf(Bwd(u), P("OUTPUT", "grad"), q) \in S
        BY AnyRole
      <4> QED BY <3>1, <3>2, <4>1, Backward
    <3>3. Wanted(u)
      BY DEF Wanted
    <3>4. CASE u = Logit
      <4>1. PieceOf(Loss, P("LOGIT", "grad"), q) \in S
        BY <3>2, <3>4, TaskPorts
      <4>2. PieceOf(Loss, P("LOGIT", "fwd"), q) \in S
        BY <4>1, AnyRole
      <4> QED BY <2>2, <3>4, <4>2, TaskPorts
    <3>5. CASE u # Logit
      <4>1. PICK m \in Layer : u \in Arguments(m) /\ InPath(m) /\ ReachesLoss[m]
        BY <3>3, <3>5, SoleUser
      <4>2. m > u
        <5>1. u < m /\ u \in Nat /\ m \in Nat
          BY <4>1, ArgumentsFacts, LayerFacts
        <5> QED BY <5>1
      <4>4. PICK a \in DOMAIN Args(m) : /\ u = Args(m)[a]
                                        /\ ReadsAt(Fwd(m), P(ArgumentSlot[a], "fwd"), V(u, "fwd"))
                                        /\ MakesAt(Bwd(m), P(ArgumentSlot[a], "grad"), V(u, "grad"))
        BY <4>1, TaskPorts
      <4>3. PICK p \in Coords(m) :
              /\ PieceOf(Fwd(m), P("OUTPUT", "fwd"), p) = PieceOf(Fwd(m), P(ArgumentSlot[a], "fwd"), q)
              /\ PieceOf(Bwd(m), P("OUTPUT", "fwd"), p) = PieceOf(Bwd(m), P(ArgumentSlot[a], "fwd"), q)
        BY <4>4, UserCoord
      <4>5. PieceOf(Bwd(m), P(ArgumentSlot[a], "fwd"), q) \in S
        <5>1. PieceOf(Bwd(m), P(ArgumentSlot[a], "grad"), q) \in S
          BY <3>2, <4>4
        <5> QED BY <5>1, AnyRole
      <4>6. PieceOf(Fwd(m), P(ArgumentSlot[a], "fwd"), q) \in S
        BY <1>1, <4>1, <4>2, <4>3, <4>5
      <4> QED BY <2>2, <4>4, <4>6
    <3> QED BY <3>4, <3>5
  <2> QED BY <2>3, <2>4
<1> HIDE DEF First
<1>2. Late = {}
  <2> SUFFICES ASSUME Late # {} PROVE FALSE
    OBVIOUS
  <2>1. PICK d \in Late : \A e \in Late : d <= e
    BY Least
  <2>2. PICK u \in Layer : d = Last - u /\ ~First(u)
    BY <2>1
  <2>3. ASSUME NEW m \in Layer, m > u PROVE First(m)
    <3>1. m \in Nat /\ u \in Nat /\ Last \in Nat /\ m <= Last
      BY LevelFacts
    <3>2. Last - m \in Nat /\ Last - m < d
      BY <2>2, <2>3, <3>1
    <3>3. Last - m \notin Late
      <4>1. d \in Nat
        BY <2>1
      <4> HIDE DEF Late
      <4> QED BY <2>1, <3>2, <4>1
    <3> QED BY <3>2, <3>3
  <2> QED BY <1>1, <2>2, <2>3
<1>3. \A u \in Layer : First(u)
  <2> TAKE u \in Layer
  <2>1. Last - u \in Nat
    <3>1. u \in Nat /\ Last \in Nat /\ u <= Last
      BY LevelFacts
    <3> QED BY <3>1
  <2> QED BY <1>2, <2>1
<1> QED BY <1>3 DEF First

\* Once the gradient of a trained weight is there, all other readers of the weight
\* have come before.
LEMMA ReadersFirst ==
  ASSUME source \in SourceGraphs, UniqueMakers, Resolved, MappingsFit, NEW S, ClosedUnderMakers(LoweredOf, S),
         NEW k \in Weights, ReachesLoss[k], NEW c \in Coords(k), PieceOf(Upd(k), P("OUTPUT", "fwd"), c) \in S,
         NEW j, NEW t, ReadsAt(j, t, V(k, "fwd")), j # Upd(k)
  PROVE  PieceOf(j, t, c) \in S
<1>1. k \in Layer /\ Op(k) = "weight" /\ Wanted(k)
  BY DEF Weights, Wanted, Trainable, Op
<1>2. ReadsAt(Upd(k), P("OUTPUT", "grad"), V(k, "grad"))
  BY DEF ReadsAt, UpdateRoles
<1>3. ASSUME NEW i, NEW s, MakesAt(i, s, V(k, "grad")) PROVE PieceOf(i, s, c) \in S
  <2>1. PieceOf(Upd(k), P("OUTPUT", "grad"), c) \in S
    BY AnyRole
  <2> QED BY <1>1, <1>2, <1>3, <2>1, Backward
<1>4. ~InPath(k)
  BY <1>1, ArgumentsFacts, PathUnfolds DEF InPath
<1>5. \/ \E m \in Layer : \E a \in DOMAIN Args(m) :
           /\ k = Args(m)[a] /\ t = P(ArgumentSlot[a], "fwd")
           /\ j = Fwd(m) \/ (j = Bwd(m) /\ InPath(m))
      \/ k = Logit /\ j = Loss /\ t = P("LOGIT", "fwd")
  <2>1. \A a, b, q, r : V(a, q) = V(b, r) => a = b /\ q = r
    BY ValuesInjective
  <2>2. V(k, "fwd") # Label
    BY <1>1, LabelFacts, LayersAreNumbers
  <2>4. \A m \in Weights : \A r \in UpdateRoles : ~(j = Upd(m) /\ V(k, "fwd") = V(m, r))
    BY <2>1
  <2>5. \A m \in Differentiated : V(k, "fwd") # V(m, "grad") /\ V(k, "fwd") # V(m, "fwd")
    BY <1>4, <2>1, SubsetsOfLayer
  <2> QED BY <2>1, <2>2, <2>4, <2>5 DEF ReadsAt
<1>6. CASE k = Logit
  <2>1. \A u \in Layer : k \notin Arguments(u)
    BY <1>1, <1>6, SoleUser
  <2>2. j = Loss /\ t = P("LOGIT", "fwd")
    BY <1>5, <2>1, ArgumentsFacts
  <2>3. MakesAt(Loss, P("LOGIT", "grad"), V(k, "grad"))
    BY <1>1, <1>6, TaskPorts
  <2> QED BY <1>3, <2>2, <2>3, AnyRole
<1>7. CASE k # Logit
  <2>1. PICK u \in Layer : /\ k \in Arguments(u) /\ InPath(u) /\ ReachesLoss[u]
                           /\ \A m \in Layer : k \in Arguments(m) => m = u
    BY <1>1, <1>7, SoleUser
  <2>2. PICK a \in DOMAIN Args(u) : /\ k = Args(u)[a] /\ t = P(ArgumentSlot[a], "fwd")
                                    /\ j = Fwd(u) \/ j = Bwd(u)
    BY <1>5, <1>7, <2>1, ArgumentsFacts
  <2>3. PieceOf(Bwd(u), P(ArgumentSlot[a], "fwd"), c) \in S
    <3>1. MakesAt(Bwd(u), P(ArgumentSlot[a], "grad"), V(k, "grad"))
      BY <2>1, <2>2, SubsetsOfLayer DEF MakesAt
    <3>2. PieceOf(Bwd(u), P(ArgumentSlot[a], "grad"), c) \in S
      BY <1>3, <3>1
    <3> QED BY <3>2, AnyRole
  <2>4. PieceOf(Fwd(u), P(ArgumentSlot[a], "fwd"), c) \in S
    <3>1. PICK q \in Coords(u) :
            /\ PieceOf(Fwd(u), P("OUTPUT", "fwd"), q) = PieceOf(Fwd(u), P(ArgumentSlot[a], "fwd"), c)
            /\ PieceOf(Bwd(u), P("OUTPUT", "fwd"), q) = PieceOf(Bwd(u), P(ArgumentSlot[a], "fwd"), c)
      BY <2>2, UserCoord
    <3> QED BY <2>1, <2>3, <3>1, ForwardFirst
  <2> QED BY <2>2, <2>3, <2>4
<1> QED BY <1>6, <1>7

\* All other readers of a weight's shard come before its update, whatever order the
\* graph allows, if the loss depends on the weight.
THEOREM UpdatesLast == Spec => []UpdatesComeLast
<1>1. IInv => UpdatesComeLast
  <2> SUFFICES ASSUME IInv, Lowered, NEW u \in graph, u.task = "UPD", ReachesLoss[u.guid],
                      NEW v \in Values(u.ins), v.role = "fwd", NEW x \in graph, x # u,
                      NEW w \in Values(x.ins), w.tensor = v.tensor, w.role = "fwd", w.coord = v.coord
               PROVE  Precedes(x, u)
    BY DEF UpdatesComeLast
  <2>1. source \in SourceGraphs /\ graph = LoweredOf
    BY LoweredGraph DEF LoweredOf
  <2>2. UniqueMakers
    BY <2>1, UpdatedIsValid DEF IInv, GraphAtStage, Lowered
  <2>3. Resolved /\ MappingsFit
    <3>1. CASE Local
      <4>1. NoneThrownAway
        BY <2>1, <3>1, LayerFacts DEF NoneThrownAway
      <4> QED BY <2>1, <4>1, ResolvedIff, LoweredGraph
    <3>2. CASE ~Local
      BY <3>2, LoweredGraph
    <3> QED BY <3>1, <3>2
  <2>4. IsFiniteSet(graph)
    BY <2>1, <2>3, UpdatedFinite, ShardedFinite DEF LoweredOf
  <2>5. PICK S \in SUBSET graph : /\ u \in S /\ ClosedUnderMakers(LoweredOf, S)
                                  /\ \A i : i \in S => Precedes(i, u)
    BY <2>1, <2>4, PrecedesIsClosed
  <2>6. PICK k, c :
          /\ k \in Layer /\ c \in Coords(k) /\ v.tensor = k /\ v.coord = c
          /\ k \in Weights /\ u = PieceOf(Upd(k), P("OUTPUT", "fwd"), c) /\ u.guid = k
    <3>1. PICK k \in Layer : \E c \in Coords(k) : \E j, t :
             /\ ReadsAt(j, t, V(k, "fwd")) /\ v.tensor = k /\ v.coord = c
             /\ u = PieceOf(j, t, c) /\ u.task = j.task /\ u.guid = j.guid
      BY <2>1, <2>3, LoweredReads
    <3>2. PICK c \in Coords(k) : \E j, t :
             /\ ReadsAt(j, t, V(k, "fwd")) /\ v.tensor = k /\ v.coord = c
             /\ u = PieceOf(j, t, c) /\ u.task = j.task /\ u.guid = j.guid
      BY <3>1
    <3>3. PICK j, t : /\ ReadsAt(j, t, V(k, "fwd")) /\ v.tensor = k /\ v.coord = c
                      /\ u = PieceOf(j, t, c) /\ u.task = j.task /\ u.guid = j.guid
      BY <3>2
    <3>4. j.task = "UPD" /\ j \in Updated
      BY <2>1, <3>3, ReadsTask
    <3>5. PICK m \in Weights : j = Upd(m)
      BY <2>1, <3>4, UpdatedMembers, SubsetsOfLayer, FwdFacts, BwdFacts, LossFacts DEF IsTask
    <3>6. m = k /\ \E r : t = P("OUTPUT", r)
      <4>1. t \in DOMAIN Upd(m).ins /\ V(k, "fwd") = Upd(m).ins[t]
        BY <2>1, <3>3, <3>5, ReadsTask
      <4>2. \E r \in UpdateRoles : V(k, "fwd") = V(m, r) /\ t = P("OUTPUT", r)
        BY <2>1, <4>1, UpdFacts, SubsetsOfLayer
      <4> QED BY <4>2, ValuesInjective
    <3>7. Upd(k).guid = k
      BY <2>1, UpdFacts
    <3> QED BY <3>3, <3>5, <3>6, <3>7, AnyRole
  <2>7. PICK m \in Layer : \E d \in Coords(m) : \E j, t :
          /\ ReadsAt(j, t, V(m, "fwd")) /\ w.tensor = m /\ w.coord = d
          /\ \/ x = PieceOf(j, t, d)
             \/ /\ ~Local
                /\ \E i, s : /\ MakesAt(i, s, V(m, "fwd"))
                             /\ PlaceOf(Home(i, s)) # PlaceOf(Home(j, t))
                             /\ x = CopyShard(V(m, "fwd"), Home(i, s), Home(j, t), d)
    BY <2>1, <2>3, LoweredReads
  <2>8. m = k
    BY <2>6, <2>7
  <2>9. PICK j, t :
          /\ ReadsAt(j, t, V(k, "fwd"))
          /\ \/ x = PieceOf(j, t, c)
             \/ /\ ~Local
                /\ \E i, s : /\ MakesAt(i, s, V(k, "fwd"))
                             /\ PlaceOf(Home(i, s)) # PlaceOf(Home(j, t))
                             /\ x = CopyShard(V(k, "fwd"), Home(i, s), Home(j, t), c)
    BY <2>6, <2>7, <2>8
  <2>10. j # Upd(k) => PieceOf(j, t, c) \in S
    BY <2>1, <2>2, <2>3, <2>5, <2>6, <2>9, ReadersFirst
  <2>11. j = Upd(k) => \E r : t = P("OUTPUT", r)
    <3>1. j = Upd(k) => t \in DOMAIN Upd(k).ins
      BY <2>1, <2>9, ReadsTask
    <3>2. t \in DOMAIN Upd(k).ins => \E r : t = P("OUTPUT", r)
      BY <2>1, <2>6, UpdFacts
    <3> QED BY <3>1, <3>2
  <2>12. x \in S
    <3>1. CASE x = PieceOf(j, t, c)
      BY <2>5, <2>6, <2>10, <2>11, <3>1, AnyRole
    <3>2. CASE x # PieceOf(j, t, c)
      <4>1. PICK i, s : /\ MakesAt(i, s, V(k, "fwd"))
                        /\ PlaceOf(Home(i, s)) # PlaceOf(Home(j, t))
                        /\ x = CopyShard(V(k, "fwd"), Home(i, s), Home(j, t), c)
        BY <2>9, <3>2
      <4>2. ~Local
        BY <2>9, <3>2
      <4>3. j # Upd(k)
        <5> SUFFICES ASSUME j = Upd(k) PROVE FALSE
          OBVIOUS
        <5>1. i = Fwd(k) /\ s = P("OUTPUT", "fwd")
          BY <2>1, <2>2, <2>6, <4>1, TaskPorts DEF UniqueMakers
        <5>2. Home(i, s) = Dev(k) /\ Home(j, t) = Dev(k)
          BY <2>1, <2>6, <2>11, <5>1, HomeOfOutput
        <5> QED BY <4>1, <5>2
      <4>4. PieceOf(j, t, c) \in S
        BY <2>10, <4>3
      <4> QED BY <2>1, <2>3, <2>5, <2>6, <2>9, <4>1, <4>2, <4>4, Backward
    <3> QED BY <3>1, <3>2
  <2> QED BY <2>5, <2>12
<1> QED BY <1>1, Inductive, PTL
===============================================================================
