------------------------- MODULE MCDependencyTracking -------------------------
(* A small instance of DependencyTracking for TLC: every invocation that can *)
(* be made of a few operations and values, in every order.                   *)
EXTENDS DependencyTracking, TLC

Lanes == {f \in UNION {[G -> Value] : G \in (SUBSET Op) \ {{}}} :
            \A o, q \in DOMAIN f : f[o] = f[q] => o = q}

AllInvocations ==
  {SingleOperation(o, R, W) :
      o \in Op, R \in SUBSET Value, W \in SUBSET Value}
    \cup {Broadcast(v, lanes) : v \in Value, lanes \in Lanes}
    \cup {Reduction(lanes, v) : lanes \in Lanes, v \in Value}

AllAccesses == Access

Symmetry == Permutations(Op) \cup Permutations(Value)
=============================================================================
