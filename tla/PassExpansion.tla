---------------------------- MODULE PassExpansion ----------------------------
(***************************************************************************)
(* The first lowering pass: every invocation becomes its forward task and, *)
(* if a gradient has to flow through it, its backward task.                *)
(***************************************************************************)
EXTENDS DynamicGraph

\* The values whose gradients are needed to compute those of the given ones:
\* whatever is computed from them.
ClosedUnderUse(g, values) ==
  LET Rounds[k \in 0..Cardinality(g)] ==
        IF k = 0 THEN values
        ELSE LET known == Rounds[k - 1]
             IN known \cup UNION {Outputs(SinkInvocations(g, v)) : v \in known}
  IN Rounds[Cardinality(g)]

\* Mutant: the create_grad of an input is not asked for.
IsFundamentallyRequiredForInputs(g, v) ==
  \/ Sources(g, v) = {}
  \/ \E s \in Sources(g, v) : s.inv.op \in {"weight", "input"}

IsFundamentallyRequired(g, v) ==
  LET source == Sources(g, v) IN
  \/ source = {}
  \/ \E s \in source : s.inv.op = "weight"
  \/ \E s \in source : s.inv.op = "input" /\ v.grad

\* Mutant: only the direct uses of a trainable tensor are differentiated.
NeededInBackwardDirectly(g) ==
  UNION {SinkInvocations(g, v) : v \in {w \in AllValues(g) : IsFundamentallyRequired(g, w)}}

NeededInBackward(g) ==
  LET required ==
        ClosedUnderUse(g, {v \in AllValues(g) : IsFundamentallyRequired(g, v)})
  IN UNION {SinkInvocations(g, v) : v \in required}

\* The slots and values of a direction with the role of the pass.
WithRole(ports, role) ==
  LET Unexpanded(s) == [s EXCEPT !.role = "none"]
  IN [s \in {[t EXCEPT !.role = role] : t \in DOMAIN ports} |->
        [ports[Unexpanded(s)] EXCEPT !.role = role]]

\* Mutant: the task type is left unset.
ForwardTaskUnmarked(i) ==
  [i EXCEPT !.ins = WithRole(i.ins, "fwd"), !.outs = WithRole(i.outs, "fwd")]

ForwardTask(i) ==
  [i EXCEPT !.task = "FWD",
            !.ins = WithRole(i.ins, "fwd"),
            !.outs = WithRole(i.outs, "fwd")]

BackwardInputs(i) ==
  IF i.op = "replicate" THEN WithRole(i.outs, "grad")
  ELSE Merge(WithRole(i.ins, "fwd"), Merge(WithRole(i.outs, "fwd"), WithRole(i.outs, "grad")))

BackwardTask(i) ==
  [i EXCEPT !.task = "BWD",
            !.ins = BackwardInputs(i),
            !.outs = WithRole(i.ins, "grad")]

ExpandPasses(g) ==
  {ForwardTask(i) : i \in g} \cup {BackwardTask(i) : i \in NeededInBackward(g)}
=============================================================================
