-------------------------- MODULE DependencyTracking --------------------------
(***************************************************************************)
(* What dependency tracking promises a client of the Realm backend that    *)
(* issues invocations one after the other, in any order and with any       *)
(* inputs and outputs, while the runtime executes the issued operations    *)
(* concurrently.  DependencySet supplies the operators the code calls; the *)
(* runtime's part (an operation starts once its precondition has triggered *)
(* and finishes some time later) is external.                              *)
(*                                                                         *)
(* An invocation is a function from the operations it becomes to what each *)
(* of them reads and writes.  A broadcast or a reduction becomes several:  *)
(* they share one precondition and are each other's peers.                 *)
(***************************************************************************)
EXTENDS DependencySet

CONSTANTS
  Op,          \* the Realm operations (task launches, copies, reductions)
  Value,       \* the tensor shards, each backed by one instance
  Invocation,  \* the invocations that become operations
  Registered   \* inputs and outputs of the invocations that become none

Access == [reads : SUBSET Value, writes : SUBSET Value]

ASSUME InvocationAssumption ==
  \A inv \in Invocation :
    /\ DOMAIN inv \in (SUBSET Op) \ {{}}
    /\ \A o \in DOMAIN inv : inv[o] \in Access

ASSUME RegisteredAssumption == Registered \subseteq Access

Reads(inv)  == UNION {inv[o].reads : o \in DOMAIN inv}
Writes(inv) == UNION {inv[o].writes : o \in DOMAIN inv}

\* A task launch or a copy: one operation that touches everything.
SingleOperation(o, R, W) == [p \in {o} |-> [reads |-> R, writes |-> W]]

\* issue_collective_broadcast: a copy of `source` to each of the outputs.
Broadcast(source, target) ==
  [o \in DOMAIN target |-> [reads |-> {source}, writes |-> {target[o]}]]

\* issue_collective_reduction: each input is reduced into the one output.
Reduction(source, target) ==
  [o \in DOMAIN source |-> [reads |-> {source[o]}, writes |-> {target}]]

VARIABLES
  status,       \* each operation: "fresh", "issued", "running" or "done"
  access,       \* what an issued operation reads and writes
  peers,        \* the operations issued by the same invocation
  pre,          \* the event an operation waits for
  deps,         \* the DependencySet of the current phase
  outstanding   \* RealmContext::outstanding_events, merged

vars == <<status, access, peers, pre, deps, outstanding>>

Fresh   == {o \in Op : status[o] = "fresh"}
Issued  == Op \ Fresh
Running == {o \in Op : status[o] = "running"}
Done    == {o \in Op : status[o] = "done"}

Event == SUBSET Op

DependencySets ==
  [precondition : Event,
   atomic : UNION {[S -> [writer : Event, readers : Event]] : S \in SUBSET Value}]

TypeOK ==
  /\ status \in [Op -> {"fresh", "issued", "running", "done"}]
  /\ access \in [Op -> Access]
  /\ peers \in [Op -> SUBSET Op]
  /\ pre \in [Op -> Event]
  /\ deps \in DependencySets
  /\ outstanding \in Event

-----------------------------------------------------------------------------

Init ==
  /\ status = [o \in Op |-> "fresh"]
  /\ access = [o \in Op |-> [reads |-> {}, writes |-> {}]]
  /\ peers = [o \in Op |-> {}]
  /\ pre = [o \in Op |-> NoEvent]
  /\ deps = NewDependencySet(NoEvent)
  /\ outstanding = NoEvent

\* A pass begins: a new DependencySet whose precondition is everything
\* outstanding.  get_outstanding_events puts the merged event back.
BeginPhase ==
  /\ deps' = NewDependencySet(outstanding)
  /\ UNCHANGED <<status, access, peers, pre, outstanding>>

\* The precondition is computed after the invocation has been recorded.
IssueRecordedFirst(inv) ==
  LET G == DOMAIN inv
      recorded == RecordInvocation(deps, Reads(inv), Writes(inv), G)
  IN
  /\ G \subseteq Fresh
  /\ status' = [o \in Op |-> IF o \in G THEN "issued" ELSE status[o]]
  /\ access' = [o \in Op |-> IF o \in G THEN inv[o] ELSE access[o]]
  /\ peers' = [o \in Op |-> IF o \in G THEN G ELSE peers[o]]
  /\ pre' = [o \in Op |->
                IF o \in G THEN InvocationPrecondition(recorded, Reads(inv), Writes(inv))
                           ELSE pre[o]]
  /\ deps' = recorded
  /\ outstanding' = MergeEvents({outstanding, G})

Issue(inv) ==
  LET G == DOMAIN inv IN
  /\ G \subseteq Fresh
  /\ status' = [o \in Op |-> IF o \in G THEN "issued" ELSE status[o]]
  /\ access' = [o \in Op |-> IF o \in G THEN inv[o] ELSE access[o]]
  /\ peers' = [o \in Op |-> IF o \in G THEN G ELSE peers[o]]
  /\ pre' = [o \in Op |->
                IF o \in G THEN InvocationPrecondition(deps, Reads(inv), Writes(inv))
                           ELSE pre[o]]
  /\ deps' = RecordInvocation(deps, Reads(inv), Writes(inv), G)
  /\ outstanding' = MergeEvents({outstanding, G})

\* An invocation that becomes no operation (inputs and weights) still registers
\* NO_EVENT.  It produces its outputs, so nothing has used them before it.
Register(acc) ==
  /\ acc.writes \cap DOMAIN deps.atomic = {}
  /\ deps' = RecordInvocation(deps, acc.reads, acc.writes, NoEvent)
  /\ UNCHANGED <<status, access, peers, pre, outstanding>>

Start(o) ==
  /\ status[o] = "issued"
  /\ pre[o] \subseteq Done
  /\ status' = [status EXCEPT ![o] = "running"]
  /\ UNCHANGED <<access, peers, pre, deps, outstanding>>

Finish(o) ==
  /\ status[o] = "running"
  /\ status' = [status EXCEPT ![o] = "done"]
  /\ UNCHANGED <<access, peers, pre, deps, outstanding>>

Next ==
  \/ BeginPhase
  \/ \E inv \in Invocation : Issue(inv)
  \/ \E acc \in Registered : Register(acc)
  \/ \E o \in Op : Start(o)
  \/ \E o \in Op : Finish(o)

\* Realm runs an operation whose precondition has triggered, and every
\* operation that runs comes to an end.
RuntimeFairness ==
  \A o \in Op : WF_vars(Start(o)) /\ WF_vars(Finish(o))

Spec == Init /\ [][Next]_vars /\ RuntimeFairness

-----------------------------------------------------------------------------
(* Correctness *)

Touches(o) == access[o].reads \cup access[o].writes

\* Two operations conflict when one writes what the other touches.  The
\* reductions of one invocation do not: they update their common output with
\* atomic, commuting operations.
Conflict(o, q) ==
  /\ q \notin peers[o]
  /\ \/ access[o].writes \cap Touches(q) # {}
     \/ access[q].writes \cap Touches(o) # {}

\* At any moment, the operations that are running do not conflict: a shard has
\* one writer or several readers (the SWMR rule the DependencySet documents).
SingleWriterMultipleReaders ==
  \A o, q \in Running : ~Conflict(o, q)

\* Whatever phases they belong to, one of two conflicting operations waits for
\* the other, so their order is settled when they are issued and the runtime
\* has no say in it.
ConflictsAreOrdered ==
  \A o, q \in Issued : Conflict(o, q) => o \in pre[q] \/ q \in pre[o]

\* The tracking does not serialise what it need not: an operation waits for
\* another one of its phase only if the two invocations conflict, or because
\* something it waits for waits for it already.
SamePhase(o, q) == ~(o \in deps.precondition \/ q \in deps.precondition)

InvocationsConflict(o, q) ==
  \E p \in peers[o], r \in peers[q] :
    \/ access[p].writes \cap Touches(r) # {}
    \/ access[r].writes \cap Touches(p) # {}

NoSpuriousDependency ==
  \A o, q \in Issued :
    SamePhase(o, q) /\ o \in pre[q] =>
      \/ InvocationsConflict(o, q)
      \/ \E w \in Issued : o \in pre[w] /\ w \in pre[q]

\* No operations wait for each other in a circle: whatever is unfinished, one
\* of it waits only for what is finished, so the runtime always has a next step.
NoCyclicWait ==
  \A S \in SUBSET (Issued \ Done) :
    S # {} => \E o \in S : pre[o] \cap S = {}
=============================================================================
