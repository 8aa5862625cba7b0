--------------------------- MODULE RealmExecution ---------------------------
(***************************************************************************)
(* One controller driving a PCGInstance on the Realm backend: it allocates *)
(* an instance for every tensor shard, initialises the operators, dispatches*)
(* training passes without waiting for them, destroys the instances and    *)
(* leaves its RealmContext, while the runtime executes what was issued as  *)
(* soon as its precondition has triggered.                                 *)
(*                                                                         *)
(* The Program is the sequence of invocations create_pcg_instance computes *)
(* (get_execution_order): a topological order of the lowered graph.        *)
(***************************************************************************)
EXTENDS DependencySet, Integers, Sequences, FiniteSets

CONSTANTS
  Value,      \* the tensor shards of the lowered graph
  Program,    \* its invocations, in execution order
  PassKind,   \* the passes the training loop may dispatch
  MaxPasses   \* how many passes the training loop dispatches at most

Position == 1..Len(Program)

InvocationSet ==
  [op : {"input", "weight", "replicate", "loss", "copy", "compute"},
   task : {"FWD", "BWD", "UPD", "LOSS", "none"},
   ins : SUBSET Value, outs : SUBSET Value, stateful : BOOLEAN]

\* What the lowering guarantees: only copies have no task type, what becomes an
\* operation accesses something, every value has at most one producer, and a
\* value is produced before it is consumed.
ASSUME ProgramAssumption ==
  /\ Program \in Seq(InvocationSet)
  /\ \A i \in Position :
       /\ Program[i].op = "copy" <=> Program[i].task = "none"
       /\ Program[i].op = "loss" <=> Program[i].task = "LOSS"
       /\ Program[i].task = "UPD" => Program[i].op = "weight"
       /\ Program[i].op \in {"input", "weight"} => ~Program[i].stateful
       /\ Program[i].op \notin {"input", "weight"} =>
            Program[i].ins \cup Program[i].outs # {}
  /\ \A i, j \in Position :
       /\ i # j => Program[i].outs \cap Program[j].outs = {}
       /\ Program[i].outs \cap Program[j].ins # {} => i < j

ASSUME PassAssumption ==
  /\ PassKind \subseteq {"all", "forward", "backward", "update"}
  /\ MaxPasses \in Nat

-----------------------------------------------------------------------------
(* Operations: <<kind, pass, position, lane>>, the last three as far as they *)
(* apply.  A broadcast or a reduction has one operation per replica, told    *)
(* apart by the replica's value.                                             *)

CreateOp(v)    == <<"create", 0, 0, v>>
DestroyOp(v)   == <<"destroy", 0, 0, v>>
InitOp(i)      == <<"init", 0, i, "whole">>
PassOp(p, i, lane) == <<"pass", p, i, lane>>

CreateOps  == {CreateOp(v) : v \in Value}
DestroyOps == {DestroyOp(v) : v \in Value}
InitOps    == {InitOp(i) : i \in {j \in Position : Program[j].stateful}}

IsReplicate(inv, task) == inv.op = "replicate" /\ inv.task = task

Lanes(inv) ==
  CASE inv.op \in {"input", "weight"} -> {}
    [] IsReplicate(inv, "FWD")        -> inv.outs
    [] IsReplicate(inv, "BWD")        -> inv.ins
    [] OTHER                          -> {"whole"}

LaneAccess(inv, lane) ==
  [reads  |-> IF IsReplicate(inv, "BWD") THEN {lane} ELSE inv.ins,
   writes |-> IF IsReplicate(inv, "FWD") THEN {lane} ELSE inv.outs]

SpawnedOps(p, i) == {PassOp(p, i, lane) : lane \in Lanes(Program[i])}
PassOps == UNION {SpawnedOps(p, i) : p \in 1..MaxPasses, i \in Position}

AccessOf(o) == LaneAccess(Program[o[3]], o[4])
Touched(o)  == AccessOf(o).reads \cup AccessOf(o).writes

\* issue_collective_reduction: is_fold = false, so each replica is added to
\* what the output instance holds.
IsReduction(o) == o \in PassOps /\ IsReplicate(Program[o[3]], "BWD")

\* Everything but copies and collectives runs as a task on a processor.
IsTask(o) ==
  \/ o \in InitOps
  \/ o \in PassOps /\ Program[o[3]].op \notin {"copy", "replicate"}

\* The instances an operation is handed.
Uses(o) ==
  CASE o \in PassOps -> Touched(o)
    [] o \in InitOps -> Program[o[3]].ins \cup Program[o[3]].outs
    [] OTHER         -> {}

-----------------------------------------------------------------------------
VARIABLES
  ctl,          \* where the controller is
  kind,         \* the pass it dispatches, or dispatched last
  pass,         \* how many passes it has begun
  todo,         \* the positions this pass still has to issue
  deps,         \* the DependencySet of the pass
  outstanding,  \* RealmContext::outstanding_events, merged
  optStep,      \* how often the optimizer attrs have been advanced
  status,       \* each issued operation: "issued", "running" or "done"
  pre,          \* what each issued operation waits for
  mem           \* each instance: the operations whose results it holds

controllerVars == <<ctl, kind, pass, todo, deps, outstanding, optStep>>
vars == <<controllerVars, status, pre, mem>>

Issued  == DOMAIN status
Running == {o \in Issued : status[o] = "running"}
Done    == {o \in Issued : status[o] = "done"}

AllOps == CreateOps \cup InitOps \cup PassOps \cup DestroyOps
Event  == SUBSET AllOps

TypeOK ==
  /\ ctl \in {"allocating", "initializing", "waiting", "idle", "dispatching",
              "closing", "exited", "aborted"}
  /\ kind \in {"all", "forward", "backward", "update"}
  /\ pass \in 0..MaxPasses
  /\ todo \subseteq Position
  /\ deps.precondition \in Event
  /\ \A v \in DOMAIN deps.atomic :
       /\ v \in Value
       /\ deps.atomic[v] \in [writer : Event, readers : Event]
  /\ outstanding \in Event
  /\ optStep \in 0..MaxPasses
  /\ Issued \subseteq AllOps
  /\ \A o \in Issued : status[o] \in {"issued", "running", "done"}
  /\ DOMAIN pre = Issued /\ \A o \in Issued : pre[o] \in Event
  /\ mem \in [Value -> SUBSET (CreateOps \cup PassOps)]

Init ==
  /\ ctl = "allocating"
  /\ kind = "all"
  /\ pass = 0
  /\ todo = {}
  /\ deps = NewDependencySet(NoEvent)
  /\ outstanding = NoEvent
  /\ optStep = 0
  /\ status = [o \in {} |-> "issued"]
  /\ pre = [o \in {} |-> NoEvent]
  /\ mem = [v \in Value |-> {CreateOp(v)}]

-----------------------------------------------------------------------------
(* The RealmContext *)

\* Hand the operations `ops` to the runtime; `wait` gives their preconditions.
Spawn(ops, wait) ==
  /\ status' = [o \in Issued \cup ops |-> IF o \in ops THEN "issued" ELSE status[o]]
  /\ pre' = [o \in Issued \cup ops |-> IF o \in ops THEN wait[o] ELSE pre[o]]

\* merge_outstanding_events alone: the queue is left empty.
QueueWithoutPutBack(queue) == NoEvent

\* What get_outstanding_events leaves in the queue: the merged event.
QueueAfterGet(queue) == MergeEvents({queue})

(* The controller: create_pcg_instance *)

\* perform_instance_allocation: every instance is requested, none awaited.
AllocateInstances ==
  /\ ctl = "allocating"
  /\ Spawn(CreateOps, [o \in CreateOps |-> NoEvent])
  /\ outstanding' = MergeEvents({outstanding, CreateOps})
  /\ ctl' = "initializing"
  /\ UNCHANGED <<kind, pass, todo, deps, optStep, mem>>

\* The init tasks of all invocations that keep per-device state; they wait for
\* everything outstanding when they are spawned.
SpawnInitTasks ==
  /\ ctl = "initializing"
  /\ Spawn(InitOps, [o \in InitOps |-> outstanding])
  /\ outstanding' = MergeEvents({QueueAfterGet(outstanding), InitOps})
  /\ ctl' = "waiting"
  /\ UNCHANGED <<kind, pass, todo, deps, optStep, mem>>

\* get_outstanding_events().wait()
InitTasksDone ==
  /\ ctl = "waiting"
  /\ outstanding \subseteq Done
  /\ outstanding' = QueueAfterGet(outstanding)
  /\ ctl' = "idle"
  /\ UNCHANGED <<kind, pass, todo, deps, optStep, status, pre, mem>>

(* The controller: perform_*_for_pcg_instance *)

TaskType == [forward |-> "FWD", backward |-> "BWD", update |-> "UPD"]

\* The positions counted from zero.
PositionsFromZero(k) == {i - 1 : i \in Position}

Positions(k) == {i \in Position : k = "all" \/ Program[i].task = TaskType[k]}

\* The filters unwrap the task type, which a copy does not have.
FilterAborts(k) == k # "all" /\ \E i \in Position : Program[i].task = "none"

\* A pass that may overtake the passes before it.
BeginPassWithoutBarrier(k) ==
  /\ ctl = "idle" /\ pass < MaxPasses
  /\ ~FilterAborts(k)
  /\ kind' = k
  /\ pass' = pass + 1
  /\ todo' = Positions(k)
  /\ deps' = NewDependencySet(NoEvent)
  /\ ctl' = "dispatching"
  /\ UNCHANGED <<outstanding, optStep, status, pre, mem>>

BeginPass(k) ==
  /\ ctl = "idle" /\ pass < MaxPasses
  /\ ~FilterAborts(k)
  /\ kind' = k
  /\ pass' = pass + 1
  /\ todo' = Positions(k)
  /\ deps' = NewDependencySet(outstanding)
  /\ outstanding' = QueueAfterGet(outstanding)
  /\ ctl' = "dispatching"
  /\ UNCHANGED <<optStep, status, pre, mem>>

AbortPass(k) ==
  /\ ctl = "idle" /\ pass < MaxPasses
  /\ FilterAborts(k)
  /\ ctl' = "aborted"
  /\ UNCHANGED <<kind, pass, todo, deps, outstanding, optStep, status, pre, mem>>

\* The operations wait for themselves, too.
IssueInvocationRecordedFirst ==
  /\ ctl = "dispatching"
  /\ \E i \in todo :
       /\ \A j \in todo : i <= j
       /\ todo' = todo \ {i}
       /\ LET inv == Program[i]
              ops == SpawnedOps(pass, i)
              recorded == RecordInvocation(deps, inv.ins, inv.outs, ops)
              precondition == InvocationPrecondition(recorded, inv.ins, inv.outs)
          IN  /\ Spawn(ops, [o \in ops |-> precondition])
              /\ deps' = recorded
              /\ outstanding' = MergeEvents({outstanding, ops})
  /\ UNCHANGED <<ctl, kind, pass, optStep, mem>>

\* One turn of the loop over the invocations.  Inputs and weights spawn nothing
\* whatever their task type, and register NO_EVENT.
Issue(i) ==
  LET inv == Program[i]
      ops == SpawnedOps(pass, i)
      precondition == InvocationPrecondition(deps, inv.ins, inv.outs)
  IN  /\ Spawn(ops, [o \in ops |-> precondition])
      /\ deps' = RecordInvocation(deps, inv.ins, inv.outs, ops)
      /\ outstanding' = MergeEvents({outstanding, ops})

IssueInvocation ==
  /\ ctl = "dispatching"
  /\ \E i \in todo :
       /\ \A j \in todo : i <= j
       /\ todo' = todo \ {i}
       /\ Issue(i)
  /\ UNCHANGED <<ctl, kind, pass, optStep, mem>>

EndPass ==
  /\ ctl = "dispatching" /\ todo = {}
  /\ optStep' = IF kind \in {"all", "update"} THEN optStep + 1 ELSE optStep
  /\ ctl' = "idle"
  /\ UNCHANGED <<kind, pass, todo, deps, outstanding, status, pre, mem>>

(* The controller: the end of the thunk *)

\* An instance goes as soon as it is there.
DestroyInstancesWhenReady ==
  /\ ctl = "idle"
  /\ Spawn(DestroyOps, [o \in DestroyOps |-> {CreateOp(o[4])}])
  /\ outstanding' = QueueAfterGet(outstanding)
  /\ ctl' = "closing"
  /\ UNCHANGED <<kind, pass, todo, deps, optStep, mem>>

\* ~PCGInstance: nobody keeps the events of the destructions.
DestroyInstances ==
  /\ ctl = "idle"
  /\ Spawn(DestroyOps,
           [o \in DestroyOps |-> MergeEvents({outstanding, {CreateOp(o[4])}})])
  /\ outstanding' = QueueAfterGet(outstanding)
  /\ ctl' = "closing"
  /\ UNCHANGED <<kind, pass, todo, deps, optStep, mem>>

\* ~RealmContext waits for everything outstanding; the controller task ends.
CloseContext ==
  /\ ctl = "closing"
  /\ outstanding \subseteq Done
  /\ outstanding' = NoEvent
  /\ ctl' = "exited"
  /\ UNCHANGED <<kind, pass, todo, deps, optStep, status, pre, mem>>

Controller ==
  \/ AllocateInstances \/ SpawnInitTasks \/ InitTasksDone
  \/ \E k \in PassKind : BeginPass(k) \/ AbortPass(k)
  \/ IssueInvocation \/ EndPass
  \/ DestroyInstances \/ CloseContext

-----------------------------------------------------------------------------
(* The runtime *)

Triggered(o) == status[o] = "issued" /\ pre[o] \subseteq Done

\* An instance is created or destroyed once its precondition has triggered.
InstanceOperation(o) ==
  /\ ctl # "aborted"
  /\ o \in CreateOps \cup DestroyOps
  /\ Triggered(o)
  /\ status' = [status EXCEPT ![o] = "done"]
  /\ UNCHANGED <<controllerVars, pre, mem>>

\* A task waits until the instances it was handed are ready before it uses them.
Start(o) ==
  /\ ctl # "aborted"
  /\ o \in InitOps \cup PassOps
  /\ Triggered(o)
  /\ IsTask(o) => \A v \in Uses(o) : CreateOp(v) \in Done
  /\ status' = [status EXCEPT ![o] = "running"]
  /\ UNCHANGED <<controllerVars, pre, mem>>

Result(o, v) == IF IsReduction(o) THEN mem[v] \cup {o} ELSE {o}

Finish(o) ==
  /\ ctl # "aborted"
  /\ status[o] = "running"
  /\ status' = [status EXCEPT ![o] = "done"]
  /\ mem' = [v \in Value |->
               IF o \in PassOps /\ v \in AccessOf(o).writes THEN Result(o, v) ELSE mem[v]]
  /\ UNCHANGED <<controllerVars, pre>>

Runtime == \E o \in Issued : InstanceOperation(o) \/ Start(o) \/ Finish(o)

\* The program is over and everything it left behind has come to an end.
Terminated ==
  /\ \/ ctl = "aborted"
     \/ ctl = "exited" /\ Done = Issued
  /\ UNCHANGED vars

Next == Controller \/ Runtime \/ Terminated

\* The controller thread is scheduled, and Realm keeps running what can run.
Fairness == WF_vars(Controller) /\ WF_vars(Runtime)

Spec == Init /\ [][Next]_vars /\ Fairness

-----------------------------------------------------------------------------
(* Correctness *)

\* Execution order: by pass, then by position.
Before(o, q) == o[2] < q[2] \/ (o[2] = q[2] /\ o[3] < q[3])

\* What is left when the writers of an instance have run one after the other in
\* execution order: every result that nothing overwrites later.
Surviving(writers) ==
  {q \in writers : \A r \in writers : Before(q, r) => IsReduction(r)}

\* What the instance of v holds when the operations issued before o have run in
\* that order.
SequentialContents(o, v) ==
  Surviving({CreateOp(v)} \cup
            {q \in Issued \cap PassOps : v \in AccessOf(q).writes /\ Before(q, o)})

TheEnd == <<"end", MaxPasses + 1, 0, "whole">>

\* Although passes are dispatched without waiting and operations run when they
\* can, every operation finds in its input instances, for as long as it runs,
\* exactly what a sequential execution of the issued invocations leaves there;
\* and so does whoever looks at the instances once the controller has exited.
SequentialSemantics ==
  /\ \A o \in Running \cap PassOps : \A v \in AccessOf(o).reads :
       mem[v] = SequentialContents(o, v)
  /\ ctl = "exited" => \A v \in Value : mem[v] = SequentialContents(TheEnd, v)

\* No operation runs on an instance that has not been created yet or has been
\* destroyed already, although neither is ever awaited by the controller.
InstanceLifetime ==
  \A o \in Running : \A v \in Uses(o) :
    /\ CreateOp(v) \in Done
    /\ DestroyOp(v) \notin Done

\* When the controller task is over, so is everything it issued: no operation
\* was dropped from the outstanding events by one of the merges on the way.
\* (RealmContext "protects against ... shutdown bugs".)
NothingPendingAtExit ==
  ctl = "exited" => Issued \ DestroyOps \subseteq Done

\* An operation of a pass starts only when the passes before it and the
\* initialisation are over ("an effective barrier between phases").
PhaseBarrier ==
  [][\A o \in PassOps :
       o \in Running' \ Running =>
         \A q \in Issued : q[1] # "destroy" /\ q[2] < o[2] => q \in Done]_vars

\* The training loop comes to its end: the controller's waits are all answered,
\* and every operation it issued, the destructions included, takes place.
EverythingCompletes ==
  <>(ctl = "aborted" \/ (ctl = "exited" /\ Done = Issued))

(***************************************************************************)
(* The controller is a client of dependency tracking: seen through the     *)
(* operations that access tensors, it does only what DependencyTracking    *)
(* allows, so what is proved there holds here.  Once the context is gone,  *)
(* its queue stands for all the operations that went through it.           *)
(***************************************************************************)
Accessing(event) == event \cap PassOps

AccessingDeps(d) ==
  [precondition |-> Accessing(d.precondition),
   atomic |-> [v \in DOMAIN d.atomic |->
                 [writer  |-> Accessing(d.atomic[v].writer),
                  readers |-> Accessing(d.atomic[v].readers)]]]

\* An invocation that becomes operations, and one that becomes none.
Becomes(p, i) == [o \in SpawnedOps(p, i) |-> AccessOf(o)]
Registers(i)  == [reads |-> Program[i].ins, writes |-> Program[i].outs]
Spawns        == {i \in Position : Lanes(Program[i]) # {}}

trackedStatus == [o \in PassOps |-> IF o \in Issued THEN status[o] ELSE "fresh"]

trackedAccess ==
  [o \in PassOps |-> IF o \in Issued THEN AccessOf(o) ELSE [reads |-> {}, writes |-> {}]]

trackedPeers == [o \in PassOps |-> IF o \in Issued THEN SpawnedOps(o[2], o[3]) ELSE {}]

trackedPre == [o \in PassOps |-> IF o \in Issued THEN Accessing(pre[o]) ELSE NoEvent]

trackedOutstanding == Accessing(IF ctl = "exited" THEN Issued ELSE outstanding)

Tracking == INSTANCE DependencyTracking WITH
  Op <- PassOps,
  Invocation <- {Becomes(p, i) : p \in 1..MaxPasses, i \in Spawns},
  Registered <- {Registers(i) : i \in Position \ Spawns},
  status <- trackedStatus,
  access <- trackedAccess,
  peers <- trackedPeers,
  pre <- trackedPre,
  deps <- AccessingDeps(deps),
  outstanding <- trackedOutstanding

ImplementsDependencyTracking ==
  Tracking!Init /\ [][Tracking!Next]_(Tracking!vars)

-----------------------------------------------------------------------------
(* What the documentation promises and the code does not do *)

\* tasks/impl/index.dox counts the update/optimizer tasks among the operator
\* tasks that are executed during training: every time the optimizer has been
\* advanced, each weight has been updated once.
OptimizerStepsUpdateWeights ==
  ctl = "exited" =>
    \A i \in Position : Program[i].task = "UPD" =>
      Cardinality({o \in Done : o[1] = "pass" /\ o[3] = i}) >= optStep
=============================================================================
