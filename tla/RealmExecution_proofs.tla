------------------------- MODULE RealmExecution_proofs -------------------------
(***************************************************************************)
(* What the controller guarantees although it awaits nothing while it      *)
(* trains: for any program the lowering may compute, any passes and any    *)
(* number of them.                                                         *)
(***************************************************************************)
EXTENDS RealmExecution, DependencySet_proofs

(***************************************************************************)
(* The inductive invariant.                                                *)
(***************************************************************************)
Kept == Issued \ DestroyOps

\* The queue holds the event of everything issued until it has been awaited; so
\* merging it and putting it back loses nothing.
QueueIsComplete ==
  IF ctl = "exited" THEN Kept \subseteq Done ELSE outstanding = Kept

\* What has been issued when the controller has come to a point, and that it
\* issues nothing twice.
IssuedInOrder ==
  /\ ctl = "allocating" => Issued = {}
  /\ ctl = "initializing" => Issued = CreateOps
  /\ ctl = "waiting" => Issued = CreateOps \cup InitOps
  /\ ctl # "allocating" => CreateOps \subseteq Issued
  /\ ctl \notin {"closing", "exited"} => Kept = Issued
  /\ \A o \in Issued : o[2] <= pass
  /\ ctl = "dispatching" =>
       /\ pass > 0
       /\ \A o \in Issued : o[2] = pass => \A j \in todo : o[3] < j

\* A pass starts from everything issued before it, and keeps it whatever it
\* records.
PhaseStartsFromQueue ==
  ctl = "dispatching" =>
    /\ \A o \in Issued : o[2] < pass => o \in deps.precondition
    /\ KeepsPrecondition(deps)

\* What an issued operation waits for at least.
WaitsFor(o) ==
  /\ o \in PassOps => \A q \in Kept : q[2] < o[2] => q \in pre[o]
  /\ o \in InitOps => CreateOps \subseteq pre[o]
  /\ o \in DestroyOps => Kept \subseteq pre[o]

PreconditionsReach == \A o \in Issued : WaitsFor(o)

\* The runtime starts an operation only when what it waits for is done.
StartedWhenTriggered ==
  \A o \in Issued : status[o] # "issued" => pre[o] \subseteq Done

\* The optimizer is advanced at most once per pass, at its end.
OptimizerFollowsPasses ==
  optStep <= IF ctl = "dispatching" THEN pass - 1 ELSE pass

IInv ==
  /\ TypeOK
  /\ QueueIsComplete
  /\ IssuedInOrder
  /\ PhaseStartsFromQueue
  /\ PreconditionsReach
  /\ StartedWhenTriggered
  /\ OptimizerFollowsPasses

-----------------------------------------------------------------------------
(* The operations *)

\* The kinds of operations are told apart by what an operation carries.
LEMMA Kinds ==
  /\ \A o \in CreateOps : o[1] = "create" /\ o[2] = 0 /\ o[4] \in Value
  /\ \A o \in InitOps : o[1] = "init" /\ o[2] = 0 /\ o[3] \in Position
  /\ \A o \in DestroyOps : o[1] = "destroy" /\ o[2] = 0 /\ o[4] \in Value
  /\ \A o \in PassOps : /\ o[1] = "pass" /\ o[2] \in 1..MaxPasses /\ o[2] > 0
                        /\ o[3] \in Position
<1>1. \A o \in CreateOps : o[1] = "create" /\ o[2] = 0 /\ o[4] \in Value
  BY DEF CreateOps, CreateOp
<1>2. \A o \in InitOps : o[1] = "init" /\ o[2] = 0 /\ o[3] \in Position
  BY DEF InitOps, InitOp
<1>3. \A o \in DestroyOps : o[1] = "destroy" /\ o[2] = 0 /\ o[4] \in Value
  BY DEF DestroyOps, DestroyOp
<1>4. ASSUME NEW o \in PassOps
      PROVE  o[1] = "pass" /\ o[2] \in 1..MaxPasses /\ o[2] > 0 /\ o[3] \in Position
  <2>1. PICK p \in 1..MaxPasses, i \in Position : o \in SpawnedOps(p, i)
    BY DEF PassOps
  <2>2. PICK lane \in Lanes(Program[i]) : o = <<"pass", p, i, lane>>
    BY <2>1 DEF SpawnedOps, PassOp
  <2> QED BY <2>2
<1> QED BY <1>1, <1>2, <1>3, <1>4

\* The operations of an invocation carry its pass and its position.
LEMMA Spawned ==
  ASSUME NEW p \in 1..MaxPasses, NEW i \in Position
  PROVE  /\ SpawnedOps(p, i) \subseteq PassOps
         /\ \A o \in SpawnedOps(p, i) : o[2] = p /\ o[3] = i
<1>1. ASSUME NEW o \in SpawnedOps(p, i)
      PROVE  o \in PassOps
  <2>1. \E q \in 1..MaxPasses, j \in Position : o \in SpawnedOps(q, j)
    OBVIOUS
  <2> QED BY <2>1 DEF PassOps
<1>2. \A o \in SpawnedOps(p, i) : o[2] = p /\ o[3] = i
  BY DEF SpawnedOps, PassOp
<1> QED BY <1>1, <1>2

\* Positions can be compared.
LEMMA PositionsAreNaturals == Position \subseteq Nat
BY DEF Position

\* What the program consists of.
LEMMA Invocations ==
  ASSUME NEW i \in Position
  PROVE  /\ Program[i].ins \subseteq Value
         /\ Program[i].outs \subseteq Value
         /\ \A p : SpawnedOps(p, i) # {} => Program[i].ins \cup Program[i].outs # {}
<1>1. Program[i] \in InvocationSet
  BY ProgramAssumption DEF Position
<1>2. Program[i].ins \subseteq Value /\ Program[i].outs \subseteq Value
  BY <1>1 DEF InvocationSet
<1>3. ASSUME NEW p, SpawnedOps(p, i) # {}
      PROVE  Program[i].ins \cup Program[i].outs # {}
  <2>1. Lanes(Program[i]) # {}
    BY <1>3 DEF SpawnedOps
  <2>2. Program[i].op \notin {"input", "weight"}
    BY <2>1 DEF Lanes, IsReplicate
  <2> QED BY <2>2, ProgramAssumption
<1> QED BY <1>2, <1>3

\* What an operation is handed are instances of tensor shards.
LEMMA UsesValues ==
  ASSUME NEW o \in InitOps \cup PassOps
  PROVE  Uses(o) \subseteq Value
<1>1. CASE o \in PassOps
  <2>1. PICK p \in 1..MaxPasses, i \in Position : o \in SpawnedOps(p, i)
    BY <1>1 DEF PassOps
  <2>2. PICK lane \in Lanes(Program[i]) : o = <<"pass", p, i, lane>>
    BY <2>1 DEF SpawnedOps, PassOp
  <2>3. IsReplicate(Program[i], "FWD") => lane \in Program[i].outs
    BY <2>2, ProgramAssumption DEF Lanes, IsReplicate
  <2>4. IsReplicate(Program[i], "BWD") => lane \in Program[i].ins
    BY <2>2, ProgramAssumption DEF Lanes, IsReplicate
  <2>5. o \notin InitOps
    BY <1>1, Kinds
  <2>6. Uses(o) = Touched(o)
    BY <1>1, <2>5 DEF Uses
  <2> QED BY <2>2, <2>3, <2>4, <2>6, Invocations DEF Touched, AccessOf, LaneAccess
<1>2. CASE o \in InitOps
  <2>1. o \notin PassOps
    BY <1>2, Kinds
  <2>2. Uses(o) = Program[o[3]].ins \cup Program[o[3]].outs
    BY <1>2, <2>1 DEF Uses
  <2> QED BY <1>2, <2>2, Kinds, Invocations
<1> QED BY <1>1, <1>2

-----------------------------------------------------------------------------
(* The steps *)

\* Handing operations to the runtime: none of them has been issued before.
LEMMA SpawnFacts ==
  ASSUME NEW ops, NEW wait, Spawn(ops, wait), ops \cap Issued = {}
  PROVE  /\ Issued' = Issued \cup ops
         /\ Done' = Done
         /\ Running' = Running
         /\ DOMAIN pre' = Issued'
         /\ \A o \in Issued : status'[o] = status[o] /\ pre'[o] = pre[o]
         /\ \A o \in ops : status'[o] = "issued" /\ pre'[o] = wait[o]
<1>1. Issued' = Issued \cup ops /\ DOMAIN pre' = Issued'
  BY DEF Spawn, Issued
<1>2. /\ \A o \in Issued : status'[o] = status[o] /\ pre'[o] = pre[o]
      /\ \A o \in ops : status'[o] = "issued" /\ pre'[o] = wait[o]
  BY DEF Spawn, Issued
<1>3. Done' = Done /\ Running' = Running
  BY <1>1, <1>2 DEF Done, Running
<1> QED BY <1>1, <1>2, <1>3

\* The operations of an invocation are new, and wait for the whole phase before.
LEMMA IssueFacts ==
  ASSUME IInv, ctl = "dispatching", NEW i \in todo
  PROVE  /\ pass \in 1..MaxPasses /\ i \in Position
         /\ SpawnedOps(pass, i) \subseteq PassOps
         /\ \A o \in SpawnedOps(pass, i) : o[2] = pass /\ o[3] = i
         /\ SpawnedOps(pass, i) \cap Issued = {}
         /\ SpawnedOps(pass, i) # {} =>
              deps.precondition \subseteq
                InvocationPrecondition(deps, Program[i].ins, Program[i].outs)
<1>1. pass \in 1..MaxPasses /\ i \in Position
  BY PassAssumption DEF IInv, TypeOK, IssuedInOrder
<1>2. /\ SpawnedOps(pass, i) \subseteq PassOps
      /\ \A o \in SpawnedOps(pass, i) : o[2] = pass /\ o[3] = i
  BY <1>1, Spawned
<1>3. SpawnedOps(pass, i) \cap Issued = {}
  BY <1>1, <1>2, PositionsAreNaturals DEF IInv, IssuedInOrder
<1>4. SpawnedOps(pass, i) # {} => Program[i].ins \cup Program[i].outs # {}
  BY <1>1, Invocations
<1>5. KeepsPrecondition(deps)
  BY DEF IInv, PhaseStartsFromQueue
<1> QED BY <1>1, <1>2, <1>3, <1>4, <1>5, InvocationKeepsPrecondition

\* Every spawn of the controller, as the runtime sees it.
Spawning(ops, wait) ==
  /\ Spawn(ops, wait)
  /\ ops \subseteq AllOps
  /\ ops \cap Issued = {}
  /\ mem' = mem

\* The controller's four ways to do so.
LEMMA AllocateSpawns ==
  ASSUME IInv, AllocateInstances
  PROVE  Spawning(CreateOps, [o \in CreateOps |-> NoEvent])
BY DEF IInv, IssuedInOrder, AllocateInstances, Spawning, AllOps

LEMMA InitSpawns ==
  ASSUME IInv, SpawnInitTasks
  PROVE  Spawning(InitOps, [o \in InitOps |-> outstanding])
<1>1. CreateOps \cap InitOps = {}
  BY Kinds
<1> QED BY <1>1 DEF IInv, IssuedInOrder, SpawnInitTasks, Spawning, AllOps

LEMMA IssueSpawns ==
  ASSUME IInv, IssueInvocation
  PROVE  \E i \in todo :
           /\ \A j \in todo : i <= j
           /\ Issue(i)
           /\ todo' = todo \ {i}
           /\ Spawning(SpawnedOps(pass, i),
                       [o \in SpawnedOps(pass, i) |->
                          InvocationPrecondition(deps, Program[i].ins, Program[i].outs)])
<1>1. PICK i \in todo : (\A j \in todo : i <= j) /\ Issue(i) /\ todo' = todo \ {i}
  BY DEF IssueInvocation
<1>2. SpawnedOps(pass, i) \subseteq AllOps /\ SpawnedOps(pass, i) \cap Issued = {}
  BY IssueFacts DEF IssueInvocation, AllOps
<1> QED BY <1>1, <1>2 DEF IssueInvocation, Issue, Spawning

LEMMA DestroySpawns ==
  ASSUME IInv, DestroyInstances
  PROVE  Spawning(DestroyOps,
                  [o \in DestroyOps |-> MergeEvents({outstanding, {CreateOp(o[4])}})])
BY DEF IInv, IssuedInOrder, DestroyInstances, Spawning, AllOps, Kept

\* A step of the runtime: one operation gets further, and none starts before
\* what it waits for is done.
LEMMA RuntimeFacts ==
  ASSUME IInv, Runtime
  PROVE  /\ Issued' = Issued
         /\ UNCHANGED <<controllerVars, pre>>
         /\ Done \subseteq Done'
         /\ \A o \in Issued : /\ status'[o] \in {"issued", "running", "done"}
                              /\ status[o] = "issued" /\ status'[o] # "issued"
                                   => pre[o] \subseteq Done
                              /\ status'[o] = "issued" => status[o] = "issued"
<1>1. PICK o \in Issued : InstanceOperation(o) \/ Start(o) \/ Finish(o)
  BY DEF Runtime
<1>2. \A q \in Issued : status[q] \in {"issued", "running", "done"}
  BY DEF IInv, TypeOK
<1>3. CASE InstanceOperation(o)
  BY <1>1, <1>2, <1>3 DEF InstanceOperation, Triggered, Issued, Done
<1>4. CASE Start(o)
  BY <1>1, <1>2, <1>4 DEF Start, Triggered, Issued, Done
<1>5. CASE Finish(o)
  BY <1>1, <1>2, <1>5 DEF Finish, Issued, Done
<1> QED BY <1>1, <1>3, <1>4, <1>5

\* The steps in which nothing is handed to the runtime and nothing happens there.
LEMMA QuietFacts ==
  ASSUME UNCHANGED <<status, pre>>
  PROVE  Issued' = Issued /\ Done' = Done /\ Running' = Running /\ Kept' = Kept
BY DEF Issued, Done, Running, Kept

\* Only the runtime makes an operation run.
LEMMA RunningIsTheRuntimes ==
  ASSUME IInv, [Next]_vars
  PROVE  Running' = Running \/ Runtime
<1>1. CASE AllocateInstances
  BY <1>1, AllocateSpawns, SpawnFacts DEF Spawning
<1>2. CASE SpawnInitTasks
  BY <1>2, InitSpawns, SpawnFacts DEF Spawning
<1>3. CASE IssueInvocation
  BY <1>3, IssueSpawns, SpawnFacts DEF Spawning
<1>4. CASE DestroyInstances
  BY <1>4, DestroySpawns, SpawnFacts DEF Spawning
<1>5. CASE UNCHANGED <<status, pre>>
  BY <1>5, QuietFacts
<1>6. InitTasksDone \/ EndPass \/ CloseContext \/ UNCHANGED vars
        \/ (\E k \in PassKind : BeginPass(k) \/ AbortPass(k))
      => UNCHANGED <<status, pre>>
  BY DEF InitTasksDone, EndPass, CloseContext, BeginPass, AbortPass, vars
<1> QED BY <1>1, <1>2, <1>3, <1>4, <1>5, <1>6 DEF Next, Controller, Terminated

\* The queue grows with what is issued, and is emptied only when all is done.
LEMMA QueueStep == IInv /\ [Next]_vars => QueueIsComplete'
<1> SUFFICES ASSUME IInv, [Next]_vars PROVE QueueIsComplete'
  OBVIOUS
<1> USE DEF QueueIsComplete
<1>1. CASE AllocateInstances
  <2>1. Issued' = Issued \cup CreateOps
    BY <1>1, AllocateSpawns, SpawnFacts DEF Spawning
  <2>2. Kept' = Kept \cup CreateOps
    BY <2>1, Kinds DEF Kept
  <2> QED BY <1>1, <2>2 DEF IInv, AllocateInstances, MergeEvents
<1>2. CASE SpawnInitTasks
  <2>1. Issued' = Issued \cup InitOps
    BY <1>2, InitSpawns, SpawnFacts DEF Spawning
  <2>2. Kept' = Kept \cup InitOps
    BY <2>1, Kinds DEF Kept
  <2> QED BY <1>2, <2>2 DEF IInv, SpawnInitTasks, QueueAfterGet, MergeEvents
<1>3. CASE IssueInvocation
  <2>1. PICK i \in todo :
          /\ Issue(i)
          /\ Spawning(SpawnedOps(pass, i),
                      [o \in SpawnedOps(pass, i) |->
                         InvocationPrecondition(deps, Program[i].ins, Program[i].outs)])
    BY <1>3, IssueSpawns
  <2>2. Issued' = Issued \cup SpawnedOps(pass, i)
    BY <2>1, SpawnFacts DEF Spawning
  <2>3. SpawnedOps(pass, i) \subseteq PassOps
    BY <1>3, IssueFacts DEF IssueInvocation
  <2>4. Kept' = Kept \cup SpawnedOps(pass, i)
    BY <2>2, <2>3, Kinds DEF Kept
  <2>5. outstanding' = outstanding \cup SpawnedOps(pass, i)
    BY <2>1 DEF Issue, MergeEvents
  <2> QED BY <1>3, <2>4, <2>5 DEF IInv, IssueInvocation
<1>4. CASE DestroyInstances
  <2>1. Issued' = Issued \cup DestroyOps
    BY <1>4, DestroySpawns, SpawnFacts DEF Spawning
  <2>2. Kept' = Kept
    BY <2>1 DEF Kept
  <2> QED BY <1>4, <2>2 DEF IInv, DestroyInstances, QueueAfterGet, MergeEvents
<1>5. CASE Runtime
  <2>1. Kept' = Kept /\ Done \subseteq Done' /\ ctl' = ctl /\ outstanding' = outstanding
    BY <1>5, RuntimeFacts DEF Kept, controllerVars
  <2> QED BY <2>1 DEF IInv
<1>6. CASE CloseContext
  BY <1>6, QuietFacts DEF IInv, CloseContext
<1>7. CASE InitTasksDone \/ EndPass \/ \E k \in PassKind : BeginPass(k) \/ AbortPass(k)
  BY <1>7, QuietFacts
  DEF IInv, InitTasksDone, EndPass, BeginPass, AbortPass, QueueAfterGet, MergeEvents
<1>8. CASE UNCHANGED vars
  BY <1>8, QuietFacts DEF IInv, vars, controllerVars
<1> QED BY <1>1, <1>2, <1>3, <1>4, <1>5, <1>6, <1>7, <1>8 DEF Next, Controller, Terminated

\* Every stage issues operations that have not been issued before.
LEMMA OrderStep == IInv /\ [Next]_vars => IssuedInOrder'
<1> SUFFICES ASSUME IInv, [Next]_vars PROVE IssuedInOrder'
  OBVIOUS
<1>0. pass \in 0..MaxPasses /\ MaxPasses \in Nat
  BY PassAssumption DEF IInv, TypeOK
<1>1. CASE AllocateInstances
  <2>1. Issued' = CreateOps
    BY <1>1, AllocateSpawns, SpawnFacts DEF Spawning, IInv, IssuedInOrder, AllocateInstances
  <2>2. Kept' = Issued'
    BY <2>1, Kinds DEF Kept
  <2> QED BY <1>0, <1>1, <2>1, <2>2, Kinds DEF IssuedInOrder, AllocateInstances
<1>2. CASE SpawnInitTasks
  <2>1. Issued' = CreateOps \cup InitOps
    BY <1>2, InitSpawns, SpawnFacts DEF Spawning, IInv, IssuedInOrder, SpawnInitTasks
  <2>2. Kept' = Issued'
    BY <2>1, Kinds DEF Kept
  <2> QED BY <1>0, <1>2, <2>1, <2>2, Kinds DEF IssuedInOrder, SpawnInitTasks
<1>3. CASE IssueInvocation
  <2>1. PICK i \in todo :
          /\ \A j \in todo : i <= j
          /\ todo' = todo \ {i}
          /\ Spawning(SpawnedOps(pass, i),
                      [o \in SpawnedOps(pass, i) |->
                         InvocationPrecondition(deps, Program[i].ins, Program[i].outs)])
    BY <1>3, IssueSpawns
  <2>2. Issued' = Issued \cup SpawnedOps(pass, i)
    BY <2>1, SpawnFacts DEF Spawning
  <2>3. /\ SpawnedOps(pass, i) \subseteq PassOps
        /\ \A o \in SpawnedOps(pass, i) : o[2] = pass /\ o[3] = i
    BY <1>3, IssueFacts DEF IssueInvocation
  <2>4. Kept' = Kept \cup SpawnedOps(pass, i)
    BY <2>2, <2>3, Kinds DEF Kept
  <2>5. i \in Nat /\ todo \subseteq Nat
    BY PositionsAreNaturals DEF IInv, TypeOK
  <2>6. \A o \in Issued' : o[2] = pass => \A j \in todo' : o[3] < j
    BY <1>3, <2>1, <2>2, <2>3, <2>5 DEF IInv, IssuedInOrder, IssueInvocation
  <2> QED BY <1>0, <1>3, <2>1, <2>2, <2>3, <2>4, <2>6 DEF IInv, IssuedInOrder, IssueInvocation
<1>4. CASE DestroyInstances
  <2>1. Issued' = Issued \cup DestroyOps
    BY <1>4, DestroySpawns, SpawnFacts DEF Spawning
  <2> QED BY <1>0, <1>4, <2>1, Kinds DEF IInv, IssuedInOrder, DestroyInstances
<1>5. CASE Runtime
  <2>1. Kept' = Kept /\ Issued' = Issued /\ UNCHANGED <<ctl, pass, todo>>
    BY <1>5, RuntimeFacts DEF Kept, controllerVars
  <2> QED BY <2>1 DEF IInv, IssuedInOrder
<1>6. CASE CloseContext \/ InitTasksDone \/ EndPass \/ \E k \in PassKind : AbortPass(k)
  <2>1. Kept' = Kept /\ Issued' = Issued /\ UNCHANGED <<pass, todo>>
    BY <1>6, QuietFacts DEF CloseContext, InitTasksDone, EndPass, AbortPass
  <2> QED BY <1>6, <2>1
          DEF IInv, IssuedInOrder, CloseContext, InitTasksDone, EndPass, AbortPass
<1>7. ASSUME NEW k \in PassKind, BeginPass(k) PROVE IssuedInOrder'
  <2>1. Kept' = Kept /\ Issued' = Issued /\ pass' = pass + 1
    BY <1>7, QuietFacts DEF BeginPass
  <2>2. \A o \in Issued : o[2] \in Nat
    BY Kinds, <1>0 DEF IInv, TypeOK, AllOps
  <2> QED BY <1>0, <1>7, <2>1, <2>2 DEF IInv, IssuedInOrder, BeginPass
<1>8. CASE UNCHANGED vars
  BY <1>8, QuietFacts DEF IInv, IssuedInOrder, vars, controllerVars
<1> QED BY <1>1, <1>2, <1>3, <1>4, <1>5, <1>6, <1>7, <1>8 DEF Next, Controller, Terminated

\* A pass takes over the whole queue when it begins, and records on top of it.
LEMMA PhaseStep == IInv /\ [Next]_vars => PhaseStartsFromQueue'
<1> SUFFICES ASSUME IInv, [Next]_vars, ctl' = "dispatching"
             PROVE  /\ \A o \in Issued' : o[2] < pass' => o \in deps'.precondition
                    /\ KeepsPrecondition(deps')
  BY DEF PhaseStartsFromQueue, KeepsPrecondition
<1>1. CASE IssueInvocation
  <2>1. PICK i \in todo :
          /\ Issue(i)
          /\ Spawning(SpawnedOps(pass, i),
                      [o \in SpawnedOps(pass, i) |->
                         InvocationPrecondition(deps, Program[i].ins, Program[i].outs)])
    BY <1>1, IssueSpawns
  <2>2. Issued' = Issued \cup SpawnedOps(pass, i)
    BY <2>1, SpawnFacts DEF Spawning
  <2>3. \A o \in SpawnedOps(pass, i) : o[2] = pass
    BY <1>1, IssueFacts DEF IssueInvocation
  <2>4. /\ \A o \in Issued : o[2] < pass => o \in deps.precondition
        /\ KeepsPrecondition(deps)
    BY <1>1 DEF IInv, PhaseStartsFromQueue, IssueInvocation
  <2>5. deps' = RecordInvocation(deps, Program[i].ins, Program[i].outs, SpawnedOps(pass, i))
    BY <2>1 DEF Issue
  <2>6. deps'.precondition = deps.precondition /\ KeepsPrecondition(deps')
    BY <2>4, <2>5, RecordKeepsPrecondition
  <2>7. pass' = pass /\ pass \in Nat
    BY <1>1, PassAssumption DEF IssueInvocation, IInv, TypeOK
  <2> QED BY <2>2, <2>3, <2>4, <2>6, <2>7
<1>2. ASSUME NEW k \in PassKind, BeginPass(k)
      PROVE  /\ \A o \in Issued' : o[2] < pass' => o \in deps'.precondition
             /\ KeepsPrecondition(deps')
  <2>1. Issued' = Issued
    BY <1>2, QuietFacts DEF BeginPass
  <2>2. deps'.precondition = outstanding /\ KeepsPrecondition(deps')
    BY <1>2, NewKeepsPrecondition DEF BeginPass
  <2>3. outstanding = Issued
    BY <1>2 DEF IInv, QueueIsComplete, IssuedInOrder, BeginPass
  <2> QED BY <2>1, <2>2, <2>3
<1>3. CASE Runtime
  <2>1. Issued' = Issued /\ UNCHANGED <<ctl, pass, deps>>
    BY <1>3, RuntimeFacts DEF controllerVars
  <2> QED BY <2>1 DEF IInv, PhaseStartsFromQueue
<1>4. CASE UNCHANGED vars
  <2>1. Issued' = Issued /\ UNCHANGED <<ctl, pass, deps>>
    BY <1>4, QuietFacts DEF vars, controllerVars
  <2> QED BY <2>1 DEF IInv, PhaseStartsFromQueue
<1>5. ASSUME NEW k \in PassKind PROVE ~AbortPass(k)
  BY DEF AbortPass
<1>6. ~(\/ AllocateInstances \/ SpawnInitTasks \/ InitTasksDone \/ EndPass
        \/ DestroyInstances \/ CloseContext)
  BY DEF AllocateInstances, SpawnInitTasks, InitTasksDone, EndPass, DestroyInstances,
         CloseContext
<1> QED BY <1>1, <1>2, <1>3, <1>4, <1>5, <1>6 DEF Next, Controller, Terminated

\* A step that hands operations to the runtime keeps what the others wait for, if
\* none of the new ones belongs before them, and starts nothing.
LEMMA SpawnWaits ==
  ASSUME IInv, NEW ops, NEW wait, Spawning(ops, wait),
         \A o \in Issued, q \in ops \ DestroyOps :
           /\ o \in PassOps => ~(q[2] < o[2])
           /\ o \notin DestroyOps,
         \A o \in ops :
           /\ o \in PassOps => \A q \in Kept' : q[2] < o[2] => q \in wait[o]
           /\ o \in InitOps => CreateOps \subseteq wait[o]
           /\ o \in DestroyOps => Kept' \subseteq wait[o]
  PROVE  PreconditionsReach' /\ StartedWhenTriggered'
<1>1. /\ Issued' = Issued \cup ops
      /\ Done' = Done
      /\ \A o \in Issued : status'[o] = status[o] /\ pre'[o] = pre[o]
      /\ \A o \in ops : status'[o] = "issued" /\ pre'[o] = wait[o]
  BY SpawnFacts DEF Spawning
<1>2. Kept' = Kept \cup (ops \ DestroyOps)
  BY <1>1 DEF Kept
<1>3. ASSUME NEW o \in Issued PROVE WaitsFor(o)'
  BY <1>1, <1>2 DEF IInv, PreconditionsReach, WaitsFor
<1>4. ASSUME NEW o \in ops PROVE WaitsFor(o)'
  BY <1>1 DEF WaitsFor
<1>5. PreconditionsReach'
  BY <1>1, <1>3, <1>4 DEF PreconditionsReach
<1>6. StartedWhenTriggered'
  BY <1>1 DEF IInv, StartedWhenTriggered
<1> QED BY <1>5, <1>6

\* What is issued waits for what it must, and nothing starts before.
LEMMA WaitStep == IInv /\ [Next]_vars => PreconditionsReach' /\ StartedWhenTriggered'
<1> SUFFICES ASSUME IInv, [Next]_vars
             PROVE  PreconditionsReach' /\ StartedWhenTriggered'
  OBVIOUS
<1>0. pass \in 0..MaxPasses /\ MaxPasses \in Nat
  BY PassAssumption DEF IInv, TypeOK
<1>1. CASE AllocateInstances
  <2> DEFINE wait == [o \in CreateOps |-> NoEvent]
  <2>1. Spawning(CreateOps, wait)
    BY <1>1, AllocateSpawns
  <2>2. Issued = {}
    BY <1>1 DEF IInv, IssuedInOrder, AllocateInstances
  <2>3. \A o \in CreateOps : o \notin PassOps \cup InitOps \cup DestroyOps
    BY Kinds
  <2> HIDE DEF wait
  <2> QED BY <2>1, <2>2, <2>3, SpawnWaits
<1>2. CASE SpawnInitTasks
  <2> DEFINE wait == [o \in InitOps |-> outstanding]
  <2>1. Spawning(InitOps, wait)
    BY <1>2, InitSpawns
  <2>2. Issued = CreateOps
    BY <1>2 DEF IInv, IssuedInOrder, SpawnInitTasks
  <2>3. \A o \in Issued : o \notin PassOps /\ o \notin DestroyOps
    BY <2>2, Kinds
  <2>4. outstanding = CreateOps
    BY <1>2, <2>2, <2>3 DEF IInv, QueueIsComplete, SpawnInitTasks, Kept
  <2>5. \A o \in InitOps : CreateOps \subseteq wait[o]
    BY <2>4
  <2>6. \A o \in InitOps : o \notin PassOps /\ o \notin DestroyOps
    BY Kinds
  <2> HIDE DEF wait
  <2> QED BY <2>1, <2>3, <2>5, <2>6, SpawnWaits
<1>3. CASE IssueInvocation
  <2>1. PICK i \in todo :
          Spawning(SpawnedOps(pass, i),
                   [o \in SpawnedOps(pass, i) |->
                      InvocationPrecondition(deps, Program[i].ins, Program[i].outs)])
    BY <1>3, IssueSpawns
  <2> DEFINE ops == SpawnedOps(pass, i)
             wait == [o \in ops |->
                        InvocationPrecondition(deps, Program[i].ins, Program[i].outs)]
  <2>2. /\ ops \subseteq PassOps
        /\ \A o \in ops : o[2] = pass
        /\ ops # {} => deps.precondition \subseteq
                         InvocationPrecondition(deps, Program[i].ins, Program[i].outs)
    BY <1>3, IssueFacts DEF IssueInvocation
  <2>3. Spawning(ops, wait)
    BY <2>1
  <2>4. \A o \in ops : deps.precondition \subseteq wait[o]
    BY <2>2
  <2> HIDE DEF wait, ops
  <2>5. Issued' = Issued \cup ops
    BY <2>3, SpawnFacts DEF Spawning
  <2>6. \A q \in Kept' : q[2] < pass => q \in deps.precondition
    BY <1>0, <1>3, <2>2, <2>5 DEF IInv, PhaseStartsFromQueue, IssueInvocation, Kept
  <2>7. \A o \in Issued : o \notin DestroyOps /\ o[2] <= pass /\ o[2] \in Nat
    BY <1>0, <1>3, Kinds DEF IInv, IssuedInOrder, IssueInvocation, Kept, TypeOK, AllOps
  <2>8. \A o \in ops : o \notin InitOps /\ o \notin DestroyOps
    BY <2>2, Kinds
  <2>9. \A o \in ops : \A q \in Kept' : q[2] < o[2] => q \in wait[o]
    BY <2>2, <2>4, <2>6
  <2>10. \A o \in Issued, q \in ops : ~(q[2] < o[2])
    BY <1>0, <2>2, <2>7
  <2> QED BY <2>3, <2>7, <2>8, <2>9, <2>10, SpawnWaits
<1>4. CASE DestroyInstances
  <2> DEFINE wait == [o \in DestroyOps |-> MergeEvents({outstanding, {CreateOp(o[4])}})]
  <2>1. Spawning(DestroyOps, wait)
    BY <1>4, DestroySpawns
  <2>2. outstanding = Kept
    BY <1>4 DEF IInv, QueueIsComplete, DestroyInstances
  <2>3. \A o \in DestroyOps : Kept \subseteq wait[o]
    BY <2>2 DEF MergeEvents
  <2> HIDE DEF wait
  <2>4. Kept' = Kept
    BY <2>1, SpawnFacts DEF Spawning, Kept
  <2>5. \A o \in DestroyOps : o \notin PassOps /\ o \notin InitOps
    BY Kinds
  <2> QED BY <2>1, <2>3, <2>4, <2>5, SpawnWaits
<1>5. CASE Runtime
  <2>1. /\ Issued' = Issued
        /\ pre' = pre
        /\ Done \subseteq Done'
        /\ \A o \in Issued : status[o] = "issued" /\ status'[o] # "issued"
                                => pre[o] \subseteq Done
    BY <1>5, RuntimeFacts
  <2>2. PreconditionsReach'
    BY <2>1 DEF IInv, PreconditionsReach, WaitsFor, Kept
  <2>3. StartedWhenTriggered'
    BY <2>1 DEF IInv, StartedWhenTriggered
  <2> QED BY <2>2, <2>3
<1>6. CASE UNCHANGED <<status, pre>>
  BY <1>6, QuietFacts DEF IInv, PreconditionsReach, WaitsFor, StartedWhenTriggered
<1>7. InitTasksDone \/ EndPass \/ CloseContext \/ UNCHANGED vars
        \/ (\E k \in PassKind : BeginPass(k) \/ AbortPass(k))
      => UNCHANGED <<status, pre>>
  BY DEF InitTasksDone, EndPass, CloseContext, BeginPass, AbortPass, vars
<1> QED BY <1>1, <1>2, <1>3, <1>4, <1>5, <1>6, <1>7 DEF Next, Controller, Terminated

\* The events of a dependency set, as TypeOK has them.
DepsOK(d) ==
  /\ d.precondition \in Event
  /\ \A v \in DOMAIN d.atomic :
       v \in Value /\ d.atomic[v] \in [writer : Event, readers : Event]

\* Recording an invocation keeps the events of a dependency set well formed.
LEMMA RecordType ==
  ASSUME NEW d, DepsOK(d), NEW R \in SUBSET Value, NEW W \in SUBSET Value,
         NEW e \in Event
  PROVE  /\ DepsOK(RecordInvocation(d, R, W, e))
         /\ InvocationPrecondition(d, R, W) \in Event
<1> DEFINE A == [writer : Event, readers : Event]
           S == DOMAIN d.atomic \cup R \cup W
           rec(v) == LET read == IF v \in R THEN AddReader(AtomicOf(d, v), e)
                                            ELSE AtomicOf(d, v)
                     IN  IF v \in W THEN AddWriter(read, e) ELSE read
<1>1. \A v : AtomicOf(d, v) \in A
  BY DEF DepsOK, AtomicOf, NewAtomicDependencySet, NoEvent, Event
<1>2. \A a \in A : AddReader(a, e) \in A /\ AddWriter(a, e) \in A
  BY DEF AddReader, AddWriter, AtomicDependencyForWriter, MergeEvents, NoEvent, Event
<1>3. \A v : rec(v) \in A
  BY <1>1, <1>2
<1>4. RecordInvocation(d, R, W, e) =
        [precondition |-> d.precondition, atomic |-> [v \in S |-> rec(v)]]
  BY Zenon DEF RecordInvocation
<1> HIDE DEF rec
<1>5. S \subseteq Value
  BY DEF DepsOK
<1>6. DepsOK(RecordInvocation(d, R, W, e))
  BY <1>3, <1>4, <1>5 DEF DepsOK
<1>7. \A v : DependencyForReader(d, v) \in Event /\ DependencyForWriter(d, v) \in Event
  BY DEF DepsOK, DependencyForReader, DependencyForWriter, AtomicDependencyForReader,
         AtomicDependencyForWriter, MergeEvents, Event
<1>8. InvocationPrecondition(d, R, W) \in Event
  BY <1>7 DEF InvocationPrecondition, MergeEvents, Event
<1> QED BY <1>6, <1>8

\* The part of the type invariant about what has been handed to the runtime.
IssuedOK ==
  /\ Issued \subseteq AllOps
  /\ \A o \in Issued : status[o] \in {"issued", "running", "done"}
  /\ DOMAIN pre = Issued /\ \A o \in Issued : pre[o] \in Event
  /\ mem \in [Value -> SUBSET (CreateOps \cup PassOps)]

\* The rest of it: the controller's own variables.
ControllerOK ==
  /\ ctl \in {"allocating", "initializing", "waiting", "idle", "dispatching",
              "closing", "exited", "aborted"}
  /\ kind \in {"all", "forward", "backward", "update"}
  /\ pass \in 0..MaxPasses
  /\ todo \subseteq Position
  /\ DepsOK(deps)
  /\ outstanding \in Event
  /\ optStep \in 0..MaxPasses

\* Handing operations to the runtime keeps their types, and so does every step.
LEMMA SpawnType ==
  ASSUME IInv, NEW ops, NEW wait, Spawning(ops, wait),
         \A o \in ops : wait[o] \in Event
  PROVE  IssuedOK'
<1>1. /\ Issued' = Issued \cup ops
      /\ DOMAIN pre' = Issued'
      /\ \A o \in Issued : status'[o] = status[o] /\ pre'[o] = pre[o]
      /\ \A o \in ops : status'[o] = "issued" /\ pre'[o] = wait[o]
  BY SpawnFacts DEF Spawning
<1> QED BY <1>1 DEF Spawning, IInv, TypeOK, IssuedOK, Event

LEMMA IssuedType == IInv /\ [Next]_vars => IssuedOK'
<1> SUFFICES ASSUME IInv, [Next]_vars PROVE IssuedOK'
  OBVIOUS
<1>0. outstanding \in Event /\ IssuedOK /\ DepsOK(deps)
  BY DEF IInv, TypeOK, IssuedOK, DepsOK
<1>1. CASE AllocateInstances
  BY <1>1, AllocateSpawns, SpawnType DEF Event, NoEvent
<1>2. CASE SpawnInitTasks
  BY <1>0, <1>2, InitSpawns, SpawnType
<1>3. CASE IssueInvocation
  <2>1. PICK i \in todo :
          Spawning(SpawnedOps(pass, i),
                   [o \in SpawnedOps(pass, i) |->
                      InvocationPrecondition(deps, Program[i].ins, Program[i].outs)])
    BY <1>3, IssueSpawns
  <2>2. i \in Position
    BY <1>3, IssueFacts DEF IssueInvocation
  <2>3. InvocationPrecondition(deps, Program[i].ins, Program[i].outs) \in Event
    BY <1>0, <2>2, Invocations, RecordType DEF Event
  <2> QED BY <2>1, <2>3, SpawnType
<1>4. CASE DestroyInstances
  <2> DEFINE wait == [o \in DestroyOps |-> MergeEvents({outstanding, {CreateOp(o[4])}})]
  <2>1. \A o \in DestroyOps : wait[o] \in Event
    BY <1>0, Kinds DEF MergeEvents, Event, AllOps, CreateOps
  <2>2. Spawning(DestroyOps, wait)
    BY <1>4, DestroySpawns
  <2> HIDE DEF wait
  <2> QED BY <2>1, <2>2, SpawnType
<1>5. CASE Runtime
  <2>1. mem' \in [Value -> SUBSET (CreateOps \cup PassOps)]
    <3>1. PICK o \in Issued : InstanceOperation(o) \/ Start(o) \/ Finish(o)
      BY <1>5 DEF Runtime
    <3>2. CASE Finish(o)
      <4>1. \A v \in Value : o \in PassOps => Result(o, v) \subseteq CreateOps \cup PassOps
        BY <1>0 DEF Result, IssuedOK
      <4> QED BY <1>0, <3>2, <4>1 DEF Finish, IssuedOK
    <3> QED BY <1>0, <3>1, <3>2 DEF InstanceOperation, Start, IssuedOK
  <2>2. /\ Issued' = Issued
        /\ pre' = pre
        /\ \A o \in Issued : status'[o] \in {"issued", "running", "done"}
    BY <1>5, RuntimeFacts
  <2> QED BY <1>0, <2>1, <2>2 DEF IssuedOK
<1>6. CASE UNCHANGED <<status, pre, mem>>
  BY <1>0, <1>6, QuietFacts DEF IssuedOK
<1>7. InitTasksDone \/ EndPass \/ CloseContext \/ UNCHANGED vars
        \/ (\E k \in PassKind : BeginPass(k) \/ AbortPass(k))
      => UNCHANGED <<status, pre, mem>>
  BY DEF InitTasksDone, EndPass, CloseContext, BeginPass, AbortPass, vars
<1> QED BY <1>1, <1>2, <1>3, <1>4, <1>5, <1>6, <1>7 DEF Next, Controller, Terminated

\* The controller's variables keep their types; the optimizer follows the passes.
LEMMA ControllerType ==
  IInv /\ [Next]_vars => ControllerOK' /\ OptimizerFollowsPasses'
<1> SUFFICES ASSUME IInv, [Next]_vars
             PROVE  ControllerOK' /\ OptimizerFollowsPasses'
  OBVIOUS
<1> USE DEF OptimizerFollowsPasses
<1>0. /\ ControllerOK
      /\ OptimizerFollowsPasses
      /\ MaxPasses \in Nat
  BY PassAssumption DEF IInv, TypeOK, ControllerOK, DepsOK
<1>1. CASE AllocateInstances
  <2>1. outstanding' \in Event
    BY <1>0, <1>1 DEF AllocateInstances, ControllerOK, MergeEvents, Event, AllOps
  <2> QED BY <1>0, <1>1, <2>1 DEF AllocateInstances, ControllerOK, DepsOK
<1>2. CASE SpawnInitTasks
  <2>1. outstanding' \in Event
    BY <1>0, <1>2 DEF SpawnInitTasks, ControllerOK, MergeEvents, QueueAfterGet, Event, AllOps
  <2> QED BY <1>0, <1>2, <2>1 DEF SpawnInitTasks, ControllerOK, DepsOK
<1>3. CASE IssueInvocation
  <2>1. PICK i \in todo : Issue(i) /\ todo' = todo \ {i}
    BY <1>3, IssueSpawns
  <2>2. i \in Position /\ SpawnedOps(pass, i) \in Event
    BY <1>3, IssueFacts DEF IssueInvocation, Event, AllOps
  <2>3. DepsOK(RecordInvocation(deps, Program[i].ins, Program[i].outs, SpawnedOps(pass, i)))
    BY <1>0, <2>2, Invocations, RecordType DEF ControllerOK
  <2>4. deps' = RecordInvocation(deps, Program[i].ins, Program[i].outs, SpawnedOps(pass, i))
    BY <2>1 DEF Issue
  <2>5. DepsOK(deps')
    BY <2>3, <2>4
  <2>6. outstanding' \in Event
    BY <1>0, <2>1, <2>2 DEF Issue, ControllerOK, MergeEvents, Event
  <2> QED BY <1>0, <1>3, <2>1, <2>5, <2>6 DEF IssueInvocation, ControllerOK, DepsOK
<1>4. ASSUME NEW k \in PassKind, BeginPass(k)
      PROVE  ControllerOK' /\ OptimizerFollowsPasses'
  <2>1. DepsOK(deps')
    BY <1>0, <1>4 DEF BeginPass, NewDependencySet, DepsOK, ControllerOK
  <2>2. Positions(k) \subseteq Position
    BY DEF Positions
  <2>3. outstanding' \in Event
    BY <1>0, <1>4 DEF BeginPass, ControllerOK, MergeEvents, QueueAfterGet, Event
  <2> QED BY <1>0, <1>4, <2>1, <2>2, <2>3, PassAssumption DEF BeginPass, ControllerOK, DepsOK
<1>5. CASE EndPass
  BY <1>0, <1>5 DEF EndPass, ControllerOK, DepsOK
<1>6. CASE InitTasksDone \/ DestroyInstances \/ CloseContext \/ \E k \in PassKind : AbortPass(k)
  <2>1. outstanding' \in Event
    BY <1>0, <1>6 DEF InitTasksDone, DestroyInstances, CloseContext, AbortPass, ControllerOK,
       MergeEvents, QueueAfterGet, NoEvent, Event
  <2> QED BY <1>0, <1>6, <2>1
          DEF InitTasksDone, DestroyInstances, CloseContext, AbortPass, ControllerOK, DepsOK
<1>7. CASE UNCHANGED controllerVars
  BY <1>0, <1>7 DEF controllerVars, ControllerOK, DepsOK
<1>8. Runtime \/ UNCHANGED vars => UNCHANGED controllerVars
  BY RuntimeFacts DEF vars
<1> QED BY <1>1, <1>2, <1>3, <1>4, <1>5, <1>6, <1>7, <1>8 DEF Next, Controller, Terminated

\* The program starts in the invariant, and no step leaves it.
LEMMA InitIInv == Init => IInv
<1> SUFFICES ASSUME Init PROVE IInv
  OBVIOUS
<1> USE DEF Init
<1>1. Issued = {} /\ Kept = {}
  BY DEF Issued, Kept
<1>2. TypeOK
  BY <1>1, PassAssumption DEF TypeOK, NewDependencySet, NoEvent, Event, CreateOps
<1>3. /\ QueueIsComplete /\ IssuedInOrder /\ PhaseStartsFromQueue /\ PreconditionsReach
      /\ StartedWhenTriggered /\ OptimizerFollowsPasses
  BY <1>1 DEF QueueIsComplete, IssuedInOrder, PhaseStartsFromQueue, PreconditionsReach,
     StartedWhenTriggered, OptimizerFollowsPasses, NoEvent
<1> QED BY <1>2, <1>3 DEF IInv

LEMMA InductiveStep == IInv /\ [Next]_vars => IInv'
<1> SUFFICES ASSUME IInv, [Next]_vars PROVE IInv'
  OBVIOUS
<1>1. TypeOK'
  BY IssuedType, ControllerType DEF IssuedOK, ControllerOK, DepsOK, TypeOK
<1> QED BY <1>1, QueueStep, OrderStep, PhaseStep, WaitStep, ControllerType DEF IInv

(***************************************************************************)
(* The invariant holds in every run of every program.                      *)
(***************************************************************************)
THEOREM Inductive == Spec => []IInv
BY InitIInv, InductiveStep, PTL DEF Spec

(***************************************************************************)
(* Every variable keeps its type: the operations are those of the program, *)
(* and the events speak of operations only.                                *)
(***************************************************************************)
THEOREM TypeCorrect == Spec => []TypeOK
<1>1. IInv => TypeOK
  BY DEF IInv
<1> QED BY <1>1, Inductive, PTL

(***************************************************************************)
(* When the controller has left its RealmContext, everything it issued is  *)
(* over, however many passes it dispatched without waiting.                *)
(***************************************************************************)
THEOREM NothingPending == Spec => []NothingPendingAtExit
<1>1. IInv => NothingPendingAtExit
  BY DEF IInv, QueueIsComplete, NothingPendingAtExit, Kept
<1> QED BY <1>1, Inductive, PTL

(***************************************************************************)
(* No operation runs on an instance that is not there yet or not any more, *)
(* although nobody awaits the creation or the last use of an instance.     *)
(***************************************************************************)
THEOREM Lifetime == Spec => []InstanceLifetime
<1>1. ASSUME IInv, NEW o \in Running, NEW v \in Uses(o)
      PROVE  CreateOp(v) \in Done /\ DestroyOp(v) \notin Done
  <2>1. o \in Issued /\ status[o] = "running" /\ o \in AllOps
    BY <1>1 DEF Running, IInv, TypeOK
  <2>2. pre[o] \subseteq Done
    BY <1>1, <2>1 DEF IInv, StartedWhenTriggered
  <2>3. o \in InitOps \cup PassOps
    BY <2>1, Kinds DEF AllOps, Uses
  <2>4. v \in Value
    BY <2>3, UsesValues
  <2>5. CreateOp(v) \in CreateOps /\ DestroyOp(v) \in DestroyOps
    BY <2>4 DEF CreateOps, DestroyOps
  <2>6. CreateOp(v) \in Issued
    <3>1. ctl # "allocating"
      BY <1>1, <2>1 DEF IInv, IssuedInOrder
    <3> QED BY <1>1, <2>5, <3>1 DEF IInv, IssuedInOrder
  <2>7. CreateOp(v) \in pre[o]
    <3>1. CreateOp(v) \in Kept
      BY <2>5, <2>6, Kinds DEF Kept
    <3>2. WaitsFor(o)
      BY <1>1, <2>1 DEF IInv, PreconditionsReach
    <3> QED BY <2>3, <2>5, <3>1, <3>2, Kinds DEF WaitsFor
  <2>8. ASSUME DestroyOp(v) \in Done PROVE FALSE
    <3>1. DestroyOp(v) \in Issued /\ status[DestroyOp(v)] # "issued"
      BY <2>8 DEF Done
    <3>2. Kept \subseteq pre[DestroyOp(v)] /\ pre[DestroyOp(v)] \subseteq Done
      BY <1>1, <2>5, <3>1 DEF IInv, PreconditionsReach, WaitsFor, StartedWhenTriggered
    <3>3. o \in Kept
      BY <2>1, <2>3, Kinds DEF Kept
    <3> QED BY <2>1, <3>2, <3>3 DEF Done
  <2> QED BY <2>2, <2>7, <2>8
<1>2. IInv => InstanceLifetime
  BY <1>1 DEF InstanceLifetime
<1> QED BY <1>2, Inductive, PTL

(***************************************************************************)
(* The barrier between the passes: an operation starts only when every     *)
(* operation of an earlier pass, and of the initialisation, is over.       *)
(***************************************************************************)
THEOREM Barrier == Spec => PhaseBarrier
<1> DEFINE Safe == \A o \in PassOps :
                     o \in Running' \ Running =>
                       \A q \in Issued : q[1] # "destroy" /\ q[2] < o[2] => q \in Done
<1>1. ASSUME IInv, [Next]_vars PROVE Safe
  <2>1. ASSUME NEW o \in PassOps, o \in Running' \ Running,
               NEW q \in Issued, q[1] # "destroy", q[2] < o[2]
        PROVE  q \in Done
    <3>1. CASE Runtime
      <4>1. o \in Issued /\ status'[o] = "running"
        BY <1>1, <2>1, <3>1, RuntimeFacts DEF Running
      <4>2. status[o] = "issued" \/ status[o] = "done"
        BY <1>1, <2>1, <4>1 DEF IInv, TypeOK, Running
      <4>3. status[o] = "done" => status'[o] = "done"
        BY <1>1, <3>1, <4>1, RuntimeFacts DEF Done
      <4>4. pre[o] \subseteq Done
        BY <1>1, <3>1, <4>1, <4>2, <4>3, RuntimeFacts
      <4>5. q \in Kept
        BY <2>1, Kinds DEF Kept
      <4>6. q \in pre[o]
        BY <1>1, <2>1, <4>1, <4>5 DEF IInv, PreconditionsReach, WaitsFor
      <4> QED BY <4>4, <4>6
    <3>2. Running' = Running \/ Runtime
      BY <1>1, RunningIsTheRuntimes
    <3> QED BY <2>1, <3>1, <3>2
  <2> QED BY <2>1
<1>2. IInv /\ [Next]_vars => [Safe]_vars
  BY <1>1
<1> QED BY <1>2, Inductive, PTL DEF Spec, PhaseBarrier

------------------------------------------------------------------------------
(***************************************************************************)
(* The instances hold what a sequential execution leaves in them, for any  *)
(* program the lowering may compute: dependency tracking orders what it    *)
(* must, within a pass and across the passes.                              *)
(***************************************************************************)

\* What an operation overwrites or reduces into.
Writes(o) == AccessOf(o).writes

\* Two operations must not be swapped: one writes what the other touches.
Clash(q, o) == Writes(q) \cap Touched(o) # {} \/ Touched(q) \cap Writes(o) # {}

(***************************************************************************)
(* The inductive invariant.                                                *)
(***************************************************************************)

\* Whoever accesses a value later in the pass will be told of its accesses.
AccessesRecorded ==
  ctl = "dispatching" =>
    \A q \in Issued \cap PassOps :
      /\ \A v \in Writes(q) : q \in DependencyForReader(deps, v)
      /\ \A v \in Touched(q) : q \in DependencyForWriter(deps, v)

\* The later one of two clashing operations waits for the earlier one.
ClashesAreOrdered ==
  \A q, o \in Issued \cap PassOps : Before(q, o) /\ Clash(q, o) => q \in pre[o]

\* The operations that have written an instance so far.
DoneWriters(v) == {CreateOp(v)} \cup {q \in Done \cap PassOps : v \in Writes(q)}

\* In whatever order they came, their results are those of the execution order.
MemoryIsSequential == \A v \in Value : mem[v] = Surviving(DoneWriters(v))

MInv ==
  /\ IInv
  /\ AccessesRecorded
  /\ ClashesAreOrdered
  /\ MemoryIsSequential

-----------------------------------------------------------------------------
(* The operations of the passes *)

\* An operation of a pass belongs to an invocation, and accesses what that does.
LEMMA PassOpFacts ==
  ASSUME NEW o \in PassOps
  PROVE  /\ o[2] \in Nat /\ o[2] > 0 /\ o[2] <= MaxPasses
         /\ o[3] \in Nat /\ o[3] \in Position
         /\ o[4] \in Lanes(Program[o[3]])
         /\ o = <<"pass", o[2], o[3], o[4]>>
         /\ AccessOf(o).reads \subseteq Program[o[3]].ins
         /\ Writes(o) \subseteq Program[o[3]].outs
         /\ Touched(o) \subseteq Value
<1>1. PICK p \in 1..MaxPasses, i \in Position : o \in SpawnedOps(p, i)
  BY DEF PassOps
<1>2. PICK lane \in Lanes(Program[i]) : o = <<"pass", p, i, lane>>
  BY <1>1 DEF SpawnedOps, PassOp
<1>3. IsReplicate(Program[i], "FWD") => lane \in Program[i].outs
  BY <1>2, ProgramAssumption DEF Lanes, IsReplicate
<1>4. IsReplicate(Program[i], "BWD") => lane \in Program[i].ins
  BY <1>2, ProgramAssumption DEF Lanes, IsReplicate
<1>5. o[2] = p /\ o[3] = i /\ o[4] = lane
  BY <1>2
<1>6. AccessOf(o).reads \subseteq Program[i].ins
  BY <1>3, <1>4, <1>5 DEF AccessOf, LaneAccess
<1>7. Writes(o) \subseteq Program[i].outs
  BY <1>3, <1>4, <1>5 DEF AccessOf, LaneAccess, Writes
<1>8. Touched(o) \subseteq Value
  BY <1>6, <1>7, Invocations DEF Touched, Writes
<1> QED BY <1>2, <1>5, <1>6, <1>7, <1>8, PositionsAreNaturals, PassAssumption

\* Of the operations of one invocation, only reductions write the same value.
LEMMA OneOverwriter ==
  ASSUME NEW o \in PassOps, NEW q \in PassOps, o # q, o[2] = q[2], o[3] = q[3],
         NEW v \in Writes(o) \cap Writes(q)
  PROVE  IsReduction(o) /\ IsReduction(q)
<1> DEFINE inv == Program[o[3]]
<1>1. o[4] # q[4] /\ o[4] \in Lanes(inv) /\ q[4] \in Lanes(inv)
  BY PassOpFacts
<1>2. CASE IsReplicate(inv, "BWD")
  BY <1>2 DEF IsReduction
<1>3. CASE IsReplicate(inv, "FWD")
  <2>1. ~IsReplicate(inv, "BWD")
    BY <1>3 DEF IsReplicate
  <2>2. Writes(o) = {o[4]} /\ Writes(q) = {q[4]}
    BY <1>3, <2>1 DEF Writes, AccessOf, LaneAccess
  <2> QED BY <1>1, <2>2
<1>4. CASE ~IsReplicate(inv, "BWD") /\ ~IsReplicate(inv, "FWD")
  <2>1. Lanes(inv) \subseteq {"whole"}
    BY <1>4 DEF Lanes
  <2> QED BY <1>1, <2>1
<1> QED BY <1>2, <1>3, <1>4

\* No invocation writes what it reads.
LEMMA NoSelfClash ==
  ASSUME NEW o \in PassOps, NEW q \in PassOps, o[3] = q[3]
  PROVE  AccessOf(o).reads \cap Writes(q) = {}
<1>1. Program[o[3]].outs \cap Program[o[3]].ins = {}
  BY PassOpFacts, ProgramAssumption
<1> QED BY <1>1, PassOpFacts

\* Two operations of different invocations come one before the other.
LEMMA BeforeIsTotal ==
  ASSUME NEW o \in PassOps, NEW q \in PassOps
  PROVE  \/ Before(o, q) \/ Before(q, o)
         \/ o[2] = q[2] /\ o[3] = q[3]
BY PassOpFacts DEF Before

\* Whatever a pass does to an instance comes after its creation.
LEMMA CreationIsFirst ==
  ASSUME NEW o \in PassOps, NEW v
  PROVE  Before(CreateOp(v), o) /\ ~Before(o, CreateOp(v)) /\ CreateOp(v) \notin PassOps
<1>1. CreateOp(v)[1] = "create" /\ CreateOp(v)[2] = 0 /\ CreateOp(v)[3] = 0
  BY DEF CreateOp
<1> QED BY <1>1, Kinds, PassOpFacts DEF Before

-----------------------------------------------------------------------------
(* The steps *)

\* The controller's steps and the runtime's, as far as the operations of the
\* passes are concerned: but for one step nothing is issued.
LEMMA PassOpsIssued ==
  ASSUME IInv, [Next]_vars, ~IssueInvocation
  PROVE  /\ Issued' \cap PassOps = Issued \cap PassOps
         /\ \A o \in Issued \cap PassOps : pre'[o] = pre[o]
<1>1. CASE AllocateInstances
  <2>1. CreateOps \cap PassOps = {}
    BY Kinds
  <2> QED BY <1>1, <2>1, AllocateSpawns, SpawnFacts DEF Spawning
<1>2. CASE SpawnInitTasks
  <2>1. InitOps \cap PassOps = {}
    BY Kinds
  <2> QED BY <1>2, <2>1, InitSpawns, SpawnFacts DEF Spawning
<1>3. CASE DestroyInstances
  <2>1. DestroyOps \cap PassOps = {}
    BY Kinds
  <2> QED BY <1>3, <2>1, DestroySpawns, SpawnFacts DEF Spawning
<1>4. CASE Runtime
  BY <1>4, RuntimeFacts
<1>5. CASE UNCHANGED <<status, pre>>
  BY <1>5, QuietFacts
<1>6. InitTasksDone \/ EndPass \/ CloseContext \/ UNCHANGED vars
        \/ (\E k \in PassKind : BeginPass(k) \/ AbortPass(k))
      => UNCHANGED <<status, pre>>
  BY DEF InitTasksDone, EndPass, CloseContext, BeginPass, AbortPass, vars
<1> QED BY <1>1, <1>2, <1>3, <1>4, <1>5, <1>6 DEF Next, Controller, Terminated

\* What issuing an invocation does to the operations of the passes.
LEMMA IssueStepFacts ==
  ASSUME IInv, IssueInvocation
  PROVE  \E i \in todo :
           LET inv == Program[i]
               ops == SpawnedOps(pass, i)
           IN  /\ i \in Position /\ pass \in Nat
               /\ ops \subseteq PassOps
               /\ \A o \in ops : o[2] = pass /\ o[3] = i
               /\ \A o \in Issued : o[2] = pass => o[3] < i
               /\ Issued' = Issued \cup ops
               /\ Done' = Done
               /\ mem' = mem
               /\ \A o \in Issued : pre'[o] = pre[o]
               /\ \A o \in ops : pre'[o] = InvocationPrecondition(deps, inv.ins, inv.outs)
               /\ deps' = RecordInvocation(deps, inv.ins, inv.outs, ops)
<1>1. PICK i \in todo :
        /\ Issue(i)
        /\ Spawning(SpawnedOps(pass, i),
                    [o \in SpawnedOps(pass, i) |->
                       InvocationPrecondition(deps, Program[i].ins, Program[i].outs)])
  BY IssueSpawns
<1> DEFINE ops == SpawnedOps(pass, i)
           wait == [o \in ops |->
                      InvocationPrecondition(deps, Program[i].ins, Program[i].outs)]
<1>2. /\ i \in Position /\ pass \in Nat
      /\ ops \subseteq PassOps
      /\ \A o \in ops : o[2] = pass /\ o[3] = i
  BY IssueFacts DEF IssueInvocation
<1>3. \A o \in Issued : o[2] = pass => o[3] < i
  BY DEF IInv, IssuedInOrder, IssueInvocation
<1>4. deps' = RecordInvocation(deps, Program[i].ins, Program[i].outs, ops)
  BY <1>1 DEF Issue
<1>5. \A o \in ops : wait[o] = InvocationPrecondition(deps, Program[i].ins, Program[i].outs)
  OBVIOUS
<1>6. Spawning(ops, wait)
  BY <1>1
<1> HIDE DEF ops, wait
<1>7. /\ Issued' = Issued \cup ops
      /\ Done' = Done
      /\ mem' = mem
      /\ \A o \in Issued : pre'[o] = pre[o]
      /\ \A o \in ops : pre'[o] = wait[o]
  BY <1>6, SpawnFacts DEF Spawning
<1>8. \A o \in ops : pre'[o] = InvocationPrecondition(deps, Program[i].ins, Program[i].outs)
  BY <1>5, <1>7
<1> QED BY <1>2, <1>3, <1>4, <1>7, <1>8 DEF ops

\* Every access of an issued operation stays on record.
LEMMA RecordedStep == MInv /\ [Next]_vars => AccessesRecorded'
<1> SUFFICES ASSUME MInv, [Next]_vars, ctl' = "dispatching",
                    NEW q \in Issued' \cap PassOps
             PROVE  /\ \A v \in Writes(q) : q \in DependencyForReader(deps', v)
                    /\ \A v \in Touched(q) : q \in DependencyForWriter(deps', v)
  BY DEF AccessesRecorded, Writes, Touched, AccessOf
<1>0. IInv
  BY DEF MInv
<1>1. CASE IssueInvocation
  <2>1. PICK i \in todo :
          LET inv == Program[i]
              ops == SpawnedOps(pass, i)
          IN  /\ ops \subseteq PassOps
              /\ \A o \in ops : o[3] = i
              /\ Issued' = Issued \cup ops
              /\ deps' = RecordInvocation(deps, inv.ins, inv.outs, ops)
    BY <1>0, <1>1, IssueStepFacts
  <2> DEFINE R == Program[i].ins
             W == Program[i].outs
             e == SpawnedOps(pass, i)
  <2>2. Recorded(deps', deps, R, W, e)
    BY <2>1, AfterRecord
  <2>3. CASE q \in e
    <3>1. Writes(q) \subseteq W /\ AccessOf(q).reads \subseteq R
      BY <2>1, <2>3, PassOpFacts
    <3>2. Touched(q) \subseteq R \cup W
      BY <3>1 DEF Touched, Writes
    <3> HIDE DEF R, W, e
    <3> QED BY <2>2, <2>3, <3>1, <3>2 DEF Recorded
  <2>4. CASE q \notin e
    <3>1. q \in Issued
      BY <2>1, <2>4
    <3>2. /\ \A v \in Writes(q) : q \in DependencyForReader(deps, v)
          /\ \A v \in Touched(q) : q \in DependencyForWriter(deps, v)
      BY <1>1, <3>1 DEF MInv, AccessesRecorded, IssueInvocation
    <3>3. Writes(q) \subseteq Touched(q)
      BY DEF Writes, Touched
    <3> HIDE DEF R, W, e
    <3> QED BY <2>2, <3>2, <3>3 DEF Recorded
  <2> QED BY <2>3, <2>4
<1>2. ASSUME NEW k \in PassKind, BeginPass(k)
      PROVE  /\ \A v \in Writes(q) : q \in DependencyForReader(deps', v)
             /\ \A v \in Touched(q) : q \in DependencyForWriter(deps', v)
  <2>1. q \in outstanding
    BY <1>0, <1>2, QuietFacts DEF BeginPass, IInv, QueueIsComplete, IssuedInOrder
  <2>2. deps' = NewDependencySet(outstanding)
    BY <1>2 DEF BeginPass
  <2> QED BY <2>1, <2>2, NewKeepsPrecondition DEF KeepsPrecondition
<1>3. CASE UNCHANGED <<ctl, deps>> /\ ~IssueInvocation
  BY <1>0, <1>3, PassOpsIssued DEF MInv, AccessesRecorded
<1>4. Runtime \/ UNCHANGED vars => UNCHANGED <<ctl, deps>>
  BY <1>0, RuntimeFacts DEF vars, controllerVars
<1>5. ASSUME NEW k \in PassKind PROVE ~AbortPass(k)
  BY DEF AbortPass
<1>6. ~(\/ AllocateInstances \/ SpawnInitTasks \/ InitTasksDone \/ EndPass
        \/ DestroyInstances \/ CloseContext)
  BY DEF AllocateInstances, SpawnInitTasks, InitTasksDone, EndPass, DestroyInstances,
         CloseContext
<1> QED BY <1>1, <1>2, <1>3, <1>4, <1>5, <1>6 DEF Next, Controller, Terminated

\* So a new operation waits for all it clashes with.
LEMMA ClashStep == MInv /\ [Next]_vars => ClashesAreOrdered'
<1> SUFFICES ASSUME MInv, [Next]_vars,
                    NEW q \in Issued' \cap PassOps, NEW o \in Issued' \cap PassOps,
                    Before(q, o), Clash(q, o)
             PROVE  q \in pre'[o]
  BY DEF ClashesAreOrdered, Before, Clash, Writes, Touched, AccessOf
<1>0. IInv
  BY DEF MInv
<1>1. CASE ~IssueInvocation
  BY <1>0, <1>1, PassOpsIssued DEF MInv, ClashesAreOrdered
<1>2. CASE IssueInvocation
  <2>1. PICK i \in todo :
          LET inv == Program[i]
              ops == SpawnedOps(pass, i)
          IN  /\ i \in Position /\ pass \in Nat
              /\ ops \subseteq PassOps
              /\ \A p \in ops : p[2] = pass /\ p[3] = i
              /\ \A p \in Issued : p[2] = pass => p[3] < i
              /\ Issued' = Issued \cup ops
              /\ \A p \in Issued : pre'[p] = pre[p]
              /\ \A p \in ops : pre'[p] = InvocationPrecondition(deps, inv.ins, inv.outs)
    BY <1>0, <1>2, IssueStepFacts
  <2> DEFINE R == Program[i].ins
             W == Program[i].outs
             e == SpawnedOps(pass, i)
  <2>2. \A p \in Issued' : p[2] <= pass
    BY <1>0, <2>1 DEF IInv, IssuedInOrder
  <2>3. CASE o \in Issued
    <3>1. q \notin e
      BY <1>0, <2>1, <2>3, PassOpFacts DEF Before, IInv, IssuedInOrder
    <3>2. q \in Issued
      BY <2>1, <3>1
    <3> QED BY <2>1, <2>3, <3>2 DEF MInv, ClashesAreOrdered
  <2>4. CASE o \in e
    <3>1. q \in Issued
      BY <2>1, <2>4, PassOpFacts DEF Before
    <3>2. /\ \A v \in Writes(q) : q \in DependencyForReader(deps, v)
          /\ \A v \in Touched(q) : q \in DependencyForWriter(deps, v)
      BY <1>2, <3>1 DEF MInv, AccessesRecorded, IssueInvocation
    <3>3. Writes(o) \subseteq W /\ Touched(o) \subseteq R \cup W
      BY <2>1, <2>4, PassOpFacts DEF Touched, Writes
    <3>4. pre'[o] = InvocationPrecondition(deps, R, W)
      BY <2>1, <2>4
    <3>5. /\ \A v \in R :
               DependencyForReader(deps, v) \subseteq InvocationPrecondition(deps, R, W)
          /\ \A v \in W :
               DependencyForWriter(deps, v) \subseteq InvocationPrecondition(deps, R, W)
      BY DEF InvocationPrecondition, MergeEvents
    <3>6. Writes(q) \subseteq Touched(q)
      BY DEF Writes, Touched
    <3> HIDE DEF R, W, e
    <3> QED BY <3>2, <3>3, <3>4, <3>5, <3>6 DEF Clash
  <2> QED BY <2>1, <2>3, <2>4
<1> QED BY <1>1, <1>2

\* An operation that is not done has not been overtaken by one it clashes with.
LEMMA NotOvertaken ==
  ASSUME MInv, NEW o \in Issued \cap PassOps, o \notin Done,
         NEW q \in Done \cap PassOps, Clash(o, q)
  PROVE  ~Before(o, q)
<1>1. q \in Issued /\ status[q] # "issued"
  BY DEF Done
<1>2. pre[q] \subseteq Done
  BY <1>1 DEF MInv, IInv, StartedWhenTriggered
<1> QED BY <1>1, <1>2 DEF MInv, ClashesAreOrdered

\* A running operation has the operations it clashes with that come before it
\* behind it.
LEMMA NothingMissed ==
  ASSUME MInv, NEW o \in Running \cap PassOps,
         NEW q \in Issued \cap PassOps, Clash(q, o), Before(q, o)
  PROVE  q \in Done
<1>1. o \in Issued /\ status[o] # "issued"
  BY DEF Running
<1>2. pre[o] \subseteq Done
  BY <1>1 DEF MInv, IInv, StartedWhenTriggered
<1> QED BY <1>1, <1>2 DEF MInv, ClashesAreOrdered

\* One more writer finishes, after all that come before it.
LEMMA FinishMemory ==
  ASSUME MInv, NEW o \in Issued \cap PassOps, Finish(o), NEW v \in Value, v \in Writes(o)
  PROVE  mem'[v] = Surviving(DoneWriters(v) \cup {o})
<1> DEFINE W == DoneWriters(v)
<1>1. o \in Running /\ o \notin Done
  BY DEF Finish, Running, Done
<1>2. o # CreateOp(v) /\ o \notin W
  BY <1>1, CreationIsFirst DEF DoneWriters
<1>3. mem[v] = Surviving(W)
  BY DEF MInv, MemoryIsSequential
<1>4. ASSUME NEW q \in W PROVE ~Before(o, q)
  <2>1. CASE q = CreateOp(v)
    BY <2>1, CreationIsFirst
  <2>2. CASE q \in Done \cap PassOps /\ v \in Writes(q)
    <3>1. Clash(o, q)
      BY <2>2 DEF Clash, Writes, Touched
    <3> QED BY <1>1, <2>2, <3>1, NotOvertaken
  <2> QED BY <2>1, <2>2 DEF DoneWriters
<1>5. ~Before(o, o)
  BY PassOpFacts DEF Before
<1>6. mem'[v] = IF IsReduction(o) THEN mem[v] \cup {o} ELSE {o}
  BY DEF Finish, Result, Writes
<1>7. CASE IsReduction(o)
  <2> HIDE DEF W
  <2>1. Surviving(W \cup {o}) = Surviving(W) \cup {o}
    BY <1>2, <1>4, <1>5, <1>7 DEF Surviving
  <2> QED BY <1>3, <1>6, <1>7, <2>1 DEF W
<1>8. CASE ~IsReduction(o)
  <2>1. ASSUME NEW q \in W PROVE Before(q, o)
    <3>1. CASE q = CreateOp(v)
      BY <3>1, CreationIsFirst
    <3>2. CASE q \in Done \cap PassOps /\ v \in Writes(q)
      <4>1. ~(o[2] = q[2] /\ o[3] = q[3])
        BY <1>2, <1>8, <3>2, OneOverwriter
      <4> QED BY <1>4, <3>2, <4>1, BeforeIsTotal
    <3> QED BY <3>1, <3>2 DEF DoneWriters
  <2> HIDE DEF W
  <2>2. Surviving(W \cup {o}) = {o}
    BY <1>4, <1>5, <1>8, <2>1 DEF Surviving
  <2> QED BY <1>6, <1>8, <2>2 DEF W
<1> QED BY <1>7, <1>8

\* Only finishing operations write, and they finish in an order that is right.
LEMMA MemoryStep == MInv /\ [Next]_vars => MemoryIsSequential'
<1> SUFFICES ASSUME MInv, [Next]_vars PROVE MemoryIsSequential'
  OBVIOUS
<1>0. IInv
  BY DEF MInv
<1>1. CASE Done' \cap PassOps = Done \cap PassOps /\ mem' = mem
  <2>1. \A v : DoneWriters(v)' = DoneWriters(v)
    BY <1>1 DEF DoneWriters, Writes, AccessOf
  <2>2. \A v : Surviving(DoneWriters(v))' = Surviving(DoneWriters(v))
    BY <2>1 DEF Surviving, Before, IsReduction
  <2> QED BY <1>1, <2>2 DEF MInv, MemoryIsSequential
<1>2. CASE Runtime
  <2>1. PICK o \in Issued : InstanceOperation(o) \/ Start(o) \/ Finish(o)
    BY <1>2 DEF Runtime
  <2>2. CASE InstanceOperation(o)
    <3>1. o \notin PassOps
      BY <2>2, Kinds DEF InstanceOperation
    <3>2. Done' \cap PassOps = Done \cap PassOps /\ mem' = mem
      BY <2>1, <2>2, <3>1 DEF InstanceOperation, Done, Issued
    <3> QED BY <1>1, <3>2
  <2>3. CASE Start(o)
    <3>1. status[o] = "issued"
      BY <2>3 DEF Start, Triggered
    <3>2. Done' = Done /\ mem' = mem
      BY <2>1, <2>3, <3>1 DEF Start, Done, Issued
    <3> QED BY <1>1, <3>2
  <2>4. CASE Finish(o)
    <3>1. Done' = Done \cup {o}
      BY <2>1, <2>4 DEF Finish, Done, Issued
    <3>2. CASE o \notin PassOps
      <4>1. mem' = [v \in Value |-> mem[v]]
        BY <2>4, <3>2 DEF Finish
      <4>2. mem' = mem
        BY <1>0, <4>1 DEF IInv, TypeOK
      <4> QED BY <1>1, <3>1, <3>2, <4>2
    <3>3. CASE o \in PassOps
      <4>1. ASSUME NEW v \in Value PROVE mem'[v] = Surviving(DoneWriters(v)')
        <5>1. CASE v \in Writes(o)
          <6>1. DoneWriters(v)' = DoneWriters(v) \cup {o}
            BY <3>1, <3>3, <5>1 DEF DoneWriters, Writes, AccessOf
          <6> QED BY <2>1, <2>4, <3>3, <5>1, <6>1, FinishMemory
        <5>2. CASE v \notin Writes(o)
          <6>1. DoneWriters(v)' = DoneWriters(v)
            BY <3>1, <5>2 DEF DoneWriters, Writes, AccessOf
          <6>2. mem'[v] = mem[v]
            BY <2>4, <5>2 DEF Finish, Writes
          <6> QED BY <6>1, <6>2 DEF MInv, MemoryIsSequential
        <5> QED BY <5>1, <5>2
      <4>2. \A v : Surviving(DoneWriters(v))' = Surviving(DoneWriters(v)')
        BY DEF Surviving, Before, IsReduction
      <4> QED BY <4>1, <4>2 DEF MemoryIsSequential
    <3> QED BY <3>2, <3>3
  <2> QED BY <2>1, <2>2, <2>3, <2>4
<1>3. ASSUME ~Runtime PROVE Done' = Done /\ mem' = mem
  BY <1>0, <1>3, AllocateSpawns, InitSpawns, IssueStepFacts, DestroySpawns, SpawnFacts, QuietFacts
  DEF Next, Controller, Terminated, Spawning, InitTasksDone, EndPass, CloseContext, BeginPass,
      AbortPass, vars
<1> QED BY <1>1, <1>2, <1>3

(***************************************************************************)
(* The invariant holds in every run of every program.                      *)
(***************************************************************************)
THEOREM MemoryInductive == Spec => []MInv
<1>1. Init => MInv
  <2> SUFFICES ASSUME Init PROVE MInv
    OBVIOUS
  <2>1. Issued = {} /\ Done = {} /\ ctl # "dispatching"
    BY DEF Init, Issued, Done
  <2>2. AccessesRecorded /\ ClashesAreOrdered
    BY <2>1 DEF AccessesRecorded, ClashesAreOrdered
  <2>3. ASSUME NEW v \in Value PROVE mem[v] = Surviving(DoneWriters(v))
    <3>1. DoneWriters(v) = {CreateOp(v)}
      BY <2>1 DEF DoneWriters
    <3>2. ~Before(CreateOp(v), CreateOp(v))
      BY DEF Before, CreateOp
    <3> QED BY <3>1, <3>2 DEF Surviving, Init
  <2> QED BY <2>2, <2>3, InitIInv DEF MInv, MemoryIsSequential
<1>2. MInv /\ [Next]_vars => MInv'
  <2>1. IInv /\ [Next]_vars => IInv'
    BY InductiveStep
  <2> QED BY <2>1, RecordedStep, ClashStep, MemoryStep DEF MInv
<1> QED BY <1>1, <1>2, PTL DEF Spec

(***************************************************************************)
(* Whatever the interleaving, every operation finds in its input instances *)
(* what a sequential execution leaves there, and so does whoever looks at  *)
(* them when the controller has exited.                                    *)
(***************************************************************************)
THEOREM Sequential == Spec => []SequentialSemantics
<1>1. ASSUME MInv, NEW o \in Running \cap PassOps, NEW v \in AccessOf(o).reads
      PROVE  mem[v] = SequentialContents(o, v)
  <2> DEFINE W == {q \in Issued \cap PassOps : v \in Writes(q) /\ Before(q, o)}
  <2>1. o \in Issued /\ o \notin Done
    BY DEF Running, Done
  <2>2. v \in Value /\ v \in Touched(o)
    BY PassOpFacts DEF Touched
  <2>3. ASSUME NEW q \in W PROVE q \in Done
    <3>1. Clash(q, o)
      BY <2>2 DEF Clash
    <3> QED BY <1>1, <3>1, NothingMissed
  <2>4. ASSUME NEW q \in Done \cap PassOps, v \in Writes(q) PROVE q \in W
    <3>1. q \in Issued
      BY DEF Done
    <3>2. Clash(o, q)
      BY <2>2, <2>4 DEF Clash
    <3>3. ~Before(o, q)
      BY <1>1, <2>1, <3>2, NotOvertaken
    <3>4. o[3] # q[3]
      BY <2>4, NoSelfClash
    <3> QED BY <2>4, <3>1, <3>3, <3>4, BeforeIsTotal
  <2>5. DoneWriters(v) = {CreateOp(v)} \cup W
    BY <2>3, <2>4 DEF DoneWriters
  <2>6. SequentialContents(o, v) = Surviving({CreateOp(v)} \cup W)
    BY DEF SequentialContents, Writes
  <2> QED BY <1>1, <2>2, <2>5, <2>6 DEF MInv, MemoryIsSequential
<1>2. ASSUME MInv, ctl = "exited", NEW v \in Value
      PROVE  mem[v] = SequentialContents(TheEnd, v)
  <2>1. \A q \in PassOps : Before(q, TheEnd)
    BY PassOpFacts, PassAssumption DEF Before, TheEnd
  <2>2. Issued \cap PassOps = Done \cap PassOps
    BY <1>2, Kinds DEF MInv, IInv, QueueIsComplete, Kept, Done
  <2>3. SequentialContents(TheEnd, v) = Surviving(DoneWriters(v))
    BY <2>1, <2>2 DEF SequentialContents, DoneWriters, Writes
  <2> QED BY <1>2, <2>3 DEF MInv, MemoryIsSequential
<1>3. MInv => SequentialSemantics
  BY <1>1, <1>2 DEF SequentialSemantics
<1> QED BY <1>3, MemoryInductive, PTL

------------------------------------------------------------------------------
(***************************************************************************)
(* The controller is a client of dependency tracking, for any program:     *)
(* RealmExecution implements DependencyTracking.                           *)
(***************************************************************************)

-----------------------------------------------------------------------------
(* Dependency sets, seen through the operations that access tensors *)

\* The view commutes with every operation on dependency sets.
LEMMA AccessingNew ==
  ASSUME NEW e
  PROVE  AccessingDeps(NewDependencySet(e)) = NewDependencySet(Accessing(e))
<1> DEFINE n == NewDependencySet(e)
<1>1. n.precondition = e /\ n.atomic = [v \in {} |-> {}]
  BY DEF NewDependencySet
<1>2. [v \in DOMAIN n.atomic |-> [writer  |-> Accessing(n.atomic[v].writer),
                                  readers |-> Accessing(n.atomic[v].readers)]]
        = [v \in {} |-> {}]
  BY <1>1
<1> HIDE DEF n
<1> QED BY <1>1, <1>2 DEF AccessingDeps, NewDependencySet, n

LEMMA AccessingDependency ==
  ASSUME NEW d, NEW v
  PROVE  /\ DependencyForReader(AccessingDeps(d), v) = Accessing(DependencyForReader(d, v))
         /\ DependencyForWriter(AccessingDeps(d), v) = Accessing(DependencyForWriter(d, v))
BY DEF AccessingDeps, Accessing, DependencyForReader, DependencyForWriter,
       AtomicDependencyForReader, AtomicDependencyForWriter, MergeEvents

LEMMA AccessingPrecondition ==
  ASSUME NEW d, NEW R, NEW W
  PROVE  InvocationPrecondition(AccessingDeps(d), R, W)
           = Accessing(InvocationPrecondition(d, R, W))
<1> DEFINE a == AccessingDeps(d)
<1>1. ASSUME NEW o
      PROVE  o \in InvocationPrecondition(a, R, W)
               <=> \/ \E v \in R : o \in DependencyForReader(a, v)
                   \/ \E v \in W : o \in DependencyForWriter(a, v)
  BY DEF InvocationPrecondition, MergeEvents
<1>2. ASSUME NEW o
      PROVE  o \in InvocationPrecondition(d, R, W)
               <=> \/ \E v \in R : o \in DependencyForReader(d, v)
                   \/ \E v \in W : o \in DependencyForWriter(d, v)
  BY DEF InvocationPrecondition, MergeEvents
<1>3. \A v : /\ DependencyForReader(a, v) = Accessing(DependencyForReader(d, v))
             /\ DependencyForWriter(a, v) = Accessing(DependencyForWriter(d, v))
  BY AccessingDependency
<1> HIDE DEF a
<1>4. \A o : o \in InvocationPrecondition(a, R, W)
               <=> o \in Accessing(InvocationPrecondition(d, R, W))
  BY <1>1, <1>2, <1>3 DEF Accessing
<1> QED BY <1>4 DEF a

LEMMA AccessingRecord ==
  ASSUME NEW d, NEW R, NEW W, NEW e
  PROVE  AccessingDeps(RecordInvocation(d, R, W, e))
           = RecordInvocation(AccessingDeps(d), R, W, Accessing(e))
<1> DEFINE a == AccessingDeps(d)
           s(r) == [writer |-> Accessing(r.writer), readers |-> Accessing(r.readers)]
           S == DOMAIN d.atomic \cup R \cup W
           rec(v) == LET read == IF v \in R THEN AddReader(AtomicOf(d, v), e)
                                            ELSE AtomicOf(d, v)
                     IN  IF v \in W THEN AddWriter(read, e) ELSE read
           reca(v) == LET read == IF v \in R THEN AddReader(AtomicOf(a, v), Accessing(e))
                                             ELSE AtomicOf(a, v)
                      IN  IF v \in W THEN AddWriter(read, Accessing(e)) ELSE read
<1>1. /\ a.precondition = Accessing(d.precondition)
      /\ DOMAIN a.atomic = DOMAIN d.atomic
      /\ \A v \in DOMAIN d.atomic : a.atomic[v] = s(d.atomic[v])
  BY DEF AccessingDeps
<1>2. \A v : AtomicOf(a, v) = s(AtomicOf(d, v))
  BY <1>1 DEF AtomicOf, NewAtomicDependencySet, Accessing, NoEvent
<1>3. ASSUME NEW r
      PROVE  /\ AddReader(s(r), Accessing(e)) = s(AddReader(r, e))
             /\ AddWriter(s(r), Accessing(e)) = s(AddWriter(r, e))
  <2>1. \A x, y : MergeEvents({Accessing(x), Accessing(y)}) = Accessing(MergeEvents({x, y}))
    BY DEF MergeEvents, Accessing
  <2>2. Accessing(NoEvent) = NoEvent
    BY DEF Accessing, NoEvent
  <2>3. AddReader(s(r), Accessing(e)) = s(AddReader(r, e))
    BY <2>1 DEF AddReader
  <2>4. AddWriter(s(r), Accessing(e)) = s(AddWriter(r, e))
    BY <2>1, <2>2 DEF AddWriter, AtomicDependencyForWriter
  <2> QED BY <2>3, <2>4
<1> HIDE DEF s
<1>4. \A v : reca(v) = s(rec(v))
  BY <1>2, <1>3
<1>5. RecordInvocation(d, R, W, e) =
        [precondition |-> d.precondition, atomic |-> [v \in S |-> rec(v)]]
  BY Zenon DEF RecordInvocation
<1>6. RecordInvocation(a, R, W, Accessing(e)) =
        [precondition |-> a.precondition,
         atomic |-> [v \in DOMAIN a.atomic \cup R \cup W |-> reca(v)]]
  BY Zenon DEF RecordInvocation
<1> HIDE DEF rec, reca, a, S
<1>7. [v \in S |-> s(rec(v))] = [v \in DOMAIN a.atomic \cup R \cup W |-> reca(v)]
  BY <1>1, <1>4 DEF S
<1>8. AccessingDeps(RecordInvocation(d, R, W, e)) =
        [precondition |-> Accessing(d.precondition), atomic |-> [v \in S |-> s(rec(v))]]
  BY <1>5 DEF AccessingDeps, s
<1> QED BY <1>1, <1>6, <1>7, <1>8 DEF a

\* Dependency tracking uses the same dependency sets.
LEMMA SameDependencySets ==
  /\ Tracking!NoEvent = NoEvent
  /\ \A e : Tracking!NewDependencySet(e) = NewDependencySet(e)
  /\ \A x, y : Tracking!MergeEvents({x, y}) = x \cup y
  /\ \A d, R, W : Tracking!InvocationPrecondition(d, R, W) = InvocationPrecondition(d, R, W)
  /\ \A d, R, W, e : Tracking!RecordInvocation(d, R, W, e) = RecordInvocation(d, R, W, e)
<1>1. Tracking!NoEvent = NoEvent
  BY DEF Tracking!NoEvent, NoEvent
<1>2. \A e : Tracking!NewDependencySet(e) = NewDependencySet(e)
  BY DEF Tracking!NewDependencySet, NewDependencySet
<1>3. \A x, y : Tracking!MergeEvents({x, y}) = x \cup y
  BY DEF Tracking!MergeEvents
<1>4. \A d, R, W : Tracking!InvocationPrecondition(d, R, W) = InvocationPrecondition(d, R, W)
  BY Zenon DEF Tracking!InvocationPrecondition, InvocationPrecondition,
     Tracking!DependencyForReader, DependencyForReader,
     Tracking!DependencyForWriter, DependencyForWriter,
     Tracking!AtomicDependencyForReader, AtomicDependencyForReader,
     Tracking!AtomicDependencyForWriter, AtomicDependencyForWriter,
     Tracking!MergeEvents, MergeEvents
<1>5. \A d, R, W, e : Tracking!RecordInvocation(d, R, W, e) = RecordInvocation(d, R, W, e)
  <2>1. \A d, v : Tracking!AtomicOf(d, v) = AtomicOf(d, v)
    BY Zenon, <1>1 DEF Tracking!AtomicOf, AtomicOf, Tracking!NewAtomicDependencySet,
       NewAtomicDependencySet
  <2>2. \A a, e : Tracking!AddReader(a, e) = AddReader(a, e)
    BY Zenon DEF Tracking!AddReader, AddReader, Tracking!MergeEvents, MergeEvents
  <2>3. \A a, e : Tracking!AddWriter(a, e) = AddWriter(a, e)
    BY Zenon, <1>1 DEF Tracking!AddWriter, AddWriter, Tracking!MergeEvents, MergeEvents,
       Tracking!AtomicDependencyForWriter, AtomicDependencyForWriter
  <2> QED BY <2>1, <2>2, <2>3 DEF Tracking!RecordInvocation, RecordInvocation
<1> QED BY <1>1, <1>2, <1>3, <1>4, <1>5

-----------------------------------------------------------------------------
(* Invocations *)

\* Together, the operations of an invocation access what the invocation does.
LEMMA TogetherTheyAccess ==
  ASSUME NEW p \in 1..MaxPasses, NEW i \in Spawns
  PROVE  /\ DOMAIN Becomes(p, i) = SpawnedOps(p, i)
         /\ \A o \in SpawnedOps(p, i) : Becomes(p, i)[o] = AccessOf(o)
         /\ Tracking!Reads(Becomes(p, i)) = Program[i].ins
         /\ Tracking!Writes(Becomes(p, i)) = Program[i].outs
<1> DEFINE inv == Program[i]
           b == Becomes(p, i)
           ops == SpawnedOps(p, i)
<1>0. DOMAIN b = ops /\ \A o \in ops : b[o] = AccessOf(o)
  BY DEF Becomes
<1>1. /\ ops = {PassOp(p, i, lane) : lane \in Lanes(inv)}
      /\ Lanes(inv) # {}
  BY DEF SpawnedOps, Spawns
<1>2. \A lane : AccessOf(PassOp(p, i, lane)) = LaneAccess(inv, lane)
  BY DEF AccessOf, PassOp
<1>3. Tracking!Reads(b) = UNION {b[o].reads : o \in DOMAIN b}
  BY DEF Tracking!Reads
<1>4. Tracking!Writes(b) = UNION {b[o].writes : o \in DOMAIN b}
  BY DEF Tracking!Writes
<1> HIDE DEF b, ops
<1>5. /\ \A v : v \in Tracking!Reads(b) <=> \E o \in ops : v \in AccessOf(o).reads
      /\ \A v : v \in Tracking!Writes(b) <=> \E o \in ops : v \in AccessOf(o).writes
  BY <1>0, <1>3, <1>4
<1>6. /\ \A v : v \in Tracking!Reads(b)
                  <=> \E lane \in Lanes(inv) : v \in LaneAccess(inv, lane).reads
      /\ \A v : v \in Tracking!Writes(b)
                  <=> \E lane \in Lanes(inv) : v \in LaneAccess(inv, lane).writes
  BY <1>1, <1>2, <1>5
<1>7. i \in Position
  BY DEF Spawns
<1>8. \A v : v \in Tracking!Reads(b) <=> v \in inv.ins
  <2>1. CASE IsReplicate(inv, "BWD")
    <3>1. Lanes(inv) = inv.ins
      BY <2>1, <1>7, ProgramAssumption DEF Lanes, IsReplicate
    <3>2. \A lane : LaneAccess(inv, lane).reads = {lane}
      BY <2>1 DEF LaneAccess
    <3> QED BY <1>6, <3>1, <3>2
  <2>2. CASE ~IsReplicate(inv, "BWD")
    <3>1. \A lane : LaneAccess(inv, lane).reads = inv.ins
      BY <2>2 DEF LaneAccess
    <3> QED BY <1>1, <1>6, <3>1
  <2> QED BY <2>1, <2>2
<1>9. \A v : v \in Tracking!Writes(b) <=> v \in inv.outs
  <2>1. CASE IsReplicate(inv, "FWD")
    <3>1. Lanes(inv) = inv.outs
      BY <2>1, <1>7, ProgramAssumption DEF Lanes, IsReplicate
    <3>2. \A lane : LaneAccess(inv, lane).writes = {lane}
      BY <2>1 DEF LaneAccess
    <3> QED BY <1>6, <3>1, <3>2
  <2>2. CASE ~IsReplicate(inv, "FWD")
    <3>1. \A lane : LaneAccess(inv, lane).writes = inv.outs
      BY <2>2 DEF LaneAccess
    <3> QED BY <1>1, <1>6, <3>1
  <2> QED BY <2>1, <2>2
<1>10. Tracking!Reads(b) = inv.ins
  BY <1>3, <1>8
<1>11. Tracking!Writes(b) = inv.outs
  BY <1>4, <1>9
<1> QED BY <1>0, <1>10, <1>11 DEF b, ops

(***************************************************************************)
(* What the refinement needs beyond the invariants before: the values the  *)
(* pass has met belong to invocations before those it still has to issue.  *)
(***************************************************************************)
MetBefore(v) ==
  \E j \in Position : /\ v \in Program[j].ins \cup Program[j].outs
                      /\ \A k \in todo : j < k

ValuesMet == ctl = "dispatching" => \A v \in DOMAIN deps.atomic : MetBefore(v)

\* The order of the loop keeps it so.
LEMMA ValuesStep == IInv /\ ValuesMet /\ [Next]_vars => ValuesMet'
<1> SUFFICES ASSUME IInv, ValuesMet, [Next]_vars, ctl' = "dispatching",
                    NEW v \in DOMAIN deps'.atomic
             PROVE  MetBefore(v)'
  BY DEF ValuesMet, MetBefore
<1>1. CASE IssueInvocation
  <2>1. PICK i \in todo :
          /\ \A j \in todo : i <= j
          /\ Issue(i)
          /\ todo' = todo \ {i}
    BY <1>1, IssueSpawns
  <2>2. todo \subseteq Position /\ Position \subseteq Nat
    BY PositionsAreNaturals DEF IInv, TypeOK
  <2>3. \A k \in todo' : i < k
    BY <2>1, <2>2
  <2>4. DOMAIN deps'.atomic = DOMAIN deps.atomic \cup Program[i].ins \cup Program[i].outs
    BY <2>1 DEF Issue, RecordInvocation
  <2>5. CASE v \in Program[i].ins \cup Program[i].outs
    BY <2>1, <2>2, <2>3, <2>5 DEF MetBefore
  <2>6. CASE v \in DOMAIN deps.atomic
    <3>1. MetBefore(v)
      BY <1>1, <2>6 DEF ValuesMet, IssueInvocation
    <3> QED BY <2>1, <3>1 DEF MetBefore
  <2> QED BY <2>4, <2>5, <2>6
<1>2. ASSUME NEW k \in PassKind, BeginPass(k) PROVE FALSE
  BY <1>2 DEF BeginPass, NewDependencySet
<1>3. CASE UNCHANGED <<ctl, todo, deps>>
  BY <1>3 DEF ValuesMet, MetBefore
<1>4. Runtime \/ UNCHANGED vars => UNCHANGED <<ctl, todo, deps>>
  BY RuntimeFacts DEF vars, controllerVars
<1>5. ASSUME NEW k \in PassKind PROVE ~AbortPass(k)
  BY DEF AbortPass
<1>6. ~(\/ AllocateInstances \/ SpawnInitTasks \/ InitTasksDone \/ EndPass
        \/ DestroyInstances \/ CloseContext)
  BY DEF AllocateInstances, SpawnInitTasks, InitTasksDone, EndPass, DestroyInstances,
         CloseContext
<1> QED BY <1>1, <1>2, <1>3, <1>4, <1>5, <1>6 DEF Next, Controller, Terminated

\* So what an invocation produces has not been accessed in the pass before.
LEMMA OutputsAreNew ==
  ASSUME IInv, ValuesMet, ctl = "dispatching", NEW i \in todo
  PROVE  Program[i].outs \cap DOMAIN deps.atomic = {}
<1> SUFFICES ASSUME NEW v \in Program[i].outs, v \in DOMAIN deps.atomic PROVE FALSE
  OBVIOUS
<1>1. PICK j \in Position : v \in Program[j].ins \cup Program[j].outs /\ j < i
  BY DEF ValuesMet, MetBefore
<1>2. i \in Position /\ i \in Nat /\ j \in Nat
  BY PositionsAreNaturals DEF IInv, TypeOK
<1>3. Program[i].outs \cap Program[j].outs = {}
  BY <1>1, <1>2, ProgramAssumption
<1>4. Program[i].outs \cap Program[j].ins = {}
  BY <1>1, <1>2, ProgramAssumption
<1> QED BY <1>1, <1>3, <1>4

-----------------------------------------------------------------------------
(* The steps *)

\* What is issued outside of the passes is none of dependency tracking's business.
LEMMA NotTracked ==
  ASSUME Issued' \cap PassOps = Issued \cap PassOps,
         \A o \in Issued \cap PassOps : pre'[o] = pre[o]
  PROVE  /\ UNCHANGED <<trackedAccess, trackedPeers, trackedPre>>
         /\ (\A o \in Issued \cap PassOps : status'[o] = status[o])
              => UNCHANGED trackedStatus
<1>1. \A o \in PassOps : o \in Issued' <=> o \in Issued
  OBVIOUS
<1>2. trackedAccess' = trackedAccess
  BY <1>1 DEF trackedAccess, AccessOf
<1>3. trackedPeers' = trackedPeers
  BY <1>1 DEF trackedPeers
<1>4. trackedPre' = trackedPre
  BY <1>1 DEF trackedPre, Accessing
<1>5. (\A o \in Issued \cap PassOps : status'[o] = status[o]) => trackedStatus' = trackedStatus
  BY <1>1 DEF trackedStatus
<1> QED BY <1>2, <1>3, <1>4, <1>5

\* The queue, seen so, always stands for all the operations issued.
LEMMA TrackedQueue == IInv => trackedOutstanding = Issued \cap PassOps
<1>1. Kept \cap PassOps = Issued \cap PassOps
  BY Kinds DEF Kept
<1> QED BY <1>1 DEF IInv, QueueIsComplete, trackedOutstanding, Accessing

\* The same after a step.
LEMMA TrackedQueueNext == IInv' => (trackedOutstanding = Issued \cap PassOps)'
BY TrackedQueue, PTL

\* A step dependency tracking does not see.
TrackingStutters ==
  UNCHANGED <<trackedStatus, trackedAccess, trackedPeers, trackedPre, AccessingDeps(deps),
              trackedOutstanding>>

\* The controller's steps outside of the dispatch of a pass.
LEMMA ElsewhereStutters ==
  ASSUME IInv, IInv', [Next]_vars, ~IssueInvocation, ~Runtime,
         \A k \in PassKind : ~BeginPass(k)
  PROVE  TrackingStutters
<1>1. /\ Issued' \cap PassOps = Issued \cap PassOps
      /\ \A o \in Issued \cap PassOps : pre'[o] = pre[o]
  BY PassOpsIssued
<1>2. \A o \in Issued \cap PassOps : status'[o] = status[o]
  <2>1. CASE UNCHANGED status
    BY <2>1
  <2>2. CASE AllocateInstances
    BY <2>2, AllocateSpawns, SpawnFacts DEF Spawning
  <2>3. CASE SpawnInitTasks
    BY <2>3, InitSpawns, SpawnFacts DEF Spawning
  <2>4. CASE DestroyInstances
    BY <2>4, DestroySpawns, SpawnFacts DEF Spawning
  <2> QED BY <2>1, <2>2, <2>3, <2>4
          DEF Next, Controller, Terminated, InitTasksDone, EndPass, CloseContext, AbortPass, vars
<1>3. deps' = deps
  BY DEF Next, Controller, Terminated, AllocateInstances, SpawnInitTasks, InitTasksDone,
     EndPass, DestroyInstances, CloseContext, AbortPass, vars, controllerVars
<1>4. trackedOutstanding' = trackedOutstanding
  <2>1. trackedOutstanding = Issued \cap PassOps
    BY TrackedQueue
  <2>2. trackedOutstanding' = (Issued \cap PassOps)'
    BY TrackedQueueNext
  <2> QED BY <1>1, <2>1, <2>2
<1>5. AccessingDeps(deps)' = AccessingDeps(deps)
  BY <1>3 DEF AccessingDeps, Accessing
<1> QED BY <1>1, <1>2, <1>4, <1>5, NotTracked DEF TrackingStutters

\* A pass begins: what it starts from is what is outstanding.
LEMMA BeginImplements ==
  ASSUME IInv, IInv', [Next]_vars, NEW k \in PassKind, BeginPass(k)
  PROVE  Tracking!BeginPhase
<1>1. UNCHANGED <<status, pre>> /\ Issued' = Issued
  BY QuietFacts DEF BeginPass
<1>2. UNCHANGED <<trackedStatus, trackedAccess, trackedPeers, trackedPre>>
  BY <1>1, NotTracked
<1>3. trackedOutstanding' = trackedOutstanding
  <2>1. trackedOutstanding' = (Issued \cap PassOps)'
    BY TrackedQueueNext
  <2> QED BY <1>1, <2>1, TrackedQueue
<1>4. AccessingDeps(deps') = NewDependencySet(trackedOutstanding)
  <2>1. deps' = NewDependencySet(outstanding)
    BY DEF BeginPass
  <2>2. AccessingDeps(deps') = NewDependencySet(Accessing(outstanding))
    BY <2>1, AccessingNew
  <2>3. trackedOutstanding = Accessing(outstanding)
    BY DEF trackedOutstanding, BeginPass
  <2> QED BY <2>2, <2>3
<1> QED BY <1>2, <1>3, <1>4, SameDependencySets DEF Tracking!BeginPhase, trackedOutstanding

\* An invocation that becomes operations is one of dependency tracking's.
LEMMA IssueImplements ==
  ASSUME IInv, IInv', ValuesMet, IssueInvocation
  PROVE  \/ \E inv \in {Becomes(p, i) : p \in 1..MaxPasses, i \in Spawns} : Tracking!Issue(inv)
         \/ \E acc \in {Registers(i) : i \in Position \ Spawns} : Tracking!Register(acc)
<1>1. PICK i \in todo :
        /\ Issue(i)
        /\ Spawning(SpawnedOps(pass, i),
                    [o \in SpawnedOps(pass, i) |->
                       InvocationPrecondition(deps, Program[i].ins, Program[i].outs)])
  BY IssueSpawns
<1> DEFINE R == Program[i].ins
           W == Program[i].outs
           G == SpawnedOps(pass, i)
           P == InvocationPrecondition(deps, R, W)
           wait == [o \in G |-> P]
           D == AccessingDeps(deps)
<1>2. /\ pass \in 1..MaxPasses /\ i \in Position
      /\ G \subseteq PassOps
      /\ \A o \in G : o[2] = pass /\ o[3] = i
      /\ G \cap Issued = {}
  BY <1>1, IssueFacts DEF IssueInvocation
<1>3. /\ Spawning(G, wait)
      /\ deps' = RecordInvocation(deps, R, W, G)
      /\ \A o \in G : wait[o] = P
  BY <1>1 DEF Issue
<1>4. Accessing(G) = G
  BY <1>2 DEF Accessing
<1>5. AccessingDeps(deps') = RecordInvocation(D, R, W, G)
  BY <1>3, <1>4, AccessingRecord
<1>6. InvocationPrecondition(D, R, W) = Accessing(P)
  BY AccessingPrecondition
<1> HIDE DEF wait, G, D, P
<1>7. /\ Issued' = Issued \cup G
      /\ \A o \in Issued : status'[o] = status[o] /\ pre'[o] = pre[o]
      /\ \A o \in G : status'[o] = "issued" /\ pre'[o] = P
  BY <1>3, SpawnFacts DEF Spawning
<1>8. trackedOutstanding' = trackedOutstanding \cup G
  <2>1. trackedOutstanding' = (Issued \cap PassOps)'
    BY TrackedQueueNext
  <2> QED BY <1>2, <1>7, <2>1, TrackedQueue
<1>9. CASE i \in Spawns
  <2> DEFINE b == Becomes(pass, i)
  <2>1. /\ DOMAIN b = G
        /\ \A o \in G : b[o] = AccessOf(o)
        /\ Tracking!Reads(b) = R
        /\ Tracking!Writes(b) = W
    BY <1>2, <1>9, TogetherTheyAccess DEF G
  <2> HIDE DEF b, R, W
  <2>2. G \subseteq Tracking!Fresh
    BY <1>2 DEF Tracking!Fresh, trackedStatus
  <2>3. trackedStatus' = [o \in PassOps |-> IF o \in G THEN "issued" ELSE trackedStatus[o]]
    BY <1>2, <1>7 DEF trackedStatus
  <2>4. trackedAccess' = [o \in PassOps |-> IF o \in G THEN b[o] ELSE trackedAccess[o]]
    BY <1>2, <1>7, <2>1 DEF trackedAccess, AccessOf
  <2>5. trackedPeers' = [o \in PassOps |-> IF o \in G THEN G ELSE trackedPeers[o]]
    BY <1>2, <1>7 DEF trackedPeers, G
  <2>6. trackedPre' = [o \in PassOps |->
                         IF o \in G THEN InvocationPrecondition(D, R, W) ELSE trackedPre[o]]
    BY <1>2, <1>6, <1>7 DEF trackedPre, Accessing
  <2>7. Tracking!Issue(b)
    BY <1>5, <1>8, <2>1, <2>2, <2>3, <2>4, <2>5, <2>6, SameDependencySets
       DEF Tracking!Issue, D
  <2>8. b \in {Becomes(p, j) : p \in 1..MaxPasses, j \in Spawns}
    BY <1>2, <1>9 DEF b
  <2> QED BY <2>7, <2>8
<1>10. CASE i \notin Spawns
  <2>1. G = {}
    BY <1>2, <1>10 DEF Spawns, SpawnedOps, G
  <2>2. /\ Issued' \cap PassOps = Issued \cap PassOps
        /\ \A o \in Issued \cap PassOps : status'[o] = status[o] /\ pre'[o] = pre[o]
    BY <1>7, <2>1
  <2>3. UNCHANGED <<trackedStatus, trackedAccess, trackedPeers, trackedPre>>
    BY <2>2, NotTracked
  <2>4. trackedOutstanding' = trackedOutstanding
    BY <1>8, <2>1
  <2>5. W \cap DOMAIN D.atomic = {}
    BY <1>1, OutputsAreNew DEF IssueInvocation, AccessingDeps, D
  <2>6. AccessingDeps(deps') = RecordInvocation(D, R, W, NoEvent)
    BY <1>5, <2>1 DEF NoEvent
  <2>7. Registers(i).reads = R /\ Registers(i).writes = W
    BY DEF Registers
  <2> HIDE DEF R, W
  <2>8. Tracking!Register(Registers(i))
    BY <2>3, <2>4, <2>5, <2>6, <2>7, SameDependencySets
       DEF Tracking!Register, D
  <2> QED BY <1>2, <1>10, <2>8
<1> QED BY <1>9, <1>10

\* What happens to an operation of a pass happens to it in dependency tracking.
LEMMA RuntimeImplements ==
  ASSUME IInv, IInv', [Next]_vars, Runtime
  PROVE  \/ \E o \in PassOps : Tracking!Start(o) \/ Tracking!Finish(o)
         \/ TrackingStutters
<1>1. PICK o \in Issued : InstanceOperation(o) \/ Start(o) \/ Finish(o)
  BY DEF Runtime
<1>2. /\ Issued' = Issued /\ pre' = pre /\ UNCHANGED <<ctl, deps, outstanding>>
  BY RuntimeFacts DEF controllerVars
<1>3. UNCHANGED <<trackedAccess, trackedPeers, trackedPre>>
  BY <1>2, NotTracked
<1>4. AccessingDeps(deps') = AccessingDeps(deps) /\ trackedOutstanding' = trackedOutstanding
  BY <1>2 DEF trackedOutstanding, Accessing
<1>5. CASE o \notin PassOps
  <2>1. \A q \in Issued \cap PassOps : status'[q] = status[q]
    BY <1>1, <1>5 DEF InstanceOperation, Start, Finish, Issued
  <2>2. trackedStatus' = trackedStatus
    BY <1>2, <2>1, NotTracked
  <2> QED BY <1>3, <1>4, <2>2 DEF TrackingStutters, AccessingDeps, Accessing
<1>6. CASE o \in PassOps
  <2>1. ~InstanceOperation(o)
    BY <1>6, Kinds DEF InstanceOperation
  <2>2. trackedStatus[o] = status[o] /\ trackedPre[o] = Accessing(pre[o])
    BY <1>6 DEF trackedStatus, trackedPre
  <2>3. Tracking!Done = Done \cap PassOps
    BY DEF Tracking!Done, trackedStatus, Done
  <2>4. ASSUME NEW s, status' = [status EXCEPT ![o] = s]
        PROVE  trackedStatus' = [trackedStatus EXCEPT ![o] = s]
    BY <1>1, <1>2, <1>6, <2>4 DEF trackedStatus, Issued
  <2>5. CASE Start(o)
    <3>1. trackedStatus[o] = "issued" /\ trackedPre[o] \subseteq Tracking!Done
      BY <2>2, <2>3, <2>5 DEF Start, Triggered, Accessing
    <3>2. trackedStatus' = [trackedStatus EXCEPT ![o] = "running"]
      BY <2>4, <2>5 DEF Start
    <3>3. Tracking!Start(o)
      BY <1>3, <1>4, <3>1, <3>2 DEF Tracking!Start
    <3> QED BY <1>6, <3>3
  <2>6. CASE Finish(o)
    <3>1. trackedStatus[o] = "running"
      BY <2>2, <2>6 DEF Finish
    <3>2. trackedStatus' = [trackedStatus EXCEPT ![o] = "done"]
      BY <2>4, <2>6 DEF Finish
    <3>3. Tracking!Finish(o)
      BY <1>3, <1>4, <3>1, <3>2 DEF Tracking!Finish
    <3> QED BY <1>6, <3>3
  <2> QED BY <1>1, <2>1, <2>5, <2>6
<1> QED BY <1>5, <1>6

(***************************************************************************)
(* The controller and the runtime do with the operations that access       *)
(* tensors only what DependencyTracking allows its clients, whatever the   *)
(* program: what is proved there holds of every training run.              *)
(***************************************************************************)
THEOREM Refinement == Spec => ImplementsDependencyTracking
<1>1. Init => Tracking!Init /\ ValuesMet
  <2> SUFFICES ASSUME Init PROVE Tracking!Init /\ ValuesMet
    OBVIOUS
  <2>1. Issued = {} /\ ctl = "allocating" /\ outstanding = {} /\ deps = NewDependencySet(NoEvent)
    BY DEF Init, Issued, NoEvent
  <2>2. /\ trackedStatus = [o \in PassOps |-> "fresh"]
        /\ trackedAccess = [o \in PassOps |-> [reads |-> {}, writes |-> {}]]
        /\ trackedPeers = [o \in PassOps |-> {}]
        /\ trackedPre = [o \in PassOps |-> NoEvent]
    BY <2>1 DEF trackedStatus, trackedAccess, trackedPeers, trackedPre
  <2>3. trackedOutstanding = NoEvent
    BY <2>1 DEF trackedOutstanding, Accessing, NoEvent
  <2>4. AccessingDeps(deps) = NewDependencySet(NoEvent)
    BY <2>1, AccessingNew DEF Accessing, NoEvent
  <2>5. ValuesMet
    BY <2>1 DEF ValuesMet
  <2> QED BY <2>2, <2>3, <2>4, <2>5, SameDependencySets DEF Tracking!Init
<1>2. IInv /\ IInv' /\ ValuesMet /\ [Next]_vars => [Tracking!Next]_(Tracking!vars)
  <2> SUFFICES ASSUME IInv, IInv', ValuesMet, [Next]_vars
               PROVE  [Tracking!Next]_(Tracking!vars)
    OBVIOUS
  <2>1. CASE IssueInvocation
    BY <2>1, IssueImplements DEF Tracking!Next
  <2>2. CASE \E k \in PassKind : BeginPass(k)
    BY <2>2, BeginImplements DEF Tracking!Next
  <2>3. TrackingStutters => UNCHANGED Tracking!vars
    BY DEF TrackingStutters, Tracking!vars
  <2>4. CASE Runtime
    BY <2>3, <2>4, RuntimeImplements DEF Tracking!Next
  <2>5. CASE ~IssueInvocation /\ ~Runtime /\ \A k \in PassKind : ~BeginPass(k)
    BY <2>3, <2>5, ElsewhereStutters
  <2> QED BY <2>1, <2>2, <2>4, <2>5
<1>3. IInv /\ ValuesMet /\ [Next]_vars => ValuesMet'
  BY ValuesStep
<1> QED BY <1>1, <1>2, <1>3, Inductive, PTL DEF Spec, ImplementsDependencyTracking
==============================================================================
