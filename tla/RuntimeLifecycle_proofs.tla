------------------------ MODULE RuntimeLifecycle_proofs ------------------------
(***************************************************************************)
(* Proofs about the runtime's life cycle, for any number of ranks,         *)
(* controllers and tasks.                                                  *)
(***************************************************************************)
EXTENDS RuntimeLifecycle, TLAPS

Stopping == {"stopping", "hanging", "exited"}

\* What a rank's main program has done so far, and what its manager's queue and
\* its shutdown request know of it.
MainInv ==
  \A r \in Ranks :
    /\ main[r] # "constructing" => registration[r] = "done"
    /\ main[r] = "constructing" => started[r] = 0
    /\ main[r] \in {"leaving"} \cup Stopping => started[r] = Controllers
    /\ main[r] \in Stopping => outstanding[r] = {} /\ request[r] = Ids
    /\ main[r] \notin Stopping => outstanding[r] = 1..started[r]
    /\ main[r] # "hanging"

\* Results are there for what was started, and released only once it is done.
ClosureInv ==
  \A r \in Ranks : \A k \in Ids :
    /\ k <= started[r] => closure[r][k] # "none"
    /\ closure[r][k] \in {"changed", "freed"} => controller[k] = "done"

\* Every task runs under a controller that was started, and which outlives it.
TaskInv ==
  \A t \in Tasks :
    /\ task[t] # "free" =>
         /\ launch[t].id \in SpawnableIds
         /\ controller[launch[t].parent] # "waiting"
         /\ controller[launch[t].parent] = "done" => task[t] = "done"
    /\ task[t] = "done" => return[t] \in {"free", "done"}

DownInv == down => \A k \in Ids : controller[k] = "done"

IInv == TypeOK /\ MainInv /\ ClosureInv /\ TaskInv /\ DownInv
-------------------------------------------------------------------------------

LEMMA IdsAreNat == Controllers \in Nat /\ Ids = 1..Controllers /\ 1 \in Ids
BY ControllersAssumption DEF Ids

LEMMA SpawnableIsRegistered ==
  ASSUME NEW id \in SpawnableIds, NEW kind \in Kinds
  PROVE  <<id, kind>> \in Registered
BY DEF SpawnableIds, Registered, RegisteredIds, RegisteredInit, RegisteredPasses,
       InitTaskIds, PassTaskIds, OpsWithInit, OpsWithTasks, Optimizers

LEMMA ReturnIsRegistered ==
  ASSUME NEW id PROVE <<ReturnTask(id), "LOC_PROC">> \in Registered
BY DEF ReturnTask, Registered

LEMMA ControllerIsRegistered == <<Controller, "LOC_PROC">> \in Registered
BY DEF Registered

LEMMA TypeStep ==
  ASSUME TypeOK, [Next]_vars
  PROVE  TypeOK'
<1> USE IdsAreNat, RootAssumption
<1>1. ASSUME NEW r \in Ranks, RegisterTasks(r) PROVE TypeOK'
  BY <1>1 DEF RegisterTasks, TypeOK, Children, Completed, mainVars, runVars, Kinds
<1>2. ASSUME NEW r \in Ranks, FinishRegistration(r) PROVE TypeOK'
  BY <1>2 DEF FinishRegistration, TypeOK, Children, Completed, mainVars, runVars, Kinds
<1>3. ASSUME NEW r \in Ranks, EndConstructor(r) PROVE TypeOK'
  BY <1>3 DEF EndConstructor, TypeOK, Children, Completed, mainVars, runVars, Kinds
<1>4. ASSUME NEW r \in Ranks, StartController(r) PROVE TypeOK'
  <2> DEFINE k == started[r] + 1
  <2>1. k \in Ids /\ started[r] \in Nat
    BY <1>4 DEF StartController, TypeOK
  <2>2. main' \in [Ranks -> {"constructing", "running", "discarding", "leaving",
                            "stopping", "hanging", "exited"}]
    BY <1>4 DEF StartController, TypeOK
  <2>3. started' \in [Ranks -> 0..Controllers] /\ \A q \in Ranks : started'[q] >= started[q]
    BY <1>4, <2>1 DEF StartController, TypeOK
  <2>4. closure' \in [Ranks -> [Ids -> {"none", "live", "changed", "freed"}]]
    <3>1. closure' = [closure EXCEPT ![r] = [closure[r] EXCEPT ![k] = "live"]]
      BY <1>4 DEF StartController
    <3>2. [closure[r] EXCEPT ![k] = "live"] \in [Ids -> {"none", "live", "changed", "freed"}]
      BY <2>1 DEF TypeOK
    <3>3. QED
      BY <3>1, <3>2 DEF TypeOK
  <2>5. waitsOn' \in [Ids -> SUBSET Ids]
    <3>1. CASE waitsOn' = waitsOn
      BY <3>1 DEF TypeOK
    <3>2. CASE \E w \in {{}, 1..(k - 1)} : waitsOn' = [waitsOn EXCEPT ![k] = w]
      BY <2>1, <3>2 DEF TypeOK
    <3>3. QED
      BY <1>4, <3>1, <3>2 DEF StartController
  <2>6. outstanding' \in [Ranks -> SUBSET Ids]
    BY <1>4, <2>1 DEF StartController, TypeOK
  <2>7. QED
    BY <1>4, <2>2, <2>3, <2>4, <2>5, <2>6 DEF StartController, TypeOK, runVars
<1>5. ASSUME NEW r \in Ranks, DiscardResult(r) PROVE TypeOK'
  BY <1>5 DEF DiscardResult, DestroyResult, TypeOK, Children, Completed, mainVars, runVars, Kinds
<1>6. ASSUME NEW r \in Ranks, LeaveScope(r) PROVE TypeOK'
  BY <1>6 DEF LeaveScope, TypeOK, Children, Completed, mainVars, runVars, Kinds
<1>7. ASSUME NEW r \in Ranks, RequestShutdown(r) PROVE TypeOK'
  BY <1>7 DEF RequestShutdown, TypeOK, Children, Completed, mainVars, runVars, Kinds
<1>8. ASSUME NEW r \in Ranks, EndManager(r) PROVE TypeOK'
  BY <1>8 DEF EndManager, TypeOK, Children, Completed, mainVars, runVars, Kinds
<1>9. ASSUME NEW r \in Ranks, NEW k \in Ids, LeaveResult(r, k) PROVE TypeOK'
  BY <1>9 DEF LeaveResult, DestroyResult, TypeOK, Children, Completed, mainVars, runVars, Kinds
<1>10. ASSUME NEW r \in Ranks, NEW k \in Ids, WaitAndChange(r, k) PROVE TypeOK'
  BY <1>10 DEF WaitAndChange, TypeOK, Children, Completed, mainVars, runVars, Kinds
<1>11. ASSUME NEW k \in Ids, BeginController(k) PROVE TypeOK'
  BY <1>11 DEF BeginController, TypeOK, Children, Completed, mainVars, runVars, Kinds
<1>12. ASSUME NEW k \in Ids, CloseController(k) PROVE TypeOK'
  BY <1>12 DEF CloseController, TypeOK, Children, Completed, mainVars, runVars, Kinds
<1>13. ASSUME NEW k \in Ids, EndController(k) PROVE TypeOK'
  BY <1>13 DEF EndController, TypeOK, Children, Completed, mainVars, runVars, Kinds
<1>14. ASSUME NEW k \in Ids, NEW t \in Tasks, ControllerSpawns(k, t) PROVE TypeOK'
  BY <1>14 DEF ControllerSpawns, TypeOK, Children, Completed, mainVars, runVars, Kinds
<1>15. ASSUME NEW t \in Tasks, BeginTask(t) PROVE TypeOK'
  BY <1>15 DEF BeginTask, TypeOK, Children, Completed, mainVars, runVars, Kinds
<1>16. ASSUME NEW t \in Tasks, CloseTask(t) PROVE TypeOK'
  BY <1>16 DEF CloseTask, TypeOK, Children, Completed, mainVars, runVars, Kinds
<1>17. ASSUME NEW t \in Tasks, BeginReturn(t) PROVE TypeOK'
  BY <1>17 DEF BeginReturn, TypeOK, Children, Completed, mainVars, runVars, Kinds
<1>18. ASSUME NEW t \in Tasks, EndReturn(t) PROVE TypeOK'
  BY <1>18 DEF EndReturn, TypeOK, Children, Completed, mainVars, runVars, Kinds
<1>19. ASSUME NEW t \in Tasks, EndTask(t) PROVE TypeOK'
  BY <1>19 DEF EndTask, TypeOK, Children, Completed, mainVars, runVars, Kinds
<1>20. ASSUME Shutdown PROVE TypeOK'
  BY <1>20 DEF Shutdown, TypeOK, Children, Completed, mainVars, runVars, Kinds
<1>21. ASSUME UNCHANGED vars PROVE TypeOK'
  BY <1>21 DEF vars, TypeOK, Children, Completed, mainVars, runVars, Kinds
<1>22. QED
  BY <1>1, <1>2, <1>3, <1>4, <1>5, <1>6, <1>7, <1>8, <1>9, <1>10, <1>11, <1>12, <1>13, <1>14, <1>15, <1>16, <1>17, <1>18, <1>19, <1>20, <1>21
     DEF Next, MainSteps, ControllerSteps, TaskSteps, Terminated

LEMMA MainStep ==
  ASSUME TypeOK, TypeOK', MainInv, ClosureInv, [Next]_vars
  PROVE  MainInv'
<1> USE IdsAreNat DEF MainInv, Stopping
<1>1. ASSUME NEW r \in Ranks, RegisterTasks(r) PROVE MainInv'
  BY <1>1 DEF RegisterTasks, TypeOK
<1>2. ASSUME NEW r \in Ranks, FinishRegistration(r) PROVE MainInv'
  BY <1>2 DEF FinishRegistration, TypeOK
<1>3. ASSUME NEW r \in Ranks, EndConstructor(r) PROVE MainInv'
  BY <1>3 DEF EndConstructor, TypeOK
<1>4. ASSUME NEW r \in Ranks, StartController(r) PROVE MainInv'
  <2>1. started[r] \in Nat /\ started' = [started EXCEPT ![r] = started[r] + 1]
    <3>1. started[r] \in Nat
      BY DEF TypeOK
    <3>2. started' = [started EXCEPT ![r] = started[r] + 1]
      BY <1>4 DEF StartController
    <3>3. QED
      BY <3>1, <3>2
  <2>2. outstanding'[r] = outstanding[r] \cup {started[r] + 1}
    BY <1>4 DEF StartController, TypeOK
  <2>3. outstanding'[r] = 1..started'[r]
    <3>1. main[r] = "running" /\ r \in DOMAIN started
      BY <1>4 DEF StartController, TypeOK
    <3>2. outstanding[r] = 1..started[r]
      BY <3>1
    <3>3. started'[r] = started[r] + 1
      BY <3>1, <2>1
    <3>4. \A n \in Nat : (1..n) \cup {n + 1} = 1..(n + 1)
      OBVIOUS
    <3>5. QED
      BY <3>2, <3>3, <3>4, <2>1, <2>2
  <2>4. \A q \in Ranks \ {r} : /\ outstanding'[q] = outstanding[q]
                              /\ started'[q] = started[q] /\ main'[q] = main[q]
    BY <1>4 DEF StartController, TypeOK
  <2>5. main[r] = "running" /\ main'[r] \in {"running", "discarding"}
    BY <1>4 DEF StartController, TypeOK
  <2>6. UNCHANGED <<registration, request>>
    BY <1>4 DEF StartController
  <2>7. QED
    BY <2>3, <2>4, <2>5, <2>6
<1>5. ASSUME NEW r \in Ranks, DiscardResult(r) PROVE MainInv'
  BY <1>5 DEF DiscardResult, TypeOK
<1>6. ASSUME NEW r \in Ranks, LeaveScope(r) PROVE MainInv'
  BY <1>6 DEF LeaveScope, TypeOK
<1>7. ASSUME NEW r \in Ranks, RequestShutdown(r) PROVE MainInv'
  BY <1>7 DEF RequestShutdown, TypeOK, ClosureInv
<1>8. ASSUME NEW r \in Ranks, EndManager(r) PROVE MainInv'
  BY <1>8 DEF EndManager, TypeOK
<1>9. ASSUME NEW r \in Ranks, NEW k \in Ids, LeaveResult(r, k) PROVE MainInv'
  BY <1>9 DEF LeaveResult, TypeOK
<1>10. ASSUME NEW r \in Ranks, NEW k \in Ids, WaitAndChange(r, k) PROVE MainInv'
  BY <1>10 DEF WaitAndChange, TypeOK
<1>11. ASSUME UNCHANGED <<main, registration, started, outstanding, request>> PROVE MainInv'
  BY <1>11
<1>12. QED
  BY <1>1, <1>2, <1>3, <1>4, <1>5, <1>6, <1>7, <1>8, <1>9, <1>10, <1>11
     DEF Next, MainSteps, ControllerSteps, TaskSteps, Terminated, vars, mainVars, Shutdown,
         BeginController, CloseController, EndController, ControllerSpawns,
         BeginTask, CloseTask, BeginReturn, EndReturn, EndTask

LEMMA ClosureStep ==
  ASSUME TypeOK, TypeOK', MainInv, ClosureInv, [Next]_vars
  PROVE  ClosureInv'
<1> USE IdsAreNat DEF ClosureInv
<1>1. ASSUME UNCHANGED <<started, closure>>, \A k \in Ids : Completed(k) => Completed(k)'
      PROVE  ClosureInv'
  BY <1>1 DEF Completed
<1>2. ASSUME NEW r \in Ranks, StartController(r) PROVE ClosureInv'
  <2>1. started[r] + 1 \in Ids /\ started[r] \in Nat /\ started' = [started EXCEPT ![r] = started[r] + 1]
    BY <1>2 DEF StartController, TypeOK
  <2>2. closure' = [closure EXCEPT ![r] = [closure[r] EXCEPT ![started[r] + 1] = "live"]]
    BY <1>2 DEF StartController
  <2>3. controller' = controller
    BY <1>2 DEF StartController, runVars
  <2>4. QED
    BY <2>1, <2>2, <2>3 DEF TypeOK
<1>3. ASSUME NEW r \in Ranks, NEW k \in Ids, DestroyResult(r, k), UNCHANGED <<started, controller>>
      PROVE  ClosureInv'
  BY <1>3 DEF DestroyResult, Completed, TypeOK
<1>4. ASSUME NEW r \in Ranks, DiscardResult(r) PROVE ClosureInv'
  <2>1. started[r] \in Ids
    BY <1>4 DEF DiscardResult, DestroyResult, TypeOK
  <2>2. QED
    BY <1>3, <1>4, <2>1 DEF DiscardResult, runVars
<1>5. ASSUME NEW r \in Ranks, NEW k \in Ids, LeaveResult(r, k) PROVE ClosureInv'
  BY <1>3, <1>5 DEF LeaveResult, runVars
<1>6. ASSUME NEW r \in Ranks, NEW k \in Ids, WaitAndChange(r, k) PROVE ClosureInv'
  BY <1>6 DEF WaitAndChange, Completed, TypeOK, runVars
<1>7. ASSUME NEW k \in Ids, ControllerSteps(k) PROVE ClosureInv'
  BY <1>1, <1>7 DEF ControllerSteps, BeginController, CloseController, EndController,
                    Completed, TypeOK, mainVars
<1>8. QED
  <2>1. CASE \E r \in Ranks : \/ RegisterTasks(r) \/ FinishRegistration(r) \/ EndConstructor(r)
                             \/ LeaveScope(r) \/ RequestShutdown(r) \/ EndManager(r)
    BY <1>1, <2>1 DEF RegisterTasks, FinishRegistration, EndConstructor, LeaveScope,
                      RequestShutdown, EndManager, Completed, runVars
  <2>2. CASE \E t \in Tasks : TaskSteps(t) \/ \E k \in Ids : ControllerSpawns(k, t)
    BY <1>1, <2>2 DEF TaskSteps, ControllerSpawns, BeginTask, CloseTask, BeginReturn,
                      EndReturn, EndTask, Completed, mainVars
  <2>3. CASE Shutdown \/ UNCHANGED vars
    BY <1>1, <2>3 DEF Shutdown, vars, mainVars, runVars, Completed
  <2>4. QED
    BY <1>2, <1>4, <1>5, <1>6, <1>7, <2>1, <2>2, <2>3 DEF Next, MainSteps, Terminated

LEMMA TaskStep ==
  ASSUME TypeOK, TypeOK', TaskInv, [Next]_vars
  PROVE  TaskInv'
<1> USE IdsAreNat DEF TaskInv
<1>1. ASSUME NEW k \in Ids, BeginController(k) PROVE TaskInv'
  BY <1>1 DEF BeginController, TypeOK, mainVars
<1>2. ASSUME NEW k \in Ids, CloseController(k) PROVE TaskInv'
  BY <1>2 DEF CloseController, TypeOK, mainVars
<1>3. ASSUME NEW k \in Ids, EndController(k) PROVE TaskInv'
  BY <1>3 DEF EndController, Children, TypeOK, mainVars
<1>4. ASSUME NEW k \in Ids, NEW t \in Tasks, ControllerSpawns(k, t) PROVE TaskInv'
  BY <1>4 DEF ControllerSpawns, TypeOK, mainVars
<1>5. ASSUME NEW t \in Tasks, BeginTask(t) PROVE TaskInv'
  BY <1>5 DEF BeginTask, TypeOK, mainVars
<1>6. ASSUME NEW t \in Tasks, CloseTask(t) PROVE TaskInv'
  BY <1>6 DEF CloseTask, TypeOK, mainVars
<1>7. ASSUME NEW t \in Tasks, BeginReturn(t) PROVE TaskInv'
  BY <1>7 DEF BeginReturn, TypeOK, mainVars
<1>8. ASSUME NEW t \in Tasks, EndReturn(t) PROVE TaskInv'
  BY <1>8 DEF EndReturn, TypeOK, mainVars
<1>9. ASSUME NEW t \in Tasks, EndTask(t) PROVE TaskInv'
  BY <1>9 DEF EndTask, TypeOK, mainVars
<1>10. ASSUME UNCHANGED runVars PROVE TaskInv'
  BY <1>10 DEF runVars
<1>11. QED
  BY <1>1, <1>2, <1>3, <1>4, <1>5, <1>6, <1>7, <1>8, <1>9, <1>10
     DEF Next, MainSteps, ControllerSteps, TaskSteps, Terminated, vars, Shutdown,
         RegisterTasks, FinishRegistration, EndConstructor, StartController, DiscardResult,
         WaitAndChange, LeaveScope, LeaveResult, RequestShutdown, EndManager

LEMMA DownStep ==
  ASSUME TypeOK, MainInv, DownInv, [Next]_vars
  PROVE  DownInv'
<1>1. ASSUME \A k \in Ids : Completed(k) => Completed(k)', UNCHANGED down PROVE DownInv'
  BY <1>1 DEF DownInv, Completed
<1>2. CASE Shutdown
  BY <1>2 DEF Shutdown, MainInv, Stopping, DownInv, Completed, runVars
<1>3. CASE \E k \in Ids : ControllerSteps(k)
  BY <1>1, <1>3 DEF ControllerSteps, BeginController, CloseController, EndController,
                    Completed, TypeOK, mainVars
<1>4. CASE UNCHANGED <<controller, down>>
  BY <1>1, <1>4 DEF Completed
<1>5. QED
  BY <1>2, <1>3, <1>4
     DEF Next, MainSteps, TaskSteps, Terminated, vars, mainVars, runVars,
         RegisterTasks, FinishRegistration, EndConstructor, StartController, DiscardResult,
         WaitAndChange, LeaveScope, LeaveResult, RequestShutdown, EndManager,
         ControllerSpawns, BeginTask, CloseTask, BeginReturn, EndReturn, EndTask
-------------------------------------------------------------------------------
\* The conjunction is inductive: what the main programs know of their
\* controllers, and what controllers and tasks know of their children.
THEOREM InductiveInvariant == Spec => []IInv
<1>1. Init => IInv
  <2> SUFFICES ASSUME Init PROVE IInv
    OBVIOUS
  <2> USE IdsAreNat, RootAssumption DEF Init
  <2>1. TypeOK
    <3>1. NoLaunch \in [id : SpawnableIds \cup {Controller}, kind : Kinds, rank : Ranks, parent : Ids]
      BY DEF NoLaunch, Kinds
    <3>2. launch \in [Tasks -> [id : SpawnableIds \cup {Controller}, kind : Kinds,
                                  rank : Ranks, parent : Ids]]
      BY <3>1
    <3>3. closure \in [Ranks -> [Ids -> {"none", "live", "changed", "freed"}]]
      OBVIOUS
    <3>4. started \in [Ranks -> 0..Controllers]
      BY ControllersAssumption
    <3>5. QED
      BY <3>2, <3>3, <3>4 DEF TypeOK
  <2>2. MainInv
    BY DEF MainInv, Stopping
  <2>3. ClosureInv
    BY DEF ClosureInv
  <2>4. TaskInv /\ DownInv
    BY DEF TaskInv, DownInv
  <2>5. QED
    BY <2>1, <2>2, <2>3, <2>4 DEF IInv
<1>2. IInv /\ [Next]_vars => IInv'
  BY TypeStep, MainStep, ClosureStep, TaskStep, DownStep DEF IInv
<1>3. QED
  BY <1>1, <1>2, PTL DEF Spec

\* The states of main programs, controllers and tasks keep their types and fit
\* together, for any number of each.
THEOREM TypeCorrect == Spec => []TypeOK
<1>1. IInv => TypeOK
  BY DEF IInv
<1>2. QED
  BY <1>1, InductiveInvariant, PTL

\* A running controller's closure is neither freed nor changed by any main program
\* (collective_spawn_controller_task, ~ControllerTaskResult).
THEOREM ClosureOutlives == Spec => []ClosureOutlivesController
<1>1. IInv => ClosureOutlivesController
  BY IdsAreNat, RootAssumption DEF IInv, TypeOK, ClosureInv, ClosureOutlivesController
<1>2. QED
  BY <1>1, InductiveInvariant, PTL

LEMMA RanksAreReady ==
  ASSUME IInv, NEW k \in Ids, controller[k] # "waiting", NEW r \in Ranks
  PROVE  registration[r] = "done"
BY IdsAreNat DEF IInv, TypeOK, MainInv

\* Nothing is in flight anywhere when the runtime goes down (~RealmManager).
THEOREM QuietShutdown == Spec => []QuietAtShutdown
<1>1. IInv => QuietAtShutdown
  BY IdsAreNat, RanksAreReady DEF IInv, TypeOK, TaskInv, DownInv, QuietAtShutdown
<1>2. QED
  BY <1>1, InductiveInvariant, PTL

\* No task runs on a rank before it is registered there, and none that is not in
\* register_all_tasks.
THEOREM Registration == Spec => []RegisteredBeforeUse
<1>1. IInv => RegisteredBeforeUse
  <2> SUFFICES ASSUME IInv PROVE RegisteredBeforeUse
    OBVIOUS
  <2>1. ASSUME NEW k \in Ids, controller[k] = "running"
        PROVE  registration[Root] = "done" /\ <<Controller, "LOC_PROC">> \in Registered
    BY <2>1, RanksAreReady, RootAssumption, ControllerIsRegistered
  <2>2. ASSUME NEW t \in Tasks, task[t] # "free"
        PROVE  /\ registration[Root] = "done" /\ registration[launch[t].rank] = "done"
               /\ <<launch[t].id, launch[t].kind>> \in Registered
    <3>1. launch[t].rank \in Ranks /\ launch[t].kind \in Kinds /\ launch[t].parent \in Ids
      BY DEF IInv, TypeOK
    <3>2. launch[t].id \in SpawnableIds /\ controller[launch[t].parent] # "waiting"
      BY <2>2 DEF IInv, TaskInv
    <3>3. QED
      BY <3>1, <3>2, RanksAreReady, RootAssumption, SpawnableIsRegistered
  <2>3. ASSUME NEW t \in Tasks, return[t] = "running" PROVE task[t] # "free"
    BY <2>3 DEF IInv, TypeOK
  <2>4. QED
    BY <2>1, <2>2, <2>3, ReturnIsRegistered DEF RegisteredBeforeUse
<1>2. QED
  BY <1>1, InductiveInvariant, PTL

\* The manager's base class finds an empty queue (~RealmManager, ~RealmContext).
THEOREM NoLateWait == Spec => []NoWaitAfterShutdown
<1>1. IInv => NoWaitAfterShutdown
  BY DEF IInv, MainInv, NoWaitAfterShutdown
<1>2. QED
  BY <1>1, InductiveInvariant, PTL
===============================================================================
