--------------------------- MODULE RuntimeLifecycle ---------------------------
(***************************************************************************)
(* The life of the runtime on all ranks of the machine: the main program   *)
(* constructs a RealmManager, starts controllers and destroys it again.    *)
(*                                                                         *)
(* All ranks run the same main program.  Starting a controller is          *)
(* collective: one task, on the root rank, starts when every rank has      *)
(* asked for it, and it uses the root's closure.  A task runs its body in  *)
(* a RealmContext, whose destructor waits for what the body has spawned    *)
(* before the task completes.                                              *)
(***************************************************************************)
EXTENDS OperatorTasks, FiniteSets

CONSTANTS Ranks, Root,
          Controllers,   \* how many controllers the main program starts
          Tasks          \* identities of the tasks controllers spawn: a bound

ASSUME RootAssumption == Root \in Ranks
ASSUME ControllersAssumption == Controllers \in Nat \ {0}

VARIABLES main,         \* what the main program of a rank is doing
          registration, \* of a rank's tasks
          started,      \* number of controllers a rank has started
          closure,      \* of each controller on each rank: arguments, captured data
          waitsOn,      \* the controllers whose completion controller k waits for
          outstanding,  \* the controllers in the queue of a rank's manager
          request,      \* the controllers a rank's shutdown waits for
          down,         \* the runtime has been shut down
          controller,   \* state of each controller
          task,         \* state of each task
          launch,       \* the id, processor kind, rank and parent of a spawned task
          return        \* state of each task's return task

mainVars == <<main, registration, started, closure, waitsOn, outstanding, request, down>>
runVars == <<controller, task, launch, return>>
vars == <<mainVars, runVars>>

Ids == 1..Controllers

NoLaunch == [id |-> Controller, kind |-> "LOC_PROC", rank |-> Root, parent |-> 1]

Init ==
  /\ main = [r \in Ranks |-> "constructing"]
  /\ registration = [r \in Ranks |-> "none"]
  /\ started = [r \in Ranks |-> 0]
  /\ closure = [r \in Ranks |-> [k \in Ids |-> "none"]]
  /\ waitsOn = [k \in Ids |-> {}]
  /\ outstanding = [r \in Ranks |-> {}]
  /\ request = [r \in Ranks |-> {}]
  /\ down = FALSE
  /\ controller = [k \in Ids |-> "waiting"]
  /\ task = [t \in Tasks |-> "free"]
  /\ launch = [t \in Tasks |-> NoLaunch]
  /\ return = [t \in Tasks |-> "free"]
-------------------------------------------------------------------------------
\* The manager's constructor: the runtime's init, then the registration of the
\* tasks, which it waits for.

RegisterTasks(r) ==
  /\ main[r] = "constructing" /\ registration[r] = "none"
  /\ registration' = [registration EXCEPT ![r] = "pending"]
  /\ UNCHANGED <<main, started, closure, waitsOn, outstanding, request, down, runVars>>

FinishRegistration(r) ==
  /\ registration[r] = "pending"
  /\ registration' = [registration EXCEPT ![r] = "done"]
  /\ UNCHANGED <<main, started, closure, waitsOn, outstanding, request, down, runVars>>

\* Mutant: the registration is not waited for.
EndConstructorEarly(r) ==
  /\ main[r] = "constructing" /\ registration[r] # "none"
  /\ main' = [main EXCEPT ![r] = "running"]
  /\ UNCHANGED <<registration, started, closure, waitsOn, outstanding, request, down, runVars>>

EndConstructor(r) ==
  /\ main[r] = "constructing" /\ registration[r] = "done"
  /\ main' = [main EXCEPT ![r] = "running"]
  /\ UNCHANGED <<registration, started, closure, waitsOn, outstanding, request, down, runVars>>

\* The caller may discard the result, whose destructor then runs at once.
StartController(r) ==
  LET k == started[r] + 1 IN
  /\ main[r] = "running" /\ k <= Controllers
  /\ started' = [started EXCEPT ![r] = k]
  /\ closure' = [closure EXCEPT ![r][k] = "live"]
  /\ outstanding' = [outstanding EXCEPT ![r] = @ \cup {k}]
  /\ main' \in {[main EXCEPT ![r] = "running"], [main EXCEPT ![r] = "discarding"]}
  /\ waitsOn' \in IF \E q \in Ranks \ {r} : started[q] >= k THEN {waitsOn}
                  ELSE {[waitsOn EXCEPT ![k] = w] : w \in {{}, 1..(k - 1)}}
  /\ UNCHANGED <<registration, request, down, runVars>>

Completed(k) == controller[k] = "done"

\* Mutant: the arguments are freed without waiting.
DestroyResultEarly(r, k) ==
  /\ closure[r][k] \in {"live", "changed"}
  /\ closure' = [closure EXCEPT ![r][k] = "freed"]

\* The destructor of a result waits and frees the arguments.
DestroyResult(r, k) ==
  /\ closure[r][k] \in {"live", "changed"} /\ Completed(k)
  /\ closure' = [closure EXCEPT ![r][k] = "freed"]

DiscardResult(r) ==
  /\ main[r] = "discarding"
  /\ DestroyResult(r, started[r])
  /\ main' = [main EXCEPT ![r] = "running"]
  /\ UNCHANGED <<registration, started, waitsOn, outstanding, request, down, runVars>>

\* wait(), after which the caller may change what the closure has captured.
WaitAndChange(r, k) ==
  /\ main[r] = "running" /\ closure[r][k] = "live" /\ Completed(k)
  /\ closure' = [closure EXCEPT ![r][k] = "changed"]
  /\ UNCHANGED <<main, registration, started, waitsOn, outstanding, request, down, runVars>>

\* At the end of its scope results are destroyed, last one first, each before the
\* data its closure captured.
LeaveScope(r) ==
  /\ main[r] = "running" /\ started[r] = Controllers
  /\ main' = [main EXCEPT ![r] = "leaving"]
  /\ UNCHANGED <<registration, started, closure, waitsOn, outstanding, request, down, runVars>>

LeaveResult(r, k) ==
  /\ main[r] = "leaving"
  /\ \A j \in Ids : j > k => closure[r][j] = "freed"
  /\ DestroyResult(r, k)
  /\ UNCHANGED <<main, registration, started, waitsOn, outstanding, request, down, runVars>>

\* Mutant: the merged event is put back into the queue.
RequestShutdownPuttingBack(r) ==
  /\ main[r] = "leaving" /\ \A k \in Ids : closure[r][k] = "freed"
  /\ request' = [request EXCEPT ![r] = outstanding[r]]
  /\ main' = [main EXCEPT ![r] = "stopping"]
  /\ UNCHANGED <<registration, started, closure, waitsOn, outstanding, down, runVars>>

\* Mutant: the shutdown is waited for before it is requested.
RequestShutdownAfterwards(r) ==
  /\ main[r] = "leaving" /\ \A k \in Ids : closure[r][k] = "freed" /\ down
  /\ request' = [request EXCEPT ![r] = outstanding[r]]
  /\ outstanding' = [outstanding EXCEPT ![r] = {}]
  /\ main' = [main EXCEPT ![r] = "stopping"]
  /\ UNCHANGED <<registration, started, closure, waitsOn, down, runVars>>

\* The manager's destructor merges and clears its queue.
RequestShutdown(r) ==
  /\ main[r] = "leaving" /\ \A k \in Ids : closure[r][k] = "freed"
  /\ request' = [request EXCEPT ![r] = outstanding[r]]
  /\ outstanding' = [outstanding EXCEPT ![r] = {}]
  /\ main' = [main EXCEPT ![r] = "stopping"]
  /\ UNCHANGED <<registration, started, closure, waitsOn, down, runVars>>

\* wait_for_shutdown; then the base class waits for a queue that is not empty.
EndManager(r) ==
  /\ main[r] = "stopping" /\ down
  /\ main' = [main EXCEPT ![r] = IF outstanding[r] = {} THEN "exited" ELSE "hanging"]
  /\ UNCHANGED <<registration, started, closure, waitsOn, outstanding, request, down, runVars>>

\* The first request whose event has triggered takes the whole machine down.
Shutdown ==
  /\ ~down
  /\ \E r \in Ranks : main[r] = "stopping" /\ \A k \in request[r] : Completed(k)
  /\ down' = TRUE
  /\ UNCHANGED <<main, registration, started, closure, waitsOn, outstanding, request, runVars>>
-------------------------------------------------------------------------------
BeginController(k) ==
  /\ controller[k] = "waiting"
  /\ \A r \in Ranks : started[r] >= k
  /\ \A j \in waitsOn[k] : Completed(j)
  /\ controller' = [controller EXCEPT ![k] = "running"]
  /\ UNCHANGED <<mainVars, task, launch, return>>

ControllerSpawns(k, t) ==
  /\ controller[k] = "running" /\ task[t] = "free"
  /\ \E id \in SpawnableIds, kind \in Kinds, rank \in Ranks :
       launch' = [launch EXCEPT ![t] = [id |-> id, kind |-> kind, rank |-> rank, parent |-> k]]
  /\ task' = [task EXCEPT ![t] = "spawned"]
  /\ UNCHANGED <<mainVars, controller, return>>

\* The thunk returns, and the controller's context is destroyed.
CloseController(k) ==
  /\ controller[k] = "running"
  /\ controller' = [controller EXCEPT ![k] = "closing"]
  /\ UNCHANGED <<mainVars, task, launch, return>>

\* What the context of a controller has spawned.
Children(k) == {t \in Tasks : task[t] # "free" /\ launch[t].parent = k}

EndController(k) ==
  /\ controller[k] = "closing"
  /\ \A t \in Children(k) : task[t] = "done"
  /\ controller' = [controller EXCEPT ![k] = "done"]
  /\ UNCHANGED <<mainVars, task, launch, return>>

BeginTask(t) ==
  /\ task[t] = "spawned"
  /\ task' = [task EXCEPT ![t] = "running"]
  /\ UNCHANGED <<mainVars, controller, launch, return>>

\* Mutant: every task is taken for an initialisation task.
CloseTaskReturning(t) ==
  /\ task[t] = "running"
  /\ task' = [task EXCEPT ![t] = "closing"]
  /\ return' = [return EXCEPT ![t] = "spawned"]
  /\ UNCHANGED <<mainVars, controller, launch>>

\* The last thing the body of an initialisation task does is to spawn the return
\* task, on the controller's processor.
CloseTask(t) ==
  /\ task[t] = "running"
  /\ task' = [task EXCEPT ![t] = "closing"]
  /\ return' = IF launch[t].id[1] = "INIT" THEN [return EXCEPT ![t] = "spawned"] ELSE return
  /\ UNCHANGED <<mainVars, controller, launch>>

BeginReturn(t) ==
  /\ return[t] = "spawned"
  /\ return' = [return EXCEPT ![t] = "running"]
  /\ UNCHANGED <<mainVars, controller, task, launch>>

EndReturn(t) ==
  /\ return[t] = "running"
  /\ return' = [return EXCEPT ![t] = "done"]
  /\ UNCHANGED <<mainVars, controller, task, launch>>

\* Mutant: a task's context does not wait for what its body has spawned.
EndTaskEarly(t) ==
  /\ task[t] = "closing"
  /\ task' = [task EXCEPT ![t] = "done"]
  /\ UNCHANGED <<mainVars, controller, launch, return>>

EndTask(t) ==
  /\ task[t] = "closing" /\ return[t] \in {"free", "done"}
  /\ task' = [task EXCEPT ![t] = "done"]
  /\ UNCHANGED <<mainVars, controller, launch, return>>
-------------------------------------------------------------------------------
MainSteps(r) ==
  \/ RegisterTasks(r) \/ EndConstructor(r) \/ StartController(r) \/ DiscardResult(r)
  \/ LeaveScope(r) \/ RequestShutdown(r) \/ EndManager(r)
  \/ \E k \in Ids : LeaveResult(r, k)

ControllerSteps(k) == BeginController(k) \/ CloseController(k) \/ EndController(k)

TaskSteps(t) ==
  BeginTask(t) \/ CloseTask(t) \/ BeginReturn(t) \/ EndReturn(t) \/ EndTask(t)

Terminated == (\A r \in Ranks : main[r] = "exited") /\ UNCHANGED vars

Next ==
  \/ \E r \in Ranks : \/ MainSteps(r) \/ FinishRegistration(r)
                       \/ \E k \in Ids : WaitAndChange(r, k)
  \/ \E k \in Ids : ControllerSteps(k) \/ \E t \in Tasks : ControllerSpawns(k, t)
  \/ \E t \in Tasks : TaskSteps(t)
  \/ Shutdown \/ Terminated

\* Main programs, thunks and tasks make progress, and so does the runtime; nobody
\* has to wait explicitly, or to spawn anything.
Fairness ==
  /\ \A r \in Ranks : WF_vars(MainSteps(r)) /\ WF_vars(FinishRegistration(r))
  /\ \A k \in Ids : WF_vars(ControllerSteps(k))
  /\ \A t \in Tasks : WF_vars(TaskSteps(t))
  /\ WF_vars(Shutdown)

Spec == Init /\ [][Next]_vars /\ Fairness
-------------------------------------------------------------------------------
\* Main programs, controllers and tasks are in states they can be in together: a
\* controller that is not waiting was started by every rank, a return task exists
\* only for an initialisation task whose body is over.
TypeOK ==
  /\ main \in [Ranks -> {"constructing", "running", "discarding", "leaving", "stopping",
                         "hanging", "exited"}]
  /\ registration \in [Ranks -> {"none", "pending", "done"}]
  /\ started \in [Ranks -> 0..Controllers]
  /\ closure \in [Ranks -> [Ids -> {"none", "live", "changed", "freed"}]]
  /\ waitsOn \in [Ids -> SUBSET Ids]
  /\ outstanding \in [Ranks -> SUBSET Ids]
  /\ request \in [Ranks -> SUBSET Ids]
  /\ down \in BOOLEAN
  /\ controller \in [Ids -> {"waiting", "running", "closing", "done"}]
  /\ task \in [Tasks -> {"free", "spawned", "running", "closing", "done"}]
  /\ launch \in [Tasks -> [id : SpawnableIds \cup {Controller}, kind : Kinds,
                            rank : Ranks, parent : Ids]]
  /\ return \in [Tasks -> {"free", "spawned", "running", "done"}]
  /\ \A k \in Ids : controller[k] # "waiting" => \A r \in Ranks : started[r] >= k
  /\ \A t \in Tasks : return[t] # "free" =>
                       task[t] \in {"closing", "done"} /\ launch[t].id[1] = "INIT"

\* Until its context is destroyed, a controller finds its arguments and what its
\* thunk has captured as they were when it was started, on the one rank whose
\* closure it uses, whatever the main programs of all ranks do with their results.
ClosureOutlivesController ==
  \A k \in Ids : controller[k] \in {"running", "closing"} => closure[Root][k] = "live"

\* Nothing is in flight when the first rank takes the runtime down: no controller,
\* no task and no return task on any rank, and no rank is still registering.
QuietAtShutdown ==
  down =>
    /\ \A k \in Ids : controller[k] = "done"
    /\ \A t \in Tasks : task[t] \in {"free", "done"} /\ return[t] \in {"free", "done"}
    /\ \A r \in Ranks : registration[r] = "done"

\* A task runs only where its rank has registered it for the kind of processor:
\* although a rank registers for itself alone, no task ever gets there too early,
\* and whatever id dispatch gives an operator is in the list of the registered ones.
RegisteredBeforeUse ==
  LET Runs(id, kind, rank) ==
        registration[rank] = "done" /\ <<id, kind>> \in Registered
  IN /\ \A k \in Ids : controller[k] = "running" => Runs(Controller, "LOC_PROC", Root)
     /\ \A t \in Tasks :
          /\ task[t] = "running" => Runs(launch[t].id, launch[t].kind, launch[t].rank)
          /\ return[t] = "running" => Runs(ReturnTask(launch[t].id), "LOC_PROC", Root)

\* Once the runtime is down no destructor waits for an event any more.
NoWaitAfterShutdown == \A r \in Ranks : main[r] # "hanging"

\* Every rank's main program ends.
EveryoneExits == <>(\A r \in Ranks : main[r] = "exited")
===============================================================================
