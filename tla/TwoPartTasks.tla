---------------------------- MODULE TwoPartTasks ----------------------------
(***************************************************************************)
(* How the controller has values initialised on the devices that will use  *)
(* them (create_distributed_ff_handle and                                  *)
(* perform_distributed_per_device_op_state_initialization).  Realm tasks   *)
(* do not return, so a call is a pair of tasks: the init task runs on the  *)
(* device, makes the value and spawns a return task on the caller's        *)
(* processor, which stores it in a slot of the caller's memory.  The       *)
(* caller waits, copies the slots and frees them.                          *)
(*                                                                         *)
(* Only init tasks are awaited by the caller, and only their RealmContexts *)
(* know of the return tasks.  A processor runs one task at a time; a task  *)
(* that waits for an event gives its processor up until it resumes.        *)
(***************************************************************************)
CONSTANTS
  Slot,            \* the values: one per processor, or one per invocation
  Stateful,        \* those an init task is spawned for
  Borrowing,       \* those that point to memory of the task's own allocator
  Processor,       \* the processors
  ControllerProc,  \* the controller's
  TargetOf         \* the processor each value is initialised on

ASSUME CallAssumption ==
  /\ Stateful \subseteq Slot
  /\ Borrowing \subseteq Stateful
  /\ ControllerProc \in Processor
  /\ TargetOf \in [Slot -> Processor]

Nobody        == <<"nobody">>
Controller    == <<"controller">>
InitTask(s)   == <<"init", s>>
ReturnTask(s) == <<"return", s>>

VARIABLES
  ctl,     \* where the caller is
  todo,    \* the values its loop has not come to
  slot,    \* the caller's memory for each value
  init,    \* each value's init task
  ret,     \* each value's return task
  on,      \* who holds each processor
  memory,  \* what the allocator of each init task's RealmContext owns
  result   \* what the caller returns

vars == <<ctl, todo, slot, init, ret, on, memory, result>>

\* A processor is held by the tasks that were sent to it: return tasks run at
\* the origin, where the slot's address means something.
MayHold(p) ==
  {Nobody} \cup {InitTask(s) : s \in {t \in Slot : TargetOf[t] = p}}
    \cup IF p = ControllerProc THEN {Controller} \cup {ReturnTask(s) : s \in Slot} ELSE {}

TypeOK ==
  /\ ctl \in {"spawning", "waiting", "reading", "freeing", "returned"}
  /\ todo \subseteq Slot
  /\ slot \in [Slot -> {"none", "empty", "filled", "freed"}]
  /\ init \in [Slot -> {"unspawned", "spawned", "running", "waiting", "done"}]
  /\ ret \in [Slot -> {"unspawned", "spawned", "running", "done"}]
  /\ DOMAIN on = Processor /\ \A p \in Processor : on[p] \in MayHold(p)
  /\ memory \in [Slot -> {"none", "allocated", "destroyed"}]
  /\ DOMAIN result \subseteq Stateful

Init ==
  /\ ctl = "spawning"
  /\ todo = Slot
  /\ slot = [s \in Slot |-> "none"]
  /\ init = [s \in Slot |-> "unspawned"]
  /\ ret = [s \in Slot |-> "unspawned"]
  /\ on = [p \in Processor |-> IF p = ControllerProc THEN Controller ELSE Nobody]
  /\ memory = [s \in Slot |-> "none"]
  /\ result = [s \in {} |-> "none"]

-----------------------------------------------------------------------------
(* The caller *)

SpawnInit(s) ==
  /\ ctl = "spawning"
  /\ s \in todo \cap Stateful
  /\ todo' = todo \ {s}
  /\ slot' = [slot EXCEPT ![s] = "empty"]
  /\ init' = [init EXCEPT ![s] = "spawned"]
  /\ UNCHANGED <<ctl, ret, on, memory, result>>

\* No init task for this operator: its slot is deleted again.
SkipInit(s) ==
  /\ ctl = "spawning"
  /\ s \in todo \ Stateful
  /\ todo' = todo \ {s}
  /\ slot' = [slot EXCEPT ![s] = "freed"]
  /\ UNCHANGED <<ctl, init, ret, on, memory, result>>

\* The caller spins on its processor.
BeginWaitHoldingProcessor ==
  /\ ctl = "spawning" /\ todo = {}
  /\ ctl' = "waiting"
  /\ UNCHANGED <<todo, slot, init, ret, on, memory, result>>

BeginWait ==
  /\ ctl = "spawning" /\ todo = {}
  /\ ctl' = "waiting"
  /\ on' = [on EXCEPT ![ControllerProc] = Nobody]
  /\ UNCHANGED <<todo, slot, init, ret, memory, result>>

\* get_outstanding_events().wait() comes back.
EndWait ==
  /\ ctl = "waiting"
  /\ \A s \in Stateful : init[s] = "done"
  /\ on[ControllerProc] \in {Nobody, Controller}
  /\ ctl' = "reading"
  /\ on' = [on EXCEPT ![ControllerProc] = Controller]
  /\ UNCHANGED <<todo, slot, init, ret, memory, result>>

ReadSlots ==
  /\ ctl = "reading"
  /\ result' = [s \in Stateful |-> slot[s]]
  /\ ctl' = "freeing"
  /\ UNCHANGED <<todo, slot, init, ret, on, memory>>

FreeSlots ==
  /\ ctl = "freeing"
  /\ slot' = [s \in Slot |-> "freed"]
  /\ ctl' = "returned"
  /\ UNCHANGED <<todo, init, ret, on, memory, result>>

-----------------------------------------------------------------------------
(* The init task *)

StartInit(s) ==
  /\ init[s] = "spawned"
  /\ on[TargetOf[s]] = Nobody
  /\ init' = [init EXCEPT ![s] = "running"]
  /\ on' = [on EXCEPT ![TargetOf[s]] = InitTask(s)]
  /\ UNCHANGED <<ctl, todo, slot, ret, memory, result>>

MakeValue(s) ==
  memory' = [memory EXCEPT ![s] = IF s \in Borrowing THEN "allocated" ELSE "none"]

\* The task ends without waiting for the return task.
RunInitWithoutWaiting(s) ==
  /\ init[s] = "running"
  /\ MakeValue(s)
  /\ ret' = [ret EXCEPT ![s] = "spawned"]
  /\ init' = [init EXCEPT ![s] = "done"]
  /\ on' = [on EXCEPT ![TargetOf[s]] = Nobody]
  /\ UNCHANGED <<ctl, todo, slot, result>>

\* The body, down to the wait in its RealmContext's destructor.
RunInit(s) ==
  /\ init[s] = "running"
  /\ MakeValue(s)
  /\ ret' = [ret EXCEPT ![s] = "spawned"]
  /\ init' = [init EXCEPT ![s] = "waiting"]
  /\ on' = [on EXCEPT ![TargetOf[s]] = Nobody]
  /\ UNCHANGED <<ctl, todo, slot, result>>

\* The destructor's wait comes back; the allocator goes with the RealmContext
\* and destroys what it has allocated.
EndInit(s) ==
  /\ init[s] = "waiting" /\ ret[s] = "done"
  /\ on[TargetOf[s]] = Nobody
  /\ init' = [init EXCEPT ![s] = "done"]
  /\ memory' = [memory EXCEPT ![s] = IF @ = "allocated" THEN "destroyed" ELSE @]
  /\ UNCHANGED <<ctl, todo, slot, ret, on, result>>

-----------------------------------------------------------------------------
(* The return task *)

\* The return task is sent to the processor the init task ran on.
StartReturnOnTarget(s) ==
  /\ ret[s] = "spawned"
  /\ on[TargetOf[s]] = Nobody
  /\ ret' = [ret EXCEPT ![s] = "running"]
  /\ on' = [on EXCEPT ![TargetOf[s]] = ReturnTask(s)]
  /\ UNCHANGED <<ctl, todo, slot, init, memory, result>>

StartReturn(s) ==
  /\ ret[s] = "spawned"
  /\ on[ControllerProc] = Nobody
  /\ ret' = [ret EXCEPT ![s] = "running"]
  /\ on' = [on EXCEPT ![ControllerProc] = ReturnTask(s)]
  /\ UNCHANGED <<ctl, todo, slot, init, memory, result>>

FinishReturn(s) ==
  /\ ret[s] = "running"
  /\ slot' = [slot EXCEPT ![s] = "filled"]
  /\ ret' = [ret EXCEPT ![s] = "done"]
  /\ on' = [on EXCEPT ![ControllerProc] = Nobody]
  /\ UNCHANGED <<ctl, todo, init, memory, result>>

-----------------------------------------------------------------------------
Step ==
  \/ \E s \in Slot :
       \/ SpawnInit(s) \/ SkipInit(s)
       \/ StartInit(s) \/ RunInit(s) \/ EndInit(s)
       \/ StartReturn(s) \/ FinishReturn(s)
  \/ BeginWait \/ EndWait \/ ReadSlots \/ FreeSlots

\* The call is over: both kinds of task have come to their end.
Returned == ctl = "returned" /\ UNCHANGED vars

Next == Step \/ Returned

\* Realm goes on running tasks as long as one of them can run.
Spec == Init /\ [][Next]_vars /\ WF_vars(Step)

-----------------------------------------------------------------------------
\* What the caller returns is complete: every value that was initialised on
\* its device has arrived ("the caller must block for this task to complete to
\* ensure that the data is available before proceeding", tasks/impl/index.dox).
ResultComplete ==
  ctl \in {"freeing", "returned"} => result = [s \in Stateful |-> "filled"]

\* A return task that has yet to store its value finds the slot it was given in
\* place: the caller has not freed the memory the raw pointer names.
SlotOutlivesReturn ==
  \A s \in Slot : ret[s] \in {"spawned", "running"} => slot[s] = "empty"

\* The call returns: neither the caller nor an init task that shares its
\* processor keeps the return tasks from running.
CallReturns == <>(ctl = "returned")

\* per_device_op_state_init_task.cc leaks the PerDeviceOpState "to make sure this
\* doesn't get deallocated": the device memory a returned state points to is
\* still there for the operator tasks that will use it.
StateMemoryLives ==
  ctl = "returned" => \A s \in Borrowing : memory[s] = "allocated"
=============================================================================
