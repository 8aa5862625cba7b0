------------------------ MODULE TwoPartTasks_proofs ------------------------
(***************************************************************************)
(* The result of a two-part call is complete, and its slots outlive the    *)
(* return tasks, for any number of values and processors and wherever the  *)
(* values are initialised.                                                 *)
(***************************************************************************)
EXTENDS TwoPartTasks, TLAPS

\* Where the caller is fixes what its loop has left, what has come to an end and
\* what it has copied.
CallerProgress ==
  /\ ctl # "spawning" => todo = {}
  /\ ctl \in {"reading", "freeing", "returned"} =>
       \A s \in Stateful : init[s] = "done"
  /\ ctl \in {"freeing", "returned"} => result = [s \in Stateful |-> "filled"]

\* How far a value's return task can be, given its init task.
InOrder(s) ==
  /\ init[s] = "unspawned" <=> s \in todo \/ s \notin Stateful
  /\ init[s] \in {"unspawned", "spawned", "running"} <=> ret[s] = "unspawned"
  /\ init[s] = "done" => ret[s] = "done"

\* A slot is empty from the init task's spawning to the return task's end, and
\* filled from then on until the caller has read it.
SlotOf(s) ==
  /\ init[s] # "unspawned" /\ ret[s] # "done" => slot[s] = "empty"
  /\ ret[s] = "done" /\ ctl # "returned" => slot[s] = "filled"

IInv ==
  /\ TypeOK
  /\ CallerProgress
  /\ \A s \in Slot : InOrder(s) /\ SlotOf(s)

\* The initial states satisfy the invariant.
LEMMA InitIInv == Init => IInv
BY CallAssumption
   DEF Init, IInv, TypeOK, CallerProgress, InOrder, SlotOf, MayHold,
       Nobody, Controller

\* Every action of the caller preserves the invariant.
LEMMA CallerIInv ==
  ASSUME IInv,
         \/ \E s \in Slot : SpawnInit(s) \/ SkipInit(s)
         \/ BeginWait \/ EndWait \/ ReadSlots \/ FreeSlots
  PROVE  IInv'
<1> USE CallAssumption
<1>1. ASSUME NEW s \in Slot, SpawnInit(s) PROVE IInv'
  BY <1>1 DEF SpawnInit, IInv, TypeOK, CallerProgress, InOrder, SlotOf, MayHold
<1>2. ASSUME NEW s \in Slot, SkipInit(s) PROVE IInv'
  BY <1>2 DEF SkipInit, IInv, TypeOK, CallerProgress, InOrder, SlotOf, MayHold
<1>3. CASE BeginWait
  BY <1>3 DEF BeginWait, IInv, TypeOK, CallerProgress, InOrder, SlotOf, MayHold
<1>4. CASE EndWait
  BY <1>4 DEF EndWait, IInv, TypeOK, CallerProgress, InOrder, SlotOf, MayHold
<1>5. CASE ReadSlots
  <2>1. \A s \in Stateful : slot[s] = "filled"
    BY <1>5 DEF ReadSlots, IInv, CallerProgress, InOrder, SlotOf
  <2>2. result' = [s \in Stateful |-> "filled"]
    BY <1>5, <2>1 DEF ReadSlots
  <2>3. QED
    BY <1>5, <2>2 DEF ReadSlots, IInv, TypeOK, CallerProgress, InOrder, SlotOf, MayHold
<1>6. CASE FreeSlots
  BY <1>6 DEF FreeSlots, IInv, TypeOK, CallerProgress, InOrder, SlotOf, MayHold
<1>7. QED
  BY <1>1, <1>2, <1>3, <1>4, <1>5, <1>6

\* Every action of an init task preserves the invariant.
LEMMA InitTaskIInv ==
  ASSUME IInv, NEW s \in Slot, StartInit(s) \/ RunInit(s) \/ EndInit(s)
  PROVE  IInv'
<1> USE CallAssumption
<1>1. CASE StartInit(s)
  BY <1>1 DEF StartInit, IInv, TypeOK, CallerProgress, InOrder, SlotOf, MayHold
<1>2. CASE RunInit(s)
  BY <1>2 DEF RunInit, MakeValue, IInv, TypeOK, CallerProgress, InOrder, SlotOf, MayHold
<1>3. CASE EndInit(s)
  BY <1>3 DEF EndInit, IInv, TypeOK, CallerProgress, InOrder, SlotOf, MayHold
<1>4. QED
  BY <1>1, <1>2, <1>3

\* Every action of a return task preserves the invariant: it runs while its init
\* task waits, so the caller is still waiting, too.
LEMMA ReturnTaskIInv ==
  ASSUME IInv, NEW s \in Slot, StartReturn(s) \/ FinishReturn(s)
  PROVE  IInv'
<1> USE CallAssumption
<1>1. CASE StartReturn(s)
  BY <1>1 DEF StartReturn, IInv, TypeOK, CallerProgress, InOrder, SlotOf, MayHold
<1>2. CASE FinishReturn(s)
  <2>1. init[s] = "waiting"
    BY <1>2 DEF FinishReturn, IInv, TypeOK, InOrder
  <2>2. ctl \in {"spawning", "waiting"}
    BY <2>1 DEF IInv, TypeOK, CallerProgress, InOrder
  <2>3. QED
    BY <1>2, <2>1, <2>2
       DEF FinishReturn, IInv, TypeOK, CallerProgress, InOrder, SlotOf, MayHold
<1>3. QED
  BY <1>1, <1>2

\* The inductive invariant holds in every reachable state.
THEOREM InductiveInvariant == Spec => []IInv
<1>1. IInv /\ [Next]_vars => IInv'
  <2> SUFFICES ASSUME IInv, [Next]_vars PROVE IInv'
    OBVIOUS
  <2>1. CASE Step
    BY <2>1, CallerIInv, InitTaskIInv, ReturnTaskIInv DEF Step
  <2>2. CASE UNCHANGED vars
    BY <2>2 DEF vars, IInv, TypeOK, CallerProgress, InOrder, SlotOf, MayHold
  <2>3. QED
    BY <2>1, <2>2 DEF Next, Returned
<1>2. QED
  BY InitIInv, <1>1, PTL DEF Spec

\* Every task runs where it was sent, return tasks at the caller's processor.
THEOREM TypeCorrect == Spec => []TypeOK
BY InductiveInvariant, PTL DEF IInv

\* The caller returns only values that have arrived, and all of them.
THEOREM Complete == Spec => []ResultComplete
<1>1. IInv => ResultComplete
  BY DEF IInv, CallerProgress, ResultComplete
<1>2. QED
  BY InductiveInvariant, <1>1, PTL

\* No return task stores through a pointer to a freed slot.
THEOREM SlotsOutliveReturns == Spec => []SlotOutlivesReturn
<1>1. IInv => SlotOutlivesReturn
  BY DEF IInv, TypeOK, InOrder, SlotOf, SlotOutlivesReturn
<1>2. QED
  BY InductiveInvariant, <1>1, PTL
=============================================================================
