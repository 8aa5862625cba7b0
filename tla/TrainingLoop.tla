----------------------------- MODULE TrainingLoop -----------------------------
(***************************************************************************)
(* The training loop of the end-to-end test, which the documentation shows *)
(* as the example of how to use the backend: in every epoch it dispatches  *)
(* all passes and then copies the loss tensor on the controller's          *)
(* processor.  It passes NO_EVENT as the event to wait for and does not    *)
(* look at the events the dispatch returned.                               *)
(***************************************************************************)
EXTENDS RealmExecution

VARIABLE losses   \* loss_values: what each copy found in the loss tensor

LossTensor ==
  CHOOSE v \in Value : \E i \in Position :
    Program[i].task = "LOSS" /\ v \in Program[i].outs

LoopInit == Init /\ losses = <<>>

EpochDone == Len(losses) = pass

DispatchEpoch ==
  /\ EpochDone
  /\ BeginPass("all")
  /\ UNCHANGED losses

ReadLoss ==
  /\ ctl = "idle" /\ ~EpochDone
  /\ losses' = Append(losses, mem[LossTensor])
  /\ UNCHANGED vars

LeaveLoop ==
  /\ EpochDone /\ pass = MaxPasses
  /\ DestroyInstances
  /\ UNCHANGED losses

Elsewhere ==
  /\ \/ AllocateInstances \/ SpawnInitTasks \/ InitTasksDone
     \/ IssueInvocation \/ EndPass \/ CloseContext
     \/ Runtime \/ Terminated
  /\ UNCHANGED losses

LoopNext == DispatchEpoch \/ ReadLoss \/ LeaveLoop \/ Elsewhere

LoopSpec == LoopInit /\ [][LoopNext]_<<vars, losses>>

\* The comparison "that each sample in the batch has a lower loss in last epoch
\* than the first epoch" compares losses of those epochs: what the loop keeps
\* for an epoch was computed in that epoch.
EpochLosses ==
  \A k \in 1..Len(losses) : \A o \in losses[k] : o[2] = k
=============================================================================
