---------------------------- MODULE TaskInsertion ----------------------------
(***************************************************************************)
(* The passes that add the tasks a parallel computation graph does not     *)
(* have: the loss, and one update for every weight.                        *)
(***************************************************************************)
EXTENDS DynamicGraph

CONSTANTS OptimizerSlots,   \* the tensors an optimizer keeps for a weight
          LabelTensor,      \* the guid of the label, which is no tensor of the source
          LossGuid          \* the guid of the loss, which is no layer of the source

LabelValue(logit) == [logit EXCEPT !.tensor = LabelTensor, !.grad = FALSE, !.role = "loss"]
LogitGradient(logit) == [logit EXCEPT !.role = "grad"]

LossTask(logit, lossMapping) ==
  LET WithRoleOf(v, name) == Port([Slot(name) EXCEPT !.role = v.role], v) IN
  [guid |-> LossGuid, op |-> "loss", task |-> "LOSS",
   devices |-> {}, mapping |-> lossMapping,
   ins |-> Merge(WithRoleOf(LabelValue(logit), "INPUT"), WithRoleOf(logit, "LOGIT")),
   outs |-> WithRoleOf(LogitGradient(logit), "LOGIT")]

\* The graph is not checked again once the loss is in it.
InsertLoss(g, logit, lossMapping) == g \cup {LossTask(logit, lossMapping)}

\* Mutant: the update does not read the gradient.
UpdateRolesWithoutGradient == {"fwd"} \cup OptimizerSlots

UpdateRoles == {"fwd", "grad"} \cup OptimizerSlots

UpdateTask(i) ==
  LET slot == CHOOSE s \in DOMAIN i.outs : TRUE IN
  [i EXCEPT !.task = "UPD",
            !.ins = [s \in {[slot EXCEPT !.role = r] : r \in UpdateRoles} |->
                       [i.outs[slot] EXCEPT !.role = s.role]],
            !.outs = <<>>]

WithUpdate(i) ==
  IF i.task = "FWD" /\ i.op = "weight" THEN {i, UpdateTask(i)} ELSE {i}

InsertUpdates(g) == UNION {WithUpdate(i) : i \in g}
=============================================================================
