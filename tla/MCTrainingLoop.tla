---------------------------- MODULE MCTrainingLoop ----------------------------
(* The training loop on small programs.                                      *)
EXTENDS TrainingLoop, MCPrograms
=============================================================================
