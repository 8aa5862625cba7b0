--------------------------- MODULE MCTwoPartTasks ---------------------------
(***************************************************************************)
(* Four values on two processors: one initialised on the controller's own  *)
(* processor, two on the other one, of which the second borrows memory, and*)
(* one that needs no initialisation.                                       *)
(***************************************************************************)
EXTENDS TwoPartTasks

MCSlot      == {"handle", "linear", "dropout", "noop"}
MCStateful  == {"handle", "linear", "dropout"}
MCBorrowing == {"dropout"}
MCProcessor == {"cpu", "gpu"}
MCTargetOf  == [s \in MCSlot |-> IF s = "handle" THEN "cpu" ELSE "gpu"]
=============================================================================
