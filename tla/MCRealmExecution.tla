--------------------------- MODULE MCRealmExecution ---------------------------
(* RealmExecution on small programs.                                         *)
EXTENDS RealmExecution, MCPrograms
=============================================================================
