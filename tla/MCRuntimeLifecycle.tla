-------------------------- MODULE MCRuntimeLifecycle --------------------------
(* Two ranks, a main program with two controllers, and any one task. *)
EXTENDS RuntimeLifecycle

CONSTANTS Rank0, Rank1, Task1

TwoRanks == {Rank0, Rank1}
OneTask == {Task1}
===============================================================================
