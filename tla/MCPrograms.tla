------------------------------ MODULE MCPrograms ------------------------------
(* Small training programs in execution order, as the lowering of a mapped   *)
(* graph produces them.                                                      *)

Inv(op, task, ins, outs, stateful) ==
  [op |-> op, task |-> task, ins |-> ins, outs |-> outs, stateful |-> stateful]

\* A replicated weight with one loss per replica: a broadcast, two tasks that
\* run in parallel, a reduction of the gradients.
ReplicatedValues == {"w", "r1", "r2", "d1", "d2", "dw"}
Replicated ==
  << Inv("weight",    "FWD",  {},           {"w"},        FALSE),
     Inv("replicate", "FWD",  {"w"},        {"r1", "r2"}, FALSE),
     Inv("loss",      "LOSS", {"r1"},       {"d1"},       FALSE),
     Inv("loss",      "LOSS", {"r2"},       {"d2"},       FALSE),
     Inv("replicate", "BWD",  {"d1", "d2"}, {"dw"},       FALSE),
     Inv("weight",    "UPD",  {"w", "dw"},  {},           FALSE) >>

\* One linear layer on one device and the loss on another, with the copies of
\* the activation and of its gradient between them.
PipelineValues == {"in", "w", "a", "ax", "label", "dax", "da", "dw"}
Pipeline ==
  << Inv("input",   "FWD",  {},                      {"in"},  FALSE),
     Inv("weight",  "FWD",  {},                      {"w"},   FALSE),
     Inv("compute", "FWD",  {"in", "w"},             {"a"},   TRUE),
     Inv("copy",    "none", {"a"},                   {"ax"},  FALSE),
     Inv("loss",    "LOSS", {"label", "ax"},         {"dax"}, FALSE),
     Inv("copy",    "none", {"dax"},                 {"da"},  FALSE),
     Inv("compute", "BWD",  {"in", "w", "a", "da"},  {"dw"},  TRUE),
     Inv("weight",  "UPD",  {"w", "dw"},             {},      FALSE) >>
=============================================================================
