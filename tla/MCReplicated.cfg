CONSTANTS
  Value <- ReplicatedValues
  Program <- Replicated
  PassKind = {"all", "forward", "backward", "update"}
  MaxPasses = 3
SPECIFICATION Spec
INVARIANTS
  TypeOK
  SequentialSemantics
  InstanceLifetime
  NothingPendingAtExit
PROPERTIES
  PhaseBarrier
  ImplementsDependencyTracking
