CONSTANTS
  Value <- PipelineValues
  Program <- Pipeline
  PassKind = {"all"}
  MaxPasses = 2
SPECIFICATION LoopSpec
INVARIANT
  EpochLosses
