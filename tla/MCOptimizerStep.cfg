CONSTANTS
  Value <- PipelineValues
  Program <- Pipeline
  PassKind = {"all"}
  MaxPasses = 1
SPECIFICATION Spec
INVARIANT
  OptimizerStepsUpdateWeights
