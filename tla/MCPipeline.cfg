CONSTANTS
  Value <- PipelineValues
  Program <- Pipeline
  PassKind = {"all", "forward"}
  MaxPasses = 3
SPECIFICATION Spec
PROPERTIES
  EverythingCompletes
