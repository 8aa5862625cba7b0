CONSTANTS
  MaxLayers = 4
  Gpus <- MCGpus
  LabelTensor = LabelTensor
  LossGuid = LossGuid
  CopyGuid = CopyGuid
  OptimizerSlots = {"momentum"}
  SourceGraphs <- SmallGraphs
SPECIFICATION Spec
INVARIANTS TypeOK AbortsExactly DataflowPreserved LocalAccess UpdatesComeLast EveryShardRuns LabelReachesLoss
