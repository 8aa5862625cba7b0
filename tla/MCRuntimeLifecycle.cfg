CONSTANTS
  Rank0 = Rank0
  Rank1 = Rank1
  Task1 = Task1
  Ranks <- TwoRanks
  Root = Rank0
  Controllers = 2
  Tasks <- OneTask
SPECIFICATION Spec
INVARIANTS TypeOK ClosureOutlivesController QuietAtShutdown RegisteredBeforeUse NoWaitAfterShutdown
PROPERTY EveryoneExits
