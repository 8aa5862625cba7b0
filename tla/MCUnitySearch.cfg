CONSTANTS
    MaxBudget = 4
    MaxOps = 4
    Kinds <- MCKinds
    Degree <- MCDegree
    Trees <- MCTrees
    Depth <- MCDepth
    TreeOf <- MCTreeOf
    PCGs <- MCPCGs
    Pcg <- MCPcg
    NoSP = NoSP
    Runtimes <- MCRuntimes
    Infinity = 1000000
    Problems <- MCProblems
SPECIFICATION Spec
INVARIANT TypeOK
INVARIANT CachedResultsAreOptimal
INVARIANT ClaimIsRealised
INVARIANT NothingFasterIsForgotten
PROPERTY ImplementsSearch
PROPERTY SearchEnds
CHECK_DEADLOCK FALSE
