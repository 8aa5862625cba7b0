CONSTANTS
    MaxBudget = 0
    MaxOps = 4
    Kinds <- MCKinds
    Degree <- MCDegree
    Trees <- MCTrees
    Depth <- MCDepth
    TreeOf <- MCTreeOf
    PCGs <- MCPCGs
    Pcg <- MCPcg
    NoSP = NoSP
    Runtimes <- MCRuntimes
    Infinity = 1000000
    Problems <- MCProblems
SPECIFICATION Spec
INVARIANT CannotOverlap
CHECK_DEADLOCK FALSE
