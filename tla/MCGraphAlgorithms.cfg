CONSTANTS
    SmallSize = 3
    DagSize = 4
    FlowSize = 5
    Graphs <- MCGraphs
SPECIFICATION SpSpec
INVARIANT VerdictIsRight
INVARIANT OrderIsTopological
INVARIANT TreesDenoteTheGraph
INVARIANT GivesUpOnlyWithoutDecomposition
PROPERTY DecompositionAnswers
CHECK_DEADLOCK FALSE
