CONSTANTS
    NObjectives = 2
    Nodes <- MCNodes
    Problems <- MCProblems
    ParetoToGo <- MCParetoToGo
SPECIFICATION FairSpec
INVARIANTS
    TypeOK
    SearchStateAgrees
    EverySolutionHasAPath
PROPERTIES
    ImplementsParetoSearch
    EventuallyReturns
\* search() returns: a state without a successor is its end.
CHECK_DEADLOCK FALSE
