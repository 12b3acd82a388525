CONSTANTS
    NObjectives = 2
    Nodes <- MCNodes
    Problems <- MCProblems
    ParetoToGo <- MCParetoToGo
SPECIFICATION FairSpec
INVARIANT
    PathsExplainCosts
PROPERTIES
    ImplementsParetoSearch
    EventuallyReturns
\* search() returns: a state without a successor is its end.
CHECK_DEADLOCK FALSE
