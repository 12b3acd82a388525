CONSTANTS
    NObjectives = 2
    Nodes <- MCNodes
    Problems <- MCProblems
    ParetoToGo <- MCParetoToGo
SPECIFICATION Spec
INVARIANT PathsExplainCosts
\* search() returns: a state without a successor is its end.
CHECK_DEADLOCK FALSE
