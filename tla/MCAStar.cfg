CONSTANTS
    Nodes <- MCNodes
    Problems <- MCProblems
    CostToGo <- MCCostToGo
SPECIFICATION FairSpec
INVARIANTS
    TypeOK
    InsertedScoreNotBelowLabel
    TreeBoundsLabels
    NoLabelForgotten
    PathExplainsCost
PROPERTIES
    ImplementsOptimalSearch
    EventuallyReturns
\* search() returns: a state without a successor is its end.
CHECK_DEADLOCK FALSE
