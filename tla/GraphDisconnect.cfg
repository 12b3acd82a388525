CONSTANTS
    Edges = {e1, e2}
    MaxNode = 2
    MaxConnections = 3
    Garbage = {0}
SPECIFICATION SpecWithDisconnect
INVARIANT AssertionHolds
