CONSTANTS
    Products = {}
    Tasks <- MCTasksRevisited
    Letters <- Lettered
    DefaultWorld <- MCDefaultWorld
    Numbered <- MCNumbered
    WalkBound = 7
    INT_MAX = 32767
    stoi <- MCStoi
    stof <- MCStof
SPECIFICATION Spec
INVARIANT FrontIsComplete
