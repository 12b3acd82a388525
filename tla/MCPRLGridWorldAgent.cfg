CONSTANTS
    Products <- MCProducts
    DefaultMean <- MCDefaultMean
    ExplorationBonus <- MCBonus
    THREAD_COUNT = 2
    Entropies = {0, 1}
    CompletedTasksHorizon = 1
    Noise <- MCNoise
    CommandLines <- MCCommandLines
    Worlds <- MCWorlds
    INT_MAX = 32767
    stoi <- MCStoi
    stof <- MCStof
SPECIFICATION Spec
INVARIANTS
    TypeOK
    StepsAreVisits
    BooksBalance
    InstancesChain
    EveryInstanceDoesItsTasks
    RegretIsExact
    SamplesAreAllAveraged
    AnswersFollowTheCommandLine
PROPERTIES
    EvaluationsEnd
