CONSTANTS
    Products <- MCProducts
    CacheSizes = {1, 2}
    Uses <- OneWay
SPECIFICATION Spec
INVARIANTS
    TypeOK
    AnswersExact
    NumberingAgrees
    AssertionHolds
PROPERTY
    ImplementsProductGraph
