CONSTANTS
    Products <- FewProducts
    CacheSizes = {1, 2}
    Uses <- BothWays
SPECIFICATION Spec
INVARIANT AssertionHolds
CHECK_DEADLOCK FALSE
