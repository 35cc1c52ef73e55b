SPECIFICATION Spec
CONSTANTS
    Keys = {1, 2, 3, 4}
    Values = {v, w}
    Priorities = {1, 2, 3}
    Hash <- MCHash
    Primes <- MCPrimes
    InitialBuckets = 2
    ThreeWay = TRUE
    NULL = NULL
    MaxSize = 6
    MaxBlocks = 13
PROPERTIES InsertedIsFound
CHECK_DEADLOCK FALSE
