SPECIFICATION Spec
CONSTANTS
    Keys = {1, 2, 3, 4}
    Values = {v, w}
    Priorities = {1, 2, 3}
    Hash <- MCHash
    Primes <- MCPrimes
    InitialBuckets = 2
    ThreeWay = FALSE
    NULL = NULL
    MaxSize = 6
    MaxBlocks = 13
SYMMETRY Symmetry
INVARIANTS TreesOrdered ChainsPlaced
PROPERTIES SizesExact SetsImplementTable HashMapImplementsTable MapErasesOnlyTheRoot BlocksBalance
CHECK_DEADLOCK FALSE
