SPECIFICATION Spec
CONSTANTS
    main = main
    h1 = h1
    h2 = h2
    Handles <- MCHandles
    Owner <- MCOwner
    MaxCalls = 5
INVARIANTS FlagMatchesThread NoUndefinedCall ArgsOutliveTask ReleaseComplete
PROPERTIES CallsReturn
