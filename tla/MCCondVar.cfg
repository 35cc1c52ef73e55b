SPECIFICATION TestSpec
CONSTANTS
    main = main
    w1 = w1
    w2 = w2
    w3 = w3
    Threads <- MCThreads
    Nobody = Nobody
    IntMax <- MCIntMax
    Scenarios <- MCScenarios
    MaxSpurious = 2
INVARIANTS TypeOK LockDiscipline NoLostWakeup NoUseAfterFree
PROPERTIES ImplementsBox AllFinish ImplementsFairBox
