SPECIFICATION ContainerSpec
CONSTANTS
    Objects = {a, b, c, d}
    Junk = Junk
    MaxCapacity = 8
    Nodes <- MCNodes
    Fifth = e
    Elements = {"x", "y"}
    NULL = NULL
    Chars = {"x", "y"}
    NUL = "0"
    Stale = "?"
    SsoSize = 2
    SizeMax = 16
    CStrings <- MCCStrings
    Lengths = {1, 2, 4, 15, 16}
    Iterators <- MCIterators
    MaxText = 4
SYMMETRY Symmetry
INVARIANTS BufferSafe OwnedOnce AdaptersStayInside
           ListShape AdaptersKeepTheList TextInside
PROPERTIES NeverShrunkAway CapacitySettles ImplementsSequence
           CrashExplained SizeMoves ListImplementsSequence
           CapacityMoves ImplementsText
CHECK_DEADLOCK FALSE
