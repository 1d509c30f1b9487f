SPECIFICATION Spec
CONSTANTS
    l = l
    p = p
    q = q
    Node = {l, p, q}
    Leader = l
    CONCURRENCY_BLOCKS = 6
    InitialList <- OneTwoThree
    LastRound = 1
    MaxMines = 3
    Resends = 0
    Window = 2
    StrayReads = FALSE
    Lossy = FALSE
    MaxRepeats = 0
CHECK_DEADLOCK FALSE
INVARIANT EnoughVotes
