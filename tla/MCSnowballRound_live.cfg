SPECIFICATION FairSpec
CONSTANTS
    l = l
    p = p
    q = q
    Node = {l, p, q}
    Leader = l
    CONCURRENCY_BLOCKS = 3
    InitialList <- OneEach
    LastRound = 1
    MaxMines = 2
    Resends = 0
    Window = 1
    StrayReads = FALSE
    Lossy = FALSE
    MaxRepeats = 0
CHECK_DEADLOCK FALSE
PROPERTY RoundEnds
