SPECIFICATION Spec
CONSTANTS
    l = l
    p = p
    q = q
    Node = {l, p}
    Leader = l
    CONCURRENCY_BLOCKS = 3
    InitialList <- PeerTwo
    LastRound = 2
    MaxMines = 3
    Resends = 0
    Window = 1
    StrayReads = TRUE
    Lossy = TRUE
    MaxRepeats = 0
CHECK_DEADLOCK FALSE
INVARIANTS HistoryComplete WaitingNotFull FullImpliesWon
