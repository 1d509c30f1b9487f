SPECIFICATION Spec
CONSTANTS
    l = l
    p = p
    q = q
    Node = {l, p}
    Leader = l
    CONCURRENCY_BLOCKS = 3
    InitialList <- Empty
    LastRound = 1
    MaxMines = 3
    Resends = 1
    Window = 1
    StrayReads = TRUE
    Lossy = TRUE
    MaxRepeats = 1
CHECK_DEADLOCK FALSE
INVARIANTS TypeOK SlotsKept NotOvercounted NoCrash
