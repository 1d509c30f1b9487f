SPECIFICATION FairSpec
CONSTANTS
    me = me
    p = p
    Me = me
    Peer = {p}
    CONCURRENCY_BLOCKS = 2
    LastRound = 3
    MaxHeard = 4
CHECK_DEADLOCK FALSE
INVARIANTS MinerStopped OneLateAnnouncement
PROPERTY StartStops
