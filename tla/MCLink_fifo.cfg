SPECIFICATION FairSpec
CONSTANTS
    Script <- ThreeMessages
    MaxSessions = 2
CHECK_DEADLOCK FALSE
INVARIANTS TypeOK Aligned QueueMoves TwoWrites
PROPERTIES IsChannel Arrives
