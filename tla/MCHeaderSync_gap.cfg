SPECIFICATION FairSyncSpec
CONSTANTS
    Hash = {h1, h2, h3, h4}
    Genesis = g
    Idle = idle
    NO_ASKS_BEFORE_REMOVING = 1
    Locked = TRUE
    MAX_ASK_BLOCKS = 2
    Window = 1
    MaxLosses = 2
    MaxRepeats = 1
CHECK_DEADLOCK FALSE
INVARIANTS TreesDisjoint TreesConnected DeepestIsMax PatientEnough
PROPERTY GapCloses
