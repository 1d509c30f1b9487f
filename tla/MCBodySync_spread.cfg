SPECIFICATION FairSpec
CONSTANTS
    n1 = n1
    n2 = n2
    n3 = n3
    Node = {n1, n2, n3}
    Link <- Row
    Block = {1, 2}
    Genesis = 0
    INTERVAL = 2
    MAX_WAIT = 2
    MAX_ASK_NON_FULL_IN_ONE_GO = 1
    Miners = {n1}
    Window = 1
    MaxLosses = 1
    MaxRepeats = 1
CHECK_DEADLOCK FALSE
INVARIANTS TypeOK Chased OneBody
PROPERTIES Spreads Obtained
