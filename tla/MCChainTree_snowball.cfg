SPECIFICATION Spec
CONSTANTS
    Hash = {h1, h2, h3}
    Genesis = g
    Idle = idle
    NO_ASKS_BEFORE_REMOVING = 1
    Locked = FALSE
SYMMETRY Symmetry
INVARIANTS TypeOK  NonFullTracked
PROPERTY KeptUntilGivenUp
