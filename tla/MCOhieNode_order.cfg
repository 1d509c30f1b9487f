SPECIFICATION Spec
CONSTANTS
    n1 = n1
    n2 = n2
    Node = {n1, n2}
    CHAINS = 2
    T_DISCARD = 1
    Start <- Three
    Quotas <- ThreeQuotas
CHECK_DEADLOCK FALSE
INVARIANTS TypeOK OrderAgreed CommittedSettled NoRepeat
PROPERTY BarGrows
