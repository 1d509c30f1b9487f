SPECIFICATION Spec
CONSTANTS
    Hashes <- FiveHashes
    MinerInserts = 2
    NetworkInserts = 2
    MaxChains = 9
    Blocks = 3
    SumTime = 4
    PoolSize = 4
    BlockSize = 2
    Digits = 3
INVARIANTS Searchable LostExposed ProofBinds NotRepeated
CHECK_DEADLOCK FALSE
