SPECIFICATION Spec
CONSTANTS
    k1 = k1
    k2 = k2
    k3 = k3
    k4 = k4
    Keys <- MCKeys
    ItemCount = 3
    Hashes <- MCHashes
    Hash <- MCHash
    NULL = NULL
    MallocFails = TRUE
INVARIANT UncacheableIsHarmless
