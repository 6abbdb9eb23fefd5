SPECIFICATION Spec
CONSTANTS
    NrClusters = 10
    MftLcn = 3
    MftZoneStart = 3
    MftZoneEnd = 5
    ByteBits = 4
    BSize = 2
    Skip = 1
    f1 = f1
    f2 = f2
    d1 = d1
    d2 = d2
    Files <- MCFiles
    Solid <- MCSolid
    Values <- MCValues
    ValuesOf <- MCValuesOf
    Zero = Zero
    Stale = Stale
    Bad = Bad
    Absent = Absent
    ClusterSize = 2
    MaxSize = 5
    Reserved <- MCReserved
    InitialRecs <- MCInitialRecs
    MaxCalls = 3
INVARIANTS
    OwnedOnce
    
    RecordsSound
PROPERTY
    ImplementsFileStore
