SPECIFICATION FairSpec
CONSTANTS
    Controllers = {c1, c2}
    Volumes = {v1, v2}
    Handles = {h1, h2}
    NULL = NULL
    RefModulus = 3
    MaxMounts = 2
INVARIANTS
    InstalledIsLive
    OneValidVolume
    UnloadedLeavesNothing
    InFlightProtected
    RefCountBalance
    CountedFilesKeepVolume
PROPERTY StoppedInFlightIsFreed
