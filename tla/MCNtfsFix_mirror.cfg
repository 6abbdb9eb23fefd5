SPECIFICATION Spec
CONSTANTS
    SectorCount = 2
    UsnModulus = 6
    MirrorSize = 2
    SystemRecords = {0}
    VolumeRecord = 1
    LogRecord = 1
    LastBlock = 3
    Chunks = 2
    TailWords = {1}
    Damages = {"none", "boot", "oversized", "upcase", "selfloc", "record"}
    MaxVersions = 2
    MaxFaults = 2
INVARIANT MirrorUsed
