SPECIFICATION Spec
CONSTANTS
    Names = {"a", "A", "b"}
    Upcase <- MCUpcase
    Records = {1, 2}
    LargeDirs = {0}
    MaxDepth = 2
    PathCacheSize = 2
    InodeCacheSize = 2
    Handles = {h1, h2}
    IndexOrder <- MCIndexOrder
    MaxSeq = 2
    Workloads <- MCWorkloads
INVARIANTS
    PathCacheAgrees
    InodeCacheAgrees
    HandleFindsFile
    SizeNotAhead
    BitmapCovers
    EntriesTold
SYMMETRY Symmetry
