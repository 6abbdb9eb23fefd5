SPECIFICATION FairSpec
CONSTANTS
    Files = {f1, f2, f3}
    Dirs = {f3}
    Special = {f2}
    MaxSize = 2
    MaxChanges = 1
    MaxStarts = 2
INVARIANTS
    EndMeansAllReturned
    InOrder
PROPERTIES
    ImplementsIterator
    ReadingEnds
