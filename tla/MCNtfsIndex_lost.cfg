SPECIFICATION Spec
CONSTANTS
    Keys = {1, 2, 3, 4, 5, 6, 7, 8, 9, 10, 11, 12, 13, 14, 15, 16, 17, 18, 19, 20, 21, 22}
    KeyLength <- MCKeyLength
    VcnLength = 1
    EndLength = 2
    BlockSpace = 65
    RootSpaces = {27, 40}
    MaxBlocks = 12
    Loads <- MCSmallLoad
PROPERTY SuccessIsComplete
