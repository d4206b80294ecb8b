CONSTANTS
    X = X
    long = long
    plain = plain
    NoName = NoName
    NoObject = NoObject
    o1 = o1
    SlotsPerCluster = 3
    MaxClusters = 3
    Bases = {X}
    ShortNames <- MCShortNames
    LongNames <- MCLongNames
    Parts <- MCParts
    Base <- MCBase
    NeedsTail <- MCNeedsTail
    Objects = {o1}
    Mirrored = FALSE
    MaxFaults = 1
SPECIFICATION Spec
INVARIANT
    NoEntryOnFreeCluster
