CONSTANTS
    Root = Root
    c1 = c1
    c2 = c2
    Clusters = {Root, c1, c2}
    Indices = {1, 2}
    short = short
    long = long
    alias = alias
    h1 = h1
    Names = {short, long, alias}
    NewNames = {short, long}
    FileNames = {short}
    Aliases <- MCAliases
    Capacity = 2
    MaxDepth = 2
    Holders = {h1}
    MaxFaults = 1
    Nothing = Nothing
SYMMETRY Symmetry
SPECIFICATION Spec
INVARIANTS
    TypeOK
    CacheAgreesWithDevice
    ValidHandlesResolve
    IsTree
PROPERTIES
    EntriesGoToDirectories
