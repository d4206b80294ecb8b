CONSTANTS
    d1 = d1
    d2 = d2
    n1 = n1
    n2 = n2
    long = long
    Nothing = Nothing
    Directories = {d1, d2}
    Names = {n1, n2, long}
    TooLong = {long}
    Capacity = 3
    Buckets = {1, 2}
    Hash <- MCHash
SPECIFICATION FairSpec
INVARIANTS
    ListsAgree
PROPERTIES
    ImplementsMap
    ForgettingEnds
