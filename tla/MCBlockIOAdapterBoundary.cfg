CONSTANTS
    MaxCluster = 7
    EntriesPerBlock = 4
    NumberOfFats = 2
    RootCluster = 2
    InitialTables <- MCTables
    MaxCalls = 1
SPECIFICATION Spec
INVARIANTS
    AllocatorSeesEveryFreeCluster
CHECK_DEADLOCK FALSE
