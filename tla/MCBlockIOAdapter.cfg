CONSTANTS
    MaxCluster = 5
    EntriesPerBlock = 4
    NumberOfFats = 2
    RootCluster = 2
    InitialTables <- MCTables
    MaxCalls = 2
SPECIFICATION FairSpec
INVARIANTS
    TypeOK
    FSInfoNeverContradictsFAT
    SuccessReachesEveryCopy
    AllocatedWasFree
    AllocatorSeesEveryFreeCluster
    PreviousAnswersAreRight
PROPERTIES
    InactiveFATsUntouched
    EveryCallReturns
    ImplementsFatTable
CHECK_DEADLOCK FALSE
