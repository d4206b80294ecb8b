CONSTANTS
    MaxWord = 15
    EntriesPerBlock = 3
    MaxSectorsPerCluster = 4
    NumberOfSlots = 2
    FirstSectors <- MCFirstSectors
    Tables <- MCTables
    BootRecords <- MCBootRecords
    Nothing = Nothing
SPECIFICATION Spec
INVARIANTS
    MountedVolumesFit
    ListIsInOrder
