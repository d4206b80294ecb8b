CONSTANTS
    f1 = f1
    NoFile = NoFile
    Files = {f1}
    MaxCluster = 4
    BytesPerCluster = 2
    MaxFileSize = 4
    MaxLength = 3
    Mirrored = TRUE
    MaxFaults = 2
    MaxOpen = 1
    AppendModes = {TRUE, FALSE}
    SeekTargets = {0, 3}
SPECIFICATION FairSpec
PROPERTIES
    EveryCallReturns
