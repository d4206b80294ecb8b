CONSTANTS
    f1 = f1
    f2 = f2
    NoFile = NoFile
    Files = {f1, f2}
    MaxCluster = 5
    BytesPerCluster = 2
    MaxFileSize = 4
    MaxLength = 3
    Mirrored = FALSE
    MaxFaults = 1
    MaxOpen = 2
    AppendModes = {FALSE}
    SeekTargets = {0, 3}
SPECIFICATION Spec
SYMMETRY Symmetry
INVARIANTS
    TypeOK
    NoLinkToFreeCluster
    NoCrossLinks
    EveryByteInPlace
    NothingLeaks
    HandlesKnowTheirEntry
    AppendStartsAtTheEnd
PROPERTIES
    StoredBytesSurvive
