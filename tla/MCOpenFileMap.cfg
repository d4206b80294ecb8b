CONSTANTS
    t1 = t1
    t2 = t2
    e1 = e1
    e2 = e2
    f1 = f1
    f2 = f2
    v1 = v1
    Tasks = {t1, t2}
    Volumes = {v1}
    Entries = {e1, e2}
    Files = {f1, f2}
    MaxNesting = 1
    Nobody = Nobody
SYMMETRY Symmetry
SPECIFICATION Spec
INVARIANTS
    OneTaskPerVolume
    WritersExcludeOthers
    OpenFilesStay
    NobodyWaitsInACircle
