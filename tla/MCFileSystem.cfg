SPECIFICATION Spec
INVARIANTS
    TypeOK
    ChainsApart
    
    HandleKnowsItsPlace
CONSTRAINT NotBroken
SYMMETRY Symmetry
CONSTANTS
    Tasks = {t1, t2}
    NoTask = none
    Names = {f, g}
    NoName = noName
    dwTotalClusterCount = 4
    LinksPerSector = 3
    ClusterSize = 2
    MaxEntries = 2
    MaxHandles = 2
    MaxSize = 5
    Counts = {2}
    Offsets <- MCOffsets
    Fails = TRUE
