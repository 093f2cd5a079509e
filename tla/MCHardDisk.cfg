SPECIFICATION FairSpec
INVARIANTS
    TypeOK
    
    
PROPERTY LockGivenBack
CONSTANTS
    Tasks = {t1, t2}
    NoTask = none
    dwTotalSectors = 3
    ReadCounts = {1}
    WriteCounts = {1, 2}
    Versions = {1}
