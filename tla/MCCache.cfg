SPECIFICATION Spec
INVARIANT TypeOK
PROPERTIES
    ImplementsStore
    LeastRecentlyUsedGoes
CONSTANTS
    WordSize = 8
    MaxCount = 2
    dwClusterLinkAreaSize = 3
    dwTotalSectors = 6
    Versions = {"used"}
