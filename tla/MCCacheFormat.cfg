SPECIFICATION Spec
INVARIANT BootRecordKept
CONSTANTS
    WordSize = 8
    MaxCount = 2
    dwClusterLinkAreaSize = 3
    dwTotalSectors = 6
    Versions = {"used"}
