SPECIFICATION FairSpec
CONSTANTS
    Slots = {0, 1, 2, 3}
    NULL = NULL
    Boot = 0
    Idle = 1
    MaxList = 2
    MaxTime = 2
    WAIT = WAIT
    CreatePriority = {0}
    TypedPriority = {}
    KillInCreate = FALSE
    MaxAllocated = 4
PROPERTIES NoStarvation EndedIsFreed
