SPECIFICATION Spec
CONSTANTS
    Slots = {0, 1, 2, 3}
    NULL = NULL
    Boot = 0
    Idle = 1
    MaxList = 2
    MaxTime = 1
    WAIT = WAIT
    CreatePriority = {1}
    TypedPriority = {0}
    KillInCreate = FALSE
    MaxAllocated = 4
INVARIANTS TypeOK   ChildrenExact
