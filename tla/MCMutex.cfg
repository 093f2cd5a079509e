SPECIFICATION FairSpec
CONSTANTS
    t0 = t0
    t1 = t1
    t2 = t2
    NoTask = NoTask
    Tasks <- MCTasks
    MaxNest = 2
PROPERTIES OnlyKilledKeepIt ImplementsLock
CHECK_DEADLOCK FALSE
