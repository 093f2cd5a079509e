SPECIFICATION FairSpec
CONSTANTS
    c0 = c0
    c1 = c1
    c2 = c2
    NoCore = NoCore
    Cores <- MCCores
    MaxNest = 2
INVARIANTS TypeOK OwnerUndisturbed
PROPERTIES FlagRestored WaiterGetsIn ImplementsLock
