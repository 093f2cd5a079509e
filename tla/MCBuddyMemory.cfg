SPECIFICATION Spec
CONSTANTS
    t1 = t1
    t2 = t2
    Tasks = {t1, t2}
    iBlockCountOfSmallestBlock = 6
    Sizes = {0, 3, 9}
    qwStartAddress = 1
    WordSize = 21
SYMMETRY Symmetry
INVARIANTS
    TypeOK
    EveryBlockOnce
PROPERTIES
    RefusedOnlyWithoutRoom
