SPECIFICATION FairSpec
CONSTANTS
    Entries <- MCEntries
    Sessions <- MCSessions
    Irqs = {0, 1}
    Divisor = 2
    Hurried = FALSE
    MaxEdges <- MCMaxEdges
INVARIANTS TypeOK  FairShare
 
CHECK_DEADLOCK FALSE
