--------------------------- MODULE RecursiveLock ---------------------------
(***************************************************************************)
(* What both locks of Synchronization.c promise: at most one owner, who    *)
(* may take the lock again and gives it up by undoing every acquisition.   *)
(***************************************************************************)
EXTENDS Naturals

CONSTANT Owners  \* who can own the lock

VARIABLES
    holders,  \* who has the lock
    level     \* how often it has to be given back

Init == holders = {} /\ level = 0

Acquire(o) == holders = {} /\ holders' = {o} /\ level' = 1

Reenter(o) == holders = {o} /\ level' = level + 1 /\ UNCHANGED holders

Leave(o) == holders = {o} /\ level > 1 /\ level' = level - 1 /\ UNCHANGED holders

Release(o) == holders = {o} /\ level = 1 /\ holders' = {} /\ level' = 0

Next == \E o \in Owners : Acquire(o) \/ Reenter(o) \/ Leave(o) \/ Release(o)

Spec == Init /\ [][Next]_<<holders, level>>
=============================================================================
