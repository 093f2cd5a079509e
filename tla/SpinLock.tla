------------------------------ MODULE SpinLock ------------------------------
(***************************************************************************)
(* The kernel spinlock: SPINLOCK, kLockForSpinLock and                     *)
(* kUnlockForSpinLock of 02.Kernel64/Source/Synchronization.c.             *)
(*                                                                         *)
(* Every core runs the two functions one memory access at a time and the   *)
(* accesses of different cores interleave.  Within one core the functions  *)
(* turn interrupts off first, so a core is one thread of control: a timer  *)
(* or keyboard handler that uses the lock is the same core calling it with *)
(* its interrupt flag already clear (SetInterruptFlag).                    *)
(***************************************************************************)
EXTENDS Naturals

CONSTANTS
    Cores,    \* the local APIC IDs kGetAPICID can return
    NoCore,   \* 0xFF, the bAPICID of a lock nobody owns
    MaxNest   \* bound: how deep a core nests the same lock

ASSUME CoresAssumption == NoCore \notin Cores
ASSUME NestAssumption  == MaxNest \in Nat \ {0}

VARIABLES
    bLockFlag, dwLockCount, bAPICID, bInterruptFlag,  \* the SPINLOCK structure
    irqOn,   \* RFLAGS.IF of each core
    tmp,     \* the local bInterruptFlag of the call in progress
    pc,      \* where the core is inside the two functions
    depth,   \* the lock calls the core has not yet undone
    entryIF  \* history: irqOn when the core's outermost lock call began

data  == <<dwLockCount, bAPICID, bInterruptFlag>>
local == <<irqOn, tmp, depth, entryIF>>
vars  == <<bLockFlag, data, local, pc>>

\* kInitializeSpinLock; before the first use every core runs its own code.
Init ==
    /\ bLockFlag = FALSE /\ dwLockCount = 0
    /\ bAPICID = NoCore /\ bInterruptFlag = FALSE
    /\ irqOn \in [Cores -> BOOLEAN] /\ entryIF = irqOn
    /\ tmp = [c \in Cores |-> FALSE]
    /\ pc = [c \in Cores |-> "client"]
    /\ depth = [c \in Cores |-> 0]

Goto(c, from, to) == pc[c] = from /\ pc' = [pc EXCEPT ![c] = to]

\* Outside the lock a core's interrupt flag changes freely: an interrupt
\* arrives or returns, or the code calls kSetInterruptFlag.
SetInterruptFlag(c) ==
    /\ pc[c] = "client" /\ depth[c] = 0
    /\ irqOn' = [irqOn EXCEPT ![c] = ~@]
    /\ UNCHANGED <<bLockFlag, data, tmp, pc, depth, entryIF>>

\* bInterruptFlag = kSetInterruptFlag(FALSE), which opens both functions.
DisableInterrupt(c) ==
    /\ tmp' = [tmp EXCEPT ![c] = irqOn[c]]
    /\ irqOn' = [irqOn EXCEPT ![c] = FALSE]

-----------------------------------------------------------------------------
\* Faulty variants of the steps below: each is a slip the two functions could
\* contain, and substituting it for the step breaks one of the properties.

\* bLockFlag is not volatile: the inner loop never looks at it again.
LockSpinCached(c) == pc[c] = "spin" /\ FALSE

\* The interrupt flag is saved in the structure before the lock is won.
LockEnterSavesEarly(c) ==
    /\ depth[c] < MaxNest
    /\ Goto(c, "client", "tas")
    /\ DisableInterrupt(c)
    /\ bInterruptFlag' = irqOn[c]
    /\ entryIF' = [entryIF EXCEPT ![c] = IF depth[c] = 0 THEN irqOn[c] ELSE @]
    /\ UNCHANGED <<bLockFlag, dwLockCount, bAPICID, depth>>

\* A nested call forgets to count itself.
LockNestedUncounted(c) ==
    /\ Goto(c, "increment", "client")
    /\ depth' = [depth EXCEPT ![c] = @ + 1]
    /\ UNCHANGED <<bLockFlag, data, irqOn, tmp, entryIF>>

\* The test dwLockCount > 1 is lost.
UnlockNestedUnguarded(c) ==
    /\ Goto(c, "uCount", "client")
    /\ dwLockCount' = dwLockCount - 1
    /\ depth' = [depth EXCEPT ![c] = @ - 1]
    /\ UNCHANGED <<bLockFlag, bAPICID, bInterruptFlag, irqOn, tmp, entryIF>>

-----------------------------------------------------------------------------
\* kLockForSpinLock

LockEnter(c) ==
    /\ depth[c] < MaxNest
    /\ Goto(c, "client", "tas")
    /\ DisableInterrupt(c)
    /\ entryIF' = [entryIF EXCEPT ![c] = IF depth[c] = 0 THEN irqOn[c] ELSE @]
    /\ UNCHANGED <<bLockFlag, data, depth>>

\* kTestAndSet(&bLockFlag, 0, 1): a locked cmpxchg, one atomic step.
TestAndSet(c, from, lost) ==
    /\ bLockFlag' = TRUE
    /\ Goto(c, from, IF bLockFlag THEN lost ELSE "setCount")
    /\ UNCHANGED <<data, local>>

LockFirstTry(c) == TestAndSet(c, "tas", "checkOwner")

\* The lock is taken: by this core?
LockCheckOwner(c) ==
    /\ Goto(c, "checkOwner", IF bAPICID = c THEN "increment" ELSE "retas")
    /\ UNCHANGED <<bLockFlag, data, local>>

LockNested(c) ==
    /\ Goto(c, "increment", "client")
    /\ dwLockCount' = dwLockCount + 1
    /\ depth' = [depth EXCEPT ![c] = @ + 1]
    /\ UNCHANGED <<bLockFlag, bAPICID, bInterruptFlag, irqOn, tmp, entryIF>>

LockRetry(c) == TestAndSet(c, "retas", "spin")

\* The inner loop reads bLockFlag until it sees it clear.
LockSpin(c) ==
    /\ ~bLockFlag
    /\ Goto(c, "spin", "retas")
    /\ UNCHANGED <<bLockFlag, data, local>>

\* The new owner fills in the structure, field by field.
LockSetCount(c) ==
    /\ Goto(c, "setCount", "setOwner")
    /\ dwLockCount' = 1
    /\ UNCHANGED <<bLockFlag, bAPICID, bInterruptFlag, local>>

LockSetOwner(c) ==
    /\ Goto(c, "setOwner", "saveFlag")
    /\ bAPICID' = c
    /\ UNCHANGED <<bLockFlag, dwLockCount, bInterruptFlag, local>>

LockSaveFlag(c) ==
    /\ Goto(c, "saveFlag", "client")
    /\ bInterruptFlag' = tmp[c]
    /\ depth' = [depth EXCEPT ![c] = 1]
    /\ UNCHANGED <<bLockFlag, dwLockCount, bAPICID, irqOn, tmp, entryIF>>

-----------------------------------------------------------------------------
\* kUnlockForSpinLock.  A core may also call it without owning the lock: the
\* function then changes nothing.

UnlockEnter(c) ==
    /\ Goto(c, "client", "uCheckFlag")
    /\ DisableInterrupt(c)
    /\ UNCHANGED <<bLockFlag, data, depth, entryIF>>

UnlockCheck(c) ==
    /\ \/ Goto(c, "uCheckFlag", IF bLockFlag THEN "uCheckOwner" ELSE "uStray")
       \/ Goto(c, "uCheckOwner", IF bAPICID = c THEN "uCount" ELSE "uStray")
    /\ UNCHANGED <<bLockFlag, data, local>>

UnlockStray(c) ==
    /\ Goto(c, "uStray", "client")
    /\ irqOn' = [irqOn EXCEPT ![c] = tmp[c]]
    /\ UNCHANGED <<bLockFlag, data, tmp, depth, entryIF>>

\* Giving back a nested acquisition leaves interrupts off.
UnlockNested(c) ==
    /\ dwLockCount > 1
    /\ Goto(c, "uCount", "client")
    /\ dwLockCount' = dwLockCount - 1
    /\ depth' = [depth EXCEPT ![c] = @ - 1]
    /\ UNCHANGED <<bLockFlag, bAPICID, bInterruptFlag, irqOn, tmp, entryIF>>

\* bInterruptFlag = pstSpinLock->bInterruptFlag, before the field is cleared.
UnlockLoadFlag(c) ==
    /\ dwLockCount <= 1
    /\ Goto(c, "uCount", "uClearOwner")
    /\ tmp' = [tmp EXCEPT ![c] = bInterruptFlag]
    /\ UNCHANGED <<bLockFlag, data, irqOn, depth, entryIF>>

UnlockClearOwner(c) ==
    /\ Goto(c, "uClearOwner", "uClearRest")
    /\ bAPICID' = NoCore
    /\ UNCHANGED <<bLockFlag, dwLockCount, bInterruptFlag, local>>

\* Only the owner looks at these two fields: one step for both.
UnlockClearRest(c) ==
    /\ Goto(c, "uClearRest", "uRelease")
    /\ dwLockCount' = 0 /\ bInterruptFlag' = FALSE
    /\ UNCHANGED <<bLockFlag, bAPICID, local>>

UnlockRelease(c) ==
    /\ Goto(c, "uRelease", "uRestore")
    /\ bLockFlag' = FALSE
    /\ UNCHANGED <<data, local>>

UnlockRestore(c) ==
    /\ Goto(c, "uRestore", "client")
    /\ irqOn' = [irqOn EXCEPT ![c] = tmp[c]]
    /\ depth' = [depth EXCEPT ![c] = 0]
    /\ UNCHANGED <<bLockFlag, data, tmp, entryIF>>

-----------------------------------------------------------------------------
LockCode(c) ==
    \/ LockFirstTry(c) \/ LockCheckOwner(c) \/ LockNested(c) \/ LockRetry(c)
    \/ LockSpin(c) \/ LockSetCount(c) \/ LockSetOwner(c) \/ LockSaveFlag(c)

UnlockCode(c) ==
    \/ UnlockCheck(c) \/ UnlockStray(c) \/ UnlockNested(c) \/ UnlockLoadFlag(c)
    \/ UnlockClearOwner(c) \/ UnlockClearRest(c) \/ UnlockRelease(c)
    \/ UnlockRestore(c)

Next == \E c \in Cores :
    \/ SetInterruptFlag(c) \/ LockEnter(c) \/ UnlockEnter(c)
    \/ LockCode(c) \/ UnlockCode(c)

Spec == Init /\ [][Next]_vars

\* A core never stops inside the two functions (they run with interrupts
\* off), and no critical section of the kernel is endless: a core that owns
\* the lock calls unlock as often as it called lock.
Fairness == \A c \in Cores :
    /\ WF_vars(LockCode(c) \/ UnlockCode(c))
    /\ WF_vars(depth[c] > 0 /\ UnlockEnter(c))
    /\ SF_vars(depth[c] = 1 /\ UnlockEnter(c))

FairSpec == Spec /\ Fairness

-----------------------------------------------------------------------------
\* Properties

Labels == {"client", "tas", "checkOwner", "increment", "retas", "spin",
           "setCount", "setOwner", "saveFlag", "uCheckFlag", "uCheckOwner",
           "uStray", "uCount", "uClearOwner", "uClearRest", "uRelease",
           "uRestore"}

\* Every variable has its type: the fields of SPINLOCK and the flags and
\* program points of the cores.
TypeOK ==
    /\ bLockFlag \in BOOLEAN
    /\ dwLockCount \in Nat
    /\ bAPICID \in Cores \cup {NoCore}
    /\ bInterruptFlag \in BOOLEAN
    /\ irqOn \in [Cores -> BOOLEAN]
    /\ tmp \in [Cores -> BOOLEAN]
    /\ pc \in [Cores -> Labels]
    /\ depth \in [Cores -> Nat]
    /\ entryIF \in [Cores -> BOOLEAN]

\* The core is between a winning kTestAndSet and the store that frees the lock.
Holds(c) ==
    \/ pc[c] \in {"setCount", "setOwner", "saveFlag"}
    \/ depth[c] > 0 /\ pc[c] # "uRestore"

\* Two cores never own the lock at the same time, whatever the interleaving
\* of kLockForSpinLock, its nested calls and kUnlockForSpinLock.
MutualExclusion == \A c, d \in Cores : Holds(c) /\ Holds(d) => c = d

\* A core that owns the lock runs with interrupts off all the way, so no
\* handler of its own can break into the critical section, and the nesting
\* count it will unwind is the number of its open lock calls.
OwnerUndisturbed == \A c \in Cores :
    depth[c] > 0 /\ pc[c] = "client" =>
        ~irqOn[c] /\ bAPICID = c /\ dwLockCount = depth[c]

\* The unlock that ends the outermost section gives the core back exactly the
\* interrupt flag it had when it called lock, though other cores saved and
\* cleared the one shared bInterruptFlag field in between.
FlagRestored == [][\A c \in Cores :
    depth[c] > 0 /\ depth'[c] = 0 => irqOn'[c] = entryIF[c]]_vars

\* A taken lock is given back, and a free lock some core is waiting for is
\* taken: no core ends up spinning on a lock it owns itself, no release is lost,
\* and the waiters do not all miss it.
WaiterGetsIn ==
    /\ bLockFlag ~> ~bLockFlag
    /\ (~bLockFlag /\ \E c \in Cores : pc[c] \in {"retas", "spin"}) ~> bLockFlag

\* The lock as its users see it: who holds it, and how often.
holders == {c \in Cores : Holds(c)}
level == IF holders = {} THEN 0
         ELSE LET c == CHOOSE c \in holders : TRUE
              IN  IF depth[c] = 0 THEN 1 ELSE depth[c]

Lock == INSTANCE RecursiveLock WITH Owners <- Cores

\* No two cores own the lock, and seen from outside the two functions are one
\* atomic recursive lock: it is taken by the winning kTestAndSet and free again
\* when bLockFlag is cleared, a nested call only counts, and a stray unlock does
\* nothing.
ImplementsLock == Lock!Spec
=============================================================================
