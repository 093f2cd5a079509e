------------------------------- MODULE Mutex -------------------------------
(***************************************************************************)
(* The mutex: MUTEX, kLock and kUnlock of Synchronization.c, which guard   *)
(* the file system, the hard disk and the serial port.                     *)
(*                                                                         *)
(* It leaves interrupts on, so tasks are switched between any two memory   *)
(* accesses and a task can be killed anywhere in the two functions or in   *)
(* the section they guard; nothing gives the mutex back for it.            *)
(***************************************************************************)
EXTENDS Naturals

CONSTANTS
    Tasks,    \* the task IDs
    NoTask,   \* TASK_INVALIDID
    MaxNest   \* bound: how deep a task nests the mutex

ASSUME TasksAssumption == NoTask \notin Tasks
ASSUME NestAssumption  == MaxNest \in Nat \ {0}

VARIABLES
    bLockFlag, dwLockCount, qwTaskID,  \* the MUTEX structure
    pc,      \* where the task is inside the two functions
    depth,   \* the kLock calls the task has not yet undone
    ended    \* the tasks that were killed

data == <<dwLockCount, qwTaskID>>
vars == <<bLockFlag, data, pc, depth, ended>>

\* kInitializeMutex; no task uses it yet.
Init ==
    /\ bLockFlag = FALSE /\ dwLockCount = 0 /\ qwTaskID = NoTask
    /\ pc = [t \in Tasks |-> "client"]
    /\ depth = [t \in Tasks |-> 0]
    /\ ended = {}

\* A step of the task t, which the scheduler runs.
Goto(t, from, to) ==
    /\ t \notin ended /\ UNCHANGED ended
    /\ pc[t] = from /\ pc' = [pc EXCEPT ![t] = to]

-----------------------------------------------------------------------------
\* kLock

LockEnter(t) ==
    /\ depth[t] < MaxNest
    /\ Goto(t, "client", "tas")
    /\ UNCHANGED <<bLockFlag, data, depth>>

\* kTestAndSet(&bLockFlag, 0, 1)
TestAndSet(t, from, lost) ==
    /\ bLockFlag' = TRUE
    /\ Goto(t, from, IF bLockFlag THEN lost ELSE "setCount")
    /\ UNCHANGED <<data, depth>>

LockFirstTry(t) == TestAndSet(t, "tas", "checkOwner")

\* The mutex is locked: by this task?
LockCheckOwner(t) ==
    /\ Goto(t, "checkOwner", IF qwTaskID = t THEN "increment" ELSE "retas")
    /\ UNCHANGED <<bLockFlag, data, depth>>

LockNested(t) ==
    /\ Goto(t, "increment", "client")
    /\ dwLockCount' = dwLockCount + 1
    /\ depth' = [depth EXCEPT ![t] = @ + 1]
    /\ UNCHANGED <<bLockFlag, qwTaskID>>

\* The waiting task calls kSchedule and tries again.
LockRetry(t) == TestAndSet(t, "retas", "retas")

LockSetCount(t) ==
    /\ Goto(t, "setCount", "setOwner")
    /\ dwLockCount' = 1
    /\ UNCHANGED <<bLockFlag, qwTaskID, depth>>

LockSetOwner(t) ==
    /\ Goto(t, "setOwner", "client")
    /\ qwTaskID' = t
    /\ depth' = [depth EXCEPT ![t] = 1]
    /\ UNCHANGED <<bLockFlag, dwLockCount>>

-----------------------------------------------------------------------------
\* kUnlock, also called by tasks that do not own the mutex: kSeekFile gives it
\* back twice on some paths.

UnlockEnter(t) ==
    /\ Goto(t, "client", "uCheckFlag")
    /\ UNCHANGED <<bLockFlag, data, depth>>

UnlockCheck(t) ==
    /\ \/ Goto(t, "uCheckFlag", IF bLockFlag THEN "uCheckOwner" ELSE "client")
       \/ Goto(t, "uCheckOwner", IF qwTaskID = t THEN "uCount" ELSE "client")
    /\ UNCHANGED <<bLockFlag, data, depth>>

\* Faulty: the test dwLockCount > 1 is the wrong way round by one.
UnlockCountOffByOne(t) ==
    \/ /\ dwLockCount > 0
       /\ Goto(t, "uCount", "client")
       /\ dwLockCount' = dwLockCount - 1
       /\ depth' = [depth EXCEPT ![t] = @ - 1]
       /\ UNCHANGED <<bLockFlag, qwTaskID>>
    \/ /\ dwLockCount = 0
       /\ Goto(t, "uCount", "uClearOwner")
       /\ UNCHANGED <<bLockFlag, data, depth>>

UnlockCount(t) ==
    \/ /\ dwLockCount > 1
       /\ Goto(t, "uCount", "client")
       /\ dwLockCount' = dwLockCount - 1
       /\ depth' = [depth EXCEPT ![t] = @ - 1]
       /\ UNCHANGED <<bLockFlag, qwTaskID>>
    \/ /\ dwLockCount <= 1
       /\ Goto(t, "uCount", "uClearOwner")
       /\ UNCHANGED <<bLockFlag, data, depth>>

\* Faulty: the flag is cleared first, the structure after it.
UnlockClearOwnerLate(t) ==
    /\ Goto(t, "uClearOwner", "uClearCount")
    /\ qwTaskID' = NoTask /\ bLockFlag' = FALSE
    /\ UNCHANGED <<dwLockCount, depth>>

UnlockClearOwner(t) ==
    /\ Goto(t, "uClearOwner", "uClearCount")
    /\ qwTaskID' = NoTask
    /\ UNCHANGED <<bLockFlag, dwLockCount, depth>>

UnlockClearCount(t) ==
    /\ Goto(t, "uClearCount", "uRelease")
    /\ dwLockCount' = 0
    /\ UNCHANGED <<bLockFlag, qwTaskID, depth>>

UnlockRelease(t) ==
    /\ Goto(t, "uRelease", "client")
    /\ bLockFlag' = FALSE
    /\ depth' = [depth EXCEPT ![t] = 0]
    /\ UNCHANGED data

-----------------------------------------------------------------------------
\* kEndTask of Task.c, for a task anywhere in its code: it is not run again.
Kill(t) ==
    /\ t \notin ended
    /\ ended' = ended \cup {t}
    /\ UNCHANGED <<bLockFlag, data, pc, depth>>

LockCode(t) ==
    \/ LockFirstTry(t) \/ LockCheckOwner(t) \/ LockNested(t) \/ LockRetry(t)
    \/ LockSetCount(t) \/ LockSetOwner(t)

UnlockCode(t) ==
    \/ UnlockCheck(t) \/ UnlockCount(t) \/ UnlockClearOwner(t)
    \/ UnlockClearCount(t) \/ UnlockRelease(t)

Next == \E t \in Tasks :
    LockEnter(t) \/ LockCode(t) \/ UnlockEnter(t) \/ UnlockCode(t) \/ Kill(t)

Spec == Init /\ [][Next]_vars

\* The scheduler runs every ready task again and again (NoStarvation of
\* Scheduler), so a task that lives gets on with its code, and no section the
\* mutex guards is endless: its owner unlocks as often as it locked.
Fairness == \A t \in Tasks :
    /\ WF_vars(LockCode(t) \/ UnlockCode(t))
    /\ WF_vars(depth[t] > 0 /\ UnlockEnter(t))
    /\ SF_vars(depth[t] = 1 /\ UnlockEnter(t))

FairSpec == Spec /\ Fairness

-----------------------------------------------------------------------------
\* Properties

Labels == {"client", "tas", "checkOwner", "increment", "retas", "setCount",
           "setOwner", "uCheckFlag", "uCheckOwner", "uCount", "uClearOwner",
           "uClearCount", "uRelease"}

\* Every variable has its type: the fields of MUTEX and what the tasks do.
TypeOK ==
    /\ bLockFlag \in BOOLEAN
    /\ dwLockCount \in Nat
    /\ qwTaskID \in Tasks \cup {NoTask}
    /\ pc \in [Tasks -> Labels]
    /\ depth \in [Tasks -> Nat]
    /\ ended \in SUBSET Tasks

\* The task is between a winning kTestAndSet and the store that frees the
\* mutex; a killed task stays where it was.
Holds(t) == pc[t] \in {"setCount", "setOwner"} \/ depth[t] > 0

\* Two tasks never have the mutex at the same time, killed ones included,
\* wherever in kLock and kUnlock they are switched.
MutualExclusion == \A t, u \in Tasks : Holds(t) /\ Holds(u) => t = u

\* While a task has the mutex, the structure names it and counts its open
\* calls, so its last kUnlock and no earlier one frees the mutex.
OwnerKnown == \A t \in Tasks :
    depth[t] > 0 /\ pc[t] = "client" => qwTaskID = t /\ dwLockCount = depth[t]

\* The mutex is given back in the end, unless a task was killed holding it:
\* then it is locked for ever, for kEndTask knows of no mutexes.
OnlyKilledKeepIt ==
    bLockFlag ~> (~bLockFlag \/ \E t \in ended : Holds(t))

\* The mutex as its users see it: who has it, and how often.
holders == {t \in Tasks : Holds(t)}
level == IF holders = {} THEN 0
         ELSE LET t == CHOOSE t \in holders : TRUE
              IN  IF depth[t] = 0 THEN 1 ELSE depth[t]

Lock == INSTANCE RecursiveLock WITH Owners <- Tasks

\* No two tasks have the mutex, and seen from outside kLock and kUnlock are one
\* atomic recursive lock.
ImplementsLock == Lock!Spec
=============================================================================
