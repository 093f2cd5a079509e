--------------------------- MODULE ProtocolProofs ---------------------------
(***************************************************************************)
(* Proofs about the protocols between cores, between tasks and over the    *)
(* serial line: SpinLock and Mutex, for every set of cores or tasks and    *)
(* every nesting bound, and SerialDownload, for every size of the FIFO and *)
(* of the length, every set of files and every number of tries.            *)
(*                                                                         *)
(* MutualExclusion, the owner's field and the two facts about interrupts   *)
(* are not inductive: IInv, and for the mutex MutexIInv, add what a core's *)
(* or a task's program point says of the shared structure.                 *)
(*                                                                         *)
(* For the download everything rests on what is behind the acknowledge-    *)
(* ments: while the two are in step, there is one on the line exactly when *)
(* the sender waits and all it sent has been taken.  For that the receiver *)
(* must recognise the end of a block from its own count alone, which it    *)
(* can because blocks begin at multiples of Block.                         *)
(*                                                                         *)
(* The mutex is the instance M, whose bLockFlag, dwLockCount, pc and depth *)
(* go by the names of the spinlock's; no statement is about both locks.    *)
(* M!TasksAssumption is a hypothesis, because tlapm does not take the      *)
(* assumptions of an instantiated module for granted.                      *)
(***************************************************************************)
EXTENDS SpinLock, SerialDownload, TLAPS

\* The core has won bLockFlag and has not started to fill in bAPICID.
Entering(c) == pc[c] \in {"setCount", "setOwner", "saveFlag"}

\* The core's APIC ID is in bAPICID.
Owns(c) ==
    \/ pc[c] = "saveFlag"
    \/ depth[c] > 0 /\ pc[c] \notin {"uClearRest", "uRelease", "uRestore"}

\* bLockFlag is set exactly while some core holds the lock, and bAPICID names
\* exactly the core whose structure it is.
SharedInv ==
    /\ MutualExclusion
    /\ bLockFlag <=> \E c \in Cores : Holds(c)
    /\ \A c \in Cores : bAPICID = c <=> Owns(c)

\* Which program points a core with, and one without, the lock can be at.
PlaceInv(c) ==
    /\ pc[c] \in {"retas", "spin", "uStray", "setCount", "setOwner", "saveFlag"}
           => depth[c] = 0
    /\ pc[c] \in {"increment", "uCount"} => depth[c] > 0
    /\ pc[c] \in {"uClearOwner", "uClearRest", "uRelease", "uRestore"}
           => depth[c] = 1
    /\ pc[c] # "client" \/ depth[c] > 0 => ~irqOn[c]

\* dwLockCount is the nesting depth of the core that owns the structure.
CountInv(c) ==
    /\ depth[c] > 0 /\ pc[c] \notin {"uRelease", "uRestore"}
           => dwLockCount = depth[c]
    /\ pc[c] \in {"setOwner", "saveFlag"} => dwLockCount = 1

\* Where the interrupt flag to restore is kept.
FlagInv(c) ==
    /\ depth[c] > 0 /\ pc[c] \notin {"uRelease", "uRestore"}
           => bInterruptFlag = entryIF[c]
    /\ pc[c] \in {"tas", "checkOwner", "retas", "spin", "setCount", "setOwner",
                  "saveFlag"} /\ depth[c] = 0 => tmp[c] = entryIF[c]
    /\ pc[c] \in {"uClearOwner", "uClearRest", "uRelease", "uRestore"}
           => tmp[c] = entryIF[c]

IInv ==
    /\ TypeOK
    /\ SharedInv
    /\ \A c \in Cores : PlaceInv(c) /\ CountInv(c) /\ FlagInv(c)

-----------------------------------------------------------------------------
LEMMA InitIInv == Init => IInv
  <1> SUFFICES ASSUME Init PROVE IInv
    OBVIOUS
  <1>1. TypeOK
    BY DEF Init, TypeOK, Labels
  <1>2. \A c \in Cores : pc[c] = "client" /\ depth[c] = 0
    BY DEF Init
  <1>3. SharedInv
    BY <1>2, CoresAssumption DEF Init, SharedInv, MutualExclusion, Holds, Owns
  <1>4. ASSUME NEW c \in Cores PROVE PlaceInv(c) /\ CountInv(c) /\ FlagInv(c)
    <2>1. pc[c] = "client" /\ ~(depth[c] > 0)
      BY <1>2
    <2>2. PlaceInv(c)
      BY <2>1 DEF PlaceInv
    <2>3. CountInv(c)
      BY <2>1 DEF CountInv
    <2>4. FlagInv(c)
      BY <2>1 DEF FlagInv
    <2> QED
      BY <2>2, <2>3, <2>4
  <1> QED
    BY <1>1, <1>3, <1>4 DEF IInv

LEMMA NextIInv == IInv /\ [Next]_vars => IInv'
  <1> SUFFICES ASSUME IInv, [Next]_vars PROVE IInv'
    OBVIOUS
  <1> USE CoresAssumption, NestAssumption DEF IInv, SharedInv, data, local, Goto
  <1>1. CASE UNCHANGED vars
    BY <1>1 DEF vars, TypeOK, MutualExclusion, Holds, Owns, PlaceInv, CountInv,
                FlagInv
  <1>2. ASSUME NEW c \in Cores, SetInterruptFlag(c) PROVE IInv'
    <2> USE <1>2 DEF SetInterruptFlag
    <2>1. TypeOK'
      BY DEF TypeOK, Labels, PlaceInv, CountInv
    <2>2. SharedInv'
      BY DEF TypeOK, Labels, MutualExclusion, Holds, Owns, PlaceInv, CountInv
    <2>3. \A d \in Cores : PlaceInv(d)' /\ CountInv(d)' /\ FlagInv(d)'
      BY DEF TypeOK, Labels, MutualExclusion, Holds, Owns, PlaceInv, CountInv, FlagInv
    <2> QED
      BY <2>1, <2>2, <2>3
  <1>3. ASSUME NEW c \in Cores, LockEnter(c) PROVE IInv'
    <2> USE <1>3 DEF LockEnter, DisableInterrupt
    <2>1. TypeOK'
      BY DEF TypeOK, Labels, PlaceInv, CountInv
    <2>2. SharedInv'
      BY DEF TypeOK, Labels, MutualExclusion, Holds, Owns, PlaceInv, CountInv
    <2>3. \A d \in Cores : PlaceInv(d)' /\ CountInv(d)' /\ FlagInv(d)'
      BY DEF TypeOK, Labels, MutualExclusion, Holds, Owns, PlaceInv, CountInv, FlagInv
    <2> QED
      BY <2>1, <2>2, <2>3
  <1>4. ASSUME NEW c \in Cores, UnlockEnter(c) PROVE IInv'
    <2> USE <1>4 DEF UnlockEnter, DisableInterrupt
    <2>1. TypeOK'
      BY DEF TypeOK, Labels, PlaceInv, CountInv
    <2>2. SharedInv'
      BY DEF TypeOK, Labels, MutualExclusion, Holds, Owns, PlaceInv, CountInv
    <2>3. \A d \in Cores : PlaceInv(d)' /\ CountInv(d)' /\ FlagInv(d)'
      BY DEF TypeOK, Labels, MutualExclusion, Holds, Owns, PlaceInv, CountInv, FlagInv
    <2> QED
      BY <2>1, <2>2, <2>3
  <1>5. ASSUME NEW c \in Cores, LockFirstTry(c) PROVE IInv'
    <2> USE <1>5 DEF LockFirstTry, TestAndSet
    <2>1. TypeOK'
      BY DEF TypeOK, Labels, PlaceInv, CountInv
    <2>2. SharedInv'
      BY DEF TypeOK, Labels, MutualExclusion, Holds, Owns, PlaceInv, CountInv
    <2>3. \A d \in Cores : PlaceInv(d)' /\ CountInv(d)' /\ FlagInv(d)'
      BY DEF TypeOK, Labels, MutualExclusion, Holds, Owns, PlaceInv, CountInv, FlagInv
    <2> QED
      BY <2>1, <2>2, <2>3
  <1>6. ASSUME NEW c \in Cores, LockCheckOwner(c) PROVE IInv'
    <2> USE <1>6 DEF LockCheckOwner
    <2>1. TypeOK'
      BY DEF TypeOK, Labels, PlaceInv, CountInv
    <2>2. SharedInv'
      BY DEF TypeOK, Labels, MutualExclusion, Holds, Owns, PlaceInv, CountInv
    <2>3. \A d \in Cores : PlaceInv(d)' /\ CountInv(d)' /\ FlagInv(d)'
      BY DEF TypeOK, Labels, MutualExclusion, Holds, Owns, PlaceInv, CountInv, FlagInv
    <2> QED
      BY <2>1, <2>2, <2>3
  <1>7. ASSUME NEW c \in Cores, LockNested(c) PROVE IInv'
    <2> USE <1>7 DEF LockNested
    <2>1. TypeOK'
      BY DEF TypeOK, Labels, PlaceInv, CountInv
    <2>2. SharedInv'
      BY DEF TypeOK, Labels, MutualExclusion, Holds, Owns, PlaceInv, CountInv
    <2>3. \A d \in Cores : PlaceInv(d)' /\ CountInv(d)' /\ FlagInv(d)'
      BY DEF TypeOK, Labels, MutualExclusion, Holds, Owns, PlaceInv, CountInv, FlagInv
    <2> QED
      BY <2>1, <2>2, <2>3
  <1>8. ASSUME NEW c \in Cores, LockRetry(c) PROVE IInv'
    <2> USE <1>8 DEF LockRetry, TestAndSet
    <2>1. TypeOK'
      BY DEF TypeOK, Labels, PlaceInv, CountInv
    <2>2. SharedInv'
      BY DEF TypeOK, Labels, MutualExclusion, Holds, Owns, PlaceInv, CountInv
    <2>3. \A d \in Cores : PlaceInv(d)' /\ CountInv(d)' /\ FlagInv(d)'
      BY DEF TypeOK, Labels, MutualExclusion, Holds, Owns, PlaceInv, CountInv, FlagInv
    <2> QED
      BY <2>1, <2>2, <2>3
  <1>9. ASSUME NEW c \in Cores, LockSpin(c) PROVE IInv'
    <2> USE <1>9 DEF LockSpin
    <2>1. TypeOK'
      BY DEF TypeOK, Labels, PlaceInv, CountInv
    <2>2. SharedInv'
      BY DEF TypeOK, Labels, MutualExclusion, Holds, Owns, PlaceInv, CountInv
    <2>3. \A d \in Cores : PlaceInv(d)' /\ CountInv(d)' /\ FlagInv(d)'
      BY DEF TypeOK, Labels, MutualExclusion, Holds, Owns, PlaceInv, CountInv, FlagInv
    <2> QED
      BY <2>1, <2>2, <2>3
  <1>10. ASSUME NEW c \in Cores, LockSetCount(c) PROVE IInv'
    <2> USE <1>10 DEF LockSetCount
    <2>1. TypeOK'
      BY DEF TypeOK, Labels, PlaceInv, CountInv
    <2>2. SharedInv'
      BY DEF TypeOK, Labels, MutualExclusion, Holds, Owns, PlaceInv, CountInv
    <2>3. \A d \in Cores : PlaceInv(d)' /\ CountInv(d)' /\ FlagInv(d)'
      BY DEF TypeOK, Labels, MutualExclusion, Holds, Owns, PlaceInv, CountInv, FlagInv
    <2> QED
      BY <2>1, <2>2, <2>3
  <1>11. ASSUME NEW c \in Cores, LockSetOwner(c) PROVE IInv'
    <2> USE <1>11 DEF LockSetOwner
    <2>1. TypeOK'
      BY DEF TypeOK, Labels, PlaceInv, CountInv
    <2>2. SharedInv'
      BY DEF TypeOK, Labels, MutualExclusion, Holds, Owns, PlaceInv, CountInv
    <2>3. \A d \in Cores : PlaceInv(d)' /\ CountInv(d)' /\ FlagInv(d)'
      BY DEF TypeOK, Labels, MutualExclusion, Holds, Owns, PlaceInv, CountInv, FlagInv
    <2> QED
      BY <2>1, <2>2, <2>3
  <1>12. ASSUME NEW c \in Cores, LockSaveFlag(c) PROVE IInv'
    <2> USE <1>12 DEF LockSaveFlag
    <2>1. TypeOK'
      BY DEF TypeOK, Labels, PlaceInv, CountInv
    <2>2. SharedInv'
      BY DEF TypeOK, Labels, MutualExclusion, Holds, Owns, PlaceInv, CountInv
    <2>3. \A d \in Cores : PlaceInv(d)' /\ CountInv(d)' /\ FlagInv(d)'
      BY DEF TypeOK, Labels, MutualExclusion, Holds, Owns, PlaceInv, CountInv, FlagInv
    <2> QED
      BY <2>1, <2>2, <2>3
  <1>13. ASSUME NEW c \in Cores, UnlockCheck(c) PROVE IInv'
    <2> USE <1>13 DEF UnlockCheck
    <2>1. TypeOK'
      BY DEF TypeOK, Labels, PlaceInv, CountInv
    <2>2. SharedInv'
      BY DEF TypeOK, Labels, MutualExclusion, Holds, Owns, PlaceInv, CountInv
    <2>3. \A d \in Cores : PlaceInv(d)' /\ CountInv(d)' /\ FlagInv(d)'
      BY DEF TypeOK, Labels, MutualExclusion, Holds, Owns, PlaceInv, CountInv, FlagInv
    <2> QED
      BY <2>1, <2>2, <2>3
  <1>14. ASSUME NEW c \in Cores, UnlockStray(c) PROVE IInv'
    <2> USE <1>14 DEF UnlockStray
    <2>1. TypeOK'
      BY DEF TypeOK, Labels, PlaceInv, CountInv
    <2>2. SharedInv'
      BY DEF TypeOK, Labels, MutualExclusion, Holds, Owns, PlaceInv, CountInv
    <2>3. \A d \in Cores : PlaceInv(d)' /\ CountInv(d)' /\ FlagInv(d)'
      BY DEF TypeOK, Labels, MutualExclusion, Holds, Owns, PlaceInv, CountInv, FlagInv
    <2> QED
      BY <2>1, <2>2, <2>3
  <1>15. ASSUME NEW c \in Cores, UnlockNested(c) PROVE IInv'
    <2> USE <1>15 DEF UnlockNested
    <2>1. TypeOK'
      BY DEF TypeOK, Labels, PlaceInv, CountInv
    <2>2. SharedInv'
      BY DEF TypeOK, Labels, MutualExclusion, Holds, Owns, PlaceInv, CountInv
    <2>3. \A d \in Cores : PlaceInv(d)' /\ CountInv(d)' /\ FlagInv(d)'
      BY DEF TypeOK, Labels, MutualExclusion, Holds, Owns, PlaceInv, CountInv, FlagInv
    <2> QED
      BY <2>1, <2>2, <2>3
  <1>16. ASSUME NEW c \in Cores, UnlockLoadFlag(c) PROVE IInv'
    <2> USE <1>16 DEF UnlockLoadFlag
    <2>1. TypeOK'
      BY DEF TypeOK, Labels, PlaceInv, CountInv
    <2>2. SharedInv'
      BY DEF TypeOK, Labels, MutualExclusion, Holds, Owns, PlaceInv, CountInv
    <2>3. \A d \in Cores : PlaceInv(d)' /\ CountInv(d)' /\ FlagInv(d)'
      BY DEF TypeOK, Labels, MutualExclusion, Holds, Owns, PlaceInv, CountInv, FlagInv
    <2> QED
      BY <2>1, <2>2, <2>3
  <1>17. ASSUME NEW c \in Cores, UnlockClearOwner(c) PROVE IInv'
    <2> USE <1>17 DEF UnlockClearOwner
    <2>1. TypeOK'
      BY DEF TypeOK, Labels, PlaceInv, CountInv
    <2>2. SharedInv'
      BY DEF TypeOK, Labels, MutualExclusion, Holds, Owns, PlaceInv, CountInv
    <2>3. \A d \in Cores : PlaceInv(d)' /\ CountInv(d)' /\ FlagInv(d)'
      BY DEF TypeOK, Labels, MutualExclusion, Holds, Owns, PlaceInv, CountInv, FlagInv
    <2> QED
      BY <2>1, <2>2, <2>3
  <1>18. ASSUME NEW c \in Cores, UnlockClearRest(c) PROVE IInv'
    <2> USE <1>18 DEF UnlockClearRest
    <2>1. TypeOK'
      BY DEF TypeOK, Labels, PlaceInv, CountInv
    <2>2. SharedInv'
      BY DEF TypeOK, Labels, MutualExclusion, Holds, Owns, PlaceInv, CountInv
    <2>3. \A d \in Cores : PlaceInv(d)' /\ CountInv(d)' /\ FlagInv(d)'
      BY DEF TypeOK, Labels, MutualExclusion, Holds, Owns, PlaceInv, CountInv, FlagInv
    <2> QED
      BY <2>1, <2>2, <2>3
  <1>19. ASSUME NEW c \in Cores, UnlockRelease(c) PROVE IInv'
    <2> USE <1>19 DEF UnlockRelease
    <2>1. TypeOK'
      BY DEF TypeOK, Labels, PlaceInv, CountInv
    <2>2. SharedInv'
      BY DEF TypeOK, Labels, MutualExclusion, Holds, Owns, PlaceInv, CountInv
    <2>3. \A d \in Cores : PlaceInv(d)' /\ CountInv(d)' /\ FlagInv(d)'
      BY DEF TypeOK, Labels, MutualExclusion, Holds, Owns, PlaceInv, CountInv, FlagInv
    <2> QED
      BY <2>1, <2>2, <2>3
  <1>20. ASSUME NEW c \in Cores, UnlockRestore(c) PROVE IInv'
    <2> USE <1>20 DEF UnlockRestore
    <2>1. TypeOK'
      BY DEF TypeOK, Labels, PlaceInv, CountInv
    <2>2. SharedInv'
      BY DEF TypeOK, Labels, MutualExclusion, Holds, Owns, PlaceInv, CountInv
    <2>3. \A d \in Cores : PlaceInv(d)' /\ CountInv(d)' /\ FlagInv(d)'
      BY DEF TypeOK, Labels, MutualExclusion, Holds, Owns, PlaceInv, CountInv, FlagInv
    <2> QED
      BY <2>1, <2>2, <2>3
  <1> QED
    BY <1>1, <1>2, <1>3, <1>4, <1>5, <1>6, <1>7, <1>8, <1>9, <1>10, <1>11, <1>12, <1>13, <1>14, <1>15, <1>16, <1>17, <1>18, <1>19, <1>20 DEF Next, LockCode, UnlockCode

LEMMA SpecIInv == Spec => []IInv
  BY InitIInv, NextIInv, PTL DEF Spec

-----------------------------------------------------------------------------
\* The fields of the lock and the flags and program points of the cores keep
\* their types: dwLockCount in particular never drops below zero.
THEOREM SpecTypeOK == Spec => []TypeOK
  <1>1. IInv => TypeOK
    BY DEF IInv
  <1> QED
    BY <1>1, SpecIInv, PTL

\* At any time at most one core is between a winning kTestAndSet of
\* kLockForSpinLock and the store of kUnlockForSpinLock that frees the lock.
THEOREM SpecMutualExclusion == Spec => []MutualExclusion
  <1>1. IInv => MutualExclusion
    BY DEF IInv, SharedInv
  <1> QED
    BY <1>1, SpecIInv, PTL

\* A core that owns the lock has interrupts off and finds in dwLockCount the
\* number of kUnlockForSpinLock calls it still owes.
THEOREM SpecOwnerUndisturbed == Spec => []OwnerUndisturbed
  <1>1. IInv => OwnerUndisturbed
    BY DEF IInv, SharedInv, TypeOK, OwnerUndisturbed, Owns, PlaceInv, CountInv
  <1> QED
    BY <1>1, SpecIInv, PTL

\* The outermost kUnlockForSpinLock restores the interrupt flag the core had
\* when its outermost kLockForSpinLock began.
THEOREM SpecFlagRestored == Spec => FlagRestored
  <1>1. IInv /\ [Next]_vars => [\A c \in Cores :
          depth[c] > 0 /\ depth'[c] = 0 => irqOn'[c] = entryIF[c]]_vars
    <2> SUFFICES ASSUME IInv, Next, NEW c \in Cores, depth[c] > 0, depth'[c] = 0
                 PROVE irqOn'[c] = entryIF[c]
      OBVIOUS
    <2> USE DEF IInv, TypeOK, local, data, Goto
    <2>1. CASE \E e \in Cores : UnlockRestore(e)
      BY <2>1 DEF UnlockRestore, FlagInv, PlaceInv
    <2>2. CASE \E e \in Cores : UnlockNested(e)
      BY <2>2 DEF UnlockNested, CountInv
    <2>3. CASE \E e \in Cores : LockNested(e) \/ LockSaveFlag(e)
      BY <2>3 DEF LockNested, LockSaveFlag
    <2>4. CASE depth' = depth
      BY <2>4
    <2> QED
      BY <2>1, <2>2, <2>3, <2>4
      DEF Next, LockCode, UnlockCode, SetInterruptFlag, LockEnter, UnlockEnter,
          LockFirstTry, LockCheckOwner, LockRetry, TestAndSet, LockSpin,
          LockSetCount, LockSetOwner, UnlockCheck, UnlockStray, UnlockLoadFlag,
          UnlockClearOwner, UnlockClearRest, UnlockRelease
  <1> QED
    BY <1>1, SpecIInv, PTL DEF Spec, FlagRestored

-----------------------------------------------------------------------------
\* The refinement.  Level(c) is what the core c sees of level while it holds
\* the lock.
Level(c) == IF depth[c] = 0 THEN 1 ELSE depth[c]

\* What the refinement mapping says of the cores.
Mapped ==
    /\ \A c \in Cores : Holds(c) => holders = {c} /\ level = Level(c)
    /\ (\A c \in Cores : ~Holds(c)) => holders = {} /\ level = 0

\* What one step of the core c can do to its hold on the lock.
Moves(c) ==
    \/ (Holds(c) <=> Holds(c)') /\ Level(c)' = Level(c)
    \/ ~Holds(c) /\ Holds(c)' /\ Level(c)' = 1
    \/ Holds(c) /\ ~Holds(c)' /\ Level(c) = 1
    \/ Holds(c) /\ Holds(c)' /\ Level(c)' = Level(c) + 1
    \/ Holds(c) /\ Holds(c)' /\ Level(c) > 1 /\ Level(c)' = Level(c) - 1

\* At most one core holds the lock, so the CHOOSE of the mapping finds it.
LEMMA MappedHolds == MutualExclusion => Mapped
  <1> SUFFICES ASSUME MutualExclusion PROVE Mapped
    OBVIOUS
  <1>1. ASSUME NEW c \in Cores, Holds(c) PROVE holders = {c} /\ level = Level(c)
    <2>1. holders = {c}
      BY <1>1 DEF holders, MutualExclusion
    <2>2. (CHOOSE d \in {c} : TRUE) = c
      OBVIOUS
    <2> QED
      BY <2>1, <2>2 DEF level, Level
  <1>2. ASSUME \A c \in Cores : ~Holds(c) PROVE holders = {} /\ level = 0
    BY <1>2 DEF holders, level
  <1> QED
    BY <1>1, <1>2 DEF Mapped

\* A step is a step of one core, which moves as Moves says and leaves the
\* others where they are.
LEMMA StepMoves ==
  ASSUME IInv, Next
  PROVE  \E c \in Cores :
           /\ Moves(c)
           /\ \A d \in Cores \ {c} : (Holds(d) <=> Holds(d)') /\ Level(d)' = Level(d)
  <1> USE DEF IInv, TypeOK, Goto, local, data, Moves, Holds, Level
  <1>1. CASE \E c \in Cores : SetInterruptFlag(c) \/ LockEnter(c) \/ UnlockEnter(c)
    BY <1>1 DEF SetInterruptFlag, LockEnter, UnlockEnter, PlaceInv
  <1>2. CASE \E c \in Cores : LockFirstTry(c) \/ LockRetry(c)
    BY <1>2 DEF LockFirstTry, LockRetry, TestAndSet, PlaceInv, SharedInv
  <1>3. CASE \E c \in Cores : LockCheckOwner(c) \/ LockNested(c) \/ LockSpin(c)
    BY <1>3 DEF LockCheckOwner, LockNested, LockSpin, PlaceInv
  <1>4. CASE \E c \in Cores : LockSetCount(c) \/ LockSetOwner(c) \/ LockSaveFlag(c)
    BY <1>4 DEF LockSetCount, LockSetOwner, LockSaveFlag, PlaceInv
  <1>5. CASE \E c \in Cores : UnlockCheck(c) \/ UnlockStray(c) \/ UnlockNested(c)
    BY <1>5 DEF UnlockCheck, UnlockStray, UnlockNested, PlaceInv, CountInv
  <1>6. CASE \E c \in Cores : UnlockLoadFlag(c) \/ UnlockClearOwner(c) \/ UnlockClearRest(c)
    BY <1>6 DEF UnlockLoadFlag, UnlockClearOwner, UnlockClearRest
  <1>7. CASE \E c \in Cores : UnlockRelease(c) \/ UnlockRestore(c)
    BY <1>7 DEF UnlockRelease, UnlockRestore, PlaceInv
  <1> QED
    BY <1>1, <1>2, <1>3, <1>4, <1>5, <1>6, <1>7 DEF Next, LockCode, UnlockCode

\* kLockForSpinLock and kUnlockForSpinLock implement the atomic recursive lock:
\* every step of a core is one step of RecursiveLock or changes nothing there.
THEOREM SpecImplementsLock == Spec => ImplementsLock
  <1>1. Init => Lock!Init
    BY DEF Init, Lock!Init, Holds, holders, level
  <1>2. IInv => Mapped /\ MutualExclusion
    BY MappedHolds DEF IInv, SharedInv
  <1>3. (IInv => Mapped /\ MutualExclusion)'
    BY <1>2, PTL
  <1>4. IInv /\ IInv' /\ [Next]_vars => [Lock!Next]_<<holders, level>>
    <2> SUFFICES ASSUME IInv, IInv', [Next]_vars
                 PROVE  Lock!Next \/ (holders' = holders /\ level' = level)
      OBVIOUS
    <2>1. CASE UNCHANGED vars
      BY <2>1 DEF vars, local, holders, level, Holds
    <2>2. CASE Next
      <3>1. PICK c \in Cores :
              /\ Moves(c)
              /\ \A d \in Cores \ {c} :
                    (Holds(d) <=> Holds(d)') /\ Level(d)' = Level(d)
        BY <2>2, StepMoves
      <3>2. /\ \A d \in Cores : Holds(d) => holders = {d} /\ level = Level(d)
            /\ (\A d \in Cores : ~Holds(d)) => holders = {} /\ level = 0
        BY <1>2 DEF Mapped
      <3>3. /\ \A d \in Cores : Holds(d)' => holders' = {d} /\ level' = Level(d)'
            /\ (\A d \in Cores : ~Holds(d)') => holders' = {} /\ level' = 0
        BY <1>3 DEF Mapped
      <3>4. CASE \E d \in Cores \ {c} : Holds(d)
        BY <3>1, <3>2, <3>3, <3>4
      <3>5. CASE \A d \in Cores \ {c} : ~Holds(d)
        BY <3>1, <3>2, <3>3, <3>5
        DEF Moves, Lock!Next, Lock!Acquire, Lock!Reenter, Lock!Leave, Lock!Release
      <3> QED
        BY <3>4, <3>5
    <2> QED
      BY <2>1, <2>2
  <1> QED
    BY <1>1, <1>4, SpecIInv, PTL DEF Spec, ImplementsLock, Lock!Spec

-----------------------------------------------------------------------------
\* The mutex

CONSTANTS Tasks, NoTask
VARIABLES qwTaskID, ended

M == INSTANCE Mutex

\* The task's ID is in qwTaskID.
MutexOwns(t) == depth[t] > 0 /\ pc[t] \notin {"uClearCount", "uRelease"}

\* bLockFlag is set exactly while some task, dead or alive, has the mutex, and
\* qwTaskID names exactly the task whose structure it is.
MutexSharedInv ==
    /\ M!MutualExclusion
    /\ bLockFlag <=> \E t \in Tasks : M!Holds(t)
    /\ \A t \in Tasks : qwTaskID = t <=> MutexOwns(t)

\* Which program points a task with, and one without, the mutex can be at.
MutexPlaceInv(t) ==
    /\ pc[t] \in {"retas", "setCount", "setOwner"} => depth[t] = 0
    /\ pc[t] \in {"increment", "uCount"} => depth[t] > 0
    /\ pc[t] \in {"uClearOwner", "uClearCount", "uRelease"} => depth[t] = 1

\* dwLockCount is the nesting depth of the task that owns the structure.
MutexCountInv(t) ==
    /\ depth[t] > 0 /\ pc[t] # "uRelease" => dwLockCount = depth[t]
    /\ pc[t] = "setOwner" => dwLockCount = 1

MutexIInv ==
    /\ M!TypeOK
    /\ MutexSharedInv
    /\ \A t \in Tasks : MutexPlaceInv(t) /\ MutexCountInv(t)

-----------------------------------------------------------------------------
LEMMA MutexInitIInv ==
  ASSUME M!TasksAssumption
  PROVE  M!Init => MutexIInv
  <1> SUFFICES ASSUME M!Init PROVE MutexIInv
    OBVIOUS
  <1>1. M!TypeOK
    BY DEF M!Init, M!TypeOK, M!Labels
  <1>2. \A t \in Tasks : pc[t] = "client" /\ depth[t] = 0
    BY DEF M!Init
  <1>3. MutexSharedInv
    BY <1>2, M!TasksAssumption DEF M!Init, MutexSharedInv, M!MutualExclusion, M!Holds, MutexOwns
  <1>4. ASSUME NEW t \in Tasks PROVE MutexPlaceInv(t) /\ MutexCountInv(t)
    <2>1. pc[t] = "client" /\ ~(depth[t] > 0)
      BY <1>2
    <2>2. MutexPlaceInv(t)
      BY <2>1 DEF MutexPlaceInv
    <2>3. MutexCountInv(t)
      BY <2>1 DEF MutexCountInv
    <2> QED
      BY <2>2, <2>3
  <1> QED
    BY <1>1, <1>3, <1>4 DEF MutexIInv

LEMMA MutexNextIInv ==
  ASSUME M!TasksAssumption
  PROVE  MutexIInv /\ [M!Next]_M!vars => MutexIInv'
  <1> SUFFICES ASSUME MutexIInv, [M!Next]_M!vars PROVE MutexIInv'
    OBVIOUS
  <1> USE M!TasksAssumption, NestAssumption DEF MutexIInv, MutexSharedInv, M!data, M!Goto
  <1>1. CASE UNCHANGED M!vars
    BY <1>1 DEF M!vars, M!TypeOK, M!MutualExclusion, M!Holds, MutexOwns, MutexPlaceInv, MutexCountInv
  <1>2. ASSUME NEW t \in Tasks, M!LockEnter(t) PROVE MutexIInv'
    <2> USE <1>2 DEF M!LockEnter
    <2>1. M!TypeOK'
      BY DEF M!TypeOK, M!Labels, MutexPlaceInv
    <2>2. MutexSharedInv'
      BY DEF M!TypeOK, M!Labels, M!MutualExclusion, M!Holds, MutexOwns, MutexPlaceInv, MutexCountInv
    <2>3. \A u \in Tasks : MutexPlaceInv(u)' /\ MutexCountInv(u)'
      BY DEF M!TypeOK, M!Labels, M!MutualExclusion, M!Holds, MutexOwns, MutexPlaceInv, MutexCountInv
    <2> QED
      BY <2>1, <2>2, <2>3
  <1>3. ASSUME NEW t \in Tasks, M!LockFirstTry(t) PROVE MutexIInv'
    <2> USE <1>3 DEF M!LockFirstTry, M!TestAndSet
    <2>1. M!TypeOK'
      BY DEF M!TypeOK, M!Labels, MutexPlaceInv
    <2>2. MutexSharedInv'
      BY DEF M!TypeOK, M!Labels, M!MutualExclusion, M!Holds, MutexOwns, MutexPlaceInv, MutexCountInv
    <2>3. \A u \in Tasks : MutexPlaceInv(u)' /\ MutexCountInv(u)'
      BY DEF M!TypeOK, M!Labels, M!MutualExclusion, M!Holds, MutexOwns, MutexPlaceInv, MutexCountInv
    <2> QED
      BY <2>1, <2>2, <2>3
  <1>4. ASSUME NEW t \in Tasks, M!LockCheckOwner(t) PROVE MutexIInv'
    <2> USE <1>4 DEF M!LockCheckOwner
    <2>1. M!TypeOK'
      BY DEF M!TypeOK, M!Labels, MutexPlaceInv
    <2>2. MutexSharedInv'
      BY DEF M!TypeOK, M!Labels, M!MutualExclusion, M!Holds, MutexOwns, MutexPlaceInv, MutexCountInv
    <2>3. \A u \in Tasks : MutexPlaceInv(u)' /\ MutexCountInv(u)'
      BY DEF M!TypeOK, M!Labels, M!MutualExclusion, M!Holds, MutexOwns, MutexPlaceInv, MutexCountInv
    <2> QED
      BY <2>1, <2>2, <2>3
  <1>5. ASSUME NEW t \in Tasks, M!LockNested(t) PROVE MutexIInv'
    <2> USE <1>5 DEF M!LockNested
    <2>1. M!TypeOK'
      BY DEF M!TypeOK, M!Labels, MutexPlaceInv
    <2>2. MutexSharedInv'
      BY DEF M!TypeOK, M!Labels, M!MutualExclusion, M!Holds, MutexOwns, MutexPlaceInv, MutexCountInv
    <2>3. \A u \in Tasks : MutexPlaceInv(u)' /\ MutexCountInv(u)'
      BY DEF M!TypeOK, M!Labels, M!MutualExclusion, M!Holds, MutexOwns, MutexPlaceInv, MutexCountInv
    <2> QED
      BY <2>1, <2>2, <2>3
  <1>6. ASSUME NEW t \in Tasks, M!LockRetry(t) PROVE MutexIInv'
    <2> USE <1>6 DEF M!LockRetry, M!TestAndSet
    <2>1. M!TypeOK'
      BY DEF M!TypeOK, M!Labels, MutexPlaceInv
    <2>2. MutexSharedInv'
      BY DEF M!TypeOK, M!Labels, M!MutualExclusion, M!Holds, MutexOwns, MutexPlaceInv, MutexCountInv
    <2>3. \A u \in Tasks : MutexPlaceInv(u)' /\ MutexCountInv(u)'
      BY DEF M!TypeOK, M!Labels, M!MutualExclusion, M!Holds, MutexOwns, MutexPlaceInv, MutexCountInv
    <2> QED
      BY <2>1, <2>2, <2>3
  <1>7. ASSUME NEW t \in Tasks, M!LockSetCount(t) PROVE MutexIInv'
    <2> USE <1>7 DEF M!LockSetCount
    <2>1. M!TypeOK'
      BY DEF M!TypeOK, M!Labels, MutexPlaceInv
    <2>2. MutexSharedInv'
      BY DEF M!TypeOK, M!Labels, M!MutualExclusion, M!Holds, MutexOwns, MutexPlaceInv, MutexCountInv
    <2>3. \A u \in Tasks : MutexPlaceInv(u)' /\ MutexCountInv(u)'
      BY DEF M!TypeOK, M!Labels, M!MutualExclusion, M!Holds, MutexOwns, MutexPlaceInv, MutexCountInv
    <2> QED
      BY <2>1, <2>2, <2>3
  <1>8. ASSUME NEW t \in Tasks, M!LockSetOwner(t) PROVE MutexIInv'
    <2> USE <1>8 DEF M!LockSetOwner
    <2>1. M!TypeOK'
      BY DEF M!TypeOK, M!Labels, MutexPlaceInv
    <2>2. MutexSharedInv'
      BY DEF M!TypeOK, M!Labels, M!MutualExclusion, M!Holds, MutexOwns, MutexPlaceInv, MutexCountInv
    <2>3. \A u \in Tasks : MutexPlaceInv(u)' /\ MutexCountInv(u)'
      BY DEF M!TypeOK, M!Labels, M!MutualExclusion, M!Holds, MutexOwns, MutexPlaceInv, MutexCountInv
    <2> QED
      BY <2>1, <2>2, <2>3
  <1>9. ASSUME NEW t \in Tasks, M!UnlockEnter(t) PROVE MutexIInv'
    <2> USE <1>9 DEF M!UnlockEnter
    <2>1. M!TypeOK'
      BY DEF M!TypeOK, M!Labels, MutexPlaceInv
    <2>2. MutexSharedInv'
      BY DEF M!TypeOK, M!Labels, M!MutualExclusion, M!Holds, MutexOwns, MutexPlaceInv, MutexCountInv
    <2>3. \A u \in Tasks : MutexPlaceInv(u)' /\ MutexCountInv(u)'
      BY DEF M!TypeOK, M!Labels, M!MutualExclusion, M!Holds, MutexOwns, MutexPlaceInv, MutexCountInv
    <2> QED
      BY <2>1, <2>2, <2>3
  <1>10. ASSUME NEW t \in Tasks, M!UnlockCheck(t) PROVE MutexIInv'
    <2> USE <1>10 DEF M!UnlockCheck
    <2>1. M!TypeOK'
      BY DEF M!TypeOK, M!Labels, MutexPlaceInv
    <2>2. MutexSharedInv'
      BY DEF M!TypeOK, M!Labels, M!MutualExclusion, M!Holds, MutexOwns, MutexPlaceInv, MutexCountInv
    <2>3. \A u \in Tasks : MutexPlaceInv(u)' /\ MutexCountInv(u)'
      BY DEF M!TypeOK, M!Labels, M!MutualExclusion, M!Holds, MutexOwns, MutexPlaceInv, MutexCountInv
    <2> QED
      BY <2>1, <2>2, <2>3
  <1>11. ASSUME NEW t \in Tasks, M!UnlockCount(t) PROVE MutexIInv'
    <2> USE <1>11 DEF M!UnlockCount
    <2>1. M!TypeOK'
      BY DEF M!TypeOK, M!Labels, MutexPlaceInv
    <2>2. MutexSharedInv'
      BY DEF M!TypeOK, M!Labels, M!MutualExclusion, M!Holds, MutexOwns, MutexPlaceInv, MutexCountInv
    <2>3. \A u \in Tasks : MutexPlaceInv(u)' /\ MutexCountInv(u)'
      BY DEF M!TypeOK, M!Labels, M!MutualExclusion, M!Holds, MutexOwns, MutexPlaceInv, MutexCountInv
    <2> QED
      BY <2>1, <2>2, <2>3
  <1>12. ASSUME NEW t \in Tasks, M!UnlockClearOwner(t) PROVE MutexIInv'
    <2> USE <1>12 DEF M!UnlockClearOwner
    <2>1. M!TypeOK'
      BY DEF M!TypeOK, M!Labels, MutexPlaceInv
    <2>2. MutexSharedInv'
      BY DEF M!TypeOK, M!Labels, M!MutualExclusion, M!Holds, MutexOwns, MutexPlaceInv, MutexCountInv
    <2>3. \A u \in Tasks : MutexPlaceInv(u)' /\ MutexCountInv(u)'
      BY DEF M!TypeOK, M!Labels, M!MutualExclusion, M!Holds, MutexOwns, MutexPlaceInv, MutexCountInv
    <2> QED
      BY <2>1, <2>2, <2>3
  <1>13. ASSUME NEW t \in Tasks, M!UnlockClearCount(t) PROVE MutexIInv'
    <2> USE <1>13 DEF M!UnlockClearCount
    <2>1. M!TypeOK'
      BY DEF M!TypeOK, M!Labels, MutexPlaceInv
    <2>2. MutexSharedInv'
      BY DEF M!TypeOK, M!Labels, M!MutualExclusion, M!Holds, MutexOwns, MutexPlaceInv, MutexCountInv
    <2>3. \A u \in Tasks : MutexPlaceInv(u)' /\ MutexCountInv(u)'
      BY DEF M!TypeOK, M!Labels, M!MutualExclusion, M!Holds, MutexOwns, MutexPlaceInv, MutexCountInv
    <2> QED
      BY <2>1, <2>2, <2>3
  <1>14. ASSUME NEW t \in Tasks, M!UnlockRelease(t) PROVE MutexIInv'
    <2> USE <1>14 DEF M!UnlockRelease
    <2>1. M!TypeOK'
      BY DEF M!TypeOK, M!Labels, MutexPlaceInv
    <2>2. MutexSharedInv'
      BY DEF M!TypeOK, M!Labels, M!MutualExclusion, M!Holds, MutexOwns, MutexPlaceInv, MutexCountInv
    <2>3. \A u \in Tasks : MutexPlaceInv(u)' /\ MutexCountInv(u)'
      BY DEF M!TypeOK, M!Labels, M!MutualExclusion, M!Holds, MutexOwns, MutexPlaceInv, MutexCountInv
    <2> QED
      BY <2>1, <2>2, <2>3
  <1>15. ASSUME NEW t \in Tasks, M!Kill(t) PROVE MutexIInv'
    <2> USE <1>15 DEF M!Kill
    <2>1. M!TypeOK'
      BY DEF M!TypeOK, M!Labels, MutexPlaceInv
    <2>2. MutexSharedInv'
      BY DEF M!TypeOK, M!Labels, M!MutualExclusion, M!Holds, MutexOwns, MutexPlaceInv, MutexCountInv
    <2>3. \A u \in Tasks : MutexPlaceInv(u)' /\ MutexCountInv(u)'
      BY DEF M!TypeOK, M!Labels, M!MutualExclusion, M!Holds, MutexOwns, MutexPlaceInv, MutexCountInv
    <2> QED
      BY <2>1, <2>2, <2>3
  <1> QED
    BY <1>1, <1>2, <1>3, <1>4, <1>5, <1>6, <1>7, <1>8, <1>9, <1>10, <1>11, <1>12, <1>13, <1>14, <1>15
    DEF M!Next, M!LockCode, M!UnlockCode

LEMMA MutexSpecIInv ==
  ASSUME M!TasksAssumption
  PROVE  M!Spec => []MutexIInv
  BY MutexInitIInv, MutexNextIInv, PTL DEF M!Spec

-----------------------------------------------------------------------------
\* The fields of the mutex keep their types, whoever is killed where.
THEOREM MutexSpecTypeOK ==
  ASSUME M!TasksAssumption
  PROVE  M!Spec => []M!TypeOK
  <1>1. MutexIInv => M!TypeOK
    BY DEF MutexIInv
  <1> QED
    BY <1>1, MutexSpecIInv, PTL

\* At any time at most one task is between a winning kTestAndSet of kLock and
\* the store of kUnlock that frees the mutex.
THEOREM MutexSpecMutualExclusion ==
  ASSUME M!TasksAssumption
  PROVE  M!Spec => []M!MutualExclusion
  <1>1. MutexIInv => M!MutualExclusion
    BY DEF MutexIInv, MutexSharedInv
  <1> QED
    BY <1>1, MutexSpecIInv, PTL

\* In the section the mutex guards, qwTaskID names the task that has it and
\* dwLockCount is the number of kUnlock calls it still owes.
THEOREM MutexSpecOwnerKnown ==
  ASSUME M!TasksAssumption
  PROVE  M!Spec => []M!OwnerKnown
  <1>1. MutexIInv => M!OwnerKnown
    BY DEF MutexIInv, MutexSharedInv, M!OwnerKnown, MutexOwns, MutexCountInv
  <1> QED
    BY <1>1, MutexSpecIInv, PTL

-----------------------------------------------------------------------------
\* The refinement.  Level(t) is what the task t sees of level while it holds
\* the mutex.
MutexLevel(t) == IF depth[t] = 0 THEN 1 ELSE depth[t]

\* What the refinement mapping says of the tasks.
MutexMapped ==
    /\ \A t \in Tasks : M!Holds(t) => M!holders = {t} /\ M!level = MutexLevel(t)
    /\ (\A t \in Tasks : ~M!Holds(t)) => M!holders = {} /\ M!level = 0

\* What one step of the task t can do to its hold on the mutex.
MutexMoves(t) ==
    \/ (M!Holds(t) <=> M!Holds(t)') /\ MutexLevel(t)' = MutexLevel(t)
    \/ ~M!Holds(t) /\ M!Holds(t)' /\ MutexLevel(t)' = 1
    \/ M!Holds(t) /\ ~M!Holds(t)' /\ MutexLevel(t) = 1
    \/ M!Holds(t) /\ M!Holds(t)' /\ MutexLevel(t)' = MutexLevel(t) + 1
    \/ M!Holds(t) /\ M!Holds(t)' /\ MutexLevel(t) > 1 /\ MutexLevel(t)' = MutexLevel(t) - 1

\* At most one task holds the mutex, so the CHOOSE of the mapping finds it.
LEMMA MutexMappedHolds == M!MutualExclusion => MutexMapped
  <1> SUFFICES ASSUME M!MutualExclusion PROVE MutexMapped
    OBVIOUS
  <1>1. ASSUME NEW t \in Tasks, M!Holds(t) PROVE M!holders = {t} /\ M!level = MutexLevel(t)
    <2>1. M!holders = {t}
      BY <1>1 DEF M!holders, M!MutualExclusion
    <2>2. (CHOOSE u \in {t} : TRUE) = t
      OBVIOUS
    <2> QED
      BY <2>1, <2>2 DEF M!level, MutexLevel
  <1>2. ASSUME \A t \in Tasks : ~M!Holds(t) PROVE M!holders = {} /\ M!level = 0
    BY <1>2 DEF M!holders, M!level
  <1> QED
    BY <1>1, <1>2 DEF MutexMapped

\* A step is a step of one task, which moves as Moves says and leaves the
\* others where they are.
LEMMA MutexStepMoves ==
  ASSUME MutexIInv, M!Next
  PROVE  \E t \in Tasks :
           /\ MutexMoves(t)
           /\ \A u \in Tasks \ {t} : (M!Holds(u) <=> M!Holds(u)') /\ MutexLevel(u)' = MutexLevel(u)
  <1> USE DEF MutexIInv, M!TypeOK, M!Goto, M!data, MutexMoves, M!Holds, MutexLevel
  <1>1. CASE \E t \in Tasks : M!LockEnter(t) \/ M!UnlockEnter(t) \/ M!Kill(t)
    BY <1>1 DEF M!LockEnter, M!UnlockEnter, M!Kill
  <1>2. CASE \E t \in Tasks : M!LockFirstTry(t) \/ M!LockRetry(t)
    BY <1>2 DEF M!LockFirstTry, M!LockRetry, M!TestAndSet, MutexPlaceInv, MutexSharedInv
  <1>3. CASE \E t \in Tasks : M!LockCheckOwner(t) \/ M!LockNested(t)
    BY <1>3 DEF M!LockCheckOwner, M!LockNested, MutexPlaceInv
  <1>4. CASE \E t \in Tasks : M!LockSetCount(t) \/ M!LockSetOwner(t)
    BY <1>4 DEF M!LockSetCount, M!LockSetOwner, MutexPlaceInv
  <1>5. CASE \E t \in Tasks : M!UnlockCheck(t) \/ M!UnlockCount(t)
    BY <1>5 DEF M!UnlockCheck, M!UnlockCount, MutexPlaceInv, MutexCountInv
  <1>6. CASE \E t \in Tasks : M!UnlockClearOwner(t) \/ M!UnlockClearCount(t)
    BY <1>6 DEF M!UnlockClearOwner, M!UnlockClearCount
  <1>7. CASE \E t \in Tasks : M!UnlockRelease(t)
    BY <1>7 DEF M!UnlockRelease, MutexPlaceInv
  <1> QED
    BY <1>1, <1>2, <1>3, <1>4, <1>5, <1>6, <1>7 DEF M!Next, M!LockCode, M!UnlockCode

\* kLock and kUnlock implement the atomic recursive lock, kills included:
\* every step of a task is one step of RecursiveLock or changes nothing there.
THEOREM MutexSpecImplementsLock ==
  ASSUME M!TasksAssumption
  PROVE  M!Spec => M!ImplementsLock
  <1>1. M!Init => M!Lock!Init
    BY DEF M!Init, M!Lock!Init, M!Holds, M!holders, M!level
  <1>2. MutexIInv => MutexMapped /\ M!MutualExclusion
    BY MutexMappedHolds DEF MutexIInv, MutexSharedInv
  <1>3. (MutexIInv => MutexMapped /\ M!MutualExclusion)'
    BY <1>2, PTL
  <1>4. MutexIInv /\ MutexIInv' /\ [M!Next]_M!vars => [M!Lock!Next]_<<M!holders, M!level>>
    <2> SUFFICES ASSUME MutexIInv, MutexIInv', [M!Next]_M!vars
                 PROVE  M!Lock!Next \/ (M!holders' = M!holders /\ M!level' = M!level)
      OBVIOUS
    <2>1. CASE UNCHANGED M!vars
      BY <2>1 DEF M!vars, M!data, M!holders, M!level, M!Holds
    <2>2. CASE M!Next
      <3>1. PICK t \in Tasks :
              /\ MutexMoves(t)
              /\ \A u \in Tasks \ {t} :
                    (M!Holds(u) <=> M!Holds(u)') /\ MutexLevel(u)' = MutexLevel(u)
        BY <2>2, MutexStepMoves
      <3>2. /\ \A u \in Tasks : M!Holds(u) => M!holders = {u} /\ M!level = MutexLevel(u)
            /\ (\A u \in Tasks : ~M!Holds(u)) => M!holders = {} /\ M!level = 0
        BY <1>2 DEF MutexMapped
      <3>3. /\ \A u \in Tasks : M!Holds(u)' => M!holders' = {u} /\ M!level' = MutexLevel(u)'
            /\ (\A u \in Tasks : ~M!Holds(u)') => M!holders' = {} /\ M!level' = 0
        BY <1>3 DEF MutexMapped
      <3>4. CASE \E u \in Tasks \ {t} : M!Holds(u)
        BY <3>1, <3>2, <3>3, <3>4
      <3>5. CASE \A u \in Tasks \ {t} : ~M!Holds(u)
        BY <3>1, <3>2, <3>3, <3>5
        DEF MutexMoves, M!Lock!Next, M!Lock!Acquire, M!Lock!Reenter, M!Lock!Leave, M!Lock!Release
      <3> QED
        BY <3>4, <3>5
    <2> QED
      BY <2>1, <2>2
  <1> QED
    BY <1>1, <1>4, MutexSpecIInv, PTL DEF M!Spec, M!ImplementsLock, M!Lock!Spec

-----------------------------------------------------------------------------
\* The download protocol

\* Where the receiver is in the stream, whoever sends.
ReceiverPlace ==
    /\ from <= taken
    /\ rpc = "length" => taken = from + dwReceivedSize /\ dwReceivedSize < Head
    /\ rpc = "open" => taken = from + Head
    /\ rpc \in {"data", "write", "close"} => taken = from + Head + dwReceivedSize

\* What is in the file, and what has been said about it.
FileKept ==
    /\ rpc \in {"data", "length", "open", "write"} => fault = "none" /\ verdict = "none"
    /\ rpc = "data" => written = dwReceivedSize
    /\ rpc = "write" => written + dwTempSize = dwReceivedSize
    /\ rpc = "close" => verdict = "none"
    /\ rpc = "close" /\ fault # "writeError" => written = dwReceivedSize
    /\ verdict = "complete" => from + Head <= taken
    /\ verdict = "complete" /\ fault # "writeError" => written = dwDataLength

\* The sender has sent the length at least, and only that until the download
\* begins that will be in step with it.
SenderPlace ==
    /\ spc # "off" => start + Head <= sent
    /\ spc # "off" /\ older = 0 /\ from < start =>
          /\ rpc = "shell" /\ start <= arrived
          /\ spc = "ackLength" /\ sent = start + Head /\ acks = 0

\* b begins the last block sent, and the receiver has all before it.
LastBlock(b) ==
    /\ b % Block = 0 /\ b < length
    /\ sent = start + Head + b + Least(length - b, Block)
    /\ start + Head + b <= taken

\* The two in step
Together == InStep =>
    /\ acks = IF Waiting /\ taken = sent THEN 1 ELSE 0
    /\ spc \in {"send", "done"} => taken = sent
    /\ spc = "ackLength" => sent = start + Head
    /\ spc = "send" => dwSentSize <= length /\ (dwSentSize % Block = 0 \/ dwSentSize = length)
    /\ spc = "done" => dwSentSize = length
    /\ spc = "ackBlock" => \E b \in Nat : LastBlock(b)
    /\ rpc \in {"open", "data", "write", "close"} => dwDataLength = length
    /\ verdict = "complete" => dwDataLength = length

DownloadIInv == DownloadTypeOK /\ ReceiverPlace /\ FileKept /\ SenderPlace /\ Together

-----------------------------------------------------------------------------
\* The steps

LEMMA DownloadTypeInit == DownloadInit => DownloadTypeOK
BY DEF DownloadInit, DownloadTypeOK

LEMMA DownloadTypeStep == DownloadTypeOK /\ ReceiverPlace /\ [DownloadNext]_downloadVars => DownloadTypeOK'
<1> SUFFICES ASSUME DownloadTypeOK /\ ReceiverPlace, [DownloadNext]_downloadVars PROVE DownloadTypeOK'
  OBVIOUS
<1> USE BlockAssumption DEF DownloadTypeOK
<1>1. ASSUME NEW n \in Lengths, Connect(n) PROVE DownloadTypeOK'
  <2>1. n \in Nat
    BY LengthAssumption
  <2> QED
    BY <1>1, <2>1 DEF Connect, receiver, locals
<1>2. CASE TakeAck
  BY <1>2 DEF TakeAck, Waiting, receiver, locals
<1>3. CASE SendBlock
  BY <1>3 DEF SendBlock, dwSentSize, Least, receiver, locals
<1>4. CASE SendComplete
  BY <1>4 DEF SendComplete, line, receiver, locals
<1>5. CASE Stop
  BY <1>5 DEF Stop, receiver, locals
<1>6. CASE Arrive
  BY <1>6 DEF Arrive, sender, receiver, locals
<1>7. CASE Download
  BY <1>7 DEF Download, ClearSerialFIFO, sender
<1>8. CASE ReceiveLength
  <2>1. \A n \in Lengths : n \in Nat
    BY LengthAssumption
  <2>2. PICK m : m = Received(Head - dwReceivedSize)
    OBVIOUS
  <2>3. m \in Nat /\ taken + m <= arrived
    BY <1>8, <2>2 DEF ReceiveLength, ReceiverPlace, Received, FIFOCount, Least
  <2>4. taken' = taken + m /\ dwReceivedSize' = dwReceivedSize + m
    BY <1>8, <2>2 DEF ReceiveLength
  <2>5. dwDataLength' \in Nat /\ acks' \in Nat /\ rpc' \in {"length", "open"}
    <3>1. CASE dwReceivedSize' < Head
      BY <1>8, <3>1 DEF ReceiveLength
    <3>2. CASE ~(dwReceivedSize' < Head)
      <4>1. dwDataLength' \in {length} \cup Lengths /\ acks' = Acked /\ rpc' = "open"
        BY <1>8, <3>2 DEF ReceiveLength
      <4> QED
        BY <2>1, <4>1 DEF Acked
    <3> QED
      BY <3>1, <3>2
  <2>6. /\ UNCHANGED <<spc, length, start, senders, older, sent, arrived, from, downloads>>
        /\ UNCHANGED <<dwTempSize, written, fault, verdict>>
    BY <1>8 DEF ReceiveLength, sender
  <2>7. taken' \in Nat /\ dwReceivedSize' \in Nat /\ taken' <= arrived
    BY <2>3, <2>4
  <2> QED
    BY <2>5, <2>6, <2>7
<1>9. CASE LengthTimeOut
  BY <1>9 DEF LengthTimeOut, sender, line, locals
<1>10. CASE Open
  BY <1>10 DEF Open, sender, line
<1>11. CASE ReceiveData
  BY <1>11 DEF ReceiveData, Acked, Received, FIFOCount, Least, EndsBlock, sender
<1>12. CASE Write
  BY <1>12 DEF Write, sender, line, locals
<1>13. CASE DataTimeOut
  BY <1>13 DEF DataTimeOut, sender, line, locals
<1>14. CASE Close
  BY <1>14 DEF Close, sender, line, locals
<1>15. CASE UNCHANGED downloadVars
  BY <1>15 DEF downloadVars, sender, line, receiver, locals
<1> QED
  BY <1>1, <1>2, <1>3, <1>4, <1>5, <1>6, <1>7, <1>8, <1>9, <1>10, <1>11, <1>12, <1>13, <1>14, <1>15 DEF DownloadNext, Send, Receive

LEMMA ReceiverStep == DownloadTypeOK /\ ReceiverPlace /\ [DownloadNext]_downloadVars => ReceiverPlace'
<1> SUFFICES ASSUME DownloadTypeOK /\ ReceiverPlace, [DownloadNext]_downloadVars PROVE ReceiverPlace'
  OBVIOUS
<1> USE BlockAssumption DEF DownloadTypeOK, ReceiverPlace
<1>1. ASSUME NEW n \in Lengths, Connect(n) PROVE ReceiverPlace'
  BY <1>1 DEF Connect, receiver, locals
<1>2. CASE TakeAck
  BY <1>2 DEF TakeAck, Waiting, receiver, locals
<1>3. CASE SendBlock
  BY <1>3 DEF SendBlock, dwSentSize, Least, receiver, locals
<1>4. CASE SendComplete
  BY <1>4 DEF SendComplete, line, receiver, locals
<1>5. CASE Stop
  BY <1>5 DEF Stop, receiver, locals
<1>6. CASE Arrive
  BY <1>6 DEF Arrive, sender, receiver, locals
<1>7. CASE Download
  BY <1>7 DEF Download, ClearSerialFIFO, sender
<1>8. CASE ReceiveLength
  BY <1>8 DEF ReceiveLength, Acked, Received, FIFOCount, Least, sender
<1>9. CASE LengthTimeOut
  BY <1>9 DEF LengthTimeOut, sender, line, locals
<1>10. CASE Open
  BY <1>10 DEF Open, sender, line
<1>11. CASE ReceiveData
  BY <1>11 DEF ReceiveData, Acked, Received, FIFOCount, Least, EndsBlock, sender
<1>12. CASE Write
  BY <1>12 DEF Write, sender, line, locals
<1>13. CASE DataTimeOut
  BY <1>13 DEF DataTimeOut, sender, line, locals
<1>14. CASE Close
  BY <1>14 DEF Close, sender, line, locals
<1>15. CASE UNCHANGED downloadVars
  BY <1>15 DEF downloadVars, sender, line, receiver, locals
<1> QED
  BY <1>1, <1>2, <1>3, <1>4, <1>5, <1>6, <1>7, <1>8, <1>9, <1>10, <1>11, <1>12, <1>13, <1>14, <1>15 DEF DownloadNext, Send, Receive

LEMMA FileStep == DownloadTypeOK /\ ReceiverPlace /\ FileKept /\ [DownloadNext]_downloadVars => FileKept'
<1> SUFFICES ASSUME DownloadTypeOK /\ ReceiverPlace /\ FileKept, [DownloadNext]_downloadVars PROVE FileKept'
  OBVIOUS
<1> USE BlockAssumption DEF DownloadTypeOK, ReceiverPlace, FileKept
<1>1. ASSUME NEW n \in Lengths, Connect(n) PROVE FileKept'
  BY <1>1 DEF Connect, receiver, locals
<1>2. CASE TakeAck
  BY <1>2 DEF TakeAck, Waiting, receiver, locals
<1>3. CASE SendBlock
  BY <1>3 DEF SendBlock, dwSentSize, Least, receiver, locals
<1>4. CASE SendComplete
  BY <1>4 DEF SendComplete, line, receiver, locals
<1>5. CASE Stop
  BY <1>5 DEF Stop, receiver, locals
<1>6. CASE Arrive
  BY <1>6 DEF Arrive, sender, receiver, locals
<1>7. CASE Download
  BY <1>7 DEF Download, ClearSerialFIFO, sender
<1>8. CASE ReceiveLength
  BY <1>8 DEF ReceiveLength, Acked, Received, FIFOCount, Least, sender
<1>9. CASE LengthTimeOut
  BY <1>9 DEF LengthTimeOut, sender, line, locals
<1>10. CASE Open
  BY <1>10 DEF Open, sender, line
<1>11. CASE ReceiveData
  BY <1>11 DEF ReceiveData, Acked, Received, FIFOCount, Least, EndsBlock, sender
<1>12. CASE Write
  BY <1>12 DEF Write, sender, line, locals
<1>13. CASE DataTimeOut
  BY <1>13 DEF DataTimeOut, sender, line, locals
<1>14. CASE Close
  BY <1>14 DEF Close, sender, line, locals
<1>15. CASE UNCHANGED downloadVars
  BY <1>15 DEF downloadVars, sender, line, receiver, locals
<1> QED
  BY <1>1, <1>2, <1>3, <1>4, <1>5, <1>6, <1>7, <1>8, <1>9, <1>10, <1>11, <1>12, <1>13, <1>14, <1>15 DEF DownloadNext, Send, Receive

LEMMA SenderStep == DownloadTypeOK /\ ReceiverPlace /\ SenderPlace /\ [DownloadNext]_downloadVars => SenderPlace'
<1> SUFFICES ASSUME DownloadTypeOK /\ ReceiverPlace /\ SenderPlace, [DownloadNext]_downloadVars PROVE SenderPlace'
  OBVIOUS
<1> USE BlockAssumption DEF DownloadTypeOK, ReceiverPlace, SenderPlace
<1>1. ASSUME NEW n \in Lengths, Connect(n) PROVE SenderPlace'
  BY <1>1 DEF Connect, receiver, locals
<1>2. CASE TakeAck
  BY <1>2 DEF TakeAck, Waiting, receiver, locals
<1>3. CASE SendBlock
  BY <1>3 DEF SendBlock, dwSentSize, Least, receiver, locals
<1>4. CASE SendComplete
  BY <1>4 DEF SendComplete, line, receiver, locals
<1>5. CASE Stop
  BY <1>5 DEF Stop, receiver, locals
<1>6. CASE Arrive
  BY <1>6 DEF Arrive, sender, receiver, locals
<1>7. CASE Download
  BY <1>7 DEF Download, ClearSerialFIFO, sender
<1>8. CASE ReceiveLength
  BY <1>8 DEF ReceiveLength, Acked, Received, FIFOCount, Least, sender
<1>9. CASE LengthTimeOut
  BY <1>9 DEF LengthTimeOut, sender, line, locals
<1>10. CASE Open
  BY <1>10 DEF Open, sender, line
<1>11. CASE ReceiveData
  BY <1>11 DEF ReceiveData, Acked, Received, FIFOCount, Least, EndsBlock, sender
<1>12. CASE Write
  BY <1>12 DEF Write, sender, line, locals
<1>13. CASE DataTimeOut
  BY <1>13 DEF DataTimeOut, sender, line, locals
<1>14. CASE Close
  BY <1>14 DEF Close, sender, line, locals
<1>15. CASE UNCHANGED downloadVars
  BY <1>15 DEF downloadVars, sender, line, receiver, locals
<1> QED
  BY <1>1, <1>2, <1>3, <1>4, <1>5, <1>6, <1>7, <1>8, <1>9, <1>10, <1>11, <1>12, <1>13, <1>14, <1>15 DEF DownloadNext, Send, Receive

LEMMA DivType == ASSUME NEW a \in Nat, NEW d \in Nat \ {0}
  PROVE  a \div d \in Int
  BY SMT

LEMMA DivNat == ASSUME NEW a \in Nat, NEW d \in Nat \ {0}
  PROVE  a \div d >= 0
  BY DivType, SMT

LEMMA DivMod == ASSUME NEW a \in Nat, NEW d \in Nat \ {0}
  PROVE  a = d * (a \div d) + (a % d)
  BY SMTT(60)

LEMMA ModUnique == ASSUME NEW d \in Nat \ {0}, NEW q \in Nat, NEW r \in Nat, r < d
  PROVE  (d * q + r) % d = r
  BY SMTT(30)

\* A multiple of Block has a quotient, and behind it the next multiple is
\* Block further.
LEMMA Multiple == ASSUME NEW b \in Nat, b % Block = 0
  PROVE  b \div Block \in Nat /\ b = Block * (b \div Block)
<1>1. b \div Block \in Int /\ b \div Block >= 0
  BY BlockAssumption, DivType, DivNat
<1>2. b = Block * (b \div Block) + (b % Block)
  BY BlockAssumption, DivMod
<1> DEFINE q == b \div Block
<1>3. q \in Nat
  BY <1>1
<1>4. b = Block * q + 0
  BY <1>2, Zenon
<1> HIDE DEF q
<1> QED
  BY <1>3, <1>4, BlockAssumption DEF q

LEMMA SumMultiple == ASSUME NEW b \in Nat, b % Block = 0
  PROVE  (b + Block) % Block = 0
<1> DEFINE q == b \div Block
<1>1. q \in Nat /\ b = Block * q
  BY Multiple
<1> HIDE DEF q
<1>2. b + Block = Block * (q + 1) + 0
  BY <1>1, BlockAssumption
<1>3. (Block * (q + 1) + 0) % Block = 0
  BY <1>1, ModUnique, BlockAssumption
<1> QED
  BY <1>2, <1>3

LEMMA NextMultiple ==
  ASSUME NEW b \in Nat, b % Block = 0, NEW r \in Nat, b < r, r <= b + Block
  PROVE  r % Block = 0 <=> r = b + Block
<1> DEFINE q == b \div Block
           m == r - b
<1>1. q \in Nat /\ b = Block * q
  BY Multiple
<1> HIDE DEF q
<1>2. CASE r < b + Block
  <2>1. r = Block * q + m /\ m \in Nat /\ 0 < m /\ m < Block
    BY <1>1, <1>2, BlockAssumption
  <2>2. (Block * q + m) % Block = m
    BY <1>1, <2>1, ModUnique, BlockAssumption
  <2> QED
    BY <1>2, <2>1, <2>2
<1>3. CASE r = b + Block
  BY <1>3, SumMultiple
<1> QED
  BY <1>2, <1>3, BlockAssumption

LEMMA TogetherStep == DownloadIInv /\ [DownloadNext]_downloadVars => Together'
<1> SUFFICES ASSUME DownloadIInv, [DownloadNext]_downloadVars, InStep' PROVE Together'
  BY DEF Together
<1> USE BlockAssumption DEF DownloadIInv, DownloadTypeOK, ReceiverPlace, FileKept, SenderPlace, Together, InStep, Waiting, dwSentSize, LastBlock
<1>1. ASSUME NEW n \in Lengths, Connect(n) PROVE Together'
  BY <1>1 DEF Connect, receiver, locals
<1>2. CASE TakeAck
  <2>1. InStep /\ taken = sent
    BY <1>2 DEF TakeAck, receiver, locals
  <2>2. CASE spc = "ackLength"
    <3>1. 0 % Block = 0
      BY SMT
    <3> QED
      BY <1>2, <2>1, <2>2, <3>1 DEF TakeAck, receiver, locals
  <2>3. CASE spc = "ackBlock"
    <3>1. PICK b \in Nat : LastBlock(b)
      BY <2>1, <2>3
    <3>2. dwSentSize = b + Least(length - b, Block)
      BY <3>1 DEF Least
    <3>3. dwSentSize <= length /\ (dwSentSize % Block = 0 \/ dwSentSize = length)
      <4>1. CASE length - b < Block
        BY <3>1, <3>2, <4>1 DEF Least
      <4>2. CASE Block <= length - b
        <5>1. dwSentSize = b + Block /\ b + Block \in Nat /\ b < b + Block
          BY <3>1, <3>2, <4>2 DEF Least
        <5>2. b % Block = 0 => (b + Block) % Block = 0
          BY SumMultiple
        <5> QED
          BY <3>1, <4>2, <5>1, <5>2
      <4> QED
        BY <3>1, <4>1, <4>2
    <3> QED
      BY <1>2, <2>1, <2>3, <3>3 DEF TakeAck, receiver, locals
  <2> QED
    BY <1>2, <2>2, <2>3 DEF TakeAck
<1>3. CASE SendBlock
  BY <1>3 DEF SendBlock, Least, receiver, locals
<1>4. CASE SendComplete
  BY <1>4 DEF SendComplete, line, receiver, locals
<1>5. CASE Stop
  BY <1>5 DEF Stop, receiver, locals
<1>6. CASE Arrive
  BY <1>6 DEF Arrive, sender, receiver, locals
<1>7. CASE Download
  BY <1>7 DEF Download, ClearSerialFIFO, sender
<1>8. CASE ReceiveLength
  BY <1>8 DEF ReceiveLength, Acked, Received, FIFOCount, Least, sender
<1>9. CASE LengthTimeOut
  BY <1>9 DEF LengthTimeOut, sender, line, locals
<1>10. CASE Open
  BY <1>10 DEF Open, sender, line
<1>11. CASE ReceiveData
  <2> USE <1>11 DEF ReceiveData, sender
  <2>1. InStep /\ dwDataLength = length /\ taken = start + Head + dwReceivedSize
    OBVIOUS
  <2>2. dwTempSize' \in Nat /\ dwTempSize' > 0 /\ dwTempSize' <= Block /\ taken' <= sent
    BY DEF Received, FIFOCount, Least
  <2>3. dwReceivedSize' \in Nat /\ taken' = start + Head + dwReceivedSize' /\ taken < sent
    BY <2>1, <2>2
  <2>4. spc = "ackBlock" /\ acks = 0
    BY <2>1, <2>3
  <2>5. PICK b \in Nat : LastBlock(b)
    BY <2>1, <2>4
  <2>6. b <= dwReceivedSize /\ b < dwReceivedSize' /\ dwReceivedSize' <= b + Least(length - b, Block)
    BY <2>1, <2>2, <2>3, <2>5 DEF Least
  <2>7. dwReceivedSize' <= b + Block /\ dwReceivedSize' <= length
    BY <2>5, <2>6 DEF Least
  <2>8. dwReceivedSize' % Block = 0 <=> dwReceivedSize' = b + Block
    BY <2>3, <2>5, <2>6, <2>7, NextMultiple
  <2>9. EndsBlock <=> taken' = sent
    BY <2>1, <2>3, <2>5, <2>7, <2>8 DEF EndsBlock, Least
  <2>10. acks' = IF taken' = sent THEN 1 ELSE 0
    BY <2>4, <2>9 DEF Acked
  <2>11. LastBlock(b)'
    BY <2>1, <2>2, <2>5 DEF Least
  <2> QED
    BY <2>1, <2>4, <2>10, <2>11
<1>12. CASE Write
  BY <1>12 DEF Write, sender, line, locals
<1>13. CASE DataTimeOut
  BY <1>13 DEF DataTimeOut, sender, line, locals
<1>14. CASE Close
  BY <1>14 DEF Close, sender, line, locals
<1>15. CASE UNCHANGED downloadVars
  BY <1>15 DEF downloadVars, sender, line, receiver, locals
<1> QED
  BY <1>1, <1>2, <1>3, <1>4, <1>5, <1>6, <1>7, <1>8, <1>9, <1>10, <1>11, <1>12, <1>13, <1>14, <1>15 DEF DownloadNext, Send, Receive

LEMMA DownloadInvInit == DownloadInit => DownloadIInv
  BY BlockAssumption DEF DownloadInit, DownloadIInv, DownloadTypeOK, ReceiverPlace, FileKept, SenderPlace, Together, InStep

LEMMA DownloadInvStep == DownloadIInv /\ [DownloadNext]_downloadVars => DownloadIInv'
  BY DownloadTypeStep, ReceiverStep, FileStep, SenderStep, TogetherStep DEF DownloadIInv

LEMMA DownloadSpecIInv == DownloadSpec => []DownloadIInv
<1>1. DownloadInit => DownloadIInv
  BY DownloadInvInit
<1>2. DownloadIInv /\ [DownloadNext]_downloadVars => DownloadIInv'
  BY DownloadInvStep
<1> QED
  BY <1>1, <1>2, PTL DEF DownloadSpec

\* The positions in the stream stay in order and every count is a natural
\* number: the receiver's loops never pass the end of what has arrived.
THEOREM DownloadSpecTypeOK == DownloadSpec => []DownloadTypeOK
<1>1. DownloadIInv => DownloadTypeOK
  BY DEF DownloadIInv
<1> QED
  BY <1>1, DownloadSpecIInv, PTL

\* What the two programs print is so, for every file and every way its blocks
\* come in pieces (kDownloadFile's comparison, NetworkTransfer's count).
THEOREM DownloadSpecReportsAreTrue == DownloadSpec => []ReportsAreTrue
<1>1. DownloadIInv => ReportsAreTrue
  <2> SUFFICES ASSUME DownloadIInv, InStep PROVE
        /\ verdict = "complete" /\ fault # "writeError" => written = length
        /\ spc = "done" => taken = start + Head + length
    BY DEF ReportsAreTrue
  <2> QED
    BY BlockAssumption DEF DownloadIInv, DownloadTypeOK, FileKept, SenderPlace, Together, InStep, dwSentSize
<1> QED
  BY <1>1, DownloadSpecIInv, PTL

\* An acknowledgement is never owed: when all that was sent has been received,
\* kDownloadFile has sent the byte the sender's recv waits for.
LEMMA NobodyWaits == DownloadIInv /\ InStep => NobodyWaitsInVain
  BY DEF DownloadIInv, DownloadTypeOK, Together, NobodyWaitsInVain

\* The sender never has more on its way than the serial port's FIFO holds.
LEMMA NoOverrun == DownloadIInv /\ InStep => NeverOverrun
  <1> SUFFICES ASSUME DownloadIInv, InStep PROVE sent - taken <= Block
    BY DEF NeverOverrun
  <1> USE BlockAssumption DEF DownloadIInv, DownloadTypeOK, SenderPlace, ReceiverPlace, Together, InStep
  <1>1. CASE spc = "ackBlock"
    <2>1. PICK b \in Nat : LastBlock(b)
      BY <1>1
    <2> QED
      BY <2>1 DEF LastBlock, Least
  <1>2. CASE spc # "ackBlock"
    BY <1>2
  <1> QED
    BY <1>1, <1>2

\* One block, one acknowledgement: for every block size and length the sender
\* neither waits in vain nor runs ahead (kDownloadFile's acknowledgements).
THEOREM DownloadSpecStopAndWait == DownloadSpec => []StopAndWait
<1>1. DownloadIInv => StopAndWait
  BY NobodyWaits, NoOverrun DEF StopAndWait
<1> QED
  BY <1>1, DownloadSpecIInv, PTL
=============================================================================
