----------------------------- MODULE BuddyMemory -----------------------------
(***************************************************************************)
(* The buddy allocator of DynamicMemory.c, called by any number of tasks.  *)
(*                                                                         *)
(* The bitmaps are changed under the allocator's spinlock, one step here.  *)
(* The table of block sizes and the used size are not: the check of the    *)
(* free space, the entry into the table and the load and the store of      *)
(* qwUsedSize are steps of their own, with other tasks in between.         *)
(* Sizes and addresses count in blocks of the smallest size.               *)
(***************************************************************************)
EXTENDS Integers, FiniteSets

CONSTANTS
    Tasks,
    iBlockCountOfSmallestBlock,
    Sizes,         \* the sizes asked for
    qwStartAddress,
    WordSize       \* the number of values of a QWORD

ASSUME PoolAssumption ==
    /\ iBlockCountOfSmallestBlock \in Nat \ {0} /\ Sizes \subseteq Nat
    /\ qwStartAddress \in Nat \ {0}
    /\ WordSize \in Nat
    /\ qwStartAddress + 2 * iBlockCountOfSmallestBlock <= WordSize

VARIABLES
    pstBitmapOfLevel,          \* of each level: its free blocks, and their count
    pbAllocatedBlockListIndex, \* the level of the allocated block that starts here
    qwUsedSize,
    call,                      \* where each task is in its call, and its locals
    live                       \* the addresses allocated and not yet given back

vars == <<pstBitmapOfLevel, pbAllocatedBlockListIndex, qwUsedSize, call, live>>

Unallocated == 255

Blocks == 0 .. iBlockCountOfSmallestBlock - 1

\* Each level's blocks are twice as large as those of the one below.
BlockSize[level \in Nat] == IF level = 0 THEN 1 ELSE 2 * BlockSize[level - 1]

BlockCount(level) == iBlockCountOfSmallestBlock \div BlockSize[level]

Levels == {level \in Blocks : BlockCount(level) > 0}

\* A QWORD's 64 levels stay below the mark for no block.
ASSUME LevelAssumption == Unallocated \notin Levels

qwEndAddress == qwStartAddress + iBlockCountOfSmallestBlock

Idle == [step |-> "idle", level |-> 0, offset |-> 0, used |-> 0]

\* Of every level only a last block without a buddy is free by itself.
Init ==
    /\ pstBitmapOfLevel = [level \in Levels |->
        LET count == BlockCount(level)
        IN  [pbBitmap |-> IF count % 2 = 1 THEN {count - 1} ELSE {},
             qwExistBitCount |-> count % 2]]
    /\ pbAllocatedBlockListIndex = [block \in Blocks |-> Unallocated]
    /\ qwUsedSize = 0
    /\ call = [t \in Tasks |-> Idle]
    /\ live = {}

-----------------------------------------------------------------------------
\* kSetFlagInBitmap, on the bitmap of one level.
SetExist(bitmap, offset) ==
    IF offset \in bitmap.pbBitmap THEN bitmap
    ELSE [pbBitmap |-> bitmap.pbBitmap \cup {offset},
          qwExistBitCount |-> bitmap.qwExistBitCount + 1]

\* Faulty: the count goes down whether the bit was set or not.
SetEmptyUnseen(bitmap, offset) ==
    [pbBitmap |-> bitmap.pbBitmap \ {offset},
     qwExistBitCount |-> bitmap.qwExistBitCount - 1]

SetEmpty(bitmap, offset) ==
    IF offset \notin bitmap.pbBitmap THEN bitmap
    ELSE [pbBitmap |-> bitmap.pbBitmap \ {offset},
          qwExistBitCount |-> bitmap.qwExistBitCount - 1]

\* The levels whose blocks are large enough.
Fits(size) == {level \in Levels : size <= BlockSize[level]}

\* kGetBuddyBlockSize and kGetBlockListIndexOfMatchSize: the lowest of them.
LevelOf(size) == CHOOSE level \in Fits(size) : \A l \in Fits(size) : level <= l

\* kFindFreeBlockInBitmap: the free blocks of a level, the lowest first.
FreeBlocks(level) ==
    IF pstBitmapOfLevel[level].qwExistBitCount = 0 THEN {}
    ELSE pstBitmapOfLevel[level].pbBitmap \cap 0 .. BlockCount(level) - 1

FirstFree(level) ==
    CHOOSE offset \in FreeBlocks(level) : \A o \in FreeBlocks(level) : offset <= o

\* The level a block is taken from: the lowest from level on with a free block.
Sources(level) == {l \in Levels : l >= level /\ FreeBlocks(l) # {}}

SourceOf(level) == CHOOSE from \in Sources(level) :
    \A l \in Sources(level) : from <= l

\* The offset at a lower level of the first block of a block, and at a higher
\* level of the block around it.
FirstPart(offset, from, level) == offset * BlockSize[from - level]
Around(offset, from, level) == offset \div BlockSize[level - from]

\* Faulty: the other half of a block that is split is forgotten.
SplitForgetsHalf(level, from, offset) ==
    [pstBitmapOfLevel EXCEPT ![from] = SetEmpty(@, offset)]

\* Take a block off its level and split it down to the level asked for: of each
\* level on the way the second half of the block becomes free.
Split(level, from, offset) ==
    [l \in Levels |->
        LET bitmap == pstBitmapOfLevel[l]
            first == FirstPart(offset, from, l)
        IN  IF l = from THEN SetEmpty(bitmap, offset)
            ELSE IF l \in level .. from - 1
            THEN SetExist(SetEmpty(bitmap, first), first + 1)
            ELSE bitmap]

Buddy(offset) == IF offset % 2 = 0 THEN offset + 1 ELSE offset - 1

\* The levels kFreeBuddyBlock gets to: each whose lower ones had a free buddy.
Joined(level, offset) == {l \in Levels :
    /\ l >= level
    /\ \A k \in level .. l - 1 :
        Buddy(Around(offset, level, k)) \in pstBitmapOfLevel[k].pbBitmap}

\* Faulty: nothing is joined.
JoinNothing(level, offset) ==
    [pstBitmapOfLevel EXCEPT ![level] = SetExist(@, offset)]

\* Give a block back, joined with its buddy at every level that has it.
Join(level, offset) ==
    [l \in Levels |->
        LET bitmap == pstBitmapOfLevel[l]
            around == Around(offset, level, l)
            buddy == Buddy(around)
        IN  IF l \notin Joined(level, offset) THEN bitmap
            ELSE IF buddy \notin bitmap.pbBitmap THEN SetExist(bitmap, around)
            ELSE SetEmpty(SetEmpty(SetExist(bitmap, around), buddy), around)]

-----------------------------------------------------------------------------
At(t, step) == call[t].step = step
Go(t, step) == call' = [call EXCEPT ![t].step = step]
Return(t) == call' = [call EXCEPT ![t] = Idle]

\* kAllocateMemory fits the size to a block and looks whether that many are
\* left, by the size on record.  If not it returns NULL.
Short(level) ==
    (qwStartAddress + qwUsedSize + BlockSize[level]) % WordSize > qwEndAddress

Refuse(t, size) ==
    /\ At(t, "idle")
    /\ Fits(size) # {} => Short(LevelOf(size))
    /\ UNCHANGED vars

Allocate(t, size) ==
    /\ At(t, "idle") /\ Fits(size) # {} /\ ~Short(LevelOf(size))
    /\ call' = [call EXCEPT ![t].step = "take", ![t].level = LevelOf(size)]
    /\ UNCHANGED <<pstBitmapOfLevel, pbAllocatedBlockListIndex, qwUsedSize, live>>

\* kAllocationBuddyBlock, under the lock, when there is a block and when not.
TakeBlock(t) == LET level == call[t].level IN
    /\ At(t, "take") /\ Sources(level) # {}
    /\ LET from == SourceOf(level)
           offset == FirstFree(from)
       IN  /\ pstBitmapOfLevel' = Split(level, from, offset)
           /\ call' = [call EXCEPT ![t].step = "enter",
                                   ![t].offset = FirstPart(offset, from, level)]
    /\ UNCHANGED <<pbAllocatedBlockListIndex, qwUsedSize, live>>

NoBlock(t) ==
    /\ At(t, "take") /\ Sources(call[t].level) = {}
    /\ Return(t)
    /\ UNCHANGED <<pstBitmapOfLevel, pbAllocatedBlockListIndex, qwUsedSize, live>>

\* Where the block of t's call starts.
Start(t) == call[t].offset * BlockSize[call[t].level]

EnterSize(t) ==
    /\ At(t, "enter")
    /\ pbAllocatedBlockListIndex' =
        [pbAllocatedBlockListIndex EXCEPT ![Start(t)] = call[t].level]
    /\ Go(t, "add")
    /\ UNCHANGED <<pstBitmapOfLevel, qwUsedSize, live>>

\* qwUsedSize is loaded, and stored with the block's size added or taken away.
LoadUsed(t) ==
    /\ call[t].step \in {"add", "subtract"}
    /\ call' = [call EXCEPT ![t].used = qwUsedSize,
                            ![t].step = IF @ = "add" THEN "added" ELSE "subtracted"]
    /\ UNCHANGED <<pstBitmapOfLevel, pbAllocatedBlockListIndex, qwUsedSize, live>>

\* kAllocateMemory returns the address.
StoreAdded(t) ==
    /\ At(t, "added")
    /\ qwUsedSize' = (call[t].used + BlockSize[call[t].level]) % WordSize
    /\ live' = live \cup {Start(t)}
    /\ Return(t)
    /\ UNCHANGED <<pstBitmapOfLevel, pbAllocatedBlockListIndex>>

\* kFreeMemory takes the size from the table.  Whoever has an address may give
\* it back, once.
Free(t, address) ==
    /\ At(t, "idle") /\ address \in live
    /\ pbAllocatedBlockListIndex[address] # Unallocated
    /\ live' = live \ {address}
    /\ LET level == pbAllocatedBlockListIndex[address]
       IN  call' = [call EXCEPT ![t].step = "give", ![t].level = level,
                                ![t].offset = address \div BlockSize[level]]
    /\ pbAllocatedBlockListIndex' =
        [pbAllocatedBlockListIndex EXCEPT ![address] = Unallocated]
    /\ UNCHANGED <<pstBitmapOfLevel, qwUsedSize>>

\* kFreeBuddyBlock, under the lock.
GiveBlock(t) ==
    /\ At(t, "give")
    /\ pstBitmapOfLevel' = Join(call[t].level, call[t].offset)
    /\ Go(t, "subtract")
    /\ UNCHANGED <<pbAllocatedBlockListIndex, qwUsedSize, live>>

StoreSubtracted(t) ==
    /\ At(t, "subtracted")
    /\ qwUsedSize' = (call[t].used - BlockSize[call[t].level]) % WordSize
    /\ Return(t)
    /\ UNCHANGED <<pstBitmapOfLevel, pbAllocatedBlockListIndex, live>>

Next == \E t \in Tasks :
    \/ \E size \in Sizes : Refuse(t, size) \/ Allocate(t, size)
    \/ TakeBlock(t) \/ NoBlock(t) \/ EnterSize(t) \/ StoreAdded(t)
    \/ \E address \in live : Free(t, address)
    \/ GiveBlock(t) \/ StoreSubtracted(t) \/ LoadUsed(t)

Spec == Init /\ [][Next]_vars

-----------------------------------------------------------------------------
\* Properties

Calls ==
    [step : {"idle", "take", "enter", "add", "added", "give", "subtract",
             "subtracted"},
     level : Levels, offset : Blocks, used : 0 .. WordSize - 1]

\* Every variable has its type: no bit is set for a block that is not there,
\* and the counts of the bitmaps are right.
TypeOK ==
    /\ \A level \in Levels : LET bitmap == pstBitmapOfLevel[level] IN
        /\ bitmap.pbBitmap \subseteq 0 .. BlockCount(level) - 1
        /\ bitmap.qwExistBitCount = Cardinality(bitmap.pbBitmap)
    /\ pbAllocatedBlockListIndex \in [Blocks -> Levels \cup {Unallocated}]
    /\ qwUsedSize \in 0 .. WordSize - 1
    /\ call \in [Tasks -> Calls]
    /\ live \subseteq Blocks

\* The smallest blocks that a block of a level is made of.
Extent(level, offset) == offset * BlockSize[level] .. (offset + 1) * BlockSize[level] - 1

FreeExtents == UNION
    {{Extent(level, offset) : offset \in pstBitmapOfLevel[level].pbBitmap} : level \in Levels}

\* The tasks whose call has a block in its hands, not free and not in use.
Holders == {t \in Tasks : call[t].step \in {"enter", "add", "added", "give"}}

HeldBy(t) == Extent(call[t].level, call[t].offset)

InUse(address) == address .. address + BlockSize[pbAllocatedBlockListIndex[address]] - 1

\* Where a block in use begins, or one that kAllocateMemory has entered and is
\* about to return.
Begins == live \cup {Start(t) : t \in {u \in Tasks : call[u].step \in {"add", "added"}}}

\* Every smallest block is part of exactly one block: a free one, one that a
\* call is taking or giving back, or one in use; and the size table has an entry
\* exactly where one begins.  No memory is given to two tasks and none is lost,
\* and what kFreeMemory finds in the table is never another task's, though sizes
\* are kept outside the lock.
EveryBlockOnce ==
    /\ \A block \in Blocks :
           Cardinality({e \in FreeExtents : block \in e})
           + Cardinality({t \in Holders : block \in HeldBy(t)})
           + Cardinality({address \in live : block \in InUse(address)}) = 1
    /\ {block \in Blocks : pbAllocatedBlockListIndex[block] # Unallocated} = Begins

IsFree(block) == \E e \in FreeExtents : block \in e

\* kAllocationBuddyBlock fails only if there is no aligned run of free memory
\* of the size: freeing joins everything that can be joined.
RefusedOnlyWithoutRoom == [][\A t \in Tasks : NoBlock(t) =>
    \A offset \in 0 .. BlockCount(call[t].level) - 1 :
        \E block \in Extent(call[t].level, offset) : ~IsFree(block)]_vars
=============================================================================
