------------------------------- MODULE Queue -------------------------------
(***************************************************************************)
(* The ring buffer of Queue.c: QUEUE, kIsQueueFull, kIsQueueEmpty,         *)
(* kPutQueue and kGetQueue, as operators on a record.  Full and empty both *)
(* have equal indexes; bLastOperationPut tells them apart.                 *)
(***************************************************************************)
EXTENDS Naturals, Sequences

CONSTANT iMaxDataCount  \* the capacity, KEY_MAXQUEUECOUNT for the key queue

ASSUME QueueAssumption == iMaxDataCount \in Nat \ {0}

Slots == 0 .. iMaxDataCount - 1

\* kInitializeQueue; the buffer keeps whatever it held, here junk.
EmptyQueue(junk) ==
    [pvQueueArray |-> [i \in Slots |-> junk],
     iPutIndex |-> 0, iGetIndex |-> 0, bLastOperationPut |-> FALSE]

IsQueueFull(q) == q.iGetIndex = q.iPutIndex /\ q.bLastOperationPut

IsQueueEmpty(q) == q.iGetIndex = q.iPutIndex /\ ~q.bLastOperationPut

\* Faulty: bLastOperationPut is not set.
PutQueueForgetsFlag(q, data) ==
    [q EXCEPT !.pvQueueArray = [@ EXCEPT ![q.iPutIndex] = data],
              !.iPutIndex = (@ + 1) % iMaxDataCount]

\* kPutQueue on a queue that is not full.
PutQueue(q, data) ==
    [q EXCEPT !.pvQueueArray = [@ EXCEPT ![q.iPutIndex] = data],
              !.iPutIndex = (@ + 1) % iMaxDataCount,
              !.bLastOperationPut = TRUE]

\* The item kGetQueue copies out of a queue that is not empty.
FrontOfQueue(q) == q.pvQueueArray[q.iGetIndex]

\* Faulty: the index is not wrapped.
GetQueueUnwrapped(q) ==
    [q EXCEPT !.iGetIndex = @ + 1, !.bLastOperationPut = FALSE]

\* kGetQueue on a queue that is not empty.
GetQueue(q) ==
    [q EXCEPT !.iGetIndex = (@ + 1) % iMaxDataCount,
              !.bLastOperationPut = FALSE]

-----------------------------------------------------------------------------
QueueType(Items) ==
    [pvQueueArray : [Slots -> Items], iPutIndex : Slots, iGetIndex : Slots,
     bLastOperationPut : BOOLEAN]

\* How many items the queue holds, and which, the oldest first.
QueueCount(q) ==
    IF q.iGetIndex < q.iPutIndex THEN q.iPutIndex - q.iGetIndex
    ELSE IF IsQueueEmpty(q) THEN 0
    ELSE iMaxDataCount + q.iPutIndex - q.iGetIndex

QueueItems(q) ==
    [i \in 1 .. QueueCount(q) |->
        q.pvQueueArray[(q.iGetIndex + (i - 1)) % iMaxDataCount]]
=============================================================================
