--------------------------- MODULE KeyboardProofs ---------------------------
(***************************************************************************)
(* Proofs about Keyboard, for every set of keystrokes, every queue size    *)
(* and however deep the LED exchanges nest: the ring buffer is a FIFO of   *)
(* keys that mean what was typed, and the LEDs end up as the lock states.  *)
(***************************************************************************)
EXTENDS Keyboard, SequenceTheorems, FiniteSetTheorems, TLAPS

-----------------------------------------------------------------------------
\* What the operators of Queue do to the sequence of queued items, for every
\* capacity.

\* The slot k places behind slot g.
SlotAfter(g, k) == IF g + k < iMaxDataCount THEN g + k ELSE g + k - iMaxDataCount

LEMMA Modulo ==
    ASSUME NEW a \in Nat, a < 2 * iMaxDataCount
    PROVE  a % iMaxDataCount = IF a < iMaxDataCount THEN a ELSE a - iMaxDataCount
  <1>1. CASE a < iMaxDataCount
    BY <1>1, QueueAssumption
  <1>2. CASE ~(a < iMaxDataCount)
    <2>1. a - iMaxDataCount \in 0 .. iMaxDataCount - 1 /\ a = 1 * iMaxDataCount + (a - iMaxDataCount)
      BY <1>2, QueueAssumption
    <2> QED
      BY <2>1, <1>2, QueueAssumption
  <1> QED
    BY <1>1, <1>2

\* An index that passes the end of the buffer starts again at its beginning.
LEMMA WrapAround ==
    ASSUME NEW g \in Slots, NEW k \in 0 .. iMaxDataCount
    PROVE  (g + k) % iMaxDataCount = SlotAfter(g, k) /\ SlotAfter(g, k) \in Slots
  <1>1. g + k \in Nat /\ g + k < 2 * iMaxDataCount
    BY QueueAssumption DEF Slots
  <1>2. (g + k) % iMaxDataCount
          = IF g + k < iMaxDataCount THEN g + k ELSE g + k - iMaxDataCount
    <2>1. PICK a \in Nat : a = g + k
      BY <1>1
    <2>2. a % iMaxDataCount = IF a < iMaxDataCount THEN a ELSE a - iMaxDataCount
      BY <1>1, <2>1, Modulo
    <2> QED
      BY <1>1, <2>1, <2>2, QueueAssumption DEF Slots
  <1> QED
    BY <1>2, QueueAssumption DEF SlotAfter, Slots

\* The two indexes and the flag tell how many items there are, from none to
\* as many as there are slots.
LEMMA CountBound ==
    ASSUME NEW S, NEW q \in QueueType(S)
    PROVE  /\ QueueCount(q) \in 0 .. iMaxDataCount
           /\ QueueCount(q) = iMaxDataCount <=> IsQueueFull(q)
           /\ QueueCount(q) = 0 <=> IsQueueEmpty(q)
  BY QueueAssumption
     DEF QueueType, Slots, QueueCount, IsQueueFull, IsQueueEmpty

\* QueueItems is a sequence of items, the i-th i - 1 places behind the index
\* kGetQueue reads at.
LEMMA ItemsType ==
    ASSUME NEW S, NEW q \in QueueType(S)
    PROVE  /\ QueueItems(q) \in Seq(S)
           /\ Len(QueueItems(q)) = QueueCount(q)
           /\ \A i \in 1 .. QueueCount(q) :
                QueueItems(q)[i] = q.pvQueueArray[SlotAfter(q.iGetIndex, i - 1)]
  <1>1. QueueCount(q) \in 0 .. iMaxDataCount
    BY CountBound
  <1>2. q.iGetIndex \in Slots /\ q.pvQueueArray \in [Slots -> S]
    BY DEF QueueType
  <1>3. ASSUME NEW i \in 1 .. QueueCount(q)
        PROVE  /\ (q.iGetIndex + (i - 1)) % iMaxDataCount
                    = SlotAfter(q.iGetIndex, i - 1)
               /\ SlotAfter(q.iGetIndex, i - 1) \in Slots
    <2>1. i - 1 \in 0 .. iMaxDataCount
      BY <1>1, QueueAssumption
    <2> QED
      BY <1>2, <2>1, WrapAround
  <1>4. QueueItems(q) \in [1 .. QueueCount(q) -> S]
    BY <1>2, <1>3 DEF QueueItems
  <1>5. \A i \in 1 .. QueueCount(q) :
          QueueItems(q)[i] = q.pvQueueArray[SlotAfter(q.iGetIndex, i - 1)]
    BY <1>3 DEF QueueItems
  <1>6. QueueCount(q) \in Nat
    BY <1>1, QueueAssumption
  <1> QED
    BY <1>4, <1>5, <1>6

-----------------------------------------------------------------------------
LEMMA PutFields ==
    ASSUME NEW S, NEW q \in QueueType(S), NEW d \in S
    PROVE  /\ PutQueue(q, d) \in QueueType(S)
           /\ PutQueue(q, d).iPutIndex = SlotAfter(q.iPutIndex, 1)
           /\ PutQueue(q, d).iGetIndex = q.iGetIndex
           /\ PutQueue(q, d).bLastOperationPut = TRUE
  <1>1. q.iPutIndex \in Slots
    BY DEF QueueType
  <1>2. 1 \in 0 .. iMaxDataCount
    BY QueueAssumption
  <1>3. /\ (q.iPutIndex + 1) % iMaxDataCount = SlotAfter(q.iPutIndex, 1)
        /\ SlotAfter(q.iPutIndex, 1) \in Slots
    BY <1>1, <1>2, WrapAround
  <1> QED
    BY <1>3 DEF PutQueue, QueueType

LEMMA PutArray ==
    ASSUME NEW S, NEW q \in QueueType(S), NEW d \in S
    PROVE  PutQueue(q, d).pvQueueArray = [q.pvQueueArray EXCEPT ![q.iPutIndex] = d]
  BY DEF PutQueue, QueueType

\* A put fills the slot behind the last item.
LEMMA PutSlot ==
    ASSUME NEW S, NEW q \in QueueType(S), NEW d \in S, ~IsQueueFull(q)
    PROVE  /\ QueueCount(q) \in 0 .. iMaxDataCount - 1
           /\ SlotAfter(q.iGetIndex, QueueCount(q)) = q.iPutIndex
           /\ QueueCount(PutQueue(q, d)) = QueueCount(q) + 1
  <1>1. /\ q.iPutIndex \in Slots /\ q.iGetIndex \in Slots
        /\ q.bLastOperationPut \in BOOLEAN
    BY DEF QueueType
  <1>2. /\ QueueCount(q) \in 0 .. iMaxDataCount - 1
        /\ SlotAfter(q.iGetIndex, QueueCount(q)) = q.iPutIndex
    BY <1>1, QueueAssumption
       DEF QueueCount, SlotAfter, IsQueueFull, IsQueueEmpty, Slots
  <1>3. QueueCount(PutQueue(q, d))
          = IF q.iGetIndex < SlotAfter(q.iPutIndex, 1)
            THEN SlotAfter(q.iPutIndex, 1) - q.iGetIndex
            ELSE iMaxDataCount + SlotAfter(q.iPutIndex, 1) - q.iGetIndex
    <2>1. /\ PutQueue(q, d).iPutIndex = SlotAfter(q.iPutIndex, 1)
          /\ PutQueue(q, d).iGetIndex = q.iGetIndex
          /\ PutQueue(q, d).bLastOperationPut = TRUE
      BY PutFields
    <2>2. ~IsQueueEmpty(PutQueue(q, d))
      BY <2>1 DEF IsQueueEmpty
    <2> QED
      BY <2>1, <2>2 DEF QueueCount
  <1> QED
    BY <1>1, <1>2, <1>3, QueueAssumption
       DEF QueueCount, SlotAfter, IsQueueFull, IsQueueEmpty, Slots

\* kPutQueue puts the item behind the others and keeps every one of them.
LEMMA PutAppends ==
    ASSUME NEW S, NEW q \in QueueType(S), NEW d \in S, ~IsQueueFull(q)
    PROVE  QueueItems(PutQueue(q, d)) = Append(QueueItems(q), d)
  <1>1. /\ QueueItems(q) \in Seq(S)
        /\ Len(QueueItems(q)) = QueueCount(q)
        /\ \A i \in 1 .. QueueCount(q) :
              QueueItems(q)[i] = q.pvQueueArray[SlotAfter(q.iGetIndex, i - 1)]
    BY ItemsType
  <1>2. /\ QueueItems(PutQueue(q, d)) \in Seq(S)
        /\ Len(QueueItems(PutQueue(q, d))) = QueueCount(q) + 1
        /\ \A i \in 1 .. QueueCount(q) + 1 :
              QueueItems(PutQueue(q, d))[i]
                = [q.pvQueueArray EXCEPT ![q.iPutIndex] = d][SlotAfter(q.iGetIndex, i - 1)]
    <2>1. PutQueue(q, d) \in QueueType(S)
      BY PutFields
    <2>2. \A i \in 1 .. QueueCount(PutQueue(q, d)) :
            QueueItems(PutQueue(q, d))[i]
              = PutQueue(q, d).pvQueueArray[
                    SlotAfter(PutQueue(q, d).iGetIndex, i - 1)]
      BY <2>1, ItemsType
    <2>3. /\ QueueItems(PutQueue(q, d)) \in Seq(S)
          /\ Len(QueueItems(PutQueue(q, d))) = QueueCount(PutQueue(q, d))
      BY <2>1, ItemsType
    <2>4. /\ QueueCount(PutQueue(q, d)) = QueueCount(q) + 1
          /\ PutQueue(q, d).iGetIndex = q.iGetIndex
      BY PutFields, PutSlot
    <2>5. PutQueue(q, d).pvQueueArray = [q.pvQueueArray EXCEPT ![q.iPutIndex] = d]
      BY PutArray
    <2> QED
      BY <2>2, <2>3, <2>4, <2>5
  <1>3. q.iPutIndex \in Slots /\ q.iGetIndex \in Slots /\ q.pvQueueArray \in [Slots -> S]
    BY DEF QueueType
  <1>4. /\ QueueCount(q) \in 0 .. iMaxDataCount - 1
        /\ SlotAfter(q.iGetIndex, QueueCount(q)) = q.iPutIndex
    BY PutSlot
  <1>5. ASSUME NEW i \in 1 .. QueueCount(q)
        PROVE  /\ SlotAfter(q.iGetIndex, i - 1) \in Slots
               /\ SlotAfter(q.iGetIndex, i - 1) # q.iPutIndex
    BY <1>3, <1>4, QueueAssumption DEF SlotAfter, Slots
  <1>6. ASSUME NEW i \in 1 .. QueueCount(q) + 1
        PROVE  QueueItems(PutQueue(q, d))[i] = Append(QueueItems(q), d)[i]
    <2>1. CASE i = QueueCount(q) + 1
      <3>1. i - 1 = QueueCount(q)
        BY <1>4, <2>1, QueueAssumption
      <3>2. QueueItems(PutQueue(q, d))[i] = d
        BY <1>2, <1>3, <1>4, <3>1
      <3> QED
        BY <1>1, <2>1, <3>2, AppendProperties
    <2>2. CASE i # QueueCount(q) + 1
      <3>1. i \in 1 .. QueueCount(q)
        BY <1>4, <2>2, QueueAssumption
      <3>2. QueueItems(PutQueue(q, d))[i] = q.pvQueueArray[SlotAfter(q.iGetIndex, i - 1)]
        BY <1>2, <1>3, <1>5, <3>1
      <3> QED
        BY <1>1, <3>1, <3>2, AppendProperties
    <2> QED
      BY <2>1, <2>2
  <1>7. /\ Append(QueueItems(q), d) \in Seq(S)
        /\ Len(Append(QueueItems(q), d)) = QueueCount(q) + 1
    BY <1>1, AppendProperties
  <1> QED
    BY <1>2, <1>6, <1>7, SeqEqual

-----------------------------------------------------------------------------
LEMMA GetFields ==
    ASSUME NEW S, NEW q \in QueueType(S)
    PROVE  /\ GetQueue(q) \in QueueType(S)
           /\ GetQueue(q).pvQueueArray = q.pvQueueArray
           /\ GetQueue(q).iPutIndex = q.iPutIndex
           /\ GetQueue(q).iGetIndex = SlotAfter(q.iGetIndex, 1)
           /\ GetQueue(q).bLastOperationPut = FALSE
  <1>1. q.iGetIndex \in Slots
    BY DEF QueueType
  <1>2. 1 \in 0 .. iMaxDataCount
    BY QueueAssumption
  <1>3. /\ (q.iGetIndex + 1) % iMaxDataCount = SlotAfter(q.iGetIndex, 1)
        /\ SlotAfter(q.iGetIndex, 1) \in Slots
    BY <1>1, <1>2, WrapAround
  <1> QED
    BY <1>3 DEF GetQueue, QueueType

\* A get leaves one item less, the first one slot further on.
LEMMA GetSlot ==
    ASSUME NEW S, NEW q \in QueueType(S), ~IsQueueEmpty(q)
    PROVE  /\ QueueCount(q) \in 1 .. iMaxDataCount
           /\ QueueCount(GetQueue(q)) = QueueCount(q) - 1
  <1>1. /\ q.iPutIndex \in Slots /\ q.iGetIndex \in Slots
        /\ q.bLastOperationPut \in BOOLEAN
    BY DEF QueueType
  <1>2. QueueCount(GetQueue(q))
          = IF SlotAfter(q.iGetIndex, 1) < q.iPutIndex
            THEN q.iPutIndex - SlotAfter(q.iGetIndex, 1)
            ELSE IF SlotAfter(q.iGetIndex, 1) = q.iPutIndex THEN 0
            ELSE iMaxDataCount + q.iPutIndex - SlotAfter(q.iGetIndex, 1)
    BY GetFields DEF QueueCount, IsQueueEmpty
  <1> QED
    BY <1>1, <1>2, QueueAssumption DEF QueueCount, SlotAfter, IsQueueEmpty, Slots

\* kGetQueue hands out the oldest item and keeps the others.
LEMMA GetTakesFirst ==
    ASSUME NEW S, NEW q \in QueueType(S), ~IsQueueEmpty(q)
    PROVE  /\ QueueItems(q) # << >>
           /\ FrontOfQueue(q) = Head(QueueItems(q))
           /\ QueueItems(GetQueue(q)) = Tail(QueueItems(q))
  <1>1. /\ QueueItems(q) \in Seq(S)
        /\ Len(QueueItems(q)) = QueueCount(q)
        /\ \A i \in 1 .. QueueCount(q) :
              QueueItems(q)[i] = q.pvQueueArray[SlotAfter(q.iGetIndex, i - 1)]
    BY ItemsType
  <1>2. QueueCount(q) \in 1 .. iMaxDataCount
    BY GetSlot
  <1>3. /\ QueueItems(GetQueue(q)) \in Seq(S)
        /\ Len(QueueItems(GetQueue(q))) = QueueCount(q) - 1
        /\ \A i \in 1 .. QueueCount(q) - 1 :
              QueueItems(GetQueue(q))[i]
                = q.pvQueueArray[SlotAfter(SlotAfter(q.iGetIndex, 1), i - 1)]
    <2>1. GetQueue(q) \in QueueType(S)
      BY GetFields
    <2>2. \A i \in 1 .. QueueCount(GetQueue(q)) :
            QueueItems(GetQueue(q))[i]
              = GetQueue(q).pvQueueArray[SlotAfter(GetQueue(q).iGetIndex, i - 1)]
      BY <2>1, ItemsType
    <2>3. /\ QueueItems(GetQueue(q)) \in Seq(S)
          /\ Len(QueueItems(GetQueue(q))) = QueueCount(GetQueue(q))
      BY <2>1, ItemsType
    <2>4. /\ QueueCount(GetQueue(q)) = QueueCount(q) - 1
          /\ GetQueue(q).iGetIndex = SlotAfter(q.iGetIndex, 1)
          /\ GetQueue(q).pvQueueArray = q.pvQueueArray
      BY GetFields, GetSlot
    <2> QED
      BY <2>2, <2>3, <2>4
  <1>4. q.iGetIndex \in Slots
    BY DEF QueueType
  <1>5. QueueItems(q) # << >>
    BY <1>1, <1>2, EmptySeq
  <1>6. FrontOfQueue(q) = Head(QueueItems(q))
    <2>1. 1 \in 1 .. QueueCount(q)
      BY <1>2
    <2>2. SlotAfter(q.iGetIndex, 1 - 1) = q.iGetIndex
      BY <1>4, QueueAssumption DEF SlotAfter, Slots
    <2>3. QueueItems(q)[1] = q.pvQueueArray[q.iGetIndex]
      BY <1>1, <2>1, <2>2
    <2> QED
      BY <1>1, <1>5, <2>3 DEF FrontOfQueue
  <1>7. /\ Tail(QueueItems(q)) \in Seq(S)
        /\ Len(Tail(QueueItems(q))) = QueueCount(q) - 1
        /\ \A i \in 1 .. QueueCount(q) - 1 :
              Tail(QueueItems(q))[i] = QueueItems(q)[i + 1]
    BY <1>1, <1>5, HeadTailProperties
  <1>8. ASSUME NEW i \in 1 .. QueueCount(q) - 1
        PROVE  QueueItems(GetQueue(q))[i] = Tail(QueueItems(q))[i]
    <2>1. i + 1 \in 1 .. QueueCount(q) /\ (i + 1) - 1 = i
      BY <1>2
    <2>2. SlotAfter(SlotAfter(q.iGetIndex, 1), i - 1) = SlotAfter(q.iGetIndex, i)
      BY <1>2, <1>4, QueueAssumption DEF SlotAfter, Slots
    <2>3. QueueItems(q)[i + 1] = q.pvQueueArray[SlotAfter(q.iGetIndex, i)]
      BY <1>1, <2>1
    <2> QED
      BY <1>3, <1>7, <2>2, <2>3
  <1>9. QueueItems(GetQueue(q)) = Tail(QueueItems(q))
    BY <1>3, <1>7, <1>8, SeqEqual
  <1> QED
    BY <1>5, <1>6, <1>9

\* A queue just initialised holds nothing.
LEMMA EmptyQueueHoldsNothing ==
    ASSUME NEW S, NEW junk \in S
    PROVE  EmptyQueue(junk) \in QueueType(S) /\ QueueItems(EmptyQueue(junk)) = << >>
  <1>1. EmptyQueue(junk) \in QueueType(S)
    BY QueueAssumption DEF EmptyQueue, QueueType, Slots
  <1>2. QueueCount(EmptyQueue(junk)) = 0
    BY DEF EmptyQueue, QueueCount, IsQueueEmpty
  <1>3. /\ QueueItems(EmptyQueue(junk)) \in Seq(S)
        /\ Len(QueueItems(EmptyQueue(junk))) = 0
    BY <1>1, <1>2, ItemsType
  <1> QED
    BY <1>1, <1>3, EmptySeq

-----------------------------------------------------------------------------
Bytes == 0 .. 255

-----------------------------------------------------------------------------
\* What the operators of the driver return.

LEMMA ManagerType ==
    ASSUME NEW m \in Managers, NEW byte \in Bytes
    PROVE  NextManager(m, byte) \in Managers
  <1> DEFINE cleared == [m EXCEPT !.bExtendedCodeIn = FALSE]
             shift == [cleared EXCEPT !.bShiftDown =
                          IF Code(byte) \in Shifts THEN Down(byte) ELSE @]
             caps == [shift EXCEPT !.bCapsLockOn =
                          IF byte = CapsLock THEN ~@ ELSE @]
             num == [caps EXCEPT !.bNumLockOn =
                          IF byte = NumLock THEN ~@ ELSE @]
             scroll == [num EXCEPT !.bScrollLockOn =
                          IF byte = ScrollLock THEN TRUE ELSE @]
  <1>1. cleared \in Managers
    BY DEF Managers
  <1>2. CombinationKeyStatus(cleared, byte) \in Managers
    <2> HIDE DEF cleared
    <2>1. Down(byte) \in BOOLEAN
      BY DEF Down
    <2>2. shift \in Managers
      BY <1>1, <2>1 DEF Managers
    <2>3. caps \in Managers
      <3> HIDE DEF shift
      <3> QED
        BY <2>2 DEF Managers
    <2>4. num \in Managers
      <3> HIDE DEF caps
      <3> QED
        BY <2>3 DEF Managers
    <2>5. scroll \in Managers
      <3> HIDE DEF num
      <3> QED
        BY <2>4 DEF Managers
    <2>6. CombinationKeyStatus(cleared, byte) = scroll
      BY <1>1 DEF CombinationKeyStatus, Managers
    <2> QED
      BY <2>5, <2>6
  <1>3. [m EXCEPT !.bExtendedCodeIn = TRUE] \in Managers
    BY DEF Managers
  <1>4. [m EXCEPT !.iSkipCountForPause = SkipCountForPause] \in Managers
    BY DEF Managers, SkipCountForPause
  <1>5. ASSUME m.iSkipCountForPause > 0
        PROVE  [m EXCEPT !.iSkipCountForPause = @ - 1] \in Managers
    <2>1. m.iSkipCountForPause - 1 \in 0 .. SkipCountForPause
      BY <1>5 DEF Managers, SkipCountForPause
    <2> QED
      BY <2>1 DEF Managers
  <1> QED
    BY <1>2, <1>3, <1>4, <1>5 DEF NextManager

LEMMA LEDType ==
    ASSUME NEW m \in Managers
    PROVE  LEDByte(m) \in 0 .. 7
  BY DEF LEDByte, Flag, Managers

LEMMA KeyType ==
    ASSUME NEW m \in Managers, NEW byte \in Bytes, Len(scans) \in Nat
    PROVE  Key(m, byte) \in Keys /\ Key(m, byte).scan = byte
           /\ Key(m, byte).no = Len(scans) + 1
  <1>1. Column(m, Code(byte)) \in {"normal", "combined", "outside"}
    BY DEF Column
  <1>2. Down(byte) \in BOOLEAN /\ m.bExtendedCodeIn \in BOOLEAN
    BY DEF Down, Managers
  <1>3. byte \in Nat
    BY DEF Bytes
  <1> QED
    BY <1>1, <1>2, <1>3 DEF Key, Keys

-----------------------------------------------------------------------------
\* The stack of calls.

LEMMA TopAndBelow ==
    ASSUME stack \in Seq(Frames), stack # << >>
    PROVE  /\ Len(stack) \in Nat \ {0} /\ Top \in Frames
           /\ Below \in Seq(Frames) /\ Len(Below) = Len(stack) - 1
           /\ \A i \in 1 .. Len(Below) : Below[i] = stack[i]
  <1>1. Len(stack) \in Nat \ {0}
    BY EmptySeq
  <1>2. Top \in Frames
    BY <1>1, ElementOfSeq DEF Top
  <1>3. \A i \in 1 .. Len(stack) - 1 : stack[i] \in Frames
    BY <1>1, ElementOfSeq
  <1>4. /\ Below \in Seq(Frames) /\ Len(Below) = Len(stack) - 1
        /\ \A i \in 1 .. Len(stack) - 1 : Below[i] = stack[i]
    <2>1. PICK k \in Nat : k = Len(stack) - 1
      BY <1>1
    <2>2. Below = SubSeq(stack, 1, k)
      BY <2>1 DEF Below
    <2>3. \A i \in 1 .. k : stack[i] \in Frames
      BY <1>3, <2>1
    <2>4. /\ SubSeq(stack, 1, k) \in Seq(Frames)
          /\ Len(SubSeq(stack, 1, k)) = IF 1 <= k THEN k - 1 + 1 ELSE 0
          /\ \A i \in 1 .. k - 1 + 1 : SubSeq(stack, 1, k)[i] = stack[1 + i - 1]
      BY <2>3, SubSeqProperties
    <2>5. Len(Below) = k
      BY <2>2, <2>4
    <2>6. ASSUME NEW i \in 1 .. k PROVE Below[i] = stack[i]
      <3>1. i \in 1 .. k - 1 + 1 /\ 1 + i - 1 = i
        OBVIOUS
      <3> QED
        BY <2>2, <2>4, <3>1
    <2> QED
      BY <2>1, <2>2, <2>4, <2>5, <2>6
  <1> QED
    BY <1>1, <1>2, <1>4

LEMMA SetTopFrame ==
    ASSUME stack \in Seq(Frames), stack # << >>, NEW f \in Frames
    PROVE  /\ SetTop(f) \in Seq(Frames) /\ Len(SetTop(f)) = Len(stack)
           /\ SetTop(f)[Len(stack)] = f
           /\ \A i \in 1 .. Len(stack) - 1 : SetTop(f)[i] = stack[i]
  BY TopAndBelow, AppendProperties DEF SetTop

-----------------------------------------------------------------------------
\* The calls in progress: all but the innermost wait for an acknowledgement, a
\* call that changes the LEDs was made for a lock key or by Main, and a key of
\* any other kind about to be put in the queue is the one read last.

Exchange == {"command", "commandACK", "value", "valueACK"}

FrameInv(f, read, put) ==
    /\ f.key.no <= read
    /\ f.step \in Exchange => IsLockPress(f.key.scan) \/ f.key = NoKey
    /\ f.step = "activate" => f.key = NoKey
    /\ f.step = "put" => IsLockPress(f.key.scan) \/ (f.key.no = read /\ put < read)

StackInv ==
    /\ newest <= Len(scans)
    /\ \A i \in 1 .. Len(stack) : FrameInv(stack[i], Len(scans), newest)
    /\ \A i \in 1 .. Len(stack) - 1 : stack[i].step \in Waits

IInv == TypeOK /\ StackInv

LEMMA InitIInv == Init => IInv
  <1> SUFFICES ASSUME Init PROVE IInv
    OBVIOUS
  <1>1. NoKey \in Keys
    BY DEF NoKey, Keys
  <1>2. gs_stKeyQueue \in QueueType(Keys)
    BY <1>1, EmptyQueueHoldsNothing DEF Init
  <1>3. stack \in Seq(Frames) /\ Len(stack) = 1 /\ stack[1].step = "activate"
        /\ stack[1].key = NoKey
    BY <1>1, BoundsAssumption DEF Init, Frames, Waits
  <1>4. TypeOK
    <2>1. gs_stKeyboardManager \in Managers
      BY DEF Init, Managers, SkipCountForPause
    <2>2. output \in Seq(0 .. 255) /\ scans \in Seq(0 .. 255)
      BY EmptySeq DEF Init
    <2>3. input \in Seq(0 .. 255)
      BY DEF Init, Activate
    <2>4. leds = 0 /\ typed = 0 /\ port = 0 /\ refused = 0 /\ newest = 0
          /\ activated = 0
      BY DEF Init
    <2>5. got \in Keys
      BY <1>1 DEF Init
    <2>6. expectsLEDs \in BOOLEAN
      BY DEF Init
    <2> QED
      BY <1>2, <1>3, <2>1, <2>2, <2>3, <2>4, <2>5, <2>6 DEF TypeOK
  <1>5. StackInv
    <2>1. newest = 0 /\ Len(scans) = 0
      BY EmptySeq DEF Init
    <2>2. NoKey.no = 0
      BY DEF NoKey
    <2>3. FrameInv(stack[1], Len(scans), newest)
      BY <1>3, <2>1, <2>2 DEF FrameInv, Exchange
    <2> QED
      BY <1>3, <2>1, <2>3 DEF StackInv
  <1> QED
    BY <1>4, <1>5 DEF IInv

\* A byte converted on top of calls that wait leaves such a stack again.
LEMMA ConvertKeepsIInv ==
    ASSUME IInv, NEW byte \in Bytes, NEW rest \in Seq(Frames), Convert(byte, rest),
           \A i \in 1 .. Len(rest) :
                FrameInv(rest[i], Len(scans), newest) /\ rest[i].step \in Waits
    PROVE  /\ gs_stKeyboardManager' \in Managers /\ stack' \in Seq(Frames)
           /\ scans' \in Seq(Bytes) /\ StackInv'
  <1> DEFINE m == gs_stKeyboardManager
             n == NextManager(m, byte)
             frame == [step |-> IF IsLockPress(byte) THEN "command" ELSE "put",
                       tries |-> 0, led |-> LEDByte(n), key |-> Key(m, byte)]
  <1>1. /\ m \in Managers /\ scans \in Seq(Bytes) /\ newest \in Nat
        /\ newest <= Len(scans)
    BY DEF IInv, TypeOK, StackInv, Bytes
  <1>2. n \in Managers
    BY <1>1, ManagerType
  <1>3. /\ scans' = Append(scans, byte) /\ gs_stKeyboardManager' = n
        /\ newest' = newest
    BY DEF Convert
  <1>4. scans' \in Seq(Bytes) /\ Len(scans') = Len(scans) + 1 /\ Len(scans) \in Nat
    BY <1>1, <1>3, AppendProperties, EmptySeq, LenProperties
  <1>5. Key(m, byte) \in Keys /\ Key(m, byte).scan = byte
        /\ Key(m, byte).no = Len(scans) + 1
    BY <1>1, <1>4, KeyType
  <1>6. frame \in Frames
    <2>1. LEDByte(n) \in 0 .. 7
      BY <1>2, LEDType
    <2>2. 0 \in 0 .. MaxTries
      BY BoundsAssumption
    <2> QED
      BY <1>5, <2>1, <2>2 DEF Frames
  <1>7. FrameInv(frame, Len(scans'), newest')
    <2> DEFINE k == Key(m, byte)
    <2>1. /\ frame.key = k /\ k.scan = byte /\ k.no = Len(scans')
          /\ newest' < Len(scans')
          /\ IF IsLockPress(byte) THEN frame.step = "command" ELSE frame.step = "put"
      BY <1>1, <1>3, <1>4, <1>5
    <2> QED
      BY <1>4, <2>1 DEF FrameInv, Exchange
  <1>8. ASSUME NEW i \in 1 .. Len(rest) PROVE FrameInv(rest[i], Len(scans'), newest')
    <2>1. FrameInv(rest[i], Len(scans), newest) /\ rest[i].step \in Waits
      OBVIOUS
    <2>2. rest[i].key.no \in Nat
      <3>1. rest[i] \in Frames
        BY ElementOfSeq
      <3> QED
        BY <3>1 DEF Frames, Keys
    <2> QED
      BY <1>4, <2>1, <2>2 DEF FrameInv, Waits
  <1>9. Len(rest) \in Nat
    BY EmptySeq, LenProperties
  <1>10. newest' <= Len(scans')
    BY <1>1, <1>3, <1>4
  <1>11. CASE MakesNoKey(m, byte)
    <2>1. stack' = rest
      BY <1>11 DEF Convert
    <2>2. StackInv'
      BY <1>8, <1>9, <1>10, <2>1 DEF StackInv
    <2> QED
      BY <1>2, <1>3, <1>4, <2>1, <2>2
  <1>12. CASE ~MakesNoKey(m, byte)
    <2>1. stack' = Append(rest, frame)
      BY <1>12 DEF Convert
    <2>2. /\ stack' \in Seq(Frames) /\ Len(stack') = Len(rest) + 1
          /\ \A i \in 1 .. Len(rest) : stack'[i] = rest[i]
          /\ stack'[Len(rest) + 1] = frame
      BY <1>6, <2>1, AppendProperties
    <2> HIDE DEF frame
    <2>3. ASSUME NEW i \in 1 .. Len(stack') PROVE FrameInv(stack'[i], Len(scans'), newest')
      <3>1. CASE i = Len(rest) + 1
        BY <1>7, <2>2, <3>1
      <3>2. CASE i # Len(rest) + 1
        BY <1>8, <1>9, <2>2, <3>2
      <3> QED
        BY <3>1, <3>2
    <2>4. \A i \in 1 .. Len(stack') - 1 : stack'[i].step \in Waits
      BY <1>9, <2>2
    <2> QED
      BY <1>2, <1>3, <1>4, <1>10, <2>2, <2>3, <2>4 DEF StackInv
  <1> QED
    BY <1>11, <1>12

\* So does a step of the innermost call that keeps its key,
LEMMA SetTopKeepsIInv ==
    ASSUME IInv, stack # << >>, UNCHANGED <<scans, newest>>,
           NEW f \in Frames, stack' = SetTop(f), f.key = Top.key,
           f.step \in Exchange => IsLockPress(f.key.scan) \/ f.key = NoKey,
           f.step = "put" => IsLockPress(f.key.scan),
           f.step = "activate" => f.key = NoKey
    PROVE  stack' \in Seq(Frames) /\ StackInv'
  <1>1. /\ stack \in Seq(Frames) /\ StackInv /\ newest' = newest /\ scans' = scans
    BY DEF IInv, TypeOK
  <1>2. /\ Len(stack) \in Nat \ {0} /\ Top = stack[Len(stack)]
        /\ stack' \in Seq(Frames) /\ Len(stack') = Len(stack)
        /\ stack'[Len(stack)] = f
        /\ \A i \in 1 .. Len(stack) - 1 : stack'[i] = stack[i]
    BY <1>1, TopAndBelow, SetTopFrame DEF Top
  <1>3. FrameInv(f, Len(scans), newest)
    <2>1. FrameInv(Top, Len(scans), newest)
      BY <1>1, <1>2 DEF StackInv
    <2> QED
      BY <2>1 DEF FrameInv
  <1>4. ASSUME NEW i \in 1 .. Len(stack') PROVE FrameInv(stack'[i], Len(scans'), newest')
    <2>1. CASE i = Len(stack)
      BY <1>1, <1>2, <1>3, <2>1
    <2>2. CASE i # Len(stack)
      <3>1. i \in 1 .. Len(stack) - 1 /\ i \in 1 .. Len(stack)
        BY <1>2, <2>2
      <3> QED
        BY <1>1, <1>2, <3>1 DEF StackInv
    <2> QED
      BY <2>1, <2>2
  <1>5. \A i \in 1 .. Len(stack') - 1 : stack'[i].step \in Waits
    BY <1>1, <1>2 DEF StackInv
  <1> QED
    BY <1>1, <1>2, <1>4, <1>5 DEF StackInv

\* and its return.
LEMMA ReturnKeepsIInv ==
    ASSUME IInv, stack # << >>, stack' = Below, UNCHANGED scans,
           newest' \in Nat, newest' <= Len(scans)
    PROVE  stack' \in Seq(Frames) /\ StackInv'
  <1>1. stack \in Seq(Frames) /\ StackInv /\ scans' = scans
    BY DEF IInv, TypeOK
  <1>2. /\ Len(stack) \in Nat \ {0}
        /\ stack' \in Seq(Frames) /\ Len(stack') = Len(stack) - 1
        /\ \A i \in 1 .. Len(stack) - 1 : stack'[i] = stack[i]
    BY <1>1, TopAndBelow
  <1>3. ASSUME NEW i \in 1 .. Len(stack) - 1
        PROVE  FrameInv(stack[i], Len(scans), newest') /\ stack[i].step \in Waits
    <2>1. i \in 1 .. Len(stack)
      BY <1>2
    <2>2. FrameInv(stack[i], Len(scans), newest) /\ stack[i].step \in Waits
      BY <1>1, <2>1 DEF StackInv
    <2> QED
      BY <2>2 DEF FrameInv, Waits
  <1> QED
    BY <1>1, <1>2, <1>3 DEF StackInv

LEMMA AfterWaitKeepsIInv ==
    ASSUME IInv, Running(Waits), UNCHANGED <<scans, newest>>, NEW b \in BOOLEAN,
           AfterWait(b)
    PROVE  stack' \in Seq(Frames) /\ StackInv' /\ activated' \in Nat
  <1>1. stack # << >> /\ Top.step \in Waits
    BY DEF Running
  <1>2. /\ stack \in Seq(Frames) /\ newest \in Nat /\ newest <= Len(scans)
        /\ newest' = newest /\ scans' = scans
    BY DEF IInv, TypeOK, StackInv
  <1>3. Top \in Frames
    BY <1>1, <1>2, TopAndBelow
  <1>4. FrameInv(Top, Len(scans), newest)
    BY <1>1, <1>2, TopAndBelow DEF IInv, StackInv, Top
  <1>5. activated' \in Nat
    BY LenProperties DEF AfterWait, IInv, TypeOK
  <1>6. ASSUME stack' = Below PROVE stack' \in Seq(Frames) /\ StackInv'
    BY <1>1, <1>2, <1>6, ReturnKeepsIInv
  <1>7. ASSUME NEW to \in {"value", "put", "failed"},
               stack' = SetTop([Top EXCEPT !.step = to]),
               to = "value" => IsLockPress(Top.key.scan) \/ Top.key = NoKey,
               to = "put" => IsLockPress(Top.key.scan)
        PROVE  stack' \in Seq(Frames) /\ StackInv'
    <2> DEFINE f == [Top EXCEPT !.step = to]
    <2>1. f \in Frames /\ f.key = Top.key /\ f.step = to
      BY <1>3 DEF Frames
    <2> HIDE DEF f
    <2>2. stack' = SetTop(f)
      BY <1>7 DEF f
    <2>3. /\ f.step \in Exchange => IsLockPress(f.key.scan) \/ f.key = NoKey
          /\ f.step = "put" => IsLockPress(f.key.scan)
          /\ f.step = "activate" => f.key = NoKey
      BY <1>7, <2>1 DEF Exchange
    <2> QED
      BY <1>1, <1>2, <2>1, <2>2, <2>3, SetTopKeepsIInv
  <1>8. CASE Top.step = "activate"
    <2>1. CASE b
      <3> DEFINE g == [Top EXCEPT !.step = "command"]
                 f == [g EXCEPT !.tries = 0]
      <3>1. g \in Frames /\ g.key = Top.key /\ g.step = "command"
        BY <1>3 DEF Frames
      <3>2. f \in Frames /\ f.key = Top.key /\ f.step = "command"
        <4> HIDE DEF g
        <4>1. 0 \in 0 .. MaxTries
          BY BoundsAssumption
        <4> QED
          BY <3>1, <4>1 DEF Frames
      <3>3. f = [Top EXCEPT !.step = "command", !.tries = 0]
        BY <1>3 DEF Frames
      <3>4. stack' = SetTop(f)
        BY <1>8, <2>1, <3>3 DEF AfterWait
      <3>5. Top.key = NoKey
        BY <1>4, <1>8 DEF FrameInv
      <3> HIDE DEF f
      <3> QED
        BY <1>1, <1>2, <1>5, <3>2, <3>4, <3>5, SetTopKeepsIInv
    <2>2. CASE ~b
      <3>1. stack' = SetTop([Top EXCEPT !.step = "failed"])
        BY <1>8, <2>2 DEF AfterWait
      <3> QED
        BY <1>5, <1>7, <3>1
    <2> QED
      BY <2>1, <2>2
  <1>9. CASE Top.step # "activate"
    <2>1. IsLockPress(Top.key.scan) \/ Top.key = NoKey
      BY <1>1, <1>4, <1>9 DEF FrameInv, Exchange, Waits
    <2>2. \/ stack' = SetTop([Top EXCEPT !.step = "value"])
          \/ stack' = Below
          \/ Top.key # NoKey /\ stack' = SetTop([Top EXCEPT !.step = "put"])
      BY <1>9 DEF AfterWait
    <2> QED
      BY <1>5, <1>6, <1>7, <2>1, <2>2
  <1> QED
    BY <1>8, <1>9

-----------------------------------------------------------------------------
\* Each step keeps the invariant.

LEMMA ReadType ==
    ASSUME TypeOK, NEW byte \in Bytes, ReadPort(byte) \/ ReadPortAgain(byte)
    PROVE  /\ output' \in Seq(Bytes) /\ port' \in Bytes
           /\ UNCHANGED <<input, expectsLEDs, leds, typed>>
  <1>1. CASE ReadPort(byte)
    <2>1. output \in Seq(Bytes) /\ output # << >>
      BY <1>1 DEF ReadPort, TypeOK, Bytes
    <2> QED
      BY <1>1, <2>1, HeadTailProperties DEF ReadPort
  <1>2. CASE ReadPortAgain(byte)
    BY <1>2 DEF ReadPortAgain, device, TypeOK, Bytes
  <1> QED
    BY <1>1, <1>2

LEMMA DeviceKeepsIInv ==
    ASSUME IInv, KeyboardAnswers \/ \E k \in Keystrokes : Keystroke(k)
    PROVE  IInv'
  <1>1. /\ UNCHANGED <<port, gs_stKeyboardManager, gs_stKeyQueue, got, refused,
                       stack, scans, newest, activated>>
    BY DEF KeyboardAnswers, Keystroke, queueVars, history
  <1>2. StackInv'
    BY <1>1 DEF IInv, StackInv
  <1>3. CASE KeyboardAnswers
    <2>1. input \in Seq(Bytes) /\ input # << >>
      BY <1>3 DEF KeyboardAnswers, IInv, TypeOK, Bytes
    <2>2. Head(input) \in Bytes /\ input' \in Seq(Bytes)
      BY <1>3, <2>1, HeadTailProperties DEF KeyboardAnswers
    <2>3. ACK \in Bytes /\ Resend \in Bytes /\ output \in Seq(Bytes)
      BY DEF ACK, Resend, Bytes, IInv, TypeOK
    <2>4. output' \in Seq(Bytes)
      BY <1>3, <2>3, AppendProperties DEF KeyboardAnswers
    <2>5. expectsLEDs' \in BOOLEAN
      BY <1>3 DEF KeyboardAnswers
    <2>6. leds' \in Bytes
      BY <1>3, <2>2 DEF KeyboardAnswers, IInv, TypeOK, Bytes
    <2>7. typed' = typed
      BY <1>3 DEF KeyboardAnswers
    <2> QED
      BY <1>1, <1>2, <2>2, <2>4, <2>5, <2>6, <2>7 DEF IInv, TypeOK, Bytes
  <1>4. ASSUME NEW k \in Keystrokes, Keystroke(k) PROVE IInv'
    <2>1. k \in Seq(Bytes) /\ output \in Seq(Bytes)
      BY KeystrokesAssumption DEF Bytes, IInv, TypeOK
    <2>2. output' \in Seq(Bytes) /\ typed' = typed + 1
      BY <1>4, <2>1, ConcatProperties DEF Keystroke
    <2>3. UNCHANGED <<input, expectsLEDs, leds>>
      BY <1>4 DEF Keystroke
    <2> QED
      BY <1>1, <1>2, <2>2, <2>3 DEF IInv, TypeOK, Bytes
  <1> QED
    BY <1>3, <1>4

LEMMA HandlerKeepsIInv ==
    ASSUME IInv, KeyboardHandler
    PROVE  IInv'
  <1>1. PICK byte \in Bytes : ReadPort(byte) /\ Convert(byte, << >>)
    BY DEF KeyboardHandler, Bytes
  <1>2. /\ output' \in Seq(Bytes) /\ port' \in Bytes
        /\ UNCHANGED <<input, expectsLEDs, leds, typed>>
    BY <1>1, ReadType DEF IInv
  <1>3. << >> \in Seq(Frames) /\ Len(<< >>) = 0
    BY EmptySeq
  <1>4. /\ gs_stKeyboardManager' \in Managers /\ stack' \in Seq(Frames)
        /\ scans' \in Seq(Bytes) /\ StackInv'
    <2>1. PICK rest \in Seq(Frames) : rest = << >>
      BY <1>3
    <2>2. Convert(byte, rest) /\ Len(rest) = 0
      BY <1>1, <1>3, <2>1
    <2>3. \A i \in 1 .. Len(rest) :
            FrameInv(rest[i], Len(scans), newest) /\ rest[i].step \in Waits
      BY <2>2
    <2> QED
      BY <2>2, <2>3, ConvertKeepsIInv
  <1>5. UNCHANGED <<gs_stKeyQueue, got, refused, newest, activated>>
    BY <1>1 DEF Convert, queueVars
  <1> QED
    BY <1>2, <1>4, <1>5 DEF IInv, TypeOK, Bytes

LEMMA SendKeepsIInv ==
    ASSUME IInv, SendCommand \/ SendLEDs
    PROVE  IInv'
  <1>1. stack # << >> /\ stack \in Seq(Frames)
    BY DEF SendCommand, SendLEDs, Running, IInv, TypeOK
  <1>2. Top \in Frames
    BY <1>1, TopAndBelow
  <1>3. FrameInv(Top, Len(scans), newest)
    BY <1>1, TopAndBelow DEF IInv, StackInv, Top
  <1>4. /\ UNCHANGED <<output, expectsLEDs, leds, typed, port,
                       gs_stKeyboardManager, gs_stKeyQueue, got, refused>>
        /\ UNCHANGED <<scans, newest, activated>>
    BY DEF SendCommand, SendLEDs, SendByte, queueVars, history
  <1>5. CASE SendCommand
    <2> DEFINE f == [Top EXCEPT !.step = "commandACK"]
    <2>1. f \in Frames /\ f.key = Top.key /\ f.step = "commandACK"
      BY <1>2 DEF Frames, Waits
    <2>2. stack' = SetTop(f) 
          /\ (IsLockPress(Top.key.scan) \/ Top.key = NoKey)
      BY <1>3, <1>5 DEF SendCommand, Running, FrameInv, Exchange
    <2> HIDE DEF f
    <2>3. stack' \in Seq(Frames) /\ StackInv'
      BY <1>1, <1>4, <2>1, <2>2, SetTopKeepsIInv
    <2>4. ChangeLEDs \in Bytes /\ input \in Seq(Bytes)
      BY DEF ChangeLEDs, Bytes, IInv, TypeOK
    <2>5. input' \in Seq(Bytes)
      BY <1>5, <2>4, AppendProperties DEF SendCommand, SendByte
    <2> QED
      BY <1>4, <2>3, <2>5 DEF IInv, TypeOK, Bytes, history
  <1>6. CASE SendLEDs
    <2> DEFINE g == [Top EXCEPT !.step = "valueACK"]
               f == [g EXCEPT !.tries = 0]
    <2>1. g \in Frames /\ g.key = Top.key /\ g.step = "valueACK"
      BY <1>2 DEF Frames, Waits
    <2>2. f \in Frames /\ f.key = Top.key /\ f.step = "valueACK"
      <3> HIDE DEF g
      <3>1. 0 \in 0 .. MaxTries
        BY BoundsAssumption
      <3> QED
        BY <2>1, <3>1 DEF Frames
    <2>3. f = [Top EXCEPT !.step = "valueACK", !.tries = 0]
      BY <1>2 DEF Frames
    <2>4. stack' = SetTop(f) 
          /\ (IsLockPress(Top.key.scan) \/ Top.key = NoKey)
      BY <1>3, <1>6, <2>3 DEF SendLEDs, Running, FrameInv, Exchange
    <2> HIDE DEF f
    <2>5. stack' \in Seq(Frames) /\ StackInv'
      BY <1>1, <1>4, <2>2, <2>4, SetTopKeepsIInv
    <2>6. Top.led \in Bytes /\ input \in Seq(Bytes)
      BY <1>2 DEF Frames, Bytes, IInv, TypeOK
    <2>7. input' \in Seq(Bytes)
      BY <1>6, <2>6, AppendProperties DEF SendLEDs, SendByte
    <2> QED
      BY <1>4, <2>5, <2>7 DEF IInv, TypeOK, Bytes, history
  <1> QED
    BY <1>5, <1>6

LEMMA WaitKeepsIInv ==
    ASSUME IInv, WaitForACK
    PROVE  IInv'
  <1>1. PICK byte \in Bytes :
          /\ Running(Waits) /\ Top.tries < MaxTries
          /\ ReadPort(byte) \/ ReadPortAgain(byte)
          /\ IF byte = ACK
             THEN /\ AfterWait(TRUE)
                  /\ UNCHANGED <<gs_stKeyboardManager, queueVars, scans, newest>>
             ELSE Convert(byte, SetTop([Top EXCEPT !.tries = @ + 1]))
    BY DEF WaitForACK, Bytes
  <1>2. /\ output' \in Seq(Bytes) /\ port' \in Bytes
        /\ UNCHANGED <<input, expectsLEDs, leds, typed>>
    BY <1>1, ReadType DEF IInv
  <1>3. CASE byte = ACK
    <2>1. stack' \in Seq(Frames) /\ StackInv' /\ activated' \in Nat
      BY <1>1, <1>3, AfterWaitKeepsIInv
    <2>2. UNCHANGED <<gs_stKeyboardManager, gs_stKeyQueue, got, refused, scans, newest>>
      BY <1>1, <1>3 DEF queueVars
    <2> QED
      BY <1>2, <2>1, <2>2 DEF IInv, TypeOK, Bytes
  <1>4. CASE byte # ACK
    <2> DEFINE f == [Top EXCEPT !.tries = @ + 1]
    <2>1. stack # << >> /\ stack \in Seq(Frames) /\ Top.step \in Waits
      BY <1>1 DEF Running, IInv, TypeOK
    <2>2. Top \in Frames /\ Len(stack) \in Nat \ {0}
      BY <2>1, TopAndBelow
    <2>3. f \in Frames /\ f.key = Top.key /\ f.step = Top.step
      <3>1. Top.tries + 1 \in 0 .. MaxTries
        BY <1>1, <2>2, BoundsAssumption DEF Frames
      <3> QED
        BY <2>2, <3>1 DEF Frames
    <2>4. FrameInv(Top, Len(scans), newest)
      BY <2>1, <2>2 DEF IInv, StackInv, Top
    <2>5. FrameInv(f, Len(scans), newest)
      BY <2>3, <2>4 DEF FrameInv
    <2>6. Convert(byte, SetTop(f))
      BY <1>1, <1>4
    <2> HIDE DEF f
    <2>7. /\ SetTop(f) \in Seq(Frames) /\ Len(SetTop(f)) = Len(stack)
          /\ SetTop(f)[Len(stack)] = f
          /\ \A i \in 1 .. Len(stack) - 1 : SetTop(f)[i] = stack[i]
      BY <2>1, <2>3, SetTopFrame
    <2>8. ASSUME NEW i \in 1 .. Len(SetTop(f))
          PROVE  /\ FrameInv(SetTop(f)[i], Len(scans), newest)
                 /\ SetTop(f)[i].step \in Waits
      <3>1. CASE i = Len(stack)
        BY <2>1, <2>3, <2>5, <2>7, <3>1
      <3>2. CASE i # Len(stack)
        <4>1. i \in 1 .. Len(stack) - 1 /\ i \in 1 .. Len(stack)
          BY <2>2, <2>7, <3>2
        <4> QED
          BY <2>7, <4>1 DEF IInv, StackInv
      <3> QED
        BY <3>1, <3>2
    <2>9. /\ gs_stKeyboardManager' \in Managers /\ stack' \in Seq(Frames)
          /\ scans' \in Seq(Bytes) /\ StackInv'
      BY <2>6, <2>7, <2>8, ConvertKeepsIInv
    <2>10. UNCHANGED <<gs_stKeyQueue, got, refused, newest, activated>>
      BY <2>6 DEF Convert, queueVars
    <2> QED
      BY <1>2, <2>9, <2>10 DEF IInv, TypeOK, Bytes
  <1> QED
    BY <1>3, <1>4

LEMMA GiveUpKeepsIInv ==
    ASSUME IInv, GiveUp
    PROVE  IInv'
  <1>1. stack' \in Seq(Frames) /\ StackInv' /\ activated' \in Nat
    BY AfterWaitKeepsIInv DEF GiveUp
  <1>2. /\ UNCHANGED <<output, input, expectsLEDs, leds, typed, port>>
        /\ UNCHANGED <<gs_stKeyboardManager, gs_stKeyQueue, got, refused>>
        /\ UNCHANGED <<scans, newest>>
    BY DEF GiveUp, device, queueVars
  <1> QED
    BY <1>1, <1>2 DEF IInv, TypeOK

LEMMA PutKeyKeepsIInv ==
    ASSUME IInv, PutKey
    PROVE  IInv'
  <1>1. stack # << >> /\ stack \in Seq(Frames) /\ gs_stKeyQueue \in QueueType(Keys)
    BY DEF PutKey, Running, IInv, TypeOK
  <1>2. Top \in Frames /\ Top.key \in Keys /\ Top.key.no \in Nat
    BY <1>1, TopAndBelow DEF Frames, Keys
  <1>3. FrameInv(Top, Len(scans), newest)
    BY <1>1, TopAndBelow DEF IInv, StackInv, Top
  <1>4. newest' \in Nat /\ newest' <= Len(scans)
    BY <1>2, <1>3 DEF PutKey, IInv, TypeOK, StackInv, FrameInv
  <1>5. stack' = Below /\ UNCHANGED scans
    BY DEF PutKey
  <1>6. stack' \in Seq(Frames) /\ StackInv'
    BY <1>1, <1>4, <1>5, ReturnKeepsIInv
  <1>7. gs_stKeyQueue' \in QueueType(Keys) /\ refused' \in Nat
    <2>1. CASE IsQueueFull(gs_stKeyQueue)
      BY <1>1, <2>1 DEF PutKey, IInv, TypeOK
    <2>2. CASE ~IsQueueFull(gs_stKeyQueue)
      <3>1. gs_stKeyQueue' = PutQueue(gs_stKeyQueue, Top.key) /\ refused' = refused
        BY <2>2 DEF PutKey
      <3>2. PutQueue(gs_stKeyQueue, Top.key) \in QueueType(Keys)
        BY <1>1, <1>2, PutFields
      <3> QED
        BY <3>1, <3>2 DEF IInv, TypeOK
    <2> QED
      BY <2>1, <2>2
  <1>8. UNCHANGED <<output, input, expectsLEDs, leds, typed, port,
                    gs_stKeyboardManager, got, activated>>
    BY DEF PutKey, device
  <1> QED
    BY <1>4, <1>5, <1>6, <1>7, <1>8 DEF IInv, TypeOK

LEMMA GetKeyKeepsIInv ==
    ASSUME IInv, GetKey
    PROVE  IInv'
  <1>1. gs_stKeyQueue \in QueueType(Keys)
    BY DEF IInv, TypeOK
  <1>2. gs_stKeyQueue' \in QueueType(Keys)
    BY <1>1, GetFields DEF GetKey
  <1>3. got' \in Keys
    BY <1>1 DEF GetKey, FrontOfQueue, QueueType
  <1>4. /\ UNCHANGED <<output, input, expectsLEDs, leds, typed, port>>
        /\ UNCHANGED <<gs_stKeyboardManager, refused, stack, scans, newest, activated>>
    BY DEF GetKey, device, history
  <1> QED
    BY <1>2, <1>3, <1>4 DEF IInv, TypeOK, StackInv

LEMMA NextIInv == IInv /\ [Next]_vars => IInv'
  <1> SUFFICES ASSUME IInv, [Next]_vars PROVE IInv'
    OBVIOUS
  <1>1. CASE UNCHANGED vars
    BY <1>1 DEF vars, device, queueVars, history, IInv, TypeOK, StackInv
  <1>2. CASE Next
    BY <1>2, DeviceKeepsIInv, HandlerKeepsIInv, SendKeepsIInv, WaitKeepsIInv,
       GiveUpKeepsIInv, PutKeyKeepsIInv, GetKeyKeepsIInv DEF Next, Driver
  <1> QED
    BY <1>1, <1>2

\* The driver's structures keep their types: no index of the key queue leaves
\* its buffer, and no call waits for more bytes than it may.
THEOREM SpecTypeOK == Spec => []TypeOK
  <1>1. IInv => TypeOK
    BY DEF IInv
  <1> QED
    BY InitIInv, NextIInv, <1>1, PTL DEF Spec

\* However deep the LED exchanges nest, only a lock key comes after a key that
\* was read later.
THEOREM SpecOnlyLockKeysLate == Spec => OnlyLockKeysLate
  <1>1. ASSUME IInv, PutKey
        PROVE  Top.key.no > newest \/ IsLockPress(Top.key.scan)
    <2>1. /\ stack # << >> /\ stack \in Seq(Frames) /\ Top.step = "put"
          /\ newest \in Nat
      BY <1>1 DEF PutKey, Running, IInv, TypeOK
    <2>2. FrameInv(Top, Len(scans), newest) /\ Top \in Frames
      BY <1>1, <2>1, TopAndBelow DEF IInv, StackInv, Top
    <2>3. Len(scans) \in Nat
      BY <1>1, LenProperties DEF IInv, TypeOK
    <2> QED
      BY <2>1, <2>2, <2>3 DEF FrameInv
  <1>2. IInv /\ [Next]_vars =>
          [PutKey => Top.key.no > newest \/ IsLockPress(Top.key.scan)]_vars
    BY <1>1
  <1> QED
    BY InitIInv, NextIInv, <1>2, PTL DEF Spec, OnlyLockKeysLate

-----------------------------------------------------------------------------
\* The ring buffer, its reader and the count of refused keys are a FIFO.

LEMMA StepIsFifo == IInv /\ [Next]_vars =>
    [Fifo!Next]_<<QueueItems(gs_stKeyQueue), got, refused>>
  <1> SUFFICES ASSUME IInv, [Next]_vars
               PROVE  [Fifo!Next]_<<QueueItems(gs_stKeyQueue), got, refused>>
    OBVIOUS
  <1>1. gs_stKeyQueue \in QueueType(Keys)
    BY DEF IInv, TypeOK
  <1>2. CASE UNCHANGED queueVars
    BY <1>2 DEF queueVars
  <1>3. CASE PutKey
    <2>1. Top.key \in Keys
      <3>1. stack # << >> /\ stack \in Seq(Frames)
        BY <1>3 DEF PutKey, Running, IInv, TypeOK
      <3> QED
        BY <3>1, TopAndBelow DEF Frames
    <2>2. /\ QueueItems(gs_stKeyQueue) \in Seq(Keys)
          /\ Len(QueueItems(gs_stKeyQueue)) = QueueCount(gs_stKeyQueue)
          /\ QueueCount(gs_stKeyQueue) \in 0 .. iMaxDataCount
          /\ QueueCount(gs_stKeyQueue) = iMaxDataCount <=> IsQueueFull(gs_stKeyQueue)
      BY <1>1, ItemsType, CountBound
    <2>3. CASE IsQueueFull(gs_stKeyQueue)
      <3>1. /\ refused' = refused + 1 /\ gs_stKeyQueue' = gs_stKeyQueue
            /\ got' = got
        BY <1>3, <2>3 DEF PutKey
      <3>2. Fifo!Refuse
        BY <2>2, <2>3, <3>1 DEF Fifo!Refuse
      <3> QED
        BY <3>2 DEF Fifo!Next
    <2>4. CASE ~IsQueueFull(gs_stKeyQueue)
      <3>1. /\ gs_stKeyQueue' = PutQueue(gs_stKeyQueue, Top.key)
            /\ refused' = refused /\ got' = got
        BY <1>3, <2>4 DEF PutKey
      <3>2. QueueItems(gs_stKeyQueue)' = Append(QueueItems(gs_stKeyQueue), Top.key)
        <4>1. QueueItems(gs_stKeyQueue)' = QueueItems(PutQueue(gs_stKeyQueue, Top.key))
          BY <3>1 DEF QueueItems, QueueCount, IsQueueEmpty
        <4> QED
          BY <1>1, <2>1, <2>4, <4>1, PutAppends
      <3>3. Len(QueueItems(gs_stKeyQueue)) < iMaxDataCount
        BY <2>2, <2>4, QueueAssumption
      <3>4. /\ QueueItems(gs_stKeyQueue)' # << >>
            /\ Len(QueueItems(gs_stKeyQueue)') = Len(QueueItems(gs_stKeyQueue)) + 1
            /\ QueueItems(gs_stKeyQueue)'[Len(QueueItems(gs_stKeyQueue)) + 1] = Top.key
        BY <2>1, <2>2, <3>2, AppendProperties
      <3>5. Fifo!Put
        BY <3>1, <3>2, <3>3, <3>4 DEF Fifo!Put
      <3> QED
        BY <3>5 DEF Fifo!Next
    <2> QED
      BY <2>3, <2>4
  <1>4. CASE GetKey
    <2>1. /\ ~IsQueueEmpty(gs_stKeyQueue) /\ got' = FrontOfQueue(gs_stKeyQueue)
          /\ gs_stKeyQueue' = GetQueue(gs_stKeyQueue) /\ refused' = refused
      BY <1>4 DEF GetKey
    <2>2. QueueItems(gs_stKeyQueue)' = QueueItems(GetQueue(gs_stKeyQueue))
      BY <2>1 DEF QueueItems, QueueCount, IsQueueEmpty
    <2>3. Fifo!Get
      BY <1>1, <2>1, <2>2, GetTakesFirst DEF Fifo!Get
    <2> QED
      BY <2>3 DEF Fifo!Next
  <1> QED
    BY <1>2, <1>3, <1>4
       DEF Next, Driver, Keystroke, KeyboardAnswers, KeyboardHandler, SendCommand,
           SendLEDs, SendByte, WaitForACK, Convert, GiveUp, vars

\* Between the handler that puts and the console that gets, the key queue is a
\* FIFO of iMaxDataCount keys.
THEOREM SpecImplementsFifo == Spec => ImplementsFifo
  <1>1. Init => Fifo!Init
    <2>1. NoKey \in Keys
      BY DEF NoKey, Keys
    <2> QED
      BY <2>1, EmptyQueueHoldsNothing DEF Init, Fifo!Init
  <1> QED
    BY <1>1, InitIInv, NextIInv, StepIsFifo, PTL DEF Spec, ImplementsFifo, Fifo!Spec

-----------------------------------------------------------------------------
\* What a key means follows from the bytes before it.

LEMMA ModuloTwo ==
    ASSUME NEW p \in Nat
    PROVE  (p + 1) % 2 = 1 <=> ~(p % 2 = 1)
  OBVIOUS

\* One more byte has been converted; what the bytes up to it say stays.
LEMMA PastStays ==
    ASSUME scans \in Seq(Bytes), NEW byte \in Bytes, scans' = Append(scans, byte),
           NEW N, N = Len(scans), NEW n \in 1 .. N + 1
    PROVE  /\ PartOfPause(n)' <=> PartOfPause(n)
           /\ ShiftHeld(n)' <=> ShiftHeld(n)
           /\ \A bytes : Presses(bytes, n)' = Presses(bytes, n)
  <1>1. /\ N \in Nat
        /\ \A k \in 1 .. N : scans'[k] = scans[k]
    BY AppendProperties, LenProperties
  <1>2. ASSUME NEW j \in 1 .. N + 1
        PROVE  PartOfPause(j)' <=> PartOfPause(j)
    <2>1. /\ PartOfPause(j) <=>
                (j > 1 /\ scans[j - 1] = Pause) \/ (j > 2 /\ scans[j - 2] = Pause)
          /\ PartOfPause(j)' <=>
                (j > 1 /\ scans'[j - 1] = Pause) \/ (j > 2 /\ scans'[j - 2] = Pause)
      BY DEF PartOfPause
    <2> QED
      BY <1>1, <2>1
  <1>3. ShiftHeld(n)' <=> ShiftHeld(n)
    <2>1. \A k \in 1 .. n - 1 : k \in 1 .. N /\ k \in 1 .. N + 1
      BY <1>1
    <2>2. \A k \in 1 .. n - 1 :
            /\ scans'[k] = scans[k] /\ (PartOfPause(k)' <=> PartOfPause(k))
            /\ \A j \in k + 1 .. n - 1 : j \in 1 .. n - 1
      BY <1>1, <1>2, <2>1
    <2> QED
      BY <2>2 DEF ShiftHeld
  <1>4. ASSUME NEW bytes PROVE Presses(bytes, n)' = Presses(bytes, n)
    <2>1. {k \in 1 .. n - 1 : scans'[k] \in bytes /\ ~PartOfPause(k)'}
            = {k \in 1 .. n - 1 : scans[k] \in bytes /\ ~PartOfPause(k)}
      <3>1. \A k \in 1 .. n - 1 : k \in 1 .. N /\ k \in 1 .. N + 1
        BY <1>1
      <3> QED
        BY <1>1, <1>2, <3>1
    <2> QED
      BY <2>1 DEF Presses
  <1> QED
    BY <1>2, <1>3, <1>4

\* The byte counts as a press if it is one and no part of the pause key.
LEMMA OneMoreByte ==
    ASSUME scans \in Seq(Bytes), NEW byte \in Bytes, scans' = Append(scans, byte),
           NEW N, N = Len(scans)
    PROVE  /\ PartOfPause(N + 2)' <=>
                \/ byte = Pause
                \/ N > 0 /\ scans[N] = Pause
           /\ ShiftHeld(N + 2)' <=>
                IF Code(byte) \in Shifts /\ ~PartOfPause(N + 1) THEN byte \in Shifts
                ELSE ShiftHeld(N + 1)
           /\ \A bytes :
                /\ Presses(bytes, N + 1) \in Nat
                /\ Presses(bytes, N + 2)' =
                    IF byte \in bytes /\ ~PartOfPause(N + 1)
                    THEN Presses(bytes, N + 1) + 1 ELSE Presses(bytes, N + 1)
  <1>1. /\ N \in Nat /\ scans'[N + 1] = byte
        /\ \A k \in 1 .. N : scans'[k] = scans[k]
    BY AppendProperties, LenProperties
  <1>2. \A j \in 1 .. N + 1 : PartOfPause(j)' <=> PartOfPause(j)
    BY PastStays
  <1>3. PartOfPause(N + 2)' <=> byte = Pause \/ (N > 0 /\ scans[N] = Pause)
    <2>1. \A n \in Nat : PartOfPause(n)' <=>
            (n > 1 /\ scans'[n - 1] = Pause) \/ (n > 2 /\ scans'[n - 2] = Pause)
      BY DEF PartOfPause
    <2> QED
      BY <1>1, <2>1
  <1>4. ShiftHeld(N + 2)' <=>
          IF Code(byte) \in Shifts /\ ~PartOfPause(N + 1) THEN byte \in Shifts
          ELSE ShiftHeld(N + 1)
    <2>1. byte \in Shifts => Code(byte) \in Shifts
      BY DEF Code, Shifts, Bytes
    <2>2. ShiftHeld(N + 2)' <=>
            \E k \in 1 .. N + 1 :
              /\ scans'[k] \in Shifts /\ ~PartOfPause(k)
              /\ \A j \in k + 1 .. N + 1 :
                    Code(scans'[j]) \notin Shifts \/ PartOfPause(j)
      <3>1. N + 2 - 1 = N + 1
        BY <1>1
      <3> QED
        BY <1>1, <1>2, <3>1 DEF ShiftHeld, Code
    <2>3. CASE Code(byte) \in Shifts /\ ~PartOfPause(N + 1)
      <3>1. ASSUME byte \in Shifts PROVE ShiftHeld(N + 2)'
        <4>1. N + 1 \in 1 .. N + 1 /\ N + 1 + 1 .. N + 1 = {}
          BY <1>1
        <4> QED
          BY <1>1, <2>2, <2>3, <3>1, <4>1
      <3>2. ASSUME ShiftHeld(N + 2)' PROVE byte \in Shifts
        <4>1. PICK k \in 1 .. N + 1 :
                /\ scans'[k] \in Shifts /\ ~PartOfPause(k)
                /\ \A j \in k + 1 .. N + 1 :
                      Code(scans'[j]) \notin Shifts \/ PartOfPause(j)
          BY <2>2, <3>2
        <4>2. k = N + 1
          BY <1>1, <2>3, <4>1
        <4> QED
          BY <1>1, <4>1, <4>2
      <3> QED
        BY <2>3, <3>1, <3>2
    <2>4. CASE ~(Code(byte) \in Shifts /\ ~PartOfPause(N + 1))
      <3>1. \A k \in 1 .. N : \A j \in k + 1 .. N + 1 :
              j = N + 1 \/ (j \in k + 1 .. N /\ scans'[j] = scans[j])
        BY <1>1
      <3>2. N + 1 - 1 = N /\ \A k \in 1 .. N + 1 : k = N + 1 \/ k \in 1 .. N
        BY <1>1
      <3>3. ASSUME NEW k \in 1 .. N
            PROVE  (\A j \in k + 1 .. N + 1 : Code(scans'[j]) \notin Shifts \/ PartOfPause(j))
                    <=> (\A j \in k + 1 .. N : Code(scans[j]) \notin Shifts \/ PartOfPause(j))
        <4>1. \A j \in k + 1 .. N : j \in k + 1 .. N + 1 /\ scans'[j] = scans[j]
          BY <1>1
        <4> QED
          BY <1>1, <2>4, <3>1, <4>1
      <3>4. ~(scans'[N + 1] \in Shifts /\ ~PartOfPause(N + 1))
        BY <1>1, <2>1, <2>4
      <3>5. ShiftHeld(N + 1) <=>
              \E k \in 1 .. N :
                /\ scans[k] \in Shifts /\ ~PartOfPause(k)
                /\ \A j \in k + 1 .. N : Code(scans[j]) \notin Shifts \/ PartOfPause(j)
        BY <3>2 DEF ShiftHeld
      <3>6. \A k \in 1 .. N : k \in 1 .. N + 1
        BY <1>1
      <3> QED
        BY <1>1, <2>2, <2>4, <3>2, <3>3, <3>4, <3>5, <3>6
    <2> QED
      BY <2>3, <2>4
  <1>5. ASSUME NEW bytes
        PROVE  /\ Presses(bytes, N + 1) \in Nat
               /\ Presses(bytes, N + 2)' =
                    IF byte \in bytes /\ ~PartOfPause(N + 1)
                    THEN Presses(bytes, N + 1) + 1 ELSE Presses(bytes, N + 1)
    <2> DEFINE before == {k \in 1 .. N : scans[k] \in bytes /\ ~PartOfPause(k)}
               after == {k \in 1 .. N + 1 : scans'[k] \in bytes /\ ~PartOfPause(k)}
    <2>1. /\ Presses(bytes, N + 1) = Cardinality(before)
          /\ Presses(bytes, N + 2)' = Cardinality(after)
      <3>1. N + 1 - 1 = N /\ N + 2 - 1 = N + 1
        BY <1>1
      <3>2. {k \in 1 .. N + 1 : scans'[k] \in bytes /\ ~PartOfPause(k)'} = after
        BY <1>2
      <3>3. /\ Presses(bytes, N + 1) =
                Cardinality({k \in 1 .. N + 1 - 1 : scans[k] \in bytes /\ ~PartOfPause(k)})
            /\ Presses(bytes, N + 2)' =
                Cardinality({k \in 1 .. N + 2 - 1 : scans'[k] \in bytes /\ ~PartOfPause(k)'})
        BY DEF Presses
      <3> HIDE DEF after
      <3> QED
        BY <3>1, <3>2, <3>3
    <2>2. IsFiniteSet(before) /\ Cardinality(before) \in Nat
      <3>1. IsFiniteSet(1 .. N)
        BY <1>1, FS_Interval
      <3>2. before \subseteq 1 .. N
        OBVIOUS
      <3> HIDE DEF before
      <3> QED
        BY <3>1, <3>2, FS_Subset, FS_CardinalityType
    <2>3. after = IF byte \in bytes /\ ~PartOfPause(N + 1)
                  THEN before \cup {N + 1} ELSE before
      <3>1. \A k \in 1 .. N + 1 : k = N + 1 \/ k \in 1 .. N
        BY <1>1
      <3>2. \A k \in 1 .. N : k \in 1 .. N + 1
        BY <1>1
      <3>3. N + 1 \in 1 .. N + 1
        BY <1>1
      <3> QED
        BY <1>1, <3>1, <3>2, <3>3
    <2>4. N + 1 \notin before
      BY <1>1
    <2> HIDE DEF before, after
    <2>5. Cardinality(before \cup {N + 1}) = Cardinality(before) + 1
      BY <2>2, <2>4, FS_AddElement
    <2> QED
      BY <2>1, <2>2, <2>3, <2>5
  <1> QED
    BY <1>3, <1>4, <1>5

-----------------------------------------------------------------------------
\* The fields NextManager changes.
LEMMA NextFields ==
    ASSUME NEW m \in Managers, NEW byte \in Bytes, NEW n, n = NextManager(m, byte)
    PROVE  /\ n.iSkipCountForPause =
                IF m.iSkipCountForPause > 0 THEN m.iSkipCountForPause - 1
                ELSE IF byte = Pause THEN 2 ELSE 0
           /\ n.bExtendedCodeIn <=>
                IF m.iSkipCountForPause > 0 \/ byte = Pause THEN m.bExtendedCodeIn
                ELSE byte = Extended
           /\ n.bShiftDown <=>
                IF m.iSkipCountForPause = 0 /\ Code(byte) \in Shifts THEN Down(byte)
                ELSE m.bShiftDown
           /\ n.bCapsLockOn <=>
                IF m.iSkipCountForPause = 0 /\ byte = CapsLock THEN ~m.bCapsLockOn
                ELSE m.bCapsLockOn
           /\ n.bNumLockOn <=>
                IF m.iSkipCountForPause = 0 /\ byte = NumLock THEN ~m.bNumLockOn
                ELSE m.bNumLockOn
  <1>1. m.iSkipCountForPause \in {0, 1, 2}
    BY DEF Managers, SkipCountForPause
  <1>2. CASE m.iSkipCountForPause > 0
    <2>1. n = [m EXCEPT !.iSkipCountForPause = @ - 1]
      BY <1>2 DEF NextManager
    <2> QED
      BY <1>2, <2>1 DEF Managers
  <1>3. CASE m.iSkipCountForPause = 0 /\ byte \in {Pause, Extended}
    <2>1. Code(byte) \notin Shifts /\ byte # CapsLock /\ byte # NumLock /\ Pause # Extended
      BY <1>3 DEF Pause, Extended, Code, Shifts, CapsLock, NumLock
    <2>2. CASE byte = Pause
      <3>1. n = [m EXCEPT !.iSkipCountForPause = 2]
        BY <1>3, <2>2 DEF NextManager, SkipCountForPause
      <3> QED
        BY <1>3, <2>1, <2>2, <3>1 DEF Managers
    <2>3. CASE byte = Extended
      <3>1. n = [m EXCEPT !.bExtendedCodeIn = TRUE]
        BY <1>3, <2>1, <2>3 DEF NextManager
      <3>2. /\ n.iSkipCountForPause = m.iSkipCountForPause
            /\ n.bExtendedCodeIn = TRUE /\ n.bShiftDown = m.bShiftDown
            /\ n.bCapsLockOn = m.bCapsLockOn /\ n.bNumLockOn = m.bNumLockOn
        BY <3>1 DEF Managers
      <3>3. n.bExtendedCodeIn = (byte = Extended)
        BY <2>3, <3>2
      <3> QED
        BY <1>3, <2>1, <2>3, <3>2, <3>3
    <2> QED
      BY <1>3, <2>2, <2>3
  <1>4. CASE m.iSkipCountForPause = 0 /\ byte \notin {Pause, Extended}
    <2> DEFINE cleared == [m EXCEPT !.bExtendedCodeIn = FALSE]
    <2>1. n = CombinationKeyStatus(cleared, byte)
      BY <1>4 DEF NextManager
    <2>2. /\ cleared \in Managers /\ cleared.bExtendedCodeIn = FALSE
          /\ cleared.iSkipCountForPause = m.iSkipCountForPause
          /\ cleared.bShiftDown = m.bShiftDown
          /\ cleared.bCapsLockOn = m.bCapsLockOn /\ cleared.bNumLockOn = m.bNumLockOn
      BY DEF Managers
    <2> HIDE DEF cleared
    <2>3. PICK c \in Managers : c = cleared
      BY <2>2
    <2>4. /\ n.iSkipCountForPause = c.iSkipCountForPause
          /\ n.bExtendedCodeIn = c.bExtendedCodeIn
          /\ n.bShiftDown = IF Code(byte) \in Shifts THEN Down(byte) ELSE c.bShiftDown
          /\ n.bCapsLockOn = IF byte = CapsLock THEN ~c.bCapsLockOn ELSE c.bCapsLockOn
          /\ n.bNumLockOn = IF byte = NumLock THEN ~c.bNumLockOn ELSE c.bNumLockOn
      BY <2>1, <2>3 DEF CombinationKeyStatus, Managers
    <2>5. n.bExtendedCodeIn <=> byte = Extended
      BY <1>4, <2>2, <2>3, <2>4
    <2>6. /\ n.bShiftDown <=> IF Code(byte) \in Shifts THEN Down(byte) ELSE m.bShiftDown
          /\ n.bCapsLockOn <=> IF byte = CapsLock THEN ~m.bCapsLockOn ELSE m.bCapsLockOn
          /\ n.bNumLockOn <=> IF byte = NumLock THEN ~m.bNumLockOn ELSE m.bNumLockOn
      BY <2>2, <2>3, <2>4
    <2>7. n.iSkipCountForPause = 0
      BY <1>4, <2>2, <2>3, <2>4
    <2> QED
      BY <1>4, <2>5, <2>6, <2>7
  <1> QED
    BY <1>1, <1>2, <1>3, <1>4

-----------------------------------------------------------------------------
\* The bytes of a keystroke that is under way: what the driver has read of it
\* and what it has not.
WireInv ==
    LET m == gs_stKeyboardManager IN
    /\ WholeKeys(output)
    /\ \A i \in 1 .. m.iSkipCountForPause : i <= Len(output) /\ output[i] \notin Special
    /\ m.bExtendedCodeIn =>
        m.iSkipCountForPause = 0 /\ output # << >> /\ output[1] \notin Special
    /\ port = Pause => m.iSkipCountForPause > 0
    /\ port = Extended => m.bExtendedCodeIn

\* The manager holds what the bytes converted say.
ManagerInv ==
    LET m == gs_stKeyboardManager
        n == Len(scans)
    IN  /\ m.iSkipCountForPause = 2 <=> n > 0 /\ scans[n] = Pause
        /\ m.iSkipCountForPause = 1 <=> n > 1 /\ scans[n - 1] = Pause
        /\ m.bExtendedCodeIn <=> n > 0 /\ scans[n] = Extended
        /\ m.bShiftDown <=> ShiftHeld(n + 1)
        /\ m.bCapsLockOn <=> Presses({CapsLock}, n + 1) % 2 = 1
        /\ m.bNumLockOn <=> Presses({NumLock}, n + 1) % 2 = 1

\* So do the keys that were made of them.
Good(key) == key.no \in 1 .. Len(scans) /\ MeansWhatWasTyped(key)

StackedKeys == {stack[i].key : i \in 1 .. Len(stack)} \ {NoKey}
QueuedKeys ==
    {QueueItems(gs_stKeyQueue)[i] : i \in 1 .. QueueCount(gs_stKeyQueue)}

KeysInv == \A key \in StackedKeys \cup QueuedKeys : Good(key)

MInv == WireInv /\ ManagerInv /\ KeysInv

\* A byte that is read continues the key under way, if there is one, and the
\* rest of its keystroke is on the wire.
LEMMA ReadKeepsWire ==
    ASSUME TypeOK, WireInv, NEW byte \in Bytes, ReadPort(byte) \/ ReadPortAgain(byte),
           \/ gs_stKeyboardManager' = NextManager(gs_stKeyboardManager, byte)
           \/ gs_stKeyboardManager' = gs_stKeyboardManager /\ byte = ACK
    PROVE  /\ WireInv'
           /\ gs_stKeyboardManager.iSkipCountForPause > 0 \/ gs_stKeyboardManager.bExtendedCodeIn
                => byte \notin Special
  <1>1. PICK m \in Managers : m = gs_stKeyboardManager
    BY DEF TypeOK
  <1>2. PICK n : /\ n = gs_stKeyboardManager'
                 /\ n = NextManager(m, byte) \/ (n = m /\ byte = ACK)
    BY <1>1
  <1>3. m.iSkipCountForPause \in {0, 1, 2}
    BY DEF Managers, SkipCountForPause
  <1>4. /\ WholeKeys(output)
        /\ \A i \in 1 .. m.iSkipCountForPause : i <= Len(output) /\ output[i] \notin Special
        /\ m.bExtendedCodeIn =>
                m.iSkipCountForPause = 0 /\ output # << >> /\ output[1] \notin Special
        /\ port = Pause => m.iSkipCountForPause > 0
        /\ port = Extended => m.bExtendedCodeIn
    BY <1>1 DEF WireInv
  <1>5. Pause \in Special /\ Extended \in Special /\ ACK \in Special
        /\ ACK # Pause /\ ACK # Extended /\ Pause # Extended
    BY DEF Special, Pause, Extended, ACK
  <1>6. output \in Seq(Bytes) /\ Len(output) \in Nat
    BY LenProperties DEF TypeOK, Bytes
  <1>7. ASSUME m.iSkipCountForPause = 0, ~m.bExtendedCodeIn, byte \notin {Pause, Extended}
        PROVE  n.iSkipCountForPause = 0 /\ ~n.bExtendedCodeIn
    BY <1>1, <1>2, <1>7, NextFields
  <1>8. CASE ReadPortAgain(byte)
    <2>1. output = << >> /\ byte = port /\ output' = output /\ port' = port
      BY <1>8 DEF ReadPortAgain, device
    <2>2. m.iSkipCountForPause = 0 /\ ~m.bExtendedCodeIn
      <3>1. Len(output) = 0
        BY <2>1
      <3>2. m.iSkipCountForPause > 0 => 1 \in 1 .. m.iSkipCountForPause
        BY <1>3
      <3> QED
        BY <1>3, <1>4, <2>1, <3>1, <3>2
    <2>3. byte \notin {Pause, Extended}
      BY <1>4, <2>1, <2>2
    <2>4. n.iSkipCountForPause = 0 /\ ~n.bExtendedCodeIn
      BY <1>7, <2>2, <2>3
    <2>5. WireInv'
      BY <1>2, <1>4, <2>1, <2>3, <2>4 DEF WireInv, WholeKeys
    <2> QED
      BY <1>1, <2>2, <2>5
  <1>9. CASE ReadPort(byte)
    <2>1. /\ output # << >> /\ byte = output[1] /\ port' = byte
          /\ output' \in Seq(Bytes) /\ Len(output') = Len(output) - 1
          /\ \A i \in 1 .. Len(output) - 1 : output'[i] = output[i + 1]
      BY <1>6, <1>9, HeadTailProperties DEF ReadPort
    <2>2. Len(output) > 0
      BY <1>6, <2>1, EmptySeq
    <2>3. WholeKeys(output')
      <3> SUFFICES ASSUME NEW i \in 1 .. Len(output')
                   PROVE  /\ output'[i] = Pause =>
                                /\ i + 2 <= Len(output') /\ output'[i + 1] \notin Special
                                /\ output'[i + 2] \notin Special
                          /\ output'[i] = Extended =>
                                i + 1 <= Len(output') /\ output'[i + 1] \notin Special
        BY DEF WholeKeys
      <3>1. i + 1 \in 1 .. Len(output) /\ output'[i] = output[i + 1]
        BY <1>6, <2>1
      <3>2. /\ output[i + 1] = Pause =>
                  /\ i + 1 + 2 <= Len(output) /\ output[i + 1 + 1] \notin Special
                  /\ output[i + 1 + 2] \notin Special
            /\ output[i + 1] = Extended =>
                  i + 1 + 1 <= Len(output) /\ output[i + 1 + 1] \notin Special
        BY <1>4, <3>1 DEF WholeKeys
      <3> QED
        BY <1>6, <2>1, <3>1, <3>2
    <2>4. /\ byte = Pause => 3 <= Len(output) /\ output[2] \notin Special
                              /\ output[3] \notin Special
          /\ byte = Extended => 2 <= Len(output) /\ output[2] \notin Special
      <3>1. 1 \in 1 .. Len(output)
        BY <1>6, <2>2
      <3> QED
        BY <1>4, <2>1, <3>1 DEF WholeKeys
    <2>5. m.iSkipCountForPause > 0 \/ m.bExtendedCodeIn => byte \notin Special
      <3>1. m.iSkipCountForPause > 0 => 1 \in 1 .. m.iSkipCountForPause
        BY <1>3
      <3> QED
        BY <1>4, <2>1, <3>1
    <2>6. CASE n = m /\ byte = ACK
      <3>1. m.iSkipCountForPause = 0 /\ ~m.bExtendedCodeIn
        BY <1>3, <1>5, <2>5, <2>6
      <3>2. WireInv'
        BY <1>2, <1>5, <2>1, <2>3, <2>6, <3>1 DEF WireInv
      <3> QED
        BY <1>1, <2>5, <3>2
    <2>7. CASE n = NextManager(m, byte)
      <3>1. /\ n.iSkipCountForPause =
                  IF m.iSkipCountForPause > 0 THEN m.iSkipCountForPause - 1
                  ELSE IF byte = Pause THEN 2 ELSE 0
            /\ n.bExtendedCodeIn <=>
                  IF m.iSkipCountForPause > 0 \/ byte = Pause THEN m.bExtendedCodeIn
                  ELSE byte = Extended
        BY <2>7, NextFields
      <3>2. ASSUME NEW i \in 1 .. n.iSkipCountForPause
            PROVE  i <= Len(output') /\ output'[i] \notin Special
        <4>1. CASE m.iSkipCountForPause > 0
          <5>1. i + 1 \in 1 .. m.iSkipCountForPause /\ i \in Nat /\ i > 0
            BY <1>3, <3>1, <4>1
          <5>2. i + 1 <= Len(output) /\ output[i + 1] \notin Special
            BY <1>4, <5>1
          <5> QED
            BY <1>6, <2>1, <5>1, <5>2
        <4>2. CASE m.iSkipCountForPause = 0
          <5>1. byte = Pause /\ i \in {1, 2}
            BY <3>1, <4>2
          <5> QED
            BY <1>6, <2>1, <2>4, <5>1
        <4> QED
          BY <1>3, <4>1, <4>2
      <3>3. n.bExtendedCodeIn =>
              n.iSkipCountForPause = 0 /\ byte = Extended
        BY <1>3, <1>4, <1>5, <2>5, <3>1
      <3>4. n.bExtendedCodeIn => output' # << >> /\ output'[1] \notin Special
        <4>1. byte = Extended => Len(output') > 0 /\ output'[1] \notin Special
          BY <1>6, <2>1, <2>4
        <4>2. Len(output') > 0 => output' # << >>
          BY <2>1, EmptySeq
        <4> QED
          BY <3>3, <4>1, <4>2
      <3>5. /\ port' = Pause => n.iSkipCountForPause > 0
            /\ port' = Extended => n.bExtendedCodeIn
        BY <1>3, <1>5, <2>1, <2>5, <3>1
      <3>6. WireInv'
        BY <1>2, <2>3, <3>2, <3>3, <3>4, <3>5 DEF WireInv
      <3> QED
        BY <1>1, <2>5, <3>6
    <2> QED
      BY <1>2, <2>6, <2>7
  <1> QED
    BY <1>8, <1>9

\* What the manager holds follows the bytes.
LEMMA ConvertKeepsManager ==
    ASSUME TypeOK, WireInv, ManagerInv, NEW byte \in Bytes, scans' = Append(scans, byte),
           gs_stKeyboardManager' = NextManager(gs_stKeyboardManager, byte),
           gs_stKeyboardManager.iSkipCountForPause > 0 \/ gs_stKeyboardManager.bExtendedCodeIn
                => byte \notin Special
    PROVE  ManagerInv'
  <1>1. PICK m \in Managers : m = gs_stKeyboardManager
    BY DEF TypeOK
  <1>2. PICK n : n = gs_stKeyboardManager' /\ n = NextManager(m, byte)
    BY <1>1
  <1>3. PICK N : N = Len(scans)
    OBVIOUS
  <1>4. /\ N \in Nat /\ scans \in Seq(Bytes) /\ Len(scans') = N + 1
        /\ scans'[N + 1] = byte /\ \A k \in 1 .. N : scans'[k] = scans[k]
    BY <1>3, AppendProperties, LenProperties DEF TypeOK, Bytes
  <1>5. m.iSkipCountForPause \in {0, 1, 2}
    BY DEF Managers, SkipCountForPause
  <1>6. /\ m.iSkipCountForPause = 2 <=> N > 0 /\ scans[N] = Pause
        /\ m.iSkipCountForPause = 1 <=> N > 1 /\ scans[N - 1] = Pause
        /\ m.bExtendedCodeIn <=> N > 0 /\ scans[N] = Extended
        /\ m.bShiftDown <=> ShiftHeld(N + 1)
        /\ m.bCapsLockOn <=> Presses({CapsLock}, N + 1) % 2 = 1
        /\ m.bNumLockOn <=> Presses({NumLock}, N + 1) % 2 = 1
    BY <1>1, <1>3 DEF ManagerInv
  <1>7. PartOfPause(N + 1) <=> m.iSkipCountForPause > 0
    <2>1. \A k \in Nat : PartOfPause(k) <=>
            (k > 1 /\ scans[k - 1] = Pause) \/ (k > 2 /\ scans[k - 2] = Pause)
      BY DEF PartOfPause
    <2>2. N + 1 - 1 = N /\ N + 1 - 2 = N - 1
      BY <1>4
    <2> QED
      BY <1>4, <1>5, <1>6, <2>1, <2>2
  <1>8. /\ n.iSkipCountForPause =
              IF m.iSkipCountForPause > 0 THEN m.iSkipCountForPause - 1
              ELSE IF byte = Pause THEN 2 ELSE 0
        /\ n.bExtendedCodeIn <=>
              IF m.iSkipCountForPause > 0 \/ byte = Pause THEN m.bExtendedCodeIn
              ELSE byte = Extended
        /\ n.bShiftDown <=>
              IF m.iSkipCountForPause = 0 /\ Code(byte) \in Shifts THEN Down(byte)
              ELSE m.bShiftDown
        /\ n.bCapsLockOn <=>
              IF m.iSkipCountForPause = 0 /\ byte = CapsLock THEN ~m.bCapsLockOn
              ELSE m.bCapsLockOn
        /\ n.bNumLockOn <=>
              IF m.iSkipCountForPause = 0 /\ byte = NumLock THEN ~m.bNumLockOn
              ELSE m.bNumLockOn
    BY <1>2, NextFields
  <1>9. /\ ShiftHeld(N + 2)' <=>
              IF Code(byte) \in Shifts /\ ~PartOfPause(N + 1) THEN byte \in Shifts
              ELSE ShiftHeld(N + 1)
        /\ \A bytes :
              /\ Presses(bytes, N + 1) \in Nat
              /\ Presses(bytes, N + 2)' =
                    IF byte \in bytes /\ ~PartOfPause(N + 1)
                    THEN Presses(bytes, N + 1) + 1 ELSE Presses(bytes, N + 1)
    BY <1>3, <1>4, OneMoreByte
  <1>10. Special = {Pause, Extended, ACK} /\ Pause # Extended
    BY DEF Special, Pause, Extended
  <1>11. m.iSkipCountForPause > 0 \/ m.bExtendedCodeIn => byte \notin Special
    BY <1>1
  <1>12. /\ n.iSkipCountForPause = 2 <=> byte = Pause
         /\ n.iSkipCountForPause = 1 <=> N > 0 /\ scans[N] = Pause
         /\ n.bExtendedCodeIn <=> byte = Extended
    <2>1. CASE m.iSkipCountForPause > 0
      <3>1. /\ n.iSkipCountForPause = m.iSkipCountForPause - 1
            /\ n.bExtendedCodeIn <=> m.bExtendedCodeIn
        BY <1>8, <2>1
      <3>2. byte # Pause /\ byte # Extended
        BY <1>10, <1>11, <2>1
      <3>3. ~m.bExtendedCodeIn
        BY <1>1, <2>1 DEF WireInv
      <3> QED
        BY <1>5, <1>6, <2>1, <3>1, <3>2, <3>3
    <2>2. CASE m.iSkipCountForPause = 0
      BY <1>5, <1>6, <1>8, <1>10, <1>11, <2>2
    <2> QED
      BY <1>5, <2>1, <2>2
  <1>13. n.bShiftDown <=> ShiftHeld(N + 2)'
    <2>1. Code(byte) \in Shifts => (Down(byte) <=> byte \in Shifts)
      BY DEF Code, Shifts, Down, Bytes
    <2> QED
      BY <1>5, <1>6, <1>7, <1>8, <1>9, <2>1
  <1>14. ASSUME NEW lock, NEW was \in BOOLEAN, NEW is, was <=> Presses({lock}, N + 1) % 2 = 1,
                is <=> IF m.iSkipCountForPause = 0 /\ byte = lock THEN ~was ELSE was
         PROVE  is <=> Presses({lock}, N + 2)' % 2 = 1
    <2>1. PICK p \in Nat : p = Presses({lock}, N + 1)
      BY <1>9
    <2>2. Presses({lock}, N + 2)' = IF byte = lock /\ ~PartOfPause(N + 1) THEN p + 1 ELSE p
      BY <1>9, <2>1
    <2>3. (p + 1) % 2 = 1 <=> ~(p % 2 = 1)
      BY ModuloTwo
    <2> QED
      BY <1>5, <1>7, <1>14, <2>1, <2>2, <2>3
  <1>15. /\ n.bCapsLockOn <=> Presses({CapsLock}, N + 2)' % 2 = 1
         /\ n.bNumLockOn <=> Presses({NumLock}, N + 2)' % 2 = 1
    <2>1. m.bCapsLockOn \in BOOLEAN /\ m.bNumLockOn \in BOOLEAN
      BY DEF Managers
    <2> QED
      BY <1>6, <1>8, <1>14, <2>1
  <1> QED
    <2>1. N + 1 > 0 /\ N + 1 - 1 = N /\ (N + 1 > 1 <=> N > 0) /\ N + 1 + 1 = N + 2
          /\ (N > 0 => scans'[N] = scans[N])
      BY <1>4
    <2> QED
      BY <1>2, <1>4, <1>12, <1>13, <1>15, <2>1 DEF ManagerInv

\* The key made of a byte means what the bytes before it say,
LEMMA NewKeyIsGood ==
    ASSUME TypeOK, WireInv, ManagerInv, NEW byte \in Bytes, scans' = Append(scans, byte),
           gs_stKeyboardManager.iSkipCountForPause > 0 \/ gs_stKeyboardManager.bExtendedCodeIn
                => byte \notin Special,
           ~MakesNoKey(gs_stKeyboardManager, byte),
           NEW key, key = Key(gs_stKeyboardManager, byte)
    PROVE  Good(key)'
  <1>1. PICK m \in Managers : m = gs_stKeyboardManager
    BY DEF TypeOK
  <1>2. PICK n : n = Len(scans) + 1
    OBVIOUS
  <1>3. /\ n \in Nat \ {0} /\ scans \in Seq(Bytes) /\ Len(scans') = n
        /\ scans'[n] = byte /\ \A k \in 1 .. n - 1 : scans'[k] = scans[k]
    BY <1>2, AppendProperties, LenProperties DEF TypeOK, Bytes
  <1>4. m.iSkipCountForPause = 0 /\ byte # Extended
    BY <1>1 DEF MakesNoKey, Managers, SkipCountForPause
  <1>5. /\ m.iSkipCountForPause = 2 <=> n - 1 > 0 /\ scans[n - 1] = Pause
        /\ m.iSkipCountForPause = 1 <=> n - 1 > 1 /\ scans[n - 1 - 1] = Pause
        /\ m.bExtendedCodeIn <=> n - 1 > 0 /\ scans[n - 1] = Extended
        /\ m.bShiftDown <=> ShiftHeld(n)
        /\ m.bCapsLockOn <=> Presses({CapsLock}, n) % 2 = 1
        /\ m.bNumLockOn <=> Presses({NumLock}, n) % 2 = 1
    <2>1. PICK N : N = Len(scans)
      OBVIOUS
    <2>2. N = n - 1 /\ N + 1 = n
      BY <1>2, <1>3, <2>1, LenProperties
    <2> QED
      BY <1>1, <2>1, <2>2 DEF ManagerInv
  <1>6. /\ PartOfPause(n)' <=> PartOfPause(n)
        /\ ShiftHeld(n)' <=> ShiftHeld(n)
        /\ Presses({CapsLock}, n)' = Presses({CapsLock}, n)
        /\ Presses({NumLock}, n)' = Presses({NumLock}, n)
    <2>1. PICK N : N = Len(scans)
      OBVIOUS
    <2>2. n \in 1 .. N + 1
      BY <1>2, <1>3, <2>1
    <2> QED
      BY <1>3, <2>1, <2>2, PastStays
  <1>7. ~PartOfPause(n)
    <2>1. \A k \in Nat : PartOfPause(k) <=>
            (k > 1 /\ scans[k - 1] = Pause) \/ (k > 2 /\ scans[k - 2] = Pause)
      BY DEF PartOfPause
    <2>2. n - 1 - 1 = n - 2
      BY <1>3
    <2> QED
      BY <1>3, <1>4, <1>5, <2>1, <2>2
  <1>8. /\ key.no = n /\ key.scan = byte
        /\ key.extended <=> m.bExtendedCodeIn /\ byte # Pause
        /\ key.code = "combined" <=> byte # Pause /\ Column(m, Code(byte)) = "combined"
    <2>1. m.bExtendedCodeIn \in BOOLEAN
      BY DEF Managers
    <2> QED
      BY <1>1, <1>2, <2>1 DEF Key
  <1>9. key.extended <=> n > 1 /\ scans'[n - 1] = Extended
    <2>1. m.bExtendedCodeIn => byte # Pause
      BY <1>1 DEF Special
    <2>2. n - 1 > 0 <=> n > 1
      BY <1>3
    <2>3. n > 1 => scans'[n - 1] = scans[n - 1]
      BY <1>3
    <2> QED
      BY <1>5, <1>8, <2>1, <2>2, <2>3
  <1>10. /\ Code(byte) \in 0 .. 127
         /\ byte = Pause => Code(byte) = 97
    BY DEF Code, Bytes, Pause
  <1>11. /\ IsAlphabetScanCode(Code(byte)) \/ IsNumberOrSymbolScanCode(Code(byte))
              \/ IsNumberPadScanCode(Code(byte)) => Code(byte) < TableSize /\ byte # Pause
         /\ Column(m, Code(byte)) = "combined" <=>
              Code(byte) < TableSize /\ IsUseCombinedCode(m, Code(byte))
    <2>1. PICK c \in 0 .. 127 : c = Code(byte)
      BY <1>10
    <2>2. IsAlphabetScanCode(c) \/ IsNumberOrSymbolScanCode(c) \/ IsNumberPadScanCode(c)
            => c < TableSize /\ c # 97
      BY DEF IsAlphabetScanCode, IsNumberOrSymbolScanCode, IsNumberPadScanCode, TableSize
    <2>3. Column(m, c) = "combined" <=> c < TableSize /\ IsUseCombinedCode(m, c)
      <3>1. c >= TableSize <=> ~(c < TableSize)
        BY DEF TableSize
      <3> QED
        BY <3>1 DEF Column
    <2> QED
      BY <1>10, <2>1, <2>2, <2>3
  <1>12. Code(byte)' = Code(byte)
    BY DEF Code
  <1>13. key.code = "combined" <=>
            \/ IsAlphabetScanCode(Code(byte)) /\ m.bShiftDown # m.bCapsLockOn
            \/ IsNumberOrSymbolScanCode(Code(byte)) /\ m.bShiftDown
            \/ IsNumberPadScanCode(Code(byte)) /\ ~m.bExtendedCodeIn /\ m.bNumLockOn
    BY <1>8, <1>11 DEF IsUseCombinedCode
  <1>14. byte # Pause => (key.extended <=> m.bExtendedCodeIn)
    BY <1>8
  <1>15. key.extended \in BOOLEAN /\ m.bShiftDown \in BOOLEAN /\ m.bCapsLockOn \in BOOLEAN
    BY <1>1 DEF Key, Managers
  <1>16. ShiftHeld(n)' \in BOOLEAN
    BY DEF ShiftHeld
  <1>17. Good(key)' <=>
            /\ n \in 1 .. Len(scans') /\ scans'[n] = key.scan /\ ~PartOfPause(n)'
            /\ key.extended = (n > 1 /\ scans'[n - 1] = Extended)
            /\ key.code = "combined" <=>
                \/ /\ IsAlphabetScanCode(Code(scans'[n]))
                   /\ ~(ShiftHeld(n)' <=> Presses({CapsLock}, n)' % 2 = 1)
                \/ IsNumberOrSymbolScanCode(Code(scans'[n])) /\ ShiftHeld(n)'
                \/ /\ IsNumberPadScanCode(Code(scans'[n])) /\ ~key.extended
                   /\ Presses({NumLock}, n)' % 2 = 1
    BY <1>8, <1>16 DEF Good, MeansWhatWasTyped, Code, IsAlphabetScanCode,
               IsNumberOrSymbolScanCode, IsNumberPadScanCode
  <1> QED
    BY <1>3, <1>5, <1>6, <1>7, <1>8, <1>9, <1>11, <1>13, <1>14, <1>15, <1>17

\* and a key that was made stays so.
LEMMA GoodStays ==
    ASSUME TypeOK, NEW byte \in Bytes, scans' = Append(scans, byte), NEW key, Good(key)
    PROVE  Good(key)'
  <1>1. PICK N : N = Len(scans)
    OBVIOUS
  <1>2. PICK n : n = key.no
    OBVIOUS
  <1>3. /\ N \in Nat /\ scans \in Seq(Bytes) /\ Len(scans') = N + 1
        /\ n \in 1 .. N /\ n \in 1 .. N + 1
        /\ \A k \in 1 .. N : scans'[k] = scans[k]
    BY <1>1, <1>2, AppendProperties, LenProperties DEF TypeOK, Bytes, Good
  <1>4. /\ PartOfPause(n)' <=> PartOfPause(n)
        /\ ShiftHeld(n)' <=> ShiftHeld(n)
        /\ Presses({CapsLock}, n)' = Presses({CapsLock}, n)
        /\ Presses({NumLock}, n)' = Presses({NumLock}, n)
    BY <1>1, <1>3, PastStays
  <1>5. scans'[n] = scans[n] /\ (n > 1 => scans'[n - 1] = scans[n - 1])
    BY <1>3
  <1>6. ShiftHeld(n) \in BOOLEAN /\ ShiftHeld(n)' \in BOOLEAN
    BY DEF ShiftHeld
  <1>7. Good(key) <=>
            /\ n \in 1 .. Len(scans) /\ scans[n] = key.scan /\ ~PartOfPause(n)
            /\ key.extended = (n > 1 /\ scans[n - 1] = Extended)
            /\ key.code = "combined" <=>
                \/ /\ IsAlphabetScanCode(Code(scans[n]))
                   /\ ~(ShiftHeld(n) <=> Presses({CapsLock}, n) % 2 = 1)
                \/ IsNumberOrSymbolScanCode(Code(scans[n])) /\ ShiftHeld(n)
                \/ /\ IsNumberPadScanCode(Code(scans[n])) /\ ~key.extended
                   /\ Presses({NumLock}, n) % 2 = 1
    BY <1>2, <1>6 DEF Good, MeansWhatWasTyped
  <1>8. Good(key)' <=>
            /\ n \in 1 .. Len(scans') /\ scans'[n] = key.scan /\ ~PartOfPause(n)'
            /\ key.extended = (n > 1 /\ scans'[n - 1] = Extended)
            /\ key.code = "combined" <=>
                \/ /\ IsAlphabetScanCode(Code(scans'[n]))
                   /\ ~(ShiftHeld(n)' <=> Presses({CapsLock}, n)' % 2 = 1)
                \/ IsNumberOrSymbolScanCode(Code(scans'[n])) /\ ShiftHeld(n)'
                \/ /\ IsNumberPadScanCode(Code(scans'[n])) /\ ~key.extended
                   /\ Presses({NumLock}, n)' % 2 = 1
    BY <1>2, <1>6 DEF Good, MeansWhatWasTyped, Code, IsAlphabetScanCode,
               IsNumberOrSymbolScanCode, IsNumberPadScanCode
  <1> QED
    BY <1>3, <1>4, <1>5, <1>7, <1>8

-----------------------------------------------------------------------------
\* Where no byte is converted, what is said of the bytes stays.
LEMMA SameBytes ==
    ASSUME UNCHANGED scans
    PROVE  /\ \A key : Good(key) => Good(key)'
           /\ ManagerInv /\ UNCHANGED gs_stKeyboardManager => ManagerInv'
  <1>1. \A n : PartOfPause(n)' <=> PartOfPause(n)
    BY DEF PartOfPause
  <1>2. \A n : ShiftHeld(n)' <=> ShiftHeld(n)
    BY <1>1 DEF ShiftHeld, Code
  <1>3. ASSUME NEW bytes, NEW n PROVE Presses(bytes, n)' = Presses(bytes, n)
    <2>1. {k \in 1 .. n - 1 : scans'[k] \in bytes /\ ~PartOfPause(k)'}
            = {k \in 1 .. n - 1 : scans[k] \in bytes /\ ~PartOfPause(k)}
      BY <1>1
    <2> QED
      BY <2>1 DEF Presses
  <1>4. ASSUME NEW key PROVE Good(key) => Good(key)'
    BY <1>1, <1>2, <1>3 DEF Good, MeansWhatWasTyped, Code, IsAlphabetScanCode,
                            IsNumberOrSymbolScanCode, IsNumberPadScanCode
  <1>5. ManagerInv /\ UNCHANGED gs_stKeyboardManager => ManagerInv'
    <2>1. PICK n : n = Len(scans)
      OBVIOUS
    <2> QED
      BY <1>1, <1>2, <1>3, <2>1 DEF ManagerInv
  <1> QED
    BY <1>4, <1>5

\* A step that converts nothing keeps the invariant if it makes no key and the
\* wire stays as it must be.
LEMMA NoConversion ==
    ASSUME MInv, UNCHANGED <<scans, gs_stKeyboardManager>>, WireInv',
           StackedKeys' \subseteq StackedKeys,
           QueuedKeys' \subseteq StackedKeys \cup QueuedKeys
    PROVE  MInv'
  <1>1. ManagerInv'
    BY SameBytes DEF MInv
  <1>2. ASSUME NEW key \in StackedKeys' \cup QueuedKeys' PROVE Good(key)'
    BY SameBytes DEF MInv, KeysInv
  <1>3. KeysInv'
    BY <1>2 DEF KeysInv
  <1> QED
    BY <1>1, <1>3 DEF MInv

LEMMA SameWire ==
    ASSUME WireInv, UNCHANGED <<output, port, gs_stKeyboardManager>>
    PROVE  WireInv'
  BY DEF WireInv, WholeKeys

LEMMA SameQueue ==
    ASSUME UNCHANGED gs_stKeyQueue
    PROVE  QueuedKeys' = QueuedKeys
  BY DEF QueuedKeys, QueueItems, QueueCount, IsQueueEmpty

LEMMA SameStack ==
    ASSUME UNCHANGED stack
    PROVE  StackedKeys' = StackedKeys
  BY DEF StackedKeys

\* A step of the innermost call, and its return, leave the keys of the others.
LEMMA TopStepKeys ==
    ASSUME TypeOK, stack # << >>,
           \/ stack' = Below
           \/ \E f \in Frames : f.key = Top.key /\ stack' = SetTop(f)
    PROVE  StackedKeys' \subseteq StackedKeys
  <1>1. stack \in Seq(Frames)
    BY DEF TypeOK
  <1>2. ASSUME NEW i \in 1 .. Len(stack')
        PROVE  \E j \in 1 .. Len(stack) : stack'[i].key = stack[j].key
    <2>1. CASE stack' = Below
      <3>1. i \in 1 .. Len(stack) /\ stack'[i] = stack[i]
        BY <1>1, <2>1, TopAndBelow
      <3> QED
        BY <3>1
    <2>2. ASSUME NEW f \in Frames, f.key = Top.key, stack' = SetTop(f)
          PROVE  stack'[i].key = stack[i].key /\ i \in 1 .. Len(stack)
      <3>1. /\ Len(stack) \in Nat \ {0} /\ Len(stack') = Len(stack)
            /\ stack'[Len(stack)] = f
            /\ \A k \in 1 .. Len(stack) - 1 : stack'[k] = stack[k]
        BY <1>1, <2>2, TopAndBelow, SetTopFrame
      <3>2. i = Len(stack) \/ i \in 1 .. Len(stack) - 1
        BY <3>1
      <3> QED
        BY <2>2, <3>1, <3>2 DEF Top
    <2> QED
      BY <2>1, <2>2
  <1> QED
    BY <1>2 DEF StackedKeys

LEMMA InitMInv == Init => MInv
  <1> SUFFICES ASSUME Init PROVE MInv
    OBVIOUS
  <1>1. /\ output = << >> /\ port = 0 /\ scans = << >> /\ Len(scans) = 0 /\ Len(output) = 0
        /\ gs_stKeyboardManager.bShiftDown = FALSE
        /\ gs_stKeyboardManager.bCapsLockOn = FALSE
        /\ gs_stKeyboardManager.bNumLockOn = FALSE
        /\ gs_stKeyboardManager.bExtendedCodeIn = FALSE
        /\ gs_stKeyboardManager.iSkipCountForPause = 0
    BY DEF Init
  <1>2. WireInv
    BY <1>1 DEF WireInv, WholeKeys, Pause, Extended
  <1>3. ManagerInv
    <2>1. ~ShiftHeld(1)
      BY DEF ShiftHeld
    <2>2. ASSUME NEW bytes PROVE Presses(bytes, 1) = 0
      <3>1. {k \in 1 .. 1 - 1 : scans[k] \in bytes /\ ~PartOfPause(k)} = {}
        OBVIOUS
      <3> QED
        BY <3>1, FS_EmptySet DEF Presses
    <2>3. 0 % 2 = 0
      OBVIOUS
    <2>4. Presses({CapsLock}, 1) = 0 /\ Presses({NumLock}, 1) = 0
      BY <2>2
    <2> QED
      BY <1>1, <2>1, <2>3, <2>4 DEF ManagerInv
  <1>4. StackedKeys = {}
    BY DEF Init, StackedKeys
  <1>5. QueuedKeys = {}
    BY DEF Init, QueuedKeys, EmptyQueue, QueueCount, IsQueueEmpty
  <1>6. KeysInv
    BY <1>4, <1>5 DEF KeysInv
  <1> QED
    BY <1>2, <1>3, <1>6 DEF MInv

LEMMA KeystrokeKeepsMInv ==
    ASSUME IInv, MInv, NEW s \in Keystrokes, Keystroke(s)
    PROVE  MInv'
  <1>1. /\ output' = output \o s
        /\ UNCHANGED <<port, gs_stKeyboardManager, gs_stKeyQueue, stack, scans>>
    BY DEF Keystroke, queueVars, history
  <1>2. /\ output \in Seq(Bytes) /\ s \in Seq(Bytes)
        /\ Len(output) \in Nat /\ Len(s) \in Nat
    BY KeystrokesAssumption, LenProperties DEF IInv, TypeOK, Bytes
  <1>3. /\ Len(output') = Len(output) + Len(s)
        /\ \A i \in 1 .. Len(output) : output'[i] = output[i]
        /\ \A i \in 1 .. Len(s) : output'[Len(output) + i] = s[i]
    BY <1>1, <1>2, ConcatProperties
  <1>4. WholeKeys(output) /\ WholeKeys(s)
    BY WholeKeysAssumption DEF MInv, WireInv
  <1>5. WholeKeys(output')
    <2> SUFFICES ASSUME NEW i \in 1 .. Len(output')
                 PROVE  /\ output'[i] = Pause =>
                              /\ i + 2 <= Len(output') /\ output'[i + 1] \notin Special
                              /\ output'[i + 2] \notin Special
                        /\ output'[i] = Extended =>
                              i + 1 <= Len(output') /\ output'[i + 1] \notin Special
      BY DEF WholeKeys
    <2>1. CASE i \in 1 .. Len(output)
      BY <1>2, <1>3, <1>4, <2>1 DEF WholeKeys
    <2>2. CASE i \notin 1 .. Len(output)
      <3>1. PICK j \in 1 .. Len(s) : i = Len(output) + j
        <4>1. i - Len(output) \in 1 .. Len(s) /\ i = Len(output) + (i - Len(output))
          BY <1>2, <1>3, <2>2
        <4> QED
          BY <4>1
      <3>2. /\ s[j] = Pause =>
                  j + 2 <= Len(s) /\ s[j + 1] \notin Special /\ s[j + 2] \notin Special
            /\ s[j] = Extended => j + 1 <= Len(s) /\ s[j + 1] \notin Special
        BY <1>4, <3>1 DEF WholeKeys
      <3>3. /\ output'[i] = s[j]
            /\ j + 1 <= Len(s) => output'[i + 1] = s[j + 1] /\ i + 1 <= Len(output')
            /\ j + 2 <= Len(s) => output'[i + 2] = s[j + 2] /\ i + 2 <= Len(output')
        <4>1. /\ j + 1 <= Len(s) => j + 1 \in 1 .. Len(s) /\ Len(output) + (j + 1) = i + 1
              /\ j + 2 <= Len(s) => j + 2 \in 1 .. Len(s) /\ Len(output) + (j + 2) = i + 2
          BY <1>2, <3>1
        <4> QED
          BY <1>2, <1>3, <3>1, <4>1
      <3> QED
        BY <1>2, <3>1, <3>2, <3>3
    <2> QED
      BY <2>1, <2>2
  <1>6. WireInv'
    <2>1. PICK m \in Managers : m = gs_stKeyboardManager
      BY DEF IInv, TypeOK
    <2>2. ASSUME NEW i \in 1 .. m.iSkipCountForPause
          PROVE  i <= Len(output') /\ output'[i] \notin Special
      <3>1. i <= Len(output) /\ output[i] \notin Special
        BY <2>1 DEF MInv, WireInv
      <3>2. i \in 1 .. Len(output)
        BY <1>2, <3>1 DEF Managers
      <3> QED
        BY <1>2, <1>3, <3>1, <3>2
    <2>3. m.bExtendedCodeIn =>
            m.iSkipCountForPause = 0 /\ output' # << >> /\ output'[1] \notin Special
      <3>1. output # << >> => Len(output) > 0
        BY <1>2, EmptySeq
      <3>2. Len(output) > 0 => output'[1] = output[1] /\ Len(output') > 0
        BY <1>2, <1>3
      <3>3. Len(output') > 0 => output' # << >>
        BY EmptySeq
      <3> QED
        BY <2>1, <3>1, <3>2, <3>3 DEF MInv, WireInv
    <2> QED
      BY <1>1, <1>5, <2>1, <2>2, <2>3 DEF MInv, WireInv
  <1> QED
    BY <1>1, <1>6, SameQueue, SameStack, NoConversion

LEMMA AnswerKeepsMInv ==
    ASSUME IInv, MInv, KeyboardAnswers
    PROVE  MInv'
  <1>1. /\ UNCHANGED <<port, gs_stKeyboardManager, gs_stKeyQueue, stack, scans>>
        /\ \E byte \in {ACK, Resend} : output' = Append(output, byte)
    BY DEF KeyboardAnswers, queueVars, history
  <1>2. PICK byte \in {ACK, Resend} : output' = Append(output, byte)
    BY <1>1
  <1>3. output \in Seq(Bytes) /\ byte \in Bytes /\ byte # Pause /\ byte # Extended
        /\ Len(output) \in Nat
    BY LenProperties DEF IInv, TypeOK, Bytes, ACK, Resend, Pause, Extended
  <1>4. /\ Len(output') = Len(output) + 1 /\ output'[Len(output) + 1] = byte
        /\ \A i \in 1 .. Len(output) : output'[i] = output[i]
    BY <1>2, <1>3, AppendProperties
  <1>5. WholeKeys(output')
    <2> SUFFICES ASSUME NEW i \in 1 .. Len(output')
                 PROVE  /\ output'[i] = Pause =>
                              /\ i + 2 <= Len(output') /\ output'[i + 1] \notin Special
                              /\ output'[i + 2] \notin Special
                        /\ output'[i] = Extended =>
                              i + 1 <= Len(output') /\ output'[i + 1] \notin Special
      BY DEF WholeKeys
    <2>1. CASE i \in 1 .. Len(output)
      BY <1>3, <1>4, <2>1 DEF WholeKeys, MInv, WireInv
    <2>2. CASE i \notin 1 .. Len(output)
      <3>1. i = Len(output) + 1
        BY <1>3, <1>4, <2>2
      <3> QED
        BY <1>3, <1>4, <3>1
    <2> QED
      BY <2>1, <2>2
  <1>6. WireInv'
    <2>1. PICK m \in Managers : m = gs_stKeyboardManager
      BY DEF IInv, TypeOK
    <2>2. ASSUME NEW i \in 1 .. m.iSkipCountForPause
          PROVE  i <= Len(output') /\ output'[i] \notin Special
      <3>1. i <= Len(output) /\ output[i] \notin Special
        BY <2>1 DEF MInv, WireInv
      <3>2. i \in 1 .. Len(output)
        BY <1>3, <3>1 DEF Managers
      <3> QED
        BY <1>3, <1>4, <3>1, <3>2
    <2>3. m.bExtendedCodeIn =>
            m.iSkipCountForPause = 0 /\ output' # << >> /\ output'[1] \notin Special
      <3>1. output # << >> => Len(output) > 0
        BY <1>3, EmptySeq
      <3>2. Len(output) > 0 => output'[1] = output[1]
        BY <1>3, <1>4
      <3>3. output' # << >>
        BY <1>3, <1>4, EmptySeq
      <3> QED
        BY <2>1, <3>1, <3>2, <3>3 DEF MInv, WireInv
    <2> QED
      BY <1>1, <1>5, <2>1, <2>2, <2>3 DEF MInv, WireInv
  <1> QED
    BY <1>1, <1>6, SameQueue, SameStack, NoConversion

\* A conversion makes one good key at most.
LEMMA ConvertKeepsMInv ==
    ASSUME IInv, MInv, NEW byte \in Bytes, NEW rest \in Seq(Frames),
           ReadPort(byte) \/ ReadPortAgain(byte), Convert(byte, rest),
           \A i \in 1 .. Len(rest) : rest[i].key \in StackedKeys \cup {NoKey}
    PROVE  MInv'
  <1>1. PICK m \in Managers : m = gs_stKeyboardManager
    BY DEF IInv, TypeOK
  <1>2. /\ scans' = Append(scans, byte) /\ gs_stKeyQueue' = gs_stKeyQueue
        /\ gs_stKeyboardManager' = NextManager(gs_stKeyboardManager, byte)
    BY DEF Convert, queueVars
  <1>3. /\ WireInv'
        /\ gs_stKeyboardManager.iSkipCountForPause > 0 \/ gs_stKeyboardManager.bExtendedCodeIn
                => byte \notin Special
    BY <1>2, ReadKeepsWire DEF IInv, MInv
  <1>4. ManagerInv'
    BY <1>2, <1>3, ConvertKeepsManager DEF IInv, MInv
  <1>5. \A key : Good(key) => Good(key)'
    BY <1>2, GoodStays DEF IInv
  <1>6. PICK new : new = Key(m, byte)
    OBVIOUS
  <1>7. ~MakesNoKey(m, byte) => Good(new)'
    BY <1>1, <1>2, <1>3, <1>6, NewKeyIsGood DEF IInv, MInv
  <1>8. ASSUME NEW key \in StackedKeys'
        PROVE  key \in StackedKeys \/ (key = new /\ ~MakesNoKey(m, byte))
    <2>1. PICK i \in 1 .. Len(stack') : key = stack'[i].key /\ key # NoKey
      BY DEF StackedKeys
    <2>2. CASE MakesNoKey(m, byte)
      <3>1. stack' = rest
        BY <1>1, <2>2 DEF Convert
      <3> QED
        BY <2>1, <3>1
    <2>3. CASE ~MakesNoKey(m, byte)
      <3>1. PICK f : f.key = new /\ stack' = Append(rest, f) /\ f \in Frames
        <4> DEFINE g == [step |-> IF IsLockPress(byte) THEN "command" ELSE "put",
                         tries |-> 0, led |-> LEDByte(NextManager(m, byte)),
                         key |-> Key(m, byte)]
        <4>1. stack' = Append(rest, g) /\ g.key = new
          BY <1>1, <1>6, <2>3 DEF Convert
        <4>2. g \in Frames
          <5>1. LEDByte(NextManager(m, byte)) \in 0 .. 7
            BY ManagerType, LEDType
          <5>2. Key(m, byte) \in Keys
            BY KeyType, LenProperties DEF IInv, TypeOK
          <5>3. 0 \in 0 .. MaxTries
            BY BoundsAssumption
          <5> QED
            BY <5>1, <5>2, <5>3 DEF Frames
        <4> QED
          BY <4>1, <4>2
      <3>2. /\ Len(rest) \in Nat /\ Len(stack') = Len(rest) + 1
            /\ stack'[Len(rest) + 1] = f
            /\ \A k \in 1 .. Len(rest) : stack'[k] = rest[k]
        BY <3>1, AppendProperties, LenProperties
      <3>3. i = Len(rest) + 1 \/ i \in 1 .. Len(rest)
        BY <3>2
      <3> QED
        BY <2>1, <2>3, <3>1, <3>2, <3>3
    <2> QED
      BY <2>2, <2>3
  <1>9. QueuedKeys' = QueuedKeys
    BY <1>2, SameQueue
  <1>10. ASSUME NEW key \in StackedKeys' \cup QueuedKeys' PROVE Good(key)'
    <2>1. key \in StackedKeys \cup QueuedKeys \/ (key = new /\ ~MakesNoKey(m, byte))
      BY <1>8, <1>9
    <2> QED
      BY <1>5, <1>7, <2>1 DEF MInv, KeysInv
  <1>11. KeysInv'
    BY <1>10 DEF KeysInv
  <1> QED
    BY <1>3, <1>4, <1>11 DEF MInv

LEMMA HandlerKeepsMInv ==
    ASSUME IInv, MInv, KeyboardHandler
    PROVE  MInv'
  <1>1. PICK byte \in Bytes : ReadPort(byte) /\ Convert(byte, << >>)
    BY DEF KeyboardHandler, Bytes
  <1>2. PICK rest \in Seq(Frames) : rest = << >>
    BY EmptySeq
  <1>3. \A i \in 1 .. Len(rest) : rest[i].key \in StackedKeys \cup {NoKey}
    BY <1>2
  <1> QED
    BY <1>1, <1>2, <1>3, ConvertKeepsMInv

LEMMA SendKeepsMInv ==
    ASSUME IInv, MInv, SendCommand \/ SendLEDs
    PROVE  MInv'
  <1>1. stack # << >> /\ stack \in Seq(Frames)
    BY DEF SendCommand, SendLEDs, Running, IInv, TypeOK
  <1>2. Top \in Frames
    BY <1>1, TopAndBelow
  <1>3. UNCHANGED <<output, port, gs_stKeyboardManager, gs_stKeyQueue, scans>>
    BY DEF SendCommand, SendLEDs, SendByte, queueVars, history
  <1>4. \E f \in Frames : f.key = Top.key /\ stack' = SetTop(f)
    <2>1. CASE SendCommand
      <3>1. [Top EXCEPT !.step = "commandACK"] \in Frames
            /\ [Top EXCEPT !.step = "commandACK"].key = Top.key
        BY <1>2 DEF Frames, Waits
      <3> QED
        BY <2>1, <3>1 DEF SendCommand
    <2>2. CASE SendLEDs
      <3>1. 0 \in 0 .. MaxTries
        BY BoundsAssumption
      <3>2. [Top EXCEPT !.step = "valueACK", !.tries = 0] \in Frames
            /\ [Top EXCEPT !.step = "valueACK", !.tries = 0].key = Top.key
        BY <1>2, <3>1 DEF Frames, Waits
      <3> QED
        BY <2>2, <3>2 DEF SendLEDs
    <2> QED
      BY <2>1, <2>2
  <1>5. StackedKeys' \subseteq StackedKeys
    BY <1>1, <1>4, TopStepKeys DEF IInv
  <1> QED
    BY <1>3, <1>5, SameWire, SameQueue, NoConversion DEF MInv

\* The caller of the wait goes on with the key it has, or returns.
LEMMA AfterWaitKeys ==
    ASSUME IInv, Running(Waits), NEW b \in BOOLEAN, AfterWait(b)
    PROVE  StackedKeys' \subseteq StackedKeys
  <1>1. stack # << >> /\ stack \in Seq(Frames)
    BY DEF Running, IInv, TypeOK
  <1>2. Top \in Frames /\ 0 \in 0 .. MaxTries
    BY <1>1, TopAndBelow, BoundsAssumption
  <1>3. ASSUME NEW to \in {"value", "put", "failed"}
        PROVE  [Top EXCEPT !.step = to] \in Frames /\ [Top EXCEPT !.step = to].key = Top.key
    BY <1>2 DEF Frames
  <1>4. [Top EXCEPT !.step = "command", !.tries = 0] \in Frames
        /\ [Top EXCEPT !.step = "command", !.tries = 0].key = Top.key
    BY <1>2 DEF Frames
  <1>5. \/ stack' = Below
        \/ stack' = SetTop([Top EXCEPT !.step = "command", !.tries = 0])
        \/ \E to \in {"value", "put", "failed"} : stack' = SetTop([Top EXCEPT !.step = to])
    BY DEF AfterWait
  <1>6. \/ stack' = Below
        \/ \E f \in Frames : f.key = Top.key /\ stack' = SetTop(f)
    BY <1>3, <1>4, <1>5
  <1> QED
    BY <1>1, <1>6, TopStepKeys DEF IInv

LEMMA WaitKeepsMInv ==
    ASSUME IInv, MInv, WaitForACK
    PROVE  MInv'
  <1>1. PICK byte \in Bytes :
          /\ Running(Waits) /\ Top.tries < MaxTries
          /\ ReadPort(byte) \/ ReadPortAgain(byte)
          /\ IF byte = ACK
             THEN /\ AfterWait(TRUE)
                  /\ UNCHANGED <<gs_stKeyboardManager, queueVars, scans, newest>>
             ELSE Convert(byte, SetTop([Top EXCEPT !.tries = @ + 1]))
    BY DEF WaitForACK, Bytes
  <1>2. stack # << >> /\ stack \in Seq(Frames)
    BY <1>1 DEF Running, IInv, TypeOK
  <1>3. CASE byte = ACK
    <2>1. UNCHANGED <<gs_stKeyboardManager, gs_stKeyQueue, scans>> /\ AfterWait(TRUE)
      BY <1>1, <1>3 DEF queueVars
    <2>2. WireInv'
      BY <1>1, <1>3, <2>1, ReadKeepsWire DEF IInv, MInv
    <2>3. StackedKeys' \subseteq StackedKeys
      BY <1>1, <2>1, AfterWaitKeys
    <2> QED
      BY <2>1, <2>2, <2>3, SameQueue, NoConversion
  <1>4. CASE byte # ACK
    <2>1. Top \in Frames /\ Len(stack) \in Nat \ {0} /\ Top = stack[Len(stack)]
      BY <1>2, TopAndBelow DEF Top
    <2>2. PICK f \in Frames : f = [Top EXCEPT !.tries = @ + 1] /\ f.key = Top.key
      <3>1. Top.tries + 1 \in 0 .. MaxTries
        BY <1>1, <2>1, BoundsAssumption DEF Frames
      <3>2. [Top EXCEPT !.tries = @ + 1] \in Frames
            /\ [Top EXCEPT !.tries = @ + 1].key = Top.key
        BY <2>1, <3>1 DEF Frames
      <3> QED
        BY <3>2
    <2>3. PICK rest \in Seq(Frames) :
            /\ rest = SetTop(f) /\ Len(rest) = Len(stack) /\ rest[Len(stack)] = f
            /\ \A i \in 1 .. Len(stack) - 1 : rest[i] = stack[i]
      BY <1>2, SetTopFrame
    <2>4. Convert(byte, rest)
      BY <1>1, <1>4, <2>2, <2>3
    <2>5. ASSUME NEW i \in 1 .. Len(rest)
          PROVE  rest[i].key \in StackedKeys \cup {NoKey}
      <3>1. rest[i].key = stack[i].key /\ i \in 1 .. Len(stack)
        <4>1. i = Len(stack) \/ i \in 1 .. Len(stack) - 1
          BY <2>1, <2>3
        <4> QED
          BY <2>1, <2>2, <2>3, <4>1
      <3> QED
        BY <3>1 DEF StackedKeys
    <2> QED
      BY <1>1, <2>4, <2>5, ConvertKeepsMInv
  <1> QED
    BY <1>3, <1>4

LEMMA GiveUpKeepsMInv ==
    ASSUME IInv, MInv, GiveUp
    PROVE  MInv'
  <1>1. UNCHANGED <<output, port, gs_stKeyboardManager, gs_stKeyQueue, scans>>
    BY DEF GiveUp, device, queueVars
  <1>2. StackedKeys' \subseteq StackedKeys
    BY AfterWaitKeys DEF GiveUp
  <1> QED
    BY <1>1, <1>2, SameWire, SameQueue, NoConversion DEF MInv

\* A key put in the queue was the innermost call's, and is one.
LEMMA PutKeyKeepsMInv ==
    ASSUME IInv, MInv, PutKey
    PROVE  MInv'
  <1>1. /\ stack # << >> /\ stack \in Seq(Frames) /\ gs_stKeyQueue \in QueueType(Keys)
        /\ Top.step = "put" /\ newest \in Nat
    BY DEF PutKey, Running, IInv, TypeOK
  <1>2. Top \in Frames /\ Top.key \in Keys /\ Len(stack) \in Nat \ {0}
    BY <1>1, TopAndBelow DEF Frames
  <1>3. Top.key \in StackedKeys
    <2>1. FrameInv(Top, Len(scans), newest)
      BY <1>1, <1>2 DEF IInv, StackInv, Top
    <2>2. Top.key # NoKey
      <3>1. NoKey.no = 0 /\ ~IsLockPress(NoKey.scan)
        BY DEF NoKey, IsLockPress, CapsLock, NumLock, ScrollLock
      <3>2. Len(scans) \in Nat
        BY LenProperties DEF IInv, TypeOK
      <3> QED
        BY <1>1, <2>1, <3>1, <3>2 DEF FrameInv
    <2>3. Top = stack[Len(stack)] /\ Len(stack) \in 1 .. Len(stack)
      BY <1>2 DEF Top
    <2> QED
      BY <2>2, <2>3 DEF StackedKeys
  <1>4. UNCHANGED <<output, port, gs_stKeyboardManager, scans>> /\ stack' = Below
    BY DEF PutKey, device
  <1>5. StackedKeys' \subseteq StackedKeys
    BY <1>1, <1>4, TopStepKeys DEF IInv
  <1>6. QueuedKeys' \subseteq StackedKeys \cup QueuedKeys
    <2>1. CASE IsQueueFull(gs_stKeyQueue)
      BY <2>1, SameQueue DEF PutKey
    <2>2. CASE ~IsQueueFull(gs_stKeyQueue)
      <3>1. PICK q \in QueueType(Keys) : q = gs_stKeyQueue
        BY <1>1
      <3>2. PICK k \in Keys : k = Top.key
        BY <1>2
      <3>3. gs_stKeyQueue' = PutQueue(q, k)
        BY <2>2, <3>1, <3>2 DEF PutKey
      <3>4. /\ QueueItems(PutQueue(q, k)) = Append(QueueItems(q), k)
            /\ QueueItems(q) \in Seq(Keys) /\ Len(QueueItems(q)) = QueueCount(q)
            /\ QueueCount(PutQueue(q, k)) = QueueCount(q) + 1 /\ QueueCount(q) \in Nat
        BY <2>2, <3>1, PutAppends, PutSlot, ItemsType, LenProperties
      <3>5. \A i \in 1 .. QueueCount(PutQueue(q, k)) :
              \/ QueueItems(PutQueue(q, k))[i] = k
              \/ i \in 1 .. QueueCount(q) /\ QueueItems(PutQueue(q, k))[i] = QueueItems(q)[i]
        BY <3>4, AppendProperties
      <3>6. QueuedKeys' = {QueueItems(PutQueue(q, k))[i] : i \in 1 .. QueueCount(PutQueue(q, k))}
        BY <3>3 DEF QueuedKeys, QueueItems, QueueCount, IsQueueEmpty
      <3>7. QueuedKeys = {QueueItems(q)[i] : i \in 1 .. QueueCount(q)}
        BY <3>1 DEF QueuedKeys
      <3> QED
        BY <1>3, <3>2, <3>5, <3>6, <3>7
    <2> QED
      BY <2>1, <2>2
  <1> QED
    BY <1>4, <1>5, <1>6, SameWire, NoConversion DEF MInv

LEMMA GetKeyKeepsMInv ==
    ASSUME IInv, MInv, GetKey
    PROVE  MInv'
  <1>1. UNCHANGED <<output, port, gs_stKeyboardManager, scans, stack>>
    BY DEF GetKey, device, history
  <1>2. QueuedKeys' \subseteq QueuedKeys
    <2>1. PICK q \in QueueType(Keys) : q = gs_stKeyQueue
      BY DEF IInv, TypeOK
    <2>2. ~IsQueueEmpty(q) /\ gs_stKeyQueue' = GetQueue(q)
      BY <2>1 DEF GetKey
    <2>3. /\ QueueItems(q) # << >> /\ QueueItems(GetQueue(q)) = Tail(QueueItems(q))
          /\ QueueItems(q) \in Seq(Keys) /\ Len(QueueItems(q)) = QueueCount(q)
          /\ QueueCount(GetQueue(q)) = QueueCount(q) - 1 /\ QueueCount(q) \in Nat
      BY <2>2, GetTakesFirst, GetSlot, ItemsType, LenProperties
    <2>4. \A i \in 1 .. QueueCount(GetQueue(q)) :
            i + 1 \in 1 .. QueueCount(q) /\ QueueItems(GetQueue(q))[i] = QueueItems(q)[i + 1]
      BY <2>3, HeadTailProperties
    <2>5. QueuedKeys' = {QueueItems(GetQueue(q))[i] : i \in 1 .. QueueCount(GetQueue(q))}
      BY <2>2 DEF QueuedKeys, QueueItems, QueueCount, IsQueueEmpty
    <2>6. QueuedKeys = {QueueItems(q)[i] : i \in 1 .. QueueCount(q)}
      BY <2>1 DEF QueuedKeys
    <2> QED
      BY <2>4, <2>5, <2>6
  <1> QED
    BY <1>1, <1>2, SameWire, SameStack, NoConversion DEF MInv

LEMMA NextMInv == IInv /\ MInv /\ [Next]_vars => MInv'
  <1> SUFFICES ASSUME IInv, MInv, [Next]_vars PROVE MInv'
    OBVIOUS
  <1>1. CASE UNCHANGED vars
    BY <1>1, SameWire, SameQueue, SameStack, NoConversion
       DEF vars, device, queueVars, history, MInv
  <1>2. CASE Next
    BY <1>2, KeystrokeKeepsMInv, AnswerKeepsMInv, HandlerKeepsMInv, SendKeepsMInv,
       WaitKeepsMInv, GiveUpKeepsMInv, PutKeyKeepsMInv, GetKeyKeepsMInv DEF Next, Driver
  <1> QED
    BY <1>1, <1>2

\* However deep the LED exchanges nest, a key in the queue means what the bytes
\* before it say: the shift key held, the locks and the prefixes are those of
\* the moment its byte was read.
THEOREM SpecKeysMeanWhatWasTyped == Spec => []KeysMeanWhatWasTyped
  <1>1. MInv => KeysMeanWhatWasTyped
    BY DEF MInv, KeysInv, QueuedKeys, Good, KeysMeanWhatWasTyped
  <1> QED
    BY InitIInv, NextIInv, InitMInv, NextMInv, <1>1, PTL DEF Spec

-----------------------------------------------------------------------------
\* The exchange of bytes about the LEDs, of what is on its way to the keyboard
\* (in) and from it (out), and of what the keyboard has seen (ex, shown).

\* The last command byte sent has had no value behind it.
CommandIsLast(in, ex) == IF in = << >> THEN ex ELSE in[Len(in)] = ChangeLEDs

\* The i-th byte on its way will be taken as a value.
TakenAsValue(in, ex, i) ==
    /\ in[i] \notin {ChangeLEDs, Activate}
    /\ IF i = 1 THEN ex ELSE in[i - 1] = ChangeLEDs

\* What the LEDs show when all that has been sent has arrived.
Finally(in, ex, shown, led) ==
    \/ shown = led /\ \A i \in 1 .. Len(in) : ~TakenAsValue(in, ex, i)
    \/ \E i \in 1 .. Len(in) :
        /\ TakenAsValue(in, ex, i) /\ in[i] = led
        /\ \A j \in i + 1 .. Len(in) : ~TakenAsValue(in, ex, j)

\* One of the next n bytes from the keyboard will be an acknowledgement.
Coming(out, in, n) ==
    \/ \E i \in 1 .. Len(out) : out[i] = ACK /\ i <= n
    \/ \E i \in 1 .. Len(in) : in[i] = ChangeLEDs /\ Len(out) + i <= n

LEMMA CommandSent ==
    ASSUME NEW out \in Seq(Bytes), NEW in \in Seq(Bytes), NEW ex,
           NEW n \in Nat, Len(out) + Len(in) + 1 <= n
    PROVE  /\ CommandIsLast(Append(in, ChangeLEDs), ex)
           /\ Coming(out, Append(in, ChangeLEDs), n)
  <1>1. PICK command \in Bytes : command = ChangeLEDs
    BY DEF Bytes, ChangeLEDs
  <1>2. PICK now \in Seq(Bytes) : now = Append(in, command)
    BY AppendProperties
  <1>3. now # << >> /\ Len(now) = Len(in) + 1 /\ now[Len(in) + 1] = ChangeLEDs
        /\ Len(in) \in Nat /\ Len(out) \in Nat
    BY <1>1, <1>2, AppendProperties, LenProperties
  <1>4. CommandIsLast(now, ex)
    BY <1>3 DEF CommandIsLast
  <1>5. Len(in) + 1 \in 1 .. Len(now) /\ Len(out) + (Len(in) + 1) <= n
    BY <1>3
  <1>6. Coming(out, now, n)
    BY <1>3, <1>5 DEF Coming
  <1> QED
    BY <1>1, <1>2, <1>4, <1>6

\* A value sent behind the command is what will be shown; one that is sent too
\* late changes nothing.
LEMMA ValueSent ==
    ASSUME NEW in \in Seq(Bytes), NEW ex \in BOOLEAN, NEW shown, NEW led \in 0 .. 7
    PROVE  /\ ~CommandIsLast(Append(in, led), ex)
           /\ CommandIsLast(in, ex) => Finally(Append(in, led), ex, shown, led)
           /\ \A old : ~CommandIsLast(in, ex) /\ Finally(in, ex, shown, old)
                            => Finally(Append(in, led), ex, shown, old)
  <1>1. led \in Bytes /\ led \notin {ChangeLEDs, Activate}
    BY DEF Bytes, ChangeLEDs, Activate
  <1>2. PICK now \in Seq(Bytes) : now = Append(in, led)
    BY <1>1, AppendProperties
  <1>3. PICK N \in Nat : N = Len(in)
    BY LenProperties
  <1>4. /\ now # << >> /\ Len(now) = N + 1 /\ now[N + 1] = led
        /\ \A i \in 1 .. N : now[i] = in[i]
    BY <1>1, <1>2, <1>3, AppendProperties
  <1>5. \A i \in 1 .. N : TakenAsValue(now, ex, i) <=> TakenAsValue(in, ex, i)
    <2>1. ASSUME NEW i \in 1 .. N
          PROVE  TakenAsValue(now, ex, i) <=> TakenAsValue(in, ex, i)
      <3>1. i # 1 => i - 1 \in 1 .. N
        OBVIOUS
      <3> QED
        BY <1>4, <3>1 DEF TakenAsValue
    <2> QED
      BY <2>1
  <1>6. TakenAsValue(now, ex, N + 1) <=> CommandIsLast(in, ex)
    <2>1. in = << >> <=> N = 0
      BY <1>3, EmptySeq
    <2>2. N # 0 => N \in 1 .. N /\ N + 1 # 1 /\ N + 1 - 1 = N
      OBVIOUS
    <2> QED
      BY <1>1, <1>3, <1>4, <2>1, <2>2 DEF TakenAsValue, CommandIsLast
  <1>7. ~CommandIsLast(now, ex)
    BY <1>1, <1>4 DEF CommandIsLast
  <1>8. ASSUME CommandIsLast(in, ex) PROVE Finally(now, ex, shown, led)
    <2>1. N + 1 \in 1 .. N + 1 /\ N + 1 + 1 .. N + 1 = {}
      OBVIOUS
    <2> QED
      BY <1>4, <1>6, <1>8, <2>1 DEF Finally
  <1>9. ASSUME NEW old, ~CommandIsLast(in, ex), Finally(in, ex, shown, old)
        PROVE  Finally(now, ex, shown, old)
    <2>1. \A i \in 1 .. N + 1 : i \in 1 .. N \/ i = N + 1
      OBVIOUS
    <2>2. CASE shown = old /\ \A i \in 1 .. N : ~TakenAsValue(in, ex, i)
      BY <1>4, <1>5, <1>6, <1>9, <2>1, <2>2 DEF Finally
    <2>3. ASSUME NEW i \in 1 .. N, TakenAsValue(in, ex, i), in[i] = old,
                 \A j \in i + 1 .. N : ~TakenAsValue(in, ex, j)
          PROVE  Finally(now, ex, shown, old)
      <3>1. i \in 1 .. N + 1 /\ TakenAsValue(now, ex, i) /\ now[i] = old
        BY <1>4, <1>5, <2>3
      <3>2. ASSUME NEW j \in i + 1 .. N + 1 PROVE ~TakenAsValue(now, ex, j)
        <4>1. j = N + 1 \/ (j \in i + 1 .. N /\ j \in 1 .. N)
          OBVIOUS
        <4> QED
          BY <1>5, <1>6, <1>9, <2>3, <4>1
      <3> QED
        BY <1>4, <3>1, <3>2 DEF Finally
    <2> QED
      BY <1>3, <1>9, <2>2, <2>3 DEF Finally
  <1> QED
    BY <1>2, <1>7, <1>8, <1>9

\* The keyboard takes a byte and answers it.
LEMMA ByteTaken ==
    ASSUME NEW out \in Seq(Bytes), NEW in \in Seq(Bytes), in # << >>,
           NEW ex \in BOOLEAN, NEW shown,
           NEW byte, byte = Head(in),
           NEW answer \in Bytes,
           answer = IF byte \in {ChangeLEDs, Activate} \/ ex THEN ACK ELSE Resend,
           NEW exNow, exNow = (byte = ChangeLEDs),
           NEW shownNow,
           shownNow = IF byte \notin {ChangeLEDs, Activate} /\ ex THEN byte ELSE shown
    PROVE  /\ CommandIsLast(Tail(in), exNow) <=> CommandIsLast(in, ex)
           /\ \A led : Finally(in, ex, shown, led) => Finally(Tail(in), exNow, shownNow, led)
           /\ \A n \in Int : Coming(out, in, n) => Coming(Append(out, answer), Tail(in), n)
  <1>1. PICK N \in Nat : Len(in) = N + 1 /\ Head(in) = in[1]
    <2>1. Len(in) \in Nat /\ Len(in) # 0 /\ Head(in) = in[1]
      BY LenProperties, EmptySeq
    <2>2. Len(in) - 1 \in Nat /\ Len(in) = (Len(in) - 1) + 1
      BY <2>1
    <2> QED
      BY <2>1, <2>2
  <1>2. PICK rest \in Seq(Bytes) : rest = Tail(in)
    BY HeadTailProperties
  <1>3. Len(rest) = N /\ \A i \in 1 .. N : rest[i] = in[i + 1]
    BY <1>1, <1>2, HeadTailProperties
  <1>4. CommandIsLast(rest, exNow) <=> CommandIsLast(in, ex)
    <2>1. rest = << >> <=> N = 0
      BY <1>3, EmptySeq
    <2>2. CASE N = 0
      <3>1. CommandIsLast(rest, exNow) <=> exNow
        BY <2>1, <2>2 DEF CommandIsLast
      <3>2. Len(in) = 1 /\ byte = in[1]
        BY <1>1, <2>2
      <3>3. CommandIsLast(in, ex) <=> in[1] = ChangeLEDs
        BY <3>2 DEF CommandIsLast
      <3> QED
        BY <3>1, <3>2, <3>3
    <2>3. CASE N # 0
      <3>1. rest[N] = in[N + 1]
        BY <1>3, <2>3
      <3> QED
        BY <1>1, <1>3, <2>1, <2>3, <3>1 DEF CommandIsLast
    <2> QED
      BY <2>2, <2>3
  <1>5. ASSUME NEW i \in 1 .. N
        PROVE  TakenAsValue(rest, exNow, i) <=> TakenAsValue(in, ex, i + 1)
    <2>1. i + 1 # 1 /\ i + 1 - 1 = i /\ (i # 1 => i - 1 \in 1 .. N /\ (i - 1) + 1 = i)
      OBVIOUS
    <2>2. i # 1 => rest[i - 1] = in[i]
      BY <1>3, <2>1
    <2>3. rest[i] = in[i + 1]
      BY <1>3
    <2>4. (IF i = 1 THEN exNow ELSE rest[i - 1] = ChangeLEDs) <=> in[i] = ChangeLEDs
      BY <1>1, <2>2
    <2> QED
      BY <2>1, <2>3, <2>4 DEF TakenAsValue
  <1>6. TakenAsValue(in, ex, 1) <=> byte \notin {ChangeLEDs, Activate} /\ ex
    BY <1>1 DEF TakenAsValue
  <1>7. ASSUME NEW led, Finally(in, ex, shown, led)
        PROVE  Finally(rest, exNow, shownNow, led)
    <2>1. \A i \in 1 .. N : i + 1 \in 1 .. N + 1
      OBVIOUS
    <2>2. CASE shown = led /\ \A i \in 1 .. N + 1 : ~TakenAsValue(in, ex, i)
      <3>1. 1 \in 1 .. N + 1
        OBVIOUS
      <3>2. shownNow = led
        BY <1>6, <2>2, <3>1
      <3> QED
        BY <1>3, <1>5, <2>1, <2>2, <3>2 DEF Finally
    <2>3. ASSUME NEW i \in 1 .. N + 1, TakenAsValue(in, ex, i), in[i] = led,
                 \A j \in i + 1 .. N + 1 : ~TakenAsValue(in, ex, j)
          PROVE  Finally(rest, exNow, shownNow, led)
      <3>1. CASE i = 1
        <4>1. shownNow = led
          BY <1>1, <1>6, <2>3, <3>1
        <4>2. \A j \in 1 .. N : j + 1 \in i + 1 .. N + 1
          BY <3>1
        <4>3. \A j \in 1 .. N : ~TakenAsValue(rest, exNow, j)
          BY <1>5, <2>3, <4>2
        <4> QED
          BY <1>3, <4>1, <4>3 DEF Finally
      <3>2. CASE i # 1
        <4>1. PICK k \in 1 .. N : i = k + 1
          <5>1. i - 1 \in 1 .. N /\ i = (i - 1) + 1
            BY <3>2
          <5> QED
            BY <5>1
        <4>2. TakenAsValue(rest, exNow, k) /\ rest[k] = led
          BY <1>3, <1>5, <2>3, <4>1
        <4>3. ASSUME NEW j \in k + 1 .. N PROVE ~TakenAsValue(rest, exNow, j)
          <5>1. j \in 1 .. N /\ j + 1 \in i + 1 .. N + 1
            BY <4>1
          <5> QED
            BY <1>5, <2>3, <5>1
        <4> QED
          BY <1>3, <4>2, <4>3 DEF Finally
      <3> QED
        BY <3>1, <3>2
    <2> QED
      BY <1>1, <1>7, <2>2, <2>3 DEF Finally
  <1>8. ASSUME NEW n \in Int, Coming(out, in, n)
        PROVE  Coming(Append(out, answer), rest, n)
    <2>1. PICK M \in Nat : M = Len(out)
      BY LenProperties
    <2>2. PICK now \in Seq(Bytes) : now = Append(out, answer)
      BY AppendProperties
    <2>3. Len(now) = M + 1 /\ now[M + 1] = answer /\ \A i \in 1 .. M : now[i] = out[i]
      BY <2>1, <2>2, AppendProperties
    <2>4. ASSUME NEW i \in 1 .. M, out[i] = ACK, i <= n
          PROVE  Coming(now, rest, n)
      <3>1. i \in 1 .. M + 1
        OBVIOUS
      <3> QED
        BY <2>3, <2>4, <3>1 DEF Coming
    <2>5. ASSUME NEW i \in 1 .. N + 1, in[i] = ChangeLEDs, M + i <= n
          PROVE  Coming(now, rest, n)
      <3>1. CASE i = 1
        <4>1. answer = ACK /\ M + 1 \in 1 .. M + 1
          BY <1>1, <2>5, <3>1
        <4> QED
          BY <2>3, <2>5, <3>1, <4>1 DEF Coming
      <3>2. CASE i # 1
        <4>1. i - 1 \in 1 .. N /\ (i - 1) + 1 = i /\ M + 1 + (i - 1) <= n
          BY <2>5, <3>2
        <4>2. rest[i - 1] = ChangeLEDs
          BY <1>3, <2>5, <4>1
        <4> QED
          BY <1>3, <2>3, <4>1, <4>2 DEF Coming
      <3> QED
        BY <3>1, <3>2
    <2> QED
      BY <1>1, <1>8, <2>1, <2>2, <2>4, <2>5 DEF Coming
  <1> QED
    BY <1>2, <1>4, <1>7, <1>8

\* The driver reads a byte, or the keyboard sends more of them.
LEMMA ByteRead ==
    ASSUME NEW out \in Seq(Bytes), out # << >>, Head(out) # ACK,
           NEW in \in Seq(Bytes), NEW n \in Int, Coming(out, in, n)
    PROVE  Coming(Tail(out), in, n - 1)
  <1>1. PICK M \in Nat : Len(out) = M + 1 /\ Head(out) = out[1]
    <2>1. Len(out) \in Nat /\ Len(out) # 0 /\ Head(out) = out[1]
      BY LenProperties, EmptySeq
    <2>2. Len(out) - 1 \in Nat /\ Len(out) = (Len(out) - 1) + 1
      BY <2>1
    <2> QED
      BY <2>1, <2>2
  <1>2. PICK rest \in Seq(Bytes) : rest = Tail(out)
    BY HeadTailProperties
  <1>3. Len(rest) = M /\ \A i \in 1 .. M : rest[i] = out[i + 1]
    BY <1>1, <1>2, HeadTailProperties
  <1>4. ASSUME NEW i \in 1 .. M + 1, out[i] = ACK, i <= n
        PROVE  Coming(rest, in, n - 1)
    <2>1. i - 1 \in 1 .. M /\ (i - 1) + 1 = i /\ i - 1 <= n - 1
      BY <1>1, <1>4
    <2> QED
      BY <1>3, <1>4, <2>1 DEF Coming
  <1>5. ASSUME NEW i \in 1 .. Len(in), in[i] = ChangeLEDs, M + 1 + i <= n
        PROVE  Coming(rest, in, n - 1)
    <2>1. Len(in) \in Nat
      BY LenProperties
    <2>2. M + i <= n - 1
      BY <1>5, <2>1
    <2> QED
      BY <1>3, <1>5, <2>2 DEF Coming
  <1> QED
    BY <1>1, <1>2, <1>4, <1>5 DEF Coming

LEMMA BytesSent ==
    ASSUME NEW out \in Seq(Bytes), NEW k \in Seq(Bytes), NEW n, Coming(out, << >>, n)
    PROVE  Coming(out \o k, << >>, n)
  <1>1. PICK i \in 1 .. Len(out) : out[i] = ACK /\ i <= n
    BY EmptySeq DEF Coming
  <1>2. /\ Len(out \o k) = Len(out) + Len(k) /\ Len(out) \in Nat /\ Len(k) \in Nat
        /\ \A j \in 1 .. Len(out) + Len(k) :
              (out \o k)[j] = IF j <= Len(out) THEN out[j] ELSE k[j - Len(out)]
    BY ConcatProperties, LenProperties
  <1>3. i \in 1 .. Len(out) + Len(k) /\ i <= Len(out)
    BY <1>2
  <1> QED
    BY <1>1, <1>2, <1>3 DEF Coming

LEMMA NothingComes ==
    ASSUME NEW out, NEW in, NEW n \in Int, Len(out) \in Nat, Coming(out, in, n)
    PROVE  n > 0 /\ (Len(out) > 0 \/ Len(in) > 0)
  BY DEF Coming

-----------------------------------------------------------------------------
\* What the calls in progress (s) promise: the value the LEDs shall show (led)
\* is the one the keyboard has or gets, or a call will still send it.

\* The call f sends its value when the acknowledgement comes, in time.
InCharge(f, out, in) ==
    /\ f.step \in {"commandACK", "value"}
    /\ f.step = "commandACK" => Coming(out, in, MaxTries - f.tries)

StepOnTop(s, step) == s # << >> /\ s[Len(s)].step = step

\* If a command was sent last, its sender is the innermost call but for one
\* that was made for a key read meanwhile.
SomeoneInCharge(s, led, out, in) ==
    \/ s # << >> /\ InCharge(s[Len(s)], out, in) /\ s[Len(s)].led = led
    \/ /\ Len(s) > 1 /\ InCharge(s[Len(s) - 1], out, in)
       /\ s[Len(s)].step = "put" /\ s[Len(s) - 1].led = led
    \/ /\ Len(s) > 1 /\ InCharge(s[Len(s) - 1], out, in)
       /\ s[Len(s)].step = "command"

Promise(s, led, out, in, ex, shown) ==
    /\ CommandIsLast(in, ex) => SomeoneInCharge(s, led, out, in)
    /\ ~CommandIsLast(in, ex) => Finally(in, ex, shown, led) \/ StepOnTop(s, "command")
    /\ StepOnTop(s, "command") => s[Len(s)].led = led

\* Calls, all but the innermost of which wait.
Calls == {s \in Seq(Frames) : \A i \in 1 .. Len(s) - 1 : s[i].step \in Waits}

\* More bytes, or other ones, leave a promise as it is if they leave the
\* acknowledgements.
LEMMA SomeoneStays ==
    ASSUME NEW s \in Calls, NEW led, NEW out, NEW in, NEW outNow, NEW inNow,
           \A n \in Int : Coming(out, in, n) => Coming(outNow, inNow, n),
           SomeoneInCharge(s, led, out, in)
    PROVE  SomeoneInCharge(s, led, outNow, inNow)
  <1>1. s \in Seq(Frames) /\ Len(s) \in Nat /\ (s # << >> => Len(s) > 0)
    BY EmptySeq, LenProperties DEF Calls
  <1>2. ASSUME NEW i \in 1 .. Len(s), InCharge(s[i], out, in)
        PROVE  InCharge(s[i], outNow, inNow)
    <2>1. s[i] \in Frames
      BY <1>1, ElementOfSeq
    <2>2. MaxTries - s[i].tries \in Int
      BY <2>1, BoundsAssumption DEF Frames
    <2> QED
      BY <1>2, <2>2 DEF InCharge
  <1>3. /\ s # << >> => Len(s) \in 1 .. Len(s)
        /\ Len(s) > 1 => Len(s) - 1 \in 1 .. Len(s)
    BY <1>1
  <1> QED
    BY <1>2, <1>3 DEF SomeoneInCharge

LEMMA PromiseBytesSent ==
    ASSUME NEW s \in Calls, NEW led, NEW out \in Seq(Bytes), NEW k \in Seq(Bytes),
           NEW ex, NEW shown, Promise(s, led, out, << >>, ex, shown)
    PROVE  Promise(s, led, out \o k, << >>, ex, shown)
  BY BytesSent, SomeoneStays DEF Promise

LEMMA PromiseByteTaken ==
    ASSUME NEW s \in Calls, NEW led, NEW out \in Seq(Bytes), NEW in \in Seq(Bytes),
           in # << >>, NEW ex \in BOOLEAN, NEW shown,
           Promise(s, led, out, in, ex, shown),
           NEW byte, byte = Head(in),
           NEW answer \in Bytes,
           answer = IF byte \in {ChangeLEDs, Activate} \/ ex THEN ACK ELSE Resend,
           NEW exNow, exNow = (byte = ChangeLEDs),
           NEW shownNow,
           shownNow = IF byte \notin {ChangeLEDs, Activate} /\ ex THEN byte ELSE shown
    PROVE  Promise(s, led, Append(out, answer), Tail(in), exNow, shownNow)
  <1>1. /\ CommandIsLast(Tail(in), exNow) <=> CommandIsLast(in, ex)
        /\ Finally(in, ex, shown, led) => Finally(Tail(in), exNow, shownNow, led)
        /\ \A n \in Int : Coming(out, in, n) => Coming(Append(out, answer), Tail(in), n)
    BY ByteTaken
  <1>2. SomeoneInCharge(s, led, out, in)
            => SomeoneInCharge(s, led, Append(out, answer), Tail(in))
    BY <1>1, SomeoneStays
  <1> QED
    BY <1>1, <1>2 DEF Promise

\* The innermost call sends the command,
LEMMA PromiseCommandSent ==
    ASSUME NEW s \in Calls, NEW led, NEW out \in Seq(Bytes), NEW in \in Seq(Bytes),
           NEW ex, NEW shown, Promise(s, led, out, in, ex, shown),
           StepOnTop(s, "command"), Len(out) + Len(in) + 1 <= MaxTries,
           NEW now \in Calls, now # << >>, NEW f, now[Len(now)] = f,
           f.step = "commandACK", f.tries = 0, f.led = s[Len(s)].led
    PROVE  Promise(now, led, out, Append(in, ChangeLEDs), ex, shown)
  <1>1. /\ CommandIsLast(Append(in, ChangeLEDs), ex)
        /\ Coming(out, Append(in, ChangeLEDs), MaxTries)
    BY CommandSent, BoundsAssumption
  <1>2. MaxTries - 0 = MaxTries
    BY BoundsAssumption
  <1>3. InCharge(f, out, Append(in, ChangeLEDs))
    BY <1>1, <1>2 DEF InCharge
  <1>4. f.led = led /\ ~StepOnTop(now, "command")
    BY DEF Promise, StepOnTop
  <1> QED
    BY <1>1, <1>3, <1>4 DEF Promise, SomeoneInCharge

\* and the value.
LEMMA PromiseValueSent ==
    ASSUME NEW s \in Calls, NEW led, NEW out, NEW in \in Seq(Bytes),
           NEW ex \in BOOLEAN, NEW shown, Promise(s, led, out, in, ex, shown),
           StepOnTop(s, "value"), NEW value \in 0 .. 7, value = s[Len(s)].led,
           NEW now, ~StepOnTop(now, "command")
    PROVE  Promise(now, led, out, Append(in, value), ex, shown)
  <1>1. ~CommandIsLast(Append(in, value), ex)
    BY ValueSent
  <1>2. ~StepOnTop(s, "command")
    BY DEF StepOnTop
  <1>3. CASE CommandIsLast(in, ex)
    <2>1. value = led
      BY <1>3 DEF Promise, SomeoneInCharge, StepOnTop
    <2> QED
      BY <1>1, <1>3, <2>1, ValueSent DEF Promise
  <1>4. CASE ~CommandIsLast(in, ex)
    BY <1>1, <1>2, <1>4, ValueSent DEF Promise
  <1> QED
    BY <1>3, <1>4

\* A call that waits comes to its end: if it is in charge, it is acknowledged
\* and goes on to send its value.
LEMMA PromiseAfterWait ==
    ASSUME NEW s \in Calls, s # << >>, NEW top, top = s[Len(s)], top.step \in Waits,
           NEW led, NEW out, NEW in, NEW outNow,
           NEW ex, NEW shown, Promise(s, led, out, in, ex, shown),
           NEW now, CommandIsLast(in, ex) =>
                /\ now # << >> /\ now[Len(now)].step = "value"
                /\ now[Len(now)].led = top.led,
           StepOnTop(now, "command") => now[Len(now)].led = led
    PROVE  Promise(now, led, outNow, in, ex, shown)
  <1>1. ~StepOnTop(s, "command") /\ top.step # "put" /\ top.step # "command"
    BY DEF StepOnTop, Waits
  <1>2. CASE CommandIsLast(in, ex)
    <2>1. top.led = led
      BY <1>1, <1>2 DEF Promise, SomeoneInCharge
    <2>2. InCharge(now[Len(now)], outNow, in)
      BY <1>2 DEF InCharge
    <2> QED
      BY <1>2, <2>1, <2>2 DEF Promise, SomeoneInCharge
  <1>3. CASE ~CommandIsLast(in, ex)
    BY <1>1, <1>3 DEF Promise
  <1> QED
    BY <1>2, <1>3

\* Who waits while a command was sent last is in charge.
LEMMA WaitingIsInCharge ==
    ASSUME NEW s \in Calls, s # << >>, s[Len(s)].step \in Waits,
           NEW led, NEW out, NEW in, NEW ex, NEW shown,
           Promise(s, led, out, in, ex, shown), CommandIsLast(in, ex)
    PROVE  /\ s[Len(s)].step = "commandACK" /\ s[Len(s)].led = led
           /\ Coming(out, in, MaxTries - s[Len(s)].tries)
  BY DEF Promise, SomeoneInCharge, InCharge, Waits

\* A byte is read that is no acknowledgement, by the innermost call or, if
\* there is none, the handler,
LEMMA PromiseByteRead ==
    ASSUME NEW s \in Calls, NEW led, NEW out \in Seq(Bytes), NEW in \in Seq(Bytes),
           NEW ex, NEW shown, Promise(s, led, out, in, ex, shown), NEW outNow,
           s # << >> => \/ out # << >> /\ Head(out) # ACK /\ outNow = Tail(out)
                        \/ out = << >> /\ in = << >>,
           NEW now,
           \/ s = << >> /\ now = << >>
           \/ /\ s # << >> /\ now # << >> /\ s[Len(s)].step \in Waits
              /\ now[Len(now)].step = s[Len(s)].step /\ now[Len(now)].led = s[Len(s)].led
              /\ now[Len(now)].tries = s[Len(s)].tries + 1
    PROVE  Promise(now, led, outNow, in, ex, shown)
  <1>1. ~StepOnTop(s, "command") /\ ~StepOnTop(now, "command")
    BY DEF StepOnTop, Waits
  <1>2. CASE CommandIsLast(in, ex)
    <2>1. s # << >>
      <3>1. Len(<< >>) = 0
        OBVIOUS
      <3> QED
        BY <1>2, <3>1 DEF Promise, SomeoneInCharge
    <2>2. /\ s[Len(s)].step = "commandACK" /\ s[Len(s)].led = led
          /\ Coming(out, in, MaxTries - s[Len(s)].tries)
      BY <1>2, <2>1, WaitingIsInCharge
    <2>3. PICK t \in Nat : t = s[Len(s)].tries
      <3>1. s \in Seq(Frames) /\ Len(s) \in 1 .. Len(s)
        BY <2>1, EmptySeq, LenProperties DEF Calls
      <3>2. s[Len(s)] \in Frames
        BY <3>1, ElementOfSeq
      <3> QED
        BY <3>2, BoundsAssumption DEF Frames
    <2>4. out # << >>
      <3>1. Len(<< >>) = 0
        OBVIOUS
      <3>2. Len(out) \in Nat /\ MaxTries - t \in Int
        BY LenProperties, BoundsAssumption
      <3>3. Len(out) > 0 \/ Len(in) > 0
        BY <2>2, <2>3, <3>2, NothingComes
      <3> QED
        BY <2>1, <3>1, <3>3
    <2>5. Coming(outNow, in, MaxTries - t - 1)
      <3>1. PICK n \in Int : n = MaxTries - t
        BY BoundsAssumption
      <3>2. Head(out) # ACK /\ outNow = Tail(out)
        BY <2>1, <2>4
      <3>3. Coming(out, in, n)
        BY <2>2, <2>3, <3>1
      <3>4. Coming(Tail(out), in, n - 1)
        BY <2>4, <3>2, <3>3, ByteRead
      <3> QED
        BY <3>1, <3>2, <3>4
    <2>6. MaxTries - t - 1 = MaxTries - (t + 1)
      BY BoundsAssumption
    <2>7. InCharge(now[Len(now)], outNow, in) /\ now # << >> /\ now[Len(now)].led = led
      BY <2>1, <2>2, <2>3, <2>5, <2>6 DEF InCharge
    <2> QED
      BY <1>1, <1>2, <2>7 DEF Promise, SomeoneInCharge
  <1>3. CASE ~CommandIsLast(in, ex)
    BY <1>1, <1>3 DEF Promise
  <1> QED
    BY <1>2, <1>3

\* and converted: a lock key changes what shall be shown, and will send it.
LEMMA PromiseConverted ==
    ASSUME NEW s \in Calls, s # << >> => s[Len(s)].step \in Waits,
           NEW led, NEW ledNow, NEW out, NEW in,
           NEW ex, NEW shown, Promise(s, led, out, in, ex, shown),
           NEW f \in Frames,
           \/ f.step = "command" /\ f.led = ledNow
           \/ f.step = "put" /\ ledNow = led
    PROVE  Promise(Append(s, f), ledNow, out, in, ex, shown)
  <1>1. PICK now \in Seq(Frames) : now = Append(s, f)
    BY AppendProperties DEF Calls
  <1>2. PICK N \in Nat : N = Len(s)
    BY LenProperties DEF Calls
  <1>3. now # << >> /\ Len(now) = N + 1 /\ now[N + 1] = f
        /\ \A i \in 1 .. N : now[i] = s[i]
    BY <1>1, <1>2, AppendProperties DEF Calls
  <1>4. StepOnTop(now, "command") => f.step = "command" /\ now[Len(now)].led = ledNow
    BY <1>3 DEF StepOnTop
  <1>5. CASE CommandIsLast(in, ex)
    <2>1. N \in 1 .. N /\ s # << >>
      <3>1. Len(<< >>) = 0
        OBVIOUS
      <3>2. s # << >>
        BY <1>5, <3>1 DEF Promise, SomeoneInCharge
      <3> QED
        BY <1>2, <3>2, EmptySeq DEF Calls
    <2>2. InCharge(s[N], out, in) /\ s[N].led = led
      BY <1>2, <1>5, <2>1 DEF Promise, SomeoneInCharge, Waits
    <2>3. Len(now) > 1 /\ now[Len(now) - 1] = s[N] /\ now[Len(now)] = f
      BY <1>3, <2>1
    <2> QED
      BY <1>1, <1>4, <1>5, <2>2, <2>3 DEF Promise, SomeoneInCharge
  <1>6. CASE ~CommandIsLast(in, ex)
    <2>1. ~StepOnTop(s, "command")
      BY DEF StepOnTop, Waits
    <2>2. Finally(in, ex, shown, led)
      BY <1>6, <2>1 DEF Promise
    <2>3. f.step = "command" => StepOnTop(now, "command")
      BY <1>3 DEF StepOnTop
    <2> QED
      BY <1>1, <1>4, <1>6, <2>2, <2>3 DEF Promise
  <1> QED
    BY <1>5, <1>6

\* The innermost call has put its key and returns.
LEMMA PromiseReturned ==
    ASSUME NEW s \in Calls, StepOnTop(s, "put"),
           NEW led, NEW out, NEW in, NEW ex, NEW shown,
           Promise(s, led, out, in, ex, shown),
           NEW now, Len(now) = Len(s) - 1, Len(now) > 0 <=> now # << >>,
           \A i \in 1 .. Len(now) : now[i] = s[i]
    PROVE  Promise(now, led, out, in, ex, shown)
  <1>1. PICK N \in Nat : Len(s) = N + 1 /\ Len(now) = N
    <2>1. Len(s) \in Nat \ {0}
      BY EmptySeq, LenProperties DEF Calls, StepOnTop
    <2>2. Len(s) - 1 \in Nat /\ Len(s) = (Len(s) - 1) + 1
      BY <2>1
    <2> QED
      BY <2>2
  <1>2. s[N + 1].step = "put"
    BY <1>1 DEF StepOnTop
  <1>3. N > 0 => now # << >> /\ now[N] = s[N] /\ s[N].step \in Waits
    BY <1>1 DEF Calls
  <1>4. ~StepOnTop(s, "command") /\ ~StepOnTop(now, "command")
    BY <1>1, <1>2, <1>3 DEF StepOnTop, Waits
  <1>5. SomeoneInCharge(s, led, out, in) => SomeoneInCharge(now, led, out, in)
    <2>1. ~InCharge(s[N + 1], out, in)
      BY <1>2 DEF InCharge
    <2>2. N + 1 - 1 = N /\ (N + 1 > 1 => N > 0)
      OBVIOUS
    <2> QED
      BY <1>1, <1>2, <1>3, <2>1, <2>2 DEF SomeoneInCharge
  <1> QED
    BY <1>4, <1>5 DEF Promise

-----------------------------------------------------------------------------
\* The lock keys pressed and the LEDs the driver uses.

Locks == {CapsLock, NumLock, ScrollLock}

NoLock(n) == \A k \in 1 .. n - 1 : scans[k] \notin Locks \/ PartOfPause(k)

LEMMA NoLockPressed ==
    ASSUME NEW n \in Nat
    PROVE  Presses(Locks, n) = 0 <=> NoLock(n)
  <1> DEFINE pressed == {k \in 1 .. n - 1 : scans[k] \in Locks /\ ~PartOfPause(k)}
  <1>1. Presses(Locks, n) = Cardinality(pressed)
    BY DEF Presses
  <1>2. IsFiniteSet(pressed)
    <2>1. IsFiniteSet(1 .. n - 1)
      BY FS_Interval
    <2>2. pressed \subseteq 1 .. n - 1
      OBVIOUS
    <2> HIDE DEF pressed
    <2> QED
      BY <2>1, <2>2, FS_Subset
  <1>3. Cardinality(pressed) = 0 <=> pressed = {}
    <2> HIDE DEF pressed
    <2> QED
      BY <1>2, FS_EmptySet
  <1>4. pressed = {} <=> NoLock(n)
    BY DEF NoLock
  <1> QED
    BY <1>1, <1>3, <1>4

LEMMA NoLockEarlier ==
    ASSUME NEW k \in Nat, NEW n \in Nat, n <= k, NoLock(k)
    PROVE  NoLock(n)
  BY DEF NoLock

LEMMA SameNoLock ==
    ASSUME UNCHANGED scans
    PROVE  \A n : NoLock(n)' <=> NoLock(n)
  BY DEF NoLock, PartOfPause

LEMMA NoLockByte ==
    ASSUME scans \in Seq(Bytes), NEW byte \in Bytes, scans' = Append(scans, byte),
           NEW N, N = Len(scans)
    PROVE  /\ \A n \in 1 .. N + 1 : NoLock(n)' <=> NoLock(n)
           /\ NoLock(N + 2)' => NoLock(N + 1) /\ (byte \notin Locks \/ PartOfPause(N + 1))
  <1>1. /\ N \in Nat /\ scans'[N + 1] = byte
        /\ \A k \in 1 .. N : scans'[k] = scans[k]
    BY AppendProperties, LenProperties
  <1>2. \A k \in 1 .. N + 1 : PartOfPause(k)' <=> PartOfPause(k)
    BY PastStays
  <1>3. ASSUME NEW n \in 1 .. N + 1 PROVE NoLock(n)' <=> NoLock(n)
    <2>1. \A k \in 1 .. n - 1 : k \in 1 .. N /\ k \in 1 .. N + 1
      BY <1>1
    <2> QED
      BY <1>1, <1>2, <2>1 DEF NoLock
  <1>4. ASSUME NoLock(N + 2)'
        PROVE  NoLock(N + 1) /\ (byte \notin Locks \/ PartOfPause(N + 1))
    <2>1. N + 2 - 1 = N + 1 /\ N + 1 - 1 = N /\ N + 1 \in 1 .. N + 1
          /\ \A k \in 1 .. N : k \in 1 .. N + 1
      BY <1>1
    <2>2. \A k \in 1 .. N + 1 : scans'[k] \notin Locks \/ PartOfPause(k)
      BY <1>2, <1>4, <2>1 DEF NoLock, Locks
    <2> QED
      BY <1>1, <2>1, <2>2 DEF NoLock
  <1> QED
    BY <1>3, <1>4

\* Only a lock key changes the lock states.
LEMMA LEDsStay ==
    ASSUME NEW m \in Managers, NEW byte \in Bytes,
           m.iSkipCountForPause > 0 \/ byte \notin Locks
    PROVE  LEDByte(NextManager(m, byte)) = LEDByte(m)
  <1>1. PICK n : n = NextManager(m, byte)
    OBVIOUS
  <1>2. m.iSkipCountForPause \in {0, 1, 2}
    BY DEF Managers, SkipCountForPause
  <1>3. /\ n.bCapsLockOn <=> m.bCapsLockOn
        /\ n.bNumLockOn <=> m.bNumLockOn
    <2>1. m.iSkipCountForPause = 0 => byte # CapsLock /\ byte # NumLock
      BY <1>2 DEF Locks
    <2> QED
      BY <1>1, <2>1, NextFields
  <1>4. n.bScrollLockOn = m.bScrollLockOn
    <2>1. CASE m.iSkipCountForPause > 0
      BY <1>1, <2>1 DEF NextManager, Managers
    <2>2. CASE m.iSkipCountForPause = 0 /\ byte \in {Pause, Extended}
      <3>1. n = [m EXCEPT !.iSkipCountForPause = SkipCountForPause]
            \/ n = [m EXCEPT !.bExtendedCodeIn = TRUE]
        BY <1>1, <2>2 DEF NextManager
      <3> QED
        BY <3>1 DEF Managers
    <2>3. CASE m.iSkipCountForPause = 0 /\ byte \notin {Pause, Extended}
      <3>1. PICK c \in Managers : c = [m EXCEPT !.bExtendedCodeIn = FALSE]
                /\ c.bScrollLockOn = m.bScrollLockOn
        <4>1. [m EXCEPT !.bExtendedCodeIn = FALSE] \in Managers
              /\ [m EXCEPT !.bExtendedCodeIn = FALSE].bScrollLockOn = m.bScrollLockOn
          BY DEF Managers
        <4> QED
          BY <4>1
      <3>2. n = CombinationKeyStatus(c, byte)
        BY <1>1, <2>3, <3>1 DEF NextManager
      <3>3. byte # ScrollLock
        BY <2>3 DEF Locks
      <3>4. n.bScrollLockOn = c.bScrollLockOn
        BY <3>2, <3>3 DEF CombinationKeyStatus, Managers
      <3> QED
        BY <3>1, <3>4
    <2> QED
      BY <1>2, <2>1, <2>2, <2>3
  <1>5. Flag(n.bCapsLockOn) = Flag(m.bCapsLockOn) /\ Flag(n.bNumLockOn) = Flag(m.bNumLockOn)
    BY <1>3 DEF Flag
  <1> QED
    BY <1>1, <1>4, <1>5 DEF LEDByte

LEMMA PartIsSkipped ==
    ASSUME TypeOK, ManagerInv
    PROVE  PartOfPause(Len(scans) + 1) <=> gs_stKeyboardManager.iSkipCountForPause > 0
  <1>1. PICK m \in Managers : m = gs_stKeyboardManager
    BY DEF TypeOK
  <1>2. PICK N \in Nat : N = Len(scans)
    BY LenProperties DEF TypeOK
  <1>3. m.iSkipCountForPause \in {0, 1, 2}
    BY DEF Managers, SkipCountForPause
  <1>4. /\ m.iSkipCountForPause = 2 <=> N > 0 /\ scans[N] = Pause
        /\ m.iSkipCountForPause = 1 <=> N > 1 /\ scans[N - 1] = Pause
    BY <1>1, <1>2 DEF ManagerInv
  <1>5. \A k \in Nat : PartOfPause(k) <=>
            (k > 1 /\ scans[k - 1] = Pause) \/ (k > 2 /\ scans[k - 2] = Pause)
    BY DEF PartOfPause
  <1>6. N + 1 - 1 = N /\ N + 1 - 2 = N - 1
    OBVIOUS
  <1> QED
    BY <1>1, <1>2, <1>3, <1>4, <1>5, <1>6

-----------------------------------------------------------------------------
\* The invariant: Main's call turns the LEDs off, no more bytes are on their
\* way than an acknowledgement is waited for, and unless a lock key came before
\* the keyboard was active, the calls promise the lock states of the moment.

LEDFrame(f) == (f.step = "activate" => f.led = 0) /\ (f.step = "command" => f.tries = 0)

LEDFrames(s) == \A i \in 1 .. Len(s) : LEDFrame(s[i])

Sending(s) == StepOnTop(s, "command") \/ StepOnTop(s, "value")

PromiseInv == NoLock(activated + 1) =>
    Promise(stack, LEDByte(gs_stKeyboardManager), output, input, expectsLEDs, leds)

LEDsInv ==
    /\ activated <= Len(scans)
    /\ LEDFrames(stack)
    /\ Len(output) + Len(input) + Flag(Sending(stack)) <= BufferSize + 1
    /\ NoLock(Len(scans) + 1) => LEDByte(gs_stKeyboardManager) = 0
    /\ PromiseInv

LEMMA StackIsCalls == (IInv => stack \in Calls) /\ (IInv' => stack' \in Calls)
  BY DEF IInv, TypeOK, StackInv, Calls

LEMMA FlagType == ASSUME NEW b PROVE Flag(b) \in {0, 1} /\ (Flag(b) = 1 <=> b)
  BY DEF Flag

\* What every step needs to know of the sequences.
LEMMA Lengths ==
    ASSUME IInv
    PROVE  /\ Len(output) \in Nat /\ Len(input) \in Nat /\ Len(scans) \in Nat
           /\ output \in Seq(Bytes) /\ input \in Seq(Bytes) /\ scans \in Seq(Bytes)
           /\ activated \in Nat /\ expectsLEDs \in BOOLEAN
           /\ gs_stKeyboardManager \in Managers
           /\ BufferSize \in Nat /\ MaxTries \in Nat /\ BufferSize < MaxTries
           /\ input = << >> <=> Len(input) = 0
           /\ output = << >> <=> Len(output) = 0
  <1>1. /\ output \in Seq(Bytes) /\ input \in Seq(Bytes) /\ scans \in Seq(Bytes)
        /\ activated \in Nat /\ expectsLEDs \in BOOLEAN
        /\ gs_stKeyboardManager \in Managers
    BY DEF IInv, TypeOK, Bytes
  <1> QED
    BY <1>1, LenProperties, EmptySeq, BoundsAssumption, TriesAssumption

\* Where no byte is converted, the locks pressed are the same.
LEMMA SameLocks ==
    ASSUME LEDsInv, UNCHANGED <<scans, gs_stKeyboardManager>>
    PROVE  NoLock(Len(scans) + 1)' => LEDByte(gs_stKeyboardManager)' = 0
  <1>1. PICK n : n = Len(scans) + 1 /\ n = (Len(scans) + 1)'
    OBVIOUS
  <1>2. NoLock(n)' <=> NoLock(n)
    BY SameNoLock
  <1>3. NoLock(Len(scans) + 1)' <=> NoLock(n)'
    BY <1>1 DEF NoLock
  <1> QED
    BY <1>1, <1>2, <1>3 DEF LEDsInv, LEDByte

LEMMA SamePromise ==
    ASSUME UNCHANGED <<scans, activated>>
    PROVE  NoLock(activated + 1)' <=> NoLock(activated + 1)
  BY DEF NoLock, PartOfPause

LEMMA InitLEDsInv == Init => LEDsInv
  <1> SUFFICES ASSUME Init PROVE LEDsInv
    OBVIOUS
  <1>1. /\ output = << >> /\ input = <<Activate>> /\ expectsLEDs = FALSE /\ leds = 0
        /\ scans = << >> /\ activated = 0 /\ Len(scans) = 0 /\ Len(output) = 0
        /\ Len(input) = 1 /\ input[1] = Activate /\ input # << >>
    BY DEF Init
  <1>2. LEDByte(gs_stKeyboardManager) = 0
    BY DEF Init, LEDByte, Flag
  <1>3. Len(stack) = 1 /\ stack[1].step = "activate" /\ stack[1].led = 0
    BY DEF Init
  <1>4. LEDFrames(stack)
    BY <1>3 DEF LEDFrames, LEDFrame
  <1>5. ~StepOnTop(stack, "command") /\ ~StepOnTop(stack, "value")
    BY <1>3 DEF StepOnTop
  <1>6. ~CommandIsLast(input, expectsLEDs)
    BY <1>1 DEF CommandIsLast, Activate, ChangeLEDs
  <1>7. Finally(input, expectsLEDs, leds, 0)
    BY <1>1 DEF Finally, TakenAsValue
  <1>8. Promise(stack, 0, output, input, expectsLEDs, leds)
    BY <1>5, <1>6, <1>7 DEF Promise
  <1>9. Flag(Sending(stack)) = 0
    BY <1>5 DEF Sending, Flag
  <1> QED
    BY <1>1, <1>2, <1>4, <1>8, <1>9, BoundsAssumption DEF LEDsInv, PromiseInv

LEMMA KeystrokeKeepsLEDs ==
    ASSUME IInv, LEDsInv, NEW k \in Keystrokes, Keystroke(k)
    PROVE  LEDsInv'
  <1>1. /\ input = << >> /\ Len(output) + Len(k) <= BufferSize /\ output' = output \o k
        /\ UNCHANGED <<input, expectsLEDs, leds, gs_stKeyboardManager, stack, scans, activated>>
    BY DEF Keystroke, history
  <1>2. k \in Seq(Bytes)
    BY KeystrokesAssumption DEF Bytes
  <1>3. Len(output') = Len(output) + Len(k) /\ Len(k) \in Nat
    BY <1>1, <1>2, Lengths, ConcatProperties, LenProperties
  <1>4. Flag(Sending(stack)) \in {0, 1}
    BY FlagType
  <1>5. Len(output') + Len(input) + Flag(Sending(stack)) <= BufferSize + 1
    BY <1>1, <1>3, <1>4, Lengths
  <1>6. PromiseInv'
    <2>1. PICK led : led = LEDByte(gs_stKeyboardManager)
      OBVIOUS
    <2>2. Promise(stack, led, output, << >>, expectsLEDs, leds)
            => Promise(stack, led, output \o k, << >>, expectsLEDs, leds)
      BY <1>2, Lengths, StackIsCalls, PromiseBytesSent
    <2> QED
      BY <1>1, <2>1, <2>2, SamePromise DEF LEDsInv, PromiseInv
  <1>7. NoLock(Len(scans) + 1)' => LEDByte(gs_stKeyboardManager)' = 0
    BY <1>1, SameLocks
  <1> QED
    BY <1>1, <1>5, <1>6, <1>7 DEF LEDsInv

LEMMA AnswerKeepsLEDs ==
    ASSUME IInv, LEDsInv, KeyboardAnswers
    PROVE  LEDsInv'
  <1>1. PICK byte : byte = Head(input)
    OBVIOUS
  <1>2. PICK answer \in Bytes :
          answer = IF byte \in {ChangeLEDs, Activate} \/ expectsLEDs THEN ACK ELSE Resend
    BY DEF Bytes, ACK, Resend
  <1>3. /\ input # << >> /\ output' = Append(output, answer) /\ input' = Tail(input)
        /\ expectsLEDs' = (byte = ChangeLEDs)
        /\ leds' = IF byte \notin {ChangeLEDs, Activate} /\ expectsLEDs THEN byte ELSE leds
        /\ UNCHANGED <<gs_stKeyboardManager, stack, scans, activated>>
    BY <1>1, <1>2 DEF KeyboardAnswers, history
  <1>4. Len(output') = Len(output) + 1 /\ Len(input') = Len(input) - 1
    BY <1>3, Lengths, AppendProperties, HeadTailProperties
  <1>5. Len(output') + Len(input') + Flag(Sending(stack)) <= BufferSize + 1
    BY <1>4, Lengths, FlagType DEF LEDsInv
  <1>6. PromiseInv'
    <2>1. PICK led : led = LEDByte(gs_stKeyboardManager)
      OBVIOUS
    <2>2. Promise(stack, led, output, input, expectsLEDs, leds)
            => Promise(stack, led, output', input', expectsLEDs', leds')
      BY <1>1, <1>2, <1>3, Lengths, StackIsCalls, PromiseByteTaken
    <2> QED
      BY <1>3, <2>1, <2>2, SamePromise DEF LEDsInv, PromiseInv
  <1>7. NoLock(Len(scans) + 1)' => LEDByte(gs_stKeyboardManager)' = 0
    BY <1>3, SameLocks
  <1> QED
    BY <1>3, <1>5, <1>6, <1>7 DEF LEDsInv

\* What a read leaves on the wire.
LEMMA ReadLeaves ==
    ASSUME IInv, NEW byte \in Bytes, ReadPort(byte) \/ ReadPortAgain(byte)
    PROVE  /\ UNCHANGED <<input, expectsLEDs, leds>>
           /\ \/ output # << >> /\ Head(output) = byte /\ output' = Tail(output)
              \/ output = << >> /\ input = << >> /\ output' = output
           /\ Len(output') \in Nat
           /\ Len(output') + Len(input) <= Len(output) + Len(input)
           /\ \A n \in {0, 1} : Len(output) + Len(input) <= BufferSize + 1 =>
                Len(output') + Len(input) + n <= BufferSize + 1
  <1>1. CASE ReadPort(byte)
    <2>1. Len(output') = Len(output) - 1 /\ output # << >>
      BY <1>1, Lengths, HeadTailProperties DEF ReadPort
    <2>2. /\ UNCHANGED <<input, expectsLEDs, leds>>
          /\ Head(output) = byte /\ output' = Tail(output)
      BY <1>1 DEF ReadPort
    <2>3. Len(output) > 0
      BY <2>1, Lengths
    <2>4. /\ Len(output') \in Nat
          /\ Len(output') + Len(input) <= Len(output) + Len(input)
          /\ \A n \in {0, 1} : Len(output) + Len(input) <= BufferSize + 1 =>
                Len(output') + Len(input) + n <= BufferSize + 1
      BY <2>1, <2>3, Lengths
    <2> QED
      BY <2>1, <2>2, <2>4
  <1>2. CASE ReadPortAgain(byte)
    BY <1>2, Lengths DEF ReadPortAgain, device
  <1> QED
    BY <1>1, <1>2

\* A byte read on top of calls that wait is converted.
LEMMA ConvertKeepsLEDs ==
    ASSUME IInv, MInv, LEDsInv, NEW byte \in Bytes, NEW rest \in Calls,
           rest # << >> => rest[Len(rest)].step \in Waits, LEDFrames(rest),
           ReadPort(byte) \/ ReadPortAgain(byte), Convert(byte, rest),
           NoLock(activated + 1) =>
            Promise(rest, LEDByte(gs_stKeyboardManager), output', input, expectsLEDs, leds)
    PROVE  LEDsInv'
  <1>1. PICK m \in Managers : m = gs_stKeyboardManager
    BY DEF IInv, TypeOK
  <1>2. PICK n \in Managers : n = NextManager(m, byte)
    BY ManagerType
  <1>3. PICK N \in Nat : N = Len(scans)
    BY Lengths
  <1>4. /\ scans' = Append(scans, byte) /\ gs_stKeyboardManager' = n
        /\ activated' = activated /\ activated <= N /\ activated \in Nat
        /\ UNCHANGED <<input, expectsLEDs, leds>>
    BY <1>1, <1>2, <1>3, Lengths, ReadLeaves DEF Convert, LEDsInv
  <1>5. Len(scans') = N + 1
    BY <1>3, <1>4, Lengths, AppendProperties
  <1>6. PartOfPause(N + 1) <=> m.iSkipCountForPause > 0
    BY <1>1, <1>3, PartIsSkipped DEF IInv, MInv
  <1>7. m.iSkipCountForPause > 0 \/ byte \notin Locks => LEDByte(n) = LEDByte(m)
    BY <1>2, LEDsStay
  <1>8. /\ \A k \in 1 .. N + 1 : NoLock(k)' <=> NoLock(k)
        /\ NoLock(N + 2)' => NoLock(N + 1) /\ (byte \notin Locks \/ PartOfPause(N + 1))
    BY <1>3, <1>4, Lengths, NoLockByte
  <1>9. NoLock(Len(scans) + 1)' => LEDByte(gs_stKeyboardManager)' = 0
    <2>1. NoLock(Len(scans) + 1)' <=> NoLock(N + 2)'
      <3>1. (Len(scans) + 1)' = N + 2
        BY <1>5
      <3> QED
        BY <3>1 DEF NoLock
    <2>2. NoLock(N + 1) => LEDByte(m) = 0
      BY <1>1, <1>3 DEF LEDsInv
    <2>3. LEDByte(gs_stKeyboardManager)' = LEDByte(n)
      BY <1>4 DEF LEDByte
    <2> QED
      BY <1>6, <1>7, <1>8, <2>1, <2>2, <2>3
  <1>10. PICK f \in Frames :
           /\ f = [step |-> IF IsLockPress(byte) THEN "command" ELSE "put",
                   tries |-> 0, led |-> LEDByte(n), key |-> Key(m, byte)]
           /\ f.step = IF IsLockPress(byte) THEN "command" ELSE "put"
           /\ f.tries = 0 /\ f.led = LEDByte(n)
    <2> DEFINE g == [step |-> IF IsLockPress(byte) THEN "command" ELSE "put",
                     tries |-> 0, led |-> LEDByte(n), key |-> Key(m, byte)]
    <2>1. LEDByte(n) \in 0 .. 7 /\ Key(m, byte) \in Keys /\ 0 \in 0 .. MaxTries
      BY LEDType, KeyType, Lengths
    <2>2. g \in Frames
      BY <2>1 DEF Frames
    <2> QED
      BY <2>2
  <1>11. stack' = IF MakesNoKey(m, byte) THEN rest ELSE Append(rest, f)
    BY <1>1, <1>2, <1>10 DEF Convert
  <1>12. /\ byte \in Locks <=> IsLockPress(byte)
         /\ MakesNoKey(m, byte) => m.iSkipCountForPause > 0 \/ byte \notin Locks
         /\ ~MakesNoKey(m, byte) => ~(m.iSkipCountForPause > 0)
    BY DEF Locks, IsLockPress, MakesNoKey, Extended, CapsLock, NumLock, ScrollLock
  <1>13. PromiseInv'
    <2>1. NoLock(activated + 1)' <=> NoLock(activated + 1)
      <3>1. PICK k \in 1 .. N + 1 : k = activated + 1
        BY <1>4
      <3>2. NoLock(activated + 1)' <=> NoLock(k)'
        BY <1>4, <3>1 DEF NoLock
      <3> QED
        BY <1>8, <3>1, <3>2
    <2>2. LEDByte(gs_stKeyboardManager)' = LEDByte(n)
      BY <1>4 DEF LEDByte
    <2>3. ASSUME Promise(rest, LEDByte(m), output', input, expectsLEDs, leds)
          PROVE  Promise(stack', LEDByte(n), output', input, expectsLEDs, leds)
      <3>1. CASE MakesNoKey(m, byte)
        BY <1>7, <1>11, <1>12, <2>3, <3>1
      <3>2. CASE ~MakesNoKey(m, byte)
        <4>1. \/ f.step = "command" /\ f.led = LEDByte(n)
              \/ f.step = "put" /\ LEDByte(n) = LEDByte(m)
          <5>1. IsLockPress(byte) => f.step = "command" /\ f.led = LEDByte(n)
            BY <1>10
          <5>2. ~IsLockPress(byte) => f.step = "put" /\ LEDByte(n) = LEDByte(m)
            BY <1>7, <1>10, <1>12
          <5> QED
            BY <5>1, <5>2
        <4> QED
          BY <1>11, <2>3, <3>2, <4>1, PromiseConverted
      <3> QED
        BY <3>1, <3>2
    <2> QED
      BY <1>1, <1>4, <2>1, <2>2, <2>3 DEF PromiseInv
  <1>14. LEDFrames(stack')
    <2>1. CASE MakesNoKey(m, byte)
      BY <1>11, <2>1
    <2>2. CASE ~MakesNoKey(m, byte)
      <3>1. PICK M \in Nat : M = Len(rest)
        BY LenProperties DEF Calls
      <3>2. Len(stack') = M + 1 /\ stack'[M + 1] = f /\ \A i \in 1 .. M : stack'[i] = rest[i]
        BY <1>11, <2>2, <3>1, AppendProperties DEF Calls
      <3>3. \A i \in 1 .. M + 1 : i = M + 1 \/ i \in 1 .. M
        OBVIOUS
      <3>4. LEDFrame(f)
        BY <1>10 DEF LEDFrame
      <3> QED
        BY <3>1, <3>2, <3>3, <3>4 DEF LEDFrames
    <2> QED
      BY <2>1, <2>2
  <1>15. Len(output') + Len(input') + Flag(Sending(stack')) <= BufferSize + 1
    <2>1. Len(output) + Len(input) <= BufferSize + 1
      BY Lengths, FlagType DEF LEDsInv
    <2> QED
      BY <1>4, <2>1, ReadLeaves, FlagType
  <1>16. activated' <= Len(scans')
    BY <1>4, <1>5
  <1> QED
    BY <1>9, <1>13, <1>14, <1>15, <1>16 DEF LEDsInv

LEMMA HandlerKeepsLEDs ==
    ASSUME IInv, MInv, LEDsInv, KeyboardHandler
    PROVE  LEDsInv'
  <1>1. PICK byte \in Bytes : stack = << >> /\ ReadPort(byte) /\ Convert(byte, << >>)
    BY DEF KeyboardHandler, Bytes
  <1>2. PICK rest \in Calls : rest = << >>
    BY <1>1, StackIsCalls
  <1>3. LEDFrames(rest)
    BY <1>2 DEF LEDFrames
  <1>4. ASSUME NoLock(activated + 1)
        PROVE  Promise(rest, LEDByte(gs_stKeyboardManager), output', input, expectsLEDs, leds)
    <2>1. PICK led : led = LEDByte(gs_stKeyboardManager)
      OBVIOUS
    <2>2. Promise(rest, led, output, input, expectsLEDs, leds)
      BY <1>1, <1>2, <1>4, <2>1 DEF LEDsInv, PromiseInv
    <2>3. Promise(rest, led, output', input, expectsLEDs, leds)
      BY <1>2, <2>2, Lengths, PromiseByteRead
    <2> QED
      BY <2>1, <2>3
  <1> QED
    BY <1>1, <1>2, <1>3, <1>4, ConvertKeepsLEDs

LEMMA TopFrames ==
    ASSUME IInv, LEDsInv, stack # << >>
    PROVE  /\ Top = stack[Len(stack)] /\ Top \in Frames /\ LEDFrame(Top)
           /\ LEDFrames(Below) /\ Len(Below) = Len(stack) - 1 /\ Len(stack) \in Nat \ {0}
           /\ Below \in Seq(Frames)
           /\ Below # << >> => Below[Len(Below)].step \in Waits
           /\ Below # << >> <=> Len(Below) > 0
           /\ \A i \in 1 .. Len(Below) : Below[i] = stack[i]
           /\ \A f \in Frames : LEDFrame(f) => LEDFrames(SetTop(f))
           /\ \A f \in Frames : SetTop(f) # << >> /\ SetTop(f)[Len(SetTop(f))] = f
  <1>1. PICK N \in Nat : Len(stack) = N + 1
    <2>1. Len(stack) \in Nat \ {0}
      BY TopAndBelow DEF IInv, TypeOK
    <2>2. Len(stack) - 1 \in Nat /\ Len(stack) = (Len(stack) - 1) + 1
      BY <2>1
    <2> QED
      BY <2>2
  <1>2. /\ Top = stack[N + 1] /\ Top \in Frames /\ Below \in Seq(Frames) /\ Len(Below) = N
        /\ \A i \in 1 .. N : Below[i] = stack[i]
    BY <1>1, TopAndBelow DEF IInv, TypeOK, Top
  <1>3. /\ \A i \in 1 .. N : i \in 1 .. N + 1
        /\ N + 1 \in 1 .. N + 1 /\ N + 1 - 1 = N
    OBVIOUS
  <1>4. LEDFrame(Top) /\ LEDFrames(Below)
    BY <1>1, <1>2, <1>3 DEF LEDsInv, LEDFrames
  <1>5. Below # << >> <=> N > 0
    BY <1>2, EmptySeq
  <1>6. N > 0 => Below[N].step \in Waits
    BY <1>1, <1>2, <1>3 DEF IInv, StackInv
  <1>7. ASSUME NEW f \in Frames
        PROVE  /\ LEDFrame(f) => LEDFrames(SetTop(f))
               /\ SetTop(f) # << >> /\ SetTop(f)[Len(SetTop(f))] = f
    <2>1. /\ Len(SetTop(f)) = N + 1 /\ SetTop(f)[N + 1] = f /\ SetTop(f) \in Seq(Frames)
          /\ \A i \in 1 .. N : SetTop(f)[i] = stack[i]
      BY <1>1, <1>3, SetTopFrame DEF IInv, TypeOK
    <2>2. \A i \in 1 .. N + 1 : i = N + 1 \/ i \in 1 .. N
      OBVIOUS
    <2>3. SetTop(f) # << >>
      BY <2>1, EmptySeq
    <2> QED
      BY <1>1, <1>3, <2>1, <2>2, <2>3 DEF LEDsInv, LEDFrames
  <1> QED
    BY <1>1, <1>2, <1>4, <1>5, <1>6, <1>7

LEMMA SendCommandKeepsLEDs ==
    ASSUME IInv, IInv', LEDsInv, SendCommand
    PROVE  LEDsInv'
  <1>1. /\ stack # << >> /\ Top.step = "command" /\ input' = Append(input, ChangeLEDs)
        /\ stack' = SetTop([Top EXCEPT !.step = "commandACK"])
        /\ UNCHANGED <<output, expectsLEDs, leds, gs_stKeyboardManager, scans, activated>>
    BY DEF SendCommand, Running, SendByte, history
  <1>2. PICK f \in Frames : /\ f = [Top EXCEPT !.step = "commandACK"]
                            /\ f.step = "commandACK" /\ f.tries = 0 /\ f.led = Top.led
    <2>1. Top.tries = 0 /\ Top \in Frames
      BY <1>1, TopFrames DEF LEDFrame
    <2>2. /\ [Top EXCEPT !.step = "commandACK"] \in Frames
          /\ [Top EXCEPT !.step = "commandACK"].step = "commandACK"
          /\ [Top EXCEPT !.step = "commandACK"].tries = Top.tries
          /\ [Top EXCEPT !.step = "commandACK"].led = Top.led
      BY <2>1 DEF Frames, Waits
    <2> QED
      BY <2>1, <2>2
  <1>3. stack' # << >> /\ stack'[Len(stack')] = f /\ LEDFrames(stack')
    <2>1. LEDFrame(f)
      BY <1>2 DEF LEDFrame
    <2> QED
      BY <1>1, <1>2, <2>1, TopFrames
  <1>4. StepOnTop(stack, "command")
    BY <1>1, TopFrames DEF StepOnTop
  <1>5. Len(output) + Len(input) + 1 <= BufferSize + 1
    BY <1>4, Lengths, FlagType DEF LEDsInv, Sending
  <1>6. Len(input') = Len(input) + 1
    <2>1. ChangeLEDs \in Bytes
      BY DEF ChangeLEDs, Bytes
    <2> QED
      BY <1>1, <2>1, Lengths, AppendProperties
  <1>7. Flag(Sending(stack')) = 0
    BY <1>2, <1>3 DEF Flag, Sending, StepOnTop
  <1>8. Len(output') + Len(input') + Flag(Sending(stack')) <= BufferSize + 1
    BY <1>1, <1>5, <1>6, <1>7, Lengths
  <1>9. PromiseInv'
    <2>1. PICK led : led = LEDByte(gs_stKeyboardManager)
      OBVIOUS
    <2>2. Len(output) + Len(input) + 1 <= MaxTries
      BY <1>5, Lengths
    <2>3. Promise(stack, led, output, input, expectsLEDs, leds)
            => Promise(stack', led, output, input', expectsLEDs, leds)
      BY <1>1, <1>2, <1>3, <1>4, <2>2, Lengths, StackIsCalls, TopFrames, PromiseCommandSent
    <2> QED
      BY <1>1, <2>1, <2>3, SamePromise DEF LEDsInv, PromiseInv
  <1>10. NoLock(Len(scans) + 1)' => LEDByte(gs_stKeyboardManager)' = 0
    BY <1>1, SameLocks
  <1> QED
    BY <1>1, <1>3, <1>8, <1>9, <1>10 DEF LEDsInv

LEMMA SendLEDsKeepsLEDs ==
    ASSUME IInv, IInv', LEDsInv, SendLEDs
    PROVE  LEDsInv'
  <1>1. /\ stack # << >> /\ Top.step = "value" /\ input' = Append(input, Top.led)
        /\ stack' = SetTop([Top EXCEPT !.step = "valueACK", !.tries = 0])
        /\ UNCHANGED <<output, expectsLEDs, leds, gs_stKeyboardManager, scans, activated>>
    BY DEF SendLEDs, Running, SendByte, history
  <1>2. PICK f \in Frames : /\ f = [Top EXCEPT !.step = "valueACK", !.tries = 0]
                            /\ f.step = "valueACK"
    <2>1. Top \in Frames /\ 0 \in 0 .. MaxTries
      BY <1>1, TopFrames, BoundsAssumption
    <2>2. /\ [Top EXCEPT !.step = "valueACK", !.tries = 0] \in Frames
          /\ [Top EXCEPT !.step = "valueACK", !.tries = 0].step = "valueACK"
      BY <2>1 DEF Frames, Waits
    <2> QED
      BY <2>2
  <1>3. stack' # << >> /\ stack'[Len(stack')] = f /\ LEDFrames(stack')
    <2>1. LEDFrame(f)
      BY <1>2 DEF LEDFrame
    <2> QED
      BY <1>1, <1>2, <2>1, TopFrames
  <1>4. StepOnTop(stack, "value")
    BY <1>1, TopFrames DEF StepOnTop
  <1>5. Len(output) + Len(input) + 1 <= BufferSize + 1
    BY <1>4, Lengths, FlagType DEF LEDsInv, Sending
  <1>6. PICK value \in 0 .. 7 : value = Top.led /\ value \in Bytes
    BY <1>1, TopFrames DEF Frames, Bytes
  <1>7. Len(input') = Len(input) + 1
    BY <1>1, <1>6, Lengths, AppendProperties
  <1>8. Flag(Sending(stack')) = 0 /\ ~StepOnTop(stack', "command")
    BY <1>2, <1>3 DEF Flag, Sending, StepOnTop
  <1>9. Len(output') + Len(input') + Flag(Sending(stack')) <= BufferSize + 1
    BY <1>1, <1>5, <1>7, <1>8, Lengths
  <1>10. PromiseInv'
    <2>1. PICK led : led = LEDByte(gs_stKeyboardManager)
      OBVIOUS
    <2>2. Promise(stack, led, output, input, expectsLEDs, leds)
            => Promise(stack', led, output, input', expectsLEDs, leds)
      <3>1. value = stack[Len(stack)].led /\ input' = Append(input, value)
        BY <1>1, <1>6, TopFrames
      <3> QED
        BY <1>4, <1>8, <3>1, Lengths, StackIsCalls, PromiseValueSent
    <2> QED
      BY <1>1, <2>1, <2>2, SamePromise DEF LEDsInv, PromiseInv
  <1>11. NoLock(Len(scans) + 1)' => LEDByte(gs_stKeyboardManager)' = 0
    BY <1>1, SameLocks
  <1> QED
    BY <1>1, <1>3, <1>9, <1>10, <1>11 DEF LEDsInv

\* The innermost call comes out of its wait.
LEMMA AfterWaitKeepsLEDs ==
    ASSUME IInv, IInv', MInv, LEDsInv, Running(Waits), NEW b \in BOOLEAN, AfterWait(b),
           UNCHANGED <<input, expectsLEDs, leds, gs_stKeyboardManager, scans>>,
           NEW more, more = Flag(b),
           Len(output') \in Nat, Len(output') + Len(input) + more <= BufferSize + 1,
           ~b => Top.tries = MaxTries
    PROVE  LEDsInv'
  <1>1. stack # << >> /\ Top.step \in Waits
    BY DEF Running
  <1>2. /\ Top = stack[Len(stack)] /\ Top \in Frames /\ LEDFrame(Top) /\ LEDFrames(Below)
        /\ Below # << >> => Below[Len(Below)].step \in Waits
        /\ \A f \in Frames : LEDFrame(f) => LEDFrames(SetTop(f))
        /\ \A f \in Frames : SetTop(f) # << >> /\ SetTop(f)[Len(SetTop(f))] = f
    BY <1>1, TopFrames
  <1>3. PICK top \in Frames : top = Top
    BY <1>2
  <1>4. 0 \in 0 .. MaxTries
    BY BoundsAssumption
  <1>5. \/ /\ top.step = "activate" /\ b
           /\ \E f \in Frames : /\ f.step = "command" /\ f.tries = 0 /\ f.led = 0
                                /\ stack' = SetTop(f)
        \/ /\ top.step = "commandACK" /\ b
           /\ \E f \in Frames : /\ f.step = "value" /\ f.led = top.led
                                /\ stack' = SetTop(f)
        \/ /\ ~(top.step = "commandACK" /\ b)
           /\ \/ stack' = Below
              \/ \E f \in Frames : f.step \in {"failed", "put"} /\ stack' = SetTop(f)
    <2>1. CASE top.step = "activate" /\ b
      <3> DEFINE f == [top EXCEPT !.step = "command", !.tries = 0]
      <3>1. f \in Frames /\ f.step = "command" /\ f.tries = 0 /\ f.led = top.led
        BY <1>4 DEF Frames
      <3>2. stack' = SetTop(f)
        BY <1>3, <2>1 DEF AfterWait
      <3>3. f.led = 0
        BY <1>2, <1>3, <2>1, <3>1 DEF LEDFrame
      <3> HIDE DEF f
      <3> QED
        BY <2>1, <3>1, <3>2, <3>3
    <2>2. CASE top.step = "commandACK" /\ b
      <3> DEFINE f == [top EXCEPT !.step = "value"]
      <3>1. f \in Frames /\ f.step = "value" /\ f.led = top.led
        BY DEF Frames
      <3>2. stack' = SetTop(f)
        BY <1>3, <2>2 DEF AfterWait
      <3> HIDE DEF f
      <3> QED
        BY <2>2, <3>1, <3>2
    <2>3. CASE ~(top.step = "activate" /\ b) /\ ~(top.step = "commandACK" /\ b)
      <3>1. \/ stack' = Below
            \/ \E to \in {"failed", "put"} : stack' = SetTop([top EXCEPT !.step = to])
        BY <1>3, <2>3 DEF AfterWait
      <3>2. \A to \in {"failed", "put"} : [top EXCEPT !.step = to] \in Frames
                                          /\ [top EXCEPT !.step = to].step = to
        BY DEF Frames
      <3>3. \/ stack' = Below
            \/ \E f \in Frames : f.step \in {"failed", "put"} /\ stack' = SetTop(f)
        BY <3>1, <3>2
      <3> QED
        BY <2>3, <3>3
    <2> QED
      BY <2>1, <2>2, <2>3
  <1>6. LEDFrames(stack')
    <2>1. \A f \in Frames :
            f.step \in {"value", "failed", "put"} \/ (f.step = "command" /\ f.tries = 0)
                => LEDFrame(f)
      BY DEF LEDFrame
    <2> QED
      BY <1>2, <1>5, <2>1
  <1>7. /\ StepOnTop(stack', "command") =>
            top.step = "activate" /\ b /\ stack'[Len(stack')].led = 0
        /\ StepOnTop(stack', "value") => b
    <2>1. CASE stack' = Below
      BY <1>2, <2>1 DEF StepOnTop, Waits
    <2>2. CASE stack' # Below
      BY <1>2, <1>5, <2>2 DEF StepOnTop
    <2> QED
      BY <2>1, <2>2
  <1>8. Len(output') + Len(input') + Flag(Sending(stack')) <= BufferSize + 1
    <2>1. Flag(Sending(stack')) \in {0, 1} /\ more \in {0, 1}
          /\ (Flag(Sending(stack')) = 1 => more = 1)
      BY <1>7, FlagType DEF Sending
    <2> QED
      BY <2>1, Lengths
  <1>9. activated' = IF top.step = "activate" THEN Len(scans) ELSE activated
    BY <1>3 DEF AfterWait
  <1>10. activated' <= Len(scans') /\ activated <= activated' /\ activated' \in Nat
    BY <1>9, Lengths DEF LEDsInv
  <1>11. PICK k \in Nat : k = activated' + 1
    BY <1>9, Lengths
  <1>12. PromiseInv'
    <2> SUFFICES ASSUME NoLock(activated + 1)' PROVE
            Promise(stack', LEDByte(gs_stKeyboardManager)', output', input, expectsLEDs, leds)
      BY DEF PromiseInv
    <2>1. PICK led : led = LEDByte(gs_stKeyboardManager)
      OBVIOUS
    <2>2. LEDByte(gs_stKeyboardManager)' = led
      BY <2>1 DEF LEDByte
    <2>3. NoLock(k)
      <3>1. NoLock(activated + 1)' <=> NoLock(k)'
        BY <1>11 DEF NoLock
      <3> QED
        BY <3>1, SameNoLock
    <2>4. NoLock(activated + 1)
      BY <1>10, <1>11, <2>3, Lengths, NoLockEarlier
    <2>5. Promise(stack, led, output, input, expectsLEDs, leds)
      BY <2>1, <2>4 DEF LEDsInv, PromiseInv
    <2>6. StepOnTop(stack', "command") => stack'[Len(stack')].led = led
      <3>1. top.step = "activate" => NoLock(Len(scans) + 1)
        BY <1>9, <1>11, <2>3
      <3> QED
        BY <1>7, <2>1, <3>1 DEF LEDsInv
    <2>7. CommandIsLast(input, expectsLEDs) =>
            /\ stack' # << >> /\ stack'[Len(stack')].step = "value"
            /\ stack'[Len(stack')].led = top.led
      <3> SUFFICES ASSUME CommandIsLast(input, expectsLEDs)
                   PROVE  /\ stack' # << >> /\ stack'[Len(stack')].step = "value"
                          /\ stack'[Len(stack')].led = top.led
        OBVIOUS
      <3>1. top.step = "commandACK" /\ Coming(output, input, MaxTries - top.tries)
        BY <1>1, <1>2, <1>3, <2>5, StackIsCalls, WaitingIsInCharge
      <3>2. b
        <4>1. ASSUME ~b PROVE FALSE
          <5>1. MaxTries - top.tries = 0
            BY <1>3, <4>1, BoundsAssumption
          <5> QED
            BY <3>1, <5>1, Lengths, NothingComes
        <4> QED
          BY <4>1
      <3> QED
        BY <1>2, <1>5, <3>1, <3>2
    <2> QED
      BY <1>1, <1>2, <1>3, <2>2, <2>5, <2>6, <2>7, StackIsCalls, PromiseAfterWait
  <1>13. NoLock(Len(scans) + 1)' => LEDByte(gs_stKeyboardManager)' = 0
    BY SameLocks
  <1> QED
    BY <1>6, <1>8, <1>10, <1>12, <1>13 DEF LEDsInv

LEMMA WaitKeepsLEDs ==
    ASSUME IInv, IInv', MInv, LEDsInv, WaitForACK
    PROVE  LEDsInv'
  <1>1. PICK byte \in Bytes :
          /\ Running(Waits) /\ Top.tries < MaxTries
          /\ ReadPort(byte) \/ ReadPortAgain(byte)
          /\ IF byte = ACK
             THEN /\ AfterWait(TRUE)
                  /\ UNCHANGED <<gs_stKeyboardManager, queueVars, scans, newest>>
             ELSE Convert(byte, SetTop([Top EXCEPT !.tries = @ + 1]))
    BY DEF WaitForACK, Bytes
  <1>2. stack # << >> /\ Top.step \in Waits
    BY <1>1 DEF Running
  <1>3. Len(output) + Len(input) <= BufferSize + 1
    BY Lengths, FlagType DEF LEDsInv
  <1>4. CASE byte = ACK
    <2>1. AfterWait(TRUE) /\ UNCHANGED <<gs_stKeyboardManager, scans>>
      BY <1>1, <1>4
    <2>2. UNCHANGED <<input, expectsLEDs, leds>> /\ Len(output') \in Nat
      BY <1>1, ReadLeaves
    <2>3. PICK one \in {1} : one = Flag(TRUE)
      BY DEF Flag
    <2>4. Len(output') + Len(input) + one <= BufferSize + 1
      BY <1>1, <1>3, <2>3, ReadLeaves
    <2> QED
      BY <1>1, <2>1, <2>2, <2>3, <2>4, AfterWaitKeepsLEDs
  <1>5. CASE byte # ACK
    <2>1. /\ Top = stack[Len(stack)] /\ Top \in Frames /\ LEDFrame(Top)
          /\ Below \in Seq(Frames)
      BY <1>2, TopFrames
    <2>2. PICK f \in Frames : /\ f = [Top EXCEPT !.tries = @ + 1] /\ f.step = Top.step
                              /\ f.tries = Top.tries + 1 /\ f.led = Top.led
      <3>1. Top.tries + 1 \in 0 .. MaxTries
        BY <1>1, <2>1, BoundsAssumption DEF Frames
      <3>2. /\ [Top EXCEPT !.tries = @ + 1] \in Frames
            /\ [Top EXCEPT !.tries = @ + 1].step = Top.step
            /\ [Top EXCEPT !.tries = @ + 1].tries = Top.tries + 1
            /\ [Top EXCEPT !.tries = @ + 1].led = Top.led
        BY <2>1, <3>1 DEF Frames
      <3> QED
        BY <3>2
    <2>3. LEDFrame(f)
      BY <1>2, <2>1, <2>2 DEF LEDFrame, Waits
    <2>4. PICK rest : rest = SetTop(f)
      OBVIOUS
    <2>5. LEDFrames(rest) /\ rest # << >> /\ rest[Len(rest)] = f
      BY <1>2, <2>3, <2>4, TopFrames
    <2>6. rest \in Calls
      <3>1. /\ rest \in Seq(Frames) /\ Len(rest) = Len(stack)
            /\ \A i \in 1 .. Len(stack) - 1 : rest[i] = stack[i]
        BY <1>2, <2>4, SetTopFrame DEF IInv, TypeOK
      <3> QED
        BY <3>1 DEF Calls, IInv, StackInv
    <2>7. ASSUME NoLock(activated + 1)
          PROVE  Promise(rest, LEDByte(gs_stKeyboardManager), output', input, expectsLEDs, leds)
      <3>1. PICK led : led = LEDByte(gs_stKeyboardManager)
        OBVIOUS
      <3>2. Promise(stack, led, output, input, expectsLEDs, leds)
        BY <2>7, <3>1 DEF LEDsInv, PromiseInv
      <3>3. \/ output # << >> /\ Head(output) # ACK /\ output' = Tail(output)
            \/ output = << >> /\ input = << >>
        BY <1>1, <1>5, ReadLeaves
      <3>4. Promise(rest, led, output', input, expectsLEDs, leds)
        BY <1>2, <2>1, <2>2, <2>5, <3>2, <3>3, Lengths, StackIsCalls, PromiseByteRead
      <3> QED
        BY <3>1, <3>4
    <2>8. Convert(byte, rest)
      BY <1>1, <1>5, <2>2, <2>4
    <2>9. rest[Len(rest)].step \in Waits
      BY <1>2, <2>2, <2>5
    <2> QED
      BY <1>1, <2>5, <2>6, <2>7, <2>8, <2>9, ConvertKeepsLEDs
  <1> QED
    BY <1>4, <1>5

LEMMA GiveUpKeepsLEDs ==
    ASSUME IInv, IInv', MInv, LEDsInv, GiveUp
    PROVE  LEDsInv'
  <1>1. /\ Running(Waits) /\ Top.tries = MaxTries /\ AfterWait(FALSE)
        /\ UNCHANGED <<output, input, expectsLEDs, leds, gs_stKeyboardManager, scans>>
    BY DEF GiveUp, device
  <1>2. PICK no \in {0} : no = Flag(FALSE)
    BY DEF Flag
  <1>3. Len(output) + Len(input) <= BufferSize + 1
    BY Lengths, FlagType DEF LEDsInv
  <1>4. Len(output') \in Nat /\ Len(output') + Len(input) + no <= BufferSize + 1
    BY <1>1, <1>3, Lengths
  <1> QED
    BY <1>1, <1>2, <1>4, AfterWaitKeepsLEDs

LEMMA PutKeyKeepsLEDs ==
    ASSUME IInv, LEDsInv, PutKey
    PROVE  LEDsInv'
  <1>1. /\ stack # << >> /\ Top.step = "put" /\ stack' = Below
        /\ UNCHANGED <<output, input, expectsLEDs, leds, gs_stKeyboardManager,
                       scans, activated>>
    BY DEF PutKey, Running, device
  <1>2. StepOnTop(stack, "put")
    BY <1>1, TopFrames DEF StepOnTop
  <1>3. /\ LEDFrames(stack') /\ Len(stack') = Len(stack) - 1
        /\ stack' # << >> => stack'[Len(stack')].step \in Waits
        /\ Len(stack') > 0 <=> stack' # << >>
        /\ \A i \in 1 .. Len(stack') : stack'[i] = stack[i]
    BY <1>1, TopFrames
  <1>4. Flag(Sending(stack')) = 0
    BY <1>3 DEF Flag, Sending, StepOnTop, Waits
  <1>5. Len(output') + Len(input') + Flag(Sending(stack')) <= BufferSize + 1
    BY <1>1, <1>4, Lengths, FlagType DEF LEDsInv
  <1>6. PromiseInv'
    <2>1. PICK led : led = LEDByte(gs_stKeyboardManager)
      OBVIOUS
    <2>2. Promise(stack, led, output, input, expectsLEDs, leds)
            => Promise(stack', led, output, input, expectsLEDs, leds)
      BY <1>2, <1>3, StackIsCalls, PromiseReturned
    <2> QED
      BY <1>1, <2>1, <2>2, SamePromise DEF LEDsInv, PromiseInv
  <1>7. NoLock(Len(scans) + 1)' => LEDByte(gs_stKeyboardManager)' = 0
    BY <1>1, SameLocks
  <1> QED
    BY <1>1, <1>3, <1>5, <1>6, <1>7 DEF LEDsInv

\* The queue has no part in it.
LEMMA SameLEDs ==
    ASSUME LEDsInv, UNCHANGED <<output, input, expectsLEDs, leds, gs_stKeyboardManager,
                                stack, scans, activated>>
    PROVE  LEDsInv'
  <1>1. PromiseInv'
    BY SamePromise DEF LEDsInv, PromiseInv, LEDByte
  <1>2. NoLock(Len(scans) + 1)' => LEDByte(gs_stKeyboardManager)' = 0
    BY SameLocks
  <1> QED
    BY <1>1, <1>2 DEF LEDsInv

LEMMA NextLEDsInv == IInv /\ MInv /\ LEDsInv /\ [Next]_vars => LEDsInv'
  <1> SUFFICES ASSUME IInv, MInv, LEDsInv, [Next]_vars PROVE LEDsInv'
    OBVIOUS
  <1>1. IInv'
    BY NextIInv
  <1>2. CASE UNCHANGED vars
    BY <1>2, SameLEDs DEF vars, device, history
  <1>3. CASE GetKey
    BY <1>3, SameLEDs DEF GetKey, device, history
  <1>4. CASE Next /\ ~GetKey
    BY <1>1, <1>4, KeystrokeKeepsLEDs, AnswerKeepsLEDs, HandlerKeepsLEDs,
       SendCommandKeepsLEDs, SendLEDsKeepsLEDs, WaitKeepsLEDs, GiveUpKeepsLEDs,
       PutKeyKeepsLEDs DEF Next, Driver
  <1> QED
    BY <1>2, <1>3, <1>4

\* When everything has been said the keyboard shows the lock states the driver
\* uses: the outdated values of outer exchanges come too late to be taken, and
\* no call gives up on an acknowledgement that is on its way.
THEOREM SpecLEDsShowLocks == Spec => []LEDsShowLocks
  <1>1. IInv /\ LEDsInv => LEDsShowLocks
    <2> SUFFICES ASSUME IInv, LEDsInv, Quiet, NoLock(activated + 1)
                 PROVE  leds = LEDByte(gs_stKeyboardManager) /\ ~expectsLEDs
      <3>1. IInv => (Presses(Locks, activated + 1) = 0 <=> NoLock(activated + 1))
        <4>1. IInv => activated + 1 \in Nat
          BY Lengths
        <4> QED
          BY <4>1, NoLockPressed
      <3> QED
        BY <3>1 DEF LEDsShowLocks, Locks
    <2>1. stack = << >> /\ output = << >> /\ input = << >> /\ Len(<< >>) = 0
      BY DEF Quiet
    <2>2. Promise(stack, LEDByte(gs_stKeyboardManager), output, input, expectsLEDs, leds)
      BY DEF LEDsInv, PromiseInv
    <2>3. ~expectsLEDs
      BY <2>1, <2>2 DEF Promise, CommandIsLast, SomeoneInCharge
    <2>4. Finally(input, expectsLEDs, leds, LEDByte(gs_stKeyboardManager))
      BY <2>1, <2>2, <2>3 DEF Promise, CommandIsLast, StepOnTop
    <2> QED
      BY <2>1, <2>3, <2>4 DEF Finally
  <1> QED
    BY InitIInv, NextIInv, InitMInv, NextMInv, InitLEDsInv, NextLEDsInv, <1>1, PTL DEF Spec
=============================================================================
