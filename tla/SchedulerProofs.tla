-------------------------- MODULE SchedulerProofs --------------------------
(***************************************************************************)
(* What is proved of Scheduler, for any pool, any number of priorities     *)
(* and any length of the time slice.                                       *)
(*                                                                         *)
(* Type correctness comes first.  The list operators are shown to map      *)
(* lists and links of the right type to such; selection and the moves      *)
(* between lists follow.  None of it uses that the lists are well formed,  *)
(* so it holds in the corrupted states as well.  The one strengthening is  *)
(* that the idle task holds a process while it ends the threads of it.     *)
(*                                                                         *)
(* The rest is about what the lists hold.  Holds(l, next, S) says that the *)
(* list l is the items of S in some order, linked by next; the operations  *)
(* of List.c add and remove one item of S and touch no link outside S, so  *)
(* lists of disjoint sets share one function of links.  HInv places every  *)
(* task on at most one list and relates places, flags, IDs and families;   *)
(* that the lists are well formed, that no task is lost or doubled and     *)
(* that the child lists are exact all follow from it.                      *)
(***************************************************************************)
EXTENDS Scheduler, FiniteSetTheorems, WellFoundedInduction, TLAPS

\* What Unlink, RemoveList and RemoveListFromHeader return.
RemovalType == [node : Pointer, list : ListType, next : LinkType]

\* A removed item is NULL or an item, and list and links stay typed.
LEMMA UnlinkType ==
    ASSUME NEW l \in ListType, NEW next \in LinkType,
           NEW previous \in Slots, NEW x \in Slots
    PROVE  Unlink(l, next, previous, x) \in RemovalType
BY DEF Unlink, RemovalType, ListType, LinkType, Pointer

\* kAddListToTail keeps list and links typed.
LEMMA AddListToTailType ==
    ASSUME NEW l \in ListType, NEW next \in LinkType, NEW x \in Pointer
    PROVE  /\ AddListToTail(l, next, x).list \in ListType
           /\ AddListToTail(l, next, x).next \in LinkType
<1> DEFINE first == [next EXCEPT ![x] = NULL]
           both  == [next EXCEPT ![x] = NULL, ![l.tail] = x]
<1>1. first \in LinkType
  BY DEF LinkType, Pointer
<1>2. both \in LinkType
  BY DEF LinkType, Pointer
<1> HIDE DEF first, both
<1>3. CASE l.head = NULL
  <2>1. AddListToTail(l, next, x) =
          [list |-> [head |-> x, tail |-> x, count |-> 1], next |-> first]
    BY <1>3 DEF AddListToTail, first
  <2> QED  BY <2>1, <1>1 DEF ListType, Pointer
<1>4. CASE l.head # NULL
  <2>1. AddListToTail(l, next, x) =
          [list |-> [head |-> l.head, tail |-> x, count |-> l.count + 1],
           next |-> both]
    BY <1>4 DEF AddListToTail, both
  <2> QED  BY <2>1, <1>2 DEF ListType, Pointer
<1> QED  BY <1>3, <1>4

\* kRemoveList keeps list and links typed, whatever it finds.
LEMMA RemoveListType ==
    ASSUME NEW l \in ListType, NEW next \in LinkType, NEW wanted \in SUBSET Slots
    PROVE  RemoveList(l, next, wanted) \in RemovalType
<1> DEFINE at == Chain(l, next)
           positions == 0 .. Cardinality(Slots)
           k == CHOOSE i \in positions : FirstHit(at, i, wanted)
<1>1. CASE \E i \in positions : FirstHit(at, i, wanted)
  <2>1. k \in positions /\ FirstHit(at, k, wanted)
    BY <1>1
  <2>2. at[k] \in Slots /\ (IF k = 0 THEN at[k] ELSE at[k - 1]) \in Slots
    <3> HIDE DEF at, k
    <3> QED  BY <2>1 DEF FirstHit
  <2>3. Unlink(l, next, IF k = 0 THEN at[k] ELSE at[k - 1], at[k]) \in RemovalType
    <3> HIDE DEF at, k
    <3> QED  BY <2>2, UnlinkType
  <2> QED  BY <1>1, <2>3 DEF RemoveList
<1>2. CASE ~ \E i \in positions : FirstHit(at, i, wanted)
  <2>1. RemoveList(l, next, wanted) = [node |-> NULL, list |-> l, next |-> next]
    BY <1>2 DEF RemoveList
  <2> QED  BY <2>1 DEF RemovalType, Pointer
<1> QED  BY <1>1, <1>2

\* kRemoveListFromHeader likewise.
LEMMA RemoveListFromHeaderType ==
    ASSUME NEW l \in ListType, NEW next \in LinkType
    PROVE  RemoveListFromHeader(l, next) \in RemovalType
<1>1. CASE l.count = 0 \/ l.head = NULL
  BY <1>1 DEF RemoveListFromHeader, RemovalType, Pointer
<1>2. CASE ~(l.count = 0 \/ l.head = NULL)
  <2>1. l.head \in Slots
    BY <1>2 DEF ListType, Pointer
  <2> QED  BY <1>2, <2>1, UnlinkType DEF RemoveListFromHeader
<1> QED  BY <1>1, <1>2

\* What the selection returns.
SelectionType == [task : Pointer, q : SchedulerLists]

\* One pass of kGetNextTaskToRun.
LEMMA PassType ==
    ASSUME NEW q \in SchedulerLists
    PROVE  Pass(q) \in SelectionType
<1> DEFINE p == CHOOSE i \in Priority : IsDue(q, i)
           r == RemoveListFromHeader(q.ready[p], q.link)
<1>1. CASE \E i \in Priority : IsDue(q, i)
  <2>1. p \in Priority
    BY <1>1
  <2> HIDE DEF p
  <2>2. q.ready[p] \in ListType /\ q.link \in LinkType
    BY <2>1 DEF SchedulerLists
  <2>3. r \in RemovalType
    BY <2>2, RemoveListFromHeaderType
  <2>4. Turns(q, p) \in [Priority -> Int]
    BY <2>1 DEF Turns, SchedulerLists
  <2> HIDE DEF r
  <2>5. [task |-> r.node,
         q |-> [ready |-> [q.ready EXCEPT ![p] = r.list],
                wait  |-> q.wait,
                link  |-> r.next,
                exec  |-> Turns(q, p)]] \in SelectionType
    BY <2>3, <2>4 DEF RemovalType, SelectionType, SchedulerLists
  <2> QED  BY <1>1, <2>5 DEF Pass, p, r
<1>2. CASE ~ \E i \in Priority : IsDue(q, i)
  <2>1. Pass(q) = [task |-> NULL, q |-> [q EXCEPT !.exec = [h \in Priority |-> 0]]]
    BY <1>2 DEF Pass
  <2> QED  BY <2>1 DEF SelectionType, SchedulerLists, Pointer
<1> QED  BY <1>1, <1>2

\* kGetNextTaskToRun.
LEMMA GetNextTaskToRunType ==
    ASSUME NEW q \in SchedulerLists
    PROVE  GetNextTaskToRun(q) \in SelectionType
BY PassType DEF GetNextTaskToRun, SelectionType

\* A task goes to the wait list, to the ready list of a priority, or back to
\* where its flags send it; it is looked for on a ready list.
LEMMA AddToWaitType ==
    ASSUME NEW q \in SchedulerLists, NEW s \in Pointer
    PROVE  AddToWait(q, s) \in SchedulerLists
<1> DEFINE r == AddListToTail(q.wait, q.link, s)
<1>1. r.list \in ListType /\ r.next \in LinkType
  BY AddListToTailType DEF SchedulerLists
<1>2. AddToWait(q, s) = [q EXCEPT !.wait = r.list, !.link = r.next]
  BY DEF AddToWait
<1> HIDE DEF r
<1> QED  BY <1>1, <1>2 DEF SchedulerLists

LEMMA ReplaceReadyType ==
    ASSUME NEW q \in SchedulerLists, NEW p \in Priority, NEW l \in ListType,
           NEW next \in LinkType
    PROVE  [q EXCEPT !.ready[p] = l, !.link = next] \in SchedulerLists
BY DEF SchedulerLists

LEMMA AddTaskToReadyListType ==
    ASSUME NEW q \in SchedulerLists, NEW s \in Pointer, NEW prio
    PROVE  AddTaskToReadyList(q, s, prio) \in SchedulerLists
<1> DEFINE r == AddListToTail(q.ready[prio], q.link, s)
<1>1. CASE prio = WAIT \/ prio \notin Priority
  BY <1>1, AddToWaitType DEF AddTaskToReadyList
<1>2. CASE prio # WAIT /\ prio \in Priority
  <2>1. q.ready[prio] \in ListType /\ q.link \in LinkType
    BY <1>2 DEF SchedulerLists
  <2>2. r.list \in ListType /\ r.next \in LinkType
    BY <2>1, AddListToTailType
  <2>3. AddTaskToReadyList(q, s, prio)
          = [q EXCEPT !.ready[prio] = r.list, !.link = r.next]
    BY <1>2 DEF AddTaskToReadyList
  <2>4. [q EXCEPT !.ready[prio] = r.list, !.link = r.next] \in SchedulerLists
    <3> HIDE DEF r
    <3> QED  BY <1>2, <2>2, ReplaceReadyType
  <2> QED  BY <2>3, <2>4
<1> QED  BY <1>1, <1>2

LEMMA PutBackType ==
    ASSUME NEW q \in SchedulerLists, NEW s \in Slots
    PROVE  PutBack(q, s) \in SchedulerLists
BY AddToWaitType, AddTaskToReadyListType DEF PutBack, Pointer

LEMMA RemoveTaskFromReadyListType ==
    ASSUME NEW q \in SchedulerLists, NEW id \in TaskID
    PROVE  /\ RemoveTaskFromReadyList(q, id).node \in Pointer
           /\ RemoveTaskFromReadyList(q, id).q \in SchedulerLists
<1> DEFINE prio == tcb[Offset(id)].prio
           r == RemoveList(q.ready[prio], q.link, {Offset(id)})
<1>1. CASE ~Exists(id) \/ prio \notin Priority
  <2>1. RemoveTaskFromReadyList(q, id) = [node |-> NULL, q |-> q]
    BY <1>1 DEF RemoveTaskFromReadyList
  <2> QED  BY <2>1 DEF Pointer
<1>2. CASE Exists(id) /\ prio \in Priority
  <2>1. q.ready[prio] \in ListType /\ q.link \in LinkType /\ {Offset(id)} \in SUBSET Slots
    BY <1>2 DEF SchedulerLists, TaskID, Offset
  <2>2. r \in RemovalType
    <3> HIDE DEF prio
    <3> QED  BY <2>1, RemoveListType
  <2>3. /\ RemoveTaskFromReadyList(q, id).node = r.node
        /\ RemoveTaskFromReadyList(q, id).q
             = [q EXCEPT !.ready[prio] = r.list, !.link = r.next]
    BY <1>2 DEF RemoveTaskFromReadyList
  <2>4. r.node \in Pointer /\ r.list \in ListType /\ r.next \in LinkType
    BY <2>2 DEF RemovalType
  <2>5. [q EXCEPT !.ready[prio] = r.list, !.link = r.next] \in SchedulerLists
    <3> HIDE DEF prio, r
    <3> QED  BY <1>2, <2>4, ReplaceReadyType
  <2> HIDE DEF r, prio
  <2> QED  BY <2>3, <2>4, <2>5
<1> QED  BY <1>1, <1>2

-----------------------------------------------------------------------------
\* The inductive invariant: while the idle task ends children it holds their
\* process, on whose list it works.
IInv == TypeOK /\ (pc[Idle] = "endChildren" => reaped \in Slots)

\* The program points, as TypeOK lists them.
PCs == {"none", "run", "setUp", "enqueue", "ending", "ended",
        "kill", "reap", "endChildren", "yield"}

LEMMA InitIInv == Init => IInv
<1> SUFFICES ASSUME Init PROVE IInv
  OBVIOUS
<1> USE SlotAssumption, NumberAssumption DEF Init
<1>1. lists \in SchedulerLists
  BY DEF SchedulerLists, ListType, LinkType, EmptyList, Pointer, Priority
<1>2. child \in [Slots -> ListType] /\ threadLink \in LinkType
  BY DEF ListType, LinkType, EmptyList, Pointer
<1>3. tcb \in [Slots -> TCBType]
  BY DEF FreshTCB, TCBType, TaskID
<1>4. victim \in TaskID
  BY <1>3 DEF ID, TaskID, TCBType
<1>5. made \in [Slots -> [slot : Pointer, kind : {"none", "process", "thread"}]]
  BY DEF Nothing, Pointer
<1>6. pc[Idle] # "endChildren"
  BY DEF Init
<1>7. /\ running \in Slots /\ iProcessorTime \in 0 .. MaxTime
      /\ iUseCount \in Int /\ iAllocatedCount \in Nat
      /\ pc \in [Slots -> PCs] /\ inCall \in [Slots -> BOOLEAN]
      /\ reaped \in Pointer /\ todo \in Int
  BY DEF Pointer, PCs
<1> QED  BY <1>1, <1>2, <1>3, <1>4, <1>5, <1>6, <1>7 DEF IInv, TypeOK, PCs

\* The switch keeps what it touches typed.
LEMMA SwitchToType ==
    ASSUME TypeOK, NEW n \in SelectionType, n.task # NULL, NEW called \in BOOLEAN,
           NEW time \in 0 .. MaxTime, SwitchTo(n, called, time)
    PROVE  /\ lists' \in SchedulerLists /\ running' \in Slots
           /\ inCall' \in [Slots -> BOOLEAN] /\ iProcessorTime' \in 0 .. MaxTime
<1>1. n.q \in SchedulerLists /\ n.task \in Slots
  BY DEF SelectionType, Pointer
<1>2. running \in Slots
  BY DEF TypeOK
<1>3. lists' \in SchedulerLists
  BY <1>1, <1>2, PutBackType DEF SwitchTo
<1>4. running' \in Slots
  BY <1>1 DEF SwitchTo
<1>5. inCall' \in [Slots -> BOOLEAN]
  BY <1>1, <1>2 DEF SwitchTo, TypeOK
<1>6. iProcessorTime' \in 0 .. MaxTime
  BY NumberAssumption DEF SwitchTo
<1> QED  BY <1>3, <1>4, <1>5, <1>6

\* Writing fields of a TCB keeps the TCBs typed.
LEMMA WriteTCBType ==
    ASSUME NEW f \in [Slots -> TCBType], NEW s
    PROVE  /\ \A v \in Nat \cup {WAIT} : [f EXCEPT ![s].prio = v] \in [Slots -> TCBType]
           /\ \A v \in BOOLEAN : [f EXCEPT ![s].end = v] \in [Slots -> TCBType]
           /\ \A v \in Nat : [f EXCEPT ![s].gen = v] \in [Slots -> TCBType]
           /\ \A v \in TaskID : [f EXCEPT ![s].parent = v] \in [Slots -> TCBType]
           /\ \A v \in {"none", "process", "thread"} :
                 [f EXCEPT ![s].kind = v] \in [Slots -> TCBType]
BY DEF TCBType

\* kSchedule and kEndTask, wherever they are called.
LEMMA ScheduleIInv ==
    ASSUME IInv, NEW from, NEW to \in PCs \ {"endChildren"}, Schedule(from, to)
    PROVE  IInv'
<1>1. PICK n \in {GetNextTaskToRun(lists)} :
        \/ /\ n.task = NULL
           /\ lists' = IF NobodyReady THEN lists ELSE n.q
           /\ UNCHANGED <<running, inCall, iProcessorTime>>
        \/ n.task # NULL /\ SwitchTo(n, TRUE, iProcessorTime)
  BY DEF Schedule
<1>2. n \in SelectionType
  BY <1>1, GetNextTaskToRunType DEF IInv, TypeOK
<1>3. /\ lists' \in SchedulerLists /\ running' \in Slots
      /\ inCall' \in [Slots -> BOOLEAN] /\ iProcessorTime' \in 0 .. MaxTime
  <2>1. CASE n.task = NULL
    BY <1>1, <1>2, <2>1 DEF IInv, TypeOK, SelectionType
  <2>2. CASE n.task # NULL
    BY <1>1, <1>2, <2>2, SwitchToType DEF IInv, TypeOK
  <2> QED  BY <2>1, <2>2
<1>4. pc' \in [Slots -> PCs] /\ (pc'[Idle] = "endChildren" => pc[Idle] = "endChildren")
  BY SlotAssumption DEF Schedule, IInv, TypeOK, PCs
<1>5. UNCHANGED <<tcb, child, threadLink, iUseCount, iAllocatedCount, made, victim,
                  reaped, todo>>
  BY DEF Schedule, family, pool, idling
<1> QED  BY <1>3, <1>4, <1>5 DEF IInv, TypeOK, PCs

LEMMA EndTaskType ==
    ASSUME TypeOK, NEW id \in TaskID, EndTask(id)
    PROVE  lists' \in SchedulerLists /\ tcb' \in [Slots -> TCBType]
<1> DEFINE r == RemoveTaskFromReadyList(lists, id)
<1>1. r.node \in Pointer /\ r.q \in SchedulerLists
  BY RemoveTaskFromReadyListType DEF TypeOK
<1>2. lists' = IF r.node = NULL THEN r.q ELSE AddToWait(r.q, r.node)
  BY DEF EndTask
<1>3. lists' \in SchedulerLists
  <2> HIDE DEF r
  <2> QED  BY <1>1, <1>2, AddToWaitType
<1>4. tcb' \in [Slots -> TCBType]
  <2> DEFINE ended == [tcb EXCEPT ![Offset(id)].end = TRUE]
  <2>1. ended \in [Slots -> TCBType]
    BY WriteTCBType DEF TypeOK
  <2>2. tcb' = [ended EXCEPT ![Offset(id)].prio = WAIT]
    BY DEF EndTask
  <2> HIDE DEF ended
  <2> QED  BY <2>1, <2>2, WriteTCBType
<1> QED  BY <1>3, <1>4

-----------------------------------------------------------------------------
\* One lemma per action.

LEMMA TickIInv == IInv /\ Tick => IInv'
<1> SUFFICES ASSUME IInv, Tick PROVE IInv'
  OBVIOUS
<1>1. Decreased(iProcessorTime) \in 0 .. MaxTime
  BY NumberAssumption DEF Decreased, IInv, TypeOK
<1>2. PICK time \in {Decreased(iProcessorTime)}, n \in {GetNextTaskToRun(lists)} :
        \/ time > 0 /\ iProcessorTime' = time /\ UNCHANGED <<lists, running, inCall>>
        \/ /\ time <= 0 /\ n.task = NULL
           /\ lists' = n.q /\ iProcessorTime' = time
           /\ UNCHANGED <<running, inCall>>
        \/ time <= 0 /\ n.task # NULL /\ SwitchTo(n, FALSE, time)
  BY DEF Tick
<1>3. n \in SelectionType /\ time \in 0 .. MaxTime
  BY <1>1, <1>2, GetNextTaskToRunType DEF IInv, TypeOK
<1>4. /\ lists' \in SchedulerLists /\ running' \in Slots
      /\ inCall' \in [Slots -> BOOLEAN] /\ iProcessorTime' \in 0 .. MaxTime
  <2>1. CASE n.task # NULL /\ SwitchTo(n, FALSE, time)
    BY <1>3, <2>1, SwitchToType DEF IInv
  <2>2. CASE ~(n.task # NULL /\ SwitchTo(n, FALSE, time))
    BY <1>2, <1>3, <2>2 DEF IInv, TypeOK, SelectionType
  <2> QED  BY <2>1, <2>2
<1>5. UNCHANGED <<tcb, child, threadLink, iUseCount, iAllocatedCount, pc, made,
                  victim, reaped, todo>>
  BY DEF Tick, family, pool, idling
<1> QED  BY <1>4, <1>5 DEF IInv, TypeOK

LEMMA CreateAllocateIInv ==
    ASSUME NEW s \in Slots, NEW kind \in {"process", "thread"}
    PROVE  IInv /\ CreateAllocate(s, kind) => IInv'
<1> SUFFICES ASSUME IInv, CreateAllocate(s, kind) PROVE IInv'
  OBVIOUS
<1> DEFINE process == ProcessOf(running)
           r == AddListToTail(child[process], threadLink, s)
<1>1. process \in Slots
  BY DEF ProcessOf, CreateAllocate, IInv, TypeOK
<1>2. r.list \in ListType /\ r.next \in LinkType
  <2> HIDE DEF process
  <2> QED  BY <1>1, AddListToTailType DEF IInv, TypeOK, Pointer
<1>3. child' \in [Slots -> ListType] /\ threadLink' \in LinkType
  <2>1. \/ child' = [child EXCEPT ![process] = r.list] /\ threadLink' = r.next
        \/ child' = child /\ threadLink' = threadLink
    BY DEF CreateAllocate, family
  <2> HIDE DEF process, r
  <2> QED  BY <1>2, <2>1 DEF IInv, TypeOK
<1>4. tcb' \in [Slots -> TCBType]
  <2>1. tcb' = [tcb EXCEPT ![s].gen = iAllocatedCount, ![s].parent = ID(process)]
    BY DEF CreateAllocate
  <2>2. ID(process) \in TaskID
    BY <1>1 DEF ID, TaskID, IInv, TypeOK, TCBType
  <2> DEFINE taken == [tcb EXCEPT ![s].gen = iAllocatedCount]
  <2>3. taken \in [Slots -> TCBType]
    BY WriteTCBType DEF IInv, TypeOK
  <2>4. tcb' = [taken EXCEPT ![s].parent = ID(process)]
    BY <2>1
  <2> HIDE DEF process, taken
  <2> QED  BY <2>2, <2>3, <2>4, WriteTCBType
<1>5. made' \in [Slots -> [slot : Pointer, kind : {"none", "process", "thread"}]]
  BY DEF CreateAllocate, IInv, TypeOK, Pointer
<1>6. pc' \in [Slots -> PCs] /\ (pc'[Idle] = "endChildren" => pc[Idle] = "endChildren")
  BY SlotAssumption DEF CreateAllocate, IInv, TypeOK, PCs
<1>7. iUseCount' \in Int /\ iAllocatedCount' \in Nat
  BY DEF CreateAllocate, IInv, TypeOK
<1>8. UNCHANGED <<lists, running, iProcessorTime, inCall, victim, reaped, todo>>
  BY DEF CreateAllocate, idling
<1> QED  BY <1>3, <1>4, <1>5, <1>6, <1>7, <1>8 DEF IInv, TypeOK, PCs

LEMMA CreateSetUpIInv ==
    ASSUME NEW prio \in Priority
    PROVE  IInv /\ CreateSetUp(prio) => IInv'
<1> SUFFICES ASSUME IInv, CreateSetUp(prio) PROVE IInv'
  OBVIOUS
<1> DEFINE s == made[running].slot
<1>1. made[running].kind \in {"none", "process", "thread"} /\ prio \in Nat
  BY NumberAssumption DEF IInv, TypeOK, Priority
<1>2. tcb' \in [Slots -> TCBType]
  <2>1. tcb' = [tcb EXCEPT ![s].prio = prio, ![s].end = FALSE,
                           ![s].kind = made[running].kind]
    BY DEF CreateSetUp
  <2> DEFINE first  == [tcb EXCEPT ![s].prio = prio]
             second == [first EXCEPT ![s].end = FALSE]
  <2>2. first \in [Slots -> TCBType]
    BY <1>1, WriteTCBType DEF IInv, TypeOK
  <2>3. second \in [Slots -> TCBType]
    <3> HIDE DEF first, s
    <3> QED  BY <2>2, WriteTCBType
  <2>4. tcb' = [second EXCEPT ![s].kind = made[running].kind]
    BY <2>1
  <2> HIDE DEF s, first, second
  <2> QED  BY <1>1, <2>3, <2>4, WriteTCBType
<1>3. child' \in [Slots -> ListType]
  <2>1. EmptyList \in ListType
    BY DEF EmptyList, ListType, Pointer
  <2>2. child' = [child EXCEPT ![s] = EmptyList]
    BY DEF CreateSetUp
  <2> HIDE DEF s
  <2> QED  BY <2>1, <2>2 DEF IInv, TypeOK
<1>4. pc' \in [Slots -> PCs] /\ (pc'[Idle] = "endChildren" => pc[Idle] = "endChildren")
  <2>1. pc' = [pc EXCEPT ![s] = IF s = Idle THEN "reap" ELSE "run",
                         ![running] = "enqueue"]
    BY DEF CreateSetUp
  <2> HIDE DEF s
  <2> QED  BY <2>1, SlotAssumption DEF IInv, TypeOK, PCs
<1>5. inCall' \in [Slots -> BOOLEAN]
  BY DEF CreateSetUp, IInv, TypeOK
<1>6. UNCHANGED <<lists, threadLink, running, iProcessorTime, iUseCount,
                  iAllocatedCount, made, victim, reaped, todo>>
  BY DEF CreateSetUp, pool, idling
<1> QED  BY <1>2, <1>3, <1>4, <1>5, <1>6 DEF IInv, TypeOK, PCs

LEMMA CreateEnqueueIInv == IInv /\ CreateEnqueue => IInv'
<1> SUFFICES ASSUME IInv, CreateEnqueue PROVE IInv'
  OBVIOUS
<1> DEFINE s == made[running].slot
<1>0. s \in Pointer
  BY DEF IInv, TypeOK
<1>1. lists' \in SchedulerLists
  <2>1. lists' = AddTaskToReadyList(lists, s, tcb[s].prio)
    BY DEF CreateEnqueue
  <2> HIDE DEF s
  <2> QED  BY <1>0, <2>1, AddTaskToReadyListType DEF IInv, TypeOK
<1>2. made' \in [Slots -> [slot : Pointer, kind : {"none", "process", "thread"}]]
  BY DEF CreateEnqueue, Nothing, IInv, TypeOK, Pointer
<1>3. pc' \in [Slots -> PCs] /\ (pc'[Idle] = "endChildren" => pc[Idle] = "endChildren")
  BY SlotAssumption DEF CreateEnqueue, IInv, TypeOK, PCs
<1>4. UNCHANGED <<tcb, child, threadLink, running, iProcessorTime, iUseCount,
                  iAllocatedCount, inCall, victim, reaped, todo>>
  BY DEF CreateEnqueue, family, pool, idling
<1> QED  BY <1>1, <1>2, <1>3, <1>4 DEF IInv, TypeOK, PCs

LEMMA ExitTaskIInv == IInv /\ ExitTask => IInv'
<1> SUFFICES ASSUME IInv, ExitTask PROVE IInv'
  OBVIOUS
<1>1. tcb' \in [Slots -> TCBType]
  <2> DEFINE ended == [tcb EXCEPT ![running].end = TRUE]
  <2>1. ended \in [Slots -> TCBType]
    BY WriteTCBType DEF IInv, TypeOK
  <2>2. tcb' = [ended EXCEPT ![running].prio = WAIT]
    BY DEF ExitTask
  <2> HIDE DEF ended
  <2> QED  BY <2>1, <2>2, WriteTCBType
<1>2. pc' \in [Slots -> PCs] /\ (pc'[Idle] = "endChildren" => pc[Idle] = "endChildren")
  BY SlotAssumption DEF ExitTask, IInv, TypeOK, PCs
<1>3. UNCHANGED <<lists, child, threadLink, running, iProcessorTime, iUseCount,
                  iAllocatedCount, inCall, made, victim, reaped, todo>>
  BY DEF ExitTask, family, pool, idling
<1> QED  BY <1>1, <1>2, <1>3 DEF IInv, TypeOK, PCs

LEMMA KillReadIInv == ASSUME NEW s \in Slots PROVE IInv /\ KillRead(s) => IInv'
<1> SUFFICES ASSUME IInv, KillRead(s) PROVE IInv'
  OBVIOUS
<1>1. victim' \in TaskID
  BY DEF KillRead, ID, TaskID, IInv, TypeOK, TCBType
<1>2. pc' \in [Slots -> PCs] /\ (pc'[Idle] = "endChildren" => pc[Idle] = "endChildren")
  BY SlotAssumption DEF KillRead, IInv, TypeOK, PCs
<1>3. UNCHANGED <<tcb, lists, child, threadLink, running, iProcessorTime, iUseCount,
                  iAllocatedCount, inCall, made, reaped, todo>>
  BY DEF KillRead, family, pool, idling
<1> QED  BY <1>1, <1>2, <1>3 DEF IInv, TypeOK, PCs

LEMMA KillEndIInv == IInv /\ KillEnd => IInv'
<1> SUFFICES ASSUME IInv, KillEnd PROVE IInv'
  OBVIOUS
<1>1. victim \in TaskID /\ EndTask(victim)
  BY DEF KillEnd, IInv, TypeOK
<1>2. lists' \in SchedulerLists /\ tcb' \in [Slots -> TCBType]
  BY <1>1, EndTaskType DEF IInv
<1>3. victim' \in TaskID
  BY SlotAssumption DEF KillEnd, ID, TaskID, IInv, TypeOK, TCBType
<1>4. pc' \in [Slots -> PCs] /\ (pc'[Idle] = "endChildren" => pc[Idle] = "endChildren")
  BY SlotAssumption DEF KillEnd, IInv, TypeOK, PCs
<1>5. UNCHANGED <<child, threadLink, running, iProcessorTime, iUseCount,
                  iAllocatedCount, inCall, made, reaped, todo>>
  BY DEF KillEnd, family, pool, idling
<1> QED  BY <1>2, <1>3, <1>4, <1>5 DEF IInv, TypeOK, PCs

LEMMA ChangePriorityIInv ==
    ASSUME NEW id \in TaskID, NEW prio \in Nat
    PROVE  IInv /\ ChangePriority(id, prio) => IInv'
<1> SUFFICES ASSUME IInv, ChangePriority(id, prio) PROVE IInv'
  OBVIOUS
<1> DEFINE r == IF id = ID(running) THEN [node |-> NULL, q |-> lists]
                ELSE RemoveTaskFromReadyList(lists, id)
<1>1. r.node \in Pointer /\ r.q \in SchedulerLists
  BY RemoveTaskFromReadyListType DEF IInv, TypeOK, Pointer
<1>2. lists' = IF r.node = NULL THEN r.q ELSE AddTaskToReadyList(r.q, r.node, prio)
  BY DEF ChangePriority
<1>3. lists' \in SchedulerLists
  <2> HIDE DEF r
  <2> QED  BY <1>1, <1>2, AddTaskToReadyListType
<1>4. tcb' \in [Slots -> TCBType]
  BY WriteTCBType DEF ChangePriority, IInv, TypeOK
<1>5. UNCHANGED <<child, threadLink, running, iProcessorTime, iUseCount,
                  iAllocatedCount, pc, inCall, made, victim, reaped, todo>>
  BY DEF ChangePriority, family, pool, idling
<1> QED  BY <1>3, <1>4, <1>5 DEF IInv, TypeOK

\* Release, for the task taken off the wait list.
LEMMA ReleaseType ==
    ASSUME IInv, NEW s \in Slots, Release(s)
    PROVE  /\ tcb' \in [Slots -> TCBType]
           /\ child' \in [Slots -> ListType] /\ threadLink' \in LinkType
           /\ made' \in [Slots -> [slot : Pointer, kind : {"none", "process", "thread"}]]
           /\ pc' \in [Slots -> PCs] /\ pc'[Idle] # "endChildren"
           /\ iUseCount' \in Int
<1> DEFINE process == IF tcb[s].kind = "thread" THEN ProcessOf(s) ELSE NULL
           r == RemoveList(child[process], threadLink, {s})
<1>1. process \in Pointer
  BY DEF ProcessOf, Offset, Pointer, IInv, TypeOK, TCBType, TaskID
<1>2. tcb' \in [Slots -> TCBType]
  BY WriteTCBType DEF Release, IInv, TypeOK
<1>3. child' \in [Slots -> ListType] /\ threadLink' \in LinkType
  <2>1. CASE process = NULL
    BY <2>1 DEF Release, family, IInv, TypeOK
  <2>2. CASE process # NULL
    <3>1. child[process] \in ListType /\ {s} \in SUBSET Slots
      <4> HIDE DEF process
      <4> QED  BY <1>1, <2>2 DEF IInv, TypeOK, Pointer
    <3>2. r \in RemovalType
      <4> HIDE DEF process
      <4> QED  BY <3>1, RemoveListType DEF IInv, TypeOK
    <3>3. child' = [child EXCEPT ![process] = r.list] /\ threadLink' = r.next
      BY <2>2 DEF Release
    <3> HIDE DEF process, r
    <3> QED  BY <3>2, <3>3 DEF RemovalType, IInv, TypeOK
  <2> QED  BY <2>1, <2>2
<1>4. made' \in [Slots -> [slot : Pointer, kind : {"none", "process", "thread"}]]
  BY DEF Release, Nothing, Pointer, IInv, TypeOK
<1>5. pc' \in [Slots -> PCs] /\ pc'[Idle] # "endChildren"
  BY SlotAssumption DEF Release, PCs, IInv, TypeOK
<1>6. iUseCount' \in Int
  BY DEF Release, IInv, TypeOK
<1> QED  BY <1>2, <1>3, <1>4, <1>5, <1>6

LEMMA ReapTakeIInv == IInv /\ ReapTake => IInv'
<1> SUFFICES ASSUME IInv, ReapTake PROVE IInv'
  OBVIOUS
<1> DEFINE r == RemoveListFromHeader(lists.wait, lists.link)
           n == IF r.node = NULL THEN 0 ELSE child[r.node].count
<1>1. r \in RemovalType
  BY RemoveListFromHeaderType DEF IInv, TypeOK, SchedulerLists
<1>2. /\ lists' = [lists EXCEPT !.wait = r.list, !.link = r.next]
      /\ \/ /\ r.node = NULL
            /\ pc' = [pc EXCEPT ![Idle] = "yield"]
            /\ UNCHANGED <<tcb, family, iUseCount, made, idling>>
         \/ /\ r.node # NULL /\ tcb[r.node].kind = "process" /\ n > 0
            /\ reaped' = r.node /\ todo' = n
            /\ pc' = [pc EXCEPT ![Idle] = "endChildren"]
            /\ UNCHANGED <<tcb, family, iUseCount, made>>
         \/ /\ r.node # NULL
            /\ Release(r.node)
            /\ UNCHANGED idling
      /\ UNCHANGED <<running, iProcessorTime, iAllocatedCount, inCall, victim>>
  BY DEF ReapTake
<1>3. n \in Int
  BY <1>1 DEF IInv, TypeOK, RemovalType, ListType, Pointer
<1> HIDE DEF r, n
<1>4. lists' \in SchedulerLists
  BY <1>1, <1>2 DEF IInv, TypeOK, SchedulerLists, RemovalType
<1>5. CASE /\ r.node = NULL
           /\ pc' = [pc EXCEPT ![Idle] = "yield"]
           /\ UNCHANGED <<tcb, family, iUseCount, made, idling>>
  BY <1>2, <1>4, <1>5, SlotAssumption DEF IInv, TypeOK, family, idling
<1>6. CASE /\ r.node # NULL
           /\ reaped' = r.node /\ todo' = n
           /\ pc' = [pc EXCEPT ![Idle] = "endChildren"]
           /\ UNCHANGED <<tcb, family, iUseCount, made>>
  BY <1>1, <1>2, <1>3, <1>4, <1>6, SlotAssumption
     DEF IInv, TypeOK, family, RemovalType, Pointer
<1>7. CASE r.node # NULL /\ Release(r.node) /\ UNCHANGED idling
  <2>1. r.node \in Slots
    BY <1>1, <1>7 DEF RemovalType, Pointer
  <2>2. /\ tcb' \in [Slots -> TCBType]
        /\ child' \in [Slots -> ListType] /\ threadLink' \in LinkType
        /\ made' \in [Slots -> [slot : Pointer, kind : {"none", "process", "thread"}]]
        /\ pc' \in [Slots -> PCs] /\ pc'[Idle] # "endChildren"
        /\ iUseCount' \in Int
    BY <1>7, <2>1, ReleaseType
  <2> QED  BY <1>2, <1>4, <1>7, <2>2 DEF IInv, TypeOK, PCs, idling
<1> QED  BY <1>2, <1>5, <1>6, <1>7

LEMMA EndChildIInv == IInv /\ EndChild => IInv'
<1> SUFFICES ASSUME IInv, EndChild PROVE IInv'
  OBVIOUS
<1> DEFINE out == RemoveListFromHeader(child[reaped], threadLink)
           in  == AddListToTail(out.list, out.next, out.node)
<1>1. reaped \in Slots
  BY DEF EndChild, IdleGoto, IInv
<1>2. out \in RemovalType
  BY <1>1, RemoveListFromHeaderType DEF IInv, TypeOK
<1>3. out.node \in Slots
  BY <1>2 DEF EndChild, HasChild, RemovalType, Pointer
<1>4. in.list \in ListType /\ in.next \in LinkType
  <2> HIDE DEF out
  <2> QED  BY <1>2, AddListToTailType DEF RemovalType
<1>5. child' = [child EXCEPT ![reaped] = in.list] /\ threadLink' = in.next
  BY DEF EndChild
<1>6. child' \in [Slots -> ListType] /\ threadLink' \in LinkType
  <2> HIDE DEF in
  <2> QED  BY <1>4, <1>5 DEF IInv, TypeOK
<1>7. lists' \in SchedulerLists /\ tcb' \in [Slots -> TCBType]
  <2>1. EndTask(ID(out.node))
    BY DEF EndChild
  <2> HIDE DEF out
  <2>2. ID(out.node) \in TaskID
    BY <1>3 DEF ID, TaskID, IInv, TypeOK, TCBType
  <2> QED  BY <2>1, <2>2, EndTaskType DEF IInv
<1>8. pc' = pc /\ todo' \in Int
  BY SlotAssumption DEF EndChild, IdleGoto, IInv, TypeOK
<1>9. UNCHANGED <<running, iProcessorTime, iUseCount, iAllocatedCount, inCall, made,
                  victim, reaped>>
  BY DEF EndChild, pool
<1> QED  BY <1>6, <1>7, <1>8, <1>9 DEF IInv, TypeOK

LEMMA WaitForChildrenIInv == IInv /\ WaitForChildren => IInv'
<1> SUFFICES ASSUME IInv, WaitForChildren PROVE IInv'
  OBVIOUS
<1>1. lists' \in SchedulerLists
  BY AddToWaitType DEF WaitForChildren, IInv, TypeOK
<1>2. reaped' \in Pointer
  BY DEF WaitForChildren, Pointer
<1>3. pc' \in [Slots -> PCs] /\ pc'[Idle] # "endChildren"
  BY SlotAssumption DEF WaitForChildren, IdleGoto, IInv, TypeOK, PCs
<1>4. UNCHANGED <<tcb, child, threadLink, running, iProcessorTime, iUseCount,
                  iAllocatedCount, inCall, made, victim, todo>>
  BY DEF WaitForChildren, family, pool
<1> QED  BY <1>1, <1>2, <1>3, <1>4 DEF IInv, TypeOK, PCs

-----------------------------------------------------------------------------
LEMMA NextIInv == IInv /\ [Next]_vars => IInv'
<1> SUFFICES ASSUME IInv, [Next]_vars PROVE IInv'
  OBVIOUS
<1>1. CASE Tick
  BY <1>1, TickIInv
<1>2. CASE Yield \/ LeaveProcessor \/ IdleYield
  BY <1>2, ScheduleIInv DEF Yield, LeaveProcessor, IdleYield, PCs
<1>3. CASE Create
  BY <1>3, CreateAllocateIInv, CreateSetUpIInv, CreateEnqueueIInv DEF Create
<1>4. CASE ExitTask
  BY <1>4, ExitTaskIInv
<1>5. CASE KillEnd \/ \E s \in Slots : KillRead(s)
  BY <1>5, KillEndIInv, KillReadIInv
<1>6. CASE \E g \in 1 .. iAllocatedCount - 1, s \in Slots, prio \in TypedPriority :
             ChangePriority(<<g, s>>, prio)
  <2>1. PICK g \in 1 .. iAllocatedCount - 1, s \in Slots, prio \in TypedPriority :
          ChangePriority(<<g, s>>, prio)
    BY <1>6
  <2>2. <<g, s>> \in TaskID /\ prio \in Nat
    BY PriorityAssumption DEF TaskID, IInv, TypeOK
  <2> QED  BY <2>1, <2>2, ChangePriorityIInv
<1>7. CASE ReapTake \/ EndChild \/ WaitForChildren
  BY <1>7, ReapTakeIInv, EndChildIInv, WaitForChildrenIInv
<1>8. CASE UNCHANGED vars
  BY <1>8 DEF vars, family, pool, idling, IInv, TypeOK
<1> QED  BY <1>1, <1>2, <1>3, <1>4, <1>5, <1>6, <1>7, <1>8 DEF Next, IdleStep

\* The scheduler's variables keep their types in every execution: in particular
\* the time slice stays between zero and its full length, the running task is
\* always one of the pool, even when the lists are corrupted.
THEOREM SpecTypeOK == Spec => []TypeOK
<1>1. IInv => TypeOK
  BY DEF IInv
<1> QED  BY InitIInv, NextIInv, <1>1, PTL DEF Spec
-----------------------------------------------------------------------------
\* Induction

LEMMA LeastNatural ==
    ASSUME NEW S \in SUBSET Nat, S # {} PROVE \E i \in S : \A j \in S : i <= j
<1> DEFINE T == {0 .. n : n \in S}
<1>1. T \subseteq FiniteSubsetsOf(Nat) /\ T # {}
  <2>1. ASSUME NEW n \in S PROVE 0 .. n \in FiniteSubsetsOf(Nat)
    <3>1. 0 \in Int /\ n \in Int /\ 0 .. n \subseteq Nat
      OBVIOUS
    <3>2. IsFiniteSet(0 .. n)
      BY <3>1, FS_Interval
    <3> QED
      BY <3>1, <3>2 DEF FiniteSubsetsOf
  <2> QED
    BY <2>1
<1>2. PICK x \in T : \A y \in T : ~(<<y, x>> \in StrictSubsetOrdering(Nat))
  <2> HIDE DEF T
  <2> QED
    BY <1>1, FS_StrictSubsetOrderingWellFounded, WFMin
<1>3. PICK i \in S : x = 0 .. i
  BY <1>2
<1>4. ASSUME NEW j \in S, j < i PROVE FALSE
  <2>1. (0 .. j) \subseteq (0 .. i) /\ (0 .. j) # (0 .. i)
    <3>1. i \in 0 .. i /\ i \notin 0 .. j
      BY <1>4
    <3> QED
      BY <1>4, <3>1
  <2>2. <<0 .. j, 0 .. i>> \in StrictSubsetOrdering(Nat)
    BY <2>1 DEF StrictSubsetOrdering
  <2> QED
    BY <1>2, <1>3, <2>2
<1> QED
  BY <1>4

\* Induction, with the set of the numbers that have the property.
LEMMA NaturalInduction ==
    ASSUME NEW S \in SUBSET Nat, 0 \in S, \A n \in S : n + 1 \in S PROVE S = Nat
<1> SUFFICES ASSUME Nat \ S # {} PROVE FALSE
  OBVIOUS
<1>1. PICK i \in Nat \ S : \A j \in Nat \ S : i <= j
  BY LeastNatural
<1>2. i # 0 /\ i - 1 \in Nat
  BY <1>1
<1>3. i - 1 \in S
  BY <1>1, <1>2
<1> QED
  BY <1>1, <1>2, <1>3

-----------------------------------------------------------------------------
\* What a chain is, up to the n-th item

Follows(g, l, next, n) ==
    /\ g \in [0 .. n -> Pointer] /\ g[0] = l.head
    /\ \A k \in 0 .. n - 1 : g[k + 1] = IF g[k] = NULL THEN NULL ELSE next[g[k]]

LEMMA FollowsExist ==
    ASSUME NEW l \in ListType, NEW next \in LinkType, NEW n \in Nat
    PROVE  \E g : Follows(g, l, next, n)
<1> DEFINE S == {m \in Nat : \E g : Follows(g, l, next, m)}
<1>1. 0 \in S
  <2>1. Follows([k \in 0 .. 0 |-> l.head], l, next, 0)
    BY DEF Follows, ListType
  <2> QED  BY <2>1
<1>2. ASSUME NEW m \in S PROVE m + 1 \in S
  <2>1. PICK g : Follows(g, l, next, m)
    OBVIOUS
  <2> DEFINE h == [k \in 0 .. m + 1 |->
                     IF k = m + 1 THEN IF g[m] = NULL THEN NULL ELSE next[g[m]]
                     ELSE g[k]]
  <2>2. g[m] \in Pointer /\ (g[m] # NULL => next[g[m]] \in Pointer)
    BY <2>1 DEF Follows, LinkType, Pointer
  <2>3. h \in [0 .. m + 1 -> Pointer]
    BY <2>1, <2>2 DEF Follows, Pointer
  <2>4. h[0] = l.head
    BY <2>1 DEF Follows
  <2>5. ASSUME NEW k \in 0 .. m
        PROVE  h[k + 1] = IF h[k] = NULL THEN NULL ELSE next[h[k]]
    BY <2>1 DEF Follows
  <2>6. 0 .. (m + 1) - 1 = 0 .. m
    OBVIOUS
  <2> HIDE DEF h
  <2>7. Follows(h, l, next, m + 1)
    BY <2>3, <2>4, <2>5, <2>6 DEF Follows
  <2> QED  BY <2>7
<1> HIDE DEF S
<1>3. S = Nat
  BY <1>1, <1>2, NaturalInduction DEF S
<1> QED  BY <1>3 DEF S

LEMMA SlotsNumber == Cardinality(Slots) \in Nat
BY SlotsAssumption, FS_CardinalityType

\* The recursive function of Chain is what it says.
LEMMA ChainFollows ==
    ASSUME NEW l \in ListType, NEW next \in LinkType
    PROVE  Follows(Chain(l, next), l, next, Cardinality(Slots))
<1> DEFINE n == Cardinality(Slots)
           f == CHOOSE g : Follows(g, l, next, n)
<1>1. n \in Nat
  BY SlotsNumber
<1>2. Follows(f, l, next, n)
  <2> HIDE DEF n
  <2> QED  BY <1>1, FollowsExist
<1> HIDE DEF f, n
<1>3. f = [k \in 0 .. n |-> IF k = 0 THEN l.head
                            ELSE IF f[k - 1] = NULL THEN NULL ELSE next[f[k - 1]]]
  <2>1. ASSUME NEW k \in 0 .. n
        PROVE  f[k] = IF k = 0 THEN l.head
                      ELSE IF f[k - 1] = NULL THEN NULL ELSE next[f[k - 1]]
    <3>1. CASE k = 0
      BY <1>2, <3>1 DEF Follows
    <3>2. CASE k # 0
      <4>1. k - 1 \in 0 .. n - 1 /\ (k - 1) + 1 = k
        BY <1>1, <3>2
      <4> QED  BY <1>2, <3>2, <4>1 DEF Follows
    <3> QED  BY <3>1, <3>2
  <2>2. f = [k \in 0 .. n |-> f[k]]
    BY <1>2 DEF Follows
  <2> QED  BY <2>1, <2>2
<1>4. Chain(l, next) = [k \in 0 .. n |-> IF k = 0 THEN l.head
                            ELSE IF Chain(l, next)[k - 1] = NULL THEN NULL
                                 ELSE next[Chain(l, next)[k - 1]]]
  BY <1>3 DEF Chain, n
<1>5. ASSUME NEW k \in 0 .. n
      PROVE  Chain(l, next)[k] = IF k = 0 THEN l.head
                            ELSE IF Chain(l, next)[k - 1] = NULL THEN NULL
                                 ELSE next[Chain(l, next)[k - 1]]
  BY <1>4
<1> DEFINE at == Chain(l, next)
           S == {k \in Nat : k <= n => at[k] = f[k]}
<1> HIDE DEF at
<1>6. 0 \in S
  BY <1>1, <1>2, <1>5 DEF Follows, at
<1>7. ASSUME NEW k \in S PROVE k + 1 \in S
  <2> SUFFICES ASSUME k + 1 <= n PROVE at[k + 1] = f[k + 1]
    OBVIOUS
  <2>1. at[k] = f[k] /\ k \in 0 .. n - 1 /\ k + 1 \in 0 .. n /\ (k + 1) - 1 = k /\ k + 1 # 0
    BY <1>1
  <2>2. f[k + 1] = IF f[k] = NULL THEN NULL ELSE next[f[k]]
    BY <1>2, <2>1 DEF Follows
  <2>3. at[k + 1] = IF at[k] = NULL THEN NULL ELSE next[at[k]]
    BY <1>5, <2>1 DEF at
  <2> QED  BY <2>1, <2>2, <2>3
<1> HIDE DEF S
<1>8. S = Nat
  BY <1>6, <1>7, NaturalInduction DEF S
<1>9. \A k \in 0 .. n : at[k] = f[k]
  BY <1>1, <1>8 DEF S
<1>10. at = [k \in 0 .. n |-> at[k]]
  BY <1>4 DEF at
<1>11. at = f
  <2>1. f = [k \in 0 .. n |-> f[k]]
    BY <1>2 DEF Follows
  <2> QED  BY <2>1, <1>9, <1>10
<1> QED  BY <1>2, <1>11 DEF at, n

-----------------------------------------------------------------------------
\* Lists that hold a set of items

\* f is the order of the items of S on the list.
Trace(l, next, S, f) ==
    /\ f \in [0 .. l.count - 1 -> S]
    /\ \A i, j \in 0 .. l.count - 1 : f[i] = f[j] => i = j
    /\ \A x \in S : \E i \in 0 .. l.count - 1 : f[i] = x
    /\ l.count = 0 => l.head = NULL /\ l.tail = NULL
    /\ l.count > 0 => l.head = f[0] /\ l.tail = f[l.count - 1]
    /\ \A k \in 0 .. l.count - 2 : next[f[k]] = f[k + 1]

\* The list is well formed and its items are those of S.
Holds(l, next, S) ==
    /\ l \in ListType /\ l.count \in Nat /\ S \subseteq Slots
    /\ \E f : Trace(l, next, S, f)

LEMMA EmptyHolds == ASSUME NEW next PROVE Holds(EmptyList, next, {})
<1>1. EmptyList \in ListType /\ EmptyList.count = 0
  BY DEF EmptyList, ListType, Pointer
<1>2. Trace(EmptyList, next, {}, [k \in 0 .. 0 - 1 |-> NULL])
  BY DEF Trace, EmptyList
<1> QED  BY <1>1, <1>2 DEF Holds

\* Which list holds nothing.
LEMMA HoldsNothing ==
    ASSUME NEW l, NEW next, NEW S, Holds(l, next, S)
    PROVE  /\ S = {} <=> l.count = 0
           /\ l.count = 0 <=> l.head = NULL
           /\ l.count > 0 => l.head \in S /\ l.tail \in S
<1>1. PICK f : Trace(l, next, S, f)
  BY DEF Holds
<1>2. l.count \in Nat /\ S \subseteq Slots
  BY DEF Holds
<1>3. CASE l.count = 0
  BY <1>1, <1>3 DEF Trace
<1>4. CASE l.count > 0
  <2>1. f[0] \in S /\ f[l.count - 1] \in S
    BY <1>1, <1>2, <1>4 DEF Trace
  <2> QED  BY <1>1, <1>2, <1>4, <2>1, NullAssumption DEF Trace
<1> QED  BY <1>2, <1>3, <1>4

\* A list does not care about the links of other items.
LEMMA HoldsFrame ==
    ASSUME NEW l, NEW next, NEW S, NEW other, Holds(l, next, S),
           \A y \in S : other[y] = next[y]
    PROVE  Holds(l, other, S)
<1>1. PICK f : Trace(l, next, S, f)
  BY DEF Holds
<1>2. l.count \in Nat
  BY DEF Holds
<1>3. ASSUME NEW k \in 0 .. l.count - 2 PROVE f[k] \in S
  <2>1. k \in 0 .. l.count - 1
    BY <1>2
  <2> QED  BY <1>1, <2>1 DEF Trace
<1>4. Trace(l, other, S, f)
  BY <1>1, <1>3 DEF Trace
<1> QED  BY <1>4 DEF Holds

\* T is S and x.
With(S, x, T) == T = S \cup {x}

\* T is S without x.
Without(S, x, T) == T = S \ {x}

\* kAddListToTail adds an item that is not on the list, and touches no link but
\* that item's and those of the list.
LEMMA AddHolds ==
    ASSUME NEW l, NEW next \in LinkType, NEW S, Holds(l, next, S),
           NEW x \in Slots, x \notin S, NEW T, With(S, x, T)
    PROVE  /\ Holds(AddListToTail(l, next, x).list, AddListToTail(l, next, x).next, T)
           /\ \A y \in Slots : y # x /\ y \notin S =>
                 AddListToTail(l, next, x).next[y] = next[y]
<1> DEFINE n == l.count
           list == AddListToTail(l, next, x).list
           after == AddListToTail(l, next, x).next
<1>1. PICK f : Trace(l, next, S, f)
  BY DEF Holds
<1>2. n \in Nat /\ S \subseteq Slots /\ l \in ListType
  BY DEF Holds
<1>3. list \in ListType
  BY <1>2, AddListToTailType DEF Pointer
<1> DEFINE g == [k \in 0 .. n |-> IF k = n THEN x ELSE f[k]]
<1>4. list.count = n + 1 /\ list.tail = x /\ list.head = g[0]
  <2>1. CASE n = 0
    <3>1. l.head = NULL
      BY <2>1, HoldsNothing
    <3>2. list = [head |-> x, tail |-> x, count |-> 1]
      BY <3>1 DEF AddListToTail
    <3> QED  BY <2>1, <3>2
  <2>2. CASE n > 0
    <3>1. l.head # NULL /\ l.head = f[0]
      BY <1>1, <2>2, HoldsNothing DEF Trace
    <3>2. list = [head |-> l.head, tail |-> x, count |-> n + 1]
      BY <3>1 DEF AddListToTail
    <3> QED  BY <1>2, <2>2, <3>1, <3>2
  <2> QED  BY <1>2, <2>1, <2>2
<1>5. \A y \in Slots : /\ y # x /\ y \notin S => after[y] = next[y]
                       /\ n > 0 /\ y = l.tail => after[y] = x
                       /\ n > 0 /\ y # l.tail /\ y # x => after[y] = next[y]
  <2>1. CASE n = 0
    <3>1. l.head = NULL
      BY <2>1, HoldsNothing
    <3>2. after = [next EXCEPT ![x] = NULL]
      BY <3>1 DEF AddListToTail
    <3> QED  BY <2>1, <3>2 DEF LinkType
  <2>2. CASE n > 0
    <3>1. l.head # NULL /\ l.tail \in S
      BY <2>2, HoldsNothing
    <3>2. after = [next EXCEPT ![x] = NULL, ![l.tail] = x]
      BY <3>1 DEF AddListToTail
    <3> HIDE DEF after
    <3> QED  BY <1>2, <2>2, <3>1, <3>2 DEF LinkType
  <2> QED  BY <1>2, <2>1, <2>2
<1> HIDE DEF list, after
<1>6. Trace(list, after, S \cup {x}, g)
  <2>1. 0 .. list.count - 1 = 0 .. n /\ list.count # 0
    BY <1>2, <1>4
  <2>2. \A k \in 0 .. n : k # n => k \in 0 .. n - 1 /\ f[k] \in S /\ f[k] # x
    BY <1>1, <1>2 DEF Trace
  <2>3. g \in [0 .. n -> S \cup {x}]
    BY <2>2
  <2>4. \A i, j \in 0 .. n : g[i] = g[j] => i = j
    BY <1>1, <2>2 DEF Trace
  <2>5. ASSUME NEW y \in S \cup {x} PROVE \E i \in 0 .. n : g[i] = y
    <3>1. CASE y = x
      <4>1. n \in 0 .. n /\ g[n] = x
        BY <1>2
      <4> QED  BY <3>1, <4>1
    <3>2. CASE y \in S
      <4>1. PICK i \in 0 .. n - 1 : f[i] = y
        BY <1>1, <3>2 DEF Trace
      <4>2. i \in 0 .. n /\ g[i] = y
        BY <1>2, <4>1
      <4> QED  BY <4>2
    <3> QED  BY <3>1, <3>2
  <2>6. g[n] = x
    BY <1>2
  <2>7. ASSUME NEW k \in 0 .. n - 1 PROVE after[g[k]] = g[k + 1]
    <3>1. n > 0 /\ k \in 0 .. n /\ k # n /\ k + 1 \in 0 .. n
      BY <1>2
    <3>2. g[k] = f[k] /\ f[k] \in S /\ f[k] # x /\ f[k] \in Slots
      BY <1>2, <2>2, <3>1
    <3>3. l.tail = f[n - 1] /\ n - 1 \in 0 .. n - 1
      BY <1>1, <1>2, <3>1 DEF Trace
    <3>4. CASE k = n - 1
      BY <1>2, <1>5, <2>6, <3>1, <3>2, <3>3, <3>4
    <3>5. CASE k # n - 1
      <4>1. f[k] # l.tail
        BY <1>1, <3>3, <3>5 DEF Trace
      <4>2. k \in 0 .. n - 2 /\ k + 1 # n
        BY <1>2, <3>5
      <4>3. next[f[k]] = f[k + 1]
        BY <1>1, <4>2 DEF Trace
      <4> QED  BY <1>5, <3>1, <3>2, <4>1, <4>2, <4>3
    <3> QED  BY <3>4, <3>5
  <2>8. 0 .. list.count - 2 = 0 .. n - 1
    BY <1>2, <1>4
  <2>9. list.tail = g[list.count - 1]
    BY <1>2, <1>4, <2>6
  <2> HIDE DEF g
  <2> QED  BY <1>4, <2>1, <2>3, <2>4, <2>5, <2>7, <2>8, <2>9 DEF Trace
<1>7. Holds(list, after, T)
  <2>1. list.count \in Nat /\ S \cup {x} \subseteq Slots
    BY <1>2, <1>4
  <2> QED  BY <1>3, <1>6, <2>1 DEF Holds, With
<1> QED  BY <1>5, <1>7 DEF list, after

\* Taking an item out of a list, behind the one before it.
LEMMA UnlinkHolds ==
    ASSUME NEW l, NEW next \in LinkType, NEW S, Holds(l, next, S),
           NEW f, Trace(l, next, S, f), NEW i \in 0 .. l.count - 1
    PROVE  LET r == Unlink(l, next, IF i = 0 THEN f[i] ELSE f[i - 1], f[i])
           IN  /\ Holds(r.list, r.next, S \ {f[i]})
               /\ \A y \in Slots : y \notin S => r.next[y] = next[y]
<1> DEFINE n == l.count
           x == f[i]
           previous == IF i = 0 THEN f[i] ELSE f[i - 1]
           r == Unlink(l, next, previous, x)
           g == [k \in 0 .. n - 2 |-> IF k < i THEN f[k] ELSE f[k + 1]]
<1>1. n \in Nat /\ S \subseteq Slots /\ l \in ListType
  BY DEF Holds
<1>2. /\ \A k \in 0 .. n - 1 : f[k] \in S /\ f[k] \in Slots /\ f[k] # NULL
      /\ \A j, k \in 0 .. n - 1 : f[j] = f[k] => j = k
      /\ \A k \in 0 .. n - 2 : next[f[k]] = f[k + 1]
      /\ i \in Nat /\ n > 0 /\ i <= n - 1
      /\ 0 \in 0 .. n - 1 /\ n - 1 \in 0 .. n - 1 /\ i \in 0 .. n - 1
      /\ l.head = f[0] /\ l.tail = f[n - 1]
  <2>1. i \in Nat /\ n > 0 /\ i <= n - 1 /\ 0 \in 0 .. n - 1 /\ n - 1 \in 0 .. n - 1
    BY <1>1
  <2>2. \A k \in 0 .. n - 1 : f[k] \in S
    BY DEF Trace
  <2>3. \A j, k \in 0 .. n - 1 : f[j] = f[k] => j = k
    BY DEF Trace
  <2>4. /\ \A k \in 0 .. n - 2 : next[f[k]] = f[k + 1]
        /\ l.head = f[0] /\ l.tail = f[n - 1]
    BY <2>1 DEF Trace
  <2> QED  BY <1>1, <2>1, <2>2, <2>3, <2>4, NullAssumption
<1>3. /\ x \in Slots /\ previous \in Slots
      /\ (x = l.head <=> i = 0) /\ (x = l.tail <=> i = n - 1)
      /\ i # 0 => i - 1 \in 0 .. n - 1 /\ previous = f[i - 1] /\ previous # x
  BY <1>2
<1>4. /\ r.list = [head  |-> IF i # 0 THEN l.head
                             ELSE IF i = n - 1 THEN NULL ELSE next[x],
                   tail  |-> IF i # n - 1 THEN l.tail
                             ELSE IF i = 0 THEN NULL ELSE previous,
                   count |-> n - 1]
      /\ r.next = IF i = 0 \/ i = n - 1 THEN next
                  ELSE [next EXCEPT ![previous] = next[x]]
  BY <1>3 DEF Unlink
<1>5. r.list \in ListType
  <2>1. r \in RemovalType
    BY <1>1, <1>3, UnlinkType
  <2> QED  BY <2>1 DEF RemovalType
<1> HIDE DEF r, x, previous
<1>6. \A y \in Slots : /\ y \notin S => r.next[y] = next[y]
                       /\ i # 0 /\ i # n - 1 /\ y = previous => r.next[y] = f[i + 1]
                       /\ i = 0 \/ i = n - 1 \/ y # previous => r.next[y] = next[y]
  <2>1. CASE i = 0 \/ i = n - 1
    BY <1>4, <2>1
  <2>2. CASE i # 0 /\ i # n - 1
    <3>1. next[x] = f[i + 1]
      <4>1. i \in 0 .. n - 2
        BY <1>1, <1>2, <2>2
      <4> QED  BY <1>2, <4>1 DEF x
    <3>2. r.next = [next EXCEPT ![previous] = f[i + 1]]
      BY <1>4, <2>2, <3>1
    <3>3. previous \in S
      BY <1>2, <1>3, <2>2
    <3> QED  BY <2>2, <3>2, <3>3 DEF LinkType
  <2> QED  BY <2>1, <2>2
<1>7. \A k \in 0 .. n - 2 : /\ g[k] = IF k < i THEN f[k] ELSE f[k + 1]
                            /\ k \in 0 .. n - 1 /\ k + 1 \in 0 .. n - 1
                            /\ g[k] \in S \ {x}
  <2>1. ASSUME NEW k \in 0 .. n - 2
        PROVE  k \in 0 .. n - 1 /\ k + 1 \in 0 .. n - 1 /\ k # k + 1 /\ (k < i => k # i)
               /\ (~(k < i) => k + 1 # i)
    BY <1>1, <1>2
  <2> QED  BY <1>2, <2>1 DEF x
<1> HIDE DEF g
<1>8. Trace(r.list, r.next, S \ {x}, g)
  <2>1. r.list.count = n - 1 /\ 0 .. r.list.count - 1 = 0 .. n - 2
        /\ 0 .. r.list.count - 2 = 0 .. n - 3
    BY <1>1, <1>4
  <2>2. g \in [0 .. n - 2 -> S \ {x}]
    BY <1>7 DEF g
  <2>3. \A j, k \in 0 .. n - 2 : g[j] = g[k] => j = k
    <3> TAKE j, k \in 0 .. n - 2
    <3>1. j \in 0 .. n - 1 /\ j + 1 \in 0 .. n - 1 /\ k \in 0 .. n - 1 /\ k + 1 \in 0 .. n - 1
      BY <1>7
    <3> QED  BY <1>2, <1>7, <3>1
  <2>4. ASSUME NEW y \in S \ {x} PROVE \E k \in 0 .. n - 2 : g[k] = y
    <3>1. PICK k \in 0 .. n - 1 : f[k] = y
      BY DEF Trace
    <3>2. k # i
      BY <3>1 DEF x
    <3>3. CASE k < i
      <4>1. k \in 0 .. n - 2
        BY <1>1, <1>2, <3>3
      <4> QED  BY <1>7, <3>1, <3>3, <4>1
    <3>4. CASE k > i
      <4>1. k - 1 \in 0 .. n - 2 /\ ~(k - 1 < i) /\ (k - 1) + 1 = k
        BY <1>1, <1>2, <3>4
      <4> QED  BY <1>7, <3>1, <4>1
    <3> QED  BY <1>2, <3>2, <3>3, <3>4
  <2>5. n - 1 = 0 => r.list.head = NULL /\ r.list.tail = NULL
    BY <1>1, <1>2, <1>4
  <2>6. ASSUME n - 1 > 0 PROVE r.list.head = g[0] /\ r.list.tail = g[n - 2]
    <3>1. 0 \in 0 .. n - 2 /\ n - 2 \in 0 .. n - 2 /\ (n - 2) + 1 = n - 1
      BY <1>1, <2>6
    <3>2. r.list.head = g[0]
      <4>1. CASE i = 0
        <5>1. next[x] = f[1]
          BY <1>2, <3>1, <4>1 DEF x
        <5> QED  BY <1>4, <1>7, <2>6, <3>1, <4>1, <5>1
      <4>2. CASE i # 0
        BY <1>2, <1>4, <1>7, <3>1, <4>2
      <4> QED  BY <4>1, <4>2
    <3>3. r.list.tail = g[n - 2]
      <4>1. CASE i = n - 1
        <5>1. i # 0 /\ n - 2 < i /\ i - 1 = n - 2
          BY <1>1, <2>6, <4>1
        <5> QED  BY <1>3, <1>4, <1>7, <3>1, <4>1, <5>1
      <4>2. CASE i # n - 1
        <5>1. ~(n - 2 < i)
          BY <1>1, <1>2, <4>2
        <5> QED  BY <1>2, <1>4, <1>7, <3>1, <4>2, <5>1
      <4> QED  BY <4>1, <4>2
    <3> QED  BY <3>2, <3>3
  <2>7. ASSUME NEW k \in 0 .. n - 3 PROVE r.next[g[k]] = g[k + 1]
    <3>1. k \in 0 .. n - 2 /\ k + 1 \in 0 .. n - 2 /\ (k + 1) + 1 = k + 2
          /\ k \in 0 .. n - 1 /\ k + 1 \in 0 .. n - 1
      BY <1>1
    <3>2. CASE k + 1 < i
      <4>1. g[k] = f[k] /\ g[k + 1] = f[k + 1] /\ k # i - 1
        BY <1>7, <3>1, <3>2
      <4>2. f[k] \in Slots /\ (i # 0 => f[k] # previous)
        BY <1>2, <1>3, <3>1, <4>1
      <4> QED  BY <1>2, <1>6, <3>1, <4>1, <4>2
    <3>3. CASE k + 1 = i
      <4>1. g[k] = f[k] /\ g[k + 1] = f[i + 1] /\ i # 0 /\ i # n - 1 /\ k = i - 1
        BY <1>7, <3>1, <3>3
      <4> QED  BY <1>3, <1>6, <4>1
    <3>4. CASE k + 1 > i
      <4>1. g[k] = f[k + 1] /\ g[k + 1] = f[k + 2] /\ k + 1 # i - 1
        BY <1>7, <3>1, <3>4
      <4>2. f[k + 1] \in Slots /\ (i # 0 => f[k + 1] # previous)
        BY <1>2, <1>3, <3>1, <4>1
      <4>3. next[f[k + 1]] = f[k + 2]
        BY <1>2, <3>1
      <4> QED  BY <1>6, <4>1, <4>2, <4>3
    <3> QED  BY <1>2, <3>2, <3>3, <3>4
  <2>8. r.list.count > 0 => r.list.head = g[0] /\ r.list.tail = g[r.list.count - 1]
    BY <1>1, <2>1, <2>6
  <2> QED  BY <2>1, <2>2, <2>3, <2>4, <2>5, <2>7, <2>8 DEF Trace
<1>9. Holds(r.list, r.next, S \ {x})
  <2>1. r.list.count \in Nat /\ S \ {x} \subseteq Slots
    BY <1>1, <1>2, <1>4
  <2> QED  BY <1>5, <1>8, <2>1 DEF Holds
<1> QED  BY <1>6, <1>9 DEF r, x, previous

\* kRemoveListFromHeader takes an item out, unless the list is empty.
LEMMA HeaderHolds ==
    ASSUME NEW l, NEW next \in LinkType, NEW S, Holds(l, next, S)
    PROVE  LET r == RemoveListFromHeader(l, next)
           IN  /\ \A T : Without(S, r.node, T) => Holds(r.list, r.next, T)
               /\ \A y \in Slots : y \notin S => r.next[y] = next[y]
               /\ IF S = {} THEN r.node = NULL ELSE r.node \in S
<1>1. CASE S = {}
  <2>1. l.count = 0
    BY <1>1, HoldsNothing
  <2>2. RemoveListFromHeader(l, next) = [node |-> NULL, list |-> l, next |-> next]
    BY <2>1 DEF RemoveListFromHeader
  <2>3. S \ {NULL} = S
    BY <1>1
  <2> QED  BY <1>1, <2>2, <2>3 DEF Without
<1>2. CASE S # {}
  <2>1. l.count # 0 /\ l.head # NULL /\ l.count \in Nat
    BY <1>2, HoldsNothing DEF Holds
  <2>2. PICK f : Trace(l, next, S, f)
    BY DEF Holds
  <2>3. l.head = f[0] /\ 0 \in 0 .. l.count - 1 /\ f[0] \in S
    BY <2>1, <2>2 DEF Trace
  <2>4. RemoveListFromHeader(l, next) = Unlink(l, next, f[0], f[0])
    BY <2>1, <2>3 DEF RemoveListFromHeader
  <2>5. Unlink(l, next, f[0], f[0]).node = f[0]
    BY DEF Unlink
  <2>6. LET r == Unlink(l, next, IF 0 = 0 THEN f[0] ELSE f[0 - 1], f[0])
        IN  /\ Holds(r.list, r.next, S \ {f[0]})
            /\ \A y \in Slots : y \notin S => r.next[y] = next[y]
    BY <2>2, <2>3, UnlinkHolds
  <2> QED  BY <1>2, <2>3, <2>4, <2>5, <2>6 DEF Without
<1> QED  BY <1>1, <1>2

\* As many items as the list counts, and no more than there are.
LEMMA HoldsCount ==
    ASSUME NEW l, NEW next, NEW S, Holds(l, next, S)
    PROVE  /\ l.count \in Nat /\ Cardinality(S) = l.count
           /\ l.count <= Cardinality(Slots)
<1> DEFINE n == l.count
           T == 0 .. n - 1
<1>1. PICK f : Trace(l, next, S, f)
  BY DEF Holds
<1>2. n \in Nat /\ S \subseteq Slots
  BY DEF Holds
<1>3. IsFiniteSet(T) /\ Cardinality(T) = n
  <2>1. 0 \in Int /\ n - 1 \in Int
    BY <1>2
  <2>2. IsFiniteSet(0 .. n - 1)
        /\ Cardinality(0 .. n - 1) = IF 0 > n - 1 THEN 0 ELSE (n - 1) - 0 + 1
    BY <2>1, FS_Interval
  <2> QED  BY <1>2, <2>2
<1>4. f \in Bijection(T, S)
  <2>1. f \in [T -> S]
    BY <1>1 DEF Trace
  <2>2. \A a, b \in T : f[a] = f[b] => a = b
    BY <1>1 DEF Trace
  <2>3. \A x \in S : \E a \in T : f[a] = x
    BY <1>1 DEF Trace
  <2> HIDE DEF T
  <2> QED  BY <2>1, <2>2, <2>3
           DEF Bijection, Injection, Surjection, IsInjective
<1>5. ExistsBijection(T, S)
  BY <1>4 DEF ExistsBijection
<1>6. Cardinality(S) = n
  <2> HIDE DEF T
  <2> QED  BY <1>3, <1>5, FS_Bijection
<1>7. Cardinality(S) <= Cardinality(Slots)
  BY <1>2, SlotsAssumption, FS_Subset
<1> QED  BY <1>2, <1>6, <1>7

\* The chain runs through the items first.
LEMMA ChainOfHolds ==
    ASSUME NEW l, NEW next \in LinkType, NEW S, Holds(l, next, S),
           NEW f, Trace(l, next, S, f)
    PROVE  \A k \in 0 .. l.count - 1 : Chain(l, next)[k] = f[k]
<1> DEFINE n == l.count
           c == Cardinality(Slots)
           at == Chain(l, next)
           P == {k \in Nat : k < n => at[k] = f[k]}
<1>1. n \in Nat /\ n <= c /\ l \in ListType /\ S \subseteq Slots /\ c \in Nat
  BY HoldsCount, SlotsNumber DEF Holds
<1>2. Follows(at, l, next, c)
  BY <1>1, ChainFollows
<1> HIDE DEF at, c
<1>3. 0 \in P
  BY <1>1, <1>2 DEF Follows, Trace
<1>4. ASSUME NEW k \in P PROVE k + 1 \in P
  <2> SUFFICES ASSUME k + 1 < n PROVE at[k + 1] = f[k + 1]
    OBVIOUS
  <2>1. at[k] = f[k] /\ k \in 0 .. n - 2 /\ k \in 0 .. c - 1 /\ k \in 0 .. n - 1
    BY <1>1
  <2>2. f[k] \in S /\ next[f[k]] = f[k + 1]
    BY <2>1 DEF Trace
  <2>3. f[k] # NULL
    BY <1>1, <2>2, NullAssumption
  <2> QED  BY <1>2, <2>1, <2>2, <2>3 DEF Follows
<1> HIDE DEF P
<1>5. P = Nat
  BY <1>3, <1>4, NaturalInduction DEF P
<1> QED  BY <1>1, <1>5 DEF P, at

\* So such a list is well formed, and S is what it says it has.
LEMMA HoldsMembers ==
    ASSUME NEW l, NEW next \in LinkType, NEW S, Holds(l, next, S)
    PROVE  WellFormed(l, next) /\ Members(l, next) = S
<1> DEFINE n == l.count
<1>1. PICK f : Trace(l, next, S, f)
  BY DEF Holds
<1>2. n \in Nat /\ Cardinality(S) = n /\ n <= Cardinality(Slots) /\ S \subseteq Slots
  BY HoldsCount DEF Holds
<1>3. \A k \in 0 .. n - 1 : Chain(l, next)[k] = f[k]
  BY <1>1, ChainOfHolds
<1>4. Members(l, next) = S
  <2>1. ASSUME NEW x \in S PROVE x \in Members(l, next)
    BY <1>1, <1>3 DEF Members, Trace
  <2>2. ASSUME NEW x \in Members(l, next) PROVE x \in S
    BY <1>1, <1>3 DEF Members, Trace
  <2> QED  BY <2>1, <2>2
<1>5. n > 0 => Chain(l, next)[n - 1] = l.tail
  BY <1>1, <1>2, <1>3 DEF Trace
<1>6. n = 0 => l.head = NULL /\ l.tail = NULL
  BY <1>1 DEF Trace
<1>7. n \in 0 .. Cardinality(Slots)
  BY <1>2, SlotsNumber
<1> QED  BY <1>2, <1>4, <1>5, <1>6, <1>7 DEF WellFormed

\* kRemoveList finds an item that is on the list, and takes it out.
LEMMA RemoveHolds ==
    ASSUME NEW l, NEW next \in LinkType, NEW S, Holds(l, next, S), NEW x \in S,
           NEW wanted, With({}, x, wanted)
    PROVE  LET r == RemoveList(l, next, wanted)
           IN  /\ \A T : Without(S, x, T) => Holds(r.list, r.next, T)
               /\ \A y \in Slots : y \notin S => r.next[y] = next[y]
               /\ r.node = x
<1>0. wanted = {x}
  BY DEF With
<1> DEFINE at == Chain(l, next)
           positions == 0 .. Cardinality(Slots)
           n == l.count
<1>1. PICK f : Trace(l, next, S, f)
  BY DEF Holds
<1>2. n \in Nat /\ n <= Cardinality(Slots) /\ S \subseteq Slots
  BY HoldsCount DEF Holds
<1>3. PICK i \in 0 .. n - 1 : f[i] = x
  BY <1>1 DEF Trace
<1>4. \A k \in 0 .. n - 1 : at[k] = f[k] /\ f[k] \in S
  <2>1. \A k \in 0 .. n - 1 : at[k] = f[k]
    BY <1>1, ChainOfHolds
  <2> QED  BY <1>1, <2>1 DEF Trace
<1> HIDE DEF at
<1>5. i \in positions
  BY <1>2, SlotsNumber
<1>6. FirstHit(at, i, {x})
  <2>1. \A j \in 0 .. i - 1 : j \in 0 .. n - 1 /\ j # i
    BY <1>2
  <2>2. \A j \in 0 .. i - 1 : at[j] \notin {x}
    BY <1>1, <1>3, <1>4, <2>1 DEF Trace
  <2>3. i > 0 => at[i - 1] \in Slots
    <3>1. i > 0 => i - 1 \in 0 .. n - 1
      BY <1>2
    <3> QED  BY <1>2, <1>4, <3>1
  <2>4. at[i] \in {x}
    BY <1>3, <1>4
  <2> QED  BY <2>2, <2>3, <2>4 DEF FirstHit
<1>7. ASSUME NEW k \in positions, FirstHit(at, k, {x}) PROVE k = i
  <2>1. CASE k < i
    <3>1. k \in 0 .. n - 1
      BY <1>2, <2>1, SlotsNumber
    <3>2. at[k] = x
      BY <1>7 DEF FirstHit
    <3> QED  BY <1>1, <1>3, <1>4, <3>1, <3>2 DEF Trace
  <2>2. CASE k > i
    <3>1. i \in 0 .. k - 1
      BY <2>2, SlotsNumber
    <3>2. at[i] \notin {x}
      BY <1>7, <3>1 DEF FirstHit
    <3> QED  BY <1>3, <1>4, <3>2
  <2> QED  BY <2>1, <2>2, SlotsNumber
<1>8. RemoveList(l, next, {x})
        = Unlink(l, next, IF i = 0 THEN f[i] ELSE f[i - 1], f[i])
  <2>1. (CHOOSE k \in positions : FirstHit(at, k, {x})) = i
    BY <1>5, <1>6, <1>7
  <2>2. RemoveList(l, next, {x})
          = Unlink(l, next, IF i = 0 THEN at[i] ELSE at[i - 1], at[i])
    BY <1>5, <1>6, <2>1 DEF RemoveList, at
  <2>3. at[i] = f[i] /\ (i # 0 => at[i - 1] = f[i - 1])
    <3>1. i # 0 => i - 1 \in 0 .. n - 1
      BY <1>2
    <3> QED  BY <1>4, <3>1
  <2> QED  BY <2>2, <2>3
<1>9. LET r == Unlink(l, next, IF i = 0 THEN f[i] ELSE f[i - 1], f[i])
      IN  /\ Holds(r.list, r.next, S \ {f[i]})
          /\ \A y \in Slots : y \notin S => r.next[y] = next[y]
  BY <1>1, UnlinkHolds
<1>10. Unlink(l, next, IF i = 0 THEN f[i] ELSE f[i - 1], f[i]).node = f[i]
  BY DEF Unlink
<1> QED  BY <1>3, <1>0, <1>8, <1>9, <1>10 DEF Without

-----------------------------------------------------------------------------
\* Where the tasks are: the ready list of a priority, the wait list, or out of
\* both.

Waiting == -1
Out     == -2
Places  == -2 .. MaxList - 1

Put(at, v) == {s \in Slots : at[s] = v}

\* Every list holds the tasks that at places on it.
Arranged(q, at) ==
    /\ q \in SchedulerLists
    /\ \A p \in Priority : Holds(q.ready[p], q.link, Put(at, p))
    /\ Holds(q.wait, q.link, Put(at, Waiting))

LEMMA PlacesAre ==
    /\ Waiting \notin Priority /\ Out \notin Priority /\ Waiting # Out
    /\ Priority \subseteq Nat /\ WAIT \notin Priority
    /\ Places = Priority \cup {Waiting, Out}
    /\ MaxList - 1 \in Priority
<1>1. Waiting \notin Priority /\ Out \notin Priority /\ Waiting # Out
  BY NumberAssumption DEF Priority, Waiting, Out
<1>2. Priority \subseteq Nat /\ MaxList - 1 \in Priority
  BY NumberAssumption DEF Priority
<1>3. WAIT \notin Priority
  BY <1>2, PriorityAssumption
<1>4. Places = Priority \cup {Waiting, Out}
  BY NumberAssumption DEF Priority, Waiting, Out, Places
<1> QED  BY <1>1, <1>2, <1>3, <1>4

\* Putting a task somewhere else.
\* new is at but for s, which is at v.
Moved(at, new, s, v) ==
    new \in [Slots -> Places] /\ new[s] = v /\ \A t \in Slots : t # s => new[t] = at[t]

LEMMA MovedIs ==
    ASSUME NEW at \in [Slots -> Places], NEW s \in Slots, NEW v \in Places
    PROVE  Moved(at, [at EXCEPT ![s] = v], s, v)
BY DEF Moved

LEMMA PutMoved ==
    ASSUME NEW at \in [Slots -> Places], NEW s \in Slots, NEW v \in Places,
           NEW new, Moved(at, new, s, v)
    PROVE  /\ With(Put(at, v), s, Put(new, v))
           /\ \A w \in Places : w # v /\ w # at[s] => Put(new, w) = Put(at, w)
           /\ at[s] # v => Without(Put(at, at[s]), s, Put(new, at[s]))
<1>2. ASSUME NEW w \in Places, w # v, w # at[s] PROVE Put(new, w) = Put(at, w)
  BY <1>2 DEF Put, Moved
<1>3. Put(new, v) = Put(at, v) \cup {s}
  BY DEF Put, Moved
<1>4. at[s] # v => Put(new, at[s]) = Put(at, at[s]) \ {s}
  BY DEF Put, Moved
<1> QED  BY <1>2, <1>3, <1>4 DEF With, Without

LEMMA ArrangedWait ==
    ASSUME NEW q, NEW at \in [Slots -> Places], Arranged(q, at),
           NEW s \in Slots, at[s] = Out, NEW new, Moved(at, new, s, Waiting)
    PROVE  Arranged(AddToWait(q, s), new)
<1> DEFINE r == AddListToTail(q.wait, q.link, s)
<1>1. q \in SchedulerLists /\ q.link \in LinkType /\ Holds(q.wait, q.link, Put(at, Waiting))
  BY DEF Arranged, SchedulerLists
<1>2. Waiting \in Places /\ Waiting # Out /\ Priority \subseteq Places /\ Waiting \notin Priority
      /\ Out \notin Priority
  BY PlacesAre
<1>3. s \notin Put(at, Waiting) /\ \A w \in Priority : s \notin Put(at, w)
  BY <1>2 DEF Put
<1>4. /\ \A w \in Priority : Put(new, w) = Put(at, w)
      /\ With(Put(at, Waiting), s, Put(new, Waiting))
  BY <1>2, PutMoved
<1>5. /\ Holds(r.list, r.next, Put(new, Waiting))
      /\ \A y \in Slots : y # s /\ y \notin Put(at, Waiting) => r.next[y] = q.link[y]
  <2> DEFINE l == q.wait
             next == q.link
  <2>1. Holds(l, next, Put(at, Waiting)) /\ next \in LinkType
    BY <1>1
  <2> HIDE DEF l, next
  <2> DEFINE in == AddListToTail(l, next, s)
  <2>2. /\ Holds(in.list, in.next, Put(new, Waiting))
        /\ \A y \in Slots : y # s /\ y \notin Put(at, Waiting) => in.next[y] = next[y]
    BY <1>3, <1>4, <2>1, AddHolds
  <2> QED  BY <2>2 DEF l, next
<1>6. AddToWait(q, s) = [q EXCEPT !.wait = r.list, !.link = r.next]
  BY DEF AddToWait
<1>7. AddToWait(q, s) \in SchedulerLists
  BY <1>1, AddToWaitType DEF Pointer
<1> HIDE DEF r
<1>8. /\ AddToWait(q, s).ready = q.ready /\ AddToWait(q, s).wait = r.list
      /\ AddToWait(q, s).link = r.next
  BY <1>1, <1>6 DEF SchedulerLists
<1>9. ASSUME NEW p \in Priority PROVE Holds(q.ready[p], r.next, Put(new, p))
  <2>1. Holds(q.ready[p], q.link, Put(at, p))
    BY DEF Arranged
  <2>2. \A y \in Put(at, p) : r.next[y] = q.link[y]
    BY <1>2, <1>3, <1>5 DEF Put
  <2> QED  BY <1>4, <2>1, <2>2, HoldsFrame
<1> QED  BY <1>5, <1>7, <1>8, <1>9 DEF Arranged

LEMMA ArrangedReady ==
    ASSUME NEW q, NEW at \in [Slots -> Places], Arranged(q, at),
           NEW s \in Slots, at[s] = Out, NEW p \in Priority,
           NEW new, Moved(at, new, s, p)
    PROVE  Arranged(AddTaskToReadyList(q, s, p), new)
<1> DEFINE r == AddListToTail(q.ready[p], q.link, s)
           out == AddTaskToReadyList(q, s, p)
<1>1. q \in SchedulerLists /\ q.link \in LinkType /\ Holds(q.ready[p], q.link, Put(at, p))
  BY DEF Arranged, SchedulerLists
<1>2. /\ Waiting \in Places /\ Waiting # Out /\ Priority \subseteq Places
      /\ Waiting \notin Priority /\ Out \notin Priority /\ WAIT \notin Priority
  BY PlacesAre
<1>3. s \notin Put(at, Waiting) /\ \A w \in Priority : s \notin Put(at, w)
  BY <1>2 DEF Put
<1>4. /\ \A w \in Priority : w # p => Put(new, w) = Put(at, w)
      /\ Put(new, Waiting) = Put(at, Waiting) /\ With(Put(at, p), s, Put(new, p))
  BY <1>2, PutMoved
<1>5. /\ Holds(r.list, r.next, Put(new, p))
      /\ \A y \in Slots : y # s /\ y \notin Put(at, p) => r.next[y] = q.link[y]
  <2> DEFINE l == q.ready[p]
             next == q.link
  <2>1. Holds(l, next, Put(at, p)) /\ next \in LinkType
    BY <1>1
  <2> HIDE DEF l, next
  <2> DEFINE in == AddListToTail(l, next, s)
  <2>2. /\ Holds(in.list, in.next, Put(new, p))
        /\ \A y \in Slots : y # s /\ y \notin Put(at, p) => in.next[y] = next[y]
    BY <1>3, <1>4, <2>1, AddHolds
  <2> QED  BY <2>2 DEF l, next
<1>6. out = [q EXCEPT !.ready[p] = r.list, !.link = r.next]
  BY <1>2 DEF AddTaskToReadyList
<1>7. out \in SchedulerLists
  BY <1>1, AddTaskToReadyListType DEF Pointer
<1> HIDE DEF r, out
<1>8. out.ready = [q.ready EXCEPT ![p] = r.list] /\ out.wait = q.wait /\ out.link = r.next
  BY <1>1, <1>6 DEF SchedulerLists
<1>9. out.ready[p] = r.list /\ \A w \in Priority : w # p => out.ready[w] = q.ready[w]
  BY <1>1, <1>8 DEF SchedulerLists
<1>10. ASSUME NEW w \in Priority PROVE Holds(out.ready[w], out.link, Put(new, w))
  <2>1. CASE w = p
    BY <1>5, <1>8, <1>9, <2>1
  <2>2. CASE w # p
    <3>1. Holds(q.ready[w], q.link, Put(at, w))
      BY DEF Arranged
    <3>2. \A y \in Put(at, w) : r.next[y] = q.link[y]
      BY <1>3, <1>5, <2>2 DEF Put
    <3> QED  BY <1>4, <1>8, <1>9, <2>2, <3>1, <3>2, HoldsFrame
  <2> QED  BY <2>1, <2>2
<1>11. Holds(out.wait, out.link, Put(new, Waiting))
  <2>1. Holds(q.wait, q.link, Put(at, Waiting))
    BY DEF Arranged
  <2>2. \A y \in Put(at, Waiting) : r.next[y] = q.link[y]
    BY <1>2, <1>3, <1>5 DEF Put
  <2> QED  BY <1>4, <1>8, <2>1, <2>2, HoldsFrame
<1> QED  BY <1>7, <1>10, <1>11 DEF Arranged, out

\* Only the list of s has changed, and it is right.
OneListOf(s, q, at, out, new) ==
    /\ out \in SchedulerLists
    /\ \A y \in Slots : y \notin Put(at, at[s]) => out.link[y] = q.link[y]
    /\ IF at[s] = Waiting THEN Holds(out.wait, out.link, Put(new, Waiting))
       ELSE out.wait = q.wait
    /\ \A p \in Priority :
         IF at[s] = p THEN Holds(out.ready[p], out.link, Put(new, p))
         ELSE out.ready[p] = q.ready[p]

\* A task that leaves its list, and no other list changes.
LEMMA ArrangedOut ==
    ASSUME NEW q, NEW at \in [Slots -> Places], Arranged(q, at),
           NEW s \in Slots, at[s] # Out, NEW new, Moved(at, new, s, Out),
           NEW out, OneListOf(s, q, at, out, new)
    PROVE  Arranged(out, new)
<1> USE DEF OneListOf
<1>1. /\ Waiting \in Places /\ Waiting # Out /\ Priority \subseteq Places
      /\ Out \notin Priority /\ Out \in Places
  BY PlacesAre
<1>2. \A w \in Places : w # Out /\ w # at[s] => Put(new, w) = Put(at, w)
  BY <1>1, PutMoved
<1>3. \A w \in Places : w # at[s] => \A y \in Put(at, w) : out.link[y] = q.link[y]
  BY DEF Put
<1>4. ASSUME NEW p \in Priority PROVE Holds(out.ready[p], out.link, Put(new, p))
  <2>1. CASE at[s] = p
    BY <2>1
  <2>2. CASE at[s] # p
    <3>1. Holds(q.ready[p], q.link, Put(at, p))
      BY DEF Arranged
    <3>2. out.ready[p] = q.ready[p] /\ Put(new, p) = Put(at, p)
      BY <1>1, <1>2, <2>2
    <3>3. \A y \in Put(at, p) : out.link[y] = q.link[y]
      BY <1>1, <1>3, <2>2
    <3> QED  BY <3>1, <3>2, <3>3, HoldsFrame
  <2> QED  BY <2>1, <2>2
<1>5. Holds(out.wait, out.link, Put(new, Waiting))
  <2>1. CASE at[s] = Waiting
    BY <2>1
  <2>2. CASE at[s] # Waiting
    <3>1. Holds(q.wait, q.link, Put(at, Waiting))
      BY DEF Arranged
    <3>2. out.wait = q.wait /\ Put(new, Waiting) = Put(at, Waiting)
      BY <1>1, <1>2, <2>2
    <3>3. \A y \in Put(at, Waiting) : out.link[y] = q.link[y]
      BY <1>1, <1>3, <2>2
    <3> QED  BY <3>1, <3>2, <3>3, HoldsFrame
  <2> QED  BY <2>1, <2>2
<1> QED  BY <1>4, <1>5 DEF Arranged

\* The lists when r is what is left of the wait list.
WaitLeft(q, r) == [q EXCEPT !.wait = r.list, !.link = r.next]

\* The head of the wait list.
LEMMA ArrangedTake ==
    ASSUME NEW q, NEW at \in [Slots -> Places], Arranged(q, at),
           NEW r, r = RemoveListFromHeader(q.wait, q.link)
    PROVE  \/ r.node = NULL /\ Arranged(WaitLeft(q, r), at)
           \/ /\ r.node \in Slots /\ at[r.node] = Waiting
              /\ \A new : Moved(at, new, r.node, Out) => Arranged(WaitLeft(q, r), new)
<1> DEFINE S == Put(at, Waiting)
           out == WaitLeft(q, r)
<1>1. q \in SchedulerLists /\ q.link \in LinkType /\ q.wait \in ListType
      /\ Holds(q.wait, q.link, S)
  BY DEF Arranged, SchedulerLists
<1>2. /\ Waiting \in Places /\ Waiting # Out /\ Priority \subseteq Places
      /\ Waiting \notin Priority /\ Out \in Places
  BY PlacesAre
<1>3. /\ \A T : Without(S, r.node, T) => Holds(r.list, r.next, T)
      /\ \A y \in Slots : y \notin S => r.next[y] = q.link[y]
      /\ IF S = {} THEN r.node = NULL ELSE r.node \in S
  <2> DEFINE l == q.wait
             next == q.link
  <2>1. Holds(l, next, S) /\ next \in LinkType
    BY <1>1
  <2> HIDE DEF l, next, S
  <2> DEFINE h == RemoveListFromHeader(l, next)
  <2>2. /\ \A T : Without(S, h.node, T) => Holds(h.list, h.next, T)
        /\ \A y \in Slots : y \notin S => h.next[y] = next[y]
        /\ IF S = {} THEN h.node = NULL ELSE h.node \in S
    BY <2>1, HeaderHolds
  <2>3. r = h
    BY DEF l, next
  <2> QED  BY <2>2, <2>3 DEF next
<1>4. r \in RemovalType
  BY <1>1, RemoveListFromHeaderType
<1>5. out \in SchedulerLists
  BY <1>1, <1>4 DEF WaitLeft, SchedulerLists, RemovalType
<1>6. out.ready = q.ready /\ out.wait = r.list /\ out.link = r.next
  BY <1>1 DEF WaitLeft, SchedulerLists
<1> HIDE DEF out
<1>7. CASE S = {}
  <2>1. r.node = NULL /\ Without(S, r.node, S)
    BY <1>3, <1>7 DEF Without
  <2>2. Holds(out.wait, out.link, Put(at, Waiting))
    BY <1>3, <1>6, <2>1
  <2>3. ASSUME NEW p \in Priority PROVE Holds(out.ready[p], out.link, Put(at, p))
    <3>1. Holds(q.ready[p], q.link, Put(at, p))
      BY DEF Arranged
    <3>2. \A y \in Put(at, p) : out.link[y] = q.link[y]
      BY <1>3, <1>6, <1>7 DEF Put
    <3> QED  BY <1>6, <3>1, <3>2, HoldsFrame
  <2> QED  BY <1>5, <2>1, <2>2, <2>3 DEF Arranged, out
<1>8. CASE S # {}
  <2>1. r.node \in Slots /\ at[r.node] = Waiting
    BY <1>3, <1>8 DEF Put
  <2>2. ASSUME NEW new, Moved(at, new, r.node, Out) PROVE Arranged(out, new)
    <3>1. Without(S, r.node, Put(new, Waiting))
      BY <1>2, <2>1, <2>2, PutMoved
    <3>2. Holds(out.wait, out.link, Put(new, Waiting))
      BY <1>3, <1>6, <3>1
    <3>3. \A y \in Slots : y \notin Put(at, at[r.node]) => out.link[y] = q.link[y]
      BY <1>3, <1>6, <2>1
    <3>4. \A p \in Priority : at[r.node] # p /\ out.ready[p] = q.ready[p]
      BY <1>2, <1>6, <2>1
    <3> HIDE DEF S
    <3>5. OneListOf(r.node, q, at, out, new)
      BY <1>5, <2>1, <3>2, <3>3, <3>4 DEF OneListOf
    <3> QED  BY <1>2, <2>1, <2>2, <3>5, ArrangedOut
  <2> QED  BY <2>1, <2>2 DEF out
<1> QED  BY <1>7, <1>8

\* r is what removing s from the ready list of p returns, and out what becomes
\* of the lists q.
ReadyRemoval(q, at, p, r, s, out) ==
    /\ s \in Put(at, p)
    /\ \A y \in Slots : y \notin Put(at, p) => r.next[y] = q.link[y]
    /\ \A T : Without(Put(at, p), s, T) => Holds(r.list, r.next, T)
    /\ out \in SchedulerLists /\ out.ready = [q.ready EXCEPT ![p] = r.list]
    /\ out.wait = q.wait /\ out.link = r.next

LEMMA ArrangedReadyOut ==
    ASSUME NEW q, NEW at \in [Slots -> Places], Arranged(q, at), NEW p \in Priority,
           NEW r, NEW s, NEW out, ReadyRemoval(q, at, p, r, s, out),
           NEW new, Moved(at, new, s, Out)
    PROVE  Arranged(out, new)
<1> USE DEF ReadyRemoval
<1>1. /\ Waiting \in Places /\ Waiting # Out /\ Priority \subseteq Places
      /\ Waiting \notin Priority /\ Out \notin Priority /\ Out \in Places
  BY PlacesAre
<1>2. s \in Slots /\ at[s] = p
  BY DEF Put
<1>3. Without(Put(at, p), s, Put(new, p))
  BY <1>1, <1>2, PutMoved
<1>4. Holds(r.list, r.next, Put(new, p))
  BY <1>3
<1>5. out.ready[p] = r.list /\ \A w \in Priority : w # p => out.ready[w] = q.ready[w]
  <2>1. q.ready \in [Priority -> ListType]
    BY DEF Arranged, SchedulerLists
  <2> QED  BY <2>1
<1>6. \A y \in Slots : y \notin Put(at, at[s]) => out.link[y] = q.link[y]
  BY <1>2
<1>7. ASSUME NEW w \in Priority
      PROVE  IF at[s] = w THEN Holds(out.ready[w], out.link, Put(new, w))
             ELSE out.ready[w] = q.ready[w]
  BY <1>2, <1>4, <1>5
<1>8. at[s] # Out /\ at[s] # Waiting
  BY <1>1, <1>2
<1>9. IF at[s] = Waiting THEN Holds(out.wait, out.link, Put(new, Waiting))
      ELSE out.wait = q.wait
  BY <1>8
<1>10. s \in Slots /\ at[s] # Out
  BY <1>2, <1>8
<1>11. OneListOf(s, q, at, out, new)
  BY <1>6, <1>7, <1>9 DEF OneListOf
<1> QED  BY <1>10, <1>11, ArrangedOut

\* The selection takes a task off a ready list, or none.
Selected(n, at) ==
    \/ n.task = NULL /\ Arranged(n.q, at)
    \/ /\ n.task \in Slots /\ at[n.task] \in Priority
       /\ \A new : Moved(at, new, n.task, Out) => Arranged(n.q, new)

LEMMA ArrangedPass ==
    ASSUME NEW q, NEW at \in [Slots -> Places], Arranged(q, at)
    PROVE  Selected(Pass(q), at)
<1>1. q \in SchedulerLists
  BY DEF Arranged
<1>2. Pass(q) \in SelectionType /\ Pass(q).q \in SchedulerLists
  BY <1>1, PassType DEF SelectionType
<1>3. CASE ~ \E p \in Priority : IsDue(q, p)
  <2>1. Pass(q) = [task |-> NULL, q |-> [q EXCEPT !.exec = [h \in Priority |-> 0]]]
    BY <1>3 DEF Pass
  <2>2. /\ Pass(q).task = NULL /\ Pass(q).q.ready = q.ready /\ Pass(q).q.wait = q.wait
        /\ Pass(q).q.link = q.link
    BY <1>1, <2>1 DEF SchedulerLists
  <2> QED  BY <1>2, <2>2 DEF Selected, Arranged
<1>4. CASE \E p \in Priority : IsDue(q, p)
  <2> DEFINE p == CHOOSE i \in Priority : IsDue(q, i)
             r == RemoveListFromHeader(q.ready[p], q.link)
             out == Pass(q).q
  <2>1. p \in Priority
    BY <1>4
  <2>2. Pass(q) = [task |-> r.node,
                   q |-> [ready |-> [q.ready EXCEPT ![p] = r.list],
                          wait  |-> q.wait,
                          link  |-> r.next,
                          exec  |-> Turns(q, p)]]
    BY <1>4 DEF Pass
  <2> HIDE DEF p
  <2>3. q.ready[p] \in ListType /\ q.link \in LinkType /\ Holds(q.ready[p], q.link, Put(at, p))
    BY <2>1 DEF Arranged, SchedulerLists
  <2>4. r \in RemovalType
    BY <2>3, RemoveListFromHeaderType
  <2> DEFINE S == Put(at, p)
  <2>5. /\ \A T : Without(S, r.node, T) => Holds(r.list, r.next, T)
        /\ \A y \in Slots : y \notin S => r.next[y] = q.link[y]
        /\ IF S = {} THEN r.node = NULL ELSE r.node \in S
    <3> DEFINE l == q.ready[p]
               next == q.link
    <3>1. Holds(l, next, S) /\ next \in LinkType
      BY <2>3
    <3> HIDE DEF l, next, S
    <3> DEFINE h == RemoveListFromHeader(l, next)
    <3>2. /\ \A T : Without(S, h.node, T) => Holds(h.list, h.next, T)
          /\ \A y \in Slots : y \notin S => h.next[y] = next[y]
          /\ IF S = {} THEN h.node = NULL ELSE h.node \in S
      BY <3>1, HeaderHolds
    <3>3. r = h
      BY DEF l, next
    <3> QED  BY <3>2, <3>3 DEF next
  <2> HIDE DEF r
  <2>6. /\ Pass(q).task = r.node /\ out.ready = [q.ready EXCEPT ![p] = r.list]
        /\ out.wait = q.wait /\ out.link = r.next /\ out \in SchedulerLists
    BY <1>2, <2>2
  <2> HIDE DEF out
  <2>7. CASE S = {}
    <3>1. r.node = NULL /\ Without(S, r.node, S)
      BY <2>5, <2>7 DEF Without
    <3>2. Holds(r.list, r.next, S)
      BY <2>5, <3>1
    <3>3. out.ready[p] = r.list /\ \A w \in Priority : w # p => out.ready[w] = q.ready[w]
      BY <1>1, <2>1, <2>6 DEF SchedulerLists
    <3>4. ASSUME NEW w \in Priority PROVE Holds(out.ready[w], out.link, Put(at, w))
      <4>1. CASE w = p
        BY <2>6, <3>2, <3>3, <4>1
      <4>2. CASE w # p
        <5>1. Holds(q.ready[w], q.link, Put(at, w))
          BY DEF Arranged
        <5>2. \A y \in Put(at, w) : out.link[y] = q.link[y]
          BY <2>5, <2>6, <2>7 DEF Put
        <5> QED  BY <3>3, <4>2, <5>1, <5>2, HoldsFrame
      <4> QED  BY <4>1, <4>2
    <3>5. Holds(out.wait, out.link, Put(at, Waiting))
      <4>1. Holds(q.wait, q.link, Put(at, Waiting))
        BY DEF Arranged
      <4>2. \A y \in Put(at, Waiting) : out.link[y] = q.link[y]
        BY <2>5, <2>6, <2>7 DEF Put
      <4> QED  BY <2>6, <4>1, <4>2, HoldsFrame
    <3> QED  BY <2>6, <3>1, <3>4, <3>5 DEF Arranged, Selected, out
  <2>8. CASE S # {}
    <3>1. r.node \in S /\ r.node \in Slots /\ at[r.node] = p
      BY <2>5, <2>8 DEF Put
    <3>2. ASSUME NEW new, Moved(at, new, r.node, Out) PROVE Arranged(out, new)
      <4> HIDE DEF S
      <4> DEFINE s == r.node
      <4>1. /\ s \in Put(at, p) /\ Moved(at, new, s, Out)
            /\ \A T : Without(Put(at, p), s, T) => Holds(r.list, r.next, T)
            /\ \A y \in Slots : y \notin Put(at, p) => r.next[y] = q.link[y]
        BY <2>5, <3>1, <3>2 DEF S
      <4> HIDE DEF s
      <4>2. ReadyRemoval(q, at, p, r, s, out)
        BY <2>6, <4>1 DEF ReadyRemoval
      <4> QED  BY <2>1, <4>1, <4>2, ArrangedReadyOut
    <3> QED  BY <2>1, <2>6, <3>1, <3>2 DEF Selected, out
  <2> QED  BY <2>7, <2>8
<1> QED  BY <1>3, <1>4

LEMMA ArrangedSelection ==
    ASSUME NEW q, NEW at \in [Slots -> Places], Arranged(q, at)
    PROVE  Selected(GetNextTaskToRun(q), at)
<1>1. Selected(Pass(q), at)
  BY ArrangedPass
<1>2. CASE Pass(q).task # NULL
  BY <1>1, <1>2 DEF GetNextTaskToRun
<1>3. CASE Pass(q).task = NULL
  <2>1. Arranged(Pass(q).q, at)
    BY <1>1, <1>3, NullAssumption DEF Selected
  <2> QED  BY <1>3, <2>1, ArrangedPass DEF GetNextTaskToRun
<1> QED  BY <1>2, <1>3

\* kRemoveTaskFromReadyList finds a task that is where its flags say.
LEMMA ArrangedRemove ==
    ASSUME NEW q, NEW at \in [Slots -> Places], Arranged(q, at), NEW id \in TaskID,
           Exists(id), at[Offset(id)] = tcb[Offset(id)].prio,
           at[Offset(id)] \in Priority,
           NEW new, Moved(at, new, Offset(id), Out)
    PROVE  /\ RemoveTaskFromReadyList(q, id).node = Offset(id)
           /\ Arranged(RemoveTaskFromReadyList(q, id).q, new)
<1> DEFINE s == Offset(id)
           p == tcb[s].prio
           r == RemoveList(q.ready[p], q.link, {s})
           S == Put(at, p)
           out == RemoveTaskFromReadyList(q, id).q
<1>1. p \in Priority /\ s \in Slots /\ q.ready[p] \in ListType /\ q.link \in LinkType
      /\ q \in SchedulerLists
  BY DEF Arranged, SchedulerLists, TaskID, Offset
<1>2. s \in S /\ Holds(q.ready[p], q.link, S)
  BY <1>1 DEF Put, Arranged
<1>3. /\ RemoveTaskFromReadyList(q, id).node = r.node
      /\ out = [q EXCEPT !.ready[p] = r.list, !.link = r.next]
      /\ out \in SchedulerLists
  BY <1>1, RemoveTaskFromReadyListType DEF RemoveTaskFromReadyList
<1>4. r \in RemovalType
  <2> HIDE DEF p, s
  <2> QED  BY <1>1, RemoveListType
<1>5. /\ \A T : Without(S, s, T) => Holds(r.list, r.next, T)
      /\ \A y \in Slots : y \notin S => r.next[y] = q.link[y]
      /\ r.node = s
  <2> DEFINE l == q.ready[p]
             next == q.link
             wanted == {s}
  <2>1. /\ Holds(l, next, S) /\ next \in LinkType /\ s \in S
        /\ With({}, s, wanted)
    BY <1>1, <1>2 DEF With
  <2> HIDE DEF l, next, S, s, wanted
  <2> DEFINE h == RemoveList(l, next, wanted)
  <2>2. /\ \A T : Without(S, s, T) => Holds(h.list, h.next, T)
        /\ \A y \in Slots : y \notin S => h.next[y] = next[y]
        /\ h.node = s
    BY <2>1, RemoveHolds
  <2>3. r = h
    BY DEF l, next, wanted
  <2> QED  BY <2>2, <2>3 DEF next
<1> HIDE DEF r, out
<1>6. /\ out.ready = [q.ready EXCEPT ![p] = r.list]
      /\ out.wait = q.wait /\ out.link = r.next
  BY <1>1, <1>3 DEF SchedulerLists
<1>7. Arranged(out, new)
  <2>1. Moved(at, new, s, Out) /\ s \in Put(at, p)
    BY <1>2
  <2>2. /\ \A T : Without(Put(at, p), s, T) => Holds(r.list, r.next, T)
        /\ \A y \in Slots : y \notin Put(at, p) => r.next[y] = q.link[y]
    BY <1>5
  <2> HIDE DEF p, s
  <2>3. ReadyRemoval(q, at, p, r, s, out)
    BY <1>3, <1>6, <2>1, <2>2 DEF ReadyRemoval
  <2> QED  BY <1>1, <2>1, <2>3, ArrangedReadyOut
<1> QED  BY <1>3, <1>5, <1>7 DEF out

-----------------------------------------------------------------------------
\* The invariant behind the lists, the homes and the families

\* The shell's priorities have lists of their own, and no kill comes between
\* the sections of kCreateTask.  (What happens otherwise, the README tells.)
Sheltered == TypedPriority \subseteq Priority /\ ~KillInCreate

\* A task is at one place: on the list at says or, when it is on none, on the
\* processor, in the idle task's hands, or under construction.
PlaceOK(at) == \A s \in Slots :
    /\ tcb[s].gen = 0 =>
         at[s] = Out /\ s # running /\ s # reaped /\ s \notin UnderConstruction
    /\ s = running \/ s = reaped \/ s \in UnderConstruction => at[s] = Out
    /\ s \in UnderConstruction => s # running /\ s # reaped
    /\ tcb[s].gen # 0 /\ at[s] = Out =>
         s = running \/ s = reaped \/ s \in UnderConstruction
    /\ at[s] = Waiting => tcb[s].end
    /\ at[s] \in Priority /\ ~tcb[s].end => tcb[s].prio = at[s]
    /\ tcb[s].gen # 0 /\ s \notin UnderConstruction /\ tcb[s].end /\ tcb[s].kind = "process" =>
         \/ at[s] = Waiting \/ s = reaped
         \/ s = running /\ pc[s] \in {"ending", "ended"}

HomeOK == \E at \in [Slots -> Places] : Arranged(lists, at) /\ PlaceOK(at)

\* The flags of a TCB, in use or not.
FlagsOK ==
    /\ \A s \in Slots : IF tcb[s].end THEN tcb[s].prio = WAIT ELSE tcb[s].prio \in Priority
    /\ ~tcb[Boot].end /\ ~tcb[Idle].end

\* The idle task ends the threads of a process that has ended.
ReapedOK ==
    /\ reaped # NULL <=> pc[Idle] = "endChildren"
    /\ reaped # NULL => running = Idle /\ tcb[reaped].end /\ tcb[reaped].kind = "process"

\* c is in kCreateTask, and s is what it has made of the TCB it took.
MakesOK(c, s) ==
    /\ s \in Slots /\ made[c].kind \in {"process", "thread"}
    /\ c # Idle /\ c \notin UnderConstruction
    /\ tcb[c].gen # 0 /\ tcb[c].kind = "process" /\ ~tcb[c].end
    /\ tcb[s].gen # 0 /\ tcb[s].parent = ID(c)
    /\ c # Boot => made[c].kind = "thread"
    /\ pc[c] = "enqueue" => tcb[s].kind = made[c].kind /\ ~tcb[s].end

MadeOK ==
    /\ \A c \in Slots : IF pc[c] \in {"setUp", "enqueue"} THEN MakesOK(c, made[c].slot)
                        ELSE made[c] = Nothing
    /\ \A c, d \in Slots : made[c].slot = made[d].slot /\ made[c].slot # NULL => c = d

\* A thread, or a TCB that is to be one.
ThreadLike(s) ==
    IF s \in UnderConstruction
    THEN \E c \in Slots : made[c] = [slot |-> s, kind |-> "thread"]
    ELSE tcb[s].kind = "thread"

Kids(p) == {t \in Slots : ThreadOf(t, p)}

ParentOK(t) ==
    /\ tcb[t].gen < iAllocatedCount
    /\ tcb[t].parent[1] \in 1 .. iAllocatedCount - 1
    /\ ThreadLike(t) => /\ Exists(tcb[t].parent)
                        /\ tcb[Offset(tcb[t].parent)].kind = "process"
                        /\ Offset(tcb[t].parent) \notin UnderConstruction

FamilyOK ==
    /\ iAllocatedCount >= 2
    /\ \A t \in Slots : tcb[t].gen # 0 => ParentOK(t)
    /\ \A s \in Slots : tcb[s].kind = "process" => Holds(child[s], threadLink, Kids(s))

\* The boot task lives, and the idle task is the first one it creates.
BootOK ==
    /\ tcb[Boot].gen = 1 /\ tcb[Boot].kind = "process" /\ tcb[Boot].parent = <<1, Boot>>
    /\ IF tcb[Idle].gen = 0 THEN \A s \in Slots \ {Boot} : tcb[s].gen = 0
       ELSE tcb[Idle].parent = <<1, Boot>>

\* A slot that was freed and used again since its ID was read is a thread's:
\* only the shell creates processes, and it is killing.
VictimOK == pc[Boot] = "kill" => LET v == Offset(victim) IN
    /\ v # Boot /\ v # Idle /\ victim[1] # 0
    /\ tcb[v].gen # 0 /\ ~Exists(victim) /\ v \notin UnderConstruction
         => tcb[v].kind = "thread"

HInv == /\ IInv /\ HomeOK /\ FlagsOK /\ ReapedOK /\ MadeOK /\ FamilyOK
        /\ BootOK /\ VictimOK

\* The types, field by field.
LEMMA TypesAre ==
    ASSUME TypeOK
    PROVE  /\ \A s \in Slots :
                /\ tcb[s].gen \in Nat /\ tcb[s].end \in BOOLEAN
                /\ tcb[s].prio \in Nat \cup {WAIT}
                /\ tcb[s].kind \in {"none", "process", "thread"}
                /\ tcb[s].parent \in TaskID
                /\ child[s] \in ListType
                /\ made[s].slot \in Pointer
                /\ made[s].kind \in {"none", "process", "thread"}
                /\ made[s] = [slot |-> made[s].slot, kind |-> made[s].kind]
           /\ running \in Slots /\ reaped \in Pointer /\ victim \in TaskID
           /\ threadLink \in LinkType /\ lists \in SchedulerLists
           /\ iAllocatedCount \in Nat
BY DEF TypeOK, TCBType

LEMMA TaskIDs ==
    /\ \A id \in TaskID : /\ id[1] \in Nat /\ Offset(id) \in Slots
                          /\ id = <<id[1], Offset(id)>>
    /\ \A g \in Nat, s \in Slots : /\ <<g, s>> \in TaskID /\ <<g, s>>[1] = g
                                   /\ Offset(<<g, s>>) = s
BY DEF TaskID, Offset

LEMMA UnderConstructionIs ==
    \A s \in Slots : s \in UnderConstruction <=> \E c \in Slots : made[c].slot = s
BY NullAssumption DEF UnderConstruction

LEMMA SlotsAre == /\ Boot \in Slots /\ Idle \in Slots /\ Boot # Idle
                  /\ Slots \subseteq Nat /\ NULL \notin Slots
<1>1. Boot \in Nat /\ Idle \in Nat /\ Boot < Idle
  BY SlotAssumption
<1> QED  BY <1>1, SlotAssumption, NullAssumption

LEMMA InitHInv == Init => HInv
<1> SUFFICES ASSUME Init PROVE HInv
  OBVIOUS
<1>1. IInv
  BY InitIInv
<1>2. /\ \A s \in Slots : /\ tcb[s] = FreshTCB(s) /\ made[s] = Nothing
                          /\ child[s] = EmptyList
                          /\ pc[s] = IF s = Boot THEN "run" ELSE "none"
      /\ running = Boot /\ reaped = NULL /\ iAllocatedCount = 2
  BY DEF Init
<1>3. \A s \in Slots : /\ tcb[s].gen = (IF s = Boot THEN 1 ELSE 0)
                       /\ tcb[s].prio = 0 /\ ~tcb[s].end
                       /\ tcb[s].kind = (IF s = Boot THEN "process" ELSE "none")
                       /\ s = Boot => tcb[s].parent = <<1, Boot>>
  <2> TAKE s \in Slots
  <2>1. tcb[s] = FreshTCB(s)
    BY <1>2
  <2>2. CASE s = Boot
    BY <2>1, <2>2 DEF FreshTCB
  <2>3. CASE s # Boot
    BY <2>1, <2>3 DEF FreshTCB
  <2> QED  BY <2>2, <2>3
<1>4. \A s \in Slots : s \notin UnderConstruction
  BY <1>2, SlotsAre, UnderConstructionIs DEF Nothing
<1>5. HomeOK
  <2> DEFINE at == [s \in Slots |-> Out]
  <2>1. at \in [Slots -> Places]
    BY PlacesAre
  <2>2. Put(at, Waiting) = {} /\ \A p \in Priority : Put(at, p) = {}
    BY PlacesAre DEF Put
  <2>3. /\ lists.wait = EmptyList /\ \A p \in Priority : lists.ready[p] = EmptyList
    BY DEF Init
  <2>4. Arranged(lists, at)
    <3> HIDE DEF at
    <3> QED  BY <1>1, <2>2, <2>3, EmptyHolds DEF Arranged, IInv, TypeOK
  <2>5. PlaceOK(at)
    <3>1. \A s \in Slots : at[s] = Out
      OBVIOUS
    <3> HIDE DEF at
    <3> QED  BY <1>2, <1>3, <1>4, <3>1, SlotsAre, PlacesAre DEF PlaceOK
  <2> QED  BY <2>1, <2>4, <2>5 DEF HomeOK
<1>6. FlagsOK
  <2>1. 0 \in Priority
    BY NumberAssumption DEF Priority
  <2> QED  BY <1>3, <2>1, SlotsAre DEF FlagsOK
<1>7. ReapedOK
  BY <1>2, SlotsAre DEF ReapedOK
<1>8. MadeOK
  BY <1>2 DEF MadeOK, Nothing
<1>9. FamilyOK
  <2>1. ASSUME NEW t \in Slots, tcb[t].gen # 0 PROVE ParentOK(t)
    <3>1. t = Boot /\ tcb[t].gen = 1 /\ tcb[t].kind = "process" /\ tcb[t].parent = <<1, Boot>>
      BY <1>3, <2>1
    <3>2. ~ThreadLike(t)
      BY <1>4, <3>1 DEF ThreadLike
    <3>3. tcb[t].parent[1] = 1
      BY <3>1
    <3> QED  BY <1>2, <3>1, <3>2, <3>3 DEF ParentOK
  <2>2. ASSUME NEW s \in Slots PROVE Kids(s) = {}
    BY <1>3, <1>4 DEF Kids, ThreadOf
  <2>3. ASSUME NEW s \in Slots PROVE Holds(child[s], threadLink, Kids(s))
    BY <1>2, <2>2, EmptyHolds
  <2> QED  BY <1>2, <2>1, <2>3 DEF FamilyOK
<1>10. BootOK
  BY <1>3, SlotsAre DEF BootOK
<1>11. VictimOK
  BY <1>2, SlotsAre DEF VictimOK
<1> QED  BY <1>1, <1>5, <1>6, <1>7, <1>8, <1>9, <1>10, <1>11 DEF HInv

-----------------------------------------------------------------------------
\* What a step keeps when it leaves IDs, parents and kinds alone.

SameTasks ==
    \A t \in Slots : /\ tcb'[t].gen = tcb[t].gen /\ tcb'[t].parent = tcb[t].parent
                     /\ tcb'[t].kind = tcb[t].kind

\* A program point of kCreateTask.
Creating(at) == at \in {"setUp", "enqueue"}

LEMMA SameMade ==
    ASSUME SameTasks, made' = made
    PROVE  /\ UnderConstruction' = UnderConstruction
           /\ \A t \in Slots : (ThreadLike(t))' <=> ThreadLike(t)
<1>1. UnderConstruction' = UnderConstruction
  BY DEF UnderConstruction
<1>2. ASSUME NEW t \in Slots PROVE (ThreadLike(t))' <=> ThreadLike(t)
  BY <1>1 DEF ThreadLike, SameTasks
<1> QED  BY <1>1, <1>2

LEMMA FamilyKept ==
    ASSUME FamilyOK, TypeOK, iAllocatedCount' = iAllocatedCount, SameTasks,
           \A t \in Slots : (ThreadLike(t))' <=> ThreadLike(t),
           \A t \in Slots : t \in UnderConstruction' => t \in UnderConstruction,
           \A s \in Slots : tcb[s].kind = "process" => Holds(child'[s], threadLink', Kids(s))
    PROVE  FamilyOK'
<1>1. \A t \in Slots : tcb[t].parent \in TaskID /\ Offset(tcb[t].parent) \in Slots
  BY TypesAre, TaskIDs
<1>2. \A p \in Slots : (ID(p))' = ID(p)
  BY DEF ID, SameTasks
<1>3. ASSUME NEW p \in Slots PROVE (Kids(p))' = Kids(p)
  <2>1. ASSUME NEW t \in Slots PROVE (ThreadOf(t, p))' <=> ThreadOf(t, p)
    <3>1. (ThreadOf(t, p))' <=>
            tcb'[t].gen # 0 /\ tcb'[t].parent = (ID(p))' /\ (ThreadLike(t))'
      BY DEF ThreadOf, ThreadLike
    <3>2. ThreadOf(t, p) <=> tcb[t].gen # 0 /\ tcb[t].parent = ID(p) /\ ThreadLike(t)
      BY DEF ThreadOf, ThreadLike
    <3> QED  BY <1>2, <3>1, <3>2 DEF SameTasks
  <2> QED  BY <2>1 DEF Kids
<1>4. ASSUME NEW t \in Slots, tcb'[t].gen # 0 PROVE (ParentOK(t))'
  <2>1. ParentOK(t)
    BY <1>4 DEF FamilyOK, SameTasks
  <2>2. tcb'[t].gen < iAllocatedCount' /\ tcb'[t].parent[1] \in 1 .. iAllocatedCount' - 1
    BY <2>1 DEF ParentOK, SameTasks
  <2>3. ASSUME (ThreadLike(t))'
        PROVE  /\ (Exists(tcb[t].parent))' /\ tcb'[Offset(tcb'[t].parent)].kind = "process"
               /\ Offset(tcb'[t].parent) \notin UnderConstruction'
    <3>1. /\ Exists(tcb[t].parent) /\ tcb[Offset(tcb[t].parent)].kind = "process"
          /\ Offset(tcb[t].parent) \notin UnderConstruction
      BY <2>1, <2>3 DEF ParentOK
    <3> QED  BY <1>1, <3>1 DEF SameTasks, Exists
  <2> QED  BY <2>2, <2>3 DEF ParentOK
<1>5. ASSUME NEW s \in Slots, tcb'[s].kind = "process"
      PROVE  Holds(child'[s], threadLink', (Kids(s))')
  BY <1>3, <1>5 DEF SameTasks
<1>6. iAllocatedCount' >= 2
  BY DEF FamilyOK
<1> QED  BY <1>4, <1>5, <1>6 DEF FamilyOK

LEMMA FamilySame ==
    ASSUME FamilyOK, TypeOK, UNCHANGED <<family, iAllocatedCount, made>>, SameTasks
    PROVE  FamilyOK'
<1>1. /\ UnderConstruction' = UnderConstruction
      /\ \A t \in Slots : (ThreadLike(t))' <=> ThreadLike(t)
  BY SameMade
<1>2. \A s \in Slots : tcb[s].kind = "process" => Holds(child'[s], threadLink', Kids(s))
  BY DEF FamilyOK, family
<1> QED  BY <1>1, <1>2, FamilyKept

LEMMA BootSame ==
    ASSUME BootOK, SameTasks PROVE BootOK'
BY SlotsAre DEF BootOK, SameTasks

LEMMA MadeSame ==
    ASSUME MadeOK, SameTasks, made' = made,
           \A c \in Slots : pc'[c] = pc[c] \/ ~(Creating(pc[c]) \/ Creating(pc'[c])),
           \A s \in Slots : ~tcb[s].end /\ tcb'[s].end =>
               ~Creating(pc[s]) /\ s \notin UnderConstruction
    PROVE  MadeOK'
<1>1. UnderConstruction' = UnderConstruction
  BY SameMade
<1>2. \A p \in Slots : (ID(p))' = ID(p)
  BY DEF ID, SameTasks
<1>3. ASSUME NEW c \in Slots, Creating(pc[c]), Creating(pc'[c]), pc'[c] = pc[c]
      PROVE  (MakesOK(c, made[c].slot))'
  <2>0. MakesOK(c, made[c].slot)
    BY <1>3 DEF MadeOK, Creating
  <2> PICK s \in Slots : s = made[c].slot
    BY <2>0 DEF MakesOK
  <2>1. MakesOK(c, s)
    BY <2>0
  <2>2. s \in Slots /\ s \in UnderConstruction
    BY <2>1, UnderConstructionIs DEF MakesOK
  <2>3. tcb'[c].end => tcb[c].end
    BY <1>3
  <2>4. tcb'[s].end => tcb[s].end
    BY <2>2
  <2>5. made'[c] = made[c]
    OBVIOUS
  <2>6. (MakesOK(c, s))'
    <3>1. /\ tcb'[c].gen # 0 /\ tcb'[c].kind = "process" /\ ~tcb'[c].end
          /\ tcb'[s].gen # 0 /\ tcb'[s].parent = (ID(c))'
      BY <1>2, <2>1, <2>2, <2>3 DEF MakesOK, SameTasks
    <3>2. pc'[c] = "enqueue" => tcb'[s].kind = made[c].kind /\ ~tcb'[s].end
      BY <1>3, <2>1, <2>2, <2>4 DEF MakesOK, SameTasks
    <3>3. /\ made'[c].kind \in {"process", "thread"} /\ c # Idle
          /\ c \notin UnderConstruction' /\ (c # Boot => made'[c].kind = "thread")
      BY <1>1, <2>1, <2>5 DEF MakesOK
    <3> QED  BY <2>2, <2>5, <3>1, <3>2, <3>3 DEF MakesOK
  <2> QED  BY <2>5, <2>6
<1>4. ASSUME NEW c \in Slots, ~Creating(pc'[c]) PROVE made'[c] = Nothing
  BY <1>4 DEF MadeOK, Creating
<1>5. \A c, d \in Slots : made'[c].slot = made'[d].slot /\ made'[c].slot # NULL => c = d
  BY DEF MadeOK
<1>6. ASSUME NEW c \in Slots
      PROVE  IF pc'[c] \in {"setUp", "enqueue"} THEN (MakesOK(c, made[c].slot))'
             ELSE made'[c] = (Nothing)'
  BY <1>3, <1>4 DEF Creating, Nothing
<1> QED  BY <1>5, <1>6 DEF MadeOK

LEMMA VictimSame ==
    ASSUME VictimOK, TypeOK, SameTasks, victim' = victim,
           \A t \in Slots : t \in UnderConstruction => t \in UnderConstruction',
           pc'[Boot] = "kill" => pc[Boot] = "kill"
    PROVE  VictimOK'
<1>1. Offset(victim) \in Slots
  BY TypesAre, TaskIDs
<1> QED  BY <1>1 DEF VictimOK, Exists, SameTasks

-----------------------------------------------------------------------------
\* Switching tasks

\* The facts about flags and places that the steps use.
LEMMA PlaceIs ==
    ASSUME NEW at \in [Slots -> Places], PlaceOK(at), NEW s \in Slots
    PROVE  /\ at[s] = Out \/ at[s] = Waiting \/ at[s] \in Priority
           /\ at[s] # Out =>
                /\ tcb[s].gen # 0 /\ s # running /\ s # reaped
                /\ s \notin UnderConstruction
           /\ at[s] = Waiting => tcb[s].end
           /\ at[s] \in Priority /\ ~tcb[s].end => tcb[s].prio = at[s]
<1>1. at[s] \in Places
  OBVIOUS
<1> QED  BY <1>1, PlacesAre DEF PlaceOK

\* A task goes back to the list its flags name.
LEMMA ArrangedBack ==
    ASSUME FlagsOK, NEW q, NEW at \in [Slots -> Places], Arranged(q, at),
           NEW s \in Slots, at[s] = Out
    PROVE  \E new \in [Slots -> Places] :
              /\ Arranged(PutBack(q, s), new)
              /\ Moved(at, new, s, IF tcb[s].end THEN Waiting ELSE tcb[s].prio)
<1> DEFINE v == IF tcb[s].end THEN Waiting ELSE tcb[s].prio
           new == [at EXCEPT ![s] = v]
<1>1. v \in Places
  BY PlacesAre DEF FlagsOK
<1>2. Moved(at, new, s, v)
  BY <1>1, MovedIs
<1>3. new \in [Slots -> Places]
  BY <1>2 DEF Moved
<1> HIDE DEF new
<1>4. Arranged(PutBack(q, s), new)
  <2>1. CASE tcb[s].end
    BY <1>2, <2>1, ArrangedWait DEF PutBack
  <2>2. CASE ~tcb[s].end
    <3>1. tcb[s].prio \in Priority
      BY <2>2 DEF FlagsOK
    <3>2. PutBack(q, s) = AddTaskToReadyList(q, s, tcb[s].prio)
      BY <2>2 DEF PutBack
    <3>3. Moved(at, new, s, tcb[s].prio)
      BY <1>2, <2>2
    <3> DEFINE p == tcb[s].prio
    <3> HIDE DEF p
    <3>4. p \in Priority /\ Moved(at, new, s, p)
      BY <3>1, <3>3 DEF p
    <3>5. Arranged(AddTaskToReadyList(q, s, p), new)
      BY <3>4, ArrangedReady
    <3> QED  BY <3>2, <3>5 DEF p
  <2> QED  BY <2>1, <2>2
<1> QED  BY <1>2, <1>3, <1>4

\* The running task makes way for the one selected.
LEMMA SwitchHome ==
    ASSUME HInv, reaped = NULL, tcb' = tcb, made' = made, reaped' = reaped,
           NEW n, n = GetNextTaskToRun(lists), n.task # NULL,
           NEW called, NEW time, SwitchTo(n, called, time)
    PROVE  HomeOK'
<1>1. PICK at \in [Slots -> Places] : Arranged(lists, at) /\ PlaceOK(at)
  BY DEF HInv, HomeOK
<1>2. Selected(n, at)
  BY <1>1, ArrangedSelection
<1>3. n.task \in Slots /\ at[n.task] \in Priority
      /\ \A new : Moved(at, new, n.task, Out) => Arranged(n.q, new)
  BY <1>2 DEF Selected
<1> DEFINE mid == [at EXCEPT ![n.task] = Out]
<1>4. Moved(at, mid, n.task, Out) /\ mid \in [Slots -> Places]
  BY <1>3, MovedIs, PlacesAre DEF Moved
<1> HIDE DEF mid
<1>5. Arranged(n.q, mid)
  BY <1>3, <1>4
<1>6. running \in Slots /\ at[running] = Out /\ running # n.task /\ mid[running] = Out
  <2>1. running \in Slots
    BY TypesAre DEF HInv, IInv
  <2>2. at[running] = Out
    BY <1>1, <2>1 DEF PlaceOK
  <2> QED  BY <1>3, <1>4, <2>1, <2>2, PlacesAre DEF Moved
<1>7. PICK new \in [Slots -> Places] :
        /\ Arranged(PutBack(n.q, running), new)
        /\ Moved(mid, new, running, IF tcb[running].end THEN Waiting ELSE tcb[running].prio)
  BY <1>4, <1>5, <1>6, ArrangedBack DEF HInv
<1>8. lists' = PutBack(n.q, running) /\ running' = n.task
  BY DEF SwitchTo
<1>9. UnderConstruction' = UnderConstruction
  BY DEF UnderConstruction
<1>10. \A s \in Slots : /\ s # running /\ s # n.task => new[s] = at[s]
                        /\ s = n.task => new[s] = Out
                        /\ s = running =>
                             new[s] = IF tcb[s].end THEN Waiting ELSE tcb[s].prio
  BY <1>3, <1>4, <1>6, <1>7 DEF Moved
<1>11. PlaceOK(new)'
  <2>1. ASSUME NEW s \in Slots, s # running, s # n.task
        PROVE  /\ new[s] = at[s] /\ s # running' /\ s # reaped
               /\ (s \in UnderConstruction' <=> s \in UnderConstruction)
    BY <1>8, <1>9, <1>10, <2>1, SlotsAre
  <2>2. \A s \in Slots : s # reaped
    BY SlotsAre
  <2>3. \A s \in Slots : IF tcb[s].end THEN tcb[s].prio = WAIT ELSE tcb[s].prio \in Priority
    BY DEF HInv, FlagsOK
  <2> SUFFICES ASSUME NEW s \in Slots
               PROVE
    /\ tcb[s].gen = 0 =>
         new[s] = Out /\ s # running' /\ s # reaped /\ s \notin UnderConstruction
    /\ s = running' \/ s = reaped \/ s \in UnderConstruction => new[s] = Out
    /\ s \in UnderConstruction => s # running' /\ s # reaped
    /\ tcb[s].gen # 0 /\ new[s] = Out =>
         s = running' \/ s = reaped \/ s \in UnderConstruction
    /\ new[s] = Waiting => tcb[s].end
    /\ new[s] \in Priority /\ ~tcb[s].end => tcb[s].prio = new[s]
    /\ tcb[s].gen # 0 /\ s \notin UnderConstruction /\ tcb[s].end /\ tcb[s].kind = "process" =>
         \/ new[s] = Waiting \/ s = reaped
         \/ s = running' /\ pc'[s] \in {"ending", "ended"}
    BY <1>9 DEF PlaceOK
  <2>4. CASE s # running /\ s # n.task
    BY <1>1, <2>1, <2>4 DEF PlaceOK
  <2>5. CASE s = n.task
    BY <1>1, <1>3, <1>6, <1>8, <1>10, <2>2, <2>5, PlacesAre DEF PlaceOK
  <2>6. CASE s = running
    BY <1>1, <1>6, <1>8, <1>10, <2>2, <2>3, <2>6, PlacesAre DEF PlaceOK
  <2> QED  BY <2>4, <2>5, <2>6
<1> QED  BY <1>7, <1>8, <1>11 DEF HomeOK

\* Nobody moves, and the running task does not turn from ending to running.
LEMMA StayHome ==
    ASSUME NEW at \in [Slots -> Places], PlaceOK(at), (Arranged(lists, at))',
           UNCHANGED <<tcb, made, running, reaped>>,
           pc[running] \in {"ending", "ended"} => pc'[running] \in {"ending", "ended"}
    PROVE  HomeOK'
<1>1. UnderConstruction' = UnderConstruction
  BY DEF UnderConstruction
<1>2. PlaceOK(at)'
  BY <1>1 DEF PlaceOK
<1> QED  BY <1>2 DEF HomeOK

\* The lists after a selection that found nobody, or none at all.
LEMMA NobodyHome ==
    ASSUME HInv, UNCHANGED <<tcb, made, running, reaped>>,
           lists' \in {lists, GetNextTaskToRun(lists).q},
           lists' = lists \/ GetNextTaskToRun(lists).task = NULL,
           pc[running] \in {"ending", "ended"} => pc'[running] \in {"ending", "ended"}
    PROVE  HomeOK'
<1>1. PICK at \in [Slots -> Places] : Arranged(lists, at) /\ PlaceOK(at)
  BY DEF HInv, HomeOK
<1>2. Selected(GetNextTaskToRun(lists), at)
  BY <1>1, ArrangedSelection
<1>3. Arranged(lists', at)
  <2>1. CASE lists' = lists
    BY <1>1, <2>1
  <2>2. CASE lists' # lists
    <3>1. GetNextTaskToRun(lists).task = NULL /\ lists' = GetNextTaskToRun(lists).q
      BY <2>2
    <3>2. Arranged(GetNextTaskToRun(lists).q, at)
      BY <1>2, <3>1, SlotsAre DEF Selected
    <3> QED  BY <3>1, <3>2
  <2> QED  BY <2>1, <2>2
<1>4. (Arranged(lists, at))'
  BY <1>3 DEF Arranged
<1> QED  BY <1>1, <1>4, StayHome

\* What all steps that only switch tasks, or may, have in common.
LEMMA SwitchingHInv ==
    ASSUME HInv, IInv', HomeOK', UNCHANGED <<tcb, family, made, victim, reaped, iAllocatedCount>>,
           reaped = NULL,
           \A c \in Slots : pc'[c] = pc[c] \/ ~(Creating(pc[c]) \/ Creating(pc'[c])),
           pc'[Boot] = "kill" => pc[Boot] = "kill",
           pc'[Idle] # "endChildren"
    PROVE  HInv'
<1>1. SameTasks
  BY DEF SameTasks
<1>2. TypeOK
  BY DEF HInv, IInv
<1>3. UnderConstruction' = UnderConstruction
  BY DEF UnderConstruction
<1>4. FlagsOK'
  BY DEF HInv, FlagsOK
<1>5. ReapedOK'
  BY DEF ReapedOK
<1>6. MadeOK'
  BY <1>1, MadeSame DEF HInv
<1>7. FamilyOK'
  BY <1>1, <1>2, FamilySame DEF HInv
<1>8. BootOK'
  BY <1>1, BootSame DEF HInv
<1>9. VictimOK'
  BY <1>1, <1>2, <1>3, VictimSame DEF HInv
<1> QED  BY <1>4, <1>5, <1>6, <1>7, <1>8, <1>9 DEF HInv

LEMMA ScheduleHInv ==
    ASSUME HInv,
           NEW from \in {"run", "ending", "yield"}, NEW to \in {"run", "ended", "reap"},
           from = "ending" => to = "ended", Schedule(from, to)
    PROVE  HInv'
<1> DEFINE n == GetNextTaskToRun(lists)
<1>1. IInv'
  BY ScheduleIInv DEF HInv, PCs
<1>2. /\ pc[running] = from /\ pc' = [pc EXCEPT ![running] = to]
      /\ UNCHANGED <<tcb, family, iAllocatedCount, made, victim, reaped>>
      /\ \/ /\ n.task = NULL
            /\ lists' = IF NobodyReady THEN lists ELSE n.q
            /\ UNCHANGED <<running, inCall, iProcessorTime>>
         \/ n.task # NULL /\ SwitchTo(n, TRUE, iProcessorTime)
  BY DEF Schedule, family, pool, idling
<1> HIDE DEF n
<1>3. reaped = NULL
  BY <1>2 DEF HInv, ReapedOK
<1>4. HomeOK'
  <2>1. CASE n.task = NULL
    <3>1. UNCHANGED <<running, made, tcb, reaped>> /\ lists' \in {lists, n.q}
      BY <1>2, <2>1
    <3>2. pc[running] \in {"ending", "ended"} => pc'[running] \in {"ending", "ended"}
      BY <1>2, TypesAre DEF HInv, IInv, TypeOK
    <3> QED  BY <2>1, <3>1, <3>2, NobodyHome DEF n
  <2>2. CASE n.task # NULL
    BY <1>2, <1>3, <2>2, SwitchHome DEF n
  <2> QED  BY <2>1, <2>2
<1>5. \A c \in Slots : IF c = running THEN pc[c] = from /\ pc'[c] = to ELSE pc'[c] = pc[c]
  BY <1>2 DEF HInv, IInv, TypeOK
<1>6. \A c \in Slots : pc'[c] = pc[c] \/ ~(Creating(pc[c]) \/ Creating(pc'[c]))
  <2>1. from \notin {"setUp", "enqueue"} /\ to \notin {"setUp", "enqueue"}
    OBVIOUS
  <2> QED  BY <1>5, <2>1 DEF Creating
<1>7. pc'[Boot] = "kill" => pc[Boot] = "kill"
  BY <1>5, SlotsAre
<1>8. pc'[Idle] # "endChildren"
  BY <1>3, <1>5, SlotsAre DEF HInv, ReapedOK
<1> QED  BY <1>1, <1>2, <1>3, <1>4, <1>6, <1>7, <1>8, SwitchingHInv

LEMMA TickHInv == HInv /\ Tick => HInv'
<1> SUFFICES ASSUME HInv, Tick PROVE HInv'
  OBVIOUS
<1>1. IInv'
  BY TickIInv DEF HInv
<1>2. PICK time \in {Decreased(iProcessorTime)}, n \in {GetNextTaskToRun(lists)} :
        \/ time > 0 /\ iProcessorTime' = time /\ UNCHANGED <<lists, running, inCall>>
        \/ /\ time <= 0 /\ n.task = NULL
           /\ lists' = n.q /\ iProcessorTime' = time
           /\ UNCHANGED <<running, inCall>>
        \/ time <= 0 /\ n.task # NULL /\ SwitchTo(n, FALSE, time)
  BY DEF Tick
<1>3. pc[running] # "endChildren"
      /\ UNCHANGED <<tcb, family, iAllocatedCount, pc, made, victim, reaped>>
  BY DEF Tick, pool, idling
<1>4. reaped = NULL
  BY <1>3 DEF HInv, ReapedOK
<1>5. HomeOK'
  <2>1. CASE n.task # NULL /\ SwitchTo(n, FALSE, time)
    BY <1>2, <1>3, <1>4, <2>1, SwitchHome
  <2>2. CASE ~(n.task # NULL /\ SwitchTo(n, FALSE, time))
    <3>1. UNCHANGED <<running, made, tcb, reaped>> /\ lists' \in {lists, n.q}
          /\ (lists' = lists \/ n.task = NULL)
      BY <1>2, <1>3, <2>2
    <3> QED  BY <1>2, <1>3, <3>1, NobodyHome
  <2> QED  BY <2>1, <2>2
<1>6. pc'[Idle] # "endChildren"
  BY <1>3, <1>4 DEF HInv, ReapedOK
<1>7. \A c \in Slots : pc'[c] = pc[c] \/ ~(Creating(pc[c]) \/ Creating(pc'[c]))
  BY <1>3
<1>8. pc'[Boot] = "kill" => pc[Boot] = "kill"
  BY <1>3
<1> QED  BY <1>1, <1>3, <1>4, <1>5, <1>6, <1>7, <1>8, SwitchingHInv

-----------------------------------------------------------------------------
\* Ending tasks

\* What ending the task of slot v does to the flags.
Ended(v) ==
    /\ SameTasks
    /\ \A t \in Slots : IF t = v THEN tcb'[t].end /\ tcb'[t].prio = WAIT
                        ELSE /\ tcb'[t].end <=> tcb[t].end
                             /\ tcb'[t].prio = tcb[t].prio

LEMMA EndFlags ==
    ASSUME TypeOK, NEW v \in Slots,
           tcb' = [tcb EXCEPT ![v].end = TRUE, ![v].prio = WAIT]
    PROVE  Ended(v)
<1>1. ASSUME NEW t \in Slots, t # v PROVE tcb'[t] = tcb[t]
  BY <1>1 DEF TypeOK
<1>2. tcb'[v] = [tcb[v] EXCEPT !.end = TRUE, !.prio = WAIT]
  BY DEF TypeOK
<1>3. tcb[v] \in TCBType
  BY DEF TypeOK
<1>4. /\ tcb'[v].end /\ tcb'[v].prio = WAIT /\ tcb'[v].gen = tcb[v].gen
      /\ tcb'[v].parent = tcb[v].parent /\ tcb'[v].kind = tcb[v].kind
  <2> DEFINE old == tcb[v]
             first == [old EXCEPT !.end = TRUE]
  <2>1. tcb'[v] = [first EXCEPT !.prio = WAIT]
    BY <1>2
  <2>2. old \in TCBType
    BY <1>3
  <2> HIDE DEF old
  <2>3. /\ first \in TCBType /\ first.end /\ first.gen = old.gen
        /\ first.parent = old.parent /\ first.kind = old.kind
    BY <2>2 DEF TCBType
  <2> HIDE DEF first
  <2>4. /\ [first EXCEPT !.prio = WAIT].end /\ [first EXCEPT !.prio = WAIT].prio = WAIT
        /\ [first EXCEPT !.prio = WAIT].gen = first.gen
        /\ [first EXCEPT !.prio = WAIT].parent = first.parent
        /\ [first EXCEPT !.prio = WAIT].kind = first.kind
    BY <2>3 DEF TCBType
  <2> QED  BY <2>1, <2>3, <2>4 DEF old
<1> QED  BY <1>1, <1>4 DEF Ended, SameTasks

LEMMA EndedFlagsOK ==
    ASSUME FlagsOK, NEW v \in Slots, v # Boot, v # Idle, Ended(v)
    PROVE  FlagsOK'
BY SlotsAre DEF FlagsOK, Ended

\* kEndTask of a task that lives elsewhere than on the processor moves it to the
\* wait list, unless it is there or on its way.
LEMMA EndTaskHome ==
    ASSUME HInv, NEW id \in TaskID, id[1] # 0, EndTask(id),
           Offset(id) # running, Offset(id) # reaped, Offset(id) \notin UnderConstruction,
           \/ Exists(id) \/ tcb[Offset(id)].gen = 0 \/ tcb[Offset(id)].kind # "process",
           UNCHANGED <<made, running, reaped>>,
           pc[running] \in {"ending", "ended"} => pc'[running] \in {"ending", "ended"}
    PROVE  HomeOK' /\ Ended(Offset(id))
<1> DEFINE v == Offset(id)
           r == RemoveTaskFromReadyList(lists, id)
<1>1. PICK at \in [Slots -> Places] : Arranged(lists, at) /\ PlaceOK(at)
  BY DEF HInv, HomeOK
<1>2. v \in Slots
  BY TaskIDs
<1>3. TypeOK
  BY DEF HInv, IInv
<1>4. Ended(v)
  BY <1>2, <1>3, EndFlags DEF EndTask
<1>5. lists' = IF r.node = NULL THEN r.q ELSE AddToWait(r.q, r.node)
  BY DEF EndTask
<1>6. UnderConstruction' = UnderConstruction
  BY DEF UnderConstruction
<1>7. CASE Exists(id) /\ at[v] \in Priority /\ ~tcb[v].end
  <2> DEFINE mid == [at EXCEPT ![v] = Out]
             new == [at EXCEPT ![v] = Waiting]
  <2>1. /\ Moved(at, mid, v, Out) /\ mid \in [Slots -> Places] /\ mid[v] = Out
        /\ Moved(at, new, v, Waiting) /\ Moved(mid, new, v, Waiting)
        /\ new \in [Slots -> Places]
    BY <1>2, MovedIs, PlacesAre DEF Moved
  <2> HIDE DEF mid, new
  <2>2. at[v] = tcb[v].prio
    BY <1>1, <1>2, <1>7, PlaceIs
  <2>3. r.node = v /\ Arranged(r.q, mid)
    BY <1>1, <1>7, <2>1, <2>2, ArrangedRemove
  <2>4. Arranged(AddToWait(r.q, v), new)
    BY <1>2, <2>1, <2>3, ArrangedWait
  <2>5. lists' = AddToWait(r.q, v)
    BY <1>2, <1>5, <2>3, SlotsAre
  <2>6. \A s \in Slots : IF s = v THEN new[s] = Waiting ELSE new[s] = at[s]
    BY <2>1 DEF Moved
  <2>7. PlaceOK(new)'
    <3> HIDE DEF v
    <3> SUFFICES ASSUME NEW s \in Slots
                 PROVE
      /\ tcb[s].gen = 0 =>
           new[s] = Out /\ s # running /\ s # reaped /\ s \notin UnderConstruction
      /\ s = running \/ s = reaped \/ s \in UnderConstruction => new[s] = Out
      /\ s \in UnderConstruction => s # running /\ s # reaped
      /\ tcb[s].gen # 0 /\ new[s] = Out =>
           s = running \/ s = reaped \/ s \in UnderConstruction
      /\ new[s] = Waiting => tcb'[s].end
      /\ new[s] \in Priority /\ ~tcb'[s].end => tcb'[s].prio = new[s]
      /\ tcb[s].gen # 0 /\ s \notin UnderConstruction /\ tcb'[s].end
           /\ tcb[s].kind = "process" =>
           \/ new[s] = Waiting \/ s = reaped
           \/ s = running /\ pc'[s] \in {"ending", "ended"}
      BY <1>4, <1>6 DEF PlaceOK, Ended, SameTasks
    <3>1. CASE s = v
      BY <1>1, <1>2, <1>4, <1>7, <2>6, <3>1, PlacesAre, PlaceIs DEF Ended, v
    <3>2. CASE s # v
      BY <1>1, <1>4, <2>6, <3>2 DEF PlaceOK, Ended
    <3> QED  BY <3>1, <3>2
  <2> QED  BY <1>4, <2>1, <2>4, <2>5, <2>7 DEF HomeOK, Arranged
<1>8. CASE ~(Exists(id) /\ at[v] \in Priority /\ ~tcb[v].end)
  <2>1. r.node = NULL /\ r.q = lists
    <3>1. ~Exists(id) \/ tcb[v].prio \notin Priority
      <4>1. CASE Exists(id) /\ ~tcb[v].end
        <5>1. tcb[v].gen # 0
          BY <4>1 DEF Exists
        <5>2. at[v] # Out
          BY <1>1, <1>2, <5>1 DEF PlaceOK
        <5> QED  BY <1>1, <1>2, <1>8, <4>1, <5>2, PlaceIs
      <4>2. CASE tcb[v].end
        BY <1>2, <4>2, PlacesAre DEF HInv, FlagsOK
      <4> QED  BY <4>1, <4>2
    <3> QED  BY <3>1 DEF RemoveTaskFromReadyList
  <2>2. lists' = lists
    BY <1>5, <2>1
  <2>3. at[v] = Waiting \/ at[v] = Out \/ tcb[v].end \/ tcb[v].gen = 0
        \/ tcb[v].kind # "process"
    BY <1>1, <1>2, <1>8, PlaceIs
  <2>4. PlaceOK(at)'
    <3> HIDE DEF v, r
    <3> SUFFICES ASSUME NEW s \in Slots
                 PROVE
      /\ tcb[s].gen = 0 =>
           at[s] = Out /\ s # running /\ s # reaped /\ s \notin UnderConstruction
      /\ s = running \/ s = reaped \/ s \in UnderConstruction => at[s] = Out
      /\ s \in UnderConstruction => s # running /\ s # reaped
      /\ tcb[s].gen # 0 /\ at[s] = Out =>
           s = running \/ s = reaped \/ s \in UnderConstruction
      /\ at[s] = Waiting => tcb'[s].end
      /\ at[s] \in Priority /\ ~tcb'[s].end => tcb'[s].prio = at[s]
      /\ tcb[s].gen # 0 /\ s \notin UnderConstruction /\ tcb'[s].end
           /\ tcb[s].kind = "process" =>
           \/ at[s] = Waiting \/ s = reaped
           \/ s = running /\ pc'[s] \in {"ending", "ended"}
      BY <1>4, <1>6 DEF PlaceOK, Ended, SameTasks
    <3>1. CASE s = v
      <4>1. s # running /\ s # reaped /\ s \notin UnderConstruction
        BY <3>1 DEF v
      <4> QED  BY <1>1, <1>4, <2>3, <3>1, <4>1 DEF PlaceOK, Ended
    <3>2. CASE s # v
      BY <1>1, <1>4, <3>2 DEF PlaceOK, Ended
    <3> QED  BY <3>1, <3>2
  <2> QED  BY <1>1, <1>4, <2>2, <2>4 DEF HomeOK, Arranged
<1> QED  BY <1>7, <1>8

LEMMA ExitTaskHInv == HInv /\ ExitTask => HInv'
<1> SUFFICES ASSUME HInv, ExitTask PROVE HInv'
  OBVIOUS
<1>1. IInv' /\ TypeOK
  BY ExitTaskIInv DEF HInv, IInv
<1>2. /\ running \in Slots /\ running # Boot /\ running # Idle /\ pc[running] = "run"
      /\ tcb' = [tcb EXCEPT ![running].end = TRUE, ![running].prio = WAIT]
      /\ UNCHANGED <<lists, family, running, iAllocatedCount, made, victim, reaped>>
  BY <1>1, TypesAre DEF ExitTask, pool, idling
<1>3. \A c \in Slots : pc'[c] = IF c = running THEN "ending" ELSE pc[c]
  BY <1>1 DEF ExitTask, TypeOK
<1>4. reaped = NULL
  BY <1>2 DEF HInv, ReapedOK
<1>5. Ended(running) /\ SameTasks
  BY <1>1, <1>2, EndFlags DEF Ended
<1>6. UnderConstruction' = UnderConstruction
  BY <1>2 DEF UnderConstruction
<1>7. PICK at \in [Slots -> Places] : Arranged(lists, at) /\ PlaceOK(at)
  BY DEF HInv, HomeOK
<1>8. running \notin UnderConstruction /\ at[running] = Out
  BY <1>2, <1>7 DEF PlaceOK
<1>9. PlaceOK(at)'
  <2> SUFFICES ASSUME NEW s \in Slots
               PROVE
    /\ tcb[s].gen = 0 =>
         at[s] = Out /\ s # running /\ s # reaped /\ s \notin UnderConstruction
    /\ s = running \/ s = reaped \/ s \in UnderConstruction => at[s] = Out
    /\ s \in UnderConstruction => s # running /\ s # reaped
    /\ tcb[s].gen # 0 /\ at[s] = Out =>
         s = running \/ s = reaped \/ s \in UnderConstruction
    /\ at[s] = Waiting => tcb'[s].end
    /\ at[s] \in Priority /\ ~tcb'[s].end => tcb'[s].prio = at[s]
    /\ tcb[s].gen # 0 /\ s \notin UnderConstruction /\ tcb'[s].end
         /\ tcb[s].kind = "process" =>
         \/ at[s] = Waiting \/ s = reaped
         \/ s = running /\ pc'[s] \in {"ending", "ended"}
    BY <1>2, <1>5, <1>6 DEF PlaceOK, SameTasks
  <2>1. CASE s = running
    BY <1>3, <1>5, <1>7, <1>8, <2>1, PlacesAre DEF PlaceOK, Ended
  <2>2. CASE s # running
    BY <1>5, <1>7, <2>2 DEF PlaceOK, Ended
  <2> QED  BY <2>1, <2>2
<1>10. HomeOK'
  BY <1>2, <1>7, <1>9 DEF HomeOK, Arranged
<1>11. FlagsOK'
  BY <1>2, <1>5, EndedFlagsOK DEF HInv
<1>12. ReapedOK'
  BY <1>2, <1>3, <1>4, SlotsAre DEF HInv, ReapedOK
<1>13. MadeOK'
  <2>1. \A c \in Slots : pc'[c] = pc[c] \/ ~(Creating(pc[c]) \/ Creating(pc'[c]))
    BY <1>2, <1>3 DEF Creating
  <2>2. \A s \in Slots : ~tcb[s].end /\ tcb'[s].end => s = running
    BY <1>5 DEF Ended
  <2>3. ~Creating(pc[running])
    BY <1>2 DEF Creating
  <2> QED  BY <1>2, <1>5, <1>8, <2>1, <2>2, <2>3, MadeSame DEF HInv
<1>14. FamilyOK' /\ BootOK'
  BY <1>1, <1>2, <1>5, FamilySame, BootSame DEF HInv
<1>15. VictimOK'
  <2>1. pc'[Boot] = pc[Boot]
    BY <1>2, <1>3, SlotsAre
  <2> QED  BY <1>1, <1>2, <1>5, <1>6, <2>1, VictimSame DEF HInv
<1> QED  BY <1>1, <1>10, <1>11, <1>12, <1>13, <1>14, <1>15 DEF HInv

LEMMA KillReadHInv == ASSUME NEW s \in Slots PROVE HInv /\ KillRead(s) => HInv'
<1> SUFFICES ASSUME HInv, KillRead(s) PROVE HInv'
  OBVIOUS
<1>1. IInv' /\ TypeOK
  BY KillReadIInv DEF HInv, IInv
<1>2. /\ running = Boot /\ pc[Boot] = "run" /\ tcb[s].gen # 0 /\ s # Boot /\ s # Idle
      /\ victim' = ID(s)
      /\ UNCHANGED <<tcb, lists, family, running, iAllocatedCount, made, reaped>>
  BY DEF KillRead, ShellIsUp, pool, idling
<1>3. \A c \in Slots : pc'[c] = IF c = Boot THEN "kill" ELSE pc[c]
  BY <1>1 DEF KillRead, TypeOK
<1>4. SameTasks
  BY <1>2 DEF SameTasks
<1>5. UnderConstruction' = UnderConstruction
  BY <1>2 DEF UnderConstruction
<1>6. HomeOK'
  <2>1. PICK at \in [Slots -> Places] : Arranged(lists, at) /\ PlaceOK(at)
    BY DEF HInv, HomeOK
  <2>2. (Arranged(lists, at))'
    BY <1>2, <2>1 DEF Arranged
  <2> QED  BY <1>2, <2>1, <2>2, StayHome
<1>7. FlagsOK'
  BY <1>2 DEF HInv, FlagsOK
<1>8. ReapedOK'
  BY <1>2, <1>3, SlotsAre DEF HInv, ReapedOK
<1>9. MadeOK'
  <2>1. \A c \in Slots : pc'[c] = pc[c] \/ ~(Creating(pc[c]) \/ Creating(pc'[c]))
    BY <1>2, <1>3 DEF Creating
  <2>2. \A t \in Slots : tcb'[t].end <=> tcb[t].end
    BY <1>2
  <2> QED  BY <1>2, <1>4, <2>1, <2>2, MadeSame DEF HInv
<1>10. FamilyOK' /\ BootOK'
  BY <1>1, <1>2, <1>4, FamilySame, BootSame DEF HInv
<1>11. VictimOK'
  <2>1. Offset(victim') = s /\ victim'[1] = tcb[s].gen
    BY <1>2 DEF Offset, ID
  <2> QED  BY <1>2, <2>1 DEF VictimOK, Exists
<1> QED  BY <1>1, <1>6, <1>7, <1>8, <1>9, <1>10, <1>11 DEF HInv

LEMMA KillEndHInv == HInv /\ ~KillInCreate /\ KillEnd => HInv'
<1> SUFFICES ASSUME HInv, ~KillInCreate, KillEnd PROVE HInv'
  OBVIOUS
<1> DEFINE v == Offset(victim)
<1>1. IInv' /\ TypeOK
  BY KillEndIInv DEF HInv, IInv
<1>2. /\ running = Boot /\ pc[Boot] = "kill" /\ Killable(v) /\ EndTask(victim)
      /\ UNCHANGED <<family, running, iAllocatedCount, made, reaped>>
  BY DEF KillEnd, pool, idling
<1>3. \A c \in Slots : pc'[c] = IF c = Boot THEN "run" ELSE pc[c]
  BY <1>1 DEF KillEnd, TypeOK
<1>4. /\ v \in Slots /\ victim \in TaskID /\ v # Boot /\ v # Idle /\ victim[1] # 0
      /\ tcb[v].gen # 0 /\ ~Exists(victim) /\ v \notin UnderConstruction
            => tcb[v].kind = "thread"
  BY <1>1, <1>2, TypesAre, TaskIDs DEF HInv, VictimOK
<1>5. made[v] = Nothing /\ v \notin UnderConstruction
  BY <1>2 DEF Killable
<1>6. reaped = NULL
  BY <1>2, SlotsAre DEF HInv, ReapedOK
<1>7. HomeOK' /\ Ended(v)
  <2>1. v # running /\ v # reaped
    BY <1>2, <1>4, <1>6, SlotsAre
  <2>2. Exists(victim) \/ tcb[v].gen = 0 \/ tcb[v].kind # "process"
    BY <1>4, <1>5
  <2>3. pc[running] \notin {"ending", "ended"}
    BY <1>2
  <2> QED  BY <1>2, <1>4, <1>5, <2>1, <2>2, <2>3, EndTaskHome
<1> HIDE DEF v
<1>8. SameTasks
  BY <1>7 DEF Ended
<1>9. FlagsOK'
  BY <1>4, <1>7, EndedFlagsOK DEF HInv
<1>10. ReapedOK'
  BY <1>2, <1>3, <1>6, SlotsAre DEF HInv, ReapedOK
<1>11. MadeOK'
  <2>1. \A c \in Slots : pc'[c] = pc[c] \/ ~(Creating(pc[c]) \/ Creating(pc'[c]))
    BY <1>2, <1>3 DEF Creating
  <2>2. \A s \in Slots : ~tcb[s].end /\ tcb'[s].end => s = v
    BY <1>7 DEF Ended
  <2>3. ~Creating(pc[v])
    <3>1. made[v].slot = NULL
      BY <1>5 DEF Nothing
    <3> QED  BY <1>4, <3>1, SlotsAre DEF HInv, MadeOK, MakesOK, Creating
  <2> QED  BY <1>2, <1>5, <1>8, <2>1, <2>2, <2>3, MadeSame DEF HInv
<1>12. FamilyOK' /\ BootOK'
  BY <1>1, <1>2, <1>8, FamilySame, BootSame DEF HInv
<1>13. VictimOK'
  BY <1>3, SlotsAre DEF VictimOK
<1> QED  BY <1>1, <1>7, <1>9, <1>10, <1>11, <1>12, <1>13 DEF HInv

-----------------------------------------------------------------------------
\* The remaining steps, one by one

\* The task that changes lists, when it is not the running one.
LEMMA ChangePriorityHome ==
    ASSUME HInv, NEW id \in TaskID, NEW prio \in Priority, Exists(id), id[1] # 0,
           Offset(id) # running, Offset(id) # reaped, Offset(id) \notin UnderConstruction,
           ~tcb[Offset(id)].end, NEW at \in [Slots -> Places], Arranged(lists, at), PlaceOK(at)
    PROVE  LET r == RemoveTaskFromReadyList(lists, id)
               new == [at EXCEPT ![Offset(id)] = prio]
           IN  /\ r.node = Offset(id) /\ at[Offset(id)] # Out
               /\ Arranged(AddTaskToReadyList(r.q, r.node, prio), new)
               /\ new \in [Slots -> Places]
<1> DEFINE v == Offset(id)
           r == RemoveTaskFromReadyList(lists, id)
           mid == [at EXCEPT ![v] = Out]
           new == [at EXCEPT ![v] = prio]
<1>1. v \in Slots /\ tcb[v].gen # 0
  BY TaskIDs DEF Exists
<1>2. at[v] \in Priority /\ at[v] = tcb[v].prio
  <2>1. at[v] # Out
    BY <1>1 DEF PlaceOK
  <2> QED  BY <1>1, <2>1, PlaceIs
<1>3. /\ Moved(at, mid, v, Out) /\ mid \in [Slots -> Places] /\ mid[v] = Out
      /\ Moved(mid, new, v, prio) /\ new \in [Slots -> Places]
  BY <1>1, MovedIs, PlacesAre DEF Moved
<1> HIDE DEF mid, new
<1>4. r.node = v /\ Arranged(r.q, mid)
  BY <1>2, <1>3, ArrangedRemove
<1> HIDE DEF v, r
<1>5. Arranged(AddTaskToReadyList(r.q, v, prio), new)
  BY <1>1, <1>3, <1>4, ArrangedReady
<1> QED  BY <1>2, <1>3, <1>4, <1>5, PlacesAre DEF v, r, new

LEMMA ChangePriorityHInv ==
    ASSUME NEW g \in Nat, g # 0, NEW s \in Slots, NEW prio \in Priority
    PROVE  HInv /\ ChangePriority(<<g, s>>, prio) => HInv'
<1> SUFFICES ASSUME HInv, ChangePriority(<<g, s>>, prio) PROVE HInv'
  OBVIOUS
<1>0. prio \in Nat
  BY PlacesAre
<1>1. IInv' /\ TypeOK
  BY <1>0, ChangePriorityIInv, TaskIDs DEF HInv, IInv
<1> DEFINE id == <<g, s>>
           r == RemoveTaskFromReadyList(lists, id)
<1>2. id \in TaskID /\ Offset(id) = s /\ id[1] = g
  BY TaskIDs
<1>3. /\ running = Boot /\ pc[Boot] = "run"
      /\ Exists(id) /\ ~tcb[s].end /\ s \notin UnderConstruction
      /\ tcb' = [tcb EXCEPT ![s].prio = prio]
      /\ UNCHANGED <<family, running, iAllocatedCount, pc, made, victim, reaped>>
  BY <1>2 DEF ChangePriority, ShellIsUp, pool, idling
<1>4. lists' = IF id = ID(running) THEN lists
               ELSE IF r.node = NULL THEN r.q ELSE AddTaskToReadyList(r.q, r.node, prio)
  BY DEF ChangePriority
<1>5. ID(s) = id
  BY <1>2, <1>3 DEF Exists, ID
<1>6. reaped = NULL
  BY <1>3, SlotsAre DEF HInv, ReapedOK
<1>7. \A t \in Slots : /\ tcb'[t].gen = tcb[t].gen /\ tcb'[t].parent = tcb[t].parent
                       /\ tcb'[t].kind = tcb[t].kind /\ (tcb'[t].end <=> tcb[t].end)
                       /\ tcb'[t].prio = IF t = s THEN prio ELSE tcb[t].prio
  <2> TAKE t \in Slots
  <2>1. CASE t # s
    BY <1>1, <1>3, <2>1 DEF TypeOK
  <2>2. CASE t = s
    <3>1. tcb'[t] = [tcb[t] EXCEPT !.prio = prio] /\ tcb[t] \in TCBType
      BY <1>1, <1>3, <2>2 DEF TypeOK
    <3> DEFINE old == tcb[t]
    <3> HIDE DEF old
    <3>2. /\ [old EXCEPT !.prio = prio].gen = old.gen
          /\ [old EXCEPT !.prio = prio].parent = old.parent
          /\ [old EXCEPT !.prio = prio].kind = old.kind
          /\ [old EXCEPT !.prio = prio].end = old.end
          /\ old \in TCBType => [old EXCEPT !.prio = prio].prio = prio
      BY DEF TCBType
    <3> QED  BY <2>2, <3>1, <3>2 DEF old
  <2> QED  BY <2>1, <2>2
<1>8. SameTasks
  BY <1>7 DEF SameTasks
<1>9. UnderConstruction' = UnderConstruction
  BY <1>3 DEF UnderConstruction
<1>10. PICK at \in [Slots -> Places] : Arranged(lists, at) /\ PlaceOK(at)
  BY DEF HInv, HomeOK
<1>11. \E new \in [Slots -> Places] :
          /\ Arranged(lists', new)
          /\ \A t \in Slots : t # s => new[t] = at[t]
          /\ IF s = running THEN new[s] = Out ELSE new[s] = prio /\ at[s] # Out
  <2>1. CASE s = running
    <3>1. lists' = lists
      BY <1>4, <1>5, <2>1
    <3>2. at[s] = Out
      BY <1>10, <2>1 DEF PlaceOK
    <3> QED  BY <1>10, <2>1, <3>1, <3>2
  <2>2. CASE s # running
    <3>1. id # ID(running)
      BY <2>2 DEF ID
    <3> DEFINE new == [at EXCEPT ![s] = prio]
    <3> HIDE DEF id, r
    <3>2. s # reaped
      BY <1>6, SlotsAre
    <3>3. LET x == RemoveTaskFromReadyList(lists, id)
               y == [at EXCEPT ![Offset(id)] = prio]
          IN  /\ x.node = Offset(id) /\ at[Offset(id)] # Out
              /\ Arranged(AddTaskToReadyList(x.q, x.node, prio), y)
              /\ y \in [Slots -> Places]
      BY <1>2, <1>3, <1>10, <2>2, <3>2, ChangePriorityHome
    <3>4. /\ r.node = s /\ at[s] # Out /\ new \in [Slots -> Places]
          /\ Arranged(AddTaskToReadyList(r.q, r.node, prio), new)
      BY <1>2, <3>3 DEF r
    <3>5. lists' = AddTaskToReadyList(r.q, r.node, prio)
      BY <1>4, <3>1, <3>4, SlotsAre
    <3>6. new[s] = prio /\ \A t \in Slots : t # s => new[t] = at[t]
      OBVIOUS
    <3> HIDE DEF new
    <3> QED  BY <2>2, <3>4, <3>5, <3>6
  <2> QED  BY <2>1, <2>2
<1>12. PICK new \in [Slots -> Places] :
          /\ Arranged(lists', new)
          /\ \A t \in Slots : t # s => new[t] = at[t]
          /\ IF s = running THEN new[s] = Out ELSE new[s] = prio /\ at[s] # Out
  BY <1>11
<1>13. PlaceOK(new)'
  <2> SUFFICES ASSUME NEW t \in Slots
               PROVE
    /\ tcb[t].gen = 0 =>
         new[t] = Out /\ t # running /\ t # reaped /\ t \notin UnderConstruction
    /\ t = running \/ t = reaped \/ t \in UnderConstruction => new[t] = Out
    /\ t \in UnderConstruction => t # running /\ t # reaped
    /\ tcb[t].gen # 0 /\ new[t] = Out =>
         t = running \/ t = reaped \/ t \in UnderConstruction
    /\ new[t] = Waiting => tcb[t].end
    /\ new[t] \in Priority /\ ~tcb[t].end => tcb'[t].prio = new[t]
    /\ tcb[t].gen # 0 /\ t \notin UnderConstruction /\ tcb[t].end
         /\ tcb[t].kind = "process" =>
         \/ new[t] = Waiting \/ t = reaped
         \/ t = running /\ pc[t] \in {"ending", "ended"}
    BY <1>3, <1>7, <1>9 DEF PlaceOK
  <2>1. CASE t # s
    BY <1>7, <1>10, <1>12, <2>1 DEF PlaceOK
  <2>2. CASE t = s
    <3>1. t # reaped /\ ~tcb[t].end /\ t \notin UnderConstruction
      BY <1>3, <1>6, <2>2, SlotsAre
    <3>2. tcb[t].gen # 0
      BY <1>5, <2>2 DEF ID
    <3> QED  BY <1>7, <1>12, <2>2, <3>1, <3>2, PlacesAre
  <2> QED  BY <2>1, <2>2
<1>14. HomeOK'
  <2>1. (Arranged(lists, new))'
    BY <1>12 DEF Arranged
  <2> QED  BY <1>13, <2>1 DEF HomeOK
<1>15. FlagsOK'
  BY <1>3, <1>7, SlotsAre DEF HInv, FlagsOK
<1>16. ReapedOK'
  BY <1>3, <1>6, SlotsAre DEF HInv, ReapedOK
<1>17. MadeOK'
  BY <1>3, <1>7, <1>8, MadeSame DEF HInv
<1>18. FamilyOK' /\ BootOK'
  BY <1>1, <1>3, <1>8, FamilySame, BootSame DEF HInv
<1>19. VictimOK'
  BY <1>1, <1>3, <1>8, <1>9, VictimSame DEF HInv
<1> QED  BY <1>1, <1>14, <1>15, <1>16, <1>17, <1>18, <1>19 DEF HInv

\* No thread is the child of two processes.
LEMMA KidsApart ==
    ASSUME NEW p \in Slots, NEW s \in Slots, p # s
    PROVE  \A y \in Kids(s) : y \in Slots /\ y \notin Kids(p)
BY DEF Kids, ThreadOf, ID

\* Who is a child of a process that has ended.
LEMMA EndedKid ==
    ASSUME HInv, NEW p \in Slots, tcb[p].end, tcb[p].kind = "process", NEW t \in Kids(p)
    PROVE  /\ t \in Slots /\ t \notin UnderConstruction /\ tcb[t].kind = "thread"
           /\ t # Boot /\ t # Idle /\ t # p /\ tcb[t].gen # 0 /\ ~Creating(pc[t])
<1>1. t \in Slots /\ tcb[t].gen # 0 /\ tcb[t].parent = ID(p)
  BY DEF Kids, ThreadOf
<1>2. t \notin UnderConstruction
  <2> SUFFICES ASSUME t \in UnderConstruction PROVE FALSE
    OBVIOUS
  <2>1. PICK c \in Slots : made[c].slot = t
    BY <1>1, UnderConstructionIs
  <2>2. MakesOK(c, t)
    BY <1>1, <2>1, SlotsAre DEF HInv, MadeOK, Nothing
  <2>3. c = p
    BY <1>1, <2>2 DEF MakesOK, ID
  <2> QED  BY <2>2, <2>3 DEF MakesOK
<1>3. tcb[t].kind = "thread"
  BY <1>2 DEF Kids, ThreadOf
<1>4. t # Idle
  <2> SUFFICES ASSUME t = Idle PROVE FALSE
    OBVIOUS
  <2>1. ID(p) = <<1, Boot>>
    BY <1>1 DEF HInv, BootOK
  <2> QED  BY <2>1 DEF HInv, FlagsOK, ID
<1>5. t # Boot
  BY <1>3 DEF HInv, BootOK
<1>6. ~Creating(pc[t])
  BY <1>1, <1>3 DEF HInv, MadeOK, MakesOK, Creating
<1> QED  BY <1>1, <1>2, <1>3, <1>4, <1>5, <1>6

LEMMA EndChildHInv == HInv /\ EndChild => HInv'
<1> SUFFICES ASSUME HInv, EndChild PROVE HInv'
  OBVIOUS
<1> DEFINE out == RemoveListFromHeader(child[reaped], threadLink)
           t == out.node
           in == AddListToTail(out.list, out.next, t)
           K == Kids(reaped)
<1>1. IInv' /\ TypeOK
  BY EndChildIInv DEF HInv, IInv
<1>2. /\ running = Idle /\ pc[Idle] = "endChildren" /\ t # NULL
      /\ child' = [child EXCEPT ![reaped] = in.list] /\ threadLink' = in.next
      /\ EndTask(ID(t))
      /\ UNCHANGED <<running, iAllocatedCount, made, victim, reaped>>
  BY DEF EndChild, IdleGoto, HasChild, pool
<1>3. pc' = pc
  BY <1>1, SlotsAre DEF EndChild, IdleGoto, TypeOK
<1>4. /\ reaped \in Slots /\ tcb[reaped].end /\ tcb[reaped].kind = "process"
      /\ child[reaped] \in ListType /\ threadLink \in LinkType
      /\ Holds(child[reaped], threadLink, K)
  <2>1. reaped \in Slots
    BY <1>2 DEF HInv, IInv
  <2>2. tcb[reaped].end /\ tcb[reaped].kind = "process"
    BY <1>2 DEF HInv, ReapedOK
  <2> QED  BY <1>1, <2>1, <2>2, TypesAre DEF HInv, FamilyOK
<1>5. out \in RemovalType
  BY <1>4, RemoveListFromHeaderType
<1>6. /\ t \in K
      /\ \A T : Without(K, t, T) => Holds(out.list, out.next, T)
      /\ \A y \in Slots : y \notin K => out.next[y] = threadLink[y]
  <2> DEFINE l == child[reaped]
             next == threadLink
  <2>1. Holds(l, next, K) /\ next \in LinkType
    BY <1>4
  <2> HIDE DEF l, next, K
  <2> DEFINE h == RemoveListFromHeader(l, next)
  <2>2. /\ \A T : Without(K, h.node, T) => Holds(h.list, h.next, T)
        /\ \A y \in Slots : y \notin K => h.next[y] = next[y]
        /\ IF K = {} THEN h.node = NULL ELSE h.node \in K
    BY <2>1, HeaderHolds
  <2>3. out = h
    BY DEF l, next
  <2> HIDE DEF h, out
  <2> QED  BY <1>2, <2>2, <2>3 DEF next
<1>7. /\ t \in Slots /\ t \notin UnderConstruction /\ tcb[t].kind = "thread"
      /\ t # Boot /\ t # Idle /\ t # reaped /\ tcb[t].gen # 0 /\ ~Creating(pc[t])
  <2> HIDE DEF out
  <2> QED  BY <1>4, <1>6, EndedKid
<1>8. /\ Holds(in.list, in.next, K)
      /\ \A y \in Slots : y \notin K => in.next[y] = threadLink[y]
  <2> DEFINE l == out.list
             next == out.next
             rest == K \ {t}
  <2>1. /\ Holds(l, next, rest) /\ next \in LinkType /\ t \notin rest
        /\ With(rest, t, K) /\ Without(K, t, rest)
    <3>1. Without(K, t, rest) /\ With(rest, t, K)
      BY <1>6 DEF With, Without
    <3> QED  BY <1>5, <1>6, <3>1 DEF RemovalType
  <2> HIDE DEF l, next, rest, K, out
  <2> DEFINE i == AddListToTail(l, next, t)
  <2>2. /\ Holds(i.list, i.next, K)
        /\ \A y \in Slots : y # t /\ y \notin rest => i.next[y] = next[y]
    BY <1>7, <2>1, AddHolds
  <2>3. in = i
    BY DEF l, next
  <2>4. \A y \in Slots : y \notin K => y # t /\ y \notin rest
    BY <1>6 DEF rest
  <2> HIDE DEF i, in
  <2> QED  BY <1>6, <2>2, <2>3, <2>4 DEF next
<1> HIDE DEF out, in, K
<1>9. ID(t) \in TaskID /\ Offset(ID(t)) = t /\ ID(t)[1] # 0 /\ Exists(ID(t))
  <2>1. tcb[t].gen \in Nat
    BY <1>1, <1>7, TypesAre
  <2> QED  BY <1>7, <2>1, TaskIDs DEF ID, Exists
<1>10. HomeOK' /\ Ended(t)
  BY <1>2, <1>3, <1>7, <1>9, EndTaskHome
<1>11. SameTasks
  BY <1>10 DEF Ended
<1>12. /\ UnderConstruction' = UnderConstruction
       /\ \A s \in Slots : (ThreadLike(s))' <=> ThreadLike(s)
  BY <1>2, <1>11, SameMade
<1>13. FlagsOK'
  BY <1>7, <1>10, EndedFlagsOK DEF HInv
<1>14. ReapedOK'
  BY <1>2, <1>3, <1>4, <1>7, <1>10, <1>11, SlotsAre DEF HInv, ReapedOK, Ended, SameTasks
<1>15. MadeOK'
  <2>1. \A s \in Slots : ~tcb[s].end /\ tcb'[s].end => s = t
    BY <1>10 DEF Ended
  <2> QED  BY <1>2, <1>3, <1>7, <1>11, <2>1, MadeSame DEF HInv
<1>16. FamilyOK'
  <2>1. ASSUME NEW s \in Slots, tcb[s].kind = "process"
        PROVE  Holds(child'[s], threadLink', Kids(s))
    <3>1. CASE s = reaped
      <4>1. child'[s] = in.list
        BY <1>1, <1>2, <3>1 DEF TypeOK
      <4> QED  BY <1>2, <1>8, <3>1, <4>1 DEF K
    <3>2. CASE s # reaped
      <4>1. child'[s] = child[s]
        BY <1>1, <1>2, <3>2 DEF TypeOK
      <4>2. \A y \in Kids(s) : threadLink'[y] = threadLink[y]
        BY <1>2, <1>4, <1>8, <3>2, KidsApart DEF K
      <4>3. Holds(child[s], threadLink, Kids(s))
        BY <2>1 DEF HInv, FamilyOK
      <4> QED  BY <4>1, <4>2, <4>3, HoldsFrame
    <3> QED  BY <3>1, <3>2
  <2> QED  BY <1>1, <1>2, <1>11, <1>12, <2>1, FamilyKept DEF HInv
<1>17. BootOK'
  BY <1>11, BootSame DEF HInv
<1>18. VictimOK'
  BY <1>1, <1>2, <1>3, <1>11, <1>12, VictimSame DEF HInv
<1> QED  BY <1>1, <1>10, <1>13, <1>14, <1>15, <1>16, <1>17, <1>18 DEF HInv

LEMMA WaitForChildrenHInv == HInv /\ WaitForChildren => HInv'
<1> SUFFICES ASSUME HInv, WaitForChildren PROVE HInv'
  OBVIOUS
<1>1. IInv' /\ TypeOK
  BY WaitForChildrenIInv DEF HInv, IInv
<1>2. /\ running = Idle /\ pc[Idle] = "endChildren" /\ lists' = AddToWait(lists, reaped)
      /\ reaped' = NULL
      /\ UNCHANGED <<tcb, family, running, iAllocatedCount, made, victim>>
  BY DEF WaitForChildren, IdleGoto, pool
<1>3. \A c \in Slots : pc'[c] = IF c = Idle THEN "reap" ELSE pc[c]
  BY <1>1 DEF WaitForChildren, IdleGoto, TypeOK
<1>4. reaped \in Slots /\ tcb[reaped].end /\ tcb[reaped].kind = "process"
  <2>1. reaped \in Slots
    BY <1>2 DEF HInv, IInv
  <2> QED  BY <1>2, <2>1 DEF HInv, ReapedOK
<1>5. SameTasks
  BY <1>2 DEF SameTasks
<1>6. UnderConstruction' = UnderConstruction
  BY <1>2 DEF UnderConstruction
<1>7. PICK at \in [Slots -> Places] : Arranged(lists, at) /\ PlaceOK(at)
  BY DEF HInv, HomeOK
<1>8. PICK new \in [Slots -> Places] :
        /\ Moved(at, new, reaped, Waiting) /\ at[reaped] = Out
        /\ \A s \in Slots : new[s] = IF s = reaped THEN Waiting ELSE at[s]
  <2>1. Moved(at, [at EXCEPT ![reaped] = Waiting], reaped, Waiting)
    BY <1>4, MovedIs, PlacesAre
  <2>2. at[reaped] = Out
    BY <1>4, <1>7 DEF PlaceOK
  <2> QED  BY <2>1, <2>2 DEF Moved
<1>9. Arranged(AddToWait(lists, reaped), new)
  BY <1>4, <1>7, <1>8, ArrangedWait
<1>10. PlaceOK(new)'
  <2> SUFFICES ASSUME NEW s \in Slots
               PROVE
    /\ tcb[s].gen = 0 =>
         new[s] = Out /\ s # running /\ s # NULL /\ s \notin UnderConstruction
    /\ s = running \/ s = NULL \/ s \in UnderConstruction => new[s] = Out
    /\ s \in UnderConstruction => s # running /\ s # NULL
    /\ tcb[s].gen # 0 /\ new[s] = Out =>
         s = running \/ s = NULL \/ s \in UnderConstruction
    /\ new[s] = Waiting => tcb[s].end
    /\ new[s] \in Priority /\ ~tcb[s].end => tcb[s].prio = new[s]
    /\ tcb[s].gen # 0 /\ s \notin UnderConstruction /\ tcb[s].end
         /\ tcb[s].kind = "process" =>
         \/ new[s] = Waiting \/ s = NULL
         \/ s = running /\ pc'[s] \in {"ending", "ended"}
    BY <1>2, <1>6 DEF PlaceOK
  <2>1. s # NULL
    BY SlotsAre
  <2>2. CASE s = reaped
    <3>1. s # running
      BY <1>2, <1>4, <2>2 DEF HInv, FlagsOK
    <3> QED  BY <1>4, <1>7, <1>8, <2>1, <2>2, <3>1, PlacesAre DEF PlaceOK
  <2>3. CASE s # reaped
    <3>1. s = running => pc[s] = "endChildren"
      BY <1>2
    <3> QED  BY <1>2, <1>7, <1>8, <2>1, <2>3, <3>1 DEF PlaceOK
  <2> QED  BY <2>2, <2>3
<1>11. HomeOK'
  <2>1. (Arranged(lists, new))'
    BY <1>2, <1>9 DEF Arranged
  <2> QED  BY <1>8, <1>10, <2>1 DEF HomeOK
<1>12. FlagsOK'
  BY <1>2 DEF HInv, FlagsOK
<1>13. ReapedOK'
  BY <1>2, <1>3, SlotsAre DEF ReapedOK
<1>14. MadeOK'
  <2>1. \A c \in Slots : pc'[c] = pc[c] \/ ~(Creating(pc[c]) \/ Creating(pc'[c]))
    BY <1>2, <1>3 DEF Creating
  <2>2. \A t \in Slots : tcb'[t].end <=> tcb[t].end
    BY <1>2
  <2> QED  BY <1>2, <1>5, <2>1, <2>2, MadeSame DEF HInv
<1>15. FamilyOK' /\ BootOK'
  BY <1>1, <1>2, <1>5, FamilySame, BootSame DEF HInv
<1>16. VictimOK'
  <2>1. pc'[Boot] = pc[Boot]
    BY <1>3, SlotsAre
  <2> QED  BY <1>1, <1>2, <1>5, <1>6, <2>1, VictimSame DEF HInv
<1> QED  BY <1>1, <1>11, <1>12, <1>13, <1>14, <1>15, <1>16 DEF HInv

\* What freeing the TCB x does to the flags.
Freed(x) ==
    \A t \in Slots : /\ tcb'[t].gen = IF t = x THEN 0 ELSE tcb[t].gen
                     /\ tcb'[t].parent = tcb[t].parent /\ tcb'[t].kind = tcb[t].kind
                     /\ tcb'[t].end <=> tcb[t].end
                     /\ tcb'[t].prio = tcb[t].prio

LEMMA FreeFields ==
    ASSUME TypeOK, NEW x \in Slots, tcb' = [tcb EXCEPT ![x].gen = 0]
    PROVE  Freed(x)
<1> SUFFICES ASSUME NEW t \in Slots
             PROVE  /\ tcb'[t].gen = IF t = x THEN 0 ELSE tcb[t].gen
                    /\ tcb'[t].parent = tcb[t].parent /\ tcb'[t].kind = tcb[t].kind
                    /\ tcb'[t].end <=> tcb[t].end
                    /\ tcb'[t].prio = tcb[t].prio
  BY DEF Freed
<1>1. CASE t # x
  BY <1>1 DEF TypeOK
<1>2. CASE t = x
  <2>1. tcb'[t] = [tcb[t] EXCEPT !.gen = 0] /\ tcb[t] \in TCBType
    BY <1>2 DEF TypeOK
  <2> DEFINE old == tcb[t]
  <2> HIDE DEF old
  <2>2. /\ [old EXCEPT !.gen = 0].parent = old.parent
        /\ [old EXCEPT !.gen = 0].kind = old.kind
        /\ [old EXCEPT !.gen = 0].end = old.end
        /\ [old EXCEPT !.gen = 0].prio = old.prio
        /\ old \in TCBType => [old EXCEPT !.gen = 0].gen = 0
    BY DEF TCBType
  <2> QED  BY <1>2, <2>1, <2>2 DEF old
<1> QED  BY <1>1, <1>2

\* The children of a process before and after x is freed.
LEMMA FreedKids ==
    ASSUME HInv, NEW x \in Slots, Freed(x), made' = made, NEW s \in Slots
    PROVE  /\ s # x => Without(Kids(s), x, (Kids(s))')
           /\ s = x => (Kids(s))' = {}
<1>1. UnderConstruction' = UnderConstruction
  BY DEF UnderConstruction
<1>2. \A t \in Slots : (ThreadLike(t))' <=> ThreadLike(t)
  BY <1>1 DEF ThreadLike, Freed
<1>3. (ID(s))' = IF s = x THEN <<0, s>> ELSE ID(s)
  BY DEF ID, Freed
<1>4. \A t \in Slots : t \in (Kids(s))' <=>
        t # x /\ tcb[t].gen # 0 /\ tcb[t].parent = (ID(s))' /\ ThreadLike(t)
  <2> TAKE t \in Slots
  <2>1. t \in (Kids(s))' <=>
          tcb'[t].gen # 0 /\ tcb'[t].parent = (ID(s))' /\ (ThreadLike(t))'
    BY DEF Kids, ThreadOf, ThreadLike
  <2> QED  BY <1>2, <2>1 DEF Freed
<1>5. CASE s # x
  <2>1. \A t \in Slots : t \in Kids(s) <=>
          tcb[t].gen # 0 /\ tcb[t].parent = ID(s) /\ ThreadLike(t)
    BY DEF Kids, ThreadOf, ThreadLike
  <2>2. Kids(s) \subseteq Slots /\ (Kids(s))' \subseteq Slots
    BY DEF Kids
  <2>3. \A t \in Slots : t \in (Kids(s))' <=> t # x /\ t \in Kids(s)
    BY <1>3, <1>4, <1>5, <2>1
  <2>4. (Kids(s))' = Kids(s) \ {x}
    BY <2>2, <2>3
  <2> QED  BY <1>5, <2>4 DEF Without
<1>6. CASE s = x
  <2>1. ASSUME NEW t \in Slots, t \in (Kids(s))' PROVE FALSE
    <3>1. tcb[t].gen # 0 /\ tcb[t].parent = <<0, s>>
      BY <1>3, <1>4, <1>6, <2>1
    <3>2. tcb[t].parent[1] \in 1 .. iAllocatedCount - 1
      BY <3>1 DEF HInv, FamilyOK, ParentOK
    <3> QED  BY <3>1, <3>2
  <2>2. (Kids(s))' \subseteq Slots
    BY DEF Kids
  <2> QED  BY <1>6, <2>1, <2>2
<1> QED  BY <1>5, <1>6

\* The family when kFreeTCB and the list of the process have let x go.
LEMMA ReleaseFamily ==
    ASSUME HInv, NEW x \in Slots, tcb[x].gen # 0, x \notin UnderConstruction,
           tcb[x].kind = "process" => Kids(x) = {},
           Release(x), Freed(x), made' = made, iAllocatedCount' = iAllocatedCount
    PROVE  FamilyOK'
<1>1. TypeOK
  BY DEF HInv, IInv
<1>2. UnderConstruction' = UnderConstruction
  BY DEF UnderConstruction
<1>3. \A t \in Slots : (ThreadLike(t))' <=> ThreadLike(t)
  BY <1>2 DEF ThreadLike, Freed
<1>4. ThreadLike(x) <=> tcb[x].kind = "thread"
  BY DEF ThreadLike
<1>5. \A t \in Slots : tcb[t].gen # 0 => ParentOK(t)
  BY DEF HInv, FamilyOK
<1>6. \A t \in Slots : tcb[t].parent \in TaskID /\ Offset(tcb[t].parent) \in Slots
                       /\ tcb[t].parent = <<tcb[t].parent[1], Offset(tcb[t].parent)>>
  BY <1>1, TypesAre, TaskIDs
<1>7. ASSUME NEW t \in Slots, tcb'[t].gen # 0 PROVE (ParentOK(t))'
  <2>1. t # x /\ tcb[t].gen # 0 /\ ParentOK(t)
    BY <1>5, <1>7 DEF Freed
  <2>2. tcb'[t].gen < iAllocatedCount' /\ tcb'[t].parent[1] \in 1 .. iAllocatedCount' - 1
    BY <2>1 DEF ParentOK, Freed
  <2>3. ASSUME ThreadLike(t)
        PROVE  /\ (Exists(tcb[t].parent))' /\ tcb'[Offset(tcb'[t].parent)].kind = "process"
               /\ Offset(tcb'[t].parent) \notin UnderConstruction'
    <3> DEFINE p == Offset(tcb[t].parent)
    <3>1. /\ Exists(tcb[t].parent) /\ tcb[p].kind = "process" /\ p \notin UnderConstruction
      BY <2>1, <2>3 DEF ParentOK
    <3>2. p \in Slots /\ tcb[t].parent = ID(p)
      BY <1>6, <3>1 DEF Exists, ID
    <3>3. t \in Kids(p)
      BY <2>1, <2>3, <3>2 DEF Kids, ThreadOf, ThreadLike
    <3>4. p # x
      BY <3>1, <3>3
    <3> QED  BY <1>2, <3>1, <3>2, <3>4 DEF Freed, Exists
  <2> QED  BY <1>3, <2>2, <2>3 DEF ParentOK
<1> DEFINE P == IF tcb[x].kind = "thread" THEN ProcessOf(x) ELSE NULL
           r == RemoveList(child[P], threadLink, {x})
<1>8. IF P = NULL THEN UNCHANGED family
      ELSE child' = [child EXCEPT ![P] = r.list] /\ threadLink' = r.next
  BY DEF Release
<1>9. ASSUME NEW s \in Slots, tcb'[s].kind = "process"
      PROVE  Holds(child'[s], threadLink', (Kids(s))')
  <2>1. tcb[s].kind = "process" /\ Holds(child[s], threadLink, Kids(s))
    BY <1>9 DEF HInv, FamilyOK, Freed
  <2>2. /\ s # x => Without(Kids(s), x, (Kids(s))')
        /\ s = x => (Kids(s))' = {}
    BY FreedKids
  <2>3. CASE tcb[x].kind # "thread"
    <3>1. x \notin Kids(s)
      BY <1>4, <2>3 DEF Kids, ThreadOf, ThreadLike
    <3>2. (Kids(s))' = Kids(s)
      BY <2>1, <2>2, <3>1 DEF Without
    <3>3. child' = child /\ threadLink' = threadLink
      BY <1>8, <2>3 DEF family
    <3> QED  BY <2>1, <3>2, <3>3
  <2>4. CASE tcb[x].kind = "thread"
    <3>1. /\ Exists(tcb[x].parent) /\ tcb[Offset(tcb[x].parent)].kind = "process"
      BY <1>4, <1>5, <2>4 DEF ParentOK
    <3>2. /\ P = Offset(tcb[x].parent) /\ P \in Slots /\ tcb[x].parent = ID(P)
          /\ tcb[P].kind = "process"
      BY <1>6, <2>4, <3>1 DEF ProcessOf, Exists, ID
    <3>3. x \in Kids(P)
      BY <1>4, <2>4, <3>2 DEF Kids, ThreadOf, ThreadLike
    <3>4. P # NULL /\ s # x
      BY <2>1, <2>4, <3>2, SlotsAre
    <3>5. child' = [child EXCEPT ![P] = r.list] /\ threadLink' = r.next
      BY <1>8, <3>4
    <3> HIDE DEF P
    <3>6. /\ \A T : Without(Kids(P), x, T) => Holds(r.list, r.next, T)
          /\ \A y \in Slots : y \notin Kids(P) => r.next[y] = threadLink[y]
      <4> DEFINE l == child[P]
                 next == threadLink
                 wanted == {x}
      <4>1. /\ Holds(l, next, Kids(P)) /\ next \in LinkType /\ With({}, x, wanted)
        BY <1>1, <3>2 DEF With, HInv, FamilyOK, TypeOK
      <4> HIDE DEF l, next, wanted
      <4> DEFINE h == RemoveList(l, next, wanted)
      <4>2. /\ \A T : Without(Kids(P), x, T) => Holds(h.list, h.next, T)
            /\ \A y \in Slots : y \notin Kids(P) => h.next[y] = next[y]
        BY <3>3, <4>1, RemoveHolds
      <4>3. r = h
        BY DEF l, next, wanted
      <4> QED  BY <4>2, <4>3 DEF next
    <3> HIDE DEF r
    <3>7. CASE s = P
      <4>1. child'[s] = r.list
        BY <1>1, <3>5, <3>7 DEF TypeOK
      <4>2. Without(Kids(P), x, (Kids(s))')
        BY <2>2, <3>4, <3>7
      <4> QED  BY <3>5, <3>6, <4>1, <4>2
    <3>8. CASE s # P
      <4>1. child'[s] = child[s]
        BY <1>1, <3>5, <3>8 DEF TypeOK
      <4>2. \A y \in Kids(s) : y \in Slots /\ y \notin Kids(P)
        BY <3>2, <3>8, KidsApart
      <4>3. (Kids(s))' = Kids(s)
        BY <2>2, <3>3, <3>4, <4>2 DEF Without
      <4>4. \A y \in Kids(s) : threadLink'[y] = threadLink[y]
        BY <3>5, <3>6, <4>2
      <4> QED  BY <2>1, <4>1, <4>3, <4>4, HoldsFrame
    <3> QED  BY <3>7, <3>8
  <2> QED  BY <2>3, <2>4
<1>10. iAllocatedCount' >= 2
  BY DEF HInv, FamilyOK
<1> QED  BY <1>7, <1>9, <1>10 DEF FamilyOK

\* The idle task frees the TCB it took off the wait list.
LEMMA ReleaseHInv ==
    ASSUME HInv, IInv', running = Idle, pc[Idle] = "reap", NEW x \in Slots,
           NEW at \in [Slots -> Places], PlaceOK(at), at[x] = Waiting,
           \A new : Moved(at, new, x, Out) => Arranged(lists', new),
           tcb[x].kind = "process" => Kids(x) = {},
           Release(x), UNCHANGED <<running, iAllocatedCount, victim, reaped>>
    PROVE  HInv'
<1>1. TypeOK
  BY DEF HInv, IInv
<1>2. reaped = NULL
  BY DEF HInv, ReapedOK
<1>3. /\ tcb[x].gen # 0 /\ tcb[x].end /\ x \notin UnderConstruction
      /\ x # Idle /\ x # Boot
  BY PlaceIs, PlacesAre DEF HInv, FlagsOK
<1>4. Freed(x)
  BY <1>1, FreeFields DEF Release
<1>5. \A c \in Slots : pc'[c] = IF c = Idle THEN "reap" ELSE IF c = x THEN "none" ELSE pc[c]
  BY <1>1, <1>3, SlotsAre DEF Release, TypeOK
<1>6. made[x] = Nothing
  BY <1>3 DEF HInv, MadeOK, MakesOK
<1>7. made' = made
  BY <1>1, <1>6 DEF Release, TypeOK
<1>8. UnderConstruction' = UnderConstruction
  BY <1>7 DEF UnderConstruction
<1>9. PICK new \in [Slots -> Places] :
        /\ Arranged(lists', new)
        /\ \A s \in Slots : new[s] = IF s = x THEN Out ELSE at[s]
  <2>1. Moved(at, [at EXCEPT ![x] = Out], x, Out)
    BY MovedIs, PlacesAre
  <2> QED  BY <2>1 DEF Moved
<1>10. PlaceOK(new)'
  <2> SUFFICES ASSUME NEW s \in Slots
               PROVE
    /\ tcb'[s].gen = 0 =>
         new[s] = Out /\ s # running /\ s # reaped /\ s \notin UnderConstruction
    /\ s = running \/ s = reaped \/ s \in UnderConstruction => new[s] = Out
    /\ s \in UnderConstruction => s # running /\ s # reaped
    /\ tcb'[s].gen # 0 /\ new[s] = Out =>
         s = running \/ s = reaped \/ s \in UnderConstruction
    /\ new[s] = Waiting => tcb[s].end
    /\ new[s] \in Priority /\ ~tcb[s].end => tcb[s].prio = new[s]
    /\ tcb'[s].gen # 0 /\ s \notin UnderConstruction /\ tcb[s].end
         /\ tcb[s].kind = "process" =>
         \/ new[s] = Waiting \/ s = reaped
         \/ s = running /\ pc'[s] \in {"ending", "ended"}
    BY <1>4, <1>8 DEF PlaceOK, Freed
  <2>1. CASE s = x
    BY <1>2, <1>3, <1>4, <1>9, <2>1, SlotsAre, PlacesAre DEF Freed
  <2>2. CASE s # x
    <3>1. s = running => ~tcb[s].end
      BY DEF HInv, FlagsOK
    <3> QED  BY <1>4, <1>9, <2>2, <3>1 DEF PlaceOK, Freed
  <2> QED  BY <2>1, <2>2
<1>11. HomeOK'
  <2>1. (Arranged(lists, new))'
    BY <1>9 DEF Arranged
  <2> QED  BY <1>10, <2>1 DEF HomeOK
<1>12. FlagsOK'
  BY <1>4, SlotsAre DEF HInv, FlagsOK, Freed
<1>13. ReapedOK'
  BY <1>2, <1>5, SlotsAre DEF ReapedOK
<1>14. MadeOK'
  <2>1. ASSUME NEW c \in Slots, Creating(pc'[c]) PROVE (MakesOK(c, made[c].slot))'
    <3>1. c # x /\ c # Idle /\ pc'[c] = pc[c]
      BY <1>5, <2>1 DEF Creating
    <3> PICK s \in Slots : s = made[c].slot /\ MakesOK(c, s)
      BY <2>1, <3>1 DEF HInv, MadeOK, MakesOK, Creating
    <3>2. s \in UnderConstruction /\ s # x
      BY <1>3, UnderConstructionIs
    <3>3. (ID(c))' = ID(c)
      BY <1>4, <3>1 DEF ID, Freed
    <3>4. (MakesOK(c, s))'
      BY <1>4, <1>7, <1>8, <3>1, <3>2, <3>3 DEF MakesOK, Freed
    <3> QED  BY <1>7, <3>4
  <2>2. ASSUME NEW c \in Slots, ~Creating(pc'[c]) PROVE made'[c] = Nothing
    <3>1. pc'[c] = pc[c] \/ c = Idle \/ c = x
      BY <1>5
    <3>2. c = Idle => made[c] = Nothing
      BY DEF HInv, MadeOK
    <3> QED  BY <1>6, <1>7, <2>2, <3>1, <3>2 DEF HInv, MadeOK, Creating
  <2>3. \A c, d \in Slots : made'[c].slot = made'[d].slot /\ made'[c].slot # NULL => c = d
    BY <1>7 DEF HInv, MadeOK
  <2>4. ASSUME NEW c \in Slots
        PROVE  IF pc'[c] \in {"setUp", "enqueue"} THEN (MakesOK(c, made[c].slot))'
               ELSE made'[c] = (Nothing)'
    BY <2>1, <2>2 DEF Creating, Nothing
  <2> QED  BY <2>3, <2>4 DEF MadeOK
<1>15. FamilyOK'
  BY <1>3, <1>4, <1>7, ReleaseFamily
<1>16. BootOK'
  BY <1>3, <1>4, SlotsAre DEF HInv, BootOK, Freed
<1>17. VictimOK'
  <2>1. pc'[Boot] = pc[Boot]
    BY <1>3, <1>5, SlotsAre
  <2>2. Offset(victim) \in Slots
    BY <1>1, TypesAre, TaskIDs
  <2> QED  BY <1>4, <1>8, <2>1, <2>2 DEF HInv, VictimOK, Exists, Freed
<1> QED  BY <1>11, <1>12, <1>13, <1>14, <1>15, <1>16, <1>17 DEF HInv

LEMMA ReapTakeHInv == HInv /\ ReapTake => HInv'
<1> SUFFICES ASSUME HInv, ReapTake PROVE HInv'
  OBVIOUS
<1>1. IInv' /\ TypeOK
  BY ReapTakeIInv DEF HInv, IInv
<1> DEFINE r == RemoveListFromHeader(lists.wait, lists.link)
           n == IF r.node = NULL THEN 0 ELSE child[r.node].count
<1>2. /\ running = Idle /\ pc[Idle] = "reap" /\ lists' = WaitLeft(lists, r)
      /\ UNCHANGED <<running, iAllocatedCount, victim>>
      /\ \/ /\ r.node = NULL
            /\ pc' = [pc EXCEPT ![Idle] = "yield"]
            /\ UNCHANGED <<tcb, family, made, reaped>>
         \/ /\ r.node # NULL /\ tcb[r.node].kind = "process" /\ n > 0
            /\ reaped' = r.node
            /\ pc' = [pc EXCEPT ![Idle] = "endChildren"]
            /\ UNCHANGED <<tcb, family, made>>
         \/ /\ r.node # NULL /\ ~(tcb[r.node].kind = "process" /\ n > 0)
            /\ Release(r.node) /\ UNCHANGED reaped
  BY DEF ReapTake, WaitLeft, idling
<1>3. reaped = NULL
  BY <1>2 DEF HInv, ReapedOK
<1>4. PICK at \in [Slots -> Places] : Arranged(lists, at) /\ PlaceOK(at)
  BY DEF HInv, HomeOK
<1>5. \/ r.node = NULL /\ Arranged(lists', at)
      \/ /\ r.node \in Slots /\ at[r.node] = Waiting
         /\ \A new : Moved(at, new, r.node, Out) => Arranged(lists', new)
  BY <1>2, <1>4, ArrangedTake
<1> HIDE DEF r
<1>6. CASE /\ r.node = NULL
           /\ pc' = [pc EXCEPT ![Idle] = "yield"]
           /\ UNCHANGED <<tcb, family, made, reaped>>
  <2>1. \A c \in Slots : pc'[c] = IF c = Idle THEN "yield" ELSE pc[c]
    BY <1>1, <1>6 DEF TypeOK
  <2>2. HomeOK'
    <3>1. (Arranged(lists, at))'
      BY <1>5, <1>6, SlotsAre DEF Arranged
    <3> QED  BY <1>2, <1>4, <1>6, <3>1, StayHome
  <2>3. \A c \in Slots : pc'[c] = pc[c] \/ ~(Creating(pc[c]) \/ Creating(pc'[c]))
    BY <1>2, <2>1 DEF Creating
  <2>4. pc'[Boot] = pc[Boot] /\ pc'[Idle] # "endChildren"
    BY <2>1, SlotsAre
  <2> QED  BY <1>1, <1>2, <1>3, <1>6, <2>2, <2>3, <2>4, SwitchingHInv
<1>7. CASE /\ r.node # NULL /\ tcb[r.node].kind = "process" /\ n > 0
           /\ reaped' = r.node
           /\ pc' = [pc EXCEPT ![Idle] = "endChildren"]
           /\ UNCHANGED <<tcb, family, made>>
  <2> PICK x \in Slots : x = r.node
    BY <1>5, <1>7
  <2>1. /\ at[x] = Waiting /\ tcb[x].gen # 0 /\ tcb[x].end /\ x \notin UnderConstruction
        /\ x # Idle /\ x # Boot
    BY <1>4, <1>5, <1>7, PlaceIs, PlacesAre DEF HInv, FlagsOK
  <2>2. \A c \in Slots : pc'[c] = IF c = Idle THEN "endChildren" ELSE pc[c]
    BY <1>1, <1>7 DEF TypeOK
  <2>3. UnderConstruction' = UnderConstruction
    BY <1>7 DEF UnderConstruction
  <2>4. SameTasks
    BY <1>7 DEF SameTasks
  <2>5. PICK new \in [Slots -> Places] :
          /\ Arranged(lists', new)
          /\ \A s \in Slots : new[s] = IF s = x THEN Out ELSE at[s]
    <3>1. Moved(at, [at EXCEPT ![x] = Out], x, Out)
      BY MovedIs, PlacesAre
    <3> QED  BY <1>5, <1>7, <3>1 DEF Moved
  <2>6. PlaceOK(new)'
    <3> SUFFICES ASSUME NEW s \in Slots
                 PROVE
      /\ tcb[s].gen = 0 =>
           new[s] = Out /\ s # running /\ s # x /\ s \notin UnderConstruction
      /\ s = running \/ s = x \/ s \in UnderConstruction => new[s] = Out
      /\ s \in UnderConstruction => s # running /\ s # x
      /\ tcb[s].gen # 0 /\ new[s] = Out =>
           s = running \/ s = x \/ s \in UnderConstruction
      /\ new[s] = Waiting => tcb[s].end
      /\ new[s] \in Priority /\ ~tcb[s].end => tcb[s].prio = new[s]
      /\ tcb[s].gen # 0 /\ s \notin UnderConstruction /\ tcb[s].end
           /\ tcb[s].kind = "process" =>
           \/ new[s] = Waiting \/ s = x
           \/ s = running /\ pc'[s] \in {"ending", "ended"}
      BY <1>2, <1>7, <2>3 DEF PlaceOK
    <3>1. CASE s = x
      BY <1>2, <2>1, <2>5, <3>1, PlacesAre
    <3>2. CASE s # x
      <4>1. s # reaped /\ (s = running => ~tcb[s].end)
        BY <1>2, <1>3, SlotsAre DEF HInv, FlagsOK
      <4> QED  BY <1>4, <2>5, <3>2, <4>1 DEF PlaceOK
    <3> QED  BY <3>1, <3>2
  <2>7. HomeOK'
    <3>1. (Arranged(lists, new))'
      BY <2>5 DEF Arranged
    <3> QED  BY <2>6, <3>1 DEF HomeOK
  <2>8. FlagsOK'
    BY <1>7 DEF HInv, FlagsOK
  <2>9. ReapedOK'
    BY <1>2, <1>7, <2>1, <2>2, SlotsAre DEF ReapedOK
  <2>10. MadeOK'
    <3>1. \A c \in Slots : pc'[c] = pc[c] \/ ~(Creating(pc[c]) \/ Creating(pc'[c]))
      BY <1>2, <2>2 DEF Creating
    <3>2. \A t \in Slots : tcb'[t].end <=> tcb[t].end
      BY <1>7
    <3> QED  BY <1>7, <2>4, <3>1, <3>2, MadeSame DEF HInv
  <2>11. FamilyOK' /\ BootOK'
    BY <1>1, <1>2, <1>7, <2>4, FamilySame, BootSame DEF HInv
  <2>12. VictimOK'
    <3>1. pc'[Boot] = pc[Boot]
      BY <2>2, SlotsAre
    <3> QED  BY <1>1, <1>2, <2>3, <2>4, <3>1, VictimSame DEF HInv
  <2> QED  BY <1>1, <2>7, <2>8, <2>9, <2>10, <2>11, <2>12 DEF HInv
<1>8. CASE /\ r.node # NULL /\ ~(tcb[r.node].kind = "process" /\ n > 0)
           /\ Release(r.node) /\ UNCHANGED reaped
  <2> PICK x \in Slots : x = r.node
    BY <1>5, <1>8
  <2>1. /\ at[x] = Waiting /\ Release(x)
        /\ \A new : Moved(at, new, x, Out) => Arranged(lists', new)
    BY <1>5, <1>8
  <2>2. ASSUME tcb[x].kind = "process" PROVE Kids(x) = {}
    <3>1. Holds(child[x], threadLink, Kids(x))
      BY <2>2 DEF HInv, FamilyOK
    <3>2. child[x].count \in Nat /\ ~(child[x].count > 0)
      BY <1>8, <2>2, <3>1 DEF Holds
    <3>3. child[x].count = 0
      BY <3>2
    <3> QED  BY <3>1, <3>3, HoldsNothing
  <2> QED  BY <1>1, <1>2, <1>4, <1>8, <2>1, <2>2, ReleaseHInv
<1> QED  BY <1>2, <1>6, <1>7, <1>8

-----------------------------------------------------------------------------
\* Creating a task

\* What becomes of the pool when c takes the free TCB s.
Taken(c, s) ==
    \A t \in Slots : /\ tcb'[t].gen = IF t = s THEN iAllocatedCount ELSE tcb[t].gen
                     /\ tcb'[t].parent = IF t = s THEN ID(c) ELSE tcb[t].parent
                     /\ tcb'[t].kind = tcb[t].kind /\ (tcb'[t].end <=> tcb[t].end)
                     /\ tcb'[t].prio = tcb[t].prio

LEMMA TakenFields ==
    ASSUME TypeOK, NEW c \in Slots, NEW s \in Slots,
           tcb' = [tcb EXCEPT ![s].gen = iAllocatedCount, ![s].parent = ID(c)]
    PROVE  Taken(c, s)
<1> SUFFICES ASSUME NEW t \in Slots
             PROVE  /\ tcb'[t].gen = IF t = s THEN iAllocatedCount ELSE tcb[t].gen
                    /\ tcb'[t].parent = IF t = s THEN ID(c) ELSE tcb[t].parent
                    /\ tcb'[t].kind = tcb[t].kind /\ (tcb'[t].end <=> tcb[t].end)
                    /\ tcb'[t].prio = tcb[t].prio
  BY DEF Taken
<1>1. CASE t # s
  BY <1>1 DEF TypeOK
<1>2. CASE t = s
  <2> DEFINE old == tcb[t]
             first == [old EXCEPT !.gen = iAllocatedCount]
             id == ID(c)
  <2>1. tcb'[t] = [first EXCEPT !.parent = id] /\ old \in TCBType
    BY <1>2 DEF TypeOK
  <2>2. id \in TaskID /\ iAllocatedCount \in Nat
    BY TypesAre, TaskIDs DEF ID
  <2> HIDE DEF old, id
  <2>3. /\ first \in TCBType /\ first.gen = iAllocatedCount /\ first.kind = old.kind
        /\ first.end = old.end /\ first.prio = old.prio
    BY <2>1, <2>2 DEF TCBType
  <2> HIDE DEF first
  <2>4. /\ [first EXCEPT !.parent = id].gen = first.gen
        /\ [first EXCEPT !.parent = id].parent = id
        /\ [first EXCEPT !.parent = id].kind = first.kind
        /\ [first EXCEPT !.parent = id].end = first.end
        /\ [first EXCEPT !.parent = id].prio = first.prio
    BY <2>3 DEF TCBType
  <2> QED  BY <1>2, <2>1, <2>3, <2>4 DEF old, id
<1> QED  BY <1>1, <1>2

\* c notes what it makes of s.
Notes(c, s, kind) ==
    \A d \in Slots : made'[d] = IF d = c THEN [slot |-> s, kind |-> kind] ELSE made[d]

\* Who is under construction then, and who is to be a thread.
LEMMA NotesAre ==
    ASSUME HInv, NEW c \in Slots, NEW s \in Slots, NEW kind, Notes(c, s, kind),
           tcb[s].gen = 0, made[c] = Nothing, Taken(c, s)
    PROVE  /\ \A t \in Slots : t \in UnderConstruction' <=> t = s \/ t \in UnderConstruction
           /\ \A t \in Slots : t # s => ((ThreadLike(t))' <=> ThreadLike(t))
           /\ (ThreadLike(s))' <=> kind = "thread"
           /\ s \notin UnderConstruction
<1>1. made[c].slot = NULL
  BY DEF Nothing
<1>2. s \notin UnderConstruction
  <2>1. \A at \in [Slots -> Places] : PlaceOK(at) => s \notin UnderConstruction
    BY DEF PlaceOK
  <2> QED  BY <2>1 DEF HInv, HomeOK
<1>3. \A d \in Slots : made[d].slot # s
  BY <1>2, UnderConstructionIs
<1>4. ASSUME NEW t \in Slots
      PROVE  t \in UnderConstruction' <=> t = s \/ t \in UnderConstruction
  <2>1. t \in UnderConstruction' <=> \E d \in Slots : made'[d].slot = t
    BY NullAssumption DEF UnderConstruction
  <2>2. t \in UnderConstruction <=> \E d \in Slots : made[d].slot = t
    BY UnderConstructionIs
  <2>3. t # NULL
    BY SlotsAre
  <2> QED  BY <1>1, <2>1, <2>2, <2>3 DEF Notes
<1>5. ASSUME NEW t \in Slots, t # s PROVE (ThreadLike(t))' <=> ThreadLike(t)
  <2>1. t # NULL
    BY SlotsAre
  <2>2. (\E d \in Slots : made'[d] = [slot |-> t, kind |-> "thread"])
          <=> (\E d \in Slots : made[d] = [slot |-> t, kind |-> "thread"])
    BY <1>1, <1>5, <2>1 DEF Notes
  <2>3. tcb'[t].kind = tcb[t].kind /\ (t \in UnderConstruction' <=> t \in UnderConstruction)
    BY <1>4, <1>5 DEF Taken
  <2> QED  BY <2>2, <2>3 DEF ThreadLike
<1>6. (ThreadLike(s))' <=> kind = "thread"
  <2>1. s \in UnderConstruction'
    BY <1>4
  <2>2. (\E d \in Slots : made'[d] = [slot |-> s, kind |-> "thread"]) <=> kind = "thread"
    BY <1>3 DEF Notes
  <2> QED  BY <2>1, <2>2 DEF ThreadLike
<1> QED  BY <1>2, <1>4, <1>5, <1>6

\* The families with s in them.
LEMMA AllocateFamily ==
    ASSUME HInv, NEW c \in Slots, NEW s \in Slots, NEW kind, Notes(c, s, kind),
           tcb[s].gen = 0, made[c] = Nothing, Taken(c, s),
           tcb[c].gen # 0, tcb[c].kind = "process", c \notin UnderConstruction,
           iAllocatedCount' = iAllocatedCount + 1,
           IF kind = "thread"
           THEN /\ child' = [child EXCEPT ![c] = AddListToTail(child[c], threadLink, s).list]
                /\ threadLink' = AddListToTail(child[c], threadLink, s).next
           ELSE UNCHANGED family
    PROVE  FamilyOK'
<1>1. TypeOK /\ iAllocatedCount \in Nat /\ iAllocatedCount >= 2 /\ c # s
  BY TypesAre DEF HInv, IInv, FamilyOK
<1>2. /\ \A t \in Slots : t \in UnderConstruction' <=> t = s \/ t \in UnderConstruction
      /\ \A t \in Slots : t # s => ((ThreadLike(t))' <=> ThreadLike(t))
      /\ (ThreadLike(s))' <=> kind = "thread"
  BY NotesAre
<1>3. \A t \in Slots : tcb[t].gen # 0 => ParentOK(t)
  BY DEF HInv, FamilyOK
<1>4. \A t \in Slots : /\ tcb[t].parent \in TaskID /\ Offset(tcb[t].parent) \in Slots
                       /\ tcb[t].parent = <<tcb[t].parent[1], Offset(tcb[t].parent)>>
                       /\ tcb[t].gen \in Nat
  BY <1>1, TypesAre, TaskIDs
<1>5. Offset(ID(c)) = c /\ ID(c)[1] = tcb[c].gen
  BY DEF Offset, ID
<1>6. tcb[c].gen \in 1 .. iAllocatedCount - 1
  BY <1>1, <1>3, <1>4 DEF ParentOK
<1>7. ASSUME NEW t \in Slots, tcb'[t].gen # 0 PROVE (ParentOK(t))'
  <2>1. CASE t = s
    <3>1. tcb'[t].gen = iAllocatedCount /\ tcb'[t].parent = ID(c)
      BY <2>1 DEF Taken
    <3>2. (Exists(tcb[t].parent))'
      BY <1>1, <1>5, <3>1 DEF Exists, Taken
    <3>3. tcb'[Offset(tcb'[t].parent)].kind = "process"
      BY <1>5, <3>1 DEF Taken
    <3>4. Offset(tcb'[t].parent) \notin UnderConstruction'
      BY <1>1, <1>2, <1>5, <3>1
    <3> QED  BY <1>1, <1>5, <1>6, <3>1, <3>2, <3>3, <3>4 DEF ParentOK
  <2>2. CASE t # s
    <3>1. tcb[t].gen # 0 /\ ParentOK(t)
      BY <1>3, <1>7, <2>2 DEF Taken
    <3>2. tcb'[t].gen = tcb[t].gen /\ tcb'[t].parent = tcb[t].parent
      BY <2>2 DEF Taken
    <3>3. tcb'[t].gen < iAllocatedCount' /\ tcb'[t].parent[1] \in 1 .. iAllocatedCount' - 1
      BY <1>1, <1>4, <3>1, <3>2 DEF ParentOK
    <3>4. ASSUME ThreadLike(t)
          PROVE  /\ (Exists(tcb[t].parent))' /\ tcb'[Offset(tcb'[t].parent)].kind = "process"
                 /\ Offset(tcb'[t].parent) \notin UnderConstruction'
      <4> DEFINE p == Offset(tcb[t].parent)
      <4>1. /\ tcb[p].gen = tcb[t].parent[1] /\ tcb[p].kind = "process"
            /\ p \notin UnderConstruction /\ tcb[t].parent[1] # 0
        BY <3>1, <3>4 DEF ParentOK, Exists
      <4>2. p # s /\ p \in Slots
        BY <1>4, <4>1
      <4> QED  BY <1>2, <3>2, <4>1, <4>2 DEF Exists, Taken
    <3> QED  BY <1>2, <2>2, <3>3, <3>4 DEF ParentOK
  <2> QED  BY <2>1, <2>2
<1>8. ASSUME NEW p \in Slots
      PROVE  IF p = s THEN (Kids(p))' = {}
             ELSE IF p = c /\ kind = "thread" THEN With(Kids(p), s, (Kids(p))')
             ELSE (Kids(p))' = Kids(p)
  <2>1. \A t \in Slots : t \in (Kids(p))' <=>
          tcb'[t].gen # 0 /\ tcb'[t].parent = (ID(p))' /\ (ThreadLike(t))'
    BY DEF Kids, ThreadOf, ThreadLike
  <2>2. \A t \in Slots : t \in Kids(p) <=>
          tcb[t].gen # 0 /\ tcb[t].parent = ID(p) /\ ThreadLike(t)
    BY DEF Kids, ThreadOf, ThreadLike
  <2>3. Kids(p) \subseteq Slots /\ (Kids(p))' \subseteq Slots
    BY DEF Kids
  <2>4. CASE p = s
    <3>1. ASSUME NEW t \in Slots, t \in (Kids(p))' PROVE FALSE
      <4>1. tcb'[t].gen # 0 /\ tcb'[t].parent = <<iAllocatedCount, s>>
        BY <2>1, <2>4, <3>1 DEF ID, Taken
      <4>2. CASE t = s
        BY <1>1, <4>1, <4>2 DEF Taken, ID
      <4>3. CASE t # s
        <5>1. tcb[t].gen # 0 /\ tcb[t].parent[1] = iAllocatedCount
          BY <4>1, <4>3 DEF Taken
        <5> QED  BY <1>1, <1>3, <5>1 DEF ParentOK
      <4> QED  BY <4>2, <4>3
    <3> QED  BY <2>3, <2>4, <3>1
  <2>5. CASE p # s
    <3>1. (ID(p))' = ID(p) /\ (ID(p) = ID(c) <=> p = c)
      BY <2>5 DEF ID, Taken
    <3>2. \A t \in Slots : t # s => (t \in (Kids(p))' <=> t \in Kids(p))
      BY <1>2, <2>1, <2>2, <3>1 DEF Taken
    <3>3. s \in (Kids(p))' <=> p = c /\ kind = "thread"
      BY <1>1, <1>2, <2>1, <3>1 DEF Taken
    <3>4. s \notin Kids(p)
      BY <2>2
    <3>5. (Kids(p))' = IF p = c /\ kind = "thread" THEN Kids(p) \cup {s} ELSE Kids(p)
      BY <2>3, <3>2, <3>3, <3>4
    <3> QED  BY <2>5, <3>5 DEF With
  <2> QED  BY <2>4, <2>5
<1>9. ASSUME NEW p \in Slots, tcb'[p].kind = "process"
      PROVE  Holds(child'[p], threadLink', (Kids(p))')
  <2>1. tcb[p].kind = "process" /\ Holds(child[p], threadLink, Kids(p))
    BY <1>9 DEF HInv, FamilyOK, Taken
  <2>2. p = s => Kids(p) = {}
    <3> SUFFICES ASSUME p = s, NEW t \in Kids(p) PROVE FALSE
      OBVIOUS
    <3>1. t \in Slots /\ tcb[t].gen # 0 /\ tcb[t].parent = <<0, p>>
      BY DEF Kids, ThreadOf, ID
    <3> QED  BY <1>3, <3>1 DEF ParentOK
  <2>3. CASE kind # "thread"
    <3>1. child' = child /\ threadLink' = threadLink
      BY <2>3 DEF family
    <3>2. (Kids(p))' = Kids(p)
      BY <1>8, <2>2, <2>3
    <3> QED  BY <2>1, <3>1, <3>2
  <2>4. CASE kind = "thread"
    <3> DEFINE r == AddListToTail(child[c], threadLink, s)
    <3>1. child' = [child EXCEPT ![c] = r.list] /\ threadLink' = r.next
      BY <2>4
    <3>2. With(Kids(c), s, (Kids(c))') /\ s \notin Kids(c)
      BY <1>1, <1>8, <2>4 DEF Kids, ThreadOf
    <3>3. /\ Holds(r.list, r.next, (Kids(c))')
          /\ \A y \in Slots : y # s /\ y \notin Kids(c) => r.next[y] = threadLink[y]
      <4> DEFINE l == child[c]
                 next == threadLink
                 S == Kids(c)
      <4>1. Holds(l, next, S) /\ next \in LinkType /\ s \notin S
        BY <1>1, <3>2 DEF HInv, FamilyOK, TypeOK
      <4> HIDE DEF l, next, S
      <4> DEFINE i == AddListToTail(l, next, s)
      <4>2. \A T : With(S, s, T) => Holds(i.list, i.next, T)
        BY <4>1, AddHolds
      <4>3. \A y \in Slots : y # s /\ y \notin S => i.next[y] = next[y]
        <5>1. With(S, s, S \cup {s})
          BY DEF With
        <5> QED  BY <4>1, <5>1, AddHolds
      <4>4. r = i
        BY DEF l, next
      <4>5. With(S, s, (Kids(c))')
        BY <3>2 DEF S
      <4> QED  BY <4>2, <4>3, <4>4, <4>5 DEF next, S
    <3> HIDE DEF r
    <3>4. CASE p = c
      <4>1. child'[p] = r.list
        BY <1>1, <3>1, <3>4 DEF TypeOK
      <4> QED  BY <3>1, <3>3, <3>4, <4>1
    <3>5. CASE p # c
      <4>1. child'[p] = child[p]
        BY <1>1, <3>1, <3>5 DEF TypeOK
      <4>2. (Kids(p))' = Kids(p)
        BY <1>8, <2>2, <3>5
      <4>3. \A y \in Kids(p) : y \in Slots /\ y \notin Kids(c) /\ y # s
        BY <3>5, KidsApart DEF Kids, ThreadOf
      <4>4. \A y \in Kids(p) : threadLink'[y] = threadLink[y]
        BY <3>1, <3>3, <4>3
      <4> QED  BY <2>1, <4>1, <4>2, <4>4, HoldsFrame
    <3> QED  BY <3>4, <3>5
  <2> QED  BY <2>3, <2>4
<1>10. iAllocatedCount' >= 2
  BY <1>1
<1> QED  BY <1>7, <1>9, <1>10 DEF FamilyOK

LEMMA CreateAllocateHInv ==
    ASSUME NEW s \in Slots, NEW kind \in {"process", "thread"}
    PROVE  HInv /\ CreateAllocate(s, kind) => HInv'
<1> SUFFICES ASSUME HInv, CreateAllocate(s, kind) PROVE HInv'
  OBVIOUS
<1>1. IInv' /\ TypeOK
  BY CreateAllocateIInv DEF HInv, IInv
<1> PICK c \in Slots : c = running
  BY <1>1, TypesAre
<1>2. /\ pc[c] = "run" /\ c # Idle /\ tcb[c].kind = "process"
      /\ kind = "process" => c = Boot
      /\ tcb[s].gen = 0 /\ \A t \in Slots : tcb[t].gen = 0 => s <= t
      /\ running' = running /\ victim' = victim /\ reaped' = reaped /\ lists' = lists
      /\ iAllocatedCount' = iAllocatedCount + 1
  BY DEF CreateAllocate, IsFirstFree, idling
<1>3. ProcessOf(c) = c
  BY <1>2 DEF ProcessOf
<1>4. /\ tcb' = [tcb EXCEPT ![s].gen = iAllocatedCount, ![s].parent = ID(c)]
      /\ IF kind = "thread"
         THEN /\ child' = [child EXCEPT ![c] = AddListToTail(child[c], threadLink, s).list]
              /\ threadLink' = AddListToTail(child[c], threadLink, s).next
         ELSE UNCHANGED family
  BY <1>3 DEF CreateAllocate
<1>5. \A d \in Slots : pc'[d] = IF d = c THEN "setUp" ELSE pc[d]
  BY <1>1 DEF CreateAllocate, TypeOK
<1>6. Notes(c, s, kind)
  BY <1>1 DEF CreateAllocate, TypeOK, Notes
<1>7. Taken(c, s)
  BY <1>1, <1>4, TakenFields
<1>8. reaped = NULL
  BY <1>2 DEF HInv, ReapedOK
<1>9. made[c] = Nothing
  BY <1>2 DEF HInv, MadeOK
<1>10. PICK at \in [Slots -> Places] : Arranged(lists, at) /\ PlaceOK(at)
  BY DEF HInv, HomeOK
<1>11. /\ tcb[c].gen # 0 /\ c \notin UnderConstruction /\ at[c] = Out /\ at[s] = Out
      /\ s # c /\ s \notin UnderConstruction
  BY <1>2, <1>10 DEF PlaceOK
<1>12. ~tcb[c].end
  BY <1>2, <1>8, <1>10, <1>11, SlotsAre, PlacesAre DEF PlaceOK
<1>13. /\ \A t \in Slots : t \in UnderConstruction' <=> t = s \/ t \in UnderConstruction
       /\ (ThreadLike(s))' <=> kind = "thread"
  BY <1>2, <1>6, <1>7, <1>9, NotesAre
<1>14. iAllocatedCount \in Nat /\ iAllocatedCount >= 2
  BY <1>1, TypesAre DEF HInv, FamilyOK
<1>15. \A t \in Slots : t # s => /\ tcb'[t].gen = tcb[t].gen
                                 /\ tcb'[t].parent = tcb[t].parent
  BY <1>7 DEF Taken
<1>16. \A t \in Slots : /\ tcb'[t].kind = tcb[t].kind /\ (tcb'[t].end <=> tcb[t].end)
                        /\ tcb'[t].prio = tcb[t].prio
  BY <1>7 DEF Taken
<1>17. tcb'[s].gen # 0 /\ tcb'[s].parent = ID(c)
  <2>1. tcb'[s].gen = iAllocatedCount /\ tcb'[s].parent = ID(c)
    BY <1>7 DEF Taken
  <2> QED  BY <1>14, <2>1
<1>18. PlaceOK(at)'
  <2> SUFFICES ASSUME NEW t \in Slots
               PROVE
    /\ tcb'[t].gen = 0 =>
         at[t] = Out /\ t # running /\ t # reaped /\ t \notin UnderConstruction'
    /\ t = running \/ t = reaped \/ t \in UnderConstruction' => at[t] = Out
    /\ t \in UnderConstruction' => t # running /\ t # reaped
    /\ tcb'[t].gen # 0 /\ at[t] = Out =>
         t = running \/ t = reaped \/ t \in UnderConstruction'
    /\ at[t] = Waiting => tcb[t].end
    /\ at[t] \in Priority /\ ~tcb[t].end => tcb[t].prio = at[t]
    /\ tcb'[t].gen # 0 /\ t \notin UnderConstruction' /\ tcb[t].end
         /\ tcb[t].kind = "process" =>
         \/ at[t] = Waiting \/ t = reaped
         \/ t = running /\ pc'[t] \in {"ending", "ended"}
    BY <1>2, <1>16 DEF PlaceOK
  <2>1. CASE t = s
    BY <1>8, <1>11, <1>13, <1>17, <2>1, SlotsAre, PlacesAre
  <2>2. CASE t # s
    <3>1. t = running => ~tcb[t].end
      BY <1>12
    <3> QED  BY <1>10, <1>13, <1>15, <2>2, <3>1 DEF PlaceOK
  <2> QED  BY <2>1, <2>2
<1>19. HomeOK'
  <2>1. (Arranged(lists, at))'
    BY <1>2, <1>10 DEF Arranged
  <2> QED  BY <1>18, <2>1 DEF HomeOK
<1>20. FlagsOK'
  BY <1>7, SlotsAre DEF HInv, FlagsOK, Taken
<1>21. ReapedOK'
  BY <1>2, <1>5, <1>8, SlotsAre DEF HInv, ReapedOK
<1>22. MadeOK'
  <2>1. (MakesOK(c, s))'
    <3>1. (ID(c))' = ID(c)
      BY <1>7, <1>11 DEF ID, Taken
    <3>2. made'[c].kind = kind /\ (c # Boot => kind = "thread")
      BY <1>2, <1>6 DEF Notes
    <3>3. pc'[c] = "setUp" /\ c \notin UnderConstruction'
      BY <1>5, <1>11, <1>13
    <3>4. /\ tcb'[c].gen # 0 /\ tcb'[c].kind = "process" /\ ~tcb'[c].end
          /\ tcb'[s].gen # 0 /\ tcb'[s].parent = ID(c)
      BY <1>2, <1>11, <1>12, <1>15, <1>16, <1>17
    <3> QED  BY <1>2, <3>1, <3>2, <3>3, <3>4 DEF MakesOK
  <2>2. ASSUME NEW d \in Slots, d # c, Creating(pc'[d]) PROVE (MakesOK(d, made[d].slot))'
    <3>1. pc'[d] = pc[d] /\ made'[d] = made[d]
      BY <1>5, <1>6, <2>2 DEF Notes
    <3> PICK m \in Slots : m = made[d].slot /\ MakesOK(d, m)
      BY <2>2, <3>1 DEF HInv, MadeOK, MakesOK, Creating
    <3>2. d # s /\ m # s
      BY <1>2 DEF MakesOK
    <3>3. (ID(d))' = ID(d)
      BY <1>7, <3>2 DEF ID, Taken
    <3>4. (MakesOK(d, m))'
      BY <1>7, <1>13, <3>1, <3>2, <3>3 DEF MakesOK, Taken
    <3> QED  BY <3>1, <3>4
  <2>3. ASSUME NEW d \in Slots, ~Creating(pc'[d]) PROVE made'[d] = Nothing
    <3>1. d # c
      BY <1>5, <2>3 DEF Creating
    <3> QED  BY <1>5, <1>6, <2>3, <3>1 DEF HInv, MadeOK, Creating, Notes
  <2>4. \A x, y \in Slots : made'[x].slot = made'[y].slot /\ made'[x].slot # NULL => x = y
    <3>1. \A d \in Slots : made[d].slot # s
      BY <1>11, UnderConstructionIs
    <3> QED  BY <1>6, <3>1 DEF HInv, MadeOK, Notes
  <2>5. ASSUME NEW d \in Slots
        PROVE  IF pc'[d] \in {"setUp", "enqueue"} THEN (MakesOK(d, made[d].slot))'
               ELSE made'[d] = (Nothing)'
    <3>1. CASE d = c
      <4>1. made'[d].slot = s /\ pc'[d] = "setUp"
        BY <1>5, <1>6, <3>1 DEF Notes
      <4> QED  BY <2>1, <3>1, <4>1
    <3>2. CASE d # c
      BY <2>2, <2>3, <3>2 DEF Creating, Nothing
    <3> QED  BY <3>1, <3>2
  <2> QED  BY <2>4, <2>5 DEF MadeOK
<1>23. FamilyOK'
  BY <1>2, <1>4, <1>6, <1>7, <1>9, <1>11, AllocateFamily
<1>24. BootOK'
  <2>1. s # Boot /\ tcb'[Boot].gen = 1 /\ tcb'[Boot].kind = "process"
        /\ tcb'[Boot].parent = <<1, Boot>>
    <3>1. s # Boot
      BY <1>2 DEF HInv, BootOK
    <3> QED  BY <1>15, <1>16, <3>1, SlotsAre DEF HInv, BootOK
  <2>2. CASE tcb[Idle].gen = 0
    <3>1. s = Idle
      <4>1. s <= Idle /\ s \in Nat /\ Idle \in Nat
        BY <1>2, <2>2, SlotsAre
      <4>2. ~(s < Idle)
        BY <2>1, SlotAssumption
      <4> QED  BY <4>1, <4>2
    <3>2. c = Boot
      BY <1>11, <2>2 DEF HInv, BootOK
    <3>3. ID(c) = <<1, Boot>>
      BY <3>2 DEF HInv, BootOK, ID
    <3> QED  BY <1>17, <2>1, <3>1, <3>3 DEF BootOK
  <2>3. CASE tcb[Idle].gen # 0
    <3>1. s # Idle
      BY <1>2, <2>3
    <3> QED  BY <1>15, <2>1, <2>3, <3>1, SlotsAre DEF HInv, BootOK
  <2> QED  BY <2>2, <2>3
<1>25. VictimOK'
  <2> SUFFICES ASSUME pc'[Boot] = "kill"
               PROVE  LET v == Offset(victim) IN
                      /\ v # Boot /\ v # Idle /\ victim[1] # 0
                      /\ tcb'[v].gen # 0 /\ ~(Exists(victim))' /\ v \notin UnderConstruction'
                            => tcb'[v].kind = "thread"
    BY <1>2 DEF VictimOK
  <2>1. pc[Boot] = "kill"
    BY <1>5, SlotsAre
  <2>2. Offset(victim) \in Slots
    BY <1>1, TypesAre, TaskIDs
  <2>3. CASE Offset(victim) = s
    BY <1>13, <2>1, <2>2, <2>3 DEF HInv, VictimOK
  <2>4. CASE Offset(victim) # s
    BY <1>2, <1>7, <1>13, <2>1, <2>2, <2>4 DEF HInv, VictimOK, Exists, Taken
  <2> QED  BY <2>3, <2>4
<1> QED  BY <1>1, <1>19, <1>20, <1>21, <1>22, <1>23, <1>24, <1>25 DEF HInv

\* What kSetUpTask and the lines after it write into the TCB s.
SetUp(s, kind, prio) ==
    \A t \in Slots : /\ tcb'[t].gen = tcb[t].gen /\ tcb'[t].parent = tcb[t].parent
                     /\ IF t = s
                        THEN tcb'[t].kind = kind /\ ~tcb'[t].end /\ tcb'[t].prio = prio
                        ELSE /\ tcb'[t].kind = tcb[t].kind /\ (tcb'[t].end <=> tcb[t].end)
                             /\ tcb'[t].prio = tcb[t].prio

LEMMA SetUpFields ==
    ASSUME TypeOK, NEW s \in Slots, NEW kind \in {"process", "thread"}, NEW prio \in Nat,
           tcb' = [tcb EXCEPT ![s].prio = prio, ![s].end = FALSE, ![s].kind = kind]
    PROVE  SetUp(s, kind, prio)
<1> SUFFICES ASSUME NEW t \in Slots
             PROVE  /\ tcb'[t].gen = tcb[t].gen /\ tcb'[t].parent = tcb[t].parent
                    /\ IF t = s
                       THEN tcb'[t].kind = kind /\ ~tcb'[t].end /\ tcb'[t].prio = prio
                       ELSE /\ tcb'[t].kind = tcb[t].kind /\ (tcb'[t].end <=> tcb[t].end)
                            /\ tcb'[t].prio = tcb[t].prio
  BY DEF SetUp
<1>1. CASE t # s
  BY <1>1 DEF TypeOK
<1>2. CASE t = s
  <2> DEFINE old == tcb[t]
             first == [old EXCEPT !.prio = prio]
             second == [first EXCEPT !.end = FALSE]
  <2>1. tcb'[t] = [second EXCEPT !.kind = kind] /\ old \in TCBType
    BY <1>2 DEF TypeOK
  <2> HIDE DEF old
  <2>2. /\ first \in TCBType /\ first.gen = old.gen /\ first.parent = old.parent
        /\ first.prio = prio
    BY <2>1 DEF TCBType
  <2> HIDE DEF first
  <2>3. /\ second \in TCBType /\ second.gen = first.gen /\ second.parent = first.parent
        /\ second.prio = first.prio /\ ~second.end
    BY <2>2 DEF TCBType
  <2> HIDE DEF second
  <2>4. /\ [second EXCEPT !.kind = kind].gen = second.gen
        /\ [second EXCEPT !.kind = kind].parent = second.parent
        /\ [second EXCEPT !.kind = kind].prio = second.prio
        /\ [second EXCEPT !.kind = kind].end = second.end
        /\ [second EXCEPT !.kind = kind].kind = kind
    BY <2>3 DEF TCBType
  <2> QED  BY <1>2, <2>1, <2>2, <2>3, <2>4 DEF old
<1> QED  BY <1>1, <1>2

\* The families when the TCB s has its flags and an empty list of children.
LEMMA SetUpFamily ==
    ASSUME HInv, NEW c \in Slots, NEW s \in Slots, made[c].slot = s, NEW prio,
           SetUp(s, made[c].kind, prio), UNCHANGED <<made, threadLink, iAllocatedCount>>,
           \A p \in Slots : child'[p] = IF p = s THEN EmptyList ELSE child[p]
    PROVE  FamilyOK'
<1>1. TypeOK /\ s \in UnderConstruction
  BY UnderConstructionIs DEF HInv, IInv
<1>2. UnderConstruction' = UnderConstruction
  BY DEF UnderConstruction
<1>3. \A t \in Slots : tcb'[t].gen = tcb[t].gen /\ tcb'[t].parent = tcb[t].parent
                       /\ (t # s => tcb'[t].kind = tcb[t].kind)
  BY DEF SetUp
<1>4. \A t \in Slots : (ThreadLike(t))' <=> ThreadLike(t)
  BY <1>1, <1>2, <1>3 DEF ThreadLike
<1>5. \A t \in Slots : tcb[t].parent \in TaskID /\ Offset(tcb[t].parent) \in Slots
  BY <1>1, TypesAre, TaskIDs
<1>6. ASSUME NEW t \in Slots, tcb'[t].gen # 0 PROVE (ParentOK(t))'
  <2>1. ParentOK(t)
    BY <1>3, <1>6 DEF HInv, FamilyOK
  <2>2. tcb'[t].gen < iAllocatedCount' /\ tcb'[t].parent[1] \in 1 .. iAllocatedCount' - 1
    BY <1>3, <2>1 DEF ParentOK
  <2>3. ASSUME ThreadLike(t)
        PROVE  /\ (Exists(tcb[t].parent))' /\ tcb'[Offset(tcb'[t].parent)].kind = "process"
               /\ Offset(tcb'[t].parent) \notin UnderConstruction'
    <3>1. /\ Exists(tcb[t].parent) /\ tcb[Offset(tcb[t].parent)].kind = "process"
          /\ Offset(tcb[t].parent) \notin UnderConstruction
      BY <2>1, <2>3 DEF ParentOK
    <3>2. Offset(tcb[t].parent) # s
      BY <1>1, <3>1
    <3> QED  BY <1>2, <1>3, <1>5, <3>1, <3>2 DEF Exists
  <2> QED  BY <1>4, <2>2, <2>3 DEF ParentOK
<1>7. ASSUME NEW p \in Slots PROVE (Kids(p))' = Kids(p)
  <2>1. ASSUME NEW t \in Slots PROVE (ThreadOf(t, p))' <=> ThreadOf(t, p)
    <3>1. (ThreadOf(t, p))' <=>
            tcb'[t].gen # 0 /\ tcb'[t].parent = (ID(p))' /\ (ThreadLike(t))'
      BY DEF ThreadOf, ThreadLike
    <3>2. ThreadOf(t, p) <=> tcb[t].gen # 0 /\ tcb[t].parent = ID(p) /\ ThreadLike(t)
      BY DEF ThreadOf, ThreadLike
    <3>3. (ID(p))' = ID(p)
      BY <1>3 DEF ID
    <3> QED  BY <1>3, <1>4, <3>1, <3>2, <3>3
  <2> QED  BY <2>1 DEF Kids
<1>8. Kids(s) = {}
  <2> SUFFICES ASSUME NEW t \in Kids(s) PROVE FALSE
    OBVIOUS
  <2>1. t \in Slots /\ tcb[t].gen # 0 /\ tcb[t].parent = ID(s) /\ ThreadLike(t)
    BY DEF Kids, ThreadOf, ThreadLike
  <2>2. Offset(tcb[t].parent) \notin UnderConstruction
    BY <2>1 DEF HInv, FamilyOK, ParentOK
  <2> QED  BY <1>1, <2>1, <2>2 DEF ID, Offset
<1>9. ASSUME NEW p \in Slots, tcb'[p].kind = "process"
      PROVE  Holds(child'[p], threadLink', (Kids(p))')
  <2>1. CASE p = s
    BY <1>7, <1>8, <2>1, EmptyHolds
  <2>2. CASE p # s
    <3>1. tcb[p].kind = "process"
      BY <1>3, <1>9, <2>2
    <3>2. Holds(child[p], threadLink, Kids(p))
      BY <3>1 DEF HInv, FamilyOK
    <3> QED  BY <1>7, <2>2, <3>2
  <2> QED  BY <2>1, <2>2
<1> QED  BY <1>6, <1>9 DEF HInv, FamilyOK

LEMMA CreateSetUpHInv ==
    ASSUME NEW prio \in Priority
    PROVE  HInv /\ CreateSetUp(prio) => HInv'
<1> SUFFICES ASSUME HInv, CreateSetUp(prio) PROVE HInv'
  OBVIOUS
<1>1. IInv' /\ TypeOK /\ prio \in Nat
  BY CreateSetUpIInv, PlacesAre DEF HInv, IInv
<1> PICK c \in Slots : c = running
  BY <1>1, TypesAre
<1>2. pc[c] = "setUp" /\ MakesOK(c, made[c].slot)
  BY DEF CreateSetUp, HInv, MadeOK
<1> PICK s \in Slots : s = made[c].slot
  BY <1>2 DEF MakesOK
<1>3. /\ MakesOK(c, s) /\ s \in UnderConstruction /\ c \notin UnderConstruction /\ s # c
      /\ c # Idle /\ made[c].kind \in {"process", "thread"} /\ ~tcb[c].end
  BY <1>2, UnderConstructionIs DEF MakesOK
<1>4. /\ tcb' = [tcb EXCEPT ![s].prio = prio, ![s].end = FALSE, ![s].kind = made[c].kind]
      /\ UNCHANGED <<lists, threadLink, running, iAllocatedCount, made, victim, reaped>>
  BY DEF CreateSetUp, pool, idling
<1>5. \A p \in Slots : child'[p] = IF p = s THEN EmptyList ELSE child[p]
  BY <1>1 DEF CreateSetUp, TypeOK
<1>6. \A d \in Slots : pc'[d] = IF d = c THEN "enqueue"
                                ELSE IF d = s THEN IF s = Idle THEN "reap" ELSE "run"
                                ELSE pc[d]
  BY <1>1, <1>3 DEF CreateSetUp, TypeOK
<1> DEFINE kind == made[c].kind
<1>7. SetUp(s, kind, prio)
  <2>1. kind \in {"process", "thread"} /\ tcb' =
          [tcb EXCEPT ![s].prio = prio, ![s].end = FALSE, ![s].kind = kind]
    BY <1>3, <1>4
  <2> HIDE DEF kind
  <2> QED  BY <1>1, <2>1, SetUpFields
<1>8. s # Boot
  <2> SUFFICES ASSUME s = Boot PROVE FALSE
    OBVIOUS
  <2>1. ID(c) = <<1, Boot>>
    BY <1>3 DEF HInv, BootOK, MakesOK
  <2> QED  BY <1>3, <2>1 DEF ID
<1>9. reaped = NULL
  BY <1>3 DEF HInv, ReapedOK
<1>10. UnderConstruction' = UnderConstruction
  BY <1>4 DEF UnderConstruction
<1>11. PICK at \in [Slots -> Places] : Arranged(lists, at) /\ PlaceOK(at)
  BY DEF HInv, HomeOK
<1>12. at[s] = Out /\ s # running /\ s # reaped /\ tcb[s].gen # 0
  BY <1>3, <1>11 DEF PlaceOK
<1>13. \A t \in Slots : tcb'[t].gen = tcb[t].gen /\ tcb'[t].parent = tcb[t].parent
  BY <1>7 DEF SetUp
<1>14. \A t \in Slots : t # s => /\ tcb'[t].kind = tcb[t].kind
                                 /\ tcb'[t].end <=> tcb[t].end
                                 /\ tcb'[t].prio = tcb[t].prio
  BY <1>7 DEF SetUp
<1>15. tcb'[s].kind = kind /\ ~tcb'[s].end /\ tcb'[s].prio = prio
  BY <1>7 DEF SetUp
<1> HIDE DEF kind
<1>16. PlaceOK(at)'
  <2> SUFFICES ASSUME NEW t \in Slots
               PROVE
    /\ tcb[t].gen = 0 =>
         at[t] = Out /\ t # running /\ t # reaped /\ t \notin UnderConstruction
    /\ t = running \/ t = reaped \/ t \in UnderConstruction => at[t] = Out
    /\ t \in UnderConstruction => t # running /\ t # reaped
    /\ tcb[t].gen # 0 /\ at[t] = Out =>
         t = running \/ t = reaped \/ t \in UnderConstruction
    /\ at[t] = Waiting => tcb'[t].end
    /\ at[t] \in Priority /\ ~tcb'[t].end => tcb'[t].prio = at[t]
    /\ tcb[t].gen # 0 /\ t \notin UnderConstruction /\ tcb'[t].end
         /\ tcb'[t].kind = "process" =>
         \/ at[t] = Waiting \/ t = reaped
         \/ t = running /\ pc'[t] \in {"ending", "ended"}
    BY <1>4, <1>10, <1>13 DEF PlaceOK
  <2>1. CASE t = s
    BY <1>3, <1>12, <1>15, <2>1, PlacesAre
  <2>2. CASE t # s
    <3>1. t = running => ~tcb[t].end
      BY <1>3
    <3> QED  BY <1>11, <1>14, <2>2, <3>1 DEF PlaceOK
  <2> QED  BY <2>1, <2>2
<1>17. HomeOK'
  <2>1. (Arranged(lists, at))'
    BY <1>4, <1>11 DEF Arranged
  <2> QED  BY <1>16, <2>1 DEF HomeOK
<1>18. FlagsOK'
  BY <1>8, <1>14, <1>15, SlotsAre DEF HInv, FlagsOK
<1>19. ReapedOK'
  BY <1>3, <1>4, <1>6, <1>9, SlotsAre DEF HInv, ReapedOK
<1>20. MadeOK'
  <2>1. (MakesOK(c, s))'
    <3>1. (ID(c))' = ID(c)
      BY <1>13 DEF ID
    <3>2. tcb'[c].kind = tcb[c].kind /\ ~tcb'[c].end /\ made'[c] = made[c]
      BY <1>3, <1>4, <1>14
    <3>3. tcb'[s].kind = made[c].kind
      BY <1>15 DEF kind
    <3> QED  BY <1>3, <1>10, <1>13, <1>15, <3>1, <3>2, <3>3 DEF MakesOK
  <2>2. ASSUME NEW d \in Slots, d # c, Creating(pc'[d]) PROVE (MakesOK(d, made[d].slot))'
    <3>1. d # s /\ pc'[d] = pc[d] /\ made'[d] = made[d]
      BY <1>4, <1>6, <2>2 DEF Creating
    <3> PICK m \in Slots : m = made[d].slot /\ MakesOK(d, m)
      BY <2>2, <3>1 DEF HInv, MadeOK, MakesOK, Creating
    <3>2. m # s
      BY <2>2, SlotsAre DEF HInv, MadeOK
    <3>3. (ID(d))' = ID(d)
      BY <1>13 DEF ID
    <3>4. (MakesOK(d, m))'
      BY <1>10, <1>13, <1>14, <3>1, <3>2, <3>3 DEF MakesOK
    <3> QED  BY <3>1, <3>4
  <2>3. ASSUME NEW d \in Slots, ~Creating(pc'[d]) PROVE made'[d] = Nothing
    <3>1. d # c
      BY <1>6, <2>3 DEF Creating
    <3>2. d = s => ~Creating(pc[d])
      BY <1>3 DEF HInv, MadeOK, MakesOK, Creating
    <3>3. ~Creating(pc[d])
      BY <1>6, <2>3, <3>1, <3>2
    <3> QED  BY <1>4, <3>3 DEF HInv, MadeOK, Creating
  <2>4. \A x, y \in Slots : made'[x].slot = made'[y].slot /\ made'[x].slot # NULL => x = y
    BY <1>4 DEF HInv, MadeOK
  <2>5. ASSUME NEW d \in Slots
        PROVE  IF pc'[d] \in {"setUp", "enqueue"} THEN (MakesOK(d, made[d].slot))'
               ELSE made'[d] = (Nothing)'
    <3>1. CASE d = c
      <4>1. made'[d].slot = s /\ pc'[d] = "enqueue"
        BY <1>4, <1>6, <3>1
      <4> QED  BY <2>1, <3>1, <4>1
    <3>2. CASE d # c
      BY <2>2, <2>3, <3>2 DEF Creating, Nothing
    <3> QED  BY <3>1, <3>2
  <2> QED  BY <2>4, <2>5 DEF MadeOK
<1>21. FamilyOK'
  <2>1. SetUp(s, made[c].kind, prio) /\ made[c].slot = s
        /\ UNCHANGED <<made, threadLink, iAllocatedCount>>
    BY <1>4, <1>7 DEF kind
  <2> QED  BY <1>5, <2>1, SetUpFamily
<1>22. BootOK'
  BY <1>8, <1>13, <1>14, SlotsAre DEF HInv, BootOK
<1>23. VictimOK'
  <2> SUFFICES ASSUME pc'[Boot] = "kill"
               PROVE  LET v == Offset(victim) IN
                      /\ v # Boot /\ v # Idle /\ victim[1] # 0
                      /\ tcb'[v].gen # 0 /\ ~(Exists(victim))' /\ v \notin UnderConstruction'
                            => tcb'[v].kind = "thread"
    BY <1>4 DEF VictimOK
  <2>1. pc[Boot] = "kill"
    BY <1>6, <1>8, SlotsAre
  <2>2. Offset(victim) \in Slots
    BY <1>1, TypesAre, TaskIDs
  <2>3. (Exists(victim))' <=> Exists(victim)
    BY <1>4, <1>13, <2>2 DEF Exists
  <2>4. CASE Offset(victim) = s
    BY <1>3, <1>10, <2>1, <2>4 DEF HInv, VictimOK
  <2>5. CASE Offset(victim) # s
    BY <1>10, <1>13, <1>14, <2>1, <2>2, <2>3, <2>5 DEF HInv, VictimOK
  <2> QED  BY <2>4, <2>5
<1> QED  BY <1>1, <1>17, <1>18, <1>19, <1>20, <1>21, <1>22, <1>23 DEF HInv

LEMMA CreateEnqueueHInv == HInv /\ CreateEnqueue => HInv'
<1> SUFFICES ASSUME HInv, CreateEnqueue PROVE HInv'
  OBVIOUS
<1>1. IInv' /\ TypeOK
  BY CreateEnqueueIInv DEF HInv, IInv
<1> PICK c \in Slots : c = running
  BY <1>1, TypesAre
<1>2. pc[c] = "enqueue" /\ MakesOK(c, made[c].slot)
  BY DEF CreateEnqueue, HInv, MadeOK
<1> PICK s \in Slots : s = made[c].slot
  BY <1>2 DEF MakesOK
<1>3. /\ MakesOK(c, s) /\ s \in UnderConstruction /\ c \notin UnderConstruction /\ s # c
      /\ c # Idle /\ tcb[s].kind = made[c].kind /\ ~tcb[s].end /\ tcb[s].gen # 0
  BY <1>2, UnderConstructionIs DEF MakesOK
<1> PICK prio \in Priority : prio = tcb[s].prio
  BY <1>3 DEF HInv, FlagsOK
<1>4. /\ lists' = AddTaskToReadyList(lists, s, prio)
      /\ UNCHANGED <<tcb, child, threadLink, running, iAllocatedCount, victim, reaped>>
  BY DEF CreateEnqueue, family, pool, idling
<1>5. \A d \in Slots : made'[d] = IF d = c THEN Nothing ELSE made[d]
  BY <1>1 DEF CreateEnqueue, TypeOK
<1>6. \A d \in Slots : pc'[d] = IF d = c THEN "run" ELSE pc[d]
  BY <1>1 DEF CreateEnqueue, TypeOK
<1>7. reaped = NULL
  BY <1>3 DEF HInv, ReapedOK
<1>8. \A d \in Slots : d # c => made[d].slot # s
  BY SlotsAre DEF HInv, MadeOK
<1>9. \A t \in Slots : t \in UnderConstruction' <=> t # s /\ t \in UnderConstruction
  <2> TAKE t \in Slots
  <2>1. t \in UnderConstruction' <=> \E d \in Slots : made'[d].slot = t
    BY NullAssumption DEF UnderConstruction
  <2>2. t \in UnderConstruction <=> \E d \in Slots : made[d].slot = t
    BY UnderConstructionIs
  <2>3. t # NULL /\ Nothing.slot = NULL
    BY SlotsAre DEF Nothing
  <2> QED  BY <1>5, <1>8, <2>1, <2>2, <2>3
<1>10. \A t \in Slots : (ThreadLike(t))' <=> ThreadLike(t)
  <2> TAKE t \in Slots
  <2>1. t # NULL
    BY SlotsAre
  <2>2. CASE t = s
    <3>1. (ThreadLike(t))' <=> tcb[t].kind = "thread"
      BY <1>4, <1>9, <2>2 DEF ThreadLike
    <3>2. made[c] = [slot |-> s, kind |-> made[c].kind]
      BY <1>1, TypesAre
    <3>3. ThreadLike(t) <=> made[c] = [slot |-> s, kind |-> "thread"]
      BY <1>3, <1>8, <2>2 DEF ThreadLike
    <3>4. ThreadLike(t) <=> made[c].kind = "thread"
      BY <3>2, <3>3
    <3> QED  BY <1>3, <2>2, <3>1, <3>4
  <2>3. CASE t # s
    <3>1. (\E d \in Slots : made'[d] = [slot |-> t, kind |-> "thread"])
            <=> (\E d \in Slots : made[d] = [slot |-> t, kind |-> "thread"])
      BY <1>5, <2>1, <2>3 DEF Nothing
    <3> QED  BY <1>4, <1>9, <2>3, <3>1 DEF ThreadLike
  <2> QED  BY <2>2, <2>3
<1>11. SameTasks
  BY <1>4 DEF SameTasks
<1>12. PICK at \in [Slots -> Places] : Arranged(lists, at) /\ PlaceOK(at)
  BY DEF HInv, HomeOK
<1>13. at[s] = Out /\ s # running /\ s # reaped
  BY <1>3, <1>12 DEF PlaceOK
<1>14. PICK new \in [Slots -> Places] :
         /\ Arranged(lists', new)
         /\ \A t \in Slots : new[t] = IF t = s THEN prio ELSE at[t]
  <2> DEFINE x == [at EXCEPT ![s] = prio]
  <2>1. Moved(at, x, s, prio) /\ x \in [Slots -> Places]
    BY MovedIs, PlacesAre DEF Moved
  <2> HIDE DEF x
  <2>2. Arranged(AddTaskToReadyList(lists, s, prio), x)
    BY <1>12, <1>13, <2>1, ArrangedReady
  <2> QED  BY <1>4, <2>1, <2>2 DEF Moved
<1>15. PlaceOK(new)'
  <2> SUFFICES ASSUME NEW t \in Slots
               PROVE
    /\ tcb[t].gen = 0 =>
         new[t] = Out /\ t # running /\ t # reaped /\ t \notin UnderConstruction'
    /\ t = running \/ t = reaped \/ t \in UnderConstruction' => new[t] = Out
    /\ t \in UnderConstruction' => t # running /\ t # reaped
    /\ tcb[t].gen # 0 /\ new[t] = Out =>
         t = running \/ t = reaped \/ t \in UnderConstruction'
    /\ new[t] = Waiting => tcb[t].end
    /\ new[t] \in Priority /\ ~tcb[t].end => tcb[t].prio = new[t]
    /\ tcb[t].gen # 0 /\ t \notin UnderConstruction' /\ tcb[t].end
         /\ tcb[t].kind = "process" =>
         \/ new[t] = Waiting \/ t = reaped
         \/ t = running /\ pc'[t] \in {"ending", "ended"}
    BY <1>4 DEF PlaceOK
  <2>1. CASE t = s
    BY <1>3, <1>9, <1>13, <1>14, <2>1, PlacesAre
  <2>2. CASE t # s
    <3>1. t = running => ~tcb[t].end
      BY <1>3 DEF MakesOK
    <3> QED  BY <1>9, <1>12, <1>14, <2>2, <3>1 DEF PlaceOK
  <2> QED  BY <2>1, <2>2
<1>16. HomeOK'
  <2>1. (Arranged(lists, new))'
    BY <1>14 DEF Arranged
  <2> QED  BY <1>15, <2>1 DEF HomeOK
<1>17. FlagsOK'
  BY <1>4 DEF HInv, FlagsOK
<1>18. ReapedOK'
  BY <1>3, <1>4, <1>6, <1>7, SlotsAre DEF HInv, ReapedOK
<1>19. MadeOK'
  <2>1. ASSUME NEW d \in Slots, Creating(pc'[d]) PROVE (MakesOK(d, made[d].slot))'
    <3>1. d # c /\ pc'[d] = pc[d] /\ made'[d] = made[d]
      BY <1>5, <1>6, <2>1 DEF Creating
    <3> PICK m \in Slots : m = made[d].slot /\ MakesOK(d, m)
      BY <2>1, <3>1 DEF HInv, MadeOK, MakesOK, Creating
    <3>2. (ID(d))' = ID(d)
      BY <1>4 DEF ID
    <3>3. (MakesOK(d, m))'
      BY <1>4, <1>9, <3>1, <3>2 DEF MakesOK
    <3> QED  BY <3>1, <3>3
  <2>2. ASSUME NEW d \in Slots, ~Creating(pc'[d]) PROVE made'[d] = Nothing
    BY <1>5, <1>6, <2>2 DEF HInv, MadeOK, Creating
  <2>3. \A x, y \in Slots : made'[x].slot = made'[y].slot /\ made'[x].slot # NULL => x = y
    <3>1. Nothing.slot = NULL
      BY DEF Nothing
    <3> QED  BY <1>5, <3>1 DEF HInv, MadeOK
  <2>4. ASSUME NEW d \in Slots
        PROVE  IF pc'[d] \in {"setUp", "enqueue"} THEN (MakesOK(d, made[d].slot))'
               ELSE made'[d] = (Nothing)'
    BY <2>1, <2>2 DEF Creating, Nothing
  <2> QED  BY <2>3, <2>4 DEF MadeOK
<1>20. FamilyOK'
  <2>1. \A p \in Slots : tcb[p].kind = "process" => Holds(child'[p], threadLink', Kids(p))
    BY <1>4 DEF HInv, FamilyOK
  <2> QED  BY <1>1, <1>4, <1>9, <1>10, <1>11, <2>1, FamilyKept DEF HInv
<1>21. BootOK'
  BY <1>11, BootSame DEF HInv
<1>22. VictimOK'
  <2> SUFFICES ASSUME pc'[Boot] = "kill"
               PROVE  LET v == Offset(victim) IN
                      /\ v # Boot /\ v # Idle /\ victim[1] # 0
                      /\ tcb[v].gen # 0 /\ ~Exists(victim) /\ v \notin UnderConstruction'
                            => tcb[v].kind = "thread"
    BY <1>4 DEF VictimOK, Exists
  <2>1. pc[Boot] = "kill" /\ c # Boot
    BY <1>6, SlotsAre
  <2>2. tcb[s].kind = "thread"
    BY <1>3, <2>1 DEF MakesOK
  <2>3. Offset(victim) \in Slots
    BY <1>1, TypesAre, TaskIDs
  <2> QED  BY <1>9, <2>1, <2>2, <2>3 DEF HInv, VictimOK
<1> QED  BY <1>1, <1>16, <1>17, <1>18, <1>19, <1>20, <1>21, <1>22 DEF HInv

-----------------------------------------------------------------------------
LEMMA NextHInv == Sheltered /\ HInv /\ [Next]_vars => HInv'
<1> SUFFICES ASSUME Sheltered, HInv, [Next]_vars PROVE HInv'
  OBVIOUS
<1>1. CASE Tick
  BY <1>1, TickHInv
<1>2. CASE Yield \/ LeaveProcessor \/ IdleYield
  BY <1>2, ScheduleHInv DEF Yield, LeaveProcessor, IdleYield
<1>3. CASE Create
  BY <1>3, CreateAllocateHInv, CreateSetUpHInv, CreateEnqueueHInv DEF Create
<1>4. CASE ExitTask
  BY <1>4, ExitTaskHInv
<1>5. CASE KillEnd \/ \E s \in Slots : KillRead(s)
  BY <1>5, KillEndHInv, KillReadHInv DEF Sheltered
<1>6. CASE \E g \in 1 .. iAllocatedCount - 1, s \in Slots, prio \in TypedPriority :
             ChangePriority(<<g, s>>, prio)
  <2>1. PICK g \in 1 .. iAllocatedCount - 1, s \in Slots, prio \in TypedPriority :
          ChangePriority(<<g, s>>, prio)
    BY <1>6
  <2>2. g \in Nat /\ g # 0 /\ prio \in Priority
    BY TypesAre DEF Sheltered, HInv, IInv
  <2> QED  BY <2>1, <2>2, ChangePriorityHInv
<1>7. CASE ReapTake \/ EndChild \/ WaitForChildren
  BY <1>7, ReapTakeHInv, EndChildHInv, WaitForChildrenHInv
<1>8. CASE UNCHANGED vars
  <2>1. UNCHANGED <<tcb, lists, child, threadLink, running, iAllocatedCount, pc, made,
                    victim, reaped>> /\ IInv'
    <3>1. IInv'
      BY NextIInv DEF HInv
    <3> QED  BY <1>8, <3>1 DEF vars, family, pool, idling
  <2>2. UnderConstruction' = UnderConstruction
    BY <2>1 DEF UnderConstruction
  <2>3. SameTasks
    BY <2>1 DEF SameTasks
  <2>4. HomeOK'
    <3>1. PICK at \in [Slots -> Places] : Arranged(lists, at) /\ PlaceOK(at)
      BY DEF HInv, HomeOK
    <3>2. (Arranged(lists, at))'
      BY <2>1, <3>1 DEF Arranged
    <3> QED  BY <2>1, <3>1, <3>2, StayHome
  <2>5. FlagsOK' /\ ReapedOK'
    BY <2>1 DEF HInv, FlagsOK, ReapedOK
  <2>6. MadeOK'
    <3>1. \A c \in Slots : pc'[c] = pc[c]
      BY <2>1
    <3>2. \A t \in Slots : tcb'[t].end <=> tcb[t].end
      BY <2>1
    <3> QED  BY <2>1, <2>3, <3>1, <3>2, MadeSame DEF HInv
  <2>7. FamilyOK' /\ BootOK' /\ VictimOK'
    <3>1. TypeOK /\ UNCHANGED <<family, iAllocatedCount, made>>
      BY <2>1 DEF HInv, IInv, family
    <3> QED  BY <2>1, <2>2, <2>3, <3>1, FamilySame, BootSame, VictimSame DEF HInv
  <2> QED  BY <2>1, <2>4, <2>5, <2>6, <2>7 DEF HInv
<1> QED  BY <1>1, <1>2, <1>3, <1>4, <1>5, <1>6, <1>7, <1>8 DEF Next, IdleStep

-----------------------------------------------------------------------------
\* What the invariant says of the lists

LEMMA ReadyListIs ==
    ASSUME NEW at \in [Slots -> Places], Arranged(lists, at), NEW p \in Priority
    PROVE  WellFormed(lists.ready[p], lists.link) /\ ReadyMembers(p) = Put(at, p)
<1> DEFINE l == lists.ready[p]
           next == lists.link
<1>1. Holds(l, next, Put(at, p)) /\ next \in LinkType
  BY DEF Arranged, SchedulerLists
<1> HIDE DEF l, next
<1>2. WellFormed(l, next) /\ Members(l, next) = Put(at, p)
  BY <1>1, HoldsMembers
<1> QED  BY <1>2 DEF l, next, ReadyMembers

LEMMA WaitListIs ==
    ASSUME NEW at \in [Slots -> Places], Arranged(lists, at)
    PROVE  WellFormed(lists.wait, lists.link) /\ WaitMembers = Put(at, Waiting)
<1> DEFINE l == lists.wait
           next == lists.link
<1>1. Holds(l, next, Put(at, Waiting)) /\ next \in LinkType
  BY DEF Arranged, SchedulerLists
<1> HIDE DEF l, next
<1>2. WellFormed(l, next) /\ Members(l, next) = Put(at, Waiting)
  BY <1>1, HoldsMembers
<1> QED  BY <1>2 DEF l, next, WaitMembers

LEMMA ChildListIs ==
    ASSUME HInv, NEW s \in Slots, tcb[s].kind = "process"
    PROVE  WellFormed(child[s], threadLink) /\ Members(child[s], threadLink) = Kids(s)
<1> DEFINE l == child[s]
           next == threadLink
<1>1. Holds(l, next, Kids(s)) /\ next \in LinkType
  BY DEF HInv, IInv, TypeOK, FamilyOK
<1> HIDE DEF l, next
<1>2. WellFormed(l, next) /\ Members(l, next) = Kids(s)
  BY <1>1, HoldsMembers
<1> QED  BY <1>2 DEF l, next

LEMMA HInvLists == HInv => ListsWellFormed
BY ReadyListIs, WaitListIs, ChildListIs DEF HInv, HomeOK, ListsWellFormed

LEMMA HInvChildren == HInv => ChildrenExact
<1> SUFFICES ASSUME HInv, NEW s \in Slots, tcb[s].gen # 0, s \notin UnderConstruction
             PROVE  /\ tcb[s].kind = "thread" => Exists(tcb[s].parent)
                    /\ tcb[s].kind = "process" =>
                         Members(child[s], threadLink) = {t \in Slots : ThreadOf(t, s)}
  BY DEF ChildrenExact
<1>1. tcb[s].kind = "thread" => Exists(tcb[s].parent)
  BY DEF HInv, FamilyOK, ParentOK, ThreadLike
<1>2. tcb[s].kind = "process" => Members(child[s], threadLink) = Kids(s)
  BY ChildListIs
<1> QED  BY <1>1, <1>2 DEF Kids

LEMMA HInvHomes == HInv => EveryTaskHasOneHome
<1> SUFFICES ASSUME HInv, NEW s \in Slots
             PROVE  Homes(s) = IF tcb[s].gen = 0 THEN 0 ELSE 1
  BY DEF EveryTaskHasOneHome
<1>1. PICK at \in [Slots -> Places] : Arranged(lists, at) /\ PlaceOK(at)
  BY DEF HInv, HomeOK
<1> DEFINE R == {p \in Priority : s \in ReadyMembers(p)}
           X == {x \in {running, reaped} : x = s}
<1>2. R = IF at[s] \in Priority THEN {at[s]} ELSE {}
  <2>1. \A p \in Priority : s \in ReadyMembers(p) <=> at[s] = p
    BY <1>1, ReadyListIs DEF Put
  <2> QED  BY <2>1
<1>3. Cardinality(R) = IF at[s] \in Priority THEN 1 ELSE 0
  BY <1>2, FS_EmptySet, FS_Singleton
<1>4. X = IF s = running \/ s = reaped THEN {s} ELSE {}
  OBVIOUS
<1>5. Cardinality(X) = IF s = running \/ s = reaped THEN 1 ELSE 0
  BY <1>4, FS_EmptySet, FS_Singleton
<1>6. s \in WaitMembers <=> at[s] = Waiting
  BY <1>1, WaitListIs DEF Put
<1>7. Homes(s) = Cardinality(R) + Cardinality(X)
                   + (IF s \in WaitMembers THEN 1 ELSE 0)
                   + (IF s \in UnderConstruction THEN 1 ELSE 0)
  BY DEF Homes
<1> HIDE DEF R, X
<1>8. CASE tcb[s].gen = 0
  <2>1. at[s] = Out /\ s # running /\ s # reaped /\ s \notin UnderConstruction
    BY <1>1, <1>8 DEF PlaceOK
  <2>2. at[s] \notin Priority /\ at[s] # Waiting
    BY <2>1, PlacesAre
  <2> QED  BY <1>3, <1>5, <1>6, <1>7, <1>8, <2>1, <2>2
<1>9. CASE tcb[s].gen # 0 /\ at[s] # Out
  <2>1. s # running /\ s # reaped /\ s \notin UnderConstruction
        /\ (at[s] = Waiting \/ at[s] \in Priority)
    BY <1>1, <1>9, PlaceIs
  <2>2. at[s] = Waiting <=> at[s] \notin Priority
    BY <2>1, PlacesAre
  <2> QED  BY <1>3, <1>5, <1>6, <1>7, <1>9, <2>1, <2>2
<1>10. CASE tcb[s].gen # 0 /\ at[s] = Out
  <2>1. at[s] \notin Priority /\ at[s] # Waiting
    BY <1>10, PlacesAre
  <2>2. /\ s = running \/ s = reaped \/ s \in UnderConstruction
        /\ s \in UnderConstruction => s # running /\ s # reaped
    BY <1>1, <1>10 DEF PlaceOK
  <2> QED  BY <1>3, <1>5, <1>6, <1>7, <1>10, <2>1, <2>2
<1> QED  BY <1>8, <1>9, <1>10

\* The ready lists, the wait list and the child lists stay what their headers,
\* tails and counts say through every mix of preemption, creation, kills, exits,
\* priority changes and reaping, although kRemoveList leaves stale links behind.
THEOREM SpecListsWellFormed == ASSUME Sheltered PROVE Spec => []ListsWellFormed
BY InitHInv, NextHInv, HInvLists, PTL DEF Spec

\* kCreateTask, kSchedule, kTimerHandler, kEndTask, kChangePriority and kIdleTask
\* lose no task and queue none twice: a TCB in use is on exactly one list, or on
\* the processor, in the idle task's hands or under construction.
THEOREM SpecEveryTaskHasOneHome == ASSUME Sheltered PROVE Spec => []EveryTaskHasOneHome
BY InitHInv, NextHInv, HInvHomes, PTL DEF Spec

\* A thread never outlives its process, and the child list that kIdleTask walks
\* to end the threads of a process is exactly the set of those threads.
THEOREM SpecChildrenExact == ASSUME Sheltered PROVE Spec => []ChildrenExact
BY InitHInv, NextHInv, HInvChildren, PTL DEF Spec

=============================================================================
