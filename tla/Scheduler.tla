----------------------------- MODULE Scheduler -----------------------------
(***************************************************************************)
(* Tasks and their scheduling: 02.Kernel64/Source/Task.c, with the timer   *)
(* handler that preempts (InterruptHandler.c) and the shell commands that  *)
(* create, kill and re-prioritise tasks (ConsoleShell.c).                  *)
(*                                                                         *)
(* Only the bootstrap processor schedules, and the scheduler's spinlock    *)
(* keeps interrupts off, so a section of Task.c under that lock is one     *)
(* step.  Between two sections the running task can be preempted.          *)
(*                                                                         *)
(* The state starts where Main.c turns interrupts on: the boot task is     *)
(* alone.  It creates the idle task first and then becomes the shell.      *)
(***************************************************************************)
EXTENDS List

CONSTANTS
    Boot, Idle,      \* the pool slots of the boot task (the shell) and the idle task
    MaxList,         \* TASK_MAXREADYLISTCOUNT
    MaxTime,         \* TASK_PROCESSORTIME
    WAIT,            \* TASK_FLAGS_WAIT, the priority of an ended task
    CreatePriority,  \* the priorities the shell's commands create tasks with
    TypedPriority,   \* the priorities typed to the changepriority command
    KillInCreate,    \* may a kill hit a task inside kCreateTask, or its product?
    MaxAllocated     \* bound: TCBs allocated in all

\* Main takes the first TCB for the boot task, which creates the idle task first.
ASSUME SlotAssumption ==
    /\ Slots \subseteq Nat /\ {Boot, Idle} \subseteq Slots
    /\ Boot < Idle /\ \A s \in Slots : s < Idle => s = Boot
ASSUME NumberAssumption ==
    /\ MaxList \in Nat \ {0} /\ MaxTime \in Nat \ {0} /\ MaxAllocated \in Nat
ASSUME PriorityAssumption ==
    /\ WAIT \notin Nat
    /\ CreatePriority \subseteq 0 .. MaxList - 1 /\ TypedPriority \subseteq Nat
ASSUME SwitchAssumption == KillInCreate \in BOOLEAN

VARIABLES
    tcb,       \* the TCB of each slot: generation (0: free), flags, parent
    lists,     \* the scheduler's vstReadyList (ready), stWaitList (wait) and
               \* viExecuteCount (exec), and stLink.pvNext of the tasks (link)
    child, threadLink,           \* stChildThreadList, stThreadLink.pvNext
    running, iProcessorTime,
    iUseCount, iAllocatedCount,  \* the TCB pool manager
    pc,        \* where each task is in its code (its saved context)
    inCall,    \* the task was switched out inside kSchedule, not by the timer
    made,      \* the TCB kCreateTask is filling in for the task, and its kind
    victim,    \* the ID kKillTask read, on the shell's stack
    reaped, todo   \* kIdleTask's pstTask, and the children it has yet to end

family == <<child, threadLink>>
pool   == <<iUseCount, iAllocatedCount>>
idling == <<reaped, todo>>
vars   == <<tcb, lists, family, running, iProcessorTime, pool, pc, inCall,
            made, victim, idling>>

Priority == 0 .. MaxList - 1

\* qwID: the generation in the upper half, the pool offset in the lower.
TaskID == Nat \X Slots
ID(s) == <<tcb[s].gen, s>>
Offset(id) == id[2]
Exists(id) == tcb[Offset(id)].gen = id[1]

Nothing == [slot |-> NULL, kind |-> "none"]

\* kInitializeTCBPool; kInitializeScheduler takes a TCB for the boot task.
FreshTCB(s) ==
    [gen |-> IF s = Boot THEN 1 ELSE 0, prio |-> 0, end |-> FALSE,
     kind |-> IF s = Boot THEN "process" ELSE "none", parent |-> <<IF s = Boot THEN 1 ELSE 0, Boot>>]

Init ==
    /\ tcb = [s \in Slots |-> FreshTCB(s)]
    /\ lists = [ready |-> [p \in Priority |-> EmptyList], wait |-> EmptyList,
                exec |-> [p \in Priority |-> 0], link |-> [s \in Slots |-> NULL]]
    /\ child = [s \in Slots |-> EmptyList]
    /\ threadLink = [s \in Slots |-> NULL]
    /\ running = Boot /\ iProcessorTime = 0
    /\ iUseCount = 1 /\ iAllocatedCount = 2
    /\ pc = [s \in Slots |-> IF s = Boot THEN "run" ELSE "none"]
    /\ inCall = [s \in Slots |-> FALSE]
    /\ made = [s \in Slots |-> Nothing]
    /\ victim = ID(Boot)
    /\ reaped = NULL /\ todo = 0

-----------------------------------------------------------------------------
\* Selection: kGetNextTaskToRun

\* The highest priority whose tasks have not all had their turn.
IsDue(q, p) ==
    /\ q.exec[p] < q.ready[p].count
    /\ \A h \in 0 .. p - 1 : q.exec[h] >= q.ready[h].count

\* Faulty: the turn is not counted.
TurnsUncounted(q, p) == q.exec

\* The execution counts when p has its turn.
Turns(q, p) == [h \in Priority |-> IF h < p THEN 0
                                   ELSE IF h = p THEN q.exec[p] + 1 ELSE q.exec[h]]

\* One pass over the lists: those that had their turn start a new one.
Pass(q) ==
    IF \E p \in Priority : IsDue(q, p)
    THEN LET p == CHOOSE p \in Priority : IsDue(q, p)
             r == RemoveListFromHeader(q.ready[p], q.link)
         IN  [task |-> r.node,
              q |-> [ready |-> [q.ready EXCEPT ![p] = r.list],
                     wait  |-> q.wait,
                     link  |-> r.next,
                     exec  |-> Turns(q, p)]]
    ELSE [task |-> NULL, q |-> [q EXCEPT !.exec = [h \in Priority |-> 0]]]

\* If every list has just had its turn the first pass finds nobody.
GetNextTaskToRun(q) ==
    LET first == Pass(q) IN IF first.task # NULL THEN first ELSE Pass(first.q)

\* kGetReadyTaskCount() < 1, when no count is negative
NobodyReady == \A p \in Priority : lists.ready[p].count <= 0

-----------------------------------------------------------------------------
\* Moving a task between the lists

AddToWait(q, s) ==
    LET r == AddListToTail(q.wait, q.link, s)
    IN  [q EXCEPT !.wait = r.list, !.link = r.next]

\* kAddTaskToReadyList.  A priority that is neither WAIT nor a list of its own
\* puts the task nowhere: the function returns FALSE, which no caller reads.
AddTaskToReadyList(q, s, prio) ==
    IF prio = WAIT THEN AddToWait(q, s)
    ELSE IF prio \notin Priority THEN q
    ELSE LET r == AddListToTail(q.ready[prio], q.link, s)
         IN  [q EXCEPT !.ready[prio] = r.list, !.link = r.next]

\* kRemoveTaskFromReadyList: looks where the flags say the task should be.
RemoveTaskFromReadyList(q, id) ==
    LET prio == tcb[Offset(id)].prio
        r == RemoveList(q.ready[prio], q.link, {Offset(id)})
    IN  IF ~Exists(id) \/ prio \notin Priority THEN [node |-> NULL, q |-> q]
        ELSE [node |-> r.node,
              q |-> [q EXCEPT !.ready[prio] = r.list, !.link = r.next]]

\* Faulty: the TCB found in the pool goes on the wait list as well.
EndTaskQueuesAlways(id) ==
    LET r == RemoveTaskFromReadyList(lists, id)
    IN  /\ lists' = AddToWait(r.q, Offset(id))
        /\ tcb' = [tcb EXCEPT ![Offset(id)].end = TRUE, ![Offset(id)].prio = WAIT]

\* kEndTask for a task that is not running.  One that is on no ready list, or
\* whose ID is no longer valid, only has the flags of its slot changed.
EndTask(id) ==
    LET r == RemoveTaskFromReadyList(lists, id)
    IN  /\ lists' = IF r.node = NULL THEN r.q ELSE AddToWait(r.q, r.node)
        /\ tcb' = [tcb EXCEPT ![Offset(id)].end = TRUE, ![Offset(id)].prio = WAIT]

-----------------------------------------------------------------------------
\* Switching tasks

\* The task that leaves the processor goes where its flags send it.
PutBack(q, s) ==
    IF tcb[s].end THEN AddToWait(q, s) ELSE AddTaskToReadyList(q, s, tcb[s].prio)

\* The switch itself, in kSchedule (called) and kScheduleInInterrupt (not): a
\* task that was switched out inside kSchedule goes on there, and its next
\* statement gives the processor a full time slice.
SwitchTo(n, called, time) ==
    /\ lists' = PutBack(n.q, running)
    /\ running' = n.task
    /\ inCall' = [inCall EXCEPT ![running] = called, ![n.task] = FALSE]
    /\ iProcessorTime' = IF inCall[n.task] THEN MaxTime ELSE time

\* kSchedule, called by the running task at program point from.  It returns
\* before it looks when no task is ready; only the boot task is ever alone.
Schedule(from, to) ==
    /\ pc[running] = from
    /\ pc' = [pc EXCEPT ![running] = to]
    /\ \E n \in {GetNextTaskToRun(lists)} :
          \/ /\ n.task = NULL
             /\ lists' = IF NobodyReady THEN lists ELSE n.q
             /\ UNCHANGED <<running, inCall, iProcessorTime>>
          \/ /\ n.task # NULL
             /\ SwitchTo(n, TRUE, iProcessorTime)
    /\ UNCHANGED <<tcb, family, pool, made, victim, idling>>

\* A task gives the processor away: it waits for a key, a tick or a mutex.
Yield == running # Idle /\ Schedule("run", "run")

\* Faulty: the time goes on below zero.
DecreasedAlways(time) == time - 1

\* kDecreaseProcessorTime
Decreased(time) == IF time > 0 THEN time - 1 ELSE 0

\* kTimerHandler.  While the idle task ends children it holds the lock, so no
\* interrupt comes in.
Tick ==
    /\ pc[running] # "endChildren"
    /\ \E time \in {Decreased(iProcessorTime)},
          n \in {GetNextTaskToRun(lists)} :
          \/ /\ time > 0
             /\ iProcessorTime' = time
             /\ UNCHANGED <<lists, running, inCall>>
          \/ /\ time <= 0 /\ n.task = NULL
             /\ lists' = n.q /\ iProcessorTime' = time
             /\ UNCHANGED <<running, inCall>>
          \/ /\ time <= 0 /\ n.task # NULL
             /\ SwitchTo(n, FALSE, time)
    /\ UNCHANGED <<tcb, family, pool, pc, made, victim, idling>>

-----------------------------------------------------------------------------
\* kCreateTask

\* kGetProcessByThread
ProcessOf(s) ==
    IF tcb[s].kind = "process" THEN s
    ELSE IF Exists(tcb[s].parent) THEN Offset(tcb[s].parent) ELSE NULL

\* kAllocateTCB takes the first free slot of the pool, unless all are in use.
IsFirstFree(s) ==
    /\ iUseCount # Cardinality(Slots)
    /\ tcb[s].gen = 0
    /\ \A t \in Slots : tcb[t].gen = 0 => s <= t

\* The first section under the lock: a TCB, linked to its process.  The boot
\* task creates the idle thread, then, as the shell, processes and threads; a
\* process creates threads.
CreateAllocate(s, kind) ==
    /\ pc[running] = "run" /\ running # Idle
    /\ tcb[running].kind = "process" /\ (kind = "process" => running = Boot)
    /\ IsFirstFree(s) /\ (s = Idle => kind = "thread")
    /\ iAllocatedCount <= MaxAllocated
    /\ LET process == ProcessOf(running)
           r == AddListToTail(child[process], threadLink, s)
       IN  /\ tcb' = [tcb EXCEPT ![s].gen = iAllocatedCount,
                                 ![s].parent = ID(process)]
           /\ IF kind = "thread"
              THEN child' = [child EXCEPT ![process] = r.list] /\ threadLink' = r.next
              ELSE UNCHANGED family
    /\ iUseCount' = iUseCount + 1
    /\ iAllocatedCount' = iAllocatedCount + 1
    /\ made' = [made EXCEPT ![running] = [slot |-> s, kind |-> kind]]
    /\ pc' = [pc EXCEPT ![running] = "setUp"]
    /\ UNCHANGED <<lists, running, iProcessorTime, inCall, victim, idling>>

\* kSetUpTask and the lines after it, without the lock: all flags are written,
\* so a kill that came first is forgotten.
CreateSetUp(prio) ==
    /\ pc[running] = "setUp"
    /\ LET s == made[running].slot
       IN  /\ prio \in IF s = Idle THEN {MaxList - 1} ELSE CreatePriority
           /\ tcb' = [tcb EXCEPT ![s].prio = prio, ![s].end = FALSE,
                                 ![s].kind = made[running].kind]
           /\ child' = [child EXCEPT ![s] = EmptyList]
           /\ pc' = [pc EXCEPT ![s] = IF s = Idle THEN "reap" ELSE "run",
                             ![running] = "enqueue"]
           /\ inCall' = [inCall EXCEPT ![s] = FALSE]
    /\ UNCHANGED <<lists, threadLink, running, iProcessorTime, pool, made, victim,
                   idling>>

\* The second section: the new task goes where its flags now send it.
CreateEnqueue ==
    /\ pc[running] = "enqueue"
    /\ LET s == made[running].slot
       IN  lists' = AddTaskToReadyList(lists, s, tcb[s].prio)
    /\ made' = [made EXCEPT ![running] = Nothing]
    /\ pc' = [pc EXCEPT ![running] = "run"]
    /\ UNCHANGED <<tcb, family, running, iProcessorTime, pool, inCall, victim, idling>>

-----------------------------------------------------------------------------
\* Ending a task and changing its priority

\* kExitTask: kEndTask of the running task, up to its call of kSchedule.
ExitTask ==
    /\ running \notin {Boot, Idle} /\ pc[running] = "run"
    /\ tcb' = [tcb EXCEPT ![running].end = TRUE, ![running].prio = WAIT]
    /\ pc' = [pc EXCEPT ![running] = "ending"]
    /\ UNCHANGED <<lists, family, running, iProcessorTime, pool, inCall, made,
                   victim, idling>>

\* kSchedule does not come back to a task that has ended; if it finds nobody to
\* switch to, the task loops until the timer takes it away.
LeaveProcessor == Schedule("ending", "ended")

\* The boot task waits for a command.
ShellIsUp == running = Boot /\ pc[Boot] = "run" /\ tcb[Idle].gen # 0

UnderConstruction == {made[s].slot : s \in Slots} \ {NULL}

Killable(s) == KillInCreate \/ (made[s] = Nothing /\ s \notin UnderConstruction)

\* kKillTask of the shell takes the ID out of the TCB the typed number selects...
KillRead(s) ==
    /\ ShellIsUp
    /\ tcb[s].gen # 0 /\ s \notin {Boot, Idle}
    /\ Killable(s)
    /\ victim' = ID(s)
    /\ pc' = [pc EXCEPT ![Boot] = "kill"]
    /\ UNCHANGED <<tcb, lists, family, running, iProcessorTime, pool, inCall, made,
                   idling>>

\* ... and, after printing a line, ends the task with that ID.
KillEnd ==
    /\ running = Boot /\ pc[Boot] = "kill"
    /\ Killable(Offset(victim))
    /\ EndTask(victim)
    /\ victim' = ID(Boot)
    /\ pc' = [pc EXCEPT ![Boot] = "run"]
    /\ UNCHANGED <<family, running, iProcessorTime, pool, inCall, made, idling>>

\* kChangePriority, called by the shell with the ID of a task that lives.  The
\* bound on the priority is the code's: the number of lists itself passes.
ChangePriority(id, prio) ==
    /\ ShellIsUp
    /\ prio <= MaxList
    /\ Exists(id) /\ ~tcb[Offset(id)].end
    /\ Offset(id) \notin UnderConstruction
    /\ LET r == IF id = ID(running) THEN [node |-> NULL, q |-> lists]
                ELSE RemoveTaskFromReadyList(lists, id)
       IN  lists' = IF r.node = NULL THEN r.q
                     ELSE AddTaskToReadyList(r.q, r.node, prio)
    /\ tcb' = [tcb EXCEPT ![Offset(id)].prio = prio]
    /\ UNCHANGED <<family, running, iProcessorTime, pool, pc, inCall, made, victim,
                   idling>>

-----------------------------------------------------------------------------
\* kIdleTask: freeing the ended tasks

IdleGoto(from, to) ==
    running = Idle /\ pc[Idle] = from /\ pc' = [pc EXCEPT ![Idle] = to]

\* Faulty: the TCB is freed and the process still lists it.
ReleaseKeepsChild(s) ==
    /\ tcb' = [tcb EXCEPT ![s].gen = 0]
    /\ iUseCount' = iUseCount - 1
    /\ UNCHANGED family
    /\ pc' = [pc EXCEPT ![s] = "none", ![Idle] = "reap"]
    /\ made' = [made EXCEPT ![s] = Nothing]

\* kFreeTCB, and the thread leaves the list of its process.  The flags stay.
Release(s) ==
    /\ tcb' = [tcb EXCEPT ![s].gen = 0]
    /\ iUseCount' = iUseCount - 1
    /\ LET process == IF tcb[s].kind = "thread" THEN ProcessOf(s) ELSE NULL
           r == RemoveList(child[process], threadLink, {s})
       IN  IF process = NULL THEN UNCHANGED family
           ELSE child' = [child EXCEPT ![process] = r.list] /\ threadLink' = r.next
    /\ pc' = [pc EXCEPT ![s] = "none", ![Idle] = "reap"]
    /\ made' = [made EXCEPT ![s] = Nothing]

\* The head of the wait list: a process first has its threads ended.
ReapTake ==
    /\ running = Idle /\ pc[Idle] = "reap"
    /\ LET r == RemoveListFromHeader(lists.wait, lists.link)
           n == IF r.node = NULL THEN 0 ELSE child[r.node].count
       IN  /\ lists' = [lists EXCEPT !.wait = r.list, !.link = r.next]
           /\ \/ /\ r.node = NULL
                 /\ pc' = [pc EXCEPT ![Idle] = "yield"]
                 /\ UNCHANGED <<tcb, family, iUseCount, made, idling>>
              \/ /\ r.node # NULL /\ tcb[r.node].kind = "process" /\ n > 0
                 /\ reaped' = r.node /\ todo' = n
                 /\ pc' = [pc EXCEPT ![Idle] = "endChildren"]
                 /\ UNCHANGED <<tcb, family, iUseCount, made>>
              \/ /\ r.node # NULL /\ ~(tcb[r.node].kind = "process" /\ n > 0)
                 /\ Release(r.node)
                 /\ UNCHANGED idling
    /\ UNCHANGED <<running, iProcessorTime, iAllocatedCount, inCall, victim>>

HasChild == RemoveListFromHeader(child[reaped], threadLink).node # NULL

\* One round of the loop over the children, which turns their list by one.
EndChild ==
    /\ IdleGoto("endChildren", "endChildren")
    /\ todo > 0 /\ HasChild
    /\ LET out == RemoveListFromHeader(child[reaped], threadLink)
           in  == AddListToTail(out.list, out.next, out.node)
       IN  /\ child' = [child EXCEPT ![reaped] = in.list]
           /\ threadLink' = in.next
           /\ EndTask(ID(out.node))
    /\ todo' = todo - 1
    /\ UNCHANGED <<running, iProcessorTime, pool, inCall, made, victim, reaped>>

\* Faulty: the process is left to the threads that end after it.
WaitForChildrenForgets ==
    /\ todo = 0
    /\ IdleGoto("endChildren", "reap")
    /\ reaped' = NULL
    /\ UNCHANGED <<tcb, lists, family, running, iProcessorTime, pool, inCall, made,
                   victim, todo>>

\* The threads are still there: the process waits for them on the wait list.
WaitForChildren ==
    /\ IdleGoto("endChildren", "reap")
    /\ todo = 0 \/ ~HasChild
    /\ lists' = AddToWait(lists, reaped)
    /\ reaped' = NULL
    /\ UNCHANGED <<tcb, family, running, iProcessorTime, pool, inCall, made, victim,
                   todo>>

IdleYield == running = Idle /\ Schedule("yield", "reap")

IdleStep == ReapTake \/ EndChild \/ WaitForChildren \/ IdleYield

-----------------------------------------------------------------------------
Create ==
    \/ \E s \in Slots, kind \in {"process", "thread"} : CreateAllocate(s, kind)
    \/ \E prio \in Priority : CreateSetUp(prio)
    \/ CreateEnqueue

Next ==
    \/ Tick \/ Yield \/ Create \/ ExitTask \/ LeaveProcessor \/ KillEnd
    \/ \E s \in Slots : KillRead(s)
    \/ \E g \in 1 .. iAllocatedCount - 1, s \in Slots, prio \in TypedPriority :
          ChangePriority(<<g, s>>, prio)
    \/ IdleStep

Spec == Init /\ [][Next]_vars

\* The timer never stops: there is always another tick, held up while the lock
\* is held, and the loop that holds it goes on.  A task that gets the
\* processor again and again gets on with its code; only the idle task's code
\* matters here.  (Strong fairness, spelled out because ENABLED is costly on
\* these steps: but for the lock Tick is enabled, and an idle step in idle.)
TimerFairness == <>[](pc[running] = "endChildren") \/ []<><<Tick>>_vars
IdleFairness  == <>[](running # Idle) \/ []<><<IdleStep>>_vars

FairSpec ==
    Spec /\ TimerFairness /\ IdleFairness /\ WF_vars(EndChild \/ WaitForChildren)

-----------------------------------------------------------------------------
\* Properties

SchedulerLists == [ready : [Priority -> ListType], wait : ListType,
                   exec : [Priority -> Int], link : LinkType]

TCBType == [gen : Nat, prio : Nat \cup {WAIT}, end : BOOLEAN,
            kind : {"none", "process", "thread"}, parent : TaskID]

\* Every variable has its type: the pool and its links, the scheduler's lists
\* and counters, the program points and locals of the tasks.
TypeOK ==
    /\ tcb \in [Slots -> TCBType]
    /\ lists \in SchedulerLists
    /\ child \in [Slots -> ListType] /\ threadLink \in LinkType
    /\ running \in Slots /\ iProcessorTime \in 0 .. MaxTime
    /\ iUseCount \in Int /\ iAllocatedCount \in Nat
    /\ pc \in [Slots -> {"none", "run", "setUp", "enqueue", "ending", "ended",
                         "kill", "reap", "endChildren", "yield"}]
    /\ inCall \in [Slots -> BOOLEAN]
    /\ made \in [Slots -> [slot : Pointer, kind : {"none", "process", "thread"}]]
    /\ victim \in TaskID
    /\ reaped \in Pointer /\ todo \in Int

ReadyMembers(p) == Members(lists.ready[p], lists.link)
WaitMembers == Members(lists.wait, lists.link)

\* The lists are what their headers, tails and counts say, although a removed
\* tail leaves a link behind and searches follow links past the tail.
ListsWellFormed ==
    /\ \A p \in Priority : WellFormed(lists.ready[p], lists.link)
    /\ WellFormed(lists.wait, lists.link)
    /\ \A s \in Slots : tcb[s].kind = "process" => WellFormed(child[s], threadLink)

\* Where a task is: how many of the lists, the processor, the idle task's hands
\* and a kCreateTask in progress have it.
Homes(s) ==
    Cardinality({p \in Priority : s \in ReadyMembers(p)})
      + Cardinality({x \in {running, reaped} : x = s})
      + (IF s \in WaitMembers THEN 1 ELSE 0)
      + (IF s \in UnderConstruction THEN 1 ELSE 0)

\* No task is lost and none is queued twice, through every mix of preemption,
\* priority changes, kills, exits and half-finished creations.
EveryTaskHasOneHome == \A s \in Slots :
    Homes(s) = IF tcb[s].gen = 0 THEN 0 ELSE 1

\* No thread outlives its process, and the child list of a process is exactly
\* the threads that name it as their parent: kIdleTask finds each one to end,
\* and lets go of the process only when they are gone.
ThreadOf(s, p) ==
    /\ tcb[s].gen # 0 /\ tcb[s].parent = ID(p)
    /\ IF s \in UnderConstruction
       THEN \E c \in Slots : made[c] = [slot |-> s, kind |-> "thread"]
       ELSE tcb[s].kind = "thread"

ChildrenExact ==
    \A s \in Slots : tcb[s].gen # 0 =>
        /\ s \notin UnderConstruction /\ tcb[s].kind = "thread" => Exists(tcb[s].parent)
        /\ s \notin UnderConstruction /\ tcb[s].kind = "process" =>
             Members(child[s], threadLink) = {t \in Slots : ThreadOf(t, s)}

\* Every ready task runs, unless it is killed first, whatever the priorities
\* above it: kGetNextTaskToRun yields to a lower list when a list has had its
\* turn.  (The shell moves no task from list to list meanwhile.)
NoStarvation == \A s \in Slots :
    (\E p \in Priority : s \in ReadyMembers(p))
      ~> (running = s \/ \A p \in Priority : s \notin ReadyMembers(p))

\* A task that has ended, a process with all its threads included, is freed.
EndedIsFreed == \A s \in Slots :
    tcb[s].gen # 0 /\ tcb[s].end /\ s \notin UnderConstruction ~> tcb[s].gen = 0
=============================================================================
