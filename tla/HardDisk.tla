------------------------------ MODULE HardDisk ------------------------------
(***************************************************************************)
(* The disk driver HardDisk.c with kHDDHandler, called by several tasks,   *)
(* and the disk it drives, one access to the disk or to the shared         *)
(* interrupt flag per step.                                                *)
(*                                                                         *)
(* The mutex is taken and given back in one step: Mutex shows that kLock   *)
(* and kUnlock amount to that.  The handler runs on the core of the tasks, *)
(* before their next step.  A sector goes through the data register in one *)
(* step: the disk waits for the last of its words.                         *)
(***************************************************************************)
EXTENDS Naturals

CONSTANTS
    Tasks, NoTask,
    dwTotalSectors,
    ReadCounts, WriteCounts,  \* how many sectors are asked for at once
    Versions                  \* what is written

ASSUME HardDiskAssumption ==
    /\ NoTask \notin Tasks
    /\ dwTotalSectors \in Nat \ {0, 1} \* the sector register starts at 1
    /\ ReadCounts \cup WriteCounts \subseteq 1 .. 256
    /\ Versions \subseteq Nat \ {0}

VARIABLES
    bPrimaryInterruptOccur,
    owner,     \* of stMutex
    call,      \* where each task is in its call, and its locals
    irq,       \* the disk's interrupt is not yet handled
    disk,      \* external: the sectors, and what IDENTIFY returns
    status,    \* external: busy, requesting data, in error or none of these
    registers, \* external: the sector and count registers
    command,   \* external: the command in progress
    late       \* history: some wait for an interrupt has run out

device == <<disk, status, registers, command>>
vars == <<bPrimaryInterruptOccur, owner, call, irq, device, late>>

Sectors == 0 .. dwTotalSectors - 1

\* IDENTIFY is a read of this.
Information == dwTotalSectors

Junk == <<"junk">>
Content(lba, version) == <<lba, version>>

\* A call at its beginning
NewCall(step, op, lba, count, buffer) ==
    [step |-> step, op |-> op, lba |-> lba, count |-> count, i |-> 0,
     buffer |-> buffer, bWaitResult |-> FALSE, result |-> 0,
     refused |-> FALSE, \* history: the disk took no registers or command
     misread |-> FALSE] \* history: the awaited interrupt was a failure's

Idle == NewCall("idle", "read", 0, 0, [k \in {} |-> Junk])

NoCommand == [op |-> "read", lba |-> 0, left |-> 0, data |-> Junk]

\* kInitializeHDD has identified the disk.
Init ==
    /\ bPrimaryInterruptOccur = FALSE /\ owner = NoTask
    /\ call = [t \in Tasks |-> Idle]
    /\ irq = FALSE
    /\ disk = [lba \in Sectors \cup {Information} |-> Content(lba, 0)]
    /\ status = "ready" /\ registers = [lba |-> 1, count |-> 1]
    /\ command = NoCommand
    /\ late = FALSE

-----------------------------------------------------------------------------
\* The disk, as the driver uses it.  While it is busy or wants data moved it
\* takes neither registers nor commands.

TakesCommands == status \in {"ready", "error"}

\* It has done what it was busy with: a sector is there to be read, or was
\* written, or the first sector to write is wanted, which is no interrupt.
Answer ==
    /\ status = "busy"
    /\ IF command.op = "write" /\ command.data # Junk
       THEN /\ disk' = [disk EXCEPT ![command.lba] = command.data]
            /\ command' = [command EXCEPT !.lba = @ + 1, !.left = @ - 1, !.data = Junk]
            /\ status' = IF command.left = 1 THEN "ready" ELSE "request"
       ELSE status' = "request" /\ UNCHANGED <<disk, command>>
    /\ irq' = (irq \/ command.op # "write" \/ command.data # Junk)
    /\ UNCHANGED <<bPrimaryInterruptOccur, owner, call, registers, late>>

\* Or it has failed.
Fail ==
    /\ status = "busy"
    /\ status' = "error" /\ irq' = TRUE /\ command' = NoCommand
    /\ UNCHANGED <<bPrimaryInterruptOccur, owner, call, disk, registers, late>>

\* kHDDHandler
HDDHandler ==
    /\ irq
    /\ irq' = FALSE /\ bPrimaryInterruptOccur' = TRUE
    /\ UNCHANGED <<owner, call, device, late>>

-----------------------------------------------------------------------------
\* A step of a task, which the handler does not keep it from.
At(t, step) == ~irq /\ call[t].step = step
Calls(t, op) == call[t].op = op
Go(t, step) == call' = [call EXCEPT ![t].step = step]

\* Faulty: an early return forgets the mutex.
FinishLocked(t, result) == call' = [call EXCEPT ![t] = Idle]

\* An early return, which gives the mutex back.
Finish(t, result) ==
    call' = [call EXCEPT ![t] = [@ EXCEPT !.step = "unlock", !.result = result]]

SetFlag(flag) == bPrimaryInterruptOccur' = flag

\* The range check, which leaves out the last sector.
Begin(t, op, lba, count, version) ==
    /\ At(t, "idle")
    /\ lba + count < dwTotalSectors
    /\ call' = [call EXCEPT ![t] = NewCall(
        IF op = "write" THEN "noBusy" ELSE "lock", op, lba, count,
        [k \in 0 .. count - 1 |->
            IF op = "write" THEN Content(lba + k, version) ELSE Junk])]
    /\ UNCHANGED <<bPrimaryInterruptOccur, owner, irq, device, late>>

Identify(t) ==
    /\ At(t, "idle")
    /\ call' = [call EXCEPT ![t] =
        NewCall("lock", "identify", Information, 1, [k \in {0} |-> Junk])]
    /\ UNCHANGED <<bPrimaryInterruptOccur, owner, irq, device, late>>

\* Faulty: two tasks are let in.
LockShared(t) ==
    /\ At(t, "lock")
    /\ owner' = t
    /\ Go(t, IF Calls(t, "write") THEN "registers" ELSE "noBusy")
    /\ UNCHANGED <<bPrimaryInterruptOccur, irq, device, late>>

Lock(t) ==
    /\ At(t, "lock") /\ owner = NoTask
    /\ owner' = t
    /\ Go(t, IF Calls(t, "write") THEN "registers" ELSE "noBusy")
    /\ UNCHANGED <<bPrimaryInterruptOccur, irq, device, late>>

\* kWaitForHDDNoBusy, which a write calls before it has the mutex.
NoBusy(t) ==
    /\ At(t, "noBusy") /\ status # "busy"
    /\ Go(t, IF Calls(t, "write") THEN "lock" ELSE "registers")
    /\ UNCHANGED <<bPrimaryInterruptOccur, owner, irq, device, late>>

StillBusy(t) ==
    /\ At(t, "noBusy") /\ status = "busy"
    /\ IF Calls(t, "write") THEN Go(t, "idle") ELSE Finish(t, 0)
    /\ UNCHANGED <<bPrimaryInterruptOccur, owner, irq, device, late>>

SetRegisters(t) ==
    /\ At(t, "registers")
    /\ registers' = IF TakesCommands /\ ~Calls(t, "identify")
                    THEN [lba |-> call[t].lba, count |-> call[t].count]
                    ELSE registers
    /\ call' = [call EXCEPT ![t] = [@ EXCEPT
        !.step = "ready", !.refused = ~TakesCommands]]
    /\ UNCHANGED <<bPrimaryInterruptOccur, owner, irq, disk, status, command, late>>

\* kWaitForHDDReady; what the bit says of a busy disk is anybody's guess.
Ready(t) ==
    /\ At(t, "ready")
    /\ Go(t, IF Calls(t, "write") THEN "command" ELSE "clear")
    /\ UNCHANGED <<bPrimaryInterruptOccur, owner, irq, device, late>>

NotReady(t) ==
    /\ At(t, "ready") /\ status = "busy"
    /\ Finish(t, 0)
    /\ UNCHANGED <<bPrimaryInterruptOccur, owner, irq, device, late>>

\* Faulty: the flag keeps what an earlier interrupt left in it.
ClearFlagMissing(t) ==
    /\ At(t, "clear")
    /\ Go(t, IF Calls(t, "write") THEN "send" ELSE "command")
    /\ UNCHANGED <<bPrimaryInterruptOccur, owner, irq, device, late>>

\* Before a read's command, and before each sector of a write.
ClearFlag(t) ==
    /\ At(t, "clear")
    /\ SetFlag(FALSE)
    /\ Go(t, IF Calls(t, "write") THEN "send" ELSE "command")
    /\ UNCHANGED <<owner, irq, device, late>>

SendCommand(t) ==
    /\ At(t, "command")
    /\ IF TakesCommands
       THEN /\ command' = [op |-> call[t].op, data |-> Junk,
                           lba |-> IF Calls(t, "identify") THEN Information
                                   ELSE registers.lba,
                           left |-> IF Calls(t, "identify") THEN 1
                                    ELSE registers.count]
            /\ status' = "busy"
       ELSE UNCHANGED <<command, status>>
    /\ call' = [call EXCEPT ![t] = [@ EXCEPT
        !.step = CASE Calls(t, "read") -> "poll"
                   [] Calls(t, "write") -> "pollRequest"
                   [] Calls(t, "identify") -> "wait",
        !.refused = call[t].refused \/ ~TakesCommands]]
    /\ UNCHANGED <<bPrimaryInterruptOccur, owner, irq, disk, registers, late>>

\* Faulty: what is returned counts one sector too many.
Next1Late(t, next, buffer) == call' = [call EXCEPT ![t] = [@ EXCEPT
    !.buffer = buffer, !.i = call[t].i + 1,
    !.step = IF call[t].i + 1 < call[t].count THEN next ELSE "unlock",
    !.result = IF call[t].i + 1 < call[t].count THEN call[t].result
               ELSE call[t].count + 1]]

\* One more sector is done.
Next1(t, next, buffer) == call' = [call EXCEPT ![t] = [@ EXCEPT
    !.buffer = buffer, !.i = call[t].i + 1,
    !.step = IF call[t].i + 1 < call[t].count THEN next ELSE "unlock",
    !.result = IF call[t].i + 1 < call[t].count THEN call[t].result
               ELSE call[t].count]]

\* The status is read before each sector of a read and after each of a write,
\* and while a write waits for the disk to want its first sector.
Poll(t) ==
    /\ call[t].step \in {"poll", "pollRequest", "sent"} /\ At(t, call[t].step)
    /\ CASE status = "error" ->
            Finish(t, IF At(t, "pollRequest") THEN 0 ELSE call[t].i)
         [] status = "request" ->
            IF At(t, "poll") THEN Go(t, "data")
            ELSE IF At(t, "pollRequest") THEN Go(t, "clear")
            ELSE Next1(t, "clear", call[t].buffer)
         [] OTHER -> Go(t, IF At(t, "pollRequest") THEN "pollRequest" ELSE "wait")
    /\ UNCHANGED <<bPrimaryInterruptOccur, owner, irq, device, late>>

\* kWaitForHDDInterrupt
WaitOver(t) ==
    /\ At(t, "wait") /\ bPrimaryInterruptOccur
    /\ call' = [call EXCEPT ![t] = [@ EXCEPT !.step = "waited", !.bWaitResult = TRUE]]
    /\ UNCHANGED <<bPrimaryInterruptOccur, owner, irq, device, late>>

TimeOut(t) ==
    /\ At(t, "wait") /\ ~bPrimaryInterruptOccur
    /\ late' = TRUE
    /\ call' = [call EXCEPT ![t] = [@ EXCEPT !.step = "waited", !.bWaitResult = FALSE]]
    /\ UNCHANGED <<bPrimaryInterruptOccur, owner, irq, device>>

\* A read or a write goes on without another look at the status.
Waited(t) ==
    /\ At(t, "waited") /\ ~Calls(t, "identify")
    /\ SetFlag(FALSE)
    /\ IF ~call[t].bWaitResult THEN Finish(t, 0)
       ELSE IF status = "error" THEN
            call' = [call EXCEPT ![t] = [@ EXCEPT
                !.step = IF Calls(t, "read") THEN "data" ELSE "written",
                !.misread = TRUE]]
       ELSE Go(t, IF Calls(t, "read") THEN "data" ELSE "written")
    /\ UNCHANGED <<owner, irq, device, late>>

WaitedIdentify(t) ==
    /\ At(t, "waited") /\ Calls(t, "identify")
    /\ IF ~call[t].bWaitResult \/ status = "error" THEN Finish(t, 0) ELSE Go(t, "data")
    /\ UNCHANGED <<bPrimaryInterruptOccur, owner, irq, device, late>>

\* What the data register yields when the disk does not offer data is junk.
ReadData(t) == LET offers == status = "request" /\ command.op # "write" IN
    /\ At(t, "data")
    /\ Next1(t, "poll", [call[t].buffer EXCEPT ![call[t].i] =
            IF offers THEN disk[command.lba] ELSE Junk])
    /\ IF offers
       THEN /\ command' = [command EXCEPT !.lba = @ + 1, !.left = @ - 1]
            /\ status' = IF command.left = 1 THEN "ready" ELSE "busy"
       ELSE UNCHANGED <<command, status>>
    /\ UNCHANGED <<bPrimaryInterruptOccur, owner, irq, disk, registers, late>>

WriteData(t) ==
    /\ At(t, "send")
    /\ IF status = "request" /\ command.op = "write"
       THEN /\ command' = [command EXCEPT !.data = call[t].buffer[call[t].i]]
            /\ status' = "busy"
       ELSE UNCHANGED <<command, status>>
    /\ Go(t, "sent")
    /\ UNCHANGED <<bPrimaryInterruptOccur, owner, irq, disk, registers, late>>

Written(t) ==
    /\ At(t, "written")
    /\ Next1(t, "clear", call[t].buffer)
    /\ UNCHANGED <<bPrimaryInterruptOccur, owner, irq, device, late>>

Unlock(t) ==
    /\ At(t, "unlock")
    /\ owner' = NoTask
    /\ call' = [call EXCEPT ![t] = Idle]
    /\ UNCHANGED <<bPrimaryInterruptOccur, irq, device, late>>

-----------------------------------------------------------------------------
Call(t) ==
    \/ \E lba \in Sectors, count \in ReadCounts : Begin(t, "read", lba, count, 0)
    \/ \E lba \in Sectors, count \in WriteCounts, version \in Versions :
            Begin(t, "write", lba, count, version)
    \/ Identify(t)

\* What a call that has begun does next.
Step(t) ==
    \/ Lock(t)
    \/ NoBusy(t)
    \/ StillBusy(t)
    \/ SetRegisters(t)
    \/ Ready(t)
    \/ NotReady(t)
    \/ ClearFlag(t)
    \/ SendCommand(t)
    \/ Poll(t)
    \/ WaitOver(t)
    \/ TimeOut(t)
    \/ Waited(t)
    \/ WaitedIdentify(t)
    \/ ReadData(t)
    \/ WriteData(t)
    \/ Written(t)
    \/ Unlock(t)

Next ==
    \/ \E t \in Tasks : Call(t) \/ Step(t)
    \/ Answer
    \/ Fail
    \/ HDDHandler

Spec == Init /\ [][Next]_vars

\* The disk answers in the end, its interrupt is taken, and a call that runs
\* goes on: every task is scheduled.
Fairness ==
    /\ WF_vars(Answer \/ Fail) /\ WF_vars(HDDHandler)
    /\ \A t \in Tasks : WF_vars(Step(t))

FairSpec == Spec /\ Fairness

-----------------------------------------------------------------------------
Steps == {"idle", "lock", "noBusy", "registers", "ready", "clear", "command",
          "poll", "pollRequest", "wait", "waited", "data", "send", "sent",
          "written", "unlock"}
Operations == {"read", "write", "identify"}
Data == {Content(lba, version) : lba \in 0 .. Information, version \in Versions \cup {0}}

\* Every variable has the type the code gives it, no call goes past the
\* sectors it asks for, and none reports more than it asked for.
TypeOK ==
    /\ bPrimaryInterruptOccur \in BOOLEAN /\ irq \in BOOLEAN /\ late \in BOOLEAN
    /\ owner \in Tasks \cup {NoTask}
    /\ \A t \in Tasks : LET c == call[t] IN
        /\ c.step \in Steps /\ c.op \in Operations
        /\ c.lba \in 0 .. Information /\ c.count \in 0 .. 256
        /\ c.i \in 0 .. c.count /\ c.result \in 0 .. c.count
        /\ DOMAIN c.buffer = 0 .. c.count - 1
        /\ \A k \in DOMAIN c.buffer : c.buffer[k] \in Data \cup {Junk}
        /\ c.bWaitResult \in BOOLEAN /\ c.refused \in BOOLEAN /\ c.misread \in BOOLEAN
    /\ disk \in [0 .. Information -> Data]
    /\ status \in {"ready", "busy", "request", "error"}
    /\ registers.lba \in Sectors /\ registers.count \in 1 .. 256
    /\ command.op \in Operations /\ command.data \in Data \cup {Junk}
    /\ command.left \in 0 .. 256

\* What kReadHDDSector, kWriteHDDSector or kReadHDDInformation is about to
\* report as transferred is the same in the caller's buffer and on the disk,
\* if the disk took the call's command and no wait of it ended in a failure.
TransferredIsThere ==
    \A t \in Tasks : LET c == call[t] IN
        c.step = "unlock" /\ ~c.refused /\ ~c.misread =>
            \A k \in 0 .. c.result - 1 : c.buffer[k] = disk[c.lba + k]

\* Registers and commands are given to a disk that takes them, although a
\* write looks at the status before it has the mutex, unless some earlier call
\* has given up on an interrupt and left its command with the disk.
DiskTakesCommands ==
    \A t \in Tasks : call[t].refused => late

\* A disk that answers in time never leaves stMutex locked: on each path out
\* of the three functions, errors included, it is given back.
LockGivenBack == []~late => (owner # NoTask ~> owner = NoTask)
=============================================================================
