--------------------------- MODULE HardDiskProofs ---------------------------
(***************************************************************************)
(* The disk driver, for every set of tasks and every size of the disk: the *)
(* types, and, when reads are of single sectors, that the disk gets its    *)
(* commands when it takes them and that what is reported is there.         *)
(*                                                                         *)
(* Everything rests on one correspondence: for each statement at which the *)
(* task that has stMutex can be, what the disk can be doing, provided that *)
(* it took the registers and the command.  An earlier call that gave up on *)
(* an interrupt can only spoil that proviso, which `refused' records.      *)
(***************************************************************************)
EXTENDS HardDisk, TLAPS

SingleReads == ReadCounts \subseteq {1}

-----------------------------------------------------------------------------
\* The inductive invariant

Sector == Data \cup {Junk}

Buffers == UNION {[0 .. n - 1 -> Sector] : n \in 0 .. 256}

CallRecords ==
    [step : Steps, op : Operations, lba : 0 .. Information, count : 0 .. 256,
     i : Nat, buffer : Buffers,
     bWaitResult : BOOLEAN, result : Nat, refused : BOOLEAN, misread : BOOLEAN]

CommandRecords == [op : Operations, lba : Nat, left : 0 .. 256, data : Sector]

\* What a call's locals have to do with each other.
CallOK(c) ==
    /\ c.buffer \in [0 .. c.count - 1 -> Sector]
    /\ c.i <= c.count /\ c.result <= c.count
    /\ c.lba + c.count <= Information + 1
    /\ c.step # "idle" /\ c.op # "identify" => c.lba + c.count <= Information
    /\ c.step \notin {"idle", "unlock"} => c.i < c.count

CallsTyped ==
    /\ call \in [Tasks -> CallRecords]
    /\ \A t \in Tasks : CallOK(call[t])

DeviceTyped ==
    /\ disk \in [0 .. Information -> Data]
    /\ status \in {"ready", "busy", "request", "error"}
    /\ registers \in [lba : Sectors, count : 1 .. 256]
    /\ registers.lba + registers.count <= Information + 1
    /\ command \in CommandRecords
    /\ status \in {"busy", "request"} =>
           command.left >= 1 /\ command.lba + command.left <= Information + 1

TypeInv ==
    /\ bPrimaryInterruptOccur \in BOOLEAN /\ irq \in BOOLEAN /\ late \in BOOLEAN
    /\ owner \in Tasks \cup {NoTask}
    /\ CallsTyped
    /\ DeviceTyped

\* The statements inside the mutex: a write looks at the status before.
Inside(c) ==
    /\ c.step \notin {"idle", "lock"}
    /\ c.step = "noBusy" => c.op # "write"

\* Before the command
BeforeCommand(c) ==
    \/ c.step \in {"ready", "command"}
    \/ c.step = "clear" /\ c.op # "write"

\* Which function gets where, with what.
PlaceOK(c) ==
    /\ c.step = "poll" => c.op = "read"
    /\ c.step \in {"pollRequest", "send", "sent", "written"} => c.op = "write"
    /\ c.step = "data" => c.op # "write"
    /\ c.step # "idle" /\ c.op # "write" => c.count = 1
    /\ c.step # "idle" /\ c.op = "identify" => c.lba = Information
    /\ c.step # "idle" /\ c.op = "write" =>
           \A k \in 0 .. c.count - 1 : c.buffer[k] \in Data
    /\ c.step \in {"noBusy", "lock", "registers", "pollRequest"} \/ BeforeCommand(c) =>
           c.i = 0 /\ ~c.misread
    /\ c.step = "waited" /\ ~c.bWaitResult => late
    /\ c.step = "unlock" => c.result <= c.i

Given(c) ==
    /\ TakesCommands
    /\ c.op # "identify" => registers.lba = c.lba /\ registers.count = c.count
    /\ c.step = "command" /\ c.op # "write" => ~bPrimaryInterruptOccur /\ ~irq

\* The disk works for c, whose sector i it has yet to transfer.
Works(c) ==
    /\ command.op = c.op
    /\ command.lba = c.lba + c.i /\ command.left = c.count - c.i
    /\ c.op = "write" => command.data = Junk

\* It has written c's sector i, and wants the next one.
Done(c) ==
    /\ disk[c.lba + c.i] = c.buffer[c.i]
    /\ \/ status = "ready" /\ c.count - c.i = 1
       \/ /\ status = "request"
          /\ command.op = "write" /\ command.data = Junk
          /\ command.lba = c.lba + c.i + 1 /\ command.left = c.count - c.i - 1

\* It is writing c's sector i.
Writing(c) ==
    /\ status = "busy" /\ ~bPrimaryInterruptOccur /\ ~irq
    /\ command.op = "write" /\ command.data = c.buffer[c.i]
    /\ command.lba = c.lba + c.i /\ command.left = c.count - c.i

\* What the disk can be doing while the call c, whose command it took, is at
\* each statement after that.
DuringRead(c) ==
    /\ c.step \in {"poll", "wait"} =>
        \/ status = "error"
        \/ status = "request" /\ Works(c)
        \/ status = "busy" /\ Works(c) /\ ~bPrimaryInterruptOccur /\ ~irq
    /\ c.step = "waited" /\ c.bWaitResult =>
        \/ status = "error"
        \/ status = "request" /\ Works(c)
    /\ c.step = "data" =>
        \/ status = "error" /\ c.misread
        \/ status = "request" /\ Works(c)

DuringWrite(c) ==
    /\ c.step = "pollRequest" =>
        \/ status = "error"
        \/ status \in {"busy", "request"} /\ Works(c)
    /\ c.step \in {"clear", "send"} =>
        \/ status = "error"
        \/ status = "request" /\ Works(c)
    /\ c.step = "send" => ~bPrimaryInterruptOccur /\ ~irq
    /\ c.step \in {"sent", "wait", "waited"} => status = "error" \/ Writing(c) \/ Done(c)
    /\ c.step = "waited" /\ c.bWaitResult => status = "error" \/ Done(c)
    /\ c.step = "written" => (status = "error" /\ c.misread) \/ Done(c)

\* The sectors done are the same in the buffer and on the disk.
Same(c) == \A k \in 0 .. c.i - 1 : c.buffer[k] = disk[c.lba + k]

\* A write that was given up goes on, past the sectors done.
Passed(c) == c.i = 0 \/ status # "busy" \/ command.lba >= c.lba + c.i

OwnerOK(c) ==
    /\ c.step \in {"noBusy", "registers"} /\ ~late => TakesCommands
    /\ BeforeCommand(c) /\ ~c.refused => Given(c)
    /\ c.op # "write" /\ ~c.refused => DuringRead(c)
    /\ c.op = "write" /\ ~c.refused => DuringWrite(c)
    /\ c.step = "unlock" /\ ~late => TakesCommands
    /\ ~c.refused /\ ~c.misread => Same(c)
    /\ c.misread /\ ~late => status = "error"
    /\ c.step = "unlock" /\ ~c.refused /\ ~c.misread => Passed(c)

TaskOK(t) ==
    /\ PlaceOK(call[t])
    /\ Inside(call[t]) <=> owner = t
    /\ call[t].refused => late
    /\ owner = t => OwnerOK(call[t])

FreeInv == owner = NoTask /\ ~late => TakesCommands

IInv == TypeInv /\ (\A t \in Tasks : TaskOK(t)) /\ FreeInv

-----------------------------------------------------------------------------
\* Contents and junk

LEMMA DataIsNotJunk == Junk \notin Data
BY DEF Junk, Data, Content

LEMMA DataKept == ASSUME NEW lba \in 0 .. Information, NEW v \in Versions \cup {0}
                  PROVE  Content(lba, v) \in Data
BY DEF Data

LEMMA InformationBounds == Information \in Nat /\ Information >= 2
BY HardDiskAssumption DEF Information

LEMMA InSectors == \A n : n \in Sectors <=> n \in Nat /\ n < Information
BY InformationBounds DEF Information, Sectors

-----------------------------------------------------------------------------
\* The types

LEMMA IsBuffer == ASSUME NEW n \in 0 .. 256, NEW b \in [0 .. n - 1 -> Sector]
                  PROVE  b \in Buffers
BY DEF Buffers

LEMMA IdleTyped == Idle \in CallRecords /\ CallOK(Idle)
<1> USE InformationBounds
<1>1. [k \in {} |-> Junk] \in [0 .. 0 - 1 -> Sector] /\ 0 .. 0 - 1 = {}
  OBVIOUS
<1>2. Idle.buffer \in Buffers /\ Idle.buffer \in [0 .. 0 - 1 -> Sector]
  BY <1>1, 0 \in 0 .. 256 DEF Idle, NewCall, Buffers
<1>3. Idle \in CallRecords
  BY <1>2 DEF Idle, NewCall, CallRecords, Steps, Operations
<1> QED
  BY <1>2, <1>3 DEF Idle, NewCall, CallOK

LEMMA TypeInit == Init => TypeInv
<1> SUFFICES ASSUME Init PROVE TypeInv
  OBVIOUS
<1> USE InformationBounds DEF Init
<1>1. Idle \in CallRecords /\ CallOK(Idle)
  BY IdleTyped
<1>2. disk \in [0 .. Information -> Data]
  <2>1. Sectors \cup {Information} = 0 .. Information
    BY InSectors
  <2> QED
    BY <2>1, DataKept
<1>3. command \in CommandRecords
  BY DEF NoCommand, CommandRecords, Operations, Sector
<1>4. registers \in [lba : Sectors, count : 1 .. 256] /\ registers.lba + registers.count <= Information + 1
  BY InSectors
<1> QED
  BY <1>1, <1>2, <1>3, <1>4 DEF TypeInv, CallsTyped, DeviceTyped

-----------------------------------------------------------------------------
\* What the updates of a call do to its record

LEMMA StepNames ==
    /\ "idle" \in Steps /\ "lock" \in Steps /\ "noBusy" \in Steps
    /\ "registers" \in Steps /\ "ready" \in Steps /\ "clear" \in Steps
    /\ "command" \in Steps /\ "poll" \in Steps /\ "pollRequest" \in Steps
    /\ "wait" \in Steps /\ "waited" \in Steps /\ "data" \in Steps
    /\ "send" \in Steps /\ "sent" \in Steps /\ "written" \in Steps
    /\ "unlock" \in Steps
BY DEF Steps

LEMMA FieldTypes ==
    ASSUME NEW c \in CallRecords
    PROVE  /\ c.step \in Steps /\ c.op \in Operations
           /\ c.lba \in 0 .. Information /\ c.count \in 0 .. 256
           /\ c.lba \in Nat /\ c.count \in Nat
           /\ c.i \in Nat /\ c.buffer \in Buffers /\ c.bWaitResult \in BOOLEAN
           /\ c.result \in Nat /\ c.refused \in BOOLEAN /\ c.misread \in BOOLEAN
<1>1. c.lba \in 0 .. Information /\ c.count \in 0 .. 256
  BY DEF CallRecords
<1>2. Information \in Nat
  BY InformationBounds
<1>3. c.lba \in Nat /\ c.count \in Nat
  BY <1>1, <1>2
<1> QED
  BY <1>1, <1>3 DEF CallRecords

LEMMA Set_step ==
    ASSUME NEW c \in CallRecords, NEW x \in Steps
    PROVE  LET d == [c EXCEPT !.step = x] IN
           /\ d \in CallRecords /\ d.step = x
           /\ d.op = c.op /\ d.lba = c.lba /\ d.count = c.count /\ d.i = c.i
           /\ d.buffer = c.buffer /\ d.bWaitResult = c.bWaitResult /\ d.result = c.result /\ d.refused = c.refused /\ d.misread = c.misread
BY DEF CallRecords

LEMMA Set_i ==
    ASSUME NEW c \in CallRecords, NEW x \in Nat
    PROVE  LET d == [c EXCEPT !.i = x] IN
           /\ d \in CallRecords /\ d.i = x
           /\ d.step = c.step /\ d.op = c.op /\ d.lba = c.lba /\ d.count = c.count
           /\ d.buffer = c.buffer /\ d.bWaitResult = c.bWaitResult /\ d.result = c.result /\ d.refused = c.refused /\ d.misread = c.misread
BY DEF CallRecords

LEMMA Set_buffer ==
    ASSUME NEW c \in CallRecords, NEW x \in Buffers
    PROVE  LET d == [c EXCEPT !.buffer = x] IN
           /\ d \in CallRecords /\ d.buffer = x
           /\ d.step = c.step /\ d.op = c.op /\ d.lba = c.lba /\ d.count = c.count
           /\ d.i = c.i /\ d.bWaitResult = c.bWaitResult /\ d.result = c.result /\ d.refused = c.refused /\ d.misread = c.misread
BY DEF CallRecords

LEMMA Set_bWaitResult ==
    ASSUME NEW c \in CallRecords, NEW x \in BOOLEAN
    PROVE  LET d == [c EXCEPT !.bWaitResult = x] IN
           /\ d \in CallRecords /\ d.bWaitResult = x
           /\ d.step = c.step /\ d.op = c.op /\ d.lba = c.lba /\ d.count = c.count
           /\ d.i = c.i /\ d.buffer = c.buffer /\ d.result = c.result /\ d.refused = c.refused /\ d.misread = c.misread
BY DEF CallRecords

LEMMA Set_result ==
    ASSUME NEW c \in CallRecords, NEW x \in Nat
    PROVE  LET d == [c EXCEPT !.result = x] IN
           /\ d \in CallRecords /\ d.result = x
           /\ d.step = c.step /\ d.op = c.op /\ d.lba = c.lba /\ d.count = c.count
           /\ d.i = c.i /\ d.buffer = c.buffer /\ d.bWaitResult = c.bWaitResult /\ d.refused = c.refused /\ d.misread = c.misread
BY DEF CallRecords

LEMMA Set_refused ==
    ASSUME NEW c \in CallRecords, NEW x \in BOOLEAN
    PROVE  LET d == [c EXCEPT !.refused = x] IN
           /\ d \in CallRecords /\ d.refused = x
           /\ d.step = c.step /\ d.op = c.op /\ d.lba = c.lba /\ d.count = c.count
           /\ d.i = c.i /\ d.buffer = c.buffer /\ d.bWaitResult = c.bWaitResult /\ d.result = c.result /\ d.misread = c.misread
BY DEF CallRecords

LEMMA Set_misread ==
    ASSUME NEW c \in CallRecords, NEW x \in BOOLEAN
    PROVE  LET d == [c EXCEPT !.misread = x] IN
           /\ d \in CallRecords /\ d.misread = x
           /\ d.step = c.step /\ d.op = c.op /\ d.lba = c.lba /\ d.count = c.count
           /\ d.i = c.i /\ d.buffer = c.buffer /\ d.bWaitResult = c.bWaitResult /\ d.result = c.result /\ d.refused = c.refused
BY DEF CallRecords

LEMMA CommandTypes ==
    ASSUME NEW c \in CommandRecords
    PROVE  c.op \in Operations /\ c.lba \in Nat /\ c.left \in 0 .. 256 /\ c.data \in Sector
BY DEF CommandRecords

\* One sector of the command is done.
LEMMA CommandMoves ==
    ASSUME NEW c \in CommandRecords, c.left >= 1
    PROVE  LET d == [c EXCEPT !.lba = @ + 1, !.left = @ - 1] IN
           /\ d \in CommandRecords /\ d.lba = c.lba + 1 /\ d.left = c.left - 1
           /\ d.op = c.op /\ d.data = c.data
<1> DEFINE e == [c EXCEPT !.lba = c.lba + 1]
<1>1. c.lba + 1 \in Nat /\ c.left - 1 \in 0 .. 256
  BY CommandTypes
<1>2. /\ e \in CommandRecords /\ e.lba = c.lba + 1 /\ e.left = c.left
      /\ e.op = c.op /\ e.data = c.data
  BY <1>1 DEF CommandRecords
<1>3. ASSUME NEW e1 \in CommandRecords, NEW n \in 0 .. 256
      PROVE  LET d == [e1 EXCEPT !.left = n] IN
             /\ d \in CommandRecords /\ d.lba = e1.lba /\ d.left = n
             /\ d.op = e1.op /\ d.data = e1.data
  BY DEF CommandRecords
<1> DEFINE d == [e EXCEPT !.left = c.left - 1]
<1>4. [c EXCEPT !.lba = @ + 1, !.left = @ - 1] = d
  OBVIOUS
<1> HIDE DEF e
<1>5. /\ d \in CommandRecords /\ d.lba = e.lba /\ d.left = c.left - 1
      /\ d.op = e.op /\ d.data = e.data
  BY <1>1, <1>2, <1>3
<1> HIDE DEF d
<1> QED
  BY <1>2, <1>4, <1>5

LEMMA CommandData ==
    ASSUME NEW c \in CommandRecords, NEW x \in Sector
    PROVE  LET d == [c EXCEPT !.data = x] IN
           /\ d \in CommandRecords /\ d.lba = c.lba /\ d.left = c.left
           /\ d.op = c.op /\ d.data = x
BY DEF CommandRecords

\* A call that t goes on with, in the same function for the same sectors.
SameCall(d, c) == d.op = c.op /\ d.lba = c.lba /\ d.count = c.count

\* t's call becomes d, the others stay.
Becomes(t, d) ==
    /\ d \in CallRecords /\ SameCall(d, call[t])
    /\ call' \in [Tasks -> CallRecords]
    /\ call'[t] = d
    /\ \A u \in Tasks \ {t} : call'[u] = call[u]

\* The call that is c but for the step
Stepped(d, c, step) ==
    /\ d.step = step
    /\ d.i = c.i /\ d.buffer = c.buffer /\ d.result = c.result
    /\ d.bWaitResult = c.bWaitResult /\ d.refused = c.refused /\ d.misread = c.misread

LEMMA Put ==
    ASSUME call \in [Tasks -> CallRecords], NEW t \in Tasks, NEW d \in CallRecords,
           SameCall(d, call[t]), call' = [call EXCEPT ![t] = d]
    PROVE  Becomes(t, d)
BY DEF Becomes

LEMMA GoEffect ==
    ASSUME call \in [Tasks -> CallRecords], NEW t \in Tasks, NEW step \in Steps,
           Go(t, step)
    PROVE  Becomes(t, call'[t]) /\ Stepped(call'[t], call[t], step)
<1> DEFINE d == [call[t] EXCEPT !.step = step]
<1>1. /\ d \in CallRecords /\ SameCall(d, call[t]) /\ Stepped(d, call[t], step)
  BY Set_step DEF SameCall, Stepped
<1>2. call' = [call EXCEPT ![t] = d]
  BY DEF Go
<1> QED
  BY <1>1, <1>2, Put DEF Becomes

LEMMA FinishEffect ==
    ASSUME call \in [Tasks -> CallRecords], NEW t \in Tasks, NEW result \in Nat,
           Finish(t, result)
    PROVE  /\ Becomes(t, call'[t])
           /\ call'[t].step = "unlock" /\ call'[t].result = result
           /\ call'[t].i = call[t].i /\ call'[t].buffer = call[t].buffer
           /\ call'[t].refused = call[t].refused /\ call'[t].misread = call[t].misread
<1> DEFINE e == [call[t] EXCEPT !.step = "unlock"]
           d == [e EXCEPT !.result = result]
<1>1. /\ e \in CallRecords /\ SameCall(e, call[t]) /\ Stepped(e, call[t], "unlock")
  BY Set_step, StepNames DEF SameCall, Stepped
<1>2. /\ d \in CallRecords /\ SameCall(d, e)
      /\ d.step = "unlock" /\ d.result = result /\ d.i = e.i /\ d.buffer = e.buffer
      /\ d.refused = e.refused /\ d.misread = e.misread
  BY <1>1, Set_result DEF SameCall, Stepped
<1>3. call' = [call EXCEPT ![t] = d]
  BY DEF Finish
<1> HIDE DEF e, d
<1> QED
  BY <1>1, <1>2, <1>3, Put DEF Becomes, SameCall, Stepped

LEMMA Next1Effect ==
    ASSUME call \in [Tasks -> CallRecords], NEW t \in Tasks, NEW next \in Steps,
           NEW buffer \in Buffers, Next1(t, next, buffer)
    PROVE  LET more == call[t].i + 1 < call[t].count
           IN  /\ Becomes(t, call'[t])
               /\ call'[t].step = IF more THEN next ELSE "unlock"
               /\ call'[t].i = call[t].i + 1 /\ call'[t].buffer = buffer
               /\ call'[t].result = IF more THEN call[t].result ELSE call[t].count
               /\ call'[t].refused = call[t].refused /\ call'[t].misread = call[t].misread
<1> DEFINE c == call[t]
           more == c.i + 1 < c.count
           step == IF more THEN next ELSE "unlock"
           result == IF more THEN c.result ELSE c.count
           c1 == [c EXCEPT !.buffer = buffer]
           c2 == [c1 EXCEPT !.i = c.i + 1]
           c3 == [c2 EXCEPT !.step = step]
           d == [c3 EXCEPT !.result = result]
<1> HIDE DEF step, result, c1, c2, c3, d
<1>1. c \in CallRecords /\ step \in Steps /\ result \in Nat /\ c.i + 1 \in Nat
  BY FieldTypes, StepNames DEF step, result
<1>2. /\ c1 \in CallRecords /\ SameCall(c1, c) /\ c1.i = c.i /\ c1.buffer = buffer
      /\ c1.result = c.result /\ c1.refused = c.refused /\ c1.misread = c.misread
  BY <1>1, Set_buffer DEF SameCall, c1
<1>3. /\ c2 \in CallRecords /\ SameCall(c2, c) /\ c2.i = c.i + 1 /\ c2.buffer = buffer
      /\ c2.result = c.result /\ c2.refused = c.refused /\ c2.misread = c.misread
  BY <1>1, <1>2, Set_i DEF SameCall, c2
<1>4. /\ c3 \in CallRecords /\ SameCall(c3, c) /\ c3.i = c.i + 1 /\ c3.buffer = buffer
      /\ c3.result = c.result /\ c3.refused = c.refused /\ c3.misread = c.misread
      /\ c3.step = step
  BY <1>1, <1>3, Set_step DEF SameCall, c3
<1>5. /\ d \in CallRecords /\ SameCall(d, c) /\ d.i = c.i + 1 /\ d.buffer = buffer
      /\ d.result = result /\ d.refused = c.refused /\ d.misread = c.misread
      /\ d.step = step
  BY <1>1, <1>4, Set_result DEF SameCall, d
<1>6. call' = [call EXCEPT ![t] = d]
  BY DEF Next1, step, result, c1, c2, c3, d
<1> QED
  BY <1>5, <1>6, Put DEF Becomes, step, result

LEMMA RefuseEffect ==
    ASSUME call \in [Tasks -> CallRecords], NEW t \in Tasks, NEW step \in Steps,
           NEW x \in BOOLEAN,
           call' = [call EXCEPT ![t] = [@ EXCEPT !.step = step, !.refused = x]]
    PROVE  /\ Becomes(t, call'[t]) /\ call'[t].step = step /\ call'[t].refused = x
           /\ call'[t].i = call[t].i /\ call'[t].buffer = call[t].buffer
           /\ call'[t].result = call[t].result /\ call'[t].bWaitResult = call[t].bWaitResult
           /\ call'[t].misread = call[t].misread
<1> DEFINE e == [call[t] EXCEPT !.step = step]
           d == [e EXCEPT !.refused = x]
<1>1. e \in CallRecords /\ SameCall(e, call[t]) /\ Stepped(e, call[t], step)
  BY Set_step DEF SameCall, Stepped
<1>2. /\ d \in CallRecords /\ SameCall(d, e) /\ d.step = step /\ d.refused = x
      /\ d.i = e.i /\ d.buffer = e.buffer /\ d.result = e.result /\ d.bWaitResult = e.bWaitResult /\ d.misread = e.misread
  BY <1>1, Set_refused DEF SameCall, Stepped
<1>3. call' = [call EXCEPT ![t] = d]
  OBVIOUS
<1> HIDE DEF e, d
<1> QED
  BY <1>1, <1>2, <1>3, Put DEF Becomes, SameCall, Stepped

LEMMA WaitEffect ==
    ASSUME call \in [Tasks -> CallRecords], NEW t \in Tasks, NEW step \in Steps,
           NEW x \in BOOLEAN,
           call' = [call EXCEPT ![t] = [@ EXCEPT !.step = step, !.bWaitResult = x]]
    PROVE  /\ Becomes(t, call'[t]) /\ call'[t].step = step /\ call'[t].bWaitResult = x
           /\ call'[t].i = call[t].i /\ call'[t].buffer = call[t].buffer
           /\ call'[t].result = call[t].result /\ call'[t].refused = call[t].refused
           /\ call'[t].misread = call[t].misread
<1> DEFINE e == [call[t] EXCEPT !.step = step]
           d == [e EXCEPT !.bWaitResult = x]
<1>1. e \in CallRecords /\ SameCall(e, call[t]) /\ Stepped(e, call[t], step)
  BY Set_step DEF SameCall, Stepped
<1>2. /\ d \in CallRecords /\ SameCall(d, e) /\ d.step = step /\ d.bWaitResult = x
      /\ d.i = e.i /\ d.buffer = e.buffer /\ d.result = e.result /\ d.refused = e.refused /\ d.misread = e.misread
  BY <1>1, Set_bWaitResult DEF SameCall, Stepped
<1>3. call' = [call EXCEPT ![t] = d]
  OBVIOUS
<1> HIDE DEF e, d
<1> QED
  BY <1>1, <1>2, <1>3, Put DEF Becomes, SameCall, Stepped

LEMMA MisreadEffect ==
    ASSUME call \in [Tasks -> CallRecords], NEW t \in Tasks, NEW step \in Steps,
           NEW x \in BOOLEAN,
           call' = [call EXCEPT ![t] = [@ EXCEPT !.step = step, !.misread = x]]
    PROVE  /\ Becomes(t, call'[t]) /\ call'[t].step = step /\ call'[t].misread = x
           /\ call'[t].i = call[t].i /\ call'[t].buffer = call[t].buffer
           /\ call'[t].result = call[t].result /\ call'[t].bWaitResult = call[t].bWaitResult
           /\ call'[t].refused = call[t].refused
<1> DEFINE e == [call[t] EXCEPT !.step = step]
           d == [e EXCEPT !.misread = x]
<1>1. e \in CallRecords /\ SameCall(e, call[t]) /\ Stepped(e, call[t], step)
  BY Set_step DEF SameCall, Stepped
<1>2. /\ d \in CallRecords /\ SameCall(d, e) /\ d.step = step /\ d.misread = x
      /\ d.i = e.i /\ d.buffer = e.buffer /\ d.result = e.result /\ d.bWaitResult = e.bWaitResult /\ d.refused = e.refused
  BY <1>1, Set_misread DEF SameCall, Stepped
<1>3. call' = [call EXCEPT ![t] = d]
  OBVIOUS
<1> HIDE DEF e, d
<1> QED
  BY <1>1, <1>2, <1>3, Put DEF Becomes, SameCall, Stepped

-----------------------------------------------------------------------------
\* The types, step by step

\* What TypeInv says of the call c.
Typed(c) == c \in CallRecords /\ CallOK(c)

\* A call that goes on keeps its bounds.
LEMMA Onward ==
    ASSUME NEW c, Typed(c), NEW d \in CallRecords, SameCall(d, c), d.buffer = c.buffer,
           c.step # "idle", d.step = "unlock" \/ d.i < d.count,
           d.i <= d.count, d.result <= d.count
    PROVE  CallOK(d)
BY DEF Typed, CallOK, SameCall

LEMMA CallStep ==
    ASSUME TypeInv, NEW t \in Tasks, Step(t)
    PROVE  CallsTyped'
<1> DEFINE c == call[t]
           Goal == /\ call' \in [Tasks -> CallRecords] /\ CallOK(call'[t])
                   /\ \A u \in Tasks \ {t} : call'[u] = call[u]
<1>0. /\ call \in [Tasks -> CallRecords] /\ Typed(c) /\ c \in CallRecords
      /\ c.i \in Nat /\ c.count \in 0 .. 256 /\ c.result \in Nat /\ c.i <= c.count
      /\ c.result <= c.count
      /\ c.step \notin {"idle", "unlock"} => c.i < c.count
  BY FieldTypes DEF TypeInv, CallsTyped, DeviceTyped, CallOK, Typed
<1>1. ASSUME NEW step \in Steps, step # "idle", Go(t, step), c.step \notin {"idle", "unlock"}
      PROVE  Goal
  BY <1>0, <1>1, GoEffect, Onward DEF Becomes, Stepped, SameCall
<1>2. ASSUME NEW result \in 0 .. c.count, Finish(t, result), c.step # "idle"
      PROVE  Goal
  BY <1>0, <1>2, FinishEffect, Onward DEF Becomes, SameCall
<1>3. SUFFICES Goal
  BY DEF TypeInv, CallsTyped, DeviceTyped
<1>4. CASE Lock(t)
  BY <1>1, <1>4, StepNames DEF Lock, At
<1>5. CASE NoBusy(t)
  BY <1>1, <1>5, StepNames DEF NoBusy, At
<1>6. CASE StillBusy(t)
  <2>1. CASE Calls(t, "write")
    <3>1. Becomes(t, call'[t]) /\ Stepped(call'[t], c, "idle")
      BY <1>0, <1>6, <2>1, GoEffect, StepNames DEF StillBusy
    <3> QED
      BY <1>0, <3>1 DEF Becomes, SameCall, Stepped, Typed, CallOK
  <2>2. CASE ~Calls(t, "write")
    BY <1>0, <1>2, <1>6, <2>2 DEF StillBusy, At
  <2> QED
    BY <2>1, <2>2
<1>7. CASE SetRegisters(t)
  <2>1. PICK x \in BOOLEAN : call' = [call EXCEPT ![t] = [@ EXCEPT !.step = "ready", !.refused = x]]
    BY <1>7 DEF SetRegisters, TakesCommands
  <2>2. /\ Becomes(t, call'[t]) /\ call'[t].step = "ready" /\ call'[t].i = c.i
        /\ call'[t].buffer = c.buffer /\ call'[t].result = c.result
    BY <1>0, <2>1, RefuseEffect, StepNames
  <2> QED
    BY <1>0, <1>7, <2>2, Onward DEF Becomes, SameCall, SetRegisters, At
<1>8. CASE Ready(t)
  BY <1>1, <1>8, StepNames DEF Ready, At
<1>9. CASE NotReady(t)
  BY <1>0, <1>2, <1>9 DEF NotReady, At
<1>10. CASE ClearFlag(t)
  BY <1>1, <1>10, StepNames DEF ClearFlag, At
<1>11. CASE SendCommand(t)
  <2>1. PICK step \in Steps, x \in BOOLEAN : step # "idle" /\
          call' = [call EXCEPT ![t] = [@ EXCEPT !.step = step, !.refused = x]]
    BY <1>0, <1>11, FieldTypes, StepNames DEF SendCommand, TakesCommands, Calls, Operations
  <2>2. /\ Becomes(t, call'[t]) /\ call'[t].step = step /\ call'[t].i = c.i
        /\ call'[t].buffer = c.buffer /\ call'[t].result = c.result
    BY <1>0, <2>1, RefuseEffect
  <2> QED
    BY <1>0, <1>11, <2>2, Onward DEF Becomes, SameCall, SendCommand, At
<1>12. CASE Poll(t)
  <2>1. c.step \in {"poll", "pollRequest", "sent"}
    BY <1>12 DEF Poll
  <2>2. CASE status = "error"
    BY <1>0, <1>2, <1>12, <2>1, <2>2 DEF Poll
  <2>3. CASE status = "request" /\ c.step # "sent"
    BY <1>1, <1>12, <2>1, <2>3, StepNames DEF Poll, At
  <2>4. CASE status = "request" /\ c.step = "sent"
    <3>1. c.buffer \in Buffers /\ Next1(t, "clear", c.buffer)
      BY <1>0, <1>12, <2>4, FieldTypes DEF Poll, At
    <3> HIDE DEF Goal
    <3>2. /\ Becomes(t, call'[t]) /\ call'[t].i = c.i + 1 /\ call'[t].buffer = c.buffer
          /\ call'[t].step = IF c.i + 1 < c.count THEN "clear" ELSE "unlock"
          /\ call'[t].result = IF c.i + 1 < c.count THEN c.result ELSE c.count
      BY <1>0, <3>1, Next1Effect, StepNames
    <3> QED
      BY <1>0, <2>1, <3>2, Onward DEF Goal, Becomes, SameCall
  <2>5. CASE status \notin {"error", "request"}
    BY <1>1, <1>12, <2>1, <2>5, StepNames DEF Poll, At
  <2> QED
    BY <2>2, <2>3, <2>4, <2>5
<1>13. CASE WaitOver(t) \/ TimeOut(t)
  <2>1. PICK x \in BOOLEAN : call' = [call EXCEPT ![t] = [@ EXCEPT !.step = "waited", !.bWaitResult = x]]
    BY <1>13 DEF WaitOver, TimeOut
  <2>2. /\ Becomes(t, call'[t]) /\ call'[t].step = "waited" /\ call'[t].i = c.i
        /\ call'[t].buffer = c.buffer /\ call'[t].result = c.result
    BY <1>0, <2>1, WaitEffect, StepNames
  <2> QED
    BY <1>0, <1>13, <2>2, Onward DEF Becomes, SameCall, WaitOver, TimeOut, At
<1>14. CASE Waited(t)
  <2>1. c.step = "waited"
    BY <1>14 DEF Waited, At
  <2>2. CASE ~c.bWaitResult
    BY <1>0, <1>2, <1>14, <2>1, <2>2 DEF Waited
  <2>3. CASE c.bWaitResult /\ status = "error"
    <3>1. PICK step \in Steps : step # "idle" /\
            call' = [call EXCEPT ![t] = [@ EXCEPT !.step = step, !.misread = TRUE]]
      BY <1>14, <2>3, StepNames DEF Waited
    <3>2. /\ Becomes(t, call'[t]) /\ call'[t].step = step /\ call'[t].i = c.i
          /\ call'[t].buffer = c.buffer /\ call'[t].result = c.result
      BY <1>0, <3>1, MisreadEffect
    <3> QED
      BY <1>0, <2>1, <3>2, Onward DEF Becomes, SameCall
  <2>4. CASE c.bWaitResult /\ status # "error"
    BY <1>1, <1>14, <2>1, <2>4, StepNames DEF Waited
  <2> QED
    BY <2>2, <2>3, <2>4
<1>15. CASE WaitedIdentify(t)
  BY <1>0, <1>1, <1>2, <1>15, StepNames DEF WaitedIdentify, At
<1>16. CASE ReadData(t)
  <2>1. c.step = "data"
    BY <1>16 DEF ReadData, At
  <2>2. PICK s \in Sector : Next1(t, "poll", [c.buffer EXCEPT ![c.i] = s])
    <3>1. command.lba \in Nat /\ command.left \in Nat
      <4>1. command \in CommandRecords
        BY DEF TypeInv, CallsTyped, DeviceTyped
      <4> QED
        BY <4>1, CommandTypes
    <3>2. status = "request" => disk[command.lba] \in Sector
      <4>1. status = "request" => command.lba \in 0 .. Information
        BY <3>1, InformationBounds DEF TypeInv, CallsTyped, DeviceTyped
      <4>2. disk \in [0 .. Information -> Data] /\ Data \subseteq Sector
        BY DEF TypeInv, CallsTyped, DeviceTyped, Sector
      <4> QED
        BY <4>1, <4>2
    <3>3. Junk \in Sector
      BY DEF Sector
    <3> DEFINE offers == status = "request" /\ command.op # "write"
               s == IF offers THEN disk[command.lba] ELSE Junk
    <3>4. s \in Sector
      <4>1. CASE offers
        BY <3>2, <4>1
      <4>2. CASE ~offers
        BY <3>3, <4>2
      <4> QED
        BY <4>1, <4>2
    <3>5. Next1(t, "poll", [c.buffer EXCEPT ![c.i] = s])
      BY <1>16 DEF ReadData
    <3> HIDE DEF s
    <3> QED
      BY <3>4, <3>5
  <2>3. /\ [c.buffer EXCEPT ![c.i] = s] \in [0 .. c.count - 1 -> Sector]
        /\ [c.buffer EXCEPT ![c.i] = s] \in Buffers
    BY <1>0, IsBuffer DEF Typed, CallOK
  <2> DEFINE b == [c.buffer EXCEPT ![c.i] = s]
  <2> HIDE DEF b
  <2>4. /\ Becomes(t, call'[t]) /\ call'[t].i = c.i + 1 /\ call'[t].buffer = b
        /\ call'[t].step = IF c.i + 1 < c.count THEN "poll" ELSE "unlock"
        /\ call'[t].result = IF c.i + 1 < c.count THEN c.result ELSE c.count
    BY <1>0, <2>2, <2>3, Next1Effect, StepNames DEF b
  <2>5. b \in [0 .. c.count - 1 -> Sector]
    BY <2>3 DEF b
  <2> QED
    <3> DEFINE d == call'[t]
    <3>1. /\ d \in CallRecords /\ SameCall(d, c) /\ d.buffer = b /\ d.step # "idle"
          /\ d.i <= d.count /\ d.result <= d.count
          /\ d.step = "unlock" \/ d.i < d.count
      BY <1>0, <2>1, <2>4 DEF Becomes, SameCall
    <3>2. CallOK(c) /\ c.step # "idle"
      BY <1>0, <2>1 DEF Typed
    <3> HIDE DEF d
    <3>3. CallOK(d)
      BY <2>5, <3>1, <3>2 DEF SameCall, CallOK
    <3>4. call' \in [Tasks -> CallRecords] /\ \A u \in Tasks \ {t} : call'[u] = call[u]
      BY <2>4 DEF Becomes
    <3>5. CallOK(call'[t])
      BY <3>3 DEF d
    <3> QED
      BY <3>4, <3>5
<1>17. CASE WriteData(t)
  BY <1>1, <1>17, StepNames DEF WriteData, At
<1>18. CASE Written(t)
  <2>1. c.step = "written"
    BY <1>18 DEF Written, At
  <2>2. c.buffer \in Buffers /\ Next1(t, "clear", c.buffer)
    BY <1>0, <1>18, FieldTypes DEF Written
  <2>3. /\ Becomes(t, call'[t]) /\ call'[t].i = c.i + 1 /\ call'[t].buffer = c.buffer
        /\ call'[t].step = IF c.i + 1 < c.count THEN "clear" ELSE "unlock"
        /\ call'[t].result = IF c.i + 1 < c.count THEN c.result ELSE c.count
    BY <1>0, <2>2, Next1Effect, StepNames
  <2> QED
    BY <1>0, <2>1, <2>3, Onward DEF Becomes, SameCall
<1>19. CASE Unlock(t)
  BY <1>0, <1>19, IdleTyped DEF Unlock
<1> QED
  BY <1>4, <1>5, <1>6, <1>7, <1>8, <1>9, <1>10, <1>11, <1>12, <1>13, <1>14, <1>15, <1>16, <1>17, <1>18, <1>19 DEF Step

LEMMA NewTyped ==
    ASSUME NEW step \in Steps, step # "idle", NEW op \in Operations,
           NEW lba \in 0 .. Information, NEW count \in 1 .. 256,
           NEW b \in [0 .. count - 1 -> Sector],
           lba + count <= Information + 1,
           op # "identify" => lba + count <= Information
    PROVE  Typed(NewCall(step, op, lba, count, b))
<1>1. b \in Buffers
  <2>1. count \in 0 .. 256
    OBVIOUS
  <2> QED
    BY <2>1, IsBuffer
<1>2. NewCall(step, op, lba, count, b) \in CallRecords
  BY <1>1 DEF CallRecords, NewCall
<1> QED
  BY <1>2, InformationBounds DEF Typed, CallOK, NewCall

LEMMA CallBegins ==
    ASSUME TypeInv, NEW t \in Tasks, Call(t)
    PROVE  CallsTyped'
<1> USE InformationBounds
<1>0. call \in [Tasks -> CallRecords] /\ \A u \in Tasks : CallOK(call[u])
  BY DEF TypeInv, CallsTyped, DeviceTyped
<1>2. ASSUME NEW d, Typed(d), call' = [call EXCEPT ![t] = d]
      PROVE  CallsTyped'
  BY <1>0, <1>2 DEF Typed, CallsTyped
<1>3. ASSUME NEW op \in {"read", "write"}, NEW lba \in Sectors,
             NEW count \in ReadCounts \cup WriteCounts, NEW version \in Versions \cup {0},
             Begin(t, op, lba, count, version)
      PROVE  CallsTyped'
  <2> DEFINE b == [k \in 0 .. count - 1 |->
                     IF op = "write" THEN Content(lba + k, version) ELSE Junk]
             step == IF op = "write" THEN "noBusy" ELSE "lock"
  <2>0. step \in Steps /\ step # "idle"
    BY StepNames
  <2> HIDE DEF step
  <2>1. /\ count \in 1 .. 256 /\ lba \in 0 .. Information /\ lba + count <= Information
        /\ op \in Operations /\ op # "identify"
    <3>1. count \in 1 .. 256 /\ op \in Operations /\ op # "identify"
      BY HardDiskAssumption DEF Operations
    <3>2. lba + count < dwTotalSectors
      BY <1>3 DEF Begin
    <3>3. lba \in Nat
      BY InSectors
    <3> QED
      BY <3>1, <3>2, <3>3 DEF Information
  <2>2. b \in [0 .. count - 1 -> Sector]
    <3>1. \A k \in 0 .. count - 1 : Content(lba + k, version) \in Sector
      BY <2>1, DataKept DEF Sector
    <3> QED
      BY <3>1 DEF Sector
  <2>3. call' = [call EXCEPT ![t] = NewCall(step, op, lba, count, b)]
    BY <1>3 DEF Begin, step, b
  <2> HIDE DEF b
  <2>4. Typed(NewCall(step, op, lba, count, b))
    <3>1. lba + count <= Information + 1
      BY <2>1
    <3> QED
      BY <2>0, <2>1, <2>2, <3>1, NewTyped
  <2> QED
    BY <1>2, <2>3, <2>4
<1>4. ASSUME Identify(t)
      PROVE  CallsTyped'
  <2> DEFINE b == [k \in {0} |-> Junk]
  <2>1. b \in [0 .. 1 - 1 -> Sector]
    BY DEF Sector
  <2>2. call' = [call EXCEPT ![t] = NewCall("lock", "identify", Information, 1, b)]
    BY <1>4 DEF Identify, b
  <2> HIDE DEF b
  <2>3. Typed(NewCall("lock", "identify", Information, 1, b))
    <3>1. /\ Information \in 0 .. Information /\ 1 \in 1 .. 256
          /\ "identify" \in Operations /\ "lock" # "idle"
          /\ Information + 1 <= Information + 1
      BY DEF Operations
    <3> QED
      BY <2>1, <3>1, NewTyped, StepNames
  <2> QED
    BY <1>2, <2>2, <2>3
<1> QED
  BY <1>3, <1>4 DEF Call

LEMMA DeviceStep ==
    ASSUME TypeInv, NEW t \in Tasks, Step(t)
    PROVE  DeviceTyped'
<1> DEFINE c == call[t]
<1>0. /\ c \in CallRecords /\ CallOK(c) /\ command \in CommandRecords /\ DeviceTyped
      /\ command.lba \in Nat /\ command.left \in 0 .. 256
      /\ c.op \in Operations
  <2>1. c \in CallRecords /\ CallOK(c) /\ command \in CommandRecords /\ DeviceTyped
    BY DEF TypeInv, CallsTyped, DeviceTyped
  <2> HIDE DEF c
  <2> QED
    BY <2>1, CommandTypes, FieldTypes
<1>00. /\ c.lba \in Nat /\ c.count \in Nat /\ c.count <= 256 /\ c.i \in Nat
       /\ command.lba \in Nat /\ command.left \in Nat /\ Information \in Nat
  <2> HIDE DEF c
  <2>1. c.count \in 0 .. 256 /\ c.lba \in Nat /\ c.i \in Nat
    BY <1>0, FieldTypes
  <2>2. command.left \in 0 .. 256 /\ command.lba \in Nat
    BY <1>0
  <2> QED
    BY <2>1, <2>2, InformationBounds
<1>1. CASE UNCHANGED device
  BY <1>0, <1>1 DEF device, DeviceTyped
<1>2. CASE SetRegisters(t)
  <2>1. c.step = "registers" /\ c.i < c.count
    BY <1>0, <1>00, <1>2 DEF SetRegisters, At, CallOK
  <2>2. c.op # "identify" => c.lba + c.count <= Information
    BY <1>0, <2>1 DEF CallOK
  <2>3. c.count >= 1
    BY <1>00, <2>1
  <2> HIDE DEF c
  <2>4. c.op # "identify" => c.lba \in Sectors /\ c.count \in 1 .. 256
    BY <1>00, <2>2, <2>3, InSectors
  <2> QED
    <3>1. CASE TakesCommands /\ c.op # "identify"
      <4>1. registers' = [lba |-> c.lba, count |-> c.count] /\ UNCHANGED <<disk, status, command>>
        BY <1>2, <3>1 DEF SetRegisters, Calls, c
      <4>2. /\ registers' \in [lba : Sectors, count : 1 .. 256]
            /\ registers'.lba = c.lba /\ registers'.count = c.count
        BY <2>4, <3>1, <4>1
      <4>3. c.lba + c.count <= Information + 1
        BY <1>00, <2>2, <3>1
      <4> QED
        BY <1>0, <4>1, <4>2, <4>3 DEF DeviceTyped
    <3>2. CASE ~(TakesCommands /\ c.op # "identify")
      BY <1>0, <1>2, <3>2 DEF SetRegisters, Calls, DeviceTyped, c
    <3> QED
      BY <3>1, <3>2
<1>3. CASE SendCommand(t)
  <2>1. CASE TakesCommands
    <3>2. /\ registers.lba \in Nat /\ registers.count \in 1 .. 256
          /\ registers.lba + registers.count <= Information + 1
      BY <1>0, InSectors DEF DeviceTyped
    <3> DEFINE lba == IF Calls(t, "identify") THEN Information ELSE registers.lba
               left == IF Calls(t, "identify") THEN 1 ELSE registers.count
    <3>3. left \in 1 .. 256 /\ left \in 0 .. 256 /\ lba \in Nat /\ lba + left <= Information + 1
      BY <3>2, InformationBounds
    <3>4. /\ command' = [op |-> c.op, data |-> Junk, lba |-> lba, left |-> left]
          /\ status' = "busy" /\ UNCHANGED <<disk, registers>>
      BY <1>3, <2>1 DEF SendCommand
    <3> HIDE DEF lba, left, c
    <3>5. command' \in CommandRecords /\ command'.lba = lba /\ command'.left = left
      BY <1>0, <3>3, <3>4 DEF CommandRecords, Sector
    <3>6. command'.left >= 1 /\ command'.lba + command'.left <= Information + 1
      BY <3>3, <3>5
    <3> QED
      BY <1>0, <3>4, <3>5, <3>6 DEF DeviceTyped
  <2>2. CASE ~TakesCommands
    BY <1>0, <1>3, <2>2 DEF SendCommand, DeviceTyped
  <2> QED
    BY <2>1, <2>2
<1>4. CASE ReadData(t)
  <2>1. CASE status = "request" /\ command.op # "write"
    <3>1. /\ command' = [command EXCEPT !.lba = @ + 1, !.left = @ - 1]
          /\ status' = IF command.left = 1 THEN "ready" ELSE "busy"
          /\ UNCHANGED <<disk, registers>>
      BY <1>4, <2>1 DEF ReadData
    <3>2. command.left >= 1 /\ command.lba + command.left <= Information + 1
      BY <1>0, <2>1 DEF DeviceTyped
    <3>3. command' \in CommandRecords /\ command'.lba = command.lba + 1 /\ command'.left = command.left - 1
      BY <1>0, <3>1, <3>2, CommandMoves
    <3>4. status' = "busy" => command'.left >= 1
      BY <1>00, <3>1, <3>2, <3>3
    <3>5. command'.lba + command'.left <= Information + 1
      BY <1>00, <3>2, <3>3
    <3> QED
      BY <1>0, <3>1, <3>3, <3>4, <3>5 DEF DeviceTyped
  <2>2. CASE ~(status = "request" /\ command.op # "write")
    BY <1>0, <1>4, <2>2 DEF ReadData, DeviceTyped
  <2> QED
    BY <2>1, <2>2
<1>5. CASE WriteData(t)
  <2>1. CASE status = "request" /\ command.op = "write"
    <3>1. /\ command' = [command EXCEPT !.data = c.buffer[c.i]]
          /\ status' = "busy" /\ UNCHANGED <<disk, registers>>
      BY <1>5, <2>1 DEF WriteData
    <3>2. c.i \in 0 .. c.count - 1 /\ c.buffer[c.i] \in Sector
      <4>2. c.i < c.count /\ c.buffer \in [0 .. c.count - 1 -> Sector]
        BY <1>0, <1>5 DEF WriteData, At, CallOK
      <4> HIDE DEF c
      <4>3. c.i \in 0 .. c.count - 1
        <5>1. c.i < c.count
          BY <4>2
        <5> QED
          BY <1>00, <5>1
      <4> QED
        BY <4>2, <4>3
    <3>3. command' \in CommandRecords /\ command'.lba = command.lba /\ command'.left = command.left
      BY <1>0, <3>1, <3>2, CommandData
    <3> QED
      BY <1>0, <2>1, <3>1, <3>3 DEF DeviceTyped
  <2>2. CASE ~(status = "request" /\ command.op = "write")
    BY <1>0, <1>5, <2>2 DEF WriteData, DeviceTyped
  <2> QED
    BY <2>1, <2>2
<1> QED
  BY <1>1, <1>2, <1>3, <1>4, <1>5 DEF Step, Lock, NoBusy, StillBusy, Ready, NotReady, ClearFlag,
     Poll, WaitOver, TimeOut, Waited, WaitedIdentify, Written, Unlock

LEMMA TypeStep == TypeInv /\ [Next]_vars => TypeInv'
<1> SUFFICES ASSUME TypeInv, [Next]_vars PROVE TypeInv'
  OBVIOUS
<1> USE InformationBounds
<1>0. command \in CommandRecords /\ command.lba \in Nat /\ command.left \in 0 .. 256 /\ command.data \in Sector
  <2>1. command \in CommandRecords
    BY DEF TypeInv, DeviceTyped
  <2> QED
    BY <2>1, CommandTypes
<1>1. ASSUME NEW t \in Tasks, Call(t) PROVE TypeInv'
  <2>1. UNCHANGED <<bPrimaryInterruptOccur, owner, irq, device, late>>
    BY <1>1 DEF Call, Begin, Identify
  <2> QED
    BY <1>1, <2>1, CallBegins DEF TypeInv, DeviceTyped, device
<1>2. ASSUME NEW t \in Tasks, Step(t) PROVE TypeInv'
  <2>1. /\ bPrimaryInterruptOccur' \in BOOLEAN /\ irq' \in BOOLEAN /\ late' \in BOOLEAN
        /\ owner' \in Tasks \cup {NoTask}
    BY <1>2 DEF TypeInv, Step, Lock, NoBusy, StillBusy, SetRegisters, Ready, NotReady, ClearFlag,
       SendCommand, Poll, WaitOver, TimeOut, Waited, WaitedIdentify, ReadData, WriteData, Written,
       Unlock, SetFlag
  <2> QED
    BY <1>2, <2>1, CallStep, DeviceStep DEF TypeInv
<1>3. CASE Answer
  <2>1. CASE command.op = "write" /\ command.data # Junk
    <3>1. /\ disk' = [disk EXCEPT ![command.lba] = command.data]
          /\ command' = [command EXCEPT !.lba = @ + 1, !.left = @ - 1, !.data = Junk]
          /\ status' = IF command.left = 1 THEN "ready" ELSE "request"
          /\ UNCHANGED registers /\ status = "busy"
      BY <1>3, <2>1 DEF Answer
    <3>2. disk' \in [0 .. Information -> Data]
      BY <1>0, <2>1, <3>1 DEF TypeInv, DeviceTyped, Sector
    <3> DEFINE moved == [command EXCEPT !.lba = @ + 1, !.left = @ - 1]
    <3>3. command.left >= 1 /\ command.lba + command.left <= Information + 1
      BY <3>1 DEF TypeInv, DeviceTyped
    <3>4. moved \in CommandRecords /\ moved.lba = command.lba + 1 /\ moved.left = command.left - 1
      BY <1>0, <3>3, CommandMoves
    <3>5. command' = [moved EXCEPT !.data = Junk]
      BY <3>1
    <3> HIDE DEF moved
    <3>6. /\ command' \in CommandRecords
          /\ command'.lba = command.lba + 1 /\ command'.left = command.left - 1
      BY <3>4, <3>5, CommandData DEF Sector
    <3>7. /\ status' = "request" => command'.left >= 1
          /\ status' \in {"ready", "request"}
          /\ command'.lba + command'.left <= Information + 1
      <4>0. command.left \in 0 .. 256
        BY <1>0
      <4>1. command.left \in Nat /\ Information \in Nat
        BY <4>0, InformationBounds
      <4>2. status' = IF command.left = 1 THEN "ready" ELSE "request"
        BY <3>1
      <4> QED
        BY <1>0, <4>1, <4>2, <3>3, <3>6
    <3>8. DeviceTyped'
      BY <3>1, <3>2, <3>6, <3>7 DEF TypeInv, DeviceTyped
    <3> QED
      BY <1>3, <3>8 DEF Answer, TypeInv, CallsTyped
  <2>2. CASE ~(command.op = "write" /\ command.data # Junk)
    BY <1>3, <2>2 DEF Answer, TypeInv, CallsTyped, DeviceTyped
  <2> QED
    BY <2>1, <2>2
<1>4. CASE Fail
  <2>1. NoCommand \in CommandRecords
    BY DEF NoCommand, CommandRecords, Operations, Sector
  <2> QED
    BY <1>4, <2>1 DEF Fail, TypeInv, CallsTyped, DeviceTyped
<1>5. CASE HDDHandler
  BY <1>5 DEF HDDHandler, TypeInv, CallsTyped, DeviceTyped, device
<1>6. CASE UNCHANGED vars
  BY <1>6 DEF vars, device, TypeInv, CallsTyped, DeviceTyped
<1> QED
  BY <1>1, <1>2, <1>3, <1>4, <1>5, <1>6 DEF Next

LEMMA TypeInvType == TypeInv => TypeOK
<1> SUFFICES ASSUME TypeInv PROVE TypeOK
  OBVIOUS
<1>1. ASSUME NEW t \in Tasks
      PROVE  LET c == call[t] IN
             /\ c.step \in Steps /\ c.op \in Operations
             /\ c.lba \in 0 .. Information /\ c.count \in 0 .. 256
             /\ c.i \in 0 .. c.count /\ c.result \in 0 .. c.count
             /\ DOMAIN c.buffer = 0 .. c.count - 1
             /\ \A k \in DOMAIN c.buffer : c.buffer[k] \in Data \cup {Junk}
             /\ c.bWaitResult \in BOOLEAN /\ c.refused \in BOOLEAN /\ c.misread \in BOOLEAN
  <2>1. call[t] \in CallRecords /\ CallOK(call[t])
    BY DEF TypeInv, CallsTyped
  <2> DEFINE c == call[t]
  <2>2. /\ c.count \in Nat /\ c.i \in Nat /\ c.result \in Nat
        /\ c.i <= c.count /\ c.result <= c.count
    BY <2>1, FieldTypes DEF CallOK
  <2>3. c.i \in 0 .. c.count /\ c.result \in 0 .. c.count
    BY <2>2
  <2>4. c.buffer \in [0 .. c.count - 1 -> Data \cup {Junk}]
    BY <2>1 DEF CallOK, Sector
  <2> QED
    BY <2>1, <2>3, <2>4, FieldTypes
<1>2. /\ registers.lba \in Sectors /\ registers.count \in 1 .. 256
      /\ command.op \in Operations /\ command.data \in Data \cup {Junk}
      /\ command.left \in 0 .. 256
  <2>1. command \in CommandRecords
    BY DEF TypeInv, DeviceTyped
  <2> QED
    BY <2>1, CommandTypes DEF TypeInv, DeviceTyped, Sector
<1> QED
  BY <1>1, <1>2 DEF TypeInv, DeviceTyped, TypeOK

\* In every state every call, the disk's registers and its command keep their
\* types, and no call goes past the sectors it asks for, for disks of any size.
THEOREM SpecTypeOK == Spec => []TypeOK
<1>1. Spec => []TypeInv
  BY TypeInit, TypeStep, PTL DEF Spec
<1> QED
  BY <1>1, TypeInvType, PTL

-----------------------------------------------------------------------------
\* The tasks and the disk, step by step

LEMMA InvInit == Init => (\A t \in Tasks : TaskOK(t)) /\ FreeInv
<1> SUFFICES ASSUME Init PROVE (\A t \in Tasks : TaskOK(t)) /\ FreeInv
  OBVIOUS
<1>1. FreeInv
  BY DEF Init, FreeInv, TakesCommands
<1>2. ASSUME NEW t \in Tasks PROVE TaskOK(t)
  BY HardDiskAssumption DEF Init, Idle, NewCall, TaskOK, PlaceOK, BeforeCommand, Inside
<1> QED
  BY <1>1, <1>2

\* What is known of a task before its step
LEMMA Known ==
    ASSUME TypeInv, NEW t \in Tasks, TaskOK(t)
    PROVE  /\ call \in [Tasks -> CallRecords] /\ CallOK(call[t]) /\ PlaceOK(call[t])
           /\ Inside(call[t]) <=> owner = t
           /\ call[t].refused => late
           /\ owner = t => OwnerOK(call[t])
           /\ late \in BOOLEAN
BY DEF TypeInv, CallsTyped, TaskOK

\* A task without the mutex goes on outside, and touches nothing.
LEMMA OutsideStep ==
    ASSUME TypeInv, NEW t \in Tasks, TaskOK(t), owner # t,
           NEW step \in {"idle", "lock"}, Go(t, step), call[t].step # "idle",
           call[t].step = "lock" \/ call[t].step = "noBusy",
           UNCHANGED <<owner, late>>
    PROVE  TaskOK(t)'
<1>1. Becomes(t, call'[t]) /\ Stepped(call'[t], call[t], step)
  BY Known, GoEffect, StepNames
<1> QED
  BY <1>1, Known DEF TaskOK, PlaceOK, BeforeCommand, Inside, Becomes, SameCall, Stepped

LEMMA LockOK ==
    ASSUME TypeInv, FreeInv, NEW t \in Tasks, TaskOK(t), Lock(t) PROVE TaskOK(t)'
<1> DEFINE step == IF Calls(t, "write") THEN "registers" ELSE "noBusy"
<1>1. Becomes(t, call'[t]) /\ Stepped(call'[t], call[t], step)
  BY Known, GoEffect, StepNames DEF Lock
<1>2. call[t].step = "lock" /\ owner = NoTask /\ owner' = t /\ UNCHANGED <<device, late, irq, bPrimaryInterruptOccur>>
  BY DEF Lock, At
<1>3. ~late => TakesCommands'
  BY <1>2 DEF FreeInv, TakesCommands, device
<1>4. PlaceOK(call[t])' /\ (Inside(call[t]) <=> owner = t)' /\ (call[t].refused => late)'
  BY <1>1, <1>2, Known DEF PlaceOK, BeforeCommand, Inside, Becomes, SameCall, Stepped, Calls
<1>5. Same(call[t])'
  BY <1>1, <1>2, Known DEF PlaceOK, BeforeCommand, Same, Stepped
<1>6. OwnerOK(call[t])'
  BY <1>1, <1>2, <1>3, <1>5, Known DEF PlaceOK, BeforeCommand, OwnerOK, DuringRead, DuringWrite, Stepped
<1> QED
  BY <1>4, <1>6 DEF TaskOK

LEMMA NoBusyOK ==
    ASSUME TypeInv, NEW t \in Tasks, TaskOK(t), NoBusy(t) \/ StillBusy(t) PROVE TaskOK(t)'
<1>1. /\ call[t].step = "noBusy" /\ UNCHANGED <<device, owner, late>>
      /\ owner = t <=> ~Calls(t, "write")
  BY Known DEF NoBusy, StillBusy, At, Inside, Calls
<1>2. CASE Calls(t, "write")
  <2>1. PICK step \in {"idle", "lock"} : Go(t, step)
    BY <1>2 DEF NoBusy, StillBusy
  <2> QED
    BY <1>1, <1>2, <2>1, OutsideStep
<1>3. CASE ~Calls(t, "write") /\ NoBusy(t)
  <2>1. Becomes(t, call'[t]) /\ Stepped(call'[t], call[t], "registers")
    BY <1>3, Known, GoEffect, StepNames DEF NoBusy
  <2>2. ~late => TakesCommands'
    BY <1>1, <1>3, Known DEF OwnerOK, TakesCommands, device
  <2>3. Same(call[t])'
    BY <1>1, <2>1, Known DEF PlaceOK, BeforeCommand, Same, Stepped
  <2> QED
    BY <1>1, <1>3, <2>1, <2>2, <2>3, Known DEF TaskOK, PlaceOK, BeforeCommand, Inside, OwnerOK, DuringRead, Stepped,
     Becomes, SameCall, Calls
<1>4. CASE ~Calls(t, "write") /\ StillBusy(t)
  <2>1. Finish(t, 0)
    BY <1>4 DEF StillBusy
  <2>2. /\ Becomes(t, call'[t]) /\ call'[t].step = "unlock" /\ call'[t].result = 0
        /\ call'[t].i = call[t].i /\ call'[t].buffer = call[t].buffer
        /\ call'[t].refused = call[t].refused /\ call'[t].misread = call[t].misread
    BY <2>1, Known, FinishEffect
  <2>3. ~late => TakesCommands'
    BY <1>1, <1>4, Known DEF OwnerOK, TakesCommands, device
  <2>4. Same(call[t])'
    BY <1>1, <2>2, Known DEF PlaceOK, BeforeCommand, Same
  <2> QED
    BY <1>1, <1>4, <2>2, <2>3, <2>4, Known DEF TaskOK, PlaceOK, BeforeCommand, Inside, OwnerOK, DuringRead, Passed, Becomes,
     SameCall, Calls
<1> QED
  BY <1>2, <1>3, <1>4

LEMMA SetRegistersOK ==
    ASSUME TypeInv, NEW t \in Tasks, TaskOK(t), SetRegisters(t) PROVE TaskOK(t)'
<1>1. /\ call[t].step = "registers" /\ owner = t
      /\ UNCHANGED <<owner, late, irq, bPrimaryInterruptOccur, disk, status, command>>
  BY Known DEF SetRegisters, At, Inside
<1>2. /\ Becomes(t, call'[t]) /\ call'[t].step = "ready" /\ call'[t].refused = ~TakesCommands
      /\ call'[t].i = call[t].i /\ call'[t].buffer = call[t].buffer
      /\ call'[t].result = call[t].result /\ call'[t].misread = call[t].misread
  <2>1. (~TakesCommands) \in BOOLEAN
    BY DEF TakesCommands
  <2> QED
    BY <2>1, Known, RefuseEffect, StepNames DEF SetRegisters
<1>3. Same(call[t])'
  BY <1>1, <1>2, Known DEF PlaceOK, BeforeCommand, Same
<1>4. TakesCommands => Given(call[t])'
  BY <1>1, <1>2 DEF SetRegisters, Given, TakesCommands, Becomes, SameCall, Calls
<1>5. ~late => TakesCommands
  BY <1>1, Known DEF OwnerOK
<1> QED
  BY <1>1, <1>2, <1>3, <1>4, <1>5, Known DEF TaskOK, PlaceOK, BeforeCommand, Inside, OwnerOK, DuringRead,
     DuringWrite, Becomes, SameCall

LEMMA ReadyOK ==
    ASSUME TypeInv, NEW t \in Tasks, TaskOK(t), Ready(t) PROVE TaskOK(t)'
<1> DEFINE step == IF Calls(t, "write") THEN "command" ELSE "clear"
<1>1. /\ call[t].step = "ready" /\ owner = t
      /\ UNCHANGED <<owner, late, irq, bPrimaryInterruptOccur, disk, status, command, registers>>
  BY Known DEF Ready, At, Inside, device
<1>2. Becomes(t, call'[t]) /\ Stepped(call'[t], call[t], step)
  BY Known, GoEffect, StepNames DEF Ready
<1>3. Same(call[t])'
  BY <1>1, <1>2, Known DEF PlaceOK, BeforeCommand, Same, Stepped
<1>4. ~call[t].refused => Given(call[t])'
  BY <1>1, <1>2, Known DEF OwnerOK, BeforeCommand, Given, TakesCommands, Becomes, SameCall,
     Stepped, Calls
<1> QED
  BY <1>1, <1>2, <1>3, <1>4, Known DEF TaskOK, PlaceOK, BeforeCommand, Inside, OwnerOK, DuringRead,
     DuringWrite, Becomes, SameCall, Stepped, Calls

LEMMA NotReadyOK ==
    ASSUME TypeInv, NEW t \in Tasks, TaskOK(t), NotReady(t) PROVE TaskOK(t)'
<1>1. /\ call[t].step = "ready" /\ owner = t /\ status = "busy"
      /\ UNCHANGED <<owner, late, irq, bPrimaryInterruptOccur, disk, status, command, registers>>
  BY Known DEF NotReady, At, Inside, device
<1>2. /\ Becomes(t, call'[t]) /\ call'[t].step = "unlock" /\ call'[t].result = 0
      /\ call'[t].i = call[t].i /\ call'[t].buffer = call[t].buffer
      /\ call'[t].refused = call[t].refused /\ call'[t].misread = call[t].misread
  BY Known, FinishEffect DEF NotReady
<1>3. call[t].refused
  BY <1>1, Known DEF OwnerOK, BeforeCommand, Given, TakesCommands
<1> QED
  BY <1>1, <1>2, <1>3, Known DEF TaskOK, PlaceOK, BeforeCommand, Inside, OwnerOK, Becomes, SameCall

LEMMA ClearFlagOK ==
    ASSUME TypeInv, NEW t \in Tasks, TaskOK(t), ClearFlag(t) PROVE TaskOK(t)'
<1> DEFINE step == IF Calls(t, "write") THEN "send" ELSE "command"
<1>1. /\ call[t].step = "clear" /\ owner = t /\ ~irq /\ ~irq' /\ ~bPrimaryInterruptOccur'
      /\ UNCHANGED <<owner, late, disk, status, command, registers>>
  BY Known DEF ClearFlag, At, Inside, device, SetFlag
<1>2. Becomes(t, call'[t]) /\ Stepped(call'[t], call[t], step)
  BY Known, GoEffect, StepNames DEF ClearFlag
<1>3. ~call[t].refused /\ ~call[t].misread => Same(call[t])'
  BY <1>1, <1>2, Known DEF OwnerOK, Same, Becomes, SameCall, Stepped
<1>4. CASE Calls(t, "write")
  <2>1. ~call[t].refused => DuringWrite(call[t])'
    BY <1>1, <1>2, <1>4, Known DEF OwnerOK, DuringWrite, Works, Becomes, SameCall, Stepped, Calls
  <2> QED
    BY <1>1, <1>2, <1>3, <1>4, <2>1, Known DEF TaskOK, PlaceOK, BeforeCommand, Inside, OwnerOK, Becomes, SameCall,
     Stepped, Calls
<1>5. CASE ~Calls(t, "write")
  <2>1. ~call[t].refused => Given(call[t])'
    BY <1>1, <1>2, <1>5, Known DEF OwnerOK, BeforeCommand, Given, TakesCommands, Becomes, SameCall,
     Stepped, Calls
  <2>2. call[t].i = 0 /\ ~call[t].misread
    BY <1>1, <1>5, Known DEF PlaceOK, BeforeCommand, Calls
  <2> QED
    BY <1>1, <1>2, <1>3, <1>5, <2>1, <2>2, Known DEF TaskOK, PlaceOK, BeforeCommand, Inside, OwnerOK, DuringRead, Becomes,
     SameCall, Stepped, Calls
<1> QED
  BY <1>4, <1>5

LEMMA SendCommandOK ==
    ASSUME TypeInv, NEW t \in Tasks, TaskOK(t), SendCommand(t) PROVE TaskOK(t)'
<1> DEFINE step == CASE Calls(t, "read") -> "poll"
                     [] Calls(t, "write") -> "pollRequest"
                     [] Calls(t, "identify") -> "wait"
           refused == call[t].refused \/ ~TakesCommands
<1>1. /\ call[t].step = "command" /\ owner = t
      /\ UNCHANGED <<owner, late, disk, irq, bPrimaryInterruptOccur, registers>>
  BY Known DEF SendCommand, At, Inside
<1>2. call[t].op \in Operations /\ call[t] \in CallRecords
  BY Known, FieldTypes
<1>3. step \in Steps
  BY <1>2, StepNames DEF Operations, Calls
<1>4. /\ Becomes(t, call'[t]) /\ call'[t].step = step /\ call'[t].refused = refused
      /\ call'[t].i = call[t].i /\ call'[t].buffer = call[t].buffer
      /\ call'[t].result = call[t].result /\ call'[t].misread = call[t].misread
  <2>1. refused \in BOOLEAN
    BY <1>2, FieldTypes DEF TakesCommands
  <2>2. call' = [call EXCEPT ![t] = [@ EXCEPT !.step = step, !.refused = refused]]
    BY DEF SendCommand
  <2> HIDE DEF step, refused
  <2> QED
    BY <1>3, <2>1, <2>2, Known, RefuseEffect
<1>5. Same(call[t])'
  BY <1>1, <1>4, Known DEF PlaceOK, BeforeCommand, Same
<1>6. ~refused => /\ TakesCommands /\ Given(call[t])
                  /\ status' = "busy" /\ command'.op = call[t].op /\ command'.data = Junk
                  /\ command'.lba = call[t].lba /\ command'.left = call[t].count
  BY <1>1, <1>2, Known DEF SendCommand, OwnerOK, BeforeCommand, Given, PlaceOK, Calls, Operations
<1>7. ~refused => Works(call[t])'
  BY <1>1, <1>4, <1>6, Known, FieldTypes DEF Works, Becomes, SameCall, PlaceOK, BeforeCommand
<1>80. refused => late
  BY <1>1, Known DEF OwnerOK, BeforeCommand, Given
<1>8. CASE Calls(t, "write")
  <2>1. ~refused => DuringWrite(call[t])'
    BY <1>4, <1>6, <1>7, <1>8 DEF DuringWrite, Calls
  <2>2. step = "pollRequest"
    BY <1>8 DEF Calls
  <2> HIDE DEF step
  <2> QED
    BY <1>1, <1>4, <1>5, <1>6, <1>80, <1>8, <2>1, <2>2, Known DEF TaskOK, PlaceOK, Inside, OwnerOK,
       BeforeCommand, Becomes, SameCall, Calls
<1>9. CASE ~Calls(t, "write")
  <2>1. step \in {"poll", "wait"} /\ (step = "poll" => call[t].op = "read")
    BY <1>2, <1>9 DEF Calls, Operations
  <2>2. ~refused => ~bPrimaryInterruptOccur /\ ~irq
    BY <1>1, <1>6, <1>9 DEF Given, Calls
  <2>3. ~refused => DuringRead(call[t])'
    BY <1>1, <1>4, <1>6, <1>7, <2>1, <2>2 DEF DuringRead
  <2>4. /\ ~BeforeCommand(call[t])' /\ call'[t].step \notin {"noBusy", "registers", "unlock", "idle", "lock"}
        /\ ~call'[t].misread /\ call'[t].op # "write" /\ call'[t].i = 0
    BY <1>1, <1>4, <1>9, <2>1, Known DEF BeforeCommand, PlaceOK, Becomes, SameCall, Calls
  <2> HIDE DEF step
  <2>5. OwnerOK(call[t])'
    BY <1>4, <1>5, <2>3, <2>4 DEF OwnerOK
  <2> QED
    BY <1>1, <1>4, <1>80, <2>1, <2>4, <2>5, Known DEF TaskOK, PlaceOK, Inside, Becomes, SameCall
<1> QED
  BY <1>8, <1>9

\* A return, from inside the mutex, with no more sectors than were done.
LEMMA FinishOK ==
    ASSUME TypeInv, NEW t \in Tasks, TaskOK(t), owner = t,
           NEW result \in Nat, result <= call[t].i, Finish(t, result),
           UNCHANGED <<owner, late, disk, status, command>>,
           ~late => TakesCommands, ~call[t].refused => Passed(call[t])
    PROVE  TaskOK(t)'
<1>1. /\ Becomes(t, call'[t]) /\ call'[t].step = "unlock" /\ call'[t].result = result
      /\ call'[t].i = call[t].i /\ call'[t].buffer = call[t].buffer
      /\ call'[t].refused = call[t].refused /\ call'[t].misread = call[t].misread
  BY Known, FinishEffect
<1>2. ~call[t].refused /\ ~call[t].misread => Same(call[t])'
  BY <1>1, Known DEF OwnerOK, Same, Becomes, SameCall
<1>3. call[t].step # "idle"
  BY Known DEF Inside
<1>4. OwnerOK(call[t])'
  BY <1>1, <1>2, Known DEF OwnerOK, BeforeCommand, DuringRead, DuringWrite, TakesCommands,
     Passed, Becomes, SameCall
<1> QED
  BY <1>1, <1>3, <1>4, Known DEF TaskOK, PlaceOK, BeforeCommand, Inside, Becomes, SameCall

\* One more sector is written, or taken for it.
LEMMA WrittenOK ==
    ASSUME TypeInv, NEW t \in Tasks, TaskOK(t), owner = t,
           call[t].step \in {"sent", "written"}, Next1(t, "clear", call[t].buffer),
           UNCHANGED <<owner, late, disk, status, command>>,
           ~call[t].refused => (status = "error" /\ call[t].misread) \/ Done(call[t])
    PROVE  TaskOK(t)'
<1>1. call[t].i \in Nat /\ call[t].count \in Nat /\ call[t].buffer \in Buffers /\ call[t].lba \in Nat
  BY Known, FieldTypes
<1>2. /\ Becomes(t, call'[t]) /\ call'[t].i = call[t].i + 1 /\ call'[t].buffer = call[t].buffer
      /\ call'[t].step = IF call[t].i + 1 < call[t].count THEN "clear" ELSE "unlock"
      /\ call'[t].result = IF call[t].i + 1 < call[t].count THEN call[t].result ELSE call[t].count
      /\ call'[t].refused = call[t].refused /\ call'[t].misread = call[t].misread
  BY <1>1, Known, Next1Effect, StepNames
<1>3. call[t].op = "write" /\ call[t].i < call[t].count
  BY Known DEF PlaceOK, CallOK
<1>4. ~call[t].refused /\ ~call[t].misread => Same(call[t])'
  <2> SUFFICES ASSUME ~call[t].refused, ~call[t].misread, NEW k \in 0 .. call[t].i
               PROVE  call[t].buffer[k] = disk[call[t].lba + k]
    BY <1>1, <1>2 DEF Same, Becomes, SameCall
  <2>1. CASE k = call[t].i
    BY <2>1 DEF Done
  <2>2. CASE k # call[t].i
    <3>1. k \in 0 .. call[t].i - 1
      BY <1>1, <2>2
    <3> QED
      BY <3>1, Known DEF OwnerOK, Same
  <2> QED
    BY <2>1, <2>2
<1>5. ~call[t].refused =>
        \/ status = "error"
        \/ call[t].i + 1 < call[t].count /\ status = "request" /\ Works(call[t])'
        \/ call[t].i + 1 >= call[t].count /\ status = "ready"
  <2>1. status = "request" => command.left >= 1
    BY DEF TypeInv, DeviceTyped
  <2>2. call[t].lba + (call[t].i + 1) = call[t].lba + call[t].i + 1
        /\ call[t].count - (call[t].i + 1) = call[t].count - call[t].i - 1
    BY <1>1
  <2>3. ASSUME ~call[t].refused, Done(call[t]), status = "request"
        PROVE  call[t].i + 1 < call[t].count /\ Works(call[t])'
    <3>1. /\ command.op = "write" /\ command.data = Junk
          /\ command.lba = call[t].lba + call[t].i + 1
          /\ command.left = call[t].count - call[t].i - 1
      BY <2>3 DEF Done
    <3>2. call[t].i + 1 < call[t].count
      BY <1>1, <2>1, <2>3, <3>1
    <3> QED
      BY <1>2, <1>3, <2>2, <3>1, <3>2 DEF Works, Becomes, SameCall
  <2>4. ASSUME Done(call[t]), status # "request"
        PROVE  status = "ready" /\ call[t].i + 1 >= call[t].count
    BY <1>1, <2>4 DEF Done
  <2> QED
    BY <2>3, <2>4
<1>6. ~late => ~call[t].refused
  BY Known
<1>7. OwnerOK(call[t])'
  <2>1. CASE call[t].i + 1 < call[t].count
    BY <1>1, <1>2, <1>3, <1>4, <1>5, <2>1, Known DEF OwnerOK, BeforeCommand, DuringWrite, Becomes,
       SameCall
  <2>2. CASE ~(call[t].i + 1 < call[t].count)
    BY <1>1, <1>2, <1>3, <1>4, <1>5, <1>6, <2>2, Known DEF OwnerOK, BeforeCommand, DuringWrite,
       Passed, TakesCommands, Becomes, SameCall
  <2> QED
    BY <2>1, <2>2
<1> QED
  BY <1>1, <1>2, <1>3, <1>7, Known DEF TaskOK, PlaceOK, BeforeCommand, Inside, Becomes, SameCall

LEMMA PollOK ==
    ASSUME TypeInv, NEW t \in Tasks, TaskOK(t), Poll(t) PROVE TaskOK(t)'
<1>1. /\ call[t].step \in {"poll", "pollRequest", "sent"} /\ owner = t /\ ~irq
      /\ UNCHANGED <<owner, late, disk, irq, bPrimaryInterruptOccur, registers, status, command>>
  BY Known DEF Poll, At, Inside, device
<1>2. call[t].i \in Nat /\ call[t].count \in Nat /\ call[t].buffer \in Buffers
  BY Known, FieldTypes
<1>3. CASE status = "error"
  <2>1. PICK result \in Nat : result <= call[t].i /\ Finish(t, result)
    BY <1>2, <1>3 DEF Poll
  <2> QED
    BY <1>1, <1>3, <2>1, FinishOK DEF Passed, TakesCommands
<1>4. CASE status = "request" /\ call[t].step = "sent"
  <2>1. Next1(t, "clear", call[t].buffer)
    BY <1>4 DEF Poll, At
  <2>3. call[t].op = "write"
    BY <1>4, Known DEF PlaceOK
  <2>4. ~call[t].refused => Done(call[t])
    BY <1>1, <1>4, <2>3, Known DEF OwnerOK, DuringWrite, Writing
  <2> QED
    BY <1>1, <1>4, <2>1, <2>4, WrittenOK
<1>5. CASE status = "request" /\ call[t].step # "sent"
  <2> DEFINE step == IF call[t].step = "poll" THEN "data" ELSE "clear"
  <2>1. Go(t, step)
    BY <1>1, <1>5 DEF Poll, At
  <2>2. Becomes(t, call'[t]) /\ Stepped(call'[t], call[t], step)
    BY <2>1, Known, GoEffect, StepNames
  <2>3. ~call[t].refused /\ ~call[t].misread => Same(call[t])'
    BY <1>1, <2>2, Known DEF OwnerOK, Same, Becomes, SameCall, Stepped
  <2>4. call[t].op = IF call[t].step = "poll" THEN "read" ELSE "write"
    BY <1>1, <1>5, Known DEF PlaceOK
  <2>5. OwnerOK(call[t])'
    BY <1>1, <1>5, <2>2, <2>3, <2>4, Known DEF OwnerOK, BeforeCommand, DuringRead, DuringWrite,
       Works, Becomes, SameCall, Stepped
  <2> QED
    BY <1>1, <1>5, <2>2, <2>4, <2>5, Known DEF TaskOK, PlaceOK, BeforeCommand, Inside, Becomes,
       SameCall, Stepped
<1>6. CASE status \notin {"error", "request"}
  <2> DEFINE step == IF call[t].step = "pollRequest" THEN "pollRequest" ELSE "wait"
  <2>1. Go(t, step)
    BY <1>1, <1>6 DEF Poll, At
  <2>2. Becomes(t, call'[t]) /\ Stepped(call'[t], call[t], step)
    BY <2>1, Known, GoEffect, StepNames
  <2>3. ~call[t].refused /\ ~call[t].misread => Same(call[t])'
    BY <1>1, <2>2, Known DEF OwnerOK, Same, Becomes, SameCall, Stepped
  <2>4. call[t].op = IF call[t].step = "poll" THEN "read" ELSE "write"
    BY <1>1, <1>6, Known DEF PlaceOK
  <2>5. OwnerOK(call[t])'
    BY <1>1, <1>6, <2>2, <2>3, <2>4, Known DEF OwnerOK, BeforeCommand, DuringRead, DuringWrite,
       Works, Writing, Done, Becomes, SameCall, Stepped
  <2> QED
    BY <1>1, <1>6, <2>2, <2>4, <2>5, Known DEF TaskOK, PlaceOK, BeforeCommand, Inside, Becomes,
       SameCall, Stepped
<1> QED
  BY <1>3, <1>4, <1>5, <1>6

LEMMA WaitOK ==
    ASSUME TypeInv, NEW t \in Tasks, TaskOK(t), WaitOver(t) \/ TimeOut(t) PROVE TaskOK(t)'
<1>1. /\ call[t].step = "wait" /\ owner = t /\ ~irq
      /\ UNCHANGED <<owner, disk, irq, bPrimaryInterruptOccur, registers, status, command>>
  BY Known DEF WaitOver, TimeOut, At, Inside, device
<1>2. PICK x \in BOOLEAN :
        /\ call' = [call EXCEPT ![t] = [@ EXCEPT !.step = "waited", !.bWaitResult = x]]
        /\ x => bPrimaryInterruptOccur
        /\ ~x => late'
        /\ late => late'
  <2>1. CASE WaitOver(t)
    BY <2>1, TRUE \in BOOLEAN DEF WaitOver
  <2>2. CASE TimeOut(t)
    BY <2>2, FALSE \in BOOLEAN DEF TimeOut
  <2> QED
    BY <2>1, <2>2
<1>3. /\ Becomes(t, call'[t]) /\ call'[t].step = "waited" /\ call'[t].bWaitResult = x
      /\ call'[t].i = call[t].i /\ call'[t].buffer = call[t].buffer
      /\ call'[t].result = call[t].result
      /\ call'[t].refused = call[t].refused /\ call'[t].misread = call[t].misread
  BY <1>2, Known, WaitEffect, StepNames
<1>4. ~call[t].refused /\ ~call[t].misread => Same(call[t])'
  BY <1>1, <1>3, Known DEF OwnerOK, Same, Becomes, SameCall
<1>5. call[t].op # "write" /\ ~call[t].refused => DuringRead(call[t])'
  BY <1>1, <1>2, <1>3, Known DEF OwnerOK, DuringRead, Works, Becomes, SameCall
<1>6. call[t].op = "write" /\ ~call[t].refused => DuringWrite(call[t])'
  BY <1>1, <1>2, <1>3, Known DEF OwnerOK, DuringWrite, Writing, Done, Becomes, SameCall
<1>7. OwnerOK(call[t])'
  BY <1>1, <1>2, <1>3, <1>4, <1>5, <1>6, Known DEF OwnerOK, BeforeCommand, Becomes, SameCall
<1> QED
  BY <1>1, <1>2, <1>3, <1>7, Known DEF TaskOK, PlaceOK, BeforeCommand, Inside, Becomes, SameCall

LEMMA WaitedOK ==
    ASSUME TypeInv, NEW t \in Tasks, TaskOK(t), Waited(t) PROVE TaskOK(t)'
<1> DEFINE step == IF Calls(t, "read") THEN "data" ELSE "written"
<1>1. /\ call[t].step = "waited" /\ owner = t /\ ~irq /\ call[t].op # "identify"
      /\ UNCHANGED <<owner, late, disk, irq, registers, status, command>>
  BY Known DEF Waited, At, Inside, device, Calls
<1>2. call[t].i \in Nat /\ call[t].op \in Operations
  BY Known, FieldTypes
<1>3. CASE ~call[t].bWaitResult
  <2>1. Finish(t, 0) /\ late
    BY <1>1, <1>3, Known DEF Waited, PlaceOK
  <2>2. ~call[t].refused => Passed(call[t])
    <3>1. CASE call[t].op = "write"
      <4>1. Writing(call[t]) => command.lba = call[t].lba + call[t].i
        BY DEF Writing
      <4>2. command.lba = call[t].lba + call[t].i => command.lba >= call[t].lba + call[t].i
        BY Known, FieldTypes
      <4> QED
        BY <1>1, <3>1, <4>1, <4>2, Known DEF OwnerOK, DuringWrite, Done, Passed
    <3>2. CASE call[t].op # "write"
      <4>1. call[t].count = 1 /\ call[t].i < call[t].count
        BY <1>1, <3>2, Known DEF PlaceOK, CallOK
      <4> QED
        BY <1>2, <4>1 DEF Passed
    <3> QED
      BY <3>1, <3>2
  <2> QED
    BY <1>1, <1>2, <2>1, <2>2, FinishOK
<1>4. CASE call[t].bWaitResult /\ status = "error"
  <2>1. /\ Becomes(t, call'[t]) /\ call'[t].step = step /\ call'[t].misread
        /\ call'[t].i = call[t].i /\ call'[t].buffer = call[t].buffer
        /\ call'[t].result = call[t].result /\ call'[t].refused = call[t].refused
    BY <1>4, Known, MisreadEffect, StepNames DEF Waited
  <2>2. OwnerOK(call[t])'
    BY <1>1, <1>2, <1>4, <2>1, Known DEF OwnerOK, BeforeCommand, DuringRead, DuringWrite,
       Becomes, SameCall, Calls, Operations
  <2> QED
    BY <1>1, <1>2, <2>1, <2>2, Known DEF TaskOK, PlaceOK, BeforeCommand, Inside, Becomes, SameCall,
       Calls, Operations
<1>5. CASE call[t].bWaitResult /\ status # "error"
  <2>1. Becomes(t, call'[t]) /\ Stepped(call'[t], call[t], step)
    BY <1>5, Known, GoEffect, StepNames DEF Waited
  <2>2. ~call[t].refused /\ ~call[t].misread => Same(call[t])'
    BY <1>1, <2>1, Known DEF OwnerOK, Same, Becomes, SameCall, Stepped
  <2>3. call[t].op # "write" /\ ~call[t].refused => DuringRead(call[t])'
    BY <1>1, <1>2, <1>5, <2>1, Known DEF OwnerOK, DuringRead, Works, Becomes, SameCall, Stepped,
       Calls, Operations
  <2>4. call[t].op = "write" /\ ~call[t].refused => DuringWrite(call[t])'
    BY <1>1, <1>2, <1>5, <2>1, Known DEF OwnerOK, DuringWrite, Done, Becomes, SameCall, Stepped,
       Calls
  <2>5. OwnerOK(call[t])'
    BY <1>1, <1>2, <2>1, <2>2, <2>3, <2>4, Known DEF OwnerOK, BeforeCommand, Becomes, SameCall,
       Stepped, Calls
  <2> QED
    BY <1>1, <1>2, <2>1, <2>5, Known DEF TaskOK, PlaceOK, BeforeCommand, Inside, Becomes, SameCall,
       Stepped, Calls, Operations
<1> QED
  BY <1>3, <1>4, <1>5

LEMMA WaitedIdentifyOK ==
    ASSUME TypeInv, NEW t \in Tasks, TaskOK(t), WaitedIdentify(t) PROVE TaskOK(t)'
<1>1. /\ call[t].step = "waited" /\ owner = t /\ call[t].op = "identify"
      /\ UNCHANGED <<owner, late, disk, irq, bPrimaryInterruptOccur, registers, status, command>>
  BY Known DEF WaitedIdentify, At, Inside, device, Calls
<1>2. call[t].i \in Nat
  BY Known, FieldTypes
<1>3. CASE ~call[t].bWaitResult \/ status = "error"
  <2>1. Finish(t, 0) /\ (~late => TakesCommands)
    BY <1>1, <1>3, Known DEF WaitedIdentify, PlaceOK, TakesCommands
  <2>2. Passed(call[t])
    <3>1. call[t].count = 1 /\ call[t].i < call[t].count
      BY <1>1, Known DEF PlaceOK, CallOK
    <3> QED
      BY <1>2, <3>1 DEF Passed
  <2> QED
    BY <1>1, <1>2, <2>1, <2>2, FinishOK
<1>4. CASE call[t].bWaitResult /\ status # "error"
  <2>1. Becomes(t, call'[t]) /\ Stepped(call'[t], call[t], "data")
    BY <1>4, Known, GoEffect, StepNames DEF WaitedIdentify
  <2>2. ~call[t].refused /\ ~call[t].misread => Same(call[t])'
    BY <1>1, <2>1, Known DEF OwnerOK, Same, Becomes, SameCall, Stepped
  <2>3. ~call[t].refused => DuringRead(call[t])'
    BY <1>1, <1>4, <2>1, Known DEF OwnerOK, DuringRead, Works, Becomes, SameCall, Stepped
  <2>4. OwnerOK(call[t])'
    BY <1>1, <2>1, <2>2, <2>3, Known DEF OwnerOK, BeforeCommand, Becomes, SameCall, Stepped
  <2> QED
    BY <1>1, <2>1, <2>4, Known DEF TaskOK, PlaceOK, BeforeCommand, Inside, Becomes, SameCall,
       Stepped
<1> QED
  BY <1>3, <1>4

\* The only sector of a read
LEMMA ReadDataOK ==
    ASSUME TypeInv, NEW t \in Tasks, TaskOK(t), ReadData(t) PROVE TaskOK(t)'
<1> DEFINE offers == status = "request" /\ command.op # "write"
           s == IF offers THEN disk[command.lba] ELSE Junk
           b == [call[t].buffer EXCEPT ![call[t].i] = s]
<1>1. /\ call[t].step = "data" /\ owner = t
      /\ UNCHANGED <<owner, late, disk, irq, bPrimaryInterruptOccur, registers>>
  BY Known DEF ReadData, At, Inside
<1>2. call[t].op # "write" /\ call[t].count = 1 /\ call[t].i = 0
  <2>1. call[t].op # "write" /\ call[t].count = 1 /\ call[t].i < call[t].count
    BY <1>1, Known DEF PlaceOK, CallOK
  <2> QED
    BY <2>1, Known, FieldTypes
<1>3. s \in Sector
  <2>1. CASE offers
    <3>1. command.lba \in Nat /\ command.left >= 1 /\ command.left \in 0 .. 256
          /\ command.lba + command.left <= Information + 1
      BY <2>1, CommandTypes DEF TypeInv, DeviceTyped
    <3>2. command.lba \in 0 .. Information
      BY <3>1, InformationBounds
    <3> QED
      BY <2>1, <3>2 DEF TypeInv, DeviceTyped, Sector
  <2>2. CASE ~offers
    BY <2>2 DEF Sector
  <2> QED
    BY <2>1, <2>2
<1> HIDE DEF s
<1>4. call[t].buffer \in [0 .. 1 - 1 -> Sector] /\ 0 \in 0 .. 1 - 1
  <2>1. call[t].buffer \in [0 .. call[t].count - 1 -> Sector]
    BY Known DEF CallOK
  <2> QED
    BY <1>2, <2>1
<1>5. b \in Buffers /\ b[0] = s
  <2>1. b \in [0 .. 1 - 1 -> Sector] /\ b[0] = s
    BY <1>2, <1>3, <1>4
  <2>2. 1 \in 0 .. 256
    OBVIOUS
  <2> QED
    BY <2>1, <2>2, IsBuffer
<1>6. Next1(t, "poll", b)
  BY DEF ReadData, s
<1> HIDE DEF b
<1>7. /\ Becomes(t, call'[t]) /\ call'[t].step = "unlock" /\ call'[t].i = 1
      /\ call'[t].buffer = b /\ call'[t].result = 1
      /\ call'[t].refused = call[t].refused /\ call'[t].misread = call[t].misread
  BY <1>2, <1>5, <1>6, Known, Next1Effect, StepNames
<1>8. ~call[t].refused => \/ status = "error" /\ call[t].misread
                          \/ status = "request" /\ Works(call[t])
  BY <1>1, <1>2, Known DEF OwnerOK, DuringRead
<1>9. Works(call[t]) => command.op # "write" /\ command.lba = call[t].lba + 0 /\ command.left = 1
  BY <1>2 DEF Works
<1>10. ~call[t].refused /\ ~call[t].misread => Same(call[t])'
  <2> SUFFICES ASSUME ~call[t].refused, ~call[t].misread
               PROVE  b[0] = disk[call[t].lba + 0]
    BY <1>1, <1>7 DEF Same, Becomes, SameCall
  <2> QED
    BY <1>5, <1>8, <1>9 DEF s
<1>11. ~call[t].refused => TakesCommands'
  BY <1>8, <1>9 DEF ReadData, TakesCommands
<1>12. call[t].misread /\ ~late => status' = "error"
  BY <1>1, Known DEF OwnerOK, ReadData
<1>13. OwnerOK(call[t])'
  BY <1>1, <1>2, <1>7, <1>10, <1>11, <1>12, Known DEF OwnerOK, BeforeCommand, DuringRead,
     Passed, TakesCommands, Becomes, SameCall
<1> QED
  BY <1>1, <1>2, <1>7, <1>13, Known DEF TaskOK, PlaceOK, BeforeCommand, Inside, Becomes, SameCall

LEMMA WriteDataOK ==
    ASSUME TypeInv, NEW t \in Tasks, TaskOK(t), WriteData(t) PROVE TaskOK(t)'
<1>1. /\ call[t].step = "send" /\ owner = t /\ call[t].op = "write"
      /\ UNCHANGED <<owner, late, disk, irq, bPrimaryInterruptOccur, registers>>
  BY Known DEF WriteData, At, Inside, PlaceOK
<1>2. Becomes(t, call'[t]) /\ Stepped(call'[t], call[t], "sent")
  BY Known, GoEffect, StepNames DEF WriteData
<1>3. ~call[t].refused /\ ~call[t].misread => Same(call[t])'
  BY <1>1, <1>2, Known DEF OwnerOK, Same, Becomes, SameCall, Stepped
<1>4. call[t].misread /\ ~late => status' = "error"
  BY <1>1, Known DEF OwnerOK, WriteData
<1>5. ASSUME ~call[t].refused, status # "error"
      PROVE  Writing(call[t])'
  <2>1. status = "request" /\ Works(call[t]) /\ ~bPrimaryInterruptOccur /\ ~irq
    BY <1>1, <1>5, Known DEF OwnerOK, DuringWrite
  <2>2. call[t].buffer[call[t].i] \in Sector
    <3>1. /\ call[t].i \in Nat /\ call[t].count \in Nat /\ call[t].i < call[t].count
          /\ call[t].buffer \in [0 .. call[t].count - 1 -> Sector]
      BY <1>1, Known, FieldTypes DEF CallOK
    <3>2. call[t].i \in 0 .. call[t].count - 1
      BY <3>1
    <3> QED
      BY <3>1, <3>2
  <2>3. /\ command' = [command EXCEPT !.data = call[t].buffer[call[t].i]]
        /\ status' = "busy"
    BY <1>1, <2>1 DEF WriteData, Works
  <2>4. /\ command'.lba = command.lba /\ command'.left = command.left
        /\ command'.op = command.op /\ command'.data = call[t].buffer[call[t].i]
    BY <2>2, <2>3, CommandData DEF TypeInv, DeviceTyped
  <2> QED
    BY <1>1, <1>2, <2>1, <2>3, <2>4 DEF Writing, Works, Becomes, SameCall, Stepped
<1>6. ~call[t].refused /\ status = "error" => status' = "error"
  BY DEF WriteData
<1>7. OwnerOK(call[t])'
  BY <1>1, <1>2, <1>3, <1>4, <1>5, <1>6, Known DEF OwnerOK, BeforeCommand, DuringWrite, Becomes,
     SameCall, Stepped
<1> QED
  BY <1>1, <1>2, <1>7, Known DEF TaskOK, PlaceOK, BeforeCommand, Inside, Becomes, SameCall,
     Stepped

LEMMA WrittenStepOK ==
    ASSUME TypeInv, NEW t \in Tasks, TaskOK(t), Written(t) PROVE TaskOK(t)'
<1>1. /\ call[t].step = "written" /\ owner = t /\ call[t].op = "write"
      /\ UNCHANGED <<owner, late, disk, status, command>>
  BY Known DEF Written, At, Inside, PlaceOK, device
<1>2. ~call[t].refused => (status = "error" /\ call[t].misread) \/ Done(call[t])
  BY <1>1, Known DEF OwnerOK, DuringWrite
<1> QED
  BY <1>1, <1>2, WrittenOK DEF Written

\* A call that is over, and the mutex with it
LEMMA UnlockOK ==
    ASSUME TypeInv, NEW t \in Tasks, TaskOK(t), Unlock(t) PROVE TaskOK(t)' /\ FreeInv'
<1>1. /\ call[t].step = "unlock" /\ owner = t /\ owner' = NoTask /\ call'[t] = Idle
      /\ UNCHANGED <<late, status>>
  BY Known DEF Unlock, At, Inside, device
<1>2. ~late => TakesCommands
  BY <1>1, Known DEF OwnerOK
<1> QED
  BY <1>1, <1>2, HardDiskAssumption DEF TaskOK, PlaceOK, BeforeCommand, Inside, Idle, NewCall,
     FreeInv, TakesCommands

\* A call that begins, for one sector if it reads
LEMMA CallOK1 ==
    ASSUME SingleReads, TypeInv, NEW t \in Tasks, TaskOK(t), Call(t) PROVE TaskOK(t)'
<1>1. call[t].step = "idle" /\ owner # t /\ owner' = owner
  BY Known DEF Call, Begin, Identify, At, Inside
<1>2. ASSUME NEW step, NEW op, NEW lba, NEW count, NEW b,
             call' = [call EXCEPT ![t] = NewCall(step, op, lba, count, b)],
             step = IF op = "write" THEN "noBusy" ELSE "lock",
             op # "write" => count = 1, op = "identify" => lba = Information,
             op = "write" => \A k \in 0 .. count - 1 : b[k] \in Data
      PROVE  TaskOK(t)'
  <2>1. call'[t] = NewCall(step, op, lba, count, b)
    BY <1>2, Known
  <2> QED
    BY <1>1, <1>2, <2>1 DEF TaskOK, PlaceOK, BeforeCommand, Inside, NewCall
<1>3. ASSUME NEW lba \in Sectors, NEW count \in ReadCounts, Begin(t, "read", lba, count, 0)
      PROVE  TaskOK(t)'
  <2> DEFINE b == [k \in 0 .. count - 1 |-> Junk]
  <2>1. call' = [call EXCEPT ![t] = NewCall("lock", "read", lba, count, b)]
    BY <1>3 DEF Begin
  <2>2. count = 1 /\ "read" # "write" /\ "read" # "identify"
    BY DEF SingleReads
  <2> HIDE DEF b
  <2> QED
    BY <1>2, <2>1, <2>2, Zenon
<1>4. ASSUME NEW lba \in Sectors, NEW count \in WriteCounts, NEW version \in Versions,
             Begin(t, "write", lba, count, version)
      PROVE  TaskOK(t)'
  <2> DEFINE b == [k \in 0 .. count - 1 |-> Content(lba + k, version)]
  <2>1. call' = [call EXCEPT ![t] = NewCall("noBusy", "write", lba, count, b)]
    BY <1>4 DEF Begin
  <2>2. lba \in Nat /\ count \in 1 .. 256 /\ lba + count < Information
    BY <1>4, InSectors, HardDiskAssumption DEF Begin, Information
  <2>3. \A k \in 0 .. count - 1 : lba + k \in 0 .. Information
    BY <2>2, InformationBounds
  <2>4. \A k \in 0 .. count - 1 : b[k] \in Data
    BY <2>3, DataKept
  <2>5. "write" # "identify"
    OBVIOUS
  <2> HIDE DEF b
  <2> QED
    BY <1>2, <2>1, <2>4, <2>5, Zenon
<1>5. CASE Identify(t)
  <2> DEFINE b == [k \in {0} |-> Junk]
  <2>1. call' = [call EXCEPT ![t] = NewCall("lock", "identify", Information, 1, b)]
    BY <1>5 DEF Identify
  <2> HIDE DEF b
  <2> QED
    BY <1>2, <2>1
<1> QED
  BY <1>3, <1>4, <1>5 DEF Call

-----------------------------------------------------------------------------
\* What a task's step leaves to the others

LEMMA StepsCall ==
    ASSUME TypeInv, NEW t \in Tasks, NEW u \in Tasks, u # t, Call(t) \/ Step(t)
    PROVE  call'[u] = call[u]
<1>1. call \in [Tasks -> CallRecords]
  BY DEF TypeInv, CallsTyped
<1>2. PICK d : call' = [call EXCEPT ![t] = d]
  BY DEF Call, Begin, Identify, Step, Lock, NoBusy, StillBusy, SetRegisters, Ready, NotReady,
     ClearFlag, SendCommand, Poll, WaitOver, TimeOut, Waited, WaitedIdentify, ReadData, WriteData,
     Written, Unlock, Go, Finish, Next1
<1> QED
  BY <1>1, <1>2

\* A task without the mutex touches nothing, and can only take the free mutex.
LEMMA OutsideKeeps ==
    ASSUME TypeInv, NEW t \in Tasks, TaskOK(t), owner # t, Call(t) \/ Step(t)
    PROVE  /\ UNCHANGED <<bPrimaryInterruptOccur, irq, device, late>>
           /\ owner' = owner \/ (owner = NoTask /\ owner' = t)
<1>1. ~Inside(call[t])
  BY Known
<1> QED
  BY <1>1 DEF Inside, At, Calls, Call, Begin, Identify, Step, Lock, NoBusy, StillBusy,
     SetRegisters, Ready, NotReady, ClearFlag, SendCommand, Poll, WaitOver, TimeOut, Waited,
     WaitedIdentify, ReadData, WriteData, Written, Unlock

LEMMA InsideKeeps ==
    ASSUME TypeInv, NEW t \in Tasks, TaskOK(t), owner = t, Call(t) \/ Step(t)
    PROVE  owner' = t \/ Unlock(t)
<1>1. Inside(call[t])
  BY Known
<1> QED
  BY <1>1 DEF Inside, At, Call, Begin, Identify, Step, Lock, NoBusy, StillBusy,
     SetRegisters, Ready, NotReady, ClearFlag, SendCommand, Poll, WaitOver, TimeOut, Waited,
     WaitedIdentify, ReadData, WriteData, Written, Unlock

LEMMA LateStays ==
    ASSUME NEW t \in Tasks, Call(t) \/ Step(t) PROVE late => late'
BY DEF Call, Begin, Identify, Step, Lock, NoBusy, StillBusy,
     SetRegisters, Ready, NotReady, ClearFlag, SendCommand, Poll, WaitOver, TimeOut, Waited,
     WaitedIdentify, ReadData, WriteData, Written, Unlock

LEMMA OthersOK ==
    ASSUME TypeInv, NEW t \in Tasks, NEW u \in Tasks, u # t, TaskOK(t), TaskOK(u),
           Call(t) \/ Step(t)
    PROVE  TaskOK(u)'
<1>1. call'[u] = call[u]
  BY StepsCall
<1>2. late => late'
  BY LateStays
<1>3. CASE owner = t
  <2>1. owner' = t \/ owner' = NoTask
    BY <1>3, InsideKeeps DEF Unlock
  <2>2. owner # u /\ owner' # u
    BY <1>3, <2>1, HardDiskAssumption
  <2> QED
    BY <1>1, <1>2, <2>2 DEF TaskOK, PlaceOK, BeforeCommand, Inside
<1>4. CASE owner # t
  <2>1. /\ UNCHANGED <<bPrimaryInterruptOccur, irq, disk, status, registers, command, late>>
        /\ owner' = owner \/ (owner = NoTask /\ owner' = t)
    BY <1>4, OutsideKeeps DEF device
  <2>2. owner' = u <=> owner = u
    BY <2>1, HardDiskAssumption
  <2>3. OwnerOK(call[u]) => OwnerOK(call[u])'
    BY <1>1, <2>1 DEF OwnerOK, BeforeCommand, Given, TakesCommands, DuringRead, DuringWrite,
       Works, Done, Writing, Same, Passed
  <2> QED
    BY <1>1, <2>1, <2>2, <2>3 DEF TaskOK, PlaceOK, BeforeCommand, Inside
<1> QED
  BY <1>3, <1>4

LEMMA FreeOK ==
    ASSUME TypeInv, FreeInv, NEW t \in Tasks, TaskOK(t), Call(t) \/ Step(t)
    PROVE  FreeInv'
<1>1. CASE owner = t
  BY <1>1, InsideKeeps, UnlockOK, HardDiskAssumption DEF FreeInv
<1>2. CASE owner # t
  BY <1>2, OutsideKeeps, HardDiskAssumption DEF FreeInv, TakesCommands, device
<1> QED
  BY <1>1, <1>2

\* A step of a task
LEMMA OwnOK ==
    ASSUME TypeInv, FreeInv, NEW t \in Tasks, TaskOK(t), Step(t)
    PROVE  TaskOK(t)'
BY LockOK, NoBusyOK, SetRegistersOK, ReadyOK, NotReadyOK, ClearFlagOK, SendCommandOK, PollOK,
   WaitOK, WaitedOK, WaitedIdentifyOK, ReadDataOK, WriteDataOK, WrittenStepOK, UnlockOK DEF Step

-----------------------------------------------------------------------------
\* What the disk and the handler do

\* The handler runs before the task's next step; it is only awaited.
LEMMA HandlerOK ==
    ASSUME TypeInv, NEW t \in Tasks, TaskOK(t), HDDHandler PROVE TaskOK(t)'
<1>1. irq /\ UNCHANGED <<owner, call, disk, status, registers, command, late>>
  BY DEF HDDHandler, device
<1>2. OwnerOK(call[t]) => OwnerOK(call[t])'
  BY <1>1 DEF OwnerOK, BeforeCommand, Given, TakesCommands, DuringRead, DuringWrite,
       Works, Done, Writing, Same, Passed
<1> QED
  BY <1>1, <1>2 DEF TaskOK, PlaceOK, BeforeCommand, Inside

LEMMA FailOK ==
    ASSUME TypeInv, NEW t \in Tasks, TaskOK(t), Fail PROVE TaskOK(t)'
<1>1. /\ status = "busy" /\ status' = "error" /\ UNCHANGED <<owner, call, disk, registers, late>>
  BY DEF Fail
<1>2. OwnerOK(call[t]) => OwnerOK(call[t])'
  BY <1>1 DEF OwnerOK, BeforeCommand, Given, TakesCommands, DuringRead, DuringWrite,
       Works, Done, Writing, Same, Passed
<1> QED
  BY <1>1, <1>2 DEF TaskOK, PlaceOK, BeforeCommand, Inside

LEMMA AnswerOK ==
    ASSUME TypeInv, NEW t \in Tasks, TaskOK(t), Answer PROVE TaskOK(t)'
<1> DEFINE c == call[t]
           writes == command.op = "write" /\ command.data # Junk
<1>1. /\ status = "busy" /\ ~TakesCommands /\ UNCHANGED <<owner, call, registers, late>>
      /\ status' # "busy"
      /\ ~writes => status' = "request" /\ UNCHANGED <<disk, command>>
  BY DEF Answer, TakesCommands
<1>2. c.i \in Nat /\ c.count \in Nat /\ c.lba \in Nat
  BY Known, FieldTypes
<1>3. SUFFICES ASSUME owner = t PROVE OwnerOK(call[t])'
  BY <1>1 DEF TaskOK, PlaceOK, BeforeCommand, Inside
<1>4. OwnerOK(c) /\ PlaceOK(c) /\ CallOK(c) /\ Inside(c)
  BY <1>3, Known
<1>5. /\ ~(c.step \in {"noBusy", "registers", "unlock"} /\ ~late)
      /\ ~(c.misread /\ ~late)
      /\ BeforeCommand(c) => c.refused
  BY <1>1, <1>4 DEF OwnerOK, Given
<1> HIDE DEF c
\* What is written is this call's sector i, or comes after its sectors.
<1>6. ASSUME ~c.refused, writes, c.op = "write", c.step \in {"sent", "wait", "waited"}
      PROVE  Writing(c)
  BY <1>1, <1>4, <1>6 DEF OwnerOK, DuringWrite, Done
<1>7. ASSUME Writing(c), c.op = "write", c.step \in {"sent", "wait", "waited"}
      PROVE  Done(c)'
  <2>1. /\ c.i \in 0 .. c.count - 1 /\ c.buffer[c.i] \in Data /\ c.lba + c.i \in 0 .. Information
    <3>1. c.i < c.count /\ c.lba + c.count <= Information
      BY <1>4, <1>7 DEF CallOK
    <3>2. c.i \in 0 .. c.count - 1 /\ c.lba + c.i \in 0 .. Information
      BY <1>2, <3>1, InformationBounds
    <3> QED
      BY <1>4, <1>7, <3>2 DEF PlaceOK
  <2>2. /\ writes /\ command.data = c.buffer[c.i] /\ command.lba = c.lba + c.i
        /\ command.left = c.count - c.i
    BY <1>7, <2>1, DataIsNotJunk DEF Writing
  <2>3. /\ disk' = [disk EXCEPT ![command.lba] = command.data]
        /\ command' = [[command EXCEPT !.lba = @ + 1, !.left = @ - 1] EXCEPT !.data = Junk]
        /\ status' = IF command.left = 1 THEN "ready" ELSE "request"
    BY <2>2 DEF Answer
  <2> DEFINE moved == [command EXCEPT !.lba = @ + 1, !.left = @ - 1]
  <2>4. /\ moved \in CommandRecords /\ moved.lba = command.lba + 1
        /\ moved.left = command.left - 1 /\ moved.op = command.op
    BY <1>1, CommandMoves DEF TypeInv, DeviceTyped
  <2> HIDE DEF moved
  <2>5. /\ command'.lba = command.lba + 1 /\ command'.left = command.left - 1
        /\ command'.op = command.op /\ command'.data = Junk
    BY <2>3, <2>4, CommandData DEF moved, Sector
  <2>6. disk'[c.lba + c.i] = c.buffer[c.i]
    BY <2>1, <2>2, <2>3 DEF TypeInv, DeviceTyped
  <2>7. c' = c
    BY <1>1 DEF c
  <2> QED
    BY <2>2, <2>3, <2>5, <2>6, <2>7 DEF Done
<1>8. ASSUME ~c.refused, c.op = "write"
      PROVE  DuringWrite(call[t])'
  <2>1. /\ c.step \notin {"clear", "send"} /\ ~(c.step = "waited" /\ c.bWaitResult)
        /\ c.step # "written"
    BY <1>1, <1>4, <1>8 DEF OwnerOK, DuringWrite, Done
  <2>2. c.step \in {"sent", "wait", "waited"} => Done(c)'
    BY <1>1, <1>4, <1>7, <1>8 DEF OwnerOK, DuringWrite, Done
  <2>3. c.step = "pollRequest" => status' = "request" /\ Works(c)'
    BY <1>1, <1>4, <1>8 DEF OwnerOK, DuringWrite, Works, c
  <2> QED
    BY <1>1, <2>1, <2>2, <2>3 DEF DuringWrite, c
<1>9. ASSUME ~c.refused, c.op # "write"
      PROVE  DuringRead(call[t])'
  BY <1>1, <1>4, <1>9 DEF OwnerOK, DuringRead, Works, c
<1>10. ASSUME ~c.refused, ~c.misread
       PROVE  Same(c)'
  <2>1. CASE ~writes
    BY <1>1, <1>4, <1>10, <2>1 DEF OwnerOK, Same, c
  <2>2. CASE writes /\ c.i # 0
    <3>1. command.lba >= c.lba + c.i
      <4>1. CASE c.step = "unlock"
        BY <1>1, <1>4, <1>10, <2>2, <4>1 DEF OwnerOK, Passed
      <4>2. CASE c.step # "unlock" /\ c.op = "write"
        <5>1. c.step \in {"sent", "wait", "waited"}
          <6>1. c.step \notin {"clear", "send", "written"}
            BY <1>1, <1>4, <1>10, <4>2 DEF OwnerOK, DuringWrite, Done
          <6>2. c.step \notin {"registers", "pollRequest", "ready", "command"}
            BY <1>4, <2>2 DEF PlaceOK, BeforeCommand
          <6>3. c.step \notin {"idle", "lock", "noBusy", "poll", "data"}
            BY <1>4, <4>2 DEF Inside, PlaceOK
          <6>4. c.step \in Steps
            BY Known, FieldTypes DEF c
          <6> QED
            BY <4>2, <6>1, <6>2, <6>3, <6>4 DEF Steps
        <5>2. command.lba = c.lba + c.i
          BY <1>6, <1>10, <2>2, <4>2, <5>1 DEF Writing
        <5> QED
          BY <1>2, <5>2
      <4>3. CASE c.step # "unlock" /\ c.op # "write"
        <5>1. c.i < c.count /\ c.count = 1
          BY <1>4, <4>3 DEF CallOK, PlaceOK, Inside
        <5> QED
          BY <1>2, <2>2, <5>1
      <4> QED
        BY <4>1, <4>2, <4>3
    <3>2. disk' = [disk EXCEPT ![command.lba] = command.data]
      BY <2>2 DEF Answer
    <3>3. \A k \in 0 .. c.i - 1 : c.lba + k # command.lba /\ c.lba + k \in 0 .. Information
      <4>1. c.i <= c.count /\ c.lba + c.count <= Information + 1 /\ command.lba \in Nat
        BY <1>4, CommandTypes DEF CallOK, TypeInv, DeviceTyped
      <4> QED
        BY <1>2, <3>1, <4>1, InformationBounds
    <3>4. \A k \in 0 .. c.i - 1 : disk'[c.lba + k] = disk[c.lba + k]
      BY <3>2, <3>3 DEF TypeInv, DeviceTyped
    <3>5. Same(c)
      BY <1>4, <1>10 DEF OwnerOK
    <3>6. c' = c
      BY <1>1 DEF c
    <3> QED
      BY <3>4, <3>5, <3>6 DEF Same
  <2>3. CASE c.i = 0
    BY <1>1, <2>3 DEF Same, c
  <2> QED
    BY <2>1, <2>2, <2>3
<1> QED
  BY <1>1, <1>5, <1>8, <1>9, <1>10 DEF OwnerOK, BeforeCommand, Passed, c

LEMMA StutterOK ==
    ASSUME NEW t \in Tasks, TaskOK(t), UNCHANGED vars PROVE TaskOK(t)'
<1>1. UNCHANGED <<bPrimaryInterruptOccur, owner, call, irq, disk, status, registers, command, late>>
  BY DEF vars, device
<1>2. OwnerOK(call[t]) => OwnerOK(call[t])'
  BY <1>1 DEF OwnerOK, BeforeCommand, Given, TakesCommands, DuringRead, DuringWrite,
       Works, Done, Writing, Same, Passed
<1> QED
  BY <1>1, <1>2 DEF TaskOK, PlaceOK, BeforeCommand, Inside

-----------------------------------------------------------------------------
\* The invariant

LEMMA InvStep == ASSUME SingleReads PROVE IInv /\ [Next]_vars => IInv'
<1> SUFFICES ASSUME IInv, [Next]_vars PROVE IInv'
  OBVIOUS
<1>1. TypeInv /\ FreeInv /\ \A t \in Tasks : TaskOK(t)
  BY DEF IInv
<1>2. TypeInv'
  BY <1>1, TypeStep
<1>3. ASSUME NEW t \in Tasks, Call(t) \/ Step(t)
      PROVE  FreeInv' /\ \A u \in Tasks : TaskOK(u)'
  <2>1. FreeInv'
    BY <1>1, <1>3, FreeOK
  <2>2. TaskOK(t)'
    BY <1>1, <1>3, OwnOK, CallOK1
  <2>3. ASSUME NEW u \in Tasks, u # t PROVE TaskOK(u)'
    BY <1>1, <1>3, <2>3, OthersOK
  <2> QED
    BY <2>1, <2>2, <2>3
<1>4. ASSUME Answer \/ Fail \/ HDDHandler \/ UNCHANGED vars
      PROVE  FreeInv' /\ \A u \in Tasks : TaskOK(u)'
  <2>1. FreeInv'
    BY <1>1, <1>4 DEF FreeInv, TakesCommands, Answer, Fail, HDDHandler, vars, device
  <2>2. ASSUME NEW u \in Tasks PROVE TaskOK(u)'
    BY <1>1, <1>4, AnswerOK, FailOK, HandlerOK, StutterOK
  <2> QED
    BY <2>1, <2>2
<1>5. FreeInv' /\ \A u \in Tasks : TaskOK(u)'
  BY <1>3, <1>4 DEF Next
<1> QED
  BY <1>2, <1>5 DEF IInv

LEMMA IInvInit == Init => IInv
BY TypeInit, InvInit DEF IInv

LEMMA IInvTakes == IInv => DiskTakesCommands
BY DEF IInv, TaskOK, DiskTakesCommands

LEMMA IInvThere == IInv => TransferredIsThere
<1> SUFFICES ASSUME IInv, NEW t \in Tasks, call[t].step = "unlock",
                    ~call[t].refused, ~call[t].misread, NEW k \in 0 .. call[t].result - 1
             PROVE  call[t].buffer[k] = disk[call[t].lba + k]
  BY DEF TransferredIsThere
<1>1. TypeInv /\ TaskOK(t)
  BY DEF IInv
<1>2. Same(call[t]) /\ call[t].result <= call[t].i
  BY <1>1, Known DEF Inside, OwnerOK, PlaceOK
<1>3. k \in 0 .. call[t].i - 1
  BY <1>1, <1>2, Known, FieldTypes
<1> QED
  BY <1>2, <1>3 DEF Same

\* When sectors are read one at a time, the registers and the command of every
\* call are given to a disk that takes them, unless some call has given up on
\* an interrupt: however many tasks call, stMutex keeps their statements apart,
\* and a call leaves the disk ready or in error.
THEOREM SpecDiskTakesCommands ==
    ASSUME SingleReads PROVE Spec => []DiskTakesCommands
<1>1. IInv /\ [Next]_vars => IInv'
  BY InvStep
<1>2. Spec => []IInv
  BY IInvInit, <1>1, PTL DEF Spec
<1> QED
  BY <1>2, IInvTakes, PTL

\* When sectors are read one at a time, what a call reports as transferred is
\* on the disk as in the caller's buffer, for every number of sectors written,
\* whatever the other tasks do and whichever interrupts came too late, if the
\* disk took the call's command and none of its interrupts was a failure's.
THEOREM SpecTransferredIsThere ==
    ASSUME SingleReads PROVE Spec => []TransferredIsThere
<1>1. IInv /\ [Next]_vars => IInv'
  BY InvStep
<1>2. Spec => []IInv
  BY IInvInit, <1>1, PTL DEF Spec
<1> QED
  BY <1>2, IInvThere, PTL
=============================================================================
