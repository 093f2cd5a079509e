-------------------------- MODULE InterruptRouting --------------------------
(***************************************************************************)
(* Interrupts on several cores: the MP configuration table                 *)
(* (MPConfigurationTable.c), the start of the application processors       *)
(* (MultiProcessor.c, EntryPoint.s, MainForApplicationProcessor of Main.c),*)
(* the change to symmetric I/O mode (kStartSymmetricIOMode of              *)
(* ConsoleShell.c, LocalAPIC.c, PIC.c), the redirection table (IOAPIC.c)   *)
(* and the handlers with their load balancing (InterruptHandler.c).        *)
(*                                                                         *)
(* Devices pull a line up and the handler's reading pulls it down.  What   *)
(* the PIC, the I/O APIC and the local APICs do with an edge is here as    *)
(* the code relies on it: an edge nobody listens to is gone, and a core    *)
(* takes no further interrupt before the end of the last is announced.     *)
(***************************************************************************)
EXTENDS Naturals, Sequences, FiniteSets

CONSTANTS
    Entries,      \* the entries of the MP configuration table
    Irqs,         \* the IRQs of the ISA bus's lines, the timer's 0 among them
    Divisor,      \* INTERRUPT_LOADBALANCINGDIVIDOR
    Sessions,     \* the sequences of commands that are typed
    Hurried,      \* whether a command is typed while a core still sets itself up
    MaxEdges      \* bound: how often each device asks

Timer == 0
All == 255        \* the destination of every core
Unmapped == 255   \* an IRQ without an entry
None == 256       \* no interrupt in service

-----------------------------------------------------------------------------
\* The MP configuration table

Kind(type) == {n \in DOMAIN Entries : Entries[n].type = type}
Enabled == {n \in Kind("processor") : Entries[n].enabled}
Cores == 0 .. Cardinality(Enabled) - 1
ISABuses == {Entries[n].id : n \in {m \in Kind("bus") : Entries[m].isa}}
IOAPICs == {Entries[n].id : n \in Kind("ioapic")}
Intins == {Entries[n].intin : n \in Kind("assignment")}

\* The entries that say where the line of q comes in.
Wires == [q \in Irqs |-> {n \in Kind("assignment") :
             Entries[n].bus \in ISABuses /\ Entries[n].int /\ Entries[n].irq = q}]

\* There is one ISA bus, each of its IRQs has one line and that an input of its
\* own, all its lines go to one I/O APIC, and the APIC IDs are the numbers of the
\* processors counted, at most MAXPROCESSORCOUNT.
ASSUME TableAssumption ==
    /\ Len(Entries) \in Nat /\ DOMAIN Entries = 1 .. Len(Entries)
    /\ Cardinality(ISABuses) = 1 /\ Cardinality(Enabled) \in 1 .. 16
    /\ \A q \in Irqs : Cardinality(Wires[q]) = 1
    /\ \A m, n \in Kind("assignment") :
          Entries[m].bus \in ISABuses /\ Entries[n].bus \in ISABuses =>
              /\ Entries[m].ioapic = Entries[n].ioapic
              /\ Entries[m].int => Entries[m].irq \in Irqs
              /\ Entries[m].int /\ Entries[n].int /\ m # n =>
                    Entries[m].intin # Entries[n].intin
    /\ \A n \in Kind("assignment") : Entries[n].ioapic \in IOAPICs

\* Balancing is switched on after the change to symmetric I/O mode, and that
\* change is made once.
ASSUME SessionAssumption ==
    /\ Sessions \subseteq Seq({"startap", "startsymmetricio", "startintloadbal"})
    /\ \A s \in Sessions : \A n \in DOMAIN s :
        /\ s[n] = "startintloadbal" => \E m \in 1 .. n - 1 : s[m] = "startsymmetricio"
        /\ s[n] = "startsymmetricio" => \A m \in 1 .. n - 1 : s[m] # "startsymmetricio"

ASSUME NumberAssumption ==
    /\ Divisor \in Nat \ {0} /\ MaxEdges \in [Irqs -> Nat] /\ Hurried \in BOOLEAN
    /\ Timer \in Irqs /\ Irqs \subseteq 0 .. 15

\* Faulty: the first I/O APIC is taken, whose lines ever come in there.
FindFirstIOAPIC(bus) ==
    LET first == CHOOSE n \in Kind("ioapic") : \A m \in Kind("ioapic") : n <= m
    IN  Entries[first].id

\* kFindIOAPICEntryForISA: the first line of the bus leads to its I/O APIC.
FindIOAPICEntryForISA(bus) ==
    LET first == CHOOSE n \in Kind("assignment") :
                    /\ Entries[n].bus = bus
                    /\ \A m \in Kind("assignment") : Entries[m].bus = bus => n <= m
    IN  Entries[first].ioapic

-----------------------------------------------------------------------------
VARIABLES
    line, edges,              \* each device's line, and how often it went up
    picMask, picIrr, picIsr,  \* the PIC
    regs, select,             \* the I/O APIC: halves of entries, selected one
    lapic, irr, isr,          \* each core's local APIC: enabled, pending, in service
    stage,                    \* what each core has done of its start
    header, iProcessorCount, bISABusID,    \* MPCONFIGURATIONMANAGER
    base, map,                             \* IOAPICMANAGER: of the ISA bus, its IRQs' pins
    bSymmetricIOMode, bUseLoadBalancing, vvqwCoreInterruptCount,
    g_iWakeUpApplicationProcessorCount,
    hpc, irq, copy, target,   \* each core's handler: point, IRQ, kRoutingIRQToAPICID's locals
    pc, i, RFLAGS_IF, todo,   \* the shell: point, loop variable, interrupt flag, commands
    lost, clash, level        \* history: see NothingForgotten and FairShare

devices  == <<line, edges>>
pic      == <<picMask, picIrr, picIsr>>
ioapic   == <<regs, select, base, map>>
apics    == <<lapic, irr, isr>>
table    == <<header, iProcessorCount, bISABusID>>
manager  == <<bSymmetricIOMode, bUseLoadBalancing, vvqwCoreInterruptCount>>
handler  == <<hpc, irq, copy, target>>
shell    == <<pc, i, RFLAGS_IF, todo>>
start    == <<stage, g_iWakeUpApplicationProcessorCount>>
history  == <<lost, clash, level>>
vars     == <<devices, pic, ioapic, apics, start, table, manager, handler,
              shell, history>>

\* Four bytes: the upper one, the lower one if it is an IRQ's vector, bit 16.
DWord(top, vector, mask) == [top |-> top, vector |-> vector, mask |-> mask]
Halves == {"high", "low"}

\* The kernel runs on core 0 with the PIC; the I/O APIC's entries are masked.
Init ==
    /\ line = [q \in Irqs |-> FALSE] /\ edges = [q \in Irqs |-> 0]
    /\ picMask = FALSE /\ picIrr = {} /\ picIsr = {}
    /\ regs = [r \in IOAPICs \X Intins \X Halves |-> DWord(0, None, r[3] = "low")]
    /\ select = <<Timer, "low">> /\ base = 0
    /\ lapic = [c \in Cores |-> FALSE]
    /\ irr = [c \in Cores |-> {}] /\ isr = [c \in Cores |-> None]
    /\ stage = [c \in Cores |-> IF c = 0 THEN "on" ELSE "off"]
    /\ g_iWakeUpApplicationProcessorCount = 0
    /\ header = FALSE /\ iProcessorCount = 0 /\ bISABusID = 0
    /\ map = [q \in Irqs |-> 0]
    /\ bSymmetricIOMode = FALSE /\ bUseLoadBalancing = FALSE
    /\ vvqwCoreInterruptCount = [c \in Cores |-> [q \in Irqs |-> 0]]
    /\ hpc = [c \in Cores |-> "none"] /\ irq = [c \in Cores |-> Timer]
    /\ copy = [c \in Cores |-> [h \in Halves |-> DWord(0, None, FALSE)]]
    /\ target = [c \in Cores |-> 0]
    /\ pc = "prompt" /\ i = 1 /\ RFLAGS_IF = TRUE /\ todo \in Sessions
    /\ lost = {} /\ clash = FALSE /\ level = [q \in Irqs |-> 0]

-----------------------------------------------------------------------------
\* What the hardware does with an edge

Wire == [q \in Irqs |-> CHOOSE n \in Wires[q] : TRUE]

\* The dword the I/O APIC acts on for q's line.
Entry(q, half) == regs[<<Entries[Wire[q]].ioapic, Entries[Wire[q]].intin, half>>]

Masked(q) == Entry(q, "low").mask

\* The cores whose local APIC takes what the entry sends: one that is reset or
\* not enabled takes nothing.
Receivers(q) ==
    {c \in Cores : /\ ~ Masked(q) /\ Entry(q, "low").vector # None
                   /\ Entry(q, "high").top \in {c, All}
                   /\ lapic[c]}

\* kStartSymmetricIOMode has masked the PIC and not written the entries yet.
Switching == picMask /\ pc \in {"enable", "symmetric", "assign"}

\* A device wants attention and its line goes up.  The timer's is a pulse.
Raise(q) ==
    /\ ~ line[q] /\ edges[q] < MaxEdges[q]
    /\ edges' = [edges EXCEPT ![q] = @ + 1]
    /\ line' = [line EXCEPT ![q] = q # Timer]
    /\ picIrr' = IF picMask THEN picIrr ELSE picIrr \cup {q}
    /\ irr' = [c \in Cores |-> IF c \in Receivers(q)
                               THEN irr[c] \cup {Entry(q, "low").vector} ELSE irr[c]]
    /\ lost' = IF Switching /\ Masked(q) THEN lost \cup {q} ELSE lost
    /\ UNCHANGED <<picMask, picIsr, ioapic, lapic, isr, start, table, manager, handler,
                   shell, clash, level>>

-----------------------------------------------------------------------------
\* The handlers: kKeyboardHandler, kHDDHandler, kCommonInterruptHandler and, up
\* to the scheduler's part, kTimerHandler

Interruptible(c) ==
    /\ hpc[c] = "none" /\ stage[c] = "on"
    /\ c = 0 => RFLAGS_IF

\* Entering the handler, which first takes what the device has.
Enter(c, q) ==
    /\ Interruptible(c)
    /\ hpc' = [hpc EXCEPT ![c] = "eoi"] /\ irq' = [irq EXCEPT ![c] = q]
    /\ line' = [line EXCEPT ![q] = FALSE]

AcceptFromPIC(q) ==
    /\ ~ picMask /\ q \in picIrr /\ picIsr = {}
    /\ Enter(0, q)
    /\ picIrr' = picIrr \ {q} /\ picIsr' = {q}
    /\ UNCHANGED <<edges, picMask, ioapic, apics, start, table, manager, copy, target,
                   shell, history>>

AcceptFromAPIC(c, q) ==
    /\ lapic[c] /\ isr[c] = None /\ q \in irr[c] /\ \A p \in irr[c] : p <= q
    /\ Enter(c, q)
    /\ irr' = [irr EXCEPT ![c] = @ \ {q}] /\ isr' = [isr EXCEPT ![c] = q]
    /\ UNCHANGED <<edges, pic, ioapic, lapic, start, table, manager, copy, target,
                   shell, history>>

\* kGetLocalAPICBaseAddress looks into the header: while the table is being
\* read anew there is none, and what is written to the local APIC goes astray.
LocalAPICFound == header

SendEOIToPIC == picIsr' = {} /\ UNCHANGED isr

SendEOIToLocalAPIC(c) ==
    /\ isr' = IF LocalAPICFound THEN [isr EXCEPT ![c] = None] ELSE isr
    /\ UNCHANGED picIsr

\* Faulty: the mode is not looked at.
EOIToPIC(c) ==
    /\ hpc[c] = "eoi" /\ SendEOIToPIC
    /\ hpc' = [hpc EXCEPT ![c] = "count"]
    /\ UNCHANGED <<devices, picMask, picIrr, ioapic, lapic, irr, start, table, manager,
                   irq, copy, target, shell, history>>

\* kSendEOI
EOI(c) ==
    /\ hpc[c] = "eoi"
    /\ IF bSymmetricIOMode THEN SendEOIToLocalAPIC(c) ELSE SendEOIToPIC
    /\ hpc' = [hpc EXCEPT ![c] = "count"]
    /\ UNCHANGED <<devices, picMask, picIrr, ioapic, lapic, irr, start, table, manager,
                   irq, copy, target, shell, history>>

\* The handler's IRET.
Return(c) ==
    /\ hpc' = [hpc EXCEPT ![c] = "none"] /\ irq' = [irq EXCEPT ![c] = Timer]
    /\ copy' = [copy EXCEPT ![c] = [h \in Halves |-> DWord(0, None, FALSE)]]
    /\ target' = [target EXCEPT ![c] = 0]

IncreaseInterruptCount(c) ==
    vvqwCoreInterruptCount' = [vvqwCoreInterruptCount EXCEPT ![c][irq[c]] = @ + 1]

\* The count, and what kProcessLoadBalancing returns early for.
Count(c) ==
    /\ hpc[c] = "count" /\ IncreaseInterruptCount(c)
    /\ IF /\ irq[c] # Timer /\ bUseLoadBalancing
          /\ vvqwCoreInterruptCount'[c][irq[c]] % Divisor = 0
       THEN hpc' = [hpc EXCEPT ![c] = "choose"] /\ UNCHANGED <<irq, copy, target>>
       ELSE Return(c)
    /\ UNCHANGED <<devices, pic, ioapic, apics, start, table, bSymmetricIOMode,
                   bUseLoadBalancing, shell, history>>

GetProcessorCount == IF iProcessorCount = 0 THEN 1 ELSE iProcessorCount

\* Faulty: the comparison is turned round.
MostCore(q) ==
    CHOOSE c \in 0 .. GetProcessorCount - 1 :
        \A d \in 0 .. GetProcessorCount - 1 :
            vvqwCoreInterruptCount[c][q] >= vvqwCoreInterruptCount[d][q]

\* The first of the cores with the smallest count.
LeastCore(q) ==
    CHOOSE c \in 0 .. GetProcessorCount - 1 :
        \A d \in 0 .. GetProcessorCount - 1 :
            /\ vvqwCoreInterruptCount[c][q] <= vvqwCoreInterruptCount[d][q]
            /\ vvqwCoreInterruptCount[c][q] = vvqwCoreInterruptCount[d][q] => c <= d

\* kProcessLoadBalancing's loop.
Choose(c) ==
    /\ hpc[c] = "choose"
    /\ target' = [target EXCEPT ![c] = LeastCore(irq[c])]
    /\ hpc' = [hpc EXCEPT ![c] = "selectHigh"]
    /\ UNCHANGED <<devices, pic, ioapic, apics, start, table, manager, irq, copy,
                   shell, history>>

\* kRoutingIRQToAPICID: the selector and the window, four times each.
Selects == {"selectHigh", "selectLow", "reselectHigh", "reselectLow"}
Windows == {"readHigh", "readLow", "writeHigh", "writeLow"}
Following ==
    [selectHigh |-> "readHigh", readHigh |-> "selectLow", selectLow |-> "readLow",
     readLow |-> "reselectHigh", reselectHigh |-> "writeHigh",
     writeHigh |-> "reselectLow", reselectLow |-> "writeLow"]

HalfOf(p) == IF p \in {"selectHigh", "readHigh", "reselectHigh", "writeHigh"}
             THEN "high" ELSE "low"

Step(c) == hpc' = [hpc EXCEPT ![c] = Following[hpc[c]]]

\* The selector is one for all cores, and nothing locks it.
Select(c) ==
    /\ hpc[c] \in Selects
    /\ select' = <<map[irq[c]], HalfOf(hpc[c])>>
    /\ clash' = (clash \/ \E d \in Cores \ {c} : hpc[d] \in Windows)
    /\ Step(c)
    /\ UNCHANGED <<devices, pic, regs, base, map, apics, start, table, manager, irq, copy,
                   target, shell, lost, level>>

Selected == <<base, select[1], select[2]>>

Read(c) ==
    /\ hpc[c] \in {"readHigh", "readLow"}
    /\ copy' = [copy EXCEPT ![c][HalfOf(hpc[c])] = regs[Selected]]
    /\ Step(c)
    /\ UNCHANGED <<devices, pic, ioapic, apics, start, table, manager, irq, target,
                   shell, history>>

WriteHigh(c) ==
    /\ hpc[c] = "writeHigh"
    /\ regs' = [regs EXCEPT ![Selected] = [copy[c]["high"] EXCEPT !.top = target[c]]]
    /\ Step(c)
    /\ UNCHANGED <<devices, pic, select, base, map, apics, start, table, manager, irq, copy,
                   target, shell, history>>

WriteLow(c) ==
    /\ hpc[c] = "writeLow"
    /\ regs' = [regs EXCEPT ![Selected] = copy[c]["low"]]
    /\ Return(c)
    /\ UNCHANGED <<devices, pic, select, base, map, apics, start, table, manager, shell,
                   history>>

Handle(c) ==
    \/ c = 0 /\ \E q \in Irqs : AcceptFromPIC(q)
    \/ \E q \in Irqs : AcceptFromAPIC(c, q)
    \/ EOI(c) \/ Count(c) \/ Choose(c)
    \/ Select(c) \/ Read(c) \/ WriteHigh(c) \/ WriteLow(c)

-----------------------------------------------------------------------------
\* The shell's commands, in a task of core 0: its steps come between handlers

Running == hpc[0] = "none"

Command == Head(todo)

Goto(p) == pc' = p /\ i' = 1

Finish == Goto("prompt") /\ todo' = Tail(todo)

\* The next command is typed.  Both that need the table read it first.
Type ==
    /\ pc = "prompt" /\ todo # <<>> /\ Running
    /\ Hurried \/ \A c \in Cores : stage[c] \in {"off", "on"}
    /\ Goto(IF Command = "startintloadbal" THEN "balance" ELSE "clear")
    /\ UNCHANGED <<devices, pic, ioapic, apics, start, table, manager, handler,
                   RFLAGS_IF, todo, history>>

\* kAnalysisMPConfigurationTable forgets what it knew...
Clear ==
    /\ pc = "clear" /\ Running
    /\ header' = FALSE /\ iProcessorCount' = 0 /\ bISABusID' = 255
    /\ Goto("find")
    /\ UNCHANGED <<devices, pic, ioapic, apics, start, manager, handler,
                   RFLAGS_IF, todo, history>>

\* ... finds the table again (kFindMPFloatingPointerAddress)...
Find ==
    /\ pc = "find" /\ Running
    /\ header' = TRUE
    /\ Goto("scan")
    /\ UNCHANGED <<devices, pic, ioapic, apics, start, iProcessorCount, bISABusID, manager,
                   handler, RFLAGS_IF, todo, history>>

\* Faulty: a processor that is not enabled counts.
ScanAll ==
    /\ pc = "scan" /\ Running
    /\ IF i > Len(Entries)
       THEN /\ Goto(IF Command = "startap" THEN "enable" ELSE "mask")
            /\ UNCHANGED <<iProcessorCount, bISABusID>>
       ELSE /\ i' = i + 1 /\ pc' = pc
            /\ iProcessorCount' = iProcessorCount + IF i \in Kind("processor") THEN 1 ELSE 0
            /\ bISABusID' = IF i \in Kind("bus") /\ Entries[i].isa THEN Entries[i].id
                            ELSE bISABusID
    /\ UNCHANGED <<devices, pic, ioapic, apics, start, header, manager, handler,
                   RFLAGS_IF, todo, history>>

\* ... and goes through its entries.
Scan ==
    /\ pc = "scan" /\ Running
    /\ IF i > Len(Entries)
       THEN /\ Goto(IF Command = "startap" THEN "enable" ELSE "mask")
            /\ UNCHANGED <<iProcessorCount, bISABusID>>
       ELSE /\ i' = i + 1 /\ pc' = pc
            /\ iProcessorCount' = iProcessorCount + IF i \in Enabled THEN 1 ELSE 0
            /\ bISABusID' = IF i \in Kind("bus") /\ Entries[i].isa THEN Entries[i].id
                            ELSE bISABusID
    /\ UNCHANGED <<devices, pic, ioapic, apics, start, header, manager, handler,
                   RFLAGS_IF, todo, history>>

\* kMaskPICInterrupt(0xFFFF), for good: what it has latched stays there.
MaskPIC ==
    /\ pc = "mask" /\ Running
    /\ picMask' = TRUE
    /\ lost' = lost \cup {q \in picIrr : line[q]}
    /\ Goto("enable")
    /\ UNCHANGED <<devices, picIrr, picIsr, ioapic, apics, start, table, manager, handler,
                   RFLAGS_IF, todo, clash, level>>

\* kEnableSoftwareLocalAPIC, and interrupts off.
Enable ==
    /\ pc = "enable" /\ Running
    /\ lapic' = [lapic EXCEPT ![0] = TRUE]
    /\ RFLAGS_IF' = FALSE
    /\ Goto(IF Command = "startap" THEN "init" ELSE "symmetric")
    /\ UNCHANGED <<devices, pic, ioapic, irr, isr, start, table, manager, handler,
                   todo, history>>

\* kWakeUpApplicationProcessor: the INIT message resets all cores but this one,
\* whatever they do.
Init_IPI ==
    /\ pc = "init"
    /\ LET Reset(f, v) == [c \in Cores |-> IF c = 0 THEN f[c] ELSE v]
       IN  /\ stage' = Reset(stage, "reset") /\ lapic' = Reset(lapic, FALSE)
           /\ irr' = Reset(irr, {}) /\ isr' = Reset(isr, None)
           /\ hpc' = Reset(hpc, "none") /\ irq' = Reset(irq, Timer)
           /\ copy' = Reset(copy, [h \in Halves |-> DWord(0, None, FALSE)])
           /\ target' = Reset(target, 0)
    /\ Goto("startup")
    /\ UNCHANGED <<devices, pic, ioapic, g_iWakeUpApplicationProcessorCount, table, manager,
                   RFLAGS_IF, todo, history>>

\* The start-up message, twice; the second finds nobody waiting.
StartUp_IPI ==
    /\ pc = "startup"
    /\ stage' = [c \in Cores |-> IF stage[c] = "reset" THEN "starting" ELSE stage[c]]
    /\ RFLAGS_IF' = TRUE
    /\ Goto("wait")
    /\ UNCHANGED <<devices, pic, ioapic, apics, g_iWakeUpApplicationProcessorCount, table,
                   manager, handler, todo, history>>

\* Either message may stay pending: the command gives up.
NotDelivered ==
    /\ pc \in {"init", "startup"}
    /\ RFLAGS_IF' = TRUE
    /\ Goto("prompt") /\ todo' = <<>>
    /\ UNCHANGED <<devices, pic, ioapic, apics, start, table, manager, handler, history>>

AllAwake == g_iWakeUpApplicationProcessorCount >= iProcessorCount - 1

WaitForAll ==
    /\ pc = "wait" /\ Running /\ AllAwake
    /\ Finish
    /\ UNCHANGED <<devices, pic, ioapic, apics, start, table, manager, handler,
                   RFLAGS_IF, history>>

GetIOAPICBaseAddressOfISA == FindIOAPICEntryForISA(bISABusID)

\* The registers with every entry of the I/O APIC masked.
MaskAllInterruptInIOAPIC(apic) ==
    [r \in DOMAIN regs |-> IF r[1] = apic /\ r[3] = "low"
                           THEN [regs[r] EXCEPT !.mask = TRUE] ELSE regs[r]]

\* kStartSymmetricIOMode's middle: EOIs go to the local APIC from here on, and
\* kInitializeIORedirectionTable begins with every entry masked.
Symmetric ==
    /\ pc = "symmetric"
    /\ bSymmetricIOMode' = TRUE
    /\ base' = GetIOAPICBaseAddressOfISA
    /\ map' = [q \in Irqs |-> Unmapped]
    /\ regs' = MaskAllInterruptInIOAPIC(base')
    /\ Goto("assign")
    /\ UNCHANGED <<devices, pic, select, apics, start, table, bUseLoadBalancing,
                   vvqwCoreInterruptCount, handler, RFLAGS_IF, todo, history>>

\* Its loop: each line of the ISA bus gets its entry, the timer's for all cores.
Assign ==
    /\ pc = "assign" /\ i <= Len(Entries)
    /\ LET e == Entries[i]
       IN  IF i \in Kind("assignment") /\ e.bus = bISABusID /\ e.int
           THEN /\ regs' = [regs EXCEPT
                      ![<<base, e.intin, "high">>] =
                          DWord(IF e.irq = Timer THEN All ELSE 0, None, FALSE),
                      ![<<base, e.intin, "low">>] = DWord(0, e.irq, FALSE)]
                /\ select' = <<e.intin, "low">>
                /\ map' = [map EXCEPT ![e.irq] = e.intin]
           ELSE UNCHANGED <<regs, select, map>>
    /\ i' = i + 1
    /\ UNCHANGED <<devices, pic, base, apics, start, table, manager, handler,
                   pc, RFLAGS_IF, todo, history>>

Assigned ==
    /\ pc = "assign" /\ i > Len(Entries)
    /\ RFLAGS_IF' = TRUE
    /\ Finish
    /\ UNCHANGED <<devices, pic, ioapic, apics, start, table, manager, handler, history>>

\* kStartInterruptLoadBalancing
Balance ==
    /\ pc = "balance" /\ Running
    /\ bUseLoadBalancing' = TRUE
    /\ level' = [q \in Irqs |-> Divisor * (vvqwCoreInterruptCount[0][q] \div Divisor + 1)]
    /\ Finish
    /\ UNCHANGED <<devices, pic, ioapic, apics, start, table, bSymmetricIOMode,
                   vvqwCoreInterruptCount, handler, RFLAGS_IF, lost, clash>>

Shell ==
    \/ Type \/ Clear \/ Find \/ Scan \/ MaskPIC \/ Enable
    \/ Init_IPI \/ StartUp_IPI \/ NotDelivered \/ WaitForAll
    \/ Symmetric \/ Assign \/ Assigned \/ Balance

-----------------------------------------------------------------------------
\* An application processor from EntryPoint.s on

CountMyself(c) ==
    /\ stage[c] = "starting"
    /\ g_iWakeUpApplicationProcessorCount' = g_iWakeUpApplicationProcessorCount + 1
    /\ stage' = [stage EXCEPT ![c] = "counted"]
    /\ UNCHANGED <<devices, pic, ioapic, apics, table, manager, handler, shell, history>>

\* MainForApplicationProcessor: its local APIC is found through the header.
SetUp(c) ==
    /\ stage[c] = "counted"
    /\ lapic' = [lapic EXCEPT ![c] = LocalAPICFound]
    /\ stage' = [stage EXCEPT ![c] = "on"]
    /\ UNCHANGED <<devices, pic, ioapic, irr, isr, g_iWakeUpApplicationProcessorCount, table,
                   manager, handler, shell, history>>

-----------------------------------------------------------------------------
Next ==
    \/ \E q \in Irqs : Raise(q)
    \/ Shell
    \/ \E c \in Cores : Handle(c) \/ CountMyself(c) \/ SetUp(c)

Spec == Init /\ [][Next]_vars

\* Every core goes on, in its handlers and in its start; so does the shell's
\* task.  Nothing makes a device ask.
FairSpec ==
    /\ Spec /\ WF_vars(Shell)
    /\ \A c \in Cores : WF_vars(Handle(c)) /\ WF_vars(CountMyself(c) \/ SetUp(c))
-----------------------------------------------------------------------------
\* Properties

TypeOK ==
    /\ line \in [Irqs -> BOOLEAN] /\ \A q \in Irqs : edges[q] \in 0 .. MaxEdges[q]
    /\ picMask \in BOOLEAN /\ picIrr \subseteq Irqs /\ picIsr \subseteq Irqs
    /\ \A r \in DOMAIN regs : /\ regs[r].top \in Cores \cup {All}
                              /\ regs[r].vector \in Irqs \cup {None}
                              /\ regs[r].mask \in BOOLEAN
    /\ select \in (Intins \cup {0}) \X Halves /\ base \in IOAPICs \cup {0}
    /\ \A q \in Irqs : map[q] \in Intins \cup {0, Unmapped}
    /\ \A c \in Cores : lapic[c] \in BOOLEAN /\ irr[c] \subseteq Irqs /\ isr[c] \in Irqs \cup {None}
    /\ stage \in [Cores -> {"off", "reset", "starting", "counted", "on"}]
    /\ g_iWakeUpApplicationProcessorCount \in Nat
    /\ header \in BOOLEAN /\ iProcessorCount \in 0 .. Cardinality(Cores)
    /\ bSymmetricIOMode \in BOOLEAN /\ bUseLoadBalancing \in BOOLEAN
    /\ \A c \in Cores : /\ hpc[c] \in {"none", "eoi", "count", "choose"} \cup Selects \cup Windows
                        /\ irq[c] \in Irqs /\ target[c] \in Cores
    /\ lost \subseteq Irqs

\* A device that has asked is on its way to a core that will answer it: its
\* interrupt is neither sent to a core that does not run nor dropped by an
\* entry half written.  Two are excused: what comes between kMaskPICInterrupt
\* and the entry's writing, and all after two cores were in
\* kRoutingIRQToAPICID's selector and window at once.
OnItsWay(q) ==
    \/ ~ bSymmetricIOMode /\ ~ picMask /\ q \in picIrr
    \/ \E c \in Cores : lapic[c] /\ q \in irr[c]

NothingForgotten ==
    ~ clash => \A q \in Irqs : line[q] => q \in lost \/ OnItsWay(q)

\* Balancing keeps the cores within a turn of each other: none gets further
\* ahead of another than INTERRUPT_LOADBALANCINGDIVIDOR interrupts and one that
\* was on its way, apart from the bootstrap processor's lead when it began.
FairShare ==
    bUseLoadBalancing /\ ~ clash =>
        \A q \in Irqs \ {Timer}, c, d \in Cores :
            LET count(k) == vvqwCoreInterruptCount[k][q]
            IN  count(c) > level[q] + 1 => count(c) <= count(d) + Divisor + 1

\* Again and again no core holds an interrupt, no device waits and startap has
\* come back, but for the two excuses: no EOI is missing, whichever mode and
\* core it is for, a core that balancing chose answers, and the count of started
\* cores is reached.
Settled ==
    /\ \A c \in Cores : irr[c] = {}
    /\ \A q \in Irqs : line[q] => q \in lost
    /\ pc # "wait"

Answered == []<>(Settled \/ clash)
=============================================================================
