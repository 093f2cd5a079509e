----------------------- MODULE InterruptRoutingProofs -----------------------
(***************************************************************************)
(* Proofs about InterruptRouting, for every MP configuration table and     *)
(* set of cores, every session and every bound on the edges.               *)
(*                                                                         *)
(* The types need how far the table has been read (ScanInv), which         *)
(* commands are still to come (PlanInv) and which inputs the driver knows  *)
(* (MapInv).  That no interrupt is forgotten needs, on top of them, the    *)
(* state of the PIC before the change and of the I/O APIC's entries after  *)
(* it, and that the cores an entry leads to listen: that is so only when   *)
(* commands are typed in the order Orderly names.  The shares need what a  *)
(* core knows between its decision and the writing of the entry (ShareOK). *)
(*                                                                         *)
(* Orderly is a hypothesis, not an assumption of the model, because the    *)
(* shell enforces no such order; clash says when two handlers are in the   *)
(* I/O APIC's window at once, after which nothing is claimed.              *)
(***************************************************************************)
EXTENDS InterruptRouting, FiniteSetTheorems, WellFoundedInduction, TLAPS

\* The ISA bus, its I/O APIC, and the input of an IRQ.
Bus == CHOOSE b \in ISABuses : TRUE
Apic == Entries[Wire[Timer]].ioapic
Pin(q) == Entries[Wire[q]].intin

\* The registers' contents and the program points, the shell's places: Analysed
\* once the table has been read
Register == [top : Cores \cup {All}, vector : Irqs \cup {None}, mask : BOOLEAN]
Registers == IOAPICs \X Intins \X Halves
Points == {"none", "eoi", "count", "choose"} \cup Selects \cup Windows
Commands == {"startap", "startsymmetricio", "startintloadbal"}
Analysed == {"mask", "enable", "init", "startup", "wait", "symmetric", "assign"}
Places == {"prompt", "clear", "find", "scan", "balance"} \cup Analysed

DeviceTypes ==
    /\ line \in [Irqs -> BOOLEAN] /\ edges \in [Irqs -> Nat]
    /\ \A q \in Irqs : edges[q] <= MaxEdges[q]
    /\ picMask \in BOOLEAN /\ picIrr \in SUBSET Irqs /\ picIsr \in SUBSET Irqs
    /\ lost \in SUBSET Irqs
    /\ lapic \in [Cores -> BOOLEAN] /\ irr \in [Cores -> SUBSET Irqs]
    /\ isr \in [Cores -> Irqs \cup {None}]
    /\ stage \in [Cores -> {"off", "reset", "starting", "counted", "on"}]
    /\ g_iWakeUpApplicationProcessorCount \in Nat

RouteTypes ==
    /\ regs \in [Registers -> Register] /\ select \in (Intins \cup {0}) \X Halves
    /\ base \in IOAPICs \cup {0} /\ map \in [Irqs -> Intins \cup {0, Unmapped}]

HandlerTypes ==
    /\ hpc \in [Cores -> Points] /\ irq \in [Cores -> Irqs]
    /\ copy \in [Cores -> [Halves -> Register]] /\ target \in [Cores -> Cores]
    /\ vvqwCoreInterruptCount \in [Cores -> [Irqs -> Nat]]
    /\ clash \in BOOLEAN /\ level \in [Irqs -> Nat]

ShellTypes ==
    /\ header \in BOOLEAN /\ iProcessorCount \in 0 .. Cardinality(Enabled)
    /\ bSymmetricIOMode \in BOOLEAN /\ bUseLoadBalancing \in BOOLEAN
    /\ pc \in Places /\ i \in Nat \ {0} /\ RFLAGS_IF \in BOOLEAN /\ todo \in Seq(Commands)

\* The types of the devices, the registers, the handlers' and the shell's state
Types == DeviceTypes /\ RouteTypes /\ HandlerTypes /\ ShellTypes

\* How far the table has been read
ScanInv ==
    /\ pc = "find" => iProcessorCount = 0
    /\ pc = "scan" =>
        /\ i <= Len(Entries) + 1
        /\ iProcessorCount = Cardinality({n \in Enabled : n < i})
        /\ (\E n \in Kind("bus") : Entries[n].isa /\ n < i) => bISABusID = Bus
    /\ pc \in Analysed => iProcessorCount = Cardinality(Enabled) /\ bISABusID = Bus

\* What is still to be typed
PlanInv ==
    /\ pc # "prompt" => todo # <<>>
    /\ pc = "balance" => Command = "startintloadbal"
    /\ pc \in {"mask", "symmetric", "assign"} => Command = "startsymmetricio"
    /\ pc \in {"init", "startup", "wait"} => Command = "startap"
    /\ pc \in {"clear", "find", "scan", "enable"} => Command \in {"startap", "startsymmetricio"}
    /\ \A n \in DOMAIN todo :
        /\ todo[n] = "startsymmetricio" =>
            /\ \A m \in 1 .. n - 1 : todo[m] # "startsymmetricio"
            /\ bSymmetricIOMode = TRUE => n = 1 /\ pc = "assign"
        /\ todo[n] = "startintloadbal" =>
            bSymmetricIOMode = TRUE \/ \E m \in 1 .. n - 1 : todo[m] = "startsymmetricio"
    /\ pc = "assign" => bSymmetricIOMode = TRUE
    /\ bUseLoadBalancing = TRUE => bSymmetricIOMode = TRUE /\ pc # "assign"

\* Which inputs the driver knows
MapInv ==
    /\ pc = "assign" =>
        /\ base = Apic
        /\ \A q \in Irqs : Wire[q] < i => map[q] = Pin(q) /\ select[1] \in Intins
    /\ bSymmetricIOMode = TRUE /\ pc # "assign" =>
        /\ base = Apic /\ select[1] \in Intins
        /\ \A q \in Irqs : map[q] = Pin(q)
    /\ bUseLoadBalancing = FALSE => \A c \in Cores : hpc[c] \in {"none", "eoi", "count"}

TypeInv == Types /\ ScanInv /\ PlanInv /\ MapInv

-----------------------------------------------------------------------------
\* Commands are typed one after the other is done, the cores are started
\* before the change to symmetric I/O mode, and balancing starts after both.
Orderly ==
    /\ Hurried = FALSE
    /\ \A s \in Sessions : \A n \in DOMAIN s :
        /\ s[n] = "startap" => \A m \in 1 .. n - 1 : s[m] # "startsymmetricio"
        /\ s[n] = "startintloadbal" => \E m \in 1 .. n - 1 : s[m] = "startap"

\* The application processors have been started; none is on its way up.
Woken == \A c \in Cores : stage[c] # "off"
Steady == \A c \in Cores : stage[c] \in {"off", "on"}
Others == Cores \ {0}

\* The session keeps its order, and each command finds what it presupposes.
QueueInv ==
    \A n \in DOMAIN todo :
        /\ todo[n] = "startap" =>
            bSymmetricIOMode = FALSE /\ \A m \in 1 .. n - 1 : todo[m] # "startsymmetricio"
        /\ todo[n] = "startintloadbal" => Woken \/ \E m \in 1 .. n - 1 : todo[m] = "startap"

OrderInv ==
    /\ QueueInv
    /\ bUseLoadBalancing = TRUE \/ pc \in {"startup", "wait"} => Woken
    /\ bSymmetricIOMode = TRUE \/ pc \notin {"prompt", "startup", "wait"} => Steady
    /\ bSymmetricIOMode = TRUE => iProcessorCount = Cardinality(Enabled)

\* A core that is on has its local APIC enabled, and only the first caller of
\* kAnalysisMPConfigurationTable finds no header.
StartInv ==
    /\ stage[0] = "on"
    /\ header = FALSE =>
        pc = "find" \/ (pc \in {"prompt", "clear", "balance"} /\ \A c \in Others : stage[c] = "off")
    /\ \A c \in Others : stage[c] = "on" => lapic[c] = TRUE
    /\ bSymmetricIOMode = TRUE \/ pc \in {"symmetric", "assign"} => lapic[0] = TRUE

\* The two halves of an IRQ's entry
High(r, q) == r[<<Apic, Pin(q), "high">>]
Low(r, q) == r[<<Apic, Pin(q), "low">>]

\* Until the mode is changed the PIC has every edge, or has lost it, and the
\* I/O APIC lets nothing through.
SwitchInv ==
    /\ bSymmetricIOMode = FALSE =>
        /\ \A q \in Irqs : Low(regs, q).mask = TRUE
        /\ \A c \in Cores : irr[c] = {}
        /\ \A c \in Others : hpc[c] = "none"
        /\ picMask = FALSE => \A q \in Irqs : line[q] = TRUE => q \in picIrr
        /\ picMask = TRUE => /\ pc \in {"enable", "symmetric"}
                             /\ \A q \in Irqs : line[q] = TRUE => q \in lost
    /\ bSymmetricIOMode = TRUE \/ pc = "symmetric" => picMask = TRUE
    /\ pc = "enable" => (picMask = TRUE <=> Command = "startsymmetricio")

\* Where an entry leads when kInitializeIORedirectionTable has written it
Starter(q) == IF q = Timer THEN All ELSE 0

\* The entries are written one after the other.
AssignInv ==
    pc = "assign" => \A q \in Irqs :
        IF Wire[q] < i THEN Low(regs, q) = DWord(0, q, FALSE) /\ High(regs, q).top = Starter(q)
        ELSE Low(regs, q).mask = TRUE

\* Afterwards a raised line waits in a local APIC, or its edge was lost.
LinesInv ==
    bSymmetricIOMode = TRUE => \A q \in Irqs : line[q] = TRUE =>
        q \in lost \/ \E c \in Cores : lapic[c] = TRUE /\ q \in irr[c]

\* Every entry is unmasked and leads somewhere.
RouteInv ==
    bSymmetricIOMode = TRUE /\ pc # "assign" => \A q \in Irqs :
        /\ Low(regs, q) = DWord(0, q, FALSE)
        /\ IF q = Timer \/ bUseLoadBalancing = FALSE THEN High(regs, q).top = Starter(q)
           ELSE High(regs, q).top \in Cores

\* A handler in the window is there alone, with its own register selected.
HandlerOK(c) ==
    /\ hpc[c] \in Windows =>
        /\ select = <<Pin(irq[c]), HalfOf(hpc[c])>>
        /\ \A d \in Cores \ {c} : hpc[d] \notin Windows
    /\ hpc[c] \in {"reselectHigh", "writeHigh", "reselectLow", "writeLow"} =>
        copy[c]["low"] = DWord(0, irq[c], FALSE)
    /\ hpc[c] \in {"choose"} \cup Selects \cup Windows => irq[c] # Timer

\* Before balancing the other cores have seen the timer only.
AloneInv ==
    bUseLoadBalancing = FALSE =>
        /\ clash = FALSE
        /\ \A c \in Others, q \in Irqs \ {Timer} :
              /\ q \notin irr[c] /\ vvqwCoreInterruptCount[c][q] = 0
              /\ hpc[c] # "none" => irq[c] # q

\* What holds until two handlers are in the window at once
RoutesInv == LinesInv /\ RouteInv /\ \A c \in Cores : HandlerOK(c)

-----------------------------------------------------------------------------
\* The shares: counts are compared at multiples of Divisor, and an IRQ's entry
\* is moved when its core's count is one.
Floor(n) == n - (n % Divisor)
Number(q, c) == vvqwCoreInterruptCount[c][q]
Handling(q, c) == irq[c] = q /\ hpc[c] \in {"eoi", "count"}
Deciding(q, c) == irq[c] = q /\ hpc[c] \in {"choose", "selectHigh", "readHigh", "selectLow",
                                            "readLow", "reselectHigh", "writeHigh"}
Goes(q, c) == High(regs, q).top = c

\* A core to which the entry does not lead is done with the IRQ, or has one
\* interrupt left, after which its count is not a multiple.
Rest(q, c) ==
    /\ ~(q \in irr[c] /\ Handling(q, c))
    /\ q \in irr[c] \/ Handling(q, c) => Number(q, c) % Divisor = 0
    /\ Number(q, c) % Divisor \in {0, 1}

\* The core that moves the entry has it, and chose a core with the least multiple.
Decider(q, c) ==
    /\ Goes(q, c) /\ Number(q, c) % Divisor = 0
    /\ hpc[c] # "choose" => \A d \in Cores : Floor(Number(q, target[c])) <= Number(q, d)

\* No core is more than one multiple ahead of another, or it was when balancing
\* began; one that has the entry is not ahead.
ShareOK(q, c) ==
    /\ Deciding(q, c) => Decider(q, c)
    /\ ~Goes(q, c) => Rest(q, c)
    /\ Goes(q, c) /\ ~Deciding(q, c) =>
        \/ \A d \in Cores : Floor(Number(q, c)) <= Number(q, d)
        \/ Floor(Number(q, c)) + Divisor <= level[q]
    /\ \/ \A d \in Cores : Floor(Number(q, c)) <= Number(q, d) + Divisor
       \/ Floor(Number(q, c)) <= level[q]

ShareInv ==
    bUseLoadBalancing = TRUE => \A q \in Irqs \ {Timer} :
        /\ level[q] <= Floor(Number(q, 0)) + Divisor
        /\ \A c \in Cores : ShareOK(q, c)

\* The inductive invariant
IInv ==
    /\ TypeInv /\ OrderInv /\ StartInv /\ SwitchInv /\ AssignInv /\ AloneInv
    /\ clash = FALSE => RoutesInv
    /\ clash = FALSE /\ Divisor > 1 => ShareInv

-----------------------------------------------------------------------------
\* A set of natural numbers has a least element.
LEMMA LeastNatural ==
    ASSUME NEW S \in SUBSET Nat, S # {} PROVE \E k \in S : \A j \in S : k <= j
<1> DEFINE T == {0 .. n : n \in S}
<1>1. T \subseteq FiniteSubsetsOf(Nat) /\ T # {}
  <2>1. ASSUME NEW n \in S PROVE 0 .. n \in FiniteSubsetsOf(Nat)
    <3>1. 0 \in Int /\ n \in Int /\ 0 .. n \subseteq Nat
      OBVIOUS
    <3>2. IsFiniteSet(0 .. n)
      BY <3>1, FS_Interval
    <3> QED
      BY <3>1, <3>2 DEF FiniteSubsetsOf
  <2> QED
    BY <2>1
<1>2. PICK x \in T : \A y \in T : ~(<<y, x>> \in StrictSubsetOrdering(Nat))
  <2> HIDE DEF T
  <2> QED
    BY <1>1, FS_StrictSubsetOrderingWellFounded, WFMin
<1>3. PICK k \in S : x = 0 .. k
  BY <1>2
<1>4. ASSUME NEW j \in S, j < k PROVE FALSE
  <2>1. (0 .. j) \subseteq (0 .. k) /\ (0 .. j) # (0 .. k)
    <3>1. k \in 0 .. k /\ k \notin 0 .. j
      BY <1>4
    <3> QED
      BY <1>4, <3>1
  <2>2. <<0 .. j, 0 .. k>> \in StrictSubsetOrdering(Nat)
    BY <2>1 DEF StrictSubsetOrdering
  <2> QED
    BY <1>2, <1>3, <2>2
<1> QED
  BY <1>4

-----------------------------------------------------------------------------
\* The MP configuration table

LEMMA TableFinite ==
    /\ IsFiniteSet(DOMAIN Entries) /\ Len(Entries) \in Nat /\ DOMAIN Entries = 1 .. Len(Entries)
    /\ IsFiniteSet(Enabled) /\ Enabled \subseteq 1 .. Len(Entries)
    /\ IsFiniteSet(ISABuses)
    /\ \A q \in Irqs : IsFiniteSet(Wires[q])
<1>1. Len(Entries) \in Nat /\ DOMAIN Entries = 1 .. Len(Entries)
  BY TableAssumption
<1>2. IsFiniteSet(1 .. Len(Entries))
  BY <1>1, FS_Interval
<1>3. Enabled \subseteq 1 .. Len(Entries) /\ IsFiniteSet(Enabled)
  <2>1. Enabled \subseteq 1 .. Len(Entries)
    BY <1>1 DEF Enabled, Kind
  <2> QED
    BY <1>2, <2>1, FS_Subset
<1>4. IsFiniteSet(ISABuses)
  <2> DEFINE B == {m \in Kind("bus") : Entries[m].isa}
             f == [n \in B |-> Entries[n].id]
  <2>1. B \subseteq 1 .. Len(Entries)
    BY <1>1 DEF Kind
  <2>2. IsFiniteSet(B)
    BY <1>2, <2>1, FS_Subset
  <2>3. f \in Surjection(B, ISABuses)
    <3>1. f \in [B -> ISABuses]
      BY DEF ISABuses
    <3>2. \A b \in ISABuses : \E n \in B : f[n] = b
      BY DEF ISABuses
    <3> HIDE DEF f, B
    <3> QED
      BY <3>1, <3>2 DEF Surjection
  <2> QED
    BY <2>2, <2>3, FS_Surjection
<1>5. ASSUME NEW q \in Irqs PROVE IsFiniteSet(Wires[q])
  <2>1. Wires[q] \subseteq 1 .. Len(Entries)
    BY <1>1 DEF Wires, Kind
  <2> QED
    BY <1>2, <2>1, FS_Subset
<1> QED
  BY <1>1, <1>2, <1>3, <1>4, <1>5

LEMMA BusIs == ISABuses = {Bus}
<1>1. PICK b : ISABuses = {b}
  BY TableFinite, TableAssumption, FS_Singleton
<1> QED
  BY <1>1 DEF Bus

LEMMA WireIs ==
    ASSUME NEW q \in Irqs
    PROVE  /\ Wires[q] = {Wire[q]} /\ Wire[q] \in Kind("assignment")
           /\ Wire[q] \in 1 .. Len(Entries) /\ Wire[q] \in Nat
           /\ Entries[Wire[q]].bus = Bus /\ Entries[Wire[q]].int /\ Entries[Wire[q]].irq = q
           /\ Entries[Wire[q]].ioapic = Apic /\ Apic \in IOAPICs /\ Pin(q) \in Intins
<1>1. ASSUME NEW p \in Irqs
      PROVE  /\ Wires[p] = {Wire[p]} /\ Wire[p] \in Kind("assignment")
             /\ Wire[p] \in 1 .. Len(Entries) /\ Wire[p] \in Nat
             /\ Entries[Wire[p]].bus \in ISABuses /\ Entries[Wire[p]].int /\ Entries[Wire[p]].irq = p
             /\ Entries[Wire[p]].ioapic \in IOAPICs /\ Pin(p) \in Intins
  <2>1. Cardinality(Wires[p]) = 1 /\ IsFiniteSet(Wires[p])
    BY TableAssumption, TableFinite
  <2>2. PICK n : Wires[p] = {n}
    BY <2>1, FS_Singleton
  <2>3. Wire[p] = n
    <3>1. Wire[p] = CHOOSE m \in Wires[p] : TRUE
      BY DEF Wire
    <3> QED
      BY <2>2, <3>1
  <2>4. n \in Wires[p]
    BY <2>2
  <2>5. n \in Kind("assignment") /\ Entries[n].bus \in ISABuses /\ Entries[n].int /\ Entries[n].irq = p
    BY <2>4 DEF Wires
  <2>6. n \in 1 .. Len(Entries)
    BY <2>5, TableFinite DEF Kind
  <2>7. Entries[n].ioapic \in IOAPICs
    BY <2>5, TableAssumption
  <2>8. Entries[n].intin \in Intins
    BY <2>5 DEF Intins
  <2> QED
    BY <2>2, <2>3, <2>5, <2>6, <2>7, <2>8, TableFinite DEF Pin
<1>2. Timer \in Irqs
  BY NumberAssumption
<1>3. Entries[Wire[q]].ioapic = Entries[Wire[Timer]].ioapic
  BY <1>1, <1>2, TableAssumption
<1> QED
  BY <1>1, <1>2, <1>3, BusIs DEF Apic

LEMMA PinsDiffer == ASSUME NEW p \in Irqs, NEW q \in Irqs, p # q PROVE Pin(p) # Pin(q)
<1>1. /\ Wire[p] \in Kind("assignment") /\ Wire[q] \in Kind("assignment")
      /\ Entries[Wire[p]].bus \in ISABuses /\ Entries[Wire[q]].bus \in ISABuses
      /\ Entries[Wire[p]].int /\ Entries[Wire[q]].int
      /\ Entries[Wire[p]].irq = p /\ Entries[Wire[q]].irq = q
  BY WireIs, BusIs
<1>2. Wire[p] # Wire[q]
  BY <1>1
<1> QED
  BY <1>1, <1>2, TableAssumption DEF Pin

\* A line of the ISA bus is that of its IRQ.
LEMMA LineIs ==
    ASSUME NEW n \in Kind("assignment"), Entries[n].bus = Bus, Entries[n].int
    PROVE  /\ Entries[n].irq \in Irqs /\ n = Wire[Entries[n].irq]
           /\ Entries[n].intin = Pin(Entries[n].irq)
<1>1. Entries[n].bus \in ISABuses
  BY BusIs
<1>2. Entries[n].irq \in Irqs
  BY <1>1, TableAssumption
<1>3. n \in Wires[Entries[n].irq]
  BY <1>1, <1>2 DEF Wires
<1> QED
  BY <1>2, <1>3, WireIs DEF Pin

LEMMA IOAPICIs == FindIOAPICEntryForISA(Bus) = Apic
<1> DEFINE S == {n \in Kind("assignment") : Entries[n].bus = Bus}
           first == CHOOSE n \in Kind("assignment") :
                        /\ Entries[n].bus = Bus
                        /\ \A m \in Kind("assignment") : Entries[m].bus = Bus => n <= m
<1>1. Timer \in Irqs /\ Wire[Timer] \in S /\ Kind("assignment") \subseteq Nat
  <2>1. Timer \in Irqs
    BY NumberAssumption
  <2>2. Kind("assignment") \subseteq Nat
    BY TableFinite DEF Kind
  <2> QED
    BY <2>1, <2>2, WireIs
<1>2. S \in SUBSET Nat /\ S # {}
  BY <1>1
<1>3. \E n \in S : \A m \in S : n <= m
  <2> HIDE DEF S
  <2> QED
    BY <1>2, LeastNatural
<1>4. first \in Kind("assignment") /\ Entries[first].bus = Bus
  BY <1>3
<1>5. Bus \in ISABuses
  BY BusIs
<1>6. Wire[Timer] \in Kind("assignment") /\ Entries[Wire[Timer]].bus = Bus
  BY <1>1
<1>7. Entries[first].ioapic = Entries[Wire[Timer]].ioapic
  <2> HIDE DEF first
  <2> QED
    BY <1>4, <1>5, <1>6, TableAssumption
<1> QED
  BY <1>7 DEF FindIOAPICEntryForISA, Apic

LEMMA CoresAre ==
    /\ Cardinality(Enabled) \in Nat /\ Cardinality(Enabled) >= 1
    /\ Cores = 0 .. Cardinality(Enabled) - 1 /\ Cores \subseteq Nat /\ 0 \in Cores
    /\ Cardinality(Cores) = Cardinality(Enabled) /\ All \notin Cores
<1>1. Cardinality(Enabled) \in 1 .. 16
  BY TableAssumption
<1>2. PICK n : n = Cardinality(Enabled)
  OBVIOUS
<1>3. n \in 1 .. 16 /\ Cores = 0 .. n - 1
  BY <1>1, <1>2 DEF Cores
<1>4. PICK m : m = n - 1
  OBVIOUS
<1>5. m \in Int /\ 0 \in Int /\ m >= 0 /\ m + 1 = n
  BY <1>3, <1>4
<1>6. Cardinality(0 .. m) = IF 0 > m THEN 0 ELSE m - 0 + 1
  BY <1>5, FS_Interval, Zenon
<1>7. Cardinality(0 .. m) = n
  BY <1>5, <1>6
<1> QED
  BY <1>2, <1>3, <1>4, <1>7 DEF All

LEMMA IrqsAre == Timer \in Irqs /\ Irqs \subseteq Nat /\ None \notin Irqs
  BY NumberAssumption DEF None

-----------------------------------------------------------------------------
\* Multiples of Divisor

LEMMA FloorIs ==
    ASSUME NEW n \in Nat
    PROVE  /\ n % Divisor \in Nat /\ n % Divisor < Divisor
           /\ Floor(n) \in Nat /\ Floor(n) <= n /\ n < Floor(n) + Divisor
           /\ Floor(n) = n - (n % Divisor)
<1>1. Divisor \in Nat \ {0}
  BY NumberAssumption
<1>2. PICK v : v = Divisor
  OBVIOUS
<1>3. n % v \in 0 .. v - 1 /\ n % v <= n
  BY <1>1, <1>2
<1> QED
  BY <1>1, <1>2, <1>3 DEF Floor

LEMMA DivisionIs ==
    ASSUME NEW n \in Nat, NEW v \in Nat \ {0}
    PROVE  /\ n \div v \in Nat /\ n % v \in 0 .. v - 1 /\ n = v * (n \div v) + (n % v)
           /\ \A q, r \in Nat : r < v /\ n = v * q + r => n % v = r /\ n \div v = q
<1>1. n \div v \in Nat /\ n % v \in 0 .. v - 1
  OBVIOUS
<1>2. n = v * (n \div v) + (n % v)
  BY SMTT(60)
<1>3. ASSUME NEW q \in Nat, NEW r \in Nat, r < v, n = v * q + r PROVE n % v = r /\ n \div v = q
  <2>1. PICK p, s : p = n \div v /\ s = n % v
    OBVIOUS
  <2>2. p \in Nat /\ s \in 0 .. v - 1 /\ v * p + s = v * q + r
    BY <1>1, <1>2, <1>3, <2>1
  <2>3. ~(p > q)
    <3> SUFFICES ASSUME p >= q + 1 PROVE FALSE
      BY <2>2
    <3>1. v * p >= v * (q + 1) /\ v * (q + 1) = v * q + v
      BY <2>2
    <3> QED
      BY <1>3, <2>2, <3>1
  <2>4. ~(q > p)
    <3> SUFFICES ASSUME q >= p + 1 PROVE FALSE
      BY <2>2
    <3>1. v * q >= v * (p + 1) /\ v * (p + 1) = v * p + v
      BY <2>2
    <3> QED
      BY <1>3, <2>2, <3>1
  <2> QED
    BY <2>1, <2>2, <2>3, <2>4
<1> QED
  BY <1>1, <1>2, <1>3

\* One more is the next multiple, or has the same multiple below it.
LEMMA FloorNext ==
    ASSUME NEW n \in Nat
    PROVE  /\ (n + 1) % Divisor = 0 => Floor(n + 1) = Floor(n) + Divisor
           /\ (n + 1) % Divisor # 0 => Floor(n + 1) = Floor(n) /\ (n + 1) % Divisor = (n % Divisor) + 1
           /\ n % Divisor = 0 /\ Divisor > 1 => (n + 1) % Divisor = 1
<1>1. PICK v : v = Divisor
  OBVIOUS
<1>2. v \in Nat \ {0}
  BY <1>1, NumberAssumption
<1>3. PICK q, r, m : q = n \div v /\ r = n % v /\ m = n + 1
  OBVIOUS
<1>4. q \in Nat /\ r \in 0 .. v - 1 /\ n = v * q + r /\ m \in Nat /\ m = v * q + (r + 1)
  BY <1>2, <1>3, DivisionIs
<1>5. CASE r + 1 = v
  <2>1. q + 1 \in Nat /\ 0 \in Nat /\ 0 < v /\ m = v * (q + 1) + 0
    BY <1>2, <1>4, <1>5
  <2>2. m % v = 0
    BY <1>2, <1>4, <2>1, DivisionIs
  <2> QED
    BY <1>1, <1>2, <1>3, <1>4, <1>5, <2>2 DEF Floor
<1>6. CASE r + 1 < v
  <2>1. r + 1 \in Nat
    BY <1>4
  <2>2. m % v = r + 1
    BY <1>2, <1>4, <1>6, <2>1, DivisionIs
  <2> QED
    BY <1>1, <1>2, <1>3, <1>4, <1>6, <2>2 DEF Floor
<1> QED
  BY <1>2, <1>4, <1>5, <1>6

LEMMA FloorZero == Floor(0) = 0 /\ 0 % Divisor = 0
<1>1. PICK v : v = Divisor
  OBVIOUS
<1>2. v \in Nat \ {0} /\ 0 \in Nat /\ 0 < v /\ 0 = v * 0 + 0
  BY <1>1, NumberAssumption
<1>3. 0 % v = 0
  BY <1>2, DivisionIs
<1> QED
  BY <1>1, <1>3 DEF Floor

\* Balance's level is the next multiple.
LEMMA LevelIs ==
    ASSUME NEW n \in Nat
    PROVE  Divisor * (n \div Divisor + 1) = Floor(n) + Divisor
<1>1. PICK v : v = Divisor
  OBVIOUS
<1>2. v \in Nat \ {0}
  BY <1>1, NumberAssumption
<1>3. PICK q, r : q = n \div v /\ r = n % v
  OBVIOUS
<1>4. q \in Nat /\ r \in Nat /\ n = v * q + r
  BY <1>2, <1>3, DivisionIs
<1>5. v * (q + 1) = n - r + v
  BY <1>2, <1>4
<1> QED
  BY <1>1, <1>3, <1>5 DEF Floor

\* What kProcessLoadBalancing's loop finds
LEMMA LeastCoreIs ==
    ASSUME vvqwCoreInterruptCount \in [Cores -> [Irqs -> Nat]], NEW q \in Irqs,
           iProcessorCount \in 0 .. Cardinality(Enabled)
    PROVE  /\ LeastCore(q) \in Cores
           /\ iProcessorCount = Cardinality(Enabled) =>
                \A d \in Cores : Number(q, LeastCore(q)) <= Number(q, d)
<1>1. PICK n : n = GetProcessorCount
  OBVIOUS
<1>2. PICK all : all = 0 .. n - 1
  OBVIOUS
<1>3. /\ all \subseteq Cores /\ all # {} /\ all \subseteq Nat
      /\ iProcessorCount = Cardinality(Enabled) => all = Cores
  BY <1>1, <1>2, CoresAre DEF GetProcessorCount
<1>4. \A c \in all : Number(q, c) \in Nat
  BY <1>3 DEF Number
<1> DEFINE S == {Number(q, c) : c \in all}
<1>5. S \in SUBSET Nat /\ S # {}
  BY <1>3, <1>4
<1>6. PICK k \in S : \A j \in S : k <= j
  <2> HIDE DEF S
  <2> QED
    BY <1>5, LeastNatural
<1> DEFINE T == {c \in all : Number(q, c) = k}
<1>7. T \in SUBSET Nat /\ T # {}
  BY <1>3, <1>6
<1>8. PICK c \in T : \A j \in T : c <= j
  <2> HIDE DEF T
  <2> QED
    BY <1>7, LeastNatural
<1>9. c \in all /\ \A d \in all : /\ Number(q, c) <= Number(q, d)
                                  /\ Number(q, c) = Number(q, d) => c <= d
  BY <1>6, <1>8
<1> HIDE DEF S, T
<1>10. /\ LeastCore(q) \in all
       /\ \A d \in all : Number(q, LeastCore(q)) <= Number(q, d)
  <2>1. LeastCore(q) = CHOOSE e \in all : \A d \in all :
            /\ Number(q, e) <= Number(q, d)
            /\ Number(q, e) = Number(q, d) => e <= d
    BY <1>1, <1>2 DEF LeastCore, Number
  <2>2. \E e \in all : \A d \in all : /\ Number(q, e) <= Number(q, d)
                                      /\ Number(q, e) = Number(q, d) => e <= d
    BY <1>9
  <2> QED
    BY <2>1, <2>2, Zenon
<1> QED
  BY <1>3, <1>10

LEMMA RegistersAre ==
    ASSUME NEW q \in Irqs, NEW half \in Halves
    PROVE  <<Apic, Pin(q), half>> \in Registers
  BY WireIs DEF Registers

LEMMA HalvesAre == "high" \in Halves /\ "low" \in Halves
  BY DEF Halves

\* What the I/O APIC has for an IRQ
LEMMA EntryIs ==
    ASSUME NEW q \in Irqs
    PROVE  /\ Entry(q, "high") = High(regs, q) /\ Entry(q, "low") = Low(regs, q)
           /\ regs \in [Registers -> Register] =>
                High(regs, q) \in Register /\ Low(regs, q) \in Register
<1>1. Entry(q, "high") = High(regs, q) /\ Entry(q, "low") = Low(regs, q)
  BY WireIs DEF Entry, High, Low, Pin
<1>2. <<Apic, Pin(q), "high">> \in Registers /\ <<Apic, Pin(q), "low">> \in Registers
  BY RegistersAre, HalvesAre
<1> QED
  BY <1>1, <1>2 DEF High, Low

LEMMA NoCopy ==
    /\ \A v \in Irqs \cup {None}, m \in BOOLEAN : DWord(0, v, m) \in Register /\ DWord(All, v, m) \in Register
    /\ [h \in Halves |-> DWord(0, None, FALSE)] \in [Halves -> Register]
<1>1. ASSUME NEW v \in Irqs \cup {None}, NEW m \in BOOLEAN
      PROVE  DWord(0, v, m) \in Register /\ DWord(All, v, m) \in Register
  BY CoresAre DEF DWord, Register
<1> QED
  BY <1>1

-----------------------------------------------------------------------------
\* What is not touched

LEMMA ScanFrame ==
    ASSUME ScanInv, UNCHANGED <<pc, i, iProcessorCount, bISABusID>> PROVE ScanInv'
  BY DEF ScanInv

LEMMA PlanFrame ==
    ASSUME PlanInv, UNCHANGED <<pc, todo, bSymmetricIOMode, bUseLoadBalancing>> PROVE PlanInv'
  BY DEF PlanInv, Command

\* Handlers and cores leave the shell's commands alone.
LEMMA TypeFrame ==
    ASSUME TypeInv, UNCHANGED <<shell, table, bSymmetricIOMode, bUseLoadBalancing, base, map>>,
           DeviceTypes', RouteTypes', HandlerTypes',
           select'[1] = select[1] \/ \E q \in Irqs : select'[1] = Pin(q),
           bUseLoadBalancing = FALSE => \A c \in Cores : hpc'[c] \in {"none", "eoi", "count"}
    PROVE  TypeInv'
<1>1. ShellTypes'
  BY DEF TypeInv, Types, ShellTypes, shell, table
<1>2. ScanInv'
  BY ScanFrame DEF TypeInv, shell, table
<1>3. PlanInv'
  BY PlanFrame DEF TypeInv, shell
<1>4. select[1] \in Intins => select'[1] \in Intins
  BY WireIs
<1>5. MapInv'
  BY <1>4 DEF TypeInv, MapInv, shell
<1> QED
  BY <1>1, <1>2, <1>3, <1>5 DEF TypeInv, Types

LEMMA RouteFrame == ASSUME RouteTypes, UNCHANGED <<regs, select, base, map>> PROVE RouteTypes'
  BY DEF RouteTypes

LEMMA HandlerFrame ==
    ASSUME HandlerTypes, UNCHANGED <<handler, vvqwCoreInterruptCount, clash, level>>
    PROVE  HandlerTypes'
  BY DEF HandlerTypes, handler

LEMMA DeviceFrame ==
    ASSUME DeviceTypes, UNCHANGED <<devices, pic, apics, start, lost>> PROVE DeviceTypes'
  BY DEF DeviceTypes, devices, pic, apics, start

-----------------------------------------------------------------------------
\* The types are kept

LEMMA TypeInit == Init => TypeInv
<1> SUFFICES ASSUME Init PROVE TypeInv
  OBVIOUS
<1>1. DeviceTypes
  <2>1. \A q \in Irqs : MaxEdges[q] \in Nat
    BY NumberAssumption
  <2>2. \A q \in Irqs : edges[q] <= MaxEdges[q]
    BY <2>1 DEF Init
  <2>3. line \in [Irqs -> BOOLEAN] /\ edges \in [Irqs -> Nat] /\ lapic \in [Cores -> BOOLEAN]
    BY DEF Init
  <2>4. irr \in [Cores -> SUBSET Irqs] /\ isr \in [Cores -> Irqs \cup {None}]
    BY DEF Init
  <2>5. stage \in [Cores -> {"off", "reset", "starting", "counted", "on"}]
    BY DEF Init
  <2> QED
    BY <2>2, <2>3, <2>4, <2>5 DEF Init, DeviceTypes
<1>2. RouteTypes
  <2>1. regs \in [Registers -> Register]
    <3>1. regs = [r \in Registers |-> DWord(0, None, r[3] = "low")]
      BY DEF Init, Registers
    <3>2. \A r \in Registers : DWord(0, None, r[3] = "low") \in Register
      BY NoCopy
    <3> QED
      BY <3>1, <3>2, Zenon
  <2>2. select = <<0, "low">>
    BY DEF Init, Timer
  <2> QED
    BY <2>1, <2>2 DEF Init, RouteTypes, Halves
<1>3. HandlerTypes
  BY NoCopy, IrqsAre, CoresAre DEF Init, HandlerTypes, Points
<1>4. todo \in Seq(Commands)
  BY SessionAssumption DEF Init, Commands
<1>5. ShellTypes
  <2>1. iProcessorCount \in 0 .. Cardinality(Enabled)
    BY CoresAre DEF Init
  <2>2. pc \in Places /\ i \in Nat \ {0}
    BY DEF Init, Places
  <2> QED
    BY <1>4, <2>1, <2>2 DEF Init, ShellTypes
<1>6. ScanInv /\ MapInv
  BY DEF Init, ScanInv, MapInv, Analysed
<1>7. PlanInv
  <2>1. todo \in Sessions /\ pc = "prompt" /\ bSymmetricIOMode = FALSE /\ bUseLoadBalancing = FALSE
    BY DEF Init
  <2>2. \A n \in DOMAIN todo :
            /\ todo[n] = "startintloadbal" => \E m \in 1 .. n - 1 : todo[m] = "startsymmetricio"
            /\ todo[n] = "startsymmetricio" => \A m \in 1 .. n - 1 : todo[m] # "startsymmetricio"
    BY <2>1, SessionAssumption
  <2> QED
    BY <2>1, <2>2 DEF PlanInv
<1> QED
  BY <1>1, <1>2, <1>3, <1>5, <1>6, <1>7 DEF TypeInv, Types

LEMMA TypeRaise == ASSUME TypeInv, NEW q \in Irqs, Raise(q) PROVE TypeInv'
<1>1. DeviceTypes'
  <2>1. \A c \in Cores : c \in Receivers(q) => Entry(q, "low").vector \in Irqs
    <3>1. Low(regs, q) \in Register
      BY EntryIs DEF TypeInv, Types, RouteTypes
    <3>2. Low(regs, q).vector \in Irqs \cup {None}
      BY <3>1 DEF Register
    <3> QED
      BY <3>2, EntryIs DEF Receivers
  <2>2. irr' \in [Cores -> SUBSET Irqs]
    BY <2>1 DEF Raise, TypeInv, Types, DeviceTypes
  <2>3. edges' \in [Irqs -> Nat] /\ \A p \in Irqs : edges'[p] <= MaxEdges[p]
    <3>1. edges[q] < MaxEdges[q] /\ MaxEdges[q] \in Nat
      BY NumberAssumption DEF Raise
    <3> QED
      BY <3>1 DEF Raise, TypeInv, Types, DeviceTypes
  <2>4. line' \in [Irqs -> BOOLEAN] /\ picIrr' \in SUBSET Irqs /\ lost' \in SUBSET Irqs
    BY DEF Raise, TypeInv, Types, DeviceTypes
  <2> QED
    BY <2>2, <2>3, <2>4 DEF Raise, TypeInv, Types, DeviceTypes, start
<1>2. RouteTypes'
  BY RouteFrame DEF Raise, TypeInv, Types, ioapic
<1>3. HandlerTypes'
  BY HandlerFrame DEF Raise, TypeInv, Types, manager
<1>4. \A c \in Cores : hpc'[c] = hpc[c]
  BY DEF Raise, handler
<1> QED
  BY <1>1, <1>2, <1>3, <1>4, TypeFrame DEF Raise, ioapic, manager, TypeInv, MapInv

LEMMA TypeEnter ==
    ASSUME TypeInv, NEW c \in Cores, NEW q \in Irqs, Enter(c, q)
    PROVE  /\ hpc' \in [Cores -> Points] /\ irq' \in [Cores -> Irqs] /\ line' \in [Irqs -> BOOLEAN]
           /\ hpc' = [hpc EXCEPT ![c] = "eoi"]
  BY DEF Enter, TypeInv, Types, HandlerTypes, DeviceTypes, Points

LEMMA TypeAcceptFromPIC == ASSUME TypeInv, NEW q \in Irqs, AcceptFromPIC(q) PROVE TypeInv'
<1>1. 0 \in Cores /\ Enter(0, q)
  BY CoresAre DEF AcceptFromPIC
<1>2. DeviceTypes'
  BY <1>1, TypeEnter DEF AcceptFromPIC, TypeInv, Types, DeviceTypes, start, apics, history
<1>3. RouteTypes'
  BY RouteFrame DEF AcceptFromPIC, TypeInv, Types, ioapic
<1>4. HandlerTypes'
  BY <1>1, TypeEnter DEF AcceptFromPIC, TypeInv, Types, HandlerTypes, manager, history
<1>5. bUseLoadBalancing = FALSE => \A c \in Cores : hpc'[c] \in {"none", "eoi", "count"}
  BY <1>1, TypeEnter DEF TypeInv, MapInv, Types, HandlerTypes
<1> QED
  BY <1>2, <1>3, <1>4, <1>5, TypeFrame DEF AcceptFromPIC, ioapic, manager

LEMMA TypeAcceptFromAPIC ==
    ASSUME TypeInv, NEW c \in Cores, NEW q \in Irqs, AcceptFromAPIC(c, q) PROVE TypeInv'
<1>1. Enter(c, q)
  BY DEF AcceptFromAPIC
<1>2. DeviceTypes'
  BY <1>1, TypeEnter DEF AcceptFromAPIC, TypeInv, Types, DeviceTypes, start, pic, history
<1>3. RouteTypes'
  BY RouteFrame DEF AcceptFromAPIC, TypeInv, Types, ioapic
<1>4. HandlerTypes'
  BY <1>1, TypeEnter DEF AcceptFromAPIC, TypeInv, Types, HandlerTypes, manager, history
<1>5. bUseLoadBalancing = FALSE => \A d \in Cores : hpc'[d] \in {"none", "eoi", "count"}
  BY <1>1, TypeEnter DEF TypeInv, MapInv, Types, HandlerTypes
<1> QED
  BY <1>2, <1>3, <1>4, <1>5, TypeFrame DEF AcceptFromAPIC, ioapic, manager

LEMMA TypeEOI == ASSUME TypeInv, NEW c \in Cores, EOI(c) PROVE TypeInv'
<1>1. DeviceTypes'
  <2>1. picIsr' \in SUBSET Irqs /\ isr' \in [Cores -> Irqs \cup {None}]
    BY DEF EOI, SendEOIToPIC, SendEOIToLocalAPIC, TypeInv, Types, DeviceTypes
  <2> QED
    BY <2>1 DEF EOI, TypeInv, Types, DeviceTypes, start, devices, history
<1>2. RouteTypes'
  BY RouteFrame DEF EOI, TypeInv, Types, ioapic
<1>3. HandlerTypes'
  BY DEF EOI, TypeInv, Types, HandlerTypes, Points, manager, history
<1>4. bUseLoadBalancing = FALSE => \A d \in Cores : hpc'[d] \in {"none", "eoi", "count"}
  BY DEF EOI, TypeInv, MapInv, Types, HandlerTypes
<1> QED
  BY <1>1, <1>2, <1>3, <1>4, TypeFrame DEF EOI, ioapic, manager

LEMMA FollowingIs ==
    /\ Following["selectHigh"] = "readHigh" /\ Following["readHigh"] = "selectLow"
    /\ Following["selectLow"] = "readLow" /\ Following["readLow"] = "reselectHigh"
    /\ Following["reselectHigh"] = "writeHigh" /\ Following["writeHigh"] = "reselectLow"
    /\ Following["reselectLow"] = "writeLow"
  BY DEF Following

LEMMA StepIs ==
    ASSUME HandlerTypes, NEW c \in Cores, hpc[c] \in (Selects \cup Windows) \ {"writeLow"}, Step(c)
    PROVE  /\ hpc' \in [Cores -> Points] /\ hpc' = [hpc EXCEPT ![c] = Following[hpc[c]]]
           /\ hpc'[c] = Following[hpc[c]] /\ \A d \in Cores \ {c} : hpc'[d] = hpc[d]
           /\ hpc[c] \in Selects => hpc'[c] \in Windows
           /\ hpc[c] \in Windows => hpc'[c] \in Selects
<1>1. /\ Following[hpc[c]] \in Points
      /\ hpc[c] \in Selects => Following[hpc[c]] \in Windows
      /\ hpc[c] \in Windows => Following[hpc[c]] \in Selects
  BY FollowingIs DEF Selects, Windows, Points
<1> QED
  BY <1>1 DEF Step, HandlerTypes

LEMMA ReturnIs ==
    ASSUME HandlerTypes, NEW c \in Cores, Return(c)
    PROVE  /\ hpc' \in [Cores -> Points] /\ irq' \in [Cores -> Irqs]
           /\ copy' \in [Cores -> [Halves -> Register]] /\ target' \in [Cores -> Cores]
           /\ hpc'[c] = "none" /\ \A d \in Cores \ {c} : hpc'[d] = hpc[d] /\ irq'[d] = irq[d]
           /\ \A d \in Cores \ {c} : copy'[d] = copy[d] /\ target'[d] = target[d]
<1>1. Timer \in Irqs /\ 0 \in Cores /\ [h \in Halves |-> DWord(0, None, FALSE)] \in [Halves -> Register]
  BY IrqsAre, CoresAre, NoCopy
<1>2. copy' \in [Cores -> [Halves -> Register]]
  BY <1>1 DEF Return, HandlerTypes
<1> QED
  BY <1>1, <1>2 DEF Return, HandlerTypes, Points

LEMMA TypeCount == ASSUME TypeInv, NEW c \in Cores, Count(c) PROVE TypeInv'
<1>1. DeviceTypes'
  BY DeviceFrame DEF Count, TypeInv, Types, history
<1>2. RouteTypes'
  BY RouteFrame DEF Count, TypeInv, Types, ioapic
<1>3. irq[c] \in Irqs /\ HandlerTypes
  BY DEF TypeInv, Types, HandlerTypes
<1>4. vvqwCoreInterruptCount' \in [Cores -> [Irqs -> Nat]]
  BY <1>3 DEF Count, IncreaseInterruptCount, HandlerTypes
<1>5. \/ /\ hpc' = [hpc EXCEPT ![c] = "choose"] /\ UNCHANGED <<irq, copy, target>>
         /\ bUseLoadBalancing = TRUE
      \/ Return(c)
  BY DEF Count, TypeInv, Types, ShellTypes
<1>6. HandlerTypes' /\ (bUseLoadBalancing = FALSE => \A d \in Cores : hpc'[d] \in {"none", "eoi", "count"})
  <2>1. CASE hpc' = [hpc EXCEPT ![c] = "choose"] /\ UNCHANGED <<irq, copy, target>>
             /\ bUseLoadBalancing = TRUE
    BY <1>3, <1>4, <2>1 DEF Count, HandlerTypes, Points, history
  <2>2. CASE Return(c)
    <3>1. HandlerTypes'
      BY <1>3, <1>4, <2>2, ReturnIs DEF Count, HandlerTypes, history
    <3>2. \A d \in Cores : hpc'[d] = hpc[d] \/ hpc'[d] = "none"
      BY <1>3, <2>2, ReturnIs
    <3> QED
      BY <3>1, <3>2 DEF TypeInv, MapInv
  <2> QED
    BY <1>5, <2>1, <2>2
<1> QED
  BY <1>1, <1>2, <1>6, TypeFrame DEF Count, ioapic

\* Only balancing goes on after the count.
LEMMA Balancing ==
    ASSUME TypeInv, NEW c \in Cores, hpc[c] \notin {"none", "eoi", "count"}
    PROVE  /\ bUseLoadBalancing = TRUE /\ bSymmetricIOMode = TRUE /\ pc # "assign"
           /\ base = Apic /\ select[1] \in Intins /\ \A q \in Irqs : map[q] = Pin(q)
  BY DEF TypeInv, Types, ShellTypes, MapInv, PlanInv

LEMMA TypeChoose == ASSUME TypeInv, NEW c \in Cores, Choose(c) PROVE TypeInv'
<1>1. DeviceTypes' /\ RouteTypes'
  BY DeviceFrame, RouteFrame DEF Choose, TypeInv, Types, history, ioapic
<1>2. HandlerTypes
  BY DEF TypeInv, Types
<1>3. irq[c] \in Irqs /\ LeastCore(irq[c]) \in Cores
  BY LeastCoreIs DEF TypeInv, Types, HandlerTypes, ShellTypes
<1>4. HandlerTypes'
  BY <1>2, <1>3 DEF Choose, HandlerTypes, Points, Selects, manager, history
<1>5. bUseLoadBalancing = TRUE
  BY Balancing DEF Choose
<1> QED
  BY <1>1, <1>4, <1>5, TypeFrame DEF Choose, ioapic, manager

LEMMA TypeSelect == ASSUME TypeInv, NEW c \in Cores, Select(c) PROVE TypeInv'
<1>1. DeviceTypes'
  BY DeviceFrame DEF Select, TypeInv, Types
<1>2. HandlerTypes /\ hpc[c] \in Selects /\ irq[c] \in Irqs /\ RouteTypes
  BY DEF TypeInv, Types, HandlerTypes, Select
<1>3. bUseLoadBalancing = TRUE /\ map[irq[c]] = Pin(irq[c])
  BY <1>2, Balancing DEF Selects
<1>4. select' = <<Pin(irq[c]), HalfOf(hpc[c])>> /\ HalfOf(hpc[c]) \in Halves
  BY <1>3 DEF Select, HalfOf, Halves
<1>5. RouteTypes'
  BY <1>2, <1>4, WireIs DEF RouteTypes, Select
<1>6. hpc' \in [Cores -> Points]
  BY <1>2, StepIs DEF Select, Selects
<1>7. HandlerTypes'
  BY <1>2, <1>6 DEF Select, HandlerTypes, manager
<1> QED
  BY <1>1, <1>2, <1>3, <1>4, <1>5, <1>7, TypeFrame DEF Select, manager

\* The register behind the window
LEMMA SelectedIs ==
    ASSUME TypeInv, NEW c \in Cores, hpc[c] \in Selects \cup Windows
    PROVE  Selected \in Registers /\ Selected = <<Apic, select[1], select[2]>>
<1>1. base = Apic /\ select[1] \in Intins
  BY Balancing DEF Selects, Windows
<1>2. select[2] \in Halves
  BY DEF TypeInv, Types, RouteTypes
<1>3. Apic \in IOAPICs
  BY WireIs, IrqsAre
<1> QED
  BY <1>1, <1>2, <1>3 DEF Selected, Registers

LEMMA TypeRead == ASSUME TypeInv, NEW c \in Cores, Read(c) PROVE TypeInv'
<1>1. DeviceTypes' /\ RouteTypes'
  BY DeviceFrame, RouteFrame DEF Read, TypeInv, Types, history, ioapic
<1>2. HandlerTypes /\ hpc[c] \in {"readHigh", "readLow"} /\ RouteTypes
  BY DEF TypeInv, Types, Read
<1>3. regs[Selected] \in Register
  BY <1>2, SelectedIs DEF Windows, RouteTypes
<1>4. copy' \in [Cores -> [Halves -> Register]]
  BY <1>2, <1>3 DEF Read, HandlerTypes
<1>5. hpc' \in [Cores -> Points]
  BY <1>2, StepIs DEF Read, Windows
<1>6. HandlerTypes'
  BY <1>2, <1>4, <1>5 DEF Read, HandlerTypes, manager, history
<1>7. bUseLoadBalancing = TRUE
  BY <1>2, Balancing
<1> QED
  BY <1>1, <1>6, <1>7, TypeFrame DEF Read, ioapic, manager

LEMMA TypeWriteHigh == ASSUME TypeInv, NEW c \in Cores, WriteHigh(c) PROVE TypeInv'
<1>1. DeviceTypes'
  BY DeviceFrame DEF WriteHigh, TypeInv, Types, history
<1>2. HandlerTypes /\ hpc[c] = "writeHigh" /\ RouteTypes
  BY DEF TypeInv, Types, WriteHigh
<1>3. [copy[c]["high"] EXCEPT !.top = target[c]] \in Register
  <2>1. copy[c]["high"] \in Register /\ target[c] \in Cores
    BY <1>2, HalvesAre DEF HandlerTypes
  <2> QED
    BY <2>1 DEF Register
<1>4. regs' \in [Registers -> Register]
  BY <1>2, <1>3 DEF WriteHigh, RouteTypes
<1>5. RouteTypes'
  BY <1>2, <1>4 DEF WriteHigh, RouteTypes
<1>6. hpc' \in [Cores -> Points]
  BY <1>2, StepIs DEF WriteHigh, Windows
<1>7. HandlerTypes'
  BY <1>2, <1>6 DEF WriteHigh, HandlerTypes, manager, history
<1>8. bUseLoadBalancing = TRUE
  BY <1>2, Balancing
<1> QED
  BY <1>1, <1>5, <1>7, <1>8, TypeFrame DEF WriteHigh, manager

LEMMA TypeWriteLow == ASSUME TypeInv, NEW c \in Cores, WriteLow(c) PROVE TypeInv'
<1>1. DeviceTypes'
  BY DeviceFrame DEF WriteLow, TypeInv, Types, history
<1>2. HandlerTypes /\ hpc[c] = "writeLow" /\ RouteTypes
  BY DEF TypeInv, Types, WriteLow
<1>3. copy[c]["low"] \in Register
  BY <1>2, HalvesAre DEF HandlerTypes
<1>4. regs' \in [Registers -> Register]
  BY <1>2, <1>3 DEF WriteLow, RouteTypes
<1>5. RouteTypes'
  BY <1>2, <1>4 DEF WriteLow, RouteTypes
<1>6. HandlerTypes'
  BY <1>2, ReturnIs DEF WriteLow, HandlerTypes, manager, history
<1>7. bUseLoadBalancing = TRUE
  BY <1>2, Balancing
<1> QED
  BY <1>1, <1>5, <1>6, <1>7, TypeFrame DEF WriteLow, manager

LEMMA TypeCore == ASSUME TypeInv, NEW c \in Cores, CountMyself(c) \/ SetUp(c) PROVE TypeInv'
<1>1. RouteTypes' /\ HandlerTypes'
  BY RouteFrame, HandlerFrame DEF CountMyself, SetUp, TypeInv, Types, history, ioapic, manager
<1>2. DeviceTypes'
  <2>1. CASE CountMyself(c)
    BY <2>1 DEF CountMyself, TypeInv, Types, DeviceTypes, devices, pic, apics, history
  <2>2. CASE SetUp(c)
    <3>1. LocalAPICFound \in BOOLEAN
      BY DEF TypeInv, Types, ShellTypes, LocalAPICFound
    <3> QED
      BY <2>2, <3>1 DEF SetUp, TypeInv, Types, DeviceTypes, devices, pic, history
  <2> QED
    BY <2>1, <2>2
<1>3. \A d \in Cores : hpc'[d] = hpc[d]
  BY DEF CountMyself, SetUp, handler
<1> QED
  BY <1>1, <1>2, <1>3, TypeFrame DEF CountMyself, SetUp, ioapic, manager, TypeInv, MapInv

LEMMA TodoIs ==
    ASSUME todo \in Seq(Commands)
    PROVE  /\ Len(todo) \in Nat /\ DOMAIN todo = 1 .. Len(todo)
           /\ \A n \in DOMAIN todo : n \in Nat /\ n >= 1 /\ todo[n] \in Commands
           /\ todo # <<>> => /\ 1 \in DOMAIN todo /\ Command = todo[1] /\ Command \in Commands
                             /\ Tail(todo) \in Seq(Commands)
                             /\ \A n \in DOMAIN Tail(todo) : /\ n \in Nat /\ n >= 1
                                                             /\ n + 1 \in DOMAIN todo
                                                             /\ Tail(todo)[n] = todo[n + 1]
                             /\ DOMAIN Tail(todo) = 1 .. Len(todo) - 1
  BY DEF Command

\* A command is done.
LEMMA PlanDone ==
    ASSUME PlanInv, todo \in Seq(Commands), todo # <<>>, todo' = Tail(todo), pc' = "prompt",
           bSymmetricIOMode' = bSymmetricIOMode,
           Command = "startsymmetricio" => bSymmetricIOMode = TRUE,
           bUseLoadBalancing' = TRUE => bSymmetricIOMode = TRUE
    PROVE  PlanInv'
<1>1. ASSUME NEW n \in DOMAIN Tail(todo)
      PROVE  /\ Tail(todo)[n] = "startsymmetricio" =>
                    /\ \A m \in 1 .. n - 1 : Tail(todo)[m] # "startsymmetricio"
                    /\ bSymmetricIOMode # TRUE
             /\ Tail(todo)[n] = "startintloadbal" =>
                    \/ bSymmetricIOMode = TRUE
                    \/ \E m \in 1 .. n - 1 : Tail(todo)[m] = "startsymmetricio"
  <2>1. n \in Nat /\ n >= 1 /\ n + 1 \in DOMAIN todo /\ Tail(todo)[n] = todo[n + 1] /\ n + 1 # 1
    BY TodoIs
  <2>2. \A m \in 1 .. n - 1 : /\ m \in DOMAIN Tail(todo) /\ m + 1 \in 1 .. (n + 1) - 1
                              /\ Tail(todo)[m] = todo[m + 1]
    BY <2>1, TodoIs
  <2>3. CASE todo[n + 1] = "startsymmetricio"
    <3>1. /\ \A m \in 1 .. (n + 1) - 1 : todo[m] # "startsymmetricio"
          /\ bSymmetricIOMode # TRUE
      BY <2>1, <2>3 DEF PlanInv
    <3> QED
      BY <2>1, <2>2, <2>3, <3>1
  <2>4. CASE todo[n + 1] = "startintloadbal"
    <3>1. bSymmetricIOMode = TRUE \/ \E m \in 1 .. (n + 1) - 1 : todo[m] = "startsymmetricio"
      BY <2>1, <2>4 DEF PlanInv
    <3>2. ASSUME NEW m \in 1 .. (n + 1) - 1, todo[m] = "startsymmetricio", bSymmetricIOMode # TRUE
          PROVE  m - 1 \in 1 .. n - 1 /\ Tail(todo)[m - 1] = "startsymmetricio"
      <4>1. m # 1
        BY <3>2, TodoIs
      <4>2. m - 1 \in 1 .. n - 1 /\ (m - 1) + 1 = m
        BY <2>1, <3>2, <4>1
      <4> QED
        BY <2>2, <3>2, <4>2
    <3> QED
      BY <2>1, <2>4, <3>1, <3>2
  <2>5. CASE todo[n + 1] = "startap"
    BY <2>1, <2>5
  <2> QED
    BY <2>1, <2>3, <2>4, <2>5, TodoIs DEF Commands
<1>2. pc' = "prompt" /\ todo' = Tail(todo) /\ bSymmetricIOMode' = bSymmetricIOMode
      /\ (bUseLoadBalancing' = TRUE => bSymmetricIOMode = TRUE)
  OBVIOUS
<1> QED
  BY <1>1, <1>2 DEF PlanInv

\* A command goes on.
LEMMA PlanGoes ==
    ASSUME PlanInv, UNCHANGED <<todo, bSymmetricIOMode, bUseLoadBalancing>>, todo # <<>>,
           pc # "assign", pc' \notin {"assign", "prompt"},
           pc' = "balance" => Command = "startintloadbal",
           pc' \in {"mask", "symmetric"} => Command = "startsymmetricio",
           pc' \in {"init", "startup", "wait"} => Command = "startap",
           pc' \in {"clear", "find", "scan", "enable"} => Command \in {"startap", "startsymmetricio"}
    PROVE  PlanInv'
  BY DEF PlanInv, Command

LEMMA MapGoes ==
    ASSUME MapInv, UNCHANGED <<base, map, select, bSymmetricIOMode>>,
           bUseLoadBalancing' = FALSE => bUseLoadBalancing = FALSE,
           \A c \in Cores : hpc'[c] = hpc[c] \/ hpc'[c] = "none",
           pc # "assign", pc' # "assign"
    PROVE  MapInv'
  BY DEF MapInv

LEMMA TypeType == ASSUME TypeInv, Type PROVE TypeInv'
<1>1. ShellTypes /\ pc = "prompt" /\ todo # <<>>
  BY DEF TypeInv, Types, Type
<1>2. Command \in Commands
  BY <1>1, TodoIs DEF ShellTypes
<1>3. pc' = (IF Command = "startintloadbal" THEN "balance" ELSE "clear") /\ i' = 1
  BY DEF Type, Goto
<1>4. DeviceTypes' /\ RouteTypes' /\ HandlerTypes'
  BY DeviceFrame, RouteFrame, HandlerFrame DEF Type, TypeInv, Types, history, ioapic, manager
<1>5. ShellTypes'
  BY <1>1, <1>3 DEF Type, ShellTypes, Places, table, manager
<1>6. ScanInv'
  BY <1>3 DEF ScanInv, Analysed
<1>7. PlanInv'
  BY <1>1, <1>2, <1>3, PlanGoes DEF Type, TypeInv, manager, Commands
<1>8. MapInv'
  BY <1>1, <1>3, MapGoes DEF Type, TypeInv, manager, ioapic, handler
<1> QED
  BY <1>4, <1>5, <1>6, <1>7, <1>8 DEF TypeInv, Types

LEMMA TypeClear == ASSUME TypeInv, Clear PROVE TypeInv'
<1>1. ShellTypes /\ pc = "clear" /\ pc' = "find" /\ i' = 1
  BY DEF TypeInv, Types, Clear, Goto
<1>2. DeviceTypes' /\ RouteTypes' /\ HandlerTypes'
  BY DeviceFrame, RouteFrame, HandlerFrame DEF Clear, TypeInv, Types, history, ioapic, manager
<1>3. ShellTypes'
  <2>1. iProcessorCount' = 0 /\ 0 \in 0 .. Cardinality(Enabled)
    BY CoresAre DEF Clear
  <2>2. header' = FALSE /\ pc' \in Places /\ i' \in Nat \ {0}
    BY <1>1 DEF Clear, Places
  <2> QED
    BY <1>1, <2>1, <2>2 DEF Clear, ShellTypes, manager
<1>4. ScanInv'
  BY <1>1 DEF Clear, ScanInv, Analysed
<1>5. PlanInv'
  BY <1>1, PlanGoes DEF Clear, TypeInv, manager, PlanInv
<1>6. MapInv'
  BY <1>1, MapGoes DEF Clear, TypeInv, manager, ioapic, handler
<1> QED
  BY <1>2, <1>3, <1>4, <1>5, <1>6 DEF TypeInv, Types

LEMMA TypeFind == ASSUME TypeInv, Find PROVE TypeInv'
<1>1. ShellTypes /\ pc = "find" /\ pc' = "scan" /\ i' = 1
  BY DEF TypeInv, Types, Find, Goto
<1>2. DeviceTypes' /\ RouteTypes' /\ HandlerTypes'
  BY DeviceFrame, RouteFrame, HandlerFrame DEF Find, TypeInv, Types, history, ioapic, manager
<1>3. ShellTypes'
  BY <1>1 DEF Find, ShellTypes, Places, manager
<1>4. ScanInv'
  <2>1. {n \in Enabled : n < 1} = {} /\ ~\E n \in Kind("bus") : n < 1
    <3>1. \A n \in 1 .. Len(Entries) : ~(n < 1)
      BY TableFinite
    <3>2. Enabled \subseteq 1 .. Len(Entries) /\ Kind("bus") \subseteq 1 .. Len(Entries)
      BY TableFinite DEF Kind
    <3> QED
      BY <3>1, <3>2, Zenon
  <2>2. Cardinality({n \in Enabled : n < 1}) = 0
    BY <2>1, FS_EmptySet
  <2>3. iProcessorCount' = 0
    BY <1>1 DEF Find, TypeInv, ScanInv
  <2> QED
    BY <1>1, <2>1, <2>2, <2>3, TableFinite DEF ScanInv, Analysed
<1>5. PlanInv'
  BY <1>1, PlanGoes DEF Find, TypeInv, manager, PlanInv
<1>6. MapInv'
  BY <1>1, MapGoes DEF Find, TypeInv, manager, ioapic, handler
<1> QED
  BY <1>2, <1>3, <1>4, <1>5, <1>6 DEF TypeInv, Types

\* One entry more is counted.
LEMMA CountOne ==
    ASSUME NEW n \in Nat
    PROVE  /\ Cardinality({m \in Enabled : m < n}) \in 0 .. Cardinality(Enabled)
           /\ Cardinality({m \in Enabled : m < n + 1}) =
                Cardinality({m \in Enabled : m < n}) + IF n \in Enabled THEN 1 ELSE 0
           /\ Cardinality({m \in Enabled : m < n + 1}) \in 0 .. Cardinality(Enabled)
<1>1. ASSUME NEW S, S \subseteq Enabled
      PROVE  IsFiniteSet(S) /\ Cardinality(S) \in 0 .. Cardinality(Enabled)
  <2>1. IsFiniteSet(S) /\ Cardinality(S) <= Cardinality(Enabled)
    BY <1>1, TableFinite, FS_Subset
  <2>2. Cardinality(S) \in Nat
    BY <2>1, FS_CardinalityType
  <2> QED
    BY <2>1, <2>2, CoresAre
<1>2. PICK S, T : S = {m \in Enabled : m < n} /\ T = {m \in Enabled : m < n + 1}
  OBVIOUS
<1>3. S \subseteq Enabled /\ T \subseteq Enabled /\ n \notin S
  BY <1>2
<1>4. T = IF n \in Enabled THEN S \cup {n} ELSE S
  <2>1. \A m \in Enabled : m < n + 1 <=> m < n \/ m = n
    <3>1. \A m \in 1 .. Len(Entries) : m < n + 1 <=> m < n \/ m = n
      BY TableFinite
    <3> QED
      BY <3>1, TableFinite, Zenon
  <2>2. CASE n \in Enabled
    <3>1. \A m : m \in T <=> m \in S \cup {n}
      BY <1>2, <2>1, <2>2
    <3> QED
      BY <2>2, <3>1
  <2>3. CASE n \notin Enabled
    <3>1. \A m : m \in T <=> m \in S
      BY <1>2, <2>1, <2>3
    <3> QED
      BY <2>3, <3>1
  <2> QED
    BY <2>2, <2>3
<1>5. Cardinality(S) \in 0 .. Cardinality(Enabled) /\ Cardinality(T) \in 0 .. Cardinality(Enabled)
      /\ IsFiniteSet(S)
  BY <1>1, <1>3
<1>6. Cardinality(S \cup {n}) = Cardinality(S) + 1
  BY <1>3, <1>5, FS_AddElement
<1>7. Cardinality(T) = Cardinality(S) + IF n \in Enabled THEN 1 ELSE 0
  <2>1. Cardinality(S) \in Nat
    BY <1>5, <1>3, FS_CardinalityType
  <2> QED
    BY <1>4, <1>6, <2>1
<1> QED
  BY <1>2, <1>5, <1>7

LEMMA TypeScan == ASSUME TypeInv, Scan PROVE TypeInv'
<1>1. ShellTypes /\ ScanInv /\ PlanInv /\ MapInv /\ pc = "scan" /\ todo # <<>>
  BY DEF TypeInv, Types, Scan, PlanInv
<1>2. DeviceTypes' /\ RouteTypes' /\ HandlerTypes'
  BY DeviceFrame, RouteFrame, HandlerFrame DEF Scan, TypeInv, Types, history, ioapic, manager
<1>3. i \in Nat /\ i <= Len(Entries) + 1 /\ iProcessorCount = Cardinality({n \in Enabled : n < i})
      /\ Len(Entries) \in Nat
  BY <1>1, TableFinite DEF ScanInv, ShellTypes
<1>4. CASE i > Len(Entries)
  <2>1. pc' = (IF Command = "startap" THEN "enable" ELSE "mask")
        /\ i' = 1 /\ UNCHANGED <<iProcessorCount, bISABusID>>
    BY <1>4 DEF Scan, Goto
  <2>2. iProcessorCount = Cardinality(Enabled)
    <3>1. {n \in Enabled : n < i} = Enabled
      <4>1. \A n \in 1 .. Len(Entries) : n < i
        BY <1>3, <1>4
      <4> QED
        BY <4>1, TableFinite, Zenon
    <3> QED
      BY <1>3, <3>1
  <2>3. bISABusID = Bus
    <3>1. Bus \in ISABuses
      BY BusIs
    <3>2. PICK n \in Kind("bus") : Entries[n].isa
      BY <3>1 DEF ISABuses
    <3>3. n < i
      BY <1>3, <1>4, TableFinite DEF Kind
    <3> QED
      BY <1>1, <3>2, <3>3 DEF ScanInv
  <2>4. ScanInv'
    BY <2>1, <2>2, <2>3 DEF ScanInv
  <2>5. PlanInv'
    BY <1>1, <2>1, PlanGoes DEF Scan, PlanInv, manager
  <2>6. MapInv'
    BY <1>1, <2>1, MapGoes DEF Scan, manager, ioapic, handler
  <2>7. ShellTypes'
    BY <1>1, <2>1 DEF Scan, ShellTypes, Places, Analysed, manager
  <2> QED
    BY <1>2, <2>4, <2>5, <2>6, <2>7 DEF TypeInv, Types
<1>5. CASE ~(i > Len(Entries))
  <2>1. /\ i' = i + 1 /\ pc' = pc
        /\ iProcessorCount' = iProcessorCount + IF i \in Enabled THEN 1 ELSE 0
        /\ bISABusID' = IF i \in Kind("bus") /\ Entries[i].isa THEN Entries[i].id
                        ELSE bISABusID
    BY <1>5 DEF Scan
  <2>2. /\ iProcessorCount' = Cardinality({n \in Enabled : n < i + 1})
        /\ iProcessorCount' \in 0 .. Cardinality(Enabled)
    BY <1>3, <2>1, CountOne
  <2>3. (\E n \in Kind("bus") : Entries[n].isa /\ n < i + 1) => bISABusID' = Bus
    <3>1. CASE i \in Kind("bus") /\ Entries[i].isa
      <4>1. Entries[i].id \in ISABuses
        BY <3>1 DEF ISABuses
      <4> QED
        BY <2>1, <3>1, <4>1, BusIs
    <3>2. CASE ~(i \in Kind("bus") /\ Entries[i].isa)
      <4>1. ASSUME NEW n \in Kind("bus"), Entries[n].isa, n < i + 1 PROVE n < i
        <5>1. n \in Nat /\ n # i
          BY <3>2, <4>1, TableFinite DEF Kind
        <5> QED
          BY <1>3, <4>1, <5>1
      <4> QED
        BY <1>1, <2>1, <3>2, <4>1 DEF ScanInv
    <3> QED
      BY <3>1, <3>2
  <2>4. ScanInv'
    BY <1>1, <1>3, <1>5, <2>1, <2>2, <2>3 DEF ScanInv, Analysed
  <2>5. PlanInv'
    BY <1>1, <2>1, PlanFrame DEF Scan, manager
  <2>6. MapInv'
    BY <1>1, <2>1, MapGoes DEF Scan, manager, ioapic, handler
  <2>7. ShellTypes'
    BY <1>1, <2>1, <2>2 DEF Scan, ShellTypes, Places, Analysed, manager
  <2> QED
    BY <1>2, <2>4, <2>5, <2>6, <2>7 DEF TypeInv, Types
<1> QED
  BY <1>4, <1>5

LEMMA TypeMaskPIC == ASSUME TypeInv, MaskPIC PROVE TypeInv'
<1>1. ShellTypes /\ PlanInv /\ pc = "mask" /\ pc' = "enable" /\ i' = 1
  BY DEF TypeInv, Types, MaskPIC, Goto
<1>2. RouteTypes' /\ HandlerTypes'
  BY RouteFrame, HandlerFrame DEF MaskPIC, TypeInv, Types, ioapic, manager
<1>3. DeviceTypes'
  BY DEF MaskPIC, TypeInv, Types, DeviceTypes, devices, apics, start
<1>4. ShellTypes'
  BY <1>1 DEF MaskPIC, ShellTypes, Places, Analysed, table, manager
<1>5. ScanInv'
  BY <1>1 DEF MaskPIC, TypeInv, ScanInv, Analysed, table
<1>6. PlanInv'
  BY <1>1, PlanGoes DEF MaskPIC, manager, PlanInv
<1>7. MapInv'
  BY <1>1, MapGoes DEF MaskPIC, TypeInv, manager, ioapic, handler
<1> QED
  BY <1>2, <1>3, <1>4, <1>5, <1>6, <1>7 DEF TypeInv, Types

LEMMA TypeEnable == ASSUME TypeInv, Enable PROVE TypeInv'
<1>1. ShellTypes /\ PlanInv /\ pc = "enable" /\ i' = 1
      /\ pc' = (IF Command = "startap" THEN "init" ELSE "symmetric")
  BY DEF TypeInv, Types, Enable, Goto
<1>2. RouteTypes' /\ HandlerTypes'
  BY RouteFrame, HandlerFrame DEF Enable, TypeInv, Types, ioapic, manager, history
<1>3. DeviceTypes'
  <2>1. lapic' \in [Cores -> BOOLEAN]
    BY CoresAre DEF Enable, TypeInv, Types, DeviceTypes
  <2> QED
    BY <2>1 DEF Enable, TypeInv, Types, DeviceTypes, devices, pic, start, history
<1>4. ShellTypes'
  <2>1. pc' \in Places
    BY <1>1 DEF Places, Analysed
  <2>2. RFLAGS_IF' = FALSE /\ UNCHANGED <<header, iProcessorCount, bSymmetricIOMode, bUseLoadBalancing, todo>>
    BY DEF Enable, table, manager
  <2>3. ShellTypes /\ i' = 1
    BY <1>1
  <2>4. header' \in BOOLEAN /\ iProcessorCount' \in 0 .. Cardinality(Enabled) /\ todo' \in Seq(Commands)
    BY <2>2, <2>3 DEF ShellTypes
  <2>5. bSymmetricIOMode' \in BOOLEAN /\ bUseLoadBalancing' \in BOOLEAN /\ RFLAGS_IF' \in BOOLEAN
    BY <2>2, <2>3 DEF ShellTypes
  <2>6. i' \in Nat \ {0}
    BY <2>3
  <2> QED
    BY <2>1, <2>4, <2>5, <2>6 DEF ShellTypes
<1>5. ScanInv'
  BY <1>1 DEF Enable, TypeInv, ScanInv, Analysed, table
<1>6. PlanInv'
  BY <1>1, PlanGoes DEF Enable, manager, PlanInv
<1>7. MapInv'
  BY <1>1, MapGoes DEF Enable, TypeInv, manager, ioapic, handler
<1> QED
  BY <1>2, <1>3, <1>4, <1>5, <1>6, <1>7 DEF TypeInv, Types

LEMMA TypeInit_IPI == ASSUME TypeInv, Init_IPI PROVE TypeInv'
<1>1. ShellTypes /\ PlanInv /\ pc = "init" /\ pc' = "startup" /\ i' = 1
  BY DEF TypeInv, Types, Init_IPI, Goto
<1>2. RouteTypes'
  BY RouteFrame DEF Init_IPI, TypeInv, Types, ioapic
<1>3. DeviceTypes'
  <2>1. stage' \in [Cores -> {"off", "reset", "starting", "counted", "on"}]
        /\ lapic' \in [Cores -> BOOLEAN]
    BY DEF Init_IPI, TypeInv, Types, DeviceTypes
  <2>2. irr' \in [Cores -> SUBSET Irqs] /\ isr' \in [Cores -> Irqs \cup {None}]
    BY DEF Init_IPI, TypeInv, Types, DeviceTypes
  <2> QED
    BY <2>1, <2>2 DEF Init_IPI, TypeInv, Types, DeviceTypes, devices, pic, history
<1>4. \A c \in Cores : hpc'[c] = hpc[c] \/ hpc'[c] = "none"
  BY DEF Init_IPI
<1>5. HandlerTypes'
  <2>1. hpc' \in [Cores -> Points] /\ irq' \in [Cores -> Irqs] /\ target' \in [Cores -> Cores]
    BY IrqsAre, CoresAre DEF Init_IPI, TypeInv, Types, HandlerTypes, Points
  <2>2. copy' \in [Cores -> [Halves -> Register]]
    BY NoCopy DEF Init_IPI, TypeInv, Types, HandlerTypes
  <2> QED
    BY <2>1, <2>2 DEF Init_IPI, TypeInv, Types, HandlerTypes, manager, history
<1>6. ShellTypes'
  BY <1>1 DEF Init_IPI, ShellTypes, Places, Analysed, table, manager
<1>7. ScanInv'
  BY <1>1 DEF Init_IPI, TypeInv, ScanInv, Analysed, table
<1>8. PlanInv'
  BY <1>1, PlanGoes DEF Init_IPI, manager, PlanInv
<1>9. MapInv'
  BY <1>1, <1>4, MapGoes DEF Init_IPI, TypeInv, manager, ioapic
<1> QED
  BY <1>2, <1>3, <1>5, <1>6, <1>7, <1>8, <1>9 DEF TypeInv, Types

LEMMA TypeStartUp_IPI == ASSUME TypeInv, StartUp_IPI PROVE TypeInv'
<1>1. ShellTypes /\ PlanInv /\ pc = "startup" /\ pc' = "wait" /\ i' = 1
  BY DEF TypeInv, Types, StartUp_IPI, Goto
<1>2. RouteTypes' /\ HandlerTypes'
  BY RouteFrame, HandlerFrame DEF StartUp_IPI, TypeInv, Types, ioapic, manager, history
<1>3. DeviceTypes'
  BY DEF StartUp_IPI, TypeInv, Types, DeviceTypes, devices, pic, apics, history
<1>4. ShellTypes'
  BY <1>1 DEF StartUp_IPI, ShellTypes, Places, Analysed, table, manager
<1>5. ScanInv'
  BY <1>1 DEF StartUp_IPI, TypeInv, ScanInv, Analysed, table
<1>6. PlanInv'
  BY <1>1, PlanGoes DEF StartUp_IPI, manager, PlanInv
<1>7. MapInv'
  BY <1>1, MapGoes DEF StartUp_IPI, TypeInv, manager, ioapic, handler
<1> QED
  BY <1>2, <1>3, <1>4, <1>5, <1>6, <1>7 DEF TypeInv, Types

LEMMA TypeNotDelivered == ASSUME TypeInv, NotDelivered PROVE TypeInv'
<1>1. /\ ShellTypes /\ PlanInv /\ pc \in {"init", "startup"} /\ pc' = "prompt" /\ i' = 1
      /\ todo' = <<>> /\ todo' \in Seq(Commands)
  BY DEF TypeInv, Types, NotDelivered, Goto
<1>2. RouteTypes' /\ HandlerTypes' /\ DeviceTypes'
  BY RouteFrame, HandlerFrame, DeviceFrame DEF NotDelivered, TypeInv, Types, ioapic, manager, history
<1>3. ShellTypes'
  BY <1>1 DEF NotDelivered, ShellTypes, Places, table, manager
<1>4. ScanInv'
  BY <1>1 DEF ScanInv, Analysed
<1>5. PlanInv'
  BY <1>1 DEF NotDelivered, manager, PlanInv
<1>6. MapInv'
  BY <1>1, MapGoes DEF NotDelivered, TypeInv, manager, ioapic, handler
<1> QED
  BY <1>2, <1>3, <1>4, <1>5, <1>6 DEF TypeInv, Types

\* A command that changes nothing more is done.
LEMMA TypeWaitForAll == ASSUME TypeInv, WaitForAll PROVE TypeInv'
<1>1. ShellTypes /\ PlanInv /\ pc = "wait" /\ pc' = "prompt" /\ i' = 1 /\ todo' = Tail(todo)
  BY DEF TypeInv, Types, WaitForAll, Finish, Goto
<1>2. todo # <<>> /\ Command = "startap" /\ (bUseLoadBalancing = TRUE => bSymmetricIOMode = TRUE)
  BY <1>1 DEF PlanInv
<1>3. RouteTypes' /\ HandlerTypes' /\ DeviceTypes'
  BY RouteFrame, HandlerFrame, DeviceFrame DEF WaitForAll, TypeInv, Types, ioapic, manager, history
<1>4. ShellTypes'
  BY <1>1, <1>2, TodoIs DEF WaitForAll, ShellTypes, Places, table, manager
<1>5. ScanInv'
  BY <1>1 DEF ScanInv, Analysed
<1>6. PlanInv'
  BY <1>1, <1>2, PlanDone DEF WaitForAll, manager, ShellTypes
<1>7. MapInv'
  BY <1>1, MapGoes DEF WaitForAll, TypeInv, manager, ioapic, handler
<1> QED
  BY <1>3, <1>4, <1>5, <1>6, <1>7 DEF TypeInv, Types

LEMMA TypeSymmetric == ASSUME TypeInv, Symmetric PROVE TypeInv'
<1>1. ShellTypes /\ PlanInv /\ pc = "symmetric" /\ pc' = "assign" /\ i' = 1 /\ RouteTypes /\ MapInv
  BY DEF TypeInv, Types, Symmetric, Goto
<1>2. iProcessorCount = Cardinality(Enabled) /\ bISABusID = Bus
  BY <1>1 DEF TypeInv, ScanInv, Analysed
<1>3. base' = Apic /\ Apic \in IOAPICs
  BY <1>2, IOAPICIs, WireIs, IrqsAre DEF Symmetric, GetIOAPICBaseAddressOfISA
<1>4. DeviceTypes' /\ HandlerTypes'
  BY DeviceFrame, HandlerFrame DEF Symmetric, TypeInv, Types, history
<1>5. regs' \in [Registers -> Register]
  <2>1. regs' = [r \in Registers |-> IF r[1] = base' /\ r[3] = "low"
                                     THEN [regs[r] EXCEPT !.mask = TRUE] ELSE regs[r]]
    BY <1>1 DEF Symmetric, MaskAllInterruptInIOAPIC, RouteTypes
  <2>2. ASSUME NEW r \in Registers
        PROVE  regs[r] \in Register /\ [regs[r] EXCEPT !.mask = TRUE] \in Register
    <3>1. regs[r] \in Register
      BY <1>1 DEF RouteTypes
    <3> QED
      BY <3>1 DEF Register
  <2> QED
    BY <2>1, <2>2
<1>6. RouteTypes'
  BY <1>1, <1>3, <1>5 DEF Symmetric, RouteTypes
<1>7. ShellTypes'
  BY <1>1 DEF Symmetric, ShellTypes, Places, Analysed, table
<1>8. ScanInv'
  BY <1>1, <1>2 DEF Symmetric, ScanInv, table
<1>9. PlanInv'
  <2>1. todo # <<>> /\ Command = "startsymmetricio" /\ 1 \in DOMAIN todo /\ todo[1] = "startsymmetricio"
    BY <1>1, TodoIs DEF PlanInv, ShellTypes
  <2>2. ASSUME NEW n \in DOMAIN todo, todo[n] = "startsymmetricio" PROVE n = 1
    BY <1>1, <2>1, <2>2, TodoIs DEF PlanInv, ShellTypes
  <2> QED
    BY <1>1, <2>1, <2>2 DEF Symmetric, PlanInv, Command
<1>10. MapInv'
  <2>1. \A q \in Irqs : ~(Wire[q] < 1)
    BY WireIs
  <2>2. bUseLoadBalancing' = bUseLoadBalancing /\ \A c \in Cores : hpc'[c] = hpc[c]
    BY DEF Symmetric, handler
  <2> QED
    BY <1>1, <1>3, <2>1, <2>2 DEF MapInv
<1> QED
  BY <1>4, <1>6, <1>7, <1>8, <1>9, <1>10 DEF TypeInv, Types

\* What an entry of a line does
LEMMA AssignIs ==
    ASSUME TypeInv, Assign
    PROVE  /\ i \in Nat /\ i' = i + 1 /\ pc = "assign" /\ pc' = "assign" /\ base = Apic
           /\ bISABusID = Bus
           /\ \/ \E q \in Irqs :
                    /\ i = Wire[q] /\ Pin(q) \in Intins
                    /\ regs' = [regs EXCEPT
                         ![<<Apic, Pin(q), "high">>] = DWord(IF q = Timer THEN All ELSE 0, None, FALSE),
                         ![<<Apic, Pin(q), "low">>] = DWord(0, q, FALSE)]
                    /\ select' = <<Pin(q), "low">> /\ map' = [map EXCEPT ![q] = Pin(q)]
              \/ (\A q \in Irqs : i # Wire[q]) /\ UNCHANGED <<regs, select, map>>
<1>1. i \in Nat /\ i' = i + 1 /\ pc = "assign" /\ pc' = "assign" /\ base = Apic /\ bISABusID = Bus
  BY DEF TypeInv, Types, ShellTypes, ScanInv, Analysed, MapInv, Assign
<1>2. CASE i \in Kind("assignment") /\ Entries[i].bus = Bus /\ Entries[i].int
  <2>1. PICK q : q = Entries[i].irq
    OBVIOUS
  <2>2. q \in Irqs /\ i = Wire[q] /\ Entries[i].intin = Pin(q) /\ Pin(q) \in Intins
    BY <1>2, <2>1, LineIs, WireIs
  <2>3. /\ regs' = [regs EXCEPT
              ![<<Apic, Pin(q), "high">>] = DWord(IF q = Timer THEN All ELSE 0, None, FALSE),
              ![<<Apic, Pin(q), "low">>] = DWord(0, q, FALSE)]
        /\ select' = <<Pin(q), "low">> /\ map' = [map EXCEPT ![q] = Pin(q)]
    BY <1>1, <1>2, <2>1, <2>2 DEF Assign
  <2> QED
    BY <1>1, <2>2, <2>3
<1>3. CASE ~(i \in Kind("assignment") /\ Entries[i].bus = Bus /\ Entries[i].int)
  <2>1. UNCHANGED <<regs, select, map>>
    BY <1>1, <1>3 DEF Assign
  <2>2. \A q \in Irqs : i # Wire[q]
    BY <1>3, WireIs
  <2> QED
    BY <1>1, <2>1, <2>2
<1> QED
  BY <1>2, <1>3

LEMMA TypeAssign == ASSUME TypeInv, Assign PROVE TypeInv'
<1>1. ShellTypes /\ PlanInv /\ RouteTypes /\ MapInv /\ ScanInv
  BY DEF TypeInv, Types
<1>2. DeviceTypes' /\ HandlerTypes'
  BY DeviceFrame, HandlerFrame DEF Assign, TypeInv, Types, history, manager
<1>3. /\ i \in Nat /\ i' = i + 1 /\ pc = "assign" /\ pc' = "assign" /\ base = Apic /\ base' = base
      /\ bISABusID = Bus
  BY AssignIs DEF Assign
<1>4. ASSUME NEW q \in Irqs PROVE Wire[q] \in Nat
  BY WireIs
<1>5. RouteTypes' /\ \A q \in Irqs : Wire[q] < i + 1 => map'[q] = Pin(q) /\ select'[1] \in Intins
  <2>1. CASE UNCHANGED <<regs, select, map>> /\ \A q \in Irqs : i # Wire[q]
    <3>1. \A q \in Irqs : Wire[q] < i + 1 => Wire[q] < i
      BY <1>3, <1>4, <2>1
    <3> QED
      BY <1>1, <1>3, <2>1, <3>1, RouteFrame DEF MapInv
  <2>2. ASSUME NEW q \in Irqs, i = Wire[q], Pin(q) \in Intins,
               regs' = [regs EXCEPT
                    ![<<Apic, Pin(q), "high">>] = DWord(IF q = Timer THEN All ELSE 0, None, FALSE),
                    ![<<Apic, Pin(q), "low">>] = DWord(0, q, FALSE)],
               select' = <<Pin(q), "low">>, map' = [map EXCEPT ![q] = Pin(q)]
        PROVE  RouteTypes' /\ \A p \in Irqs : Wire[p] < i + 1 => map'[p] = Pin(p) /\ select'[1] \in Intins
    <3>1. DWord(IF q = Timer THEN All ELSE 0, None, FALSE) \in Register /\ DWord(0, q, FALSE) \in Register
      BY NoCopy
    <3>2. regs' \in [Registers -> Register]
      BY <1>1, <2>2, <3>1 DEF RouteTypes
    <3>3. select' \in (Intins \cup {0}) \X Halves /\ select'[1] \in Intins
      BY <2>2, HalvesAre
    <3>4. map' \in [Irqs -> Intins \cup {0, Unmapped}]
      BY <1>1, <2>2 DEF RouteTypes
    <3>5. ASSUME NEW p \in Irqs, Wire[p] < i + 1 PROVE map'[p] = Pin(p)
      <4>1. p = q \/ Wire[p] # i
        BY <2>2, WireIs
      <4>2. CASE p = q
        BY <1>1, <2>2, <4>2 DEF RouteTypes
      <4>3. CASE p # q
        <5>1. Wire[p] < i
          BY <1>3, <1>4, <3>5, <4>1, <4>3
        <5> QED
          BY <1>1, <1>3, <2>2, <4>3, <5>1 DEF MapInv
      <4> QED
        BY <4>2, <4>3
    <3> QED
      BY <1>1, <1>3, <3>2, <3>3, <3>4, <3>5 DEF RouteTypes
  <2> QED
    BY <2>1, <2>2, AssignIs
<1>6. ShellTypes'
  BY <1>1, <1>3 DEF Assign, ShellTypes, table, manager
<1>7. ScanInv'
  BY <1>1, <1>3 DEF Assign, ScanInv, Analysed, table
<1>8. PlanInv'
  BY <1>1, PlanFrame DEF Assign, manager
<1>9. MapInv'
  <2>1. bUseLoadBalancing' = bUseLoadBalancing /\ \A c \in Cores : hpc'[c] = hpc[c]
    BY DEF Assign, handler, manager
  <2> QED
    BY <1>1, <1>3, <1>5, <2>1 DEF MapInv
<1> QED
  BY <1>2, <1>5, <1>6, <1>7, <1>8, <1>9 DEF TypeInv, Types

LEMMA TypeAssigned == ASSUME TypeInv, Assigned PROVE TypeInv'
<1>1. /\ ShellTypes /\ PlanInv /\ MapInv /\ pc = "assign" /\ pc' = "prompt" /\ i' = 1
      /\ todo' = Tail(todo) /\ i > Len(Entries) /\ i \in Nat
  BY DEF TypeInv, Types, Assigned, Finish, Goto, ShellTypes
<1>2. todo # <<>> /\ bSymmetricIOMode = TRUE
  BY <1>1 DEF PlanInv
<1>3. RouteTypes' /\ HandlerTypes' /\ DeviceTypes'
  BY RouteFrame, HandlerFrame, DeviceFrame DEF Assigned, TypeInv, Types, ioapic, manager, history
<1>4. ShellTypes'
  BY <1>1, <1>2, TodoIs DEF Assigned, ShellTypes, Places, table, manager
<1>5. ScanInv'
  BY <1>1 DEF ScanInv, Analysed
<1>6. PlanInv'
  BY <1>1, <1>2, PlanDone DEF Assigned, manager, ShellTypes
<1>7. MapInv'
  <2>1. \A q \in Irqs : Wire[q] < i
    BY <1>1, WireIs, TableFinite
  <2>2. base = Apic /\ select[1] \in Intins /\ \A q \in Irqs : map[q] = Pin(q)
    BY <1>1, <2>1, IrqsAre DEF MapInv
  <2> QED
    BY <1>1, <2>2 DEF Assigned, MapInv, ioapic, manager, handler
<1> QED
  BY <1>3, <1>4, <1>5, <1>6, <1>7 DEF TypeInv, Types

LEMMA TypeBalance == ASSUME TypeInv, Balance PROVE TypeInv'
<1>1. /\ ShellTypes /\ PlanInv /\ MapInv /\ pc = "balance" /\ pc' = "prompt" /\ i' = 1
      /\ todo' = Tail(todo)
  BY DEF TypeInv, Types, Balance, Finish, Goto
<1>2. todo # <<>> /\ Command = "startintloadbal" /\ 1 \in DOMAIN todo /\ todo[1] = "startintloadbal"
  BY <1>1, TodoIs DEF PlanInv, ShellTypes
<1>3. bSymmetricIOMode = TRUE
  <2>1. bSymmetricIOMode = TRUE \/ \E m \in 1 .. 1 - 1 : todo[m] = "startsymmetricio"
    BY <1>1, <1>2 DEF PlanInv
  <2> QED
    BY <2>1
<1>4. RouteTypes' /\ DeviceTypes'
  BY RouteFrame, DeviceFrame DEF Balance, TypeInv, Types, ioapic
<1>5. HandlerTypes'
  <2>1. ASSUME NEW q \in Irqs
        PROVE  Divisor * (vvqwCoreInterruptCount[0][q] \div Divisor + 1) \in Nat
    <3>1. vvqwCoreInterruptCount \in [Cores -> [Irqs -> Nat]] /\ 0 \in Cores
      BY CoresAre DEF TypeInv, Types, HandlerTypes
    <3>2. vvqwCoreInterruptCount[0][q] \in Nat
      BY <3>1, Zenon
    <3>3. vvqwCoreInterruptCount[0][q] \div Divisor \in Nat /\ Divisor \in Nat
      BY <3>2, DivisionIs, NumberAssumption
    <3> QED
      BY <3>3
  <2>2. level' \in [Irqs -> Nat]
    BY <2>1 DEF Balance
  <2> QED
    BY <2>2 DEF Balance, TypeInv, Types, HandlerTypes, handler
<1>6. ShellTypes'
  BY <1>1, <1>2, TodoIs DEF Balance, ShellTypes, Places, table
<1>7. ScanInv'
  BY <1>1 DEF ScanInv, Analysed
<1>8. PlanInv'
  BY <1>1, <1>2, <1>3, PlanDone DEF Balance, ShellTypes
<1>9. MapInv'
  <2>1. bUseLoadBalancing' = TRUE
    BY DEF Balance
  <2> QED
    BY <1>1, <1>3, <2>1 DEF Balance, MapInv, ioapic
<1> QED
  BY <1>4, <1>5, <1>6, <1>7, <1>8, <1>9 DEF TypeInv, Types

LEMMA TypeStep == ASSUME TypeInv, [Next]_vars PROVE TypeInv'
<1>1. CASE UNCHANGED vars
  <2>1. UNCHANGED <<shell, table, bSymmetricIOMode, bUseLoadBalancing, base, map, ioapic,
                    devices, pic, apics, start, lost, handler, vvqwCoreInterruptCount, clash, level>>
    BY <1>1 DEF vars, history, manager, ioapic
  <2>2. DeviceTypes' /\ RouteTypes' /\ HandlerTypes'
    BY <2>1, DeviceFrame, RouteFrame, HandlerFrame DEF TypeInv, Types, ioapic
  <2>3. \A c \in Cores : hpc'[c] = hpc[c]
    BY <2>1 DEF handler
  <2> QED
    BY <2>1, <2>2, <2>3, TypeFrame DEF ioapic, TypeInv, MapInv
<1>2. ASSUME NEW q \in Irqs, Raise(q) PROVE TypeInv'
  BY <1>2, TypeRaise
<1>3. CASE Shell
  BY <1>3, TypeType, TypeClear, TypeFind, TypeScan, TypeMaskPIC, TypeEnable, TypeInit_IPI,
     TypeStartUp_IPI, TypeNotDelivered, TypeWaitForAll, TypeSymmetric, TypeAssign,
     TypeAssigned, TypeBalance DEF Shell
<1>4. ASSUME NEW c \in Cores, Handle(c) PROVE TypeInv'
  BY <1>4, TypeAcceptFromPIC, TypeAcceptFromAPIC, TypeEOI, TypeCount, TypeChoose, TypeSelect,
     TypeRead, TypeWriteHigh, TypeWriteLow DEF Handle
<1>5. ASSUME NEW c \in Cores, CountMyself(c) \/ SetUp(c) PROVE TypeInv'
  BY <1>5, TypeCore
<1> QED
  BY <1>1, <1>2, <1>3, <1>4, <1>5 DEF Next

LEMMA TypeInvOK == TypeInv => TypeOK
<1> SUFFICES ASSUME TypeInv PROVE TypeOK
  OBVIOUS
<1>1. DeviceTypes /\ RouteTypes /\ HandlerTypes /\ ShellTypes
  BY DEF TypeInv, Types
<1>2. \A q \in Irqs : edges[q] \in 0 .. MaxEdges[q]
  BY <1>1, NumberAssumption DEF DeviceTypes
<1>3. \A r \in DOMAIN regs : /\ regs[r].top \in Cores \cup {All}
                             /\ regs[r].vector \in Irqs \cup {None}
                             /\ regs[r].mask \in BOOLEAN
  BY <1>1 DEF RouteTypes, Register
<1>4. \A q \in Irqs : map[q] \in Intins \cup {0, Unmapped}
  BY <1>1 DEF RouteTypes
<1>5. \A c \in Cores : lapic[c] \in BOOLEAN /\ irr[c] \subseteq Irqs /\ isr[c] \in Irqs \cup {None}
  BY <1>1 DEF DeviceTypes
<1>6. iProcessorCount \in 0 .. Cardinality(Cores)
  BY <1>1, CoresAre DEF ShellTypes
<1>7. \A c \in Cores : /\ hpc[c] \in {"none", "eoi", "count", "choose"} \cup Selects \cup Windows
                       /\ irq[c] \in Irqs /\ target[c] \in Cores
  BY <1>1 DEF HandlerTypes, Points
<1> QED
  BY <1>1, <1>2, <1>3, <1>4, <1>5, <1>6, <1>7
     DEF TypeOK, DeviceTypes, RouteTypes, ShellTypes

\* The variables keep their types, and the scan of the MP configuration table
\* (kAnalysisMPConfigurationTable) never counts more processors than it lists.
THEOREM SpecTypeOK == Spec => []TypeOK
<1>1. Init => TypeInv
  BY TypeInit
<1>2. TypeInv /\ [Next]_vars => TypeInv'
  BY TypeStep
<1>3. TypeInv => TypeOK
  BY TypeInvOK
<1> QED
  BY <1>1, <1>2, <1>3, PTL DEF Spec

LEMMA StageIs ==
    ASSUME TypeInv, NEW c \in Cores
    PROVE  /\ stage[c] \in {"off", "reset", "starting", "counted", "on"}
           /\ lapic[c] \in BOOLEAN /\ header \in BOOLEAN /\ bSymmetricIOMode \in BOOLEAN
           /\ bUseLoadBalancing \in BOOLEAN /\ clash \in BOOLEAN /\ picMask \in BOOLEAN
  BY DEF TypeInv, Types, DeviceTypes, ShellTypes, HandlerTypes

\* Up to the change to symmetric I/O mode, startap and startsymmetricio find
\* the PIC in charge.
LEMMA NotYet ==
    ASSUME TypeInv, OrderInv,
           pc \in {"clear", "find", "scan", "mask", "enable", "init", "startup", "wait", "symmetric"}
    PROVE  /\ bSymmetricIOMode = FALSE /\ bUseLoadBalancing = FALSE
           /\ todo # <<>> /\ 1 \in DOMAIN todo /\ todo[1] = Command
<1>1. todo # <<>> /\ Command \in {"startap", "startsymmetricio"}
  BY DEF TypeInv, PlanInv
<1>2. 1 \in DOMAIN todo /\ todo[1] = Command
  BY <1>1, TodoIs DEF TypeInv, Types, ShellTypes
<1>3. bSymmetricIOMode # TRUE
  BY <1>1, <1>2 DEF TypeInv, PlanInv, OrderInv, QueueInv
<1>4. bSymmetricIOMode \in BOOLEAN /\ bUseLoadBalancing \in BOOLEAN
  BY DEF TypeInv, Types, ShellTypes
<1> QED
  BY <1>1, <1>2, <1>3, <1>4 DEF TypeInv, PlanInv

-----------------------------------------------------------------------------
\* The order of the commands

LEMMA OrderInit == ASSUME Orderly, Init PROVE OrderInv
<1>1. todo \in Sessions /\ pc = "prompt" /\ bSymmetricIOMode = FALSE /\ bUseLoadBalancing = FALSE
  BY DEF Init
<1>2. QueueInv
  BY <1>1 DEF Orderly, QueueInv
<1> QED
  BY <1>1, <1>2 DEF OrderInv

LEMMA OrderFrame ==
    ASSUME OrderInv,
           UNCHANGED <<todo, bSymmetricIOMode, bUseLoadBalancing, pc, stage, iProcessorCount>>
    PROVE  OrderInv'
  BY DEF OrderInv, QueueInv, Woken, Steady

LEMMA QueueFrame ==
    ASSUME QueueInv, UNCHANGED <<todo, bSymmetricIOMode>>, Woken => Woken' PROVE QueueInv'
  BY DEF QueueInv

\* The first command is done.
LEMMA QueueDone ==
    ASSUME QueueInv, todo \in Seq(Commands), todo # <<>>, todo' = Tail(todo),
           UNCHANGED <<bSymmetricIOMode, stage>>, Command = "startap" => Woken
    PROVE  QueueInv'
<1>1. Woken' <=> Woken
  BY DEF Woken
<1>2. ASSUME NEW n \in DOMAIN Tail(todo)
      PROVE  /\ Tail(todo)[n] = "startap" =>
                    /\ \A m \in 1 .. n - 1 : Tail(todo)[m] # "startsymmetricio"
                    /\ bSymmetricIOMode = FALSE
             /\ Tail(todo)[n] = "startintloadbal" =>
                    Woken \/ \E m \in 1 .. n - 1 : Tail(todo)[m] = "startap"
  <2>1. n \in Nat /\ n >= 1 /\ n + 1 \in DOMAIN todo /\ Tail(todo)[n] = todo[n + 1] /\ n + 1 # 1
    BY TodoIs
  <2>2. \A m \in 1 .. n - 1 : /\ m \in DOMAIN Tail(todo) /\ m + 1 \in 1 .. (n + 1) - 1
                              /\ Tail(todo)[m] = todo[m + 1]
    BY <2>1, TodoIs
  <2>3. CASE todo[n + 1] = "startap"
    <3>1. /\ \A m \in 1 .. (n + 1) - 1 : todo[m] # "startsymmetricio"
          /\ bSymmetricIOMode = FALSE
      BY <2>1, <2>3 DEF QueueInv
    <3> QED
      BY <2>1, <2>2, <2>3, <3>1
  <2>4. CASE todo[n + 1] = "startintloadbal"
    <3>1. Woken \/ \E m \in 1 .. (n + 1) - 1 : todo[m] = "startap"
      BY <2>1, <2>4 DEF QueueInv
    <3>2. ASSUME NEW m \in 1 .. (n + 1) - 1, todo[m] = "startap", ~Woken
          PROVE  m - 1 \in 1 .. n - 1 /\ Tail(todo)[m - 1] = "startap"
      <4>1. m # 1
        BY <3>2, TodoIs
      <4>2. m - 1 \in 1 .. n - 1 /\ (m - 1) + 1 = m
        BY <2>1, <3>2, <4>1
      <4> QED
        BY <2>2, <3>2, <4>2
    <3> QED
      BY <2>1, <2>4, <3>1, <3>2
  <2>5. CASE todo[n + 1] = "startsymmetricio"
    BY <2>1, <2>5
  <2> QED
    BY <2>1, <2>3, <2>4, <2>5, TodoIs DEF Commands
<1> QED
  BY <1>1, <1>2 DEF QueueInv

LEMMA OrderCore ==
    ASSUME TypeInv, OrderInv, NEW c \in Cores, CountMyself(c) \/ SetUp(c) PROVE OrderInv'
<1>1. /\ stage[c] \in {"starting", "counted"}
      /\ UNCHANGED <<todo, bSymmetricIOMode, bUseLoadBalancing, pc, iProcessorCount>>
      /\ stage' = [stage EXCEPT ![c] = "counted"] \/ stage' = [stage EXCEPT ![c] = "on"]
  BY DEF CountMyself, SetUp, manager, shell, table
<1>2. ~Steady
  BY <1>1 DEF Steady
<1>3. Woken => Woken'
  BY <1>1 DEF Woken, TypeInv, Types, DeviceTypes
<1>4. QueueInv'
  BY <1>1, <1>3, QueueFrame DEF OrderInv
<1> QED
  BY <1>1, <1>2, <1>3, <1>4 DEF OrderInv

LEMMA OrderType == ASSUME Orderly, TypeInv, OrderInv, Type PROVE OrderInv'
<1>1. /\ pc' \in {"balance", "clear"}
      /\ UNCHANGED <<todo, bSymmetricIOMode, bUseLoadBalancing, stage, iProcessorCount>>
  BY DEF Type, Goto, manager, start, table
<1>2. Steady
  BY DEF Type, Orderly, Steady
<1>3. QueueInv'
  BY <1>1, QueueFrame DEF OrderInv, Woken
<1> QED
  BY <1>1, <1>2, <1>3 DEF OrderInv, Woken, Steady

\* The steps that read the table and prepare
LEMMA OrderPrepare ==
    ASSUME TypeInv, OrderInv, Clear \/ Find \/ Scan \/ MaskPIC \/ Enable PROVE OrderInv'
<1>1. /\ pc \in {"clear", "find", "scan", "mask", "enable"}
      /\ pc' \in {"find", "scan", "mask", "enable", "init", "symmetric"}
      /\ UNCHANGED <<todo, bSymmetricIOMode, bUseLoadBalancing, stage>>
  BY DEF Clear, Find, Scan, MaskPIC, Enable, Goto, manager, start
<1>2. bSymmetricIOMode = FALSE
  BY <1>1, NotYet
<1>3. QueueInv'
  BY <1>1, QueueFrame DEF OrderInv, Woken
<1> QED
  BY <1>1, <1>2, <1>3 DEF OrderInv, Woken, Steady

LEMMA OrderInit_IPI == ASSUME TypeInv, OrderInv, StartInv, Init_IPI PROVE OrderInv'
<1>1. /\ pc = "init" /\ pc' = "startup"
      /\ UNCHANGED <<todo, bSymmetricIOMode, bUseLoadBalancing>>
      /\ stage' = [c \in Cores |-> IF c = 0 THEN stage[c] ELSE "reset"]
  BY DEF Init_IPI, Goto, manager
<1>2. bSymmetricIOMode = FALSE
  BY <1>1, NotYet
<1>3. Woken'
  BY <1>1 DEF Woken, StartInv
<1>4. QueueInv'
  BY <1>1, <1>3, QueueFrame DEF OrderInv
<1> QED
  BY <1>1, <1>2, <1>3, <1>4 DEF OrderInv

LEMMA OrderStartUp_IPI == ASSUME TypeInv, OrderInv, StartUp_IPI PROVE OrderInv'
<1>1. /\ pc = "startup" /\ pc' = "wait"
      /\ UNCHANGED <<todo, bSymmetricIOMode, bUseLoadBalancing>>
      /\ stage' = [c \in Cores |-> IF stage[c] = "reset" THEN "starting" ELSE stage[c]]
  BY DEF StartUp_IPI, Goto, manager
<1>2. bSymmetricIOMode = FALSE
  BY <1>1, NotYet
<1>3. Woken'
  BY <1>1 DEF Woken, OrderInv
<1>4. QueueInv'
  BY <1>1, <1>3, QueueFrame DEF OrderInv
<1> QED
  BY <1>1, <1>2, <1>3, <1>4 DEF OrderInv

LEMMA OrderNotDelivered == ASSUME TypeInv, OrderInv, NotDelivered PROVE OrderInv'
<1>1. /\ pc \in {"init", "startup"} /\ pc' = "prompt" /\ todo' = <<>>
      /\ UNCHANGED <<bSymmetricIOMode, bUseLoadBalancing, stage>>
  BY DEF NotDelivered, Goto, manager, start
<1>2. bSymmetricIOMode = FALSE
  BY <1>1, NotYet
<1> QED
  BY <1>1, <1>2 DEF OrderInv, QueueInv, Woken

LEMMA OrderWaitForAll == ASSUME TypeInv, OrderInv, WaitForAll PROVE OrderInv'
<1>1. /\ pc = "wait" /\ pc' = "prompt" /\ todo' = Tail(todo)
      /\ UNCHANGED <<bSymmetricIOMode, bUseLoadBalancing, stage>>
  BY DEF WaitForAll, Finish, Goto, manager, start
<1>2. bSymmetricIOMode = FALSE /\ todo # <<>> /\ todo \in Seq(Commands)
  BY <1>1, NotYet DEF TypeInv, Types, ShellTypes
<1>3. Woken
  BY <1>1 DEF OrderInv
<1>4. QueueInv'
  BY <1>1, <1>2, <1>3, QueueDone DEF OrderInv
<1> QED
  BY <1>1, <1>2, <1>3, <1>4 DEF OrderInv, Woken

LEMMA OrderSymmetric == ASSUME TypeInv, OrderInv, Symmetric PROVE OrderInv'
<1>1. /\ pc = "symmetric" /\ pc' = "assign"
      /\ UNCHANGED <<todo, bUseLoadBalancing, stage, iProcessorCount>>
  BY DEF Symmetric, Goto, start, table
<1>2. /\ bUseLoadBalancing = FALSE /\ 1 \in DOMAIN todo /\ todo[1] = "startsymmetricio"
      /\ todo \in Seq(Commands)
  BY <1>1, NotYet DEF TypeInv, PlanInv, Types, ShellTypes
<1>3. ASSUME NEW n \in DOMAIN todo PROVE todo[n] # "startap"
  <2>1. n = 1 \/ 1 \in 1 .. n - 1
    BY <1>2, TodoIs
  <2> QED
    BY <1>2, <2>1 DEF OrderInv, QueueInv
<1>4. QueueInv'
  BY <1>1, <1>3 DEF OrderInv, QueueInv, Woken
<1>5. Steady /\ iProcessorCount = Cardinality(Enabled)
  BY <1>1 DEF OrderInv, TypeInv, ScanInv, Analysed
<1> QED
  BY <1>1, <1>2, <1>4, <1>5 DEF OrderInv, Steady

LEMMA OrderAssign == ASSUME OrderInv, Assign PROVE OrderInv'
  BY OrderFrame DEF Assign, manager, start, table

LEMMA OrderAssigned == ASSUME TypeInv, OrderInv, Assigned PROVE OrderInv'
<1>1. /\ pc = "assign" /\ pc' = "prompt" /\ todo' = Tail(todo)
      /\ UNCHANGED <<bSymmetricIOMode, bUseLoadBalancing, stage, iProcessorCount>>
  BY DEF Assigned, Finish, Goto, manager, start, table
<1>2. todo # <<>> /\ todo \in Seq(Commands) /\ Command = "startsymmetricio"
  BY <1>1 DEF TypeInv, Types, ShellTypes, PlanInv
<1>3. QueueInv'
  BY <1>1, <1>2, QueueDone DEF OrderInv
<1> QED
  BY <1>1, <1>3 DEF OrderInv, Woken, Steady

LEMMA OrderBalance == ASSUME TypeInv, OrderInv, Balance PROVE OrderInv'
<1>1. /\ pc = "balance" /\ pc' = "prompt" /\ todo' = Tail(todo)
      /\ UNCHANGED <<bSymmetricIOMode, stage, iProcessorCount>>
  BY DEF Balance, Finish, Goto, start, table
<1>2. todo # <<>> /\ todo \in Seq(Commands) /\ Command = "startintloadbal"
  BY <1>1 DEF TypeInv, Types, ShellTypes, PlanInv
<1>3. QueueInv'
  BY <1>1, <1>2, QueueDone DEF OrderInv
<1>4. Woken
  <2>1. 1 \in DOMAIN todo /\ todo[1] = "startintloadbal"
    BY <1>2, TodoIs
  <2>2. Woken \/ \E m \in 1 .. 1 - 1 : todo[m] = "startap"
    BY <2>1 DEF OrderInv, QueueInv
  <2> QED
    BY <2>2
<1> QED
  BY <1>1, <1>3, <1>4 DEF OrderInv, Woken, Steady

LEMMA OrderStep == ASSUME Orderly, TypeInv, OrderInv, StartInv, [Next]_vars PROVE OrderInv'
<1>1. CASE UNCHANGED vars
  BY <1>1, OrderFrame DEF vars, shell, manager, start, table
<1>2. ASSUME NEW q \in Irqs, Raise(q) PROVE OrderInv'
  BY <1>2, OrderFrame DEF Raise, shell, manager, start, table
<1>3. CASE Shell
  BY <1>3, OrderType, OrderPrepare, OrderInit_IPI, OrderStartUp_IPI, OrderNotDelivered,
     OrderWaitForAll, OrderSymmetric, OrderAssign, OrderAssigned, OrderBalance DEF Shell
<1>4. ASSUME NEW c \in Cores, Handle(c) PROVE OrderInv'
  <2>1. UNCHANGED <<shell, start, table, bSymmetricIOMode, bUseLoadBalancing>>
    BY <1>4 DEF Handle, AcceptFromPIC, AcceptFromAPIC, EOI, Count, Choose, Select, Read,
       WriteHigh, WriteLow, manager
  <2> QED
    BY <2>1, OrderFrame DEF shell, start, table
<1>5. ASSUME NEW c \in Cores, CountMyself(c) \/ SetUp(c) PROVE OrderInv'
  BY <1>5, OrderCore
<1> QED
  BY <1>1, <1>2, <1>3, <1>4, <1>5 DEF Next

-----------------------------------------------------------------------------
\* The start of the cores

LEMMA StartInit == Init => StartInv
  BY CoresAre DEF Init, StartInv, Others

LEMMA StartFrame ==
    ASSUME StartInv, UNCHANGED <<stage, header, pc, lapic, bSymmetricIOMode>> PROVE StartInv'
  BY DEF StartInv

LEMMA StartCore ==
    ASSUME TypeInv, OrderInv, StartInv, NEW c \in Cores, CountMyself(c) \/ SetUp(c)
    PROVE  StartInv'
<1>1. /\ stage[c] \in {"starting", "counted"} /\ UNCHANGED <<header, pc, bSymmetricIOMode>>
      /\ \/ stage' = [stage EXCEPT ![c] = "counted"] /\ lapic' = lapic
         \/ stage' = [stage EXCEPT ![c] = "on"] /\ lapic' = [lapic EXCEPT ![c] = header]
  BY DEF CountMyself, SetUp, manager, shell, table, apics, LocalAPICFound
<1>2. c \in Others /\ ~Steady
  BY <1>1 DEF StartInv, Others, Steady
<1>3. header = TRUE
  <2>1. pc # "find"
    BY <1>2 DEF OrderInv
  <2> QED
    BY <1>1, <1>2, <2>1, StageIs DEF StartInv
<1>4. stage \in [Cores -> {"off", "reset", "starting", "counted", "on"}] /\ lapic \in [Cores -> BOOLEAN]
  BY DEF TypeInv, Types, DeviceTypes
<1> QED
  BY <1>1, <1>2, <1>3, <1>4, CoresAre DEF StartInv, Others

LEMMA StartShell == ASSUME TypeInv, StartInv, Shell PROVE StartInv'
<1>1. stage \in [Cores -> {"off", "reset", "starting", "counted", "on"}] /\ lapic \in [Cores -> BOOLEAN]
      /\ 0 \in Cores /\ Others \subseteq Cores /\ 0 \notin Others
  BY CoresAre DEF TypeInv, Types, DeviceTypes, Others
<1>2. CASE Type
  BY <1>2 DEF Type, Goto, start, table, apics, manager, StartInv
<1>3. CASE Clear
  BY <1>3 DEF Clear, Goto, start, apics, manager, StartInv
<1>4. CASE Find
  BY <1>4 DEF Find, Goto, start, apics, manager, StartInv
<1>5. CASE Scan
  BY <1>5 DEF Scan, Goto, start, apics, manager, StartInv
<1>6. CASE MaskPIC
  BY <1>6 DEF MaskPIC, Goto, start, apics, manager, StartInv, table
<1>7. CASE Enable
  <2>1. pc = "enable" /\ pc' # "assign" /\ UNCHANGED <<stage, header, bSymmetricIOMode>>
        /\ lapic' = [lapic EXCEPT ![0] = TRUE]
    BY <1>7 DEF Enable, Goto, start, manager, table
  <2> QED
    BY <1>1, <2>1 DEF StartInv
<1>8. CASE Init_IPI
  <2>1. /\ pc = "init" /\ pc' = "startup" /\ UNCHANGED <<header, bSymmetricIOMode>>
        /\ lapic' = [c \in Cores |-> IF c = 0 THEN lapic[c] ELSE FALSE]
        /\ stage' = [c \in Cores |-> IF c = 0 THEN stage[c] ELSE "reset"]
    BY <1>8 DEF Init_IPI, Goto, manager, table
  <2> QED
    BY <1>1, <2>1 DEF StartInv
<1>9. CASE StartUp_IPI
  <2>1. /\ pc = "startup" /\ pc' = "wait" /\ UNCHANGED <<header, bSymmetricIOMode, lapic>>
        /\ stage' = [c \in Cores |-> IF stage[c] = "reset" THEN "starting" ELSE stage[c]]
    BY <1>9 DEF StartUp_IPI, Goto, manager, table, apics
  <2> QED
    BY <1>1, <2>1 DEF StartInv
<1>10. CASE NotDelivered
  BY <1>10 DEF NotDelivered, Goto, start, apics, manager, StartInv, table
<1>11. CASE WaitForAll
  BY <1>11 DEF WaitForAll, Finish, Goto, start, apics, manager, StartInv, table
<1>12. CASE Symmetric
  BY <1>12 DEF Symmetric, Goto, start, apics, StartInv, table
<1>13. CASE Assign
  BY <1>13, StartFrame DEF Assign, start, apics, manager, table
<1>14. CASE Assigned
  BY <1>14 DEF Assigned, Finish, Goto, start, apics, manager, StartInv, table
<1>15. CASE Balance
  BY <1>15 DEF Balance, Finish, Goto, start, apics, StartInv, table
<1> QED
  BY <1>2, <1>3, <1>4, <1>5, <1>6, <1>7, <1>8, <1>9, <1>10, <1>11, <1>12, <1>13, <1>14, <1>15
     DEF Shell

LEMMA StartStep == ASSUME TypeInv, OrderInv, StartInv, [Next]_vars PROVE StartInv'
<1>1. CASE UNCHANGED vars
  BY <1>1, StartFrame DEF vars, shell, manager, start, table, apics
<1>2. ASSUME NEW q \in Irqs, Raise(q) PROVE StartInv'
  BY <1>2, StartFrame DEF Raise, shell, manager, start, table
<1>3. CASE Shell
  BY <1>3, StartShell
<1>4. ASSUME NEW c \in Cores, Handle(c) PROVE StartInv'
  <2>1. UNCHANGED <<shell, start, table, bSymmetricIOMode, lapic>>
    BY <1>4 DEF Handle, AcceptFromPIC, AcceptFromAPIC, EOI, Count, Choose, Select, Read,
       WriteHigh, WriteLow, manager, apics
  <2> QED
    BY <2>1, StartFrame DEF shell, start, table
<1>5. ASSUME NEW c \in Cores, CountMyself(c) \/ SetUp(c) PROVE StartInv'
  BY <1>5, StartCore
<1> QED
  BY <1>1, <1>2, <1>3, <1>4, <1>5 DEF Next

-----------------------------------------------------------------------------
\* What an edge does

\* Nobody receives what is masked.
LEMMA MaskedIs == ASSUME NEW q \in Irqs, Low(regs, q).mask = TRUE PROVE Receivers(q) = {} /\ Masked(q)
  BY EntryIs DEF Receivers, Masked

\* Who receives what an entry sends
LEMMA ReceiversAre ==
    ASSUME NEW q \in Irqs, Low(regs, q) = DWord(0, q, FALSE)
    PROVE  /\ Receivers(q) = {c \in Cores : High(regs, q).top \in {c, All} /\ lapic[c]}
           /\ Entry(q, "low").vector = q
<1>1. Low(regs, q).mask = FALSE /\ Low(regs, q).vector = q /\ q # None
  BY IrqsAre DEF DWord
<1> QED
  BY <1>1, EntryIs DEF Receivers, Masked

-----------------------------------------------------------------------------
\* The change from the PIC to the I/O APIC

LEMMA SwitchInit == Init => SwitchInv
<1> SUFFICES ASSUME Init PROVE SwitchInv
  OBVIOUS
<1>1. regs = [r \in Registers |-> DWord(0, None, r[3] = "low")]
  BY DEF Init, Registers
<1>2. \A q \in Irqs : Low(regs, q).mask = TRUE
  BY <1>1, RegistersAre, HalvesAre DEF Low, DWord
<1>3. \A q \in Irqs : line[q] # TRUE
  BY DEF Init
<1> QED
  BY <1>2, <1>3 DEF Init, SwitchInv, Others

LEMMA SwitchFrame ==
    ASSUME SwitchInv, UNCHANGED <<bSymmetricIOMode, picMask, line, picIrr, lost>>,
           bSymmetricIOMode = FALSE => /\ regs' = regs
                                       /\ \A c \in Cores : irr'[c] = irr[c] \/ irr'[c] = {}
                                       /\ \A c \in Others : hpc'[c] = hpc[c] \/ hpc'[c] = "none",
           \/ pc' = pc /\ Command' = Command
           \/ bSymmetricIOMode = TRUE /\ pc' \notin {"enable", "symmetric"}
           \/ pc' \notin {"enable", "symmetric"} /\ picMask = FALSE
           \/ pc' = "enable" /\ Command' # "startsymmetricio" /\ picMask = FALSE
           \/ pc' = "symmetric" /\ picMask = TRUE
    PROVE  SwitchInv'
<1>1. \A c \in Others : c \in Cores
  BY DEF Others
<1>2. bSymmetricIOMode = FALSE => \A c \in Cores : irr'[c] = {}
  BY DEF SwitchInv
<1>3. bSymmetricIOMode = FALSE => \A c \in Others : hpc'[c] = "none"
  BY DEF SwitchInv
<1> QED
  BY <1>2, <1>3 DEF SwitchInv, Low

LEMMA SwitchRaise == ASSUME TypeInv, SwitchInv, NEW q \in Irqs, Raise(q) PROVE SwitchInv'
<1>1. /\ UNCHANGED <<bSymmetricIOMode, picMask, pc, todo, regs, hpc>>
      /\ picIrr' = (IF picMask THEN picIrr ELSE picIrr \cup {q})
      /\ irr' = [c \in Cores |-> IF c \in Receivers(q)
                                 THEN irr[c] \cup {Entry(q, "low").vector} ELSE irr[c]]
      /\ lost' = IF Switching /\ Masked(q) THEN lost \cup {q} ELSE lost
      /\ line' = [line EXCEPT ![q] = q # Timer]
  BY DEF Raise, manager, shell, ioapic, handler
<1>2. CASE bSymmetricIOMode = TRUE
  BY <1>1, <1>2 DEF SwitchInv, Command
<1>3. CASE bSymmetricIOMode = FALSE
  <2>1. Receivers(q) = {} /\ Masked(q)
    BY <1>3, MaskedIs DEF SwitchInv
  <2>2. \A c \in Cores : irr'[c] = {}
    BY <1>1, <1>3, <2>1 DEF SwitchInv
  <2>3. \A p \in Irqs : line'[p] = TRUE => p = q \/ line[p] = TRUE
    BY <1>1 DEF TypeInv, Types, DeviceTypes
  <2>4. picMask = FALSE => \A p \in Irqs : line'[p] = TRUE => p \in picIrr'
    BY <1>1, <1>3, <2>3 DEF SwitchInv
  <2>5. picMask = TRUE => Switching
    BY <1>3 DEF SwitchInv, Switching
  <2>6. picMask = TRUE => \A p \in Irqs : line'[p] = TRUE => p \in lost'
    BY <1>1, <1>3, <2>1, <2>3, <2>5 DEF SwitchInv
  <2> QED
    BY <1>1, <1>3, <2>2, <2>4, <2>6 DEF SwitchInv, Command, Low
<1> QED
  BY <1>2, <1>3, CoresAre, StageIs

LEMMA SwitchAcceptFromPIC ==
    ASSUME TypeInv, SwitchInv, NEW q \in Irqs, AcceptFromPIC(q) PROVE SwitchInv'
<1>1. /\ UNCHANGED <<bSymmetricIOMode, picMask, pc, todo, regs, irr, lost>>
      /\ picMask # TRUE /\ picIrr' = picIrr \ {q} /\ line' = [line EXCEPT ![q] = FALSE]
      /\ hpc' = [hpc EXCEPT ![0] = "eoi"]
  BY DEF AcceptFromPIC, Enter, manager, shell, ioapic, apics, history
<1>2. \A p \in Irqs : line'[p] = TRUE => line[p] = TRUE /\ p # q
  BY <1>1 DEF TypeInv, Types, DeviceTypes
<1>3. \A c \in Others : hpc'[c] = hpc[c]
  BY <1>1 DEF TypeInv, Types, HandlerTypes, Others
<1> QED
  BY <1>1, <1>2, <1>3 DEF SwitchInv, Command, Low

LEMMA SwitchAcceptFromAPIC ==
    ASSUME TypeInv, SwitchInv, NEW c \in Cores, NEW q \in Irqs, AcceptFromAPIC(c, q)
    PROVE  SwitchInv'
<1>1. /\ UNCHANGED <<bSymmetricIOMode, picMask, pc, todo>> /\ q \in irr[c]
  BY DEF AcceptFromAPIC, manager, shell, pic
<1>2. bSymmetricIOMode # FALSE
  BY <1>1 DEF SwitchInv
<1> QED
  BY <1>1, <1>2 DEF SwitchInv, Command

LEMMA SwitchHandle ==
    ASSUME TypeInv, SwitchInv, NEW c \in Cores,
           EOI(c) \/ Count(c) \/ Choose(c) \/ Select(c) \/ Read(c) \/ WriteHigh(c) \/ WriteLow(c)
    PROVE  SwitchInv'
<1>1. /\ UNCHANGED <<bSymmetricIOMode, picMask, line, picIrr, lost, pc, todo, irr>> /\ hpc[c] # "none"
      /\ hpc[c] \in {"eoi", "count"} => regs' = regs
  BY DEF EOI, Count, Choose, Select, Read, WriteHigh, WriteLow, devices, manager, shell, pic, apics,
     history, ioapic, Selects, Windows
<1>2. bSymmetricIOMode = FALSE => hpc[c] \in {"eoi", "count"}
  BY <1>1, Balancing
<1>3. \A d \in Cores \ {c} : hpc'[d] = hpc[d]
  BY DEF EOI, Count, Choose, Select, Read, WriteHigh, WriteLow, Step, Return, TypeInv, Types,
     HandlerTypes
<1>4. bSymmetricIOMode = FALSE => c \notin Others
  BY <1>1 DEF SwitchInv
<1> QED
  BY <1>1, <1>2, <1>3, <1>4, SwitchFrame DEF Others, Command

LEMMA SwitchShell ==
    ASSUME TypeInv, OrderInv, SwitchInv, Shell PROVE SwitchInv'
<1>1. CASE Type
  <2>1. /\ UNCHANGED <<bSymmetricIOMode, picMask, line, picIrr, lost, regs, irr, hpc>>
        /\ pc = "prompt" /\ pc' \notin {"enable", "symmetric"}
    BY <1>1 DEF Type, Goto, devices, pic, ioapic, apics, manager, handler, history
  <2>2. bSymmetricIOMode = TRUE \/ picMask = FALSE
    BY <2>1, StageIs, CoresAre DEF SwitchInv
  <2> QED
    BY <2>1, <2>2, SwitchFrame
<1>2. CASE Clear \/ Find
  <2>1. /\ UNCHANGED <<bSymmetricIOMode, picMask, line, picIrr, lost, regs, irr, hpc>>
        /\ pc \in {"clear", "find"} /\ pc' \notin {"enable", "symmetric"}
    BY <1>2 DEF Clear, Find, Goto, devices, pic, ioapic, apics, manager, handler, history
  <2>2. picMask = FALSE
    BY <2>1, StageIs, NotYet, CoresAre DEF SwitchInv
  <2> QED
    BY <2>1, <2>2, SwitchFrame
<1>3. CASE Scan
  <2>1. /\ UNCHANGED <<bSymmetricIOMode, picMask, line, picIrr, lost, regs, irr, hpc, todo>>
        /\ pc = "scan" /\ pc' \in {"scan", "mask", "enable"}
        /\ pc' = "enable" => Command = "startap"
    BY <1>3 DEF Scan, Goto, devices, pic, ioapic, apics, manager, handler, history
  <2>2. picMask = FALSE
    BY <2>1, StageIs, NotYet, CoresAre DEF SwitchInv
  <2>3. Command' = Command
    BY <2>1 DEF Command
  <2> QED
    BY <2>1, <2>2, <2>3, SwitchFrame
<1>4. CASE MaskPIC
  <2>1. /\ UNCHANGED <<bSymmetricIOMode, line, picIrr, regs, irr, hpc, todo>>
        /\ pc = "mask" /\ pc' = "enable" /\ picMask' = TRUE
        /\ lost' = lost \cup {q \in picIrr : line[q]}
    BY <1>4 DEF MaskPIC, Goto, devices, ioapic, apics, manager, handler
  <2>2. picMask = FALSE /\ bSymmetricIOMode = FALSE
    BY <2>1, StageIs, NotYet, CoresAre DEF SwitchInv
  <2>3. \A q \in Irqs : line[q] = TRUE => q \in lost'
    BY <2>1, <2>2 DEF SwitchInv
  <2>4. Command' = "startsymmetricio"
    BY <2>1 DEF TypeInv, PlanInv, Command
  <2> QED
    BY <2>1, <2>2, <2>3, <2>4 DEF SwitchInv, Low
<1>5. CASE Enable
  <2>1. /\ UNCHANGED <<bSymmetricIOMode, picMask, line, picIrr, lost, regs, irr, hpc, todo>>
        /\ pc = "enable"
        /\ \/ Command = "startap" /\ pc' = "init"
           \/ Command # "startap" /\ pc' = "symmetric"
    BY <1>5 DEF Enable, Goto, devices, pic, ioapic, manager, handler, history
  <2>2. Command \in {"startap", "startsymmetricio"}
    BY <2>1 DEF TypeInv, PlanInv
  <2>3. \/ pc' = "init" /\ picMask = FALSE
        \/ pc' = "symmetric" /\ picMask = TRUE
    BY <2>1, <2>2, StageIs, CoresAre DEF SwitchInv
  <2> QED
    BY <2>1, <2>3, SwitchFrame
<1>6. CASE Init_IPI
  <2>1. /\ UNCHANGED <<bSymmetricIOMode, picMask, line, picIrr, lost, regs, todo>>
        /\ pc = "init" /\ pc' = "startup"
        /\ \A c \in Cores : irr'[c] = irr[c] \/ irr'[c] = {}
        /\ \A c \in Cores : hpc'[c] = hpc[c] \/ hpc'[c] = "none"
    BY <1>6 DEF Init_IPI, Goto, devices, pic, ioapic, manager, history
  <2>2. picMask = FALSE
    BY <2>1, StageIs, NotYet, CoresAre DEF SwitchInv
  <2> QED
    BY <2>1, <2>2, SwitchFrame DEF Others
<1>7. CASE StartUp_IPI \/ NotDelivered \/ WaitForAll
  <2>1. /\ UNCHANGED <<bSymmetricIOMode, picMask, line, picIrr, lost, regs, irr, hpc>>
        /\ pc \in {"init", "startup", "wait"} /\ pc' \in {"wait", "prompt"}
    BY <1>7 DEF StartUp_IPI, NotDelivered, WaitForAll, Finish, Goto, devices, pic, ioapic, apics,
       manager, handler, history
  <2>2. picMask = FALSE
    BY <2>1, StageIs, NotYet, CoresAre DEF SwitchInv
  <2> QED
    BY <2>1, <2>2, SwitchFrame
<1>8. CASE Symmetric
  <2>1. /\ bSymmetricIOMode' = TRUE /\ picMask' = picMask /\ pc = "symmetric" /\ pc' = "assign"
    BY <1>8 DEF Symmetric, Goto, pic
  <2> QED
    BY <2>1 DEF SwitchInv
<1>9. CASE Assign \/ Assigned
  <2>1. /\ UNCHANGED <<bSymmetricIOMode, picMask>> /\ pc = "assign" /\ pc' \in {"assign", "prompt"}
    BY <1>9 DEF Assign, Assigned, Finish, Goto, pic, manager
  <2>2. bSymmetricIOMode = TRUE
    BY <2>1 DEF TypeInv, PlanInv
  <2> QED
    BY <2>1, <2>2 DEF SwitchInv
<1>10. CASE Balance
  <2>1. /\ UNCHANGED <<bSymmetricIOMode, picMask, line, picIrr, lost, regs, irr, hpc>>
        /\ pc = "balance" /\ pc' = "prompt"
    BY <1>10 DEF Balance, Finish, Goto, devices, pic, ioapic, apics, handler
  <2>2. bSymmetricIOMode = TRUE \/ picMask = FALSE
    BY <2>1, StageIs, CoresAre DEF SwitchInv
  <2> QED
    BY <2>1, <2>2, SwitchFrame
<1> QED
  BY <1>1, <1>2, <1>3, <1>4, <1>5, <1>6, <1>7, <1>8, <1>9, <1>10 DEF Shell

LEMMA SwitchStep == ASSUME TypeInv, OrderInv, SwitchInv, [Next]_vars PROVE SwitchInv'
<1>1. CASE UNCHANGED vars
  <2>1. UNCHANGED <<bSymmetricIOMode, picMask, line, picIrr, lost, regs, irr, hpc, pc, todo>>
    BY <1>1 DEF vars, shell, manager, devices, pic, ioapic, apics, handler, history
  <2> QED
    BY <2>1, SwitchFrame DEF Command
<1>2. ASSUME NEW q \in Irqs, Raise(q) PROVE SwitchInv'
  BY <1>2, SwitchRaise
<1>3. CASE Shell
  BY <1>3, SwitchShell
<1>4. ASSUME NEW c \in Cores, Handle(c) PROVE SwitchInv'
  BY <1>4, SwitchAcceptFromPIC, SwitchAcceptFromAPIC, SwitchHandle DEF Handle
<1>5. ASSUME NEW c \in Cores, CountMyself(c) \/ SetUp(c) PROVE SwitchInv'
  <2>1. UNCHANGED <<bSymmetricIOMode, picMask, line, picIrr, lost, regs, irr, hpc, pc, todo>>
    BY <1>5 DEF CountMyself, SetUp, shell, manager, devices, pic, ioapic, apics, handler, history
  <2> QED
    BY <2>1, SwitchFrame DEF Command
<1> QED
  BY <1>1, <1>2, <1>3, <1>4, <1>5 DEF Next

-----------------------------------------------------------------------------
\* The writing of the entries

LEMMA AssignFrame ==
    ASSUME AssignInv, UNCHANGED <<regs, i>>, pc' = "assign" => pc = "assign" PROVE AssignInv'
  BY DEF AssignInv, High, Low

LEMMA AssignSymmetric == ASSUME TypeInv, Symmetric PROVE AssignInv'
<1>1. pc = "symmetric" /\ i' = 1 /\ base' = Apic /\ regs \in [Registers -> Register]
      /\ regs' = [r \in DOMAIN regs |-> IF r[1] = base' /\ r[3] = "low"
                                        THEN [regs[r] EXCEPT !.mask = TRUE] ELSE regs[r]]
  <2>1. pc = "symmetric" /\ i' = 1 /\ regs \in [Registers -> Register]
    BY DEF Symmetric, Goto, TypeInv, Types, RouteTypes
  <2>2. bISABusID = Bus
    BY <2>1 DEF TypeInv, ScanInv, Analysed
  <2> QED
    BY <2>1, <2>2, IOAPICIs DEF Symmetric, GetIOAPICBaseAddressOfISA, MaskAllInterruptInIOAPIC
<1>2. ASSUME NEW q \in Irqs PROVE Low(regs', q).mask = TRUE /\ ~(Wire[q] < 1)
  <2>1. <<Apic, Pin(q), "low">> \in Registers
    BY RegistersAre, HalvesAre
  <2>2. regs[<<Apic, Pin(q), "low">>] \in Register
    BY <1>1, <2>1
  <2>3. Low(regs', q) = [regs[<<Apic, Pin(q), "low">>] EXCEPT !.mask = TRUE]
    BY <1>1, <2>1 DEF Low
  <2>4. ~(Wire[q] < 1)
    BY WireIs
  <2> QED
    BY <2>2, <2>3, <2>4 DEF Register
<1> QED
  BY <1>1, <1>2 DEF AssignInv

LEMMA AssignAssign == ASSUME TypeInv, AssignInv, Assign PROVE AssignInv'
<1>1. i \in Nat /\ i' = i + 1 /\ pc = "assign" /\ regs \in [Registers -> Register]
  BY AssignIs DEF TypeInv, Types, RouteTypes
<1>2. ASSUME NEW p \in Irqs
      PROVE  IF Wire[p] < i + 1
             THEN Low(regs', p) = DWord(0, p, FALSE) /\ High(regs', p).top = Starter(p)
             ELSE Low(regs', p).mask = TRUE
  <2>1. Wire[p] \in Nat
    BY WireIs
  <2>2. CASE UNCHANGED <<regs, select, map>> /\ \A q \in Irqs : i # Wire[q]
    <3>1. Wire[p] < i + 1 <=> Wire[p] < i
      BY <1>1, <2>1, <2>2
    <3> QED
      BY <1>1, <2>2, <3>1 DEF AssignInv
  <2>3. ASSUME NEW q \in Irqs, i = Wire[q],
               regs' = [regs EXCEPT
                    ![<<Apic, Pin(q), "high">>] = DWord(IF q = Timer THEN All ELSE 0, None, FALSE),
                    ![<<Apic, Pin(q), "low">>] = DWord(0, q, FALSE)]
        PROVE  IF Wire[p] < i + 1
               THEN Low(regs', p) = DWord(0, p, FALSE) /\ High(regs', p).top = Starter(p)
               ELSE Low(regs', p).mask = TRUE
    <3>1. /\ <<Apic, Pin(q), "high">> \in Registers /\ <<Apic, Pin(q), "low">> \in Registers
          /\ <<Apic, Pin(p), "high">> \in Registers /\ <<Apic, Pin(p), "low">> \in Registers
      BY RegistersAre, HalvesAre
    <3>2. CASE p = q
      <4>1. Low(regs', p) = DWord(0, p, FALSE)
        BY <1>1, <2>3, <3>1, <3>2 DEF Low
      <4>2. High(regs', p) = DWord(IF p = Timer THEN All ELSE 0, None, FALSE)
        BY <1>1, <2>3, <3>1, <3>2 DEF High
      <4>3. High(regs', p).top = Starter(p)
        BY <4>2 DEF DWord, Starter
      <4>4. Wire[p] < i + 1
        BY <1>1, <2>3, <3>2
      <4> QED
        BY <4>1, <4>3, <4>4
    <3>3. CASE p # q
      <4>1. Pin(p) # Pin(q)
        BY <3>3, PinsDiffer
      <4>2. Low(regs', p) = Low(regs, p) /\ High(regs', p) = High(regs, p)
        BY <1>1, <2>3, <3>1, <4>1 DEF Low, High
      <4>3. Wire[p] # Wire[q]
        BY <3>3, WireIs
      <4>4. Wire[p] < i + 1 <=> Wire[p] < i
        BY <1>1, <2>1, <2>3, <4>3
      <4> QED
        BY <1>1, <4>2, <4>4 DEF AssignInv
    <3> QED
      BY <3>2, <3>3
  <2> QED
    BY <2>2, <2>3, AssignIs
<1> QED
  BY <1>1, <1>2 DEF AssignInv

LEMMA AssignStep == ASSUME TypeInv, AssignInv, [Next]_vars PROVE AssignInv'
<1>1. CASE UNCHANGED vars
  BY <1>1, AssignFrame DEF vars, shell, ioapic
<1>2. ASSUME NEW q \in Irqs, Raise(q) PROVE AssignInv'
  BY <1>2, AssignFrame DEF Raise, shell, ioapic
<1>3. CASE Shell
  <2>1. CASE Symmetric
    BY <2>1, AssignSymmetric
  <2>2. CASE Assign
    BY <2>2, AssignAssign
  <2>3. CASE Type \/ Clear \/ Find \/ MaskPIC \/ Enable \/ Init_IPI \/ StartUp_IPI \/ NotDelivered
             \/ WaitForAll \/ Assigned \/ Balance
    <3>1. pc' # "assign"
      BY <2>3 DEF Type, Clear, Find, MaskPIC, Enable, Init_IPI, StartUp_IPI, NotDelivered,
         WaitForAll, Assigned, Balance, Finish, Goto
    <3> QED
      BY <3>1 DEF AssignInv
  <2>4. CASE Scan
    <3>1. pc' # "assign"
      BY <2>4 DEF Scan, Goto
    <3> QED
      BY <3>1 DEF AssignInv
  <2> QED
    BY <1>3, <2>1, <2>2, <2>3, <2>4 DEF Shell
<1>4. ASSUME NEW c \in Cores, Handle(c) PROVE AssignInv'
  <2>1. CASE WriteHigh(c) \/ WriteLow(c)
    <3>1. pc # "assign" /\ pc' = pc
      BY <2>1, Balancing DEF WriteHigh, WriteLow, shell
    <3> QED
      BY <3>1 DEF AssignInv
  <2>2. CASE ~(WriteHigh(c) \/ WriteLow(c))
    <3>1. UNCHANGED <<regs, i, pc>>
      BY <1>4, <2>2 DEF Handle, AcceptFromPIC, AcceptFromAPIC, EOI, Count, Choose, Select, Read,
         shell, ioapic
    <3> QED
      BY <3>1, AssignFrame
  <2> QED
    BY <2>1, <2>2
<1>5. ASSUME NEW c \in Cores, CountMyself(c) \/ SetUp(c) PROVE AssignInv'
  BY <1>5, AssignFrame DEF CountMyself, SetUp, shell, ioapic
<1> QED
  BY <1>1, <1>2, <1>3, <1>4, <1>5 DEF Next

\* In symmetric I/O mode the bootstrap processor listens, when balancing all.
LEMMA Listening ==
    ASSUME TypeInv, OrderInv, StartInv, bSymmetricIOMode = TRUE
    PROVE  /\ lapic[0] = TRUE
           /\ bUseLoadBalancing = TRUE => \A c \in Cores : lapic[c] = TRUE
<1>1. lapic[0] = TRUE
  BY DEF StartInv
<1>2. ASSUME bUseLoadBalancing = TRUE, NEW c \in Cores PROVE lapic[c] = TRUE
  <2>1. stage[c] = "on"
    BY <1>2 DEF OrderInv, Woken, Steady
  <2> QED
    BY <1>1, <2>1 DEF StartInv, Others
<1> QED
  BY <1>1, <1>2

\* What becomes of an edge once the mode is changed
Sent(q) ==
    /\ Entry(q, "low").vector = q
    /\ Receivers(q) = {c \in Cores : High(regs, q).top \in {c, All} /\ lapic[c]}
    /\ High(regs, q).top \in Cores \cup {All}
    /\ q # Timer => High(regs, q).top \in Cores /\ lapic[High(regs, q).top] = TRUE
    /\ bUseLoadBalancing = FALSE => High(regs, q).top = Starter(q)

LEMMA SentIs ==
    ASSUME TypeInv, OrderInv, StartInv, SwitchInv, AssignInv, RoutesInv, NEW q \in Irqs,
           bSymmetricIOMode = TRUE
    PROVE  /\ Sent(q) \/ (Receivers(q) = {} /\ Masked(q) /\ Switching)
           /\ bUseLoadBalancing = TRUE => Sent(q)
<1>1. lapic[0] = TRUE /\ (bUseLoadBalancing = TRUE => \A c \in Cores : lapic[c] = TRUE)
  BY Listening
<1>2. 0 \in Cores /\ Starter(q) \in {0, All} /\ (q # Timer => Starter(q) = 0)
  BY CoresAre DEF Starter
<1>3. ASSUME Low(regs, q) = DWord(0, q, FALSE), High(regs, q).top = Starter(q) PROVE Sent(q)
  BY <1>1, <1>2, <1>3, ReceiversAre DEF Sent
<1>4. CASE pc = "assign"
  <2>1. bUseLoadBalancing # TRUE
    BY <1>4 DEF TypeInv, PlanInv
  <2>2. CASE Wire[q] < i
    BY <1>3, <1>4, <2>1, <2>2 DEF AssignInv
  <2>3. CASE ~(Wire[q] < i)
    <3>1. Receivers(q) = {} /\ Masked(q)
      BY <1>4, <2>3, MaskedIs DEF AssignInv
    <3>2. Switching
      BY <1>4 DEF SwitchInv, Switching
    <3> QED
      BY <2>1, <3>1, <3>2
  <2> QED
    BY <2>2, <2>3
<1>5. CASE pc # "assign"
  <2>1. Low(regs, q) = DWord(0, q, FALSE)
    BY <1>5 DEF RoutesInv, RouteInv
  <2>2. CASE q = Timer \/ bUseLoadBalancing = FALSE
    <3>1. High(regs, q).top = Starter(q)
      BY <1>5, <2>2 DEF RoutesInv, RouteInv
    <3> QED
      BY <1>3, <2>1, <3>1
  <2>3. CASE q # Timer /\ bUseLoadBalancing = TRUE
    <3>1. High(regs, q).top \in Cores
      BY <1>5, <2>3 DEF RoutesInv, RouteInv
    <3>2. Sent(q)
      BY <1>1, <2>1, <2>3, <3>1, ReceiversAre DEF Sent
    <3> QED
      BY <3>2
  <2> QED
    BY <2>2, <2>3, StageIs, CoresAre
<1> QED
  BY <1>4, <1>5

\* How an edge reaches the local APICs
LEMMA RaiseIs ==
    ASSUME TypeInv, OrderInv, StartInv, SwitchInv, AssignInv, RoutesInv, NEW q \in Irqs, Raise(q),
           bSymmetricIOMode = TRUE
    PROVE  /\ \A c \in Cores : \A p \in irr'[c] :
                p \in irr[c] \/ (p = q /\ Sent(q) /\ High(regs, q).top \in {c, All})
           /\ q # Timer => q \in lost' \/ \E c \in Cores : lapic[c] = TRUE /\ q \in irr'[c]
           /\ \A c \in Cores : irr[c] \subseteq irr'[c]
<1>1. /\ irr' = [c \in Cores |-> IF c \in Receivers(q)
                                 THEN irr[c] \cup {Entry(q, "low").vector} ELSE irr[c]]
      /\ lost' = IF Switching /\ Masked(q) THEN lost \cup {q} ELSE lost
  BY DEF Raise
<1>2. CASE Sent(q)
  <2>1. Entry(q, "low").vector = q
        /\ Receivers(q) = {c \in Cores : High(regs, q).top \in {c, All} /\ lapic[c]}
    BY <1>2 DEF Sent
  <2>2. ASSUME NEW c \in Cores, NEW p \in irr'[c]
        PROVE  p \in irr[c] \/ (p = q /\ High(regs, q).top \in {c, All})
    BY <1>1, <2>1, <2>2
  <2>3. ASSUME q # Timer PROVE \E c \in Cores : lapic[c] = TRUE /\ q \in irr'[c]
    <3>1. PICK t : t = High(regs, q).top
      OBVIOUS
    <3>2. t \in Cores /\ lapic[t] = TRUE
      BY <1>2, <2>3, <3>1 DEF Sent
    <3>3. t \in Receivers(q)
      BY <2>1, <3>1, <3>2
    <3> QED
      BY <1>1, <2>1, <3>2, <3>3
  <2> QED
    BY <1>1, <1>2, <2>2, <2>3
<1>3. CASE Receivers(q) = {} /\ Masked(q) /\ Switching
  BY <1>1, <1>3
<1> QED
  BY <1>2, <1>3, SentIs

-----------------------------------------------------------------------------
\* Before balancing the other cores have the timer only

LEMMA AloneInit == Init => AloneInv
  BY DEF Init, AloneInv, Others

LEMMA AloneFrame ==
    ASSUME AloneInv, UNCHANGED <<vvqwCoreInterruptCount, clash>>,
           bUseLoadBalancing' = FALSE => bUseLoadBalancing = FALSE,
           \A c \in Others : /\ irr'[c] = irr[c] \/ irr'[c] = {}
                             /\ (hpc'[c] = hpc[c] /\ irq'[c] = irq[c]) \/ hpc'[c] = "none"
    PROVE  AloneInv'
<1> SUFFICES ASSUME bUseLoadBalancing' = FALSE
             PROVE  /\ clash' = FALSE
                    /\ \A c \in Others, q \in Irqs \ {Timer} :
                          /\ q \notin irr'[c] /\ vvqwCoreInterruptCount'[c][q] = 0
                          /\ hpc'[c] # "none" => irq'[c] # q
  BY DEF AloneInv
<1>1. /\ clash = FALSE
      /\ \A c \in Others, q \in Irqs \ {Timer} :
            /\ q \notin irr[c] /\ vvqwCoreInterruptCount[c][q] = 0
            /\ hpc[c] # "none" => irq[c] # q
  BY DEF AloneInv
<1> QED
  BY <1>1

LEMMA AloneRaise ==
    ASSUME TypeInv, OrderInv, StartInv, SwitchInv, AssignInv, AloneInv, clash = FALSE => RoutesInv,
           NEW q \in Irqs, Raise(q)
    PROVE  AloneInv'
<1> SUFFICES ASSUME bUseLoadBalancing = FALSE PROVE AloneInv'
  BY DEF Raise, manager, AloneInv
<1>1. UNCHANGED <<vvqwCoreInterruptCount, clash, bUseLoadBalancing, hpc, irq>>
  BY DEF Raise, manager, handler
<1>2. clash = FALSE
  BY DEF AloneInv
<1>3. ASSUME NEW c \in Others, NEW p \in Irqs \ {Timer} PROVE p \notin irr'[c]
  <2>1. c \in Cores /\ c # 0 /\ p \notin irr[c]
    BY <1>3 DEF AloneInv, Others
  <2>2. CASE bSymmetricIOMode = TRUE
    <3>1. p \in irr'[c] => p = q /\ High(regs, q).top = Starter(q) /\ High(regs, q).top \in {c, All}
      BY <1>2, <2>1, <2>2, RaiseIs DEF Sent
    <3>2. Starter(p) = 0 /\ All # 0
      BY DEF Starter, All
    <3> QED
      BY <2>1, <3>1, <3>2
  <2>3. CASE bSymmetricIOMode = FALSE
    <3>1. Receivers(q) = {}
      BY <2>3, MaskedIs DEF SwitchInv
    <3>2. irr'[c] = irr[c]
      BY <2>1, <3>1 DEF Raise
    <3> QED
      BY <2>1, <3>2
  <2> QED
    BY <2>2, <2>3, StageIs, CoresAre
<1> QED
  BY <1>1, <1>3 DEF AloneInv

LEMMA AloneHandle ==
    ASSUME TypeInv, AloneInv, NEW c \in Cores, Handle(c) PROVE AloneInv'
<1>1. /\ hpc \in [Cores -> Points] /\ irq \in [Cores -> Irqs] /\ irr \in [Cores -> SUBSET Irqs]
      /\ vvqwCoreInterruptCount \in [Cores -> [Irqs -> Nat]] /\ HandlerTypes
      /\ Others \subseteq Cores /\ 0 \notin Others
  BY DEF TypeInv, Types, HandlerTypes, DeviceTypes, Others
<1>2. ASSUME NEW q \in Irqs, AcceptFromPIC(q) PROVE AloneInv'
  BY <1>1, <1>2, AloneFrame DEF AcceptFromPIC, Enter, manager, apics, history
<1>3. ASSUME NEW q \in Irqs, AcceptFromAPIC(c, q) PROVE AloneInv'
  <2>1. /\ UNCHANGED <<vvqwCoreInterruptCount, clash, bUseLoadBalancing>> /\ q \in irr[c]
        /\ irr' = [irr EXCEPT ![c] = @ \ {q}]
        /\ hpc' = [hpc EXCEPT ![c] = "eoi"] /\ irq' = [irq EXCEPT ![c] = q]
    BY <1>3 DEF AcceptFromAPIC, Enter, manager, history
  <2>2. \A d \in Cores : irr'[d] \subseteq irr[d]
    BY <1>1, <2>1
  <2>3. \A d \in Cores \ {c} : hpc'[d] = hpc[d] /\ irq'[d] = irq[d]
    BY <1>1, <2>1
  <2>4. irq'[c] = q
    BY <1>1, <2>1
  <2> QED
    BY <1>1, <2>1, <2>2, <2>3, <2>4 DEF AloneInv
<1>4. CASE EOI(c)
  <2>1. /\ UNCHANGED <<vvqwCoreInterruptCount, clash, bUseLoadBalancing, irr, irq>>
        /\ hpc[c] = "eoi" /\ hpc' = [hpc EXCEPT ![c] = "count"]
    BY <1>4 DEF EOI, manager, history
  <2>2. \A d \in Cores : hpc'[d] # "none" => hpc[d] # "none"
    BY <1>1, <2>1
  <2> QED
    BY <1>1, <2>1, <2>2 DEF AloneInv
<1>5. CASE Count(c)
  <2>1. CASE bUseLoadBalancing = TRUE
    BY <1>5, <2>1 DEF Count, AloneInv
  <2>2. CASE bUseLoadBalancing = FALSE
    <3>1. /\ UNCHANGED <<clash, bUseLoadBalancing, irr>> /\ hpc[c] = "count" /\ Return(c)
          /\ vvqwCoreInterruptCount' = [vvqwCoreInterruptCount EXCEPT ![c][irq[c]] = @ + 1]
      BY <1>5, <2>2 DEF Count, IncreaseInterruptCount, apics, history
    <3>2. \A d \in Cores \ {c} : hpc'[d] = hpc[d] /\ irq'[d] = irq[d]
      BY <1>1, <3>1, ReturnIs
    <3>3. hpc'[c] = "none"
      BY <1>1, <3>1, ReturnIs
    <3>4. ASSUME NEW d \in Others, NEW q \in Irqs \ {Timer} PROVE vvqwCoreInterruptCount'[d][q] = 0
      <4>1. d = c => irq[c] # q
        BY <2>2, <3>1 DEF AloneInv
      <4>2. vvqwCoreInterruptCount'[d][q] = vvqwCoreInterruptCount[d][q]
        BY <1>1, <3>1, <4>1
      <4> QED
        BY <2>2, <4>2 DEF AloneInv
    <3> QED
      BY <1>1, <2>2, <3>1, <3>2, <3>3, <3>4 DEF AloneInv
  <2> QED
    BY <2>1, <2>2, StageIs
<1>6. CASE Choose(c) \/ Select(c) \/ Read(c) \/ WriteHigh(c) \/ WriteLow(c)
  <2>1. bUseLoadBalancing' = bUseLoadBalancing /\ hpc[c] \notin {"none", "eoi", "count"}
    BY <1>6 DEF Choose, Select, Read, WriteHigh, WriteLow, manager, Selects
  <2>2. bUseLoadBalancing = TRUE
    BY <2>1, Balancing
  <2> QED
    BY <2>1, <2>2 DEF AloneInv
<1> QED
  BY <1>2, <1>3, <1>4, <1>5, <1>6 DEF Handle

LEMMA AloneShell == ASSUME TypeInv, AloneInv, Shell PROVE AloneInv'
<1>1. CASE Type \/ Clear \/ Find \/ Scan \/ MaskPIC \/ Enable \/ StartUp_IPI \/ NotDelivered
           \/ WaitForAll \/ Assign \/ Assigned
  <2>1. UNCHANGED <<vvqwCoreInterruptCount, clash, bUseLoadBalancing, irr, hpc, irq>>
    BY <1>1 DEF Type, Clear, Find, Scan, MaskPIC, Enable, StartUp_IPI, NotDelivered, WaitForAll,
       Assign, Assigned, manager, history, apics, handler
  <2> QED
    BY <2>1, AloneFrame
<1>2. CASE Init_IPI
  <2>1. UNCHANGED <<vvqwCoreInterruptCount, clash, bUseLoadBalancing>>
    BY <1>2 DEF Init_IPI, manager, history
  <2>2. \A c \in Others : hpc'[c] = "none" /\ irr'[c] = {}
    BY <1>2 DEF Init_IPI, Others
  <2> QED
    BY <2>1, <2>2, AloneFrame
<1>3. CASE Symmetric
  BY <1>3, AloneFrame DEF Symmetric, apics, handler, history
<1>4. CASE Balance
  BY <1>4 DEF Balance, AloneInv
<1> QED
  BY <1>1, <1>2, <1>3, <1>4 DEF Shell

LEMMA AloneStep ==
    ASSUME TypeInv, OrderInv, StartInv, SwitchInv, AssignInv, AloneInv, clash = FALSE => RoutesInv,
           [Next]_vars
    PROVE  AloneInv'
<1>1. CASE UNCHANGED vars
  BY <1>1, AloneFrame DEF vars, manager, history, apics, handler
<1>2. ASSUME NEW q \in Irqs, Raise(q) PROVE AloneInv'
  BY <1>2, AloneRaise
<1>3. CASE Shell
  BY <1>3, AloneShell
<1>4. ASSUME NEW c \in Cores, Handle(c) PROVE AloneInv'
  BY <1>4, AloneHandle
<1>5. ASSUME NEW c \in Cores, CountMyself(c) \/ SetUp(c) PROVE AloneInv'
  <2>1. UNCHANGED <<vvqwCoreInterruptCount, clash, bUseLoadBalancing, irr, hpc, irq>>
    BY <1>5 DEF CountMyself, SetUp, manager, history, apics, handler
  <2> QED
    BY <2>1, AloneFrame
<1> QED
  BY <1>1, <1>2, <1>3, <1>4, <1>5 DEF Next

Known == TypeInv /\ OrderInv /\ StartInv /\ SwitchInv /\ AssignInv /\ AloneInv

-----------------------------------------------------------------------------
\* A device's interrupt is on its way

LEMMA LinesFrame ==
    ASSUME LinesInv, bSymmetricIOMode' = bSymmetricIOMode, lost \subseteq lost',
           \A q \in Irqs : line'[q] = TRUE =>
               line[q] = TRUE /\ \A c \in Cores : lapic[c] = TRUE /\ q \in irr[c] =>
                                                     lapic'[c] = TRUE /\ q \in irr'[c]
    PROVE  LinesInv'
<1>1. ASSUME bSymmetricIOMode = TRUE, NEW q \in Irqs, line'[q] = TRUE
      PROVE  q \in lost' \/ \E c \in Cores : lapic'[c] = TRUE /\ q \in irr'[c]
  <2>1. q \in lost \/ \E c \in Cores : lapic[c] = TRUE /\ q \in irr[c]
    BY <1>1 DEF LinesInv
  <2> QED
    BY <1>1, <2>1
<1> QED
  BY <1>1 DEF LinesInv

LEMMA LinesRaise == ASSUME Known, RoutesInv, NEW q \in Irqs, Raise(q) PROVE LinesInv'
<1>1. /\ UNCHANGED <<bSymmetricIOMode, lapic>> /\ lost \subseteq lost'
      /\ line' = [line EXCEPT ![q] = q # Timer]
  BY DEF Raise, manager
<1>2. ASSUME bSymmetricIOMode = TRUE, NEW p \in Irqs, line'[p] = TRUE
      PROVE  p \in lost' \/ \E c \in Cores : lapic'[c] = TRUE /\ p \in irr'[c]
  <2>1. /\ q # Timer => q \in lost' \/ \E c \in Cores : lapic[c] = TRUE /\ q \in irr'[c]
        /\ \A c \in Cores : irr[c] \subseteq irr'[c]
    BY <1>2, RaiseIs DEF Known
  <2>2. CASE p = q
    <3>1. q # Timer
      BY <1>1, <1>2, <2>2 DEF Known, TypeInv, Types, DeviceTypes
    <3> QED
      BY <1>1, <2>1, <2>2, <3>1
  <2>3. CASE p # q
    <3>1. line[p] = TRUE
      BY <1>1, <1>2, <2>3 DEF Known, TypeInv, Types, DeviceTypes
    <3>2. p \in lost \/ \E c \in Cores : lapic[c] = TRUE /\ p \in irr[c]
      BY <1>2, <3>1 DEF RoutesInv, LinesInv
    <3> QED
      BY <1>1, <2>1, <3>2
  <2> QED
    BY <2>2, <2>3
<1> QED
  BY <1>1, <1>2 DEF LinesInv

LEMMA LinesHandle == ASSUME TypeInv, LinesInv, NEW c \in Cores, Handle(c) PROVE LinesInv'
<1>1. line \in [Irqs -> BOOLEAN] /\ irr \in [Cores -> SUBSET Irqs]
  BY DEF TypeInv, Types, DeviceTypes
<1>2. ASSUME NEW q \in Irqs, AcceptFromPIC(q) PROVE LinesInv'
  <2>1. UNCHANGED <<bSymmetricIOMode, lost, lapic, irr>> /\ line' = [line EXCEPT ![q] = FALSE]
    BY <1>2 DEF AcceptFromPIC, Enter, manager, apics, history
  <2>2. \A p \in Irqs : line'[p] = TRUE => line[p] = TRUE
    BY <1>1, <2>1
  <2> QED
    BY <2>1, <2>2, LinesFrame
<1>3. ASSUME NEW q \in Irqs, AcceptFromAPIC(c, q) PROVE LinesInv'
  <2>1. /\ UNCHANGED <<bSymmetricIOMode, lost, lapic>> /\ line' = [line EXCEPT ![q] = FALSE]
        /\ irr' = [irr EXCEPT ![c] = @ \ {q}]
    BY <1>3 DEF AcceptFromAPIC, Enter, manager, history
  <2>2. \A p \in Irqs : line'[p] = TRUE => line[p] = TRUE /\ p # q
    BY <1>1, <2>1
  <2>3. \A p \in Irqs, d \in Cores : p # q /\ p \in irr[d] => p \in irr'[d]
    BY <1>1, <2>1
  <2> QED
    BY <2>1, <2>2, <2>3, LinesFrame
<1>4. CASE EOI(c) \/ Count(c) \/ Choose(c) \/ Select(c) \/ Read(c) \/ WriteHigh(c) \/ WriteLow(c)
  <2>1. UNCHANGED <<bSymmetricIOMode, lost, lapic, irr, line>>
    BY <1>4 DEF EOI, Count, Choose, Select, Read, WriteHigh, WriteLow, manager, history, apics, devices
  <2> QED
    BY <2>1, LinesFrame
<1> QED
  BY <1>2, <1>3, <1>4 DEF Handle

LEMMA LinesShell == ASSUME Known, LinesInv, Shell PROVE LinesInv'
<1>1. CASE Type \/ Clear \/ Find \/ Scan \/ StartUp_IPI \/ NotDelivered \/ WaitForAll
           \/ Assign \/ Assigned
  <2>1. UNCHANGED <<bSymmetricIOMode, lost, lapic, irr, line>>
    BY <1>1 DEF Type, Clear, Find, Scan, StartUp_IPI, NotDelivered, WaitForAll,
       Assign, Assigned, manager, history, apics, devices
  <2> QED
    BY <2>1, LinesFrame
<1>2. CASE Balance
  <2>1. UNCHANGED <<bSymmetricIOMode, lost, lapic, irr, line>>
    BY <1>2 DEF Balance, apics, devices
  <2> QED
    BY <2>1, LinesFrame
<1>3. CASE MaskPIC \/ Enable \/ Init_IPI
  <2>1. bSymmetricIOMode' = bSymmetricIOMode /\ pc \in {"mask", "enable", "init"}
    BY <1>3 DEF MaskPIC, Enable, Init_IPI, manager
  <2>2. bSymmetricIOMode = FALSE
    BY <2>1, NotYet DEF Known
  <2> QED
    BY <2>1, <2>2 DEF LinesInv
<1>4. CASE Symmetric
  <2>1. pc = "symmetric" /\ UNCHANGED <<line, lost>>
    BY <1>4 DEF Symmetric, devices, history
  <2>2. bSymmetricIOMode = FALSE
    BY <2>1, NotYet DEF Known
  <2>3. \A q \in Irqs : line[q] = TRUE => q \in lost
    BY <2>1, <2>2 DEF Known, SwitchInv
  <2> QED
    BY <2>1, <2>3 DEF LinesInv
<1> QED
  BY <1>1, <1>2, <1>3, <1>4 DEF Shell

LEMMA LinesCore == ASSUME Known, LinesInv, NEW c \in Cores, CountMyself(c) \/ SetUp(c) PROVE LinesInv'
<1>1. bSymmetricIOMode' = bSymmetricIOMode /\ stage[c] \in {"starting", "counted"}
  BY DEF CountMyself, SetUp, manager
<1>2. bSymmetricIOMode # TRUE
  BY <1>1 DEF Known, OrderInv, Steady
<1> QED
  BY <1>1, <1>2 DEF LinesInv

-----------------------------------------------------------------------------
\* The entries lead to one core each

LEMMA RouteFrameInv ==
    ASSUME RouteInv, UNCHANGED <<regs, bSymmetricIOMode, bUseLoadBalancing>>,
           bSymmetricIOMode = TRUE => pc # "assign" \/ pc' = "assign"
    PROVE  RouteInv'
  BY DEF RouteInv, High, Low

\* The window of a handler that is alone
LEMMA WindowIs ==
    ASSUME TypeInv, NEW c \in Cores, HandlerOK(c), hpc[c] \in Windows
    PROVE  /\ irq[c] \in Irqs /\ irq[c] # Timer
           /\ Selected = <<Apic, Pin(irq[c]), HalfOf(hpc[c])>> /\ Selected \in Registers
<1>1. select = <<Pin(irq[c]), HalfOf(hpc[c])>> /\ irq[c] # Timer
  BY DEF HandlerOK
<1>2. irq[c] \in Irqs
  BY DEF TypeInv, Types, HandlerTypes
<1>3. Selected = <<Apic, select[1], select[2]>> /\ Selected \in Registers
  BY SelectedIs
<1> QED
  BY <1>1, <1>2, <1>3

LEMMA RouteWriteHigh ==
    ASSUME TypeInv, RouteInv, NEW c \in Cores, HandlerOK(c), WriteHigh(c)
    PROVE  /\ RouteInv' /\ irq[c] \in Irqs \ {Timer}
           /\ High(regs', irq[c]).top = target[c]
           /\ \A q \in Irqs : q # irq[c] => High(regs', q) = High(regs, q)
<1>1. /\ hpc[c] = "writeHigh" /\ UNCHANGED <<bSymmetricIOMode, bUseLoadBalancing, pc>>
      /\ regs' = [regs EXCEPT ![Selected] = [copy[c]["high"] EXCEPT !.top = target[c]]]
      /\ regs \in [Registers -> Register] /\ copy[c]["high"] \in Register /\ target[c] \in Cores
  BY HalvesAre DEF WriteHigh, manager, shell, TypeInv, Types, RouteTypes, HandlerTypes
<1>2. PICK q : q = irq[c]
  OBVIOUS
<1>3. q \in Irqs /\ q # Timer /\ Selected = <<Apic, Pin(q), "high">> /\ Selected \in Registers
  BY <1>1, <1>2, WindowIs DEF Windows, HalfOf
<1>4. bUseLoadBalancing = TRUE
  BY <1>1, Balancing
<1>5. High(regs', q).top = target[c]
  BY <1>1, <1>3 DEF High, Register
<1>6. ASSUME NEW p \in Irqs PROVE Low(regs', p) = Low(regs, p)
  BY <1>1, <1>3, RegistersAre, HalvesAre DEF Low
<1>7. ASSUME NEW p \in Irqs, p # q PROVE High(regs', p) = High(regs, p)
  <2>1. Pin(p) # Pin(q)
    BY <1>3, <1>7, PinsDiffer
  <2> QED
    BY <1>1, <1>3, <2>1, RegistersAre, HalvesAre DEF High
<1>8. RouteInv'
  <2> SUFFICES ASSUME bSymmetricIOMode = TRUE, pc # "assign", NEW p \in Irqs
               PROVE  /\ Low(regs', p) = DWord(0, p, FALSE)
                      /\ IF p = Timer THEN High(regs', p).top = Starter(p)
                         ELSE High(regs', p).top \in Cores
    BY <1>1, <1>4 DEF RouteInv
  <2>1. /\ Low(regs, p) = DWord(0, p, FALSE)
        /\ IF p = Timer THEN High(regs, p).top = Starter(p) ELSE High(regs, p).top \in Cores
    BY <1>4 DEF RouteInv
  <2>2. CASE p = q
    BY <1>1, <1>3, <1>5, <1>6, <2>1, <2>2
  <2>3. CASE p # q
    BY <1>6, <1>7, <2>1, <2>3
  <2> QED
    BY <2>2, <2>3
<1> QED
  BY <1>2, <1>3, <1>5, <1>7, <1>8

LEMMA RouteWriteLow ==
    ASSUME TypeInv, RouteInv, NEW c \in Cores, HandlerOK(c), WriteLow(c)
    PROVE  /\ RouteInv' /\ \A q \in Irqs : High(regs', q) = High(regs, q)
<1>1. /\ hpc[c] = "writeLow" /\ UNCHANGED <<bSymmetricIOMode, bUseLoadBalancing, pc>>
      /\ regs' = [regs EXCEPT ![Selected] = copy[c]["low"]]
      /\ regs \in [Registers -> Register]
  BY DEF WriteLow, manager, shell, TypeInv, Types, RouteTypes
<1>2. PICK q : q = irq[c]
  OBVIOUS
<1>3. q \in Irqs /\ Selected = <<Apic, Pin(q), "low">> /\ Selected \in Registers
  BY <1>1, <1>2, WindowIs DEF Windows, HalfOf
<1>4. copy[c]["low"] = DWord(0, q, FALSE)
  BY <1>1, <1>2 DEF HandlerOK
<1>5. Low(regs', q) = DWord(0, q, FALSE)
  BY <1>1, <1>3, <1>4 DEF Low
<1>6. ASSUME NEW p \in Irqs PROVE High(regs', p) = High(regs, p)
  BY <1>1, <1>3, RegistersAre, HalvesAre DEF High
<1>7. ASSUME NEW p \in Irqs, p # q PROVE Low(regs', p) = Low(regs, p)
  <2>1. Pin(p) # Pin(q)
    BY <1>3, <1>7, PinsDiffer
  <2> QED
    BY <1>1, <1>3, <2>1, RegistersAre, HalvesAre DEF Low
<1>8. RouteInv'
  <2> SUFFICES ASSUME bSymmetricIOMode = TRUE, pc # "assign", NEW p \in Irqs
               PROVE  /\ Low(regs', p) = DWord(0, p, FALSE)
                      /\ IF p = Timer \/ bUseLoadBalancing = FALSE THEN High(regs', p).top = Starter(p)
                         ELSE High(regs', p).top \in Cores
    BY <1>1 DEF RouteInv
  <2>1. /\ Low(regs, p) = DWord(0, p, FALSE)
        /\ IF p = Timer \/ bUseLoadBalancing = FALSE THEN High(regs, p).top = Starter(p)
           ELSE High(regs, p).top \in Cores
    BY DEF RouteInv
  <2> QED
    BY <1>5, <1>6, <1>7, <2>1
<1> QED
  BY <1>6, <1>8

LEMMA RouteHandle ==
    ASSUME TypeInv, RoutesInv, NEW c \in Cores, Handle(c) PROVE RouteInv'
<1>1. CASE WriteHigh(c)
  BY <1>1, RouteWriteHigh DEF RoutesInv
<1>2. CASE WriteLow(c)
  BY <1>2, RouteWriteLow DEF RoutesInv
<1>3. CASE ~WriteHigh(c) /\ ~WriteLow(c)
  <2>1. UNCHANGED <<regs, bSymmetricIOMode, bUseLoadBalancing, pc>>
    BY <1>3 DEF Handle, AcceptFromPIC, AcceptFromAPIC, EOI, Count, Choose, Select, Read, shell,
       ioapic, manager
  <2> QED
    BY <2>1, RouteFrameInv DEF RoutesInv
<1> QED
  BY <1>1, <1>2, <1>3

LEMMA RouteShell == ASSUME Known, RouteInv, Shell PROVE RouteInv'
<1>1. CASE Type \/ Clear \/ Find \/ Scan \/ MaskPIC \/ Enable \/ Init_IPI \/ StartUp_IPI
           \/ NotDelivered \/ WaitForAll
  <2>1. UNCHANGED <<regs, bSymmetricIOMode, bUseLoadBalancing>> /\ pc # "assign"
    BY <1>1 DEF Type, Clear, Find, Scan, MaskPIC, Enable, Init_IPI, StartUp_IPI, NotDelivered,
       WaitForAll, ioapic, manager
  <2> QED
    BY <2>1, RouteFrameInv
<1>2. CASE Symmetric \/ Assign
  <2>1. pc' = "assign"
    BY <1>2 DEF Symmetric, Assign, Goto
  <2> QED
    BY <2>1 DEF RouteInv
<1>3. CASE Assigned
  <2>1. /\ UNCHANGED <<regs, bSymmetricIOMode, bUseLoadBalancing>> /\ pc = "assign"
        /\ i > Len(Entries) /\ i \in Nat
    BY <1>3 DEF Assigned, ioapic, manager, Known, TypeInv, Types, ShellTypes
  <2>2. bUseLoadBalancing = FALSE
    <3>1. bUseLoadBalancing # TRUE
      BY <2>1 DEF Known, TypeInv, PlanInv
    <3> QED
      BY <3>1, StageIs, CoresAre DEF Known
  <2>3. ASSUME NEW q \in Irqs
        PROVE  Low(regs, q) = DWord(0, q, FALSE) /\ High(regs, q).top = Starter(q)
    <3>1. Wire[q] < i
      BY <2>1, WireIs, TableFinite
    <3> QED
      BY <2>1, <3>1 DEF Known, AssignInv
  <2> QED
    BY <2>1, <2>2, <2>3 DEF RouteInv
<1>4. CASE Balance
  <2>1. /\ UNCHANGED <<regs, bSymmetricIOMode>> /\ bUseLoadBalancing' = TRUE /\ pc = "balance"
    BY <1>4 DEF Balance, ioapic
  <2>2. ASSUME bSymmetricIOMode = TRUE, NEW q \in Irqs
        PROVE  /\ Low(regs, q) = DWord(0, q, FALSE)
               /\ IF q = Timer THEN High(regs, q).top = Starter(q) ELSE High(regs, q).top \in Cores
    BY <2>1, <2>2, CoresAre DEF RouteInv, Starter
  <2> QED
    BY <2>1, <2>2 DEF RouteInv
<1> QED
  BY <1>1, <1>2, <1>3, <1>4 DEF Shell

-----------------------------------------------------------------------------
\* The handlers in kRoutingIRQToAPICID

HandlersOK == \A c \in Cores : HandlerOK(c)

LEMMA PointsAre ==
    /\ \A p \in {"none", "eoi", "count"} : p \notin Selects \cup Windows
    /\ "choose" \notin Selects \cup Windows
    /\ \A p \in Windows : p \notin Selects
  BY DEF Selects, Windows

\* Handlers go on or are given up, and the selector stays for those in a window.
LEMMA HandlersFrame ==
    ASSUME HandlersOK,
           \A c \in Cores : \/ hpc'[c] = hpc[c] /\ irq'[c] = irq[c] /\ copy'[c] = copy[c]
                            \/ hpc'[c] \in {"none", "eoi", "count"},
           (\E c \in Cores : hpc'[c] \in Windows) => select' = select
    PROVE  HandlersOK'
<1> SUFFICES ASSUME NEW c \in Cores PROVE HandlerOK(c)'
  BY DEF HandlersOK
<1>1. \A d \in Cores : hpc'[d] \in Windows => hpc[d] \in Windows
  BY PointsAre
<1>2. CASE hpc'[c] \in {"none", "eoi", "count"}
  BY <1>2 DEF HandlerOK, Selects, Windows
<1>3. CASE hpc'[c] = hpc[c] /\ irq'[c] = irq[c] /\ copy'[c] = copy[c]
  <2>1. HandlerOK(c)
    BY DEF HandlersOK
  <2>2. hpc'[c] \in Windows =>
            /\ select' = <<Pin(irq'[c]), HalfOf(hpc'[c])>>
            /\ \A d \in Cores \ {c} : hpc'[d] \notin Windows
    BY <1>1, <1>3, <2>1 DEF HandlerOK
  <2>3. /\ hpc'[c] \in {"reselectHigh", "writeHigh", "reselectLow", "writeLow"} =>
                copy'[c]["low"] = DWord(0, irq'[c], FALSE)
        /\ hpc'[c] \in {"choose"} \cup Selects \cup Windows => irq'[c] # Timer
    BY <1>3, <2>1 DEF HandlerOK
  <2> QED
    BY <2>2, <2>3 DEF HandlerOK
<1> QED
  BY <1>2, <1>3

LEMMA HandlersBegin ==
    ASSUME TypeInv, HandlersOK, NEW c \in Cores,
           (\E q \in Irqs : AcceptFromPIC(q) /\ c = 0) \/ (\E q \in Irqs : AcceptFromAPIC(c, q))
           \/ EOI(c)
    PROVE  HandlersOK'
<1>1. /\ select' = select /\ copy' = copy
      /\ hpc' = [hpc EXCEPT ![c] = "eoi"] \/ hpc' = [hpc EXCEPT ![c] = "count"]
      /\ irq' = irq \/ \E q \in Irqs : irq' = [irq EXCEPT ![c] = q]
  BY DEF AcceptFromPIC, AcceptFromAPIC, EOI, Enter, ioapic
<1>2. \A d \in Cores \ {c} : hpc'[d] = hpc[d] /\ irq'[d] = irq[d]
  BY <1>1 DEF TypeInv, Types, HandlerTypes
<1>3. hpc'[c] \in {"eoi", "count"}
  BY <1>1 DEF TypeInv, Types, HandlerTypes
<1> QED
  BY <1>1, <1>2, <1>3, HandlersFrame

LEMMA HandlersCount == ASSUME TypeInv, HandlersOK, NEW c \in Cores, Count(c) PROVE HandlersOK'
<1>1. select' = select /\ HandlerTypes
  BY DEF Count, ioapic, TypeInv, Types
<1>2. CASE Return(c)
  <2>1. hpc'[c] = "none" /\ \A d \in Cores \ {c} : hpc'[d] = hpc[d] /\ irq'[d] = irq[d] /\ copy'[d] = copy[d]
    BY <1>1, <1>2, ReturnIs
  <2> QED
    BY <1>1, <2>1, HandlersFrame
<1>3. CASE irq[c] # Timer /\ hpc' = [hpc EXCEPT ![c] = "choose"] /\ UNCHANGED <<irq, copy>>
  <2>1. hpc'[c] = "choose" /\ \A d \in Cores \ {c} : hpc'[d] = hpc[d]
    BY <1>1, <1>3 DEF HandlerTypes
  <2>2. ASSUME NEW d \in Cores PROVE HandlerOK(d)'
    <3>1. HandlerOK(d)
      BY DEF HandlersOK
    <3>2. CASE d = c
      BY <1>3, <2>1, <3>2 DEF HandlerOK, Windows
    <3>3. CASE d # c
      <4>1. \A e \in Cores : hpc'[e] \in Windows => hpc[e] \in Windows
        BY <2>1, PointsAre
      <4>2. hpc'[d] = hpc[d]
        BY <2>1, <3>3
      <4> QED
        BY <1>1, <1>3, <3>1, <4>1, <4>2 DEF HandlerOK
    <3> QED
      BY <3>2, <3>3
  <2> QED
    BY <2>2 DEF HandlersOK
<1> QED
  BY <1>2, <1>3 DEF Count

\* One step of kRoutingIRQToAPICID or before it
LEMMA HandlersGo ==
    ASSUME TypeInv, HandlersOK, NEW c \in Cores, irq' = irq,
           hpc' \in [Cores -> Points], \A d \in Cores \ {c} : hpc'[d] = hpc[d] /\ copy'[d] = copy[d],
           hpc[c] \in {"choose"} \cup Selects \cup Windows,
           \/ hpc'[c] \in Selects /\ select' = select
           \/ /\ hpc'[c] \in Windows /\ select' = <<Pin(irq[c]), HalfOf(hpc'[c])>>
              /\ \A d \in Cores \ {c} : hpc[d] \notin Windows,
           hpc'[c] \in {"reselectHigh", "writeHigh", "reselectLow", "writeLow"} =>
               copy'[c]["low"] = DWord(0, irq[c], FALSE)
    PROVE  HandlersOK'
<1> SUFFICES ASSUME NEW d \in Cores PROVE HandlerOK(d)'
  BY DEF HandlersOK
<1>1. HandlerOK(d) /\ HandlerOK(c)
  BY DEF HandlersOK
<1>2. irq[c] # Timer
  BY <1>1 DEF HandlerOK
<1>3. CASE d = c
  <2>1. hpc'[c] \in Windows => /\ select' = <<Pin(irq'[c]), HalfOf(hpc'[c])>>
                               /\ \A e \in Cores \ {c} : hpc'[e] \notin Windows
    BY PointsAre
  <2> QED
    BY <1>2, <1>3, <2>1 DEF HandlerOK
<1>4. CASE d # c
  <2>1. hpc'[d] = hpc[d] /\ copy'[d] = copy[d] /\ irq'[d] = irq[d]
    BY <1>4
  <2>2. ASSUME hpc[d] \in Windows
        PROVE  /\ select' = <<Pin(irq[d]), HalfOf(hpc[d])>>
               /\ \A e \in Cores \ {d} : hpc'[e] \notin Windows
    <3>1. hpc'[c] \in Selects /\ select' = select
      BY <1>4, <2>2
    <3>2. select = <<Pin(irq[d]), HalfOf(hpc[d])>> /\ \A e \in Cores \ {d} : hpc[e] \notin Windows
      BY <1>1, <2>2 DEF HandlerOK
    <3>3. hpc'[c] \notin Windows
      BY <3>1, PointsAre
    <3> QED
      BY <3>1, <3>2, <3>3
  <2> QED
    BY <1>1, <2>1, <2>2 DEF HandlerOK
<1> QED
  BY <1>3, <1>4

LEMMA HandlersChoose == ASSUME TypeInv, HandlersOK, NEW c \in Cores, Choose(c) PROVE HandlersOK'
<1>1. /\ hpc[c] = "choose" /\ hpc' = [hpc EXCEPT ![c] = "selectHigh"]
      /\ UNCHANGED <<irq, copy, select>>
  BY DEF Choose, ioapic
<1>2. /\ hpc' \in [Cores -> Points] /\ hpc'[c] = "selectHigh"
      /\ \A d \in Cores \ {c} : hpc'[d] = hpc[d] /\ copy'[d] = copy[d]
  BY <1>1 DEF TypeInv, Types, HandlerTypes, Points, Selects
<1> QED
  BY <1>1, <1>2, HandlersGo DEF Selects

LEMMA HandlersSelect ==
    ASSUME TypeInv, HandlersOK, NEW c \in Cores, Select(c), clash' = FALSE PROVE HandlersOK'
<1>1. /\ hpc[c] \in Selects /\ UNCHANGED <<irq, copy>> /\ HandlerTypes /\ Step(c) /\ irq[c] \in Irqs
      /\ select' = <<map[irq[c]], HalfOf(hpc[c])>>
      /\ \A d \in Cores \ {c} : hpc[d] \notin Windows
  BY DEF Select, TypeInv, Types, HandlerTypes
<1>2. map[irq[c]] = Pin(irq[c])
  BY <1>1, Balancing DEF Selects
<1>3. /\ hpc' \in [Cores -> Points] /\ hpc'[c] = Following[hpc[c]] /\ hpc'[c] \in Windows
      /\ \A d \in Cores \ {c} : hpc'[d] = hpc[d]
  BY <1>1, StepIs DEF Selects
<1>4. HalfOf(hpc'[c]) = HalfOf(hpc[c])
  BY <1>1, <1>3, FollowingIs DEF HalfOf, Selects
<1>5. hpc'[c] \in {"reselectHigh", "writeHigh", "reselectLow", "writeLow"} =>
          hpc[c] \in {"reselectHigh", "reselectLow"}
  BY <1>1, <1>3, FollowingIs DEF Selects
<1>6. HandlerOK(c)
  BY DEF HandlersOK
<1>7. hpc'[c] \in {"reselectHigh", "writeHigh", "reselectLow", "writeLow"} =>
          copy'[c]["low"] = DWord(0, irq[c], FALSE)
  BY <1>1, <1>5, <1>6 DEF HandlerOK
<1>8. select' = <<Pin(irq[c]), HalfOf(hpc'[c])>>
  BY <1>1, <1>2, <1>4
<1> QED
  BY <1>1, <1>3, <1>7, <1>8, HandlersGo

LEMMA HandlersRead ==
    ASSUME TypeInv, HandlersOK, RouteInv, NEW c \in Cores, Read(c) PROVE HandlersOK'
<1>1. /\ hpc[c] \in {"readHigh", "readLow"} /\ UNCHANGED <<irq, select>> /\ HandlerTypes /\ Step(c)
      /\ copy' = [copy EXCEPT ![c][HalfOf(hpc[c])] = regs[Selected]]
  BY DEF Read, TypeInv, Types, ioapic
<1>2. /\ hpc' \in [Cores -> Points] /\ hpc'[c] = Following[hpc[c]] /\ hpc'[c] \in Selects
      /\ \A d \in Cores \ {c} : hpc'[d] = hpc[d]
  BY <1>1, StepIs DEF Windows
<1>3. HandlerOK(c)
  BY DEF HandlersOK
<1>4. \A d \in Cores \ {c} : copy'[d] = copy[d]
  BY <1>1 DEF HandlerTypes
<1>5. ASSUME hpc'[c] \in {"reselectHigh", "writeHigh", "reselectLow", "writeLow"}
      PROVE  copy'[c]["low"] = DWord(0, irq[c], FALSE)
  <2>1. hpc[c] = "readLow"
    BY <1>1, <1>2, <1>5, FollowingIs
  <2>2. irq[c] \in Irqs /\ Selected = <<Apic, Pin(irq[c]), "low">>
    BY <1>3, <2>1, WindowIs DEF Windows, HalfOf
  <2>3. bSymmetricIOMode = TRUE /\ pc # "assign"
    BY <2>1, Balancing
  <2>4. regs[Selected] = DWord(0, irq[c], FALSE)
    BY <2>2, <2>3 DEF RouteInv, Low
  <2>5. copy'[c]["low"] = regs[Selected]
    BY <1>1, <2>1, HalvesAre DEF HandlerTypes, HalfOf
  <2> QED
    BY <2>4, <2>5
<1>6. hpc[c] \in {"choose"} \cup Selects \cup Windows
  BY <1>1 DEF Windows
<1> QED
  BY <1>1, <1>2, <1>4, <1>5, <1>6, HandlersGo

LEMMA HandlersWriteHigh == ASSUME TypeInv, HandlersOK, NEW c \in Cores, WriteHigh(c) PROVE HandlersOK'
<1>1. /\ hpc[c] = "writeHigh" /\ UNCHANGED <<irq, copy, select>> /\ HandlerTypes /\ Step(c)
  BY DEF WriteHigh, TypeInv, Types
<1>2. /\ hpc' \in [Cores -> Points] /\ hpc'[c] \in Selects
      /\ \A d \in Cores \ {c} : hpc'[d] = hpc[d]
  BY <1>1, StepIs DEF Windows
<1>3. HandlerOK(c)
  BY DEF HandlersOK
<1>4. copy'[c]["low"] = DWord(0, irq[c], FALSE)
  BY <1>1, <1>3 DEF HandlerOK
<1>5. hpc[c] \in {"choose"} \cup Selects \cup Windows
  BY <1>1 DEF Windows
<1> QED
  BY <1>1, <1>2, <1>4, <1>5, HandlersGo

LEMMA HandlersWriteLow == ASSUME TypeInv, HandlersOK, NEW c \in Cores, WriteLow(c) PROVE HandlersOK'
<1>1. select' = select /\ HandlerTypes /\ Return(c)
  BY DEF WriteLow, TypeInv, Types
<1>2. /\ hpc'[c] = "none"
      /\ \A d \in Cores \ {c} : hpc'[d] = hpc[d] /\ irq'[d] = irq[d] /\ copy'[d] = copy[d]
  BY <1>1, ReturnIs
<1> QED
  BY <1>1, <1>2, HandlersFrame

LEMMA HandlersShell == ASSUME TypeInv, HandlersOK, Shell PROVE HandlersOK'
<1>1. CASE Type \/ Clear \/ Find \/ Scan \/ MaskPIC \/ Enable \/ StartUp_IPI
           \/ NotDelivered \/ WaitForAll \/ Symmetric \/ Assigned \/ Balance
  <2>1. UNCHANGED <<hpc, irq, copy, select>>
    BY <1>1 DEF Type, Clear, Find, Scan, MaskPIC, Enable, StartUp_IPI, NotDelivered,
       WaitForAll, Symmetric, Assigned, Balance, ioapic, handler
  <2> QED
    BY <2>1, HandlersFrame
<1>2. CASE Init_IPI
  <2>1. select' = select
    BY <1>2 DEF Init_IPI, ioapic
  <2>2. ASSUME NEW c \in Cores
        PROVE  \/ hpc'[c] = hpc[c] /\ irq'[c] = irq[c] /\ copy'[c] = copy[c]
               \/ hpc'[c] = "none"
    BY <1>2 DEF Init_IPI
  <2> QED
    BY <2>1, <2>2, HandlersFrame
<1>3. CASE Assign
  <2>1. hpc' = hpc /\ pc = "assign"
    BY <1>3 DEF Assign, handler
  <2>2. \A c \in Cores : hpc'[c] \in {"none", "eoi", "count"}
    BY <2>1, Balancing
  <2> QED
    BY <2>2, PointsAre, HandlersFrame
<1> QED
  BY <1>1, <1>2, <1>3 DEF Shell

LEMMA HandlersHandle ==
    ASSUME TypeInv, HandlersOK, RouteInv, NEW c \in Cores, Handle(c), clash' = FALSE
    PROVE  HandlersOK'
  BY HandlersBegin, HandlersCount, HandlersChoose, HandlersSelect, HandlersRead,
     HandlersWriteHigh, HandlersWriteLow DEF Handle

-----------------------------------------------------------------------------
\* Interrupts stay on their way until two cores are in the window at once.
LEMMA RoutesInit == Init => RoutesInv
<1> SUFFICES ASSUME Init PROVE RoutesInv
  OBVIOUS
<1>1. LinesInv /\ RouteInv
  BY DEF Init, LinesInv, RouteInv
<1>2. \A c \in Cores : hpc[c] = "none"
  BY DEF Init
<1>3. \A c \in Cores : HandlerOK(c)
  BY <1>2, PointsAre DEF HandlerOK
<1> QED
  BY <1>1, <1>3 DEF RoutesInv

LEMMA ClashStays == ASSUME TypeInv, [Next]_vars, clash' = FALSE PROVE clash = FALSE
<1>1. clash \in BOOLEAN
  BY DEF TypeInv, Types, HandlerTypes
<1>2. ASSUME NEW q \in Irqs, Raise(q) PROVE clash' = clash
  BY <1>2 DEF Raise
<1>3. CASE Shell
  BY <1>3 DEF Shell, Type, Clear, Find, Scan, MaskPIC, Enable, Init_IPI, StartUp_IPI, NotDelivered,
     WaitForAll, Symmetric, Assign, Assigned, Balance, history
<1>4. ASSUME NEW c \in Cores, Handle(c) PROVE clash = FALSE
  <2>1. CASE Select(c)
    BY <1>1, <2>1 DEF Select
  <2>2. CASE ~Select(c)
    BY <1>4, <2>2 DEF Handle, AcceptFromPIC, AcceptFromAPIC, EOI, Count, Choose, Read, WriteHigh,
       WriteLow, history
  <2> QED
    BY <2>1, <2>2
<1>5. ASSUME NEW c \in Cores, CountMyself(c) \/ SetUp(c) PROVE clash' = clash
  BY <1>5 DEF CountMyself, SetUp, history
<1>6. CASE UNCHANGED vars
  BY <1>6 DEF vars, history
<1> QED
  BY <1>2, <1>3, <1>4, <1>5, <1>6 DEF Next

LEMMA RoutesStep ==
    ASSUME Known, RoutesInv, [Next]_vars, clash' = FALSE PROVE RoutesInv'
<1>1. TypeInv /\ LinesInv /\ RouteInv /\ HandlersOK
  BY DEF Known, RoutesInv, HandlersOK
<1>2. CASE UNCHANGED vars
  <2>1. UNCHANGED <<bSymmetricIOMode, bUseLoadBalancing, lost, lapic, irr, line, regs, pc, hpc, irq,
                    copy, select>>
    BY <1>2 DEF vars, manager, history, apics, devices, shell, handler, ioapic
  <2>2. LinesInv' /\ RouteInv' /\ HandlersOK'
    BY <1>1, <2>1, LinesFrame, RouteFrameInv, HandlersFrame
  <2> QED
    BY <2>2 DEF RoutesInv, HandlersOK
<1>3. ASSUME NEW q \in Irqs, Raise(q) PROVE RoutesInv'
  <2>1. UNCHANGED <<bSymmetricIOMode, bUseLoadBalancing, regs, pc, hpc, irq, copy, select>>
    BY <1>3 DEF Raise, manager, shell, handler, ioapic
  <2>2. LinesInv' /\ RouteInv' /\ HandlersOK'
    BY <1>1, <1>3, <2>1, LinesRaise, RouteFrameInv, HandlersFrame
  <2> QED
    BY <2>2 DEF RoutesInv, HandlersOK
<1>4. CASE Shell
  <2>1. LinesInv' /\ RouteInv' /\ HandlersOK'
    BY <1>1, <1>4, LinesShell, RouteShell, HandlersShell
  <2> QED
    BY <2>1 DEF RoutesInv, HandlersOK
<1>5. ASSUME NEW c \in Cores, Handle(c) PROVE RoutesInv'
  <2>1. LinesInv' /\ RouteInv' /\ HandlersOK'
    BY <1>1, <1>5, LinesHandle, RouteHandle, HandlersHandle
  <2> QED
    BY <2>1 DEF RoutesInv, HandlersOK
<1>6. ASSUME NEW c \in Cores, CountMyself(c) \/ SetUp(c) PROVE RoutesInv'
  <2>1. UNCHANGED <<bSymmetricIOMode, bUseLoadBalancing, regs, pc, hpc, irq, copy, select>>
    BY <1>6 DEF CountMyself, SetUp, manager, shell, handler, ioapic
  <2>2. LinesInv' /\ RouteInv' /\ HandlersOK'
    BY <1>1, <1>6, <2>1, LinesCore, RouteFrameInv, HandlersFrame
  <2> QED
    BY <2>2 DEF RoutesInv, HandlersOK
<1> QED
  BY <1>2, <1>3, <1>4, <1>5, <1>6 DEF Next

-----------------------------------------------------------------------------
\* The cores' shares

LEMMA NumbersAre ==
    ASSUME TypeInv, NEW q \in Irqs
    PROVE  /\ \A c \in Cores : Number(q, c) \in Nat /\ Floor(Number(q, c)) \in Nat
           /\ level[q] \in Nat /\ Divisor \in Nat /\ Divisor >= 1
<1>1. \A c \in Cores : Number(q, c) \in Nat
  BY DEF Number, TypeInv, Types, HandlerTypes
<1> QED
  BY <1>1, FloorIs, NumberAssumption DEF TypeInv, Types, HandlerTypes

LEMMA ShareKeeps ==
    ASSUME NEW q \in Irqs, NEW c \in Cores, TypeInv, TypeInv', ShareOK(q, c),
           \A d \in Cores : Number(q, d) <= Number(q, d)',
           Floor(Number(q, c)') = Floor(Number(q, c)), level'[q] = level[q],
           Goes(q, c)' <=> Goes(q, c), Deciding(q, c)' <=> Deciding(q, c),
           Deciding(q, c) =>
                /\ target'[c] = target[c] /\ (hpc'[c] # "choose" => hpc[c] # "choose")
                /\ Floor(vvqwCoreInterruptCount'[target[c]][q]) = Floor(Number(q, target[c]))
                /\ Number(q, c)' = Number(q, c),
           ~Goes(q, c) /\ Rest(q, c) => Rest(q, c)'
    PROVE  ShareOK(q, c)'
<1>1. /\ \A d \in Cores : Number(q, d) \in Nat /\ Number(q, d)' \in Nat /\ Floor(Number(q, d)) \in Nat
      /\ level[q] \in Nat /\ Divisor \in Nat /\ target[c] \in Cores
  <2>1. \A d \in Cores : Number(q, d)' \in Nat
    BY DEF Number, TypeInv, Types, HandlerTypes
  <2> QED
    BY <2>1, NumbersAre DEF TypeInv, Types, HandlerTypes
<1>2. ASSUME Deciding(q, c)' PROVE Decider(q, c)'
  <2>1. Decider(q, c) /\ Deciding(q, c)
    BY <1>2 DEF ShareOK
  <2>2. Goes(q, c)' /\ Number(q, c)' % Divisor = 0
    BY <2>1 DEF Decider
  <2>3. ASSUME hpc'[c] # "choose", NEW d \in Cores
        PROVE  Floor(vvqwCoreInterruptCount'[target'[c]][q]) <= Number(q, d)'
    <3>1. PICK t : t = target[c]
      OBVIOUS
    <3>2. Floor(Number(q, t)) <= Number(q, d)
      BY <2>1, <2>3, <3>1 DEF Decider
    <3>3. Floor(vvqwCoreInterruptCount'[t][q]) = Floor(Number(q, t)) /\ target'[c] = t /\ t \in Cores
      BY <1>1, <2>1, <3>1
    <3>4. Number(q, d)' \in Nat /\ Number(q, d) \in Nat /\ Number(q, d) <= Number(q, d)'
          /\ Floor(Number(q, t)) \in Nat
      BY <1>1, <3>3
    <3> QED
      BY <3>2, <3>3, <3>4
  <2>4. hpc'[c] # "choose" => \A d \in Cores : Floor(vvqwCoreInterruptCount'[target'[c]][q]) <= Number(q, d)'
    BY <2>3
  <2> QED
    BY <2>2, <2>4 DEF Decider, Number
<1>3. ASSUME ~Goes(q, c)' PROVE Rest(q, c)'
  BY <1>3 DEF ShareOK
<1>4. ASSUME Goes(q, c)', ~Deciding(q, c)'
      PROVE  \/ \A d \in Cores : Floor(Number(q, c)') <= Number(q, d)'
             \/ Floor(Number(q, c)') + Divisor <= level'[q]
  <2>1. \/ \A d \in Cores : Floor(Number(q, c)) <= Number(q, d)
        \/ Floor(Number(q, c)) + Divisor <= level[q]
    BY <1>4 DEF ShareOK
  <2> QED
    BY <1>1, <2>1
<1>5. \/ \A d \in Cores : Floor(Number(q, c)') <= Number(q, d)' + Divisor
      \/ Floor(Number(q, c)') <= level'[q]
  <2>1. \/ \A d \in Cores : Floor(Number(q, c)) <= Number(q, d) + Divisor
        \/ Floor(Number(q, c)) <= level[q]
    BY DEF ShareOK
  <2> QED
    BY <1>1, <2>1
<1> QED
  BY <1>2, <1>3, <1>4, <1>5 DEF ShareOK

\* The counts do not change.
LEMMA ShareFrame ==
    ASSUME TypeInv, TypeInv', ShareInv,
           UNCHANGED <<vvqwCoreInterruptCount, level, bUseLoadBalancing>>,
           \A q \in Irqs \ {Timer}, c \in Cores :
                /\ Goes(q, c)' <=> Goes(q, c)
                /\ Deciding(q, c)' <=> Deciding(q, c)
                /\ Deciding(q, c) =>
                      target'[c] = target[c] /\ (hpc'[c] # "choose" => hpc[c] # "choose")
                /\ ~Goes(q, c) /\ Rest(q, c) => Rest(q, c)'
    PROVE  ShareInv'
<1> SUFFICES ASSUME bUseLoadBalancing = TRUE, NEW q \in Irqs \ {Timer}
             PROVE  /\ level'[q] <= Floor(Number(q, 0)') + Divisor
                    /\ \A c \in Cores : ShareOK(q, c)'
  BY DEF ShareInv
<1>1. \A d \in Cores : Number(q, d)' = Number(q, d) /\ Number(q, d) \in Nat
  BY NumbersAre DEF Number
<1>2. level'[q] = level[q] /\ level[q] <= Floor(Number(q, 0)) + Divisor
  BY DEF ShareInv
<1>3. ASSUME NEW c \in Cores PROVE ShareOK(q, c)'
  <2>1. ShareOK(q, c) /\ target[c] \in Cores
    BY DEF ShareInv, TypeInv, Types, HandlerTypes
  <2>2. \A d \in Cores : Number(q, d) <= Number(q, d)'
    BY <1>1
  <2>3. Floor(Number(q, c)') = Floor(Number(q, c)) /\ Number(q, c)' = Number(q, c)
    BY <1>1
  <2>4. Floor(vvqwCoreInterruptCount'[target[c]][q]) = Floor(Number(q, target[c]))
    BY DEF Number
  <2> QED
    BY <1>2, <2>1, <2>2, <2>3, <2>4, ShareKeeps
<1> QED
  BY <1>1, <1>2, <1>3, CoresAre

LEMMA ShareQuiet ==
    ASSUME TypeInv, TypeInv', ShareInv,
           UNCHANGED <<vvqwCoreInterruptCount, level, bUseLoadBalancing, hpc, irq, target, regs, irr>>
    PROVE  ShareInv'
<1>1. ASSUME NEW q \in Irqs \ {Timer}, NEW c \in Cores
      PROVE  /\ Goes(q, c)' <=> Goes(q, c)
             /\ Deciding(q, c)' <=> Deciding(q, c)
             /\ Deciding(q, c) =>
                   target'[c] = target[c] /\ (hpc'[c] # "choose" => hpc[c] # "choose")
             /\ ~Goes(q, c) /\ Rest(q, c) => Rest(q, c)'
  BY DEF Goes, High, Deciding, Rest, Handling, Number
<1> QED
  BY <1>1, ShareFrame

\* An edge reaches the chosen core only.
LEMMA ShareRaise ==
    ASSUME Known, TypeInv', RoutesInv, ShareInv, NEW q \in Irqs, Raise(q) PROVE ShareInv'
<1>1. UNCHANGED <<vvqwCoreInterruptCount, level, bUseLoadBalancing, hpc, irq, target, regs>>
  BY DEF Raise, manager, handler, ioapic
<1>2. CASE bUseLoadBalancing = FALSE
  BY <1>1, <1>2 DEF ShareInv
<1>3. CASE bUseLoadBalancing = TRUE
  <2>1. bSymmetricIOMode = TRUE
    BY <1>3 DEF Known, TypeInv, PlanInv
  <2>2. ASSUME NEW p \in Irqs \ {Timer}, NEW c \in Cores, ~Goes(p, c), p \in irr'[c]
        PROVE  p \in irr[c]
    <3>1. p \in irr[c] \/ (p = q /\ Sent(q) /\ High(regs, q).top \in {c, All})
      BY <2>1, <2>2, RaiseIs DEF Known
    <3>2. p = q /\ Sent(q) => High(regs, q).top \in Cores
      BY DEF Sent
    <3> QED
      BY <2>2, <3>1, <3>2, CoresAre DEF Goes
  <2>3. ASSUME NEW p \in Irqs \ {Timer}, NEW c \in Cores
        PROVE  /\ Goes(p, c)' <=> Goes(p, c)
               /\ Deciding(p, c)' <=> Deciding(p, c)
               /\ Deciding(p, c) =>
                     target'[c] = target[c] /\ (hpc'[c] # "choose" => hpc[c] # "choose")
               /\ ~Goes(p, c) /\ Rest(p, c) => Rest(p, c)'
    BY <1>1, <2>2 DEF Goes, High, Deciding, Rest, Handling, Number
  <2> QED
    BY <1>1, <2>3, ShareFrame DEF Known
<1> QED
  BY <1>2, <1>3, StageIs, CoresAre DEF Known

LEMMA ShareAccept ==
    ASSUME Known, TypeInv', ShareInv, NEW c \in Cores, NEW q \in Irqs, AcceptFromAPIC(c, q)
    PROVE  ShareInv'
<1>1. /\ UNCHANGED <<vvqwCoreInterruptCount, level, bUseLoadBalancing, target, regs>>
      /\ hpc[c] = "none" /\ q \in irr[c] /\ irr' = [irr EXCEPT ![c] = @ \ {q}]
      /\ hpc' = [hpc EXCEPT ![c] = "eoi"] /\ irq' = [irq EXCEPT ![c] = q]
      /\ hpc \in [Cores -> Points] /\ irq \in [Cores -> Irqs] /\ irr \in [Cores -> SUBSET Irqs]
  BY DEF AcceptFromAPIC, Enter, Interruptible, manager, ioapic, history, Known, TypeInv, Types,
     HandlerTypes, DeviceTypes
<1>2. /\ hpc'[c] = "eoi" /\ irq'[c] = q /\ irr'[c] = irr[c] \ {q}
      /\ \A d \in Cores \ {c} : hpc'[d] = hpc[d] /\ irq'[d] = irq[d] /\ irr'[d] = irr[d]
  BY <1>1
<1>3. ASSUME NEW p \in Irqs \ {Timer}, NEW d \in Cores
      PROVE  /\ Goes(p, d)' <=> Goes(p, d)
             /\ Deciding(p, d)' <=> Deciding(p, d)
             /\ Deciding(p, d) =>
                   target'[d] = target[d] /\ (hpc'[d] # "choose" => hpc[d] # "choose")
             /\ ~Goes(p, d) /\ Rest(p, d) => Rest(p, d)'
  <2>1. Goes(p, d)' <=> Goes(p, d)
    BY <1>1 DEF Goes, High
  <2>2. CASE d # c
    BY <1>1, <1>2, <2>1, <2>2 DEF Deciding, Rest, Handling, Number
  <2>3. CASE d = c
    <3>1. ~Deciding(p, c) /\ ~Deciding(p, c)'
      BY <1>1, <1>2 DEF Deciding
    <3>2. Rest(p, c) => Rest(p, c)'
      BY <1>1, <1>2 DEF Rest, Handling, Number
    <3> QED
      BY <2>1, <2>3, <3>1, <3>2
  <2> QED
    BY <2>2, <2>3
<1> QED
  BY <1>1, <1>3, ShareFrame DEF Known

LEMMA ShareEOI == ASSUME TypeInv, TypeInv', ShareInv, NEW c \in Cores, EOI(c) PROVE ShareInv'
<1>1. /\ UNCHANGED <<vvqwCoreInterruptCount, level, bUseLoadBalancing, target, irq, regs, irr>>
      /\ hpc[c] = "eoi" /\ hpc' = [hpc EXCEPT ![c] = "count"] /\ hpc \in [Cores -> Points]
  BY DEF EOI, manager, ioapic, history, TypeInv, Types, HandlerTypes
<1>2. hpc'[c] = "count" /\ \A d \in Cores \ {c} : hpc'[d] = hpc[d]
  BY <1>1
<1>3. ASSUME NEW p \in Irqs \ {Timer}, NEW d \in Cores
      PROVE  /\ Goes(p, d)' <=> Goes(p, d)
             /\ Deciding(p, d)' <=> Deciding(p, d)
             /\ Deciding(p, d) =>
                   target'[d] = target[d] /\ (hpc'[d] # "choose" => hpc[d] # "choose")
             /\ ~Goes(p, d) /\ Rest(p, d) => Rest(p, d)'
  <2>1. Goes(p, d)' <=> Goes(p, d)
    BY <1>1 DEF Goes, High
  <2>2. CASE d # c
    BY <1>1, <1>2, <2>1, <2>2 DEF Deciding, Rest, Handling, Number
  <2>3. CASE d = c
    BY <1>1, <1>2, <2>1, <2>3 DEF Deciding, Rest, Handling, Number
  <2> QED
    BY <2>2, <2>3
<1> QED
  BY <1>1, <1>3, ShareFrame

\* A step between the decision and the writing of the upper half, or after it
LEMMA ShareGo ==
    ASSUME TypeInv, TypeInv', ShareInv, NEW c \in Cores,
           UNCHANGED <<vvqwCoreInterruptCount, level, bUseLoadBalancing, irr>>,
           \A q \in Irqs : High(regs', q) = High(regs, q),
           \A d \in Cores \ {c} : hpc'[d] = hpc[d] /\ irq'[d] = irq[d] /\ target'[d] = target[d],
           \/ /\ irq'[c] = irq[c] /\ target'[c] = target[c]
              /\ \/ /\ hpc[c] \in {"selectHigh", "readHigh", "selectLow", "readLow", "reselectHigh"}
                    /\ hpc'[c] \in {"readHigh", "selectLow", "readLow", "reselectHigh", "writeHigh"}
                 \/ hpc[c] = "reselectLow" /\ hpc'[c] = "writeLow"
           \/ hpc[c] = "writeLow" /\ hpc'[c] = "none"
    PROVE  ShareInv'
<1>1. ASSUME NEW p \in Irqs \ {Timer}, NEW d \in Cores
      PROVE  /\ Goes(p, d)' <=> Goes(p, d)
             /\ Deciding(p, d)' <=> Deciding(p, d)
             /\ Deciding(p, d) =>
                   target'[d] = target[d] /\ (hpc'[d] # "choose" => hpc[d] # "choose")
             /\ ~Goes(p, d) /\ Rest(p, d) => Rest(p, d)'
  <2>1. Goes(p, d)' <=> Goes(p, d)
    BY DEF Goes
  <2>2. CASE d # c
    BY <2>1, <2>2 DEF Deciding, Rest, Handling, Number
  <2>3. CASE d = c
    <3>1. /\ Deciding(p, c)' <=> Deciding(p, c)
          /\ Deciding(p, c) => target'[c] = target[c] /\ hpc[c] # "choose"
      BY DEF Deciding
    <3>2. Rest(p, c) => Rest(p, c)'
      BY DEF Rest, Handling, Number
    <3> QED
      BY <2>1, <2>3, <3>1, <3>2
  <2> QED
    BY <2>2, <2>3
<1> QED
  BY <1>1, ShareFrame

LEMMA ShareSelect ==
    ASSUME TypeInv, TypeInv', ShareInv, NEW c \in Cores, Select(c) \/ Read(c) PROVE ShareInv'
<1>1. /\ UNCHANGED <<vvqwCoreInterruptCount, level, bUseLoadBalancing, irr, regs, irq, target>>
      /\ hpc[c] \in Selects \cup {"readHigh", "readLow"} /\ Step(c) /\ HandlerTypes
  BY DEF Select, Read, manager, ioapic, history, apics, TypeInv, Types
<1>2. hpc'[c] = Following[hpc[c]] /\ \A d \in Cores \ {c} : hpc'[d] = hpc[d]
  BY <1>1, StepIs DEF Selects, Windows
<1>3. \/ /\ hpc[c] \in {"selectHigh", "readHigh", "selectLow", "readLow", "reselectHigh"}
         /\ hpc'[c] \in {"readHigh", "selectLow", "readLow", "reselectHigh", "writeHigh"}
      \/ hpc[c] = "reselectLow" /\ hpc'[c] = "writeLow"
  BY <1>1, <1>2, FollowingIs DEF Selects
<1> QED
  BY <1>1, <1>2, <1>3, ShareGo

LEMMA ShareWriteLow ==
    ASSUME TypeInv, TypeInv', RoutesInv, ShareInv, NEW c \in Cores, WriteLow(c) PROVE ShareInv'
<1>1. /\ UNCHANGED <<vvqwCoreInterruptCount, level, bUseLoadBalancing, irr>>
      /\ hpc[c] = "writeLow" /\ Return(c) /\ HandlerTypes
  BY DEF WriteLow, manager, history, apics, TypeInv, Types
<1>2. /\ hpc'[c] = "none"
      /\ \A d \in Cores \ {c} : hpc'[d] = hpc[d] /\ irq'[d] = irq[d] /\ target'[d] = target[d]
  BY <1>1, ReturnIs
<1>3. \A q \in Irqs : High(regs', q) = High(regs, q)
  BY RouteWriteLow DEF RoutesInv
<1> QED
  BY <1>1, <1>2, <1>3, ShareGo

\* The core that decides finds the one with the smallest count.
LEMMA ShareChoose ==
    ASSUME Known, TypeInv', ShareInv, NEW c \in Cores, Choose(c) PROVE ShareInv'
<1>1. TypeInv
  BY DEF Known
<1>2. /\ UNCHANGED <<vvqwCoreInterruptCount, level, bUseLoadBalancing, irr, regs, irq>>
      /\ hpc[c] = "choose" /\ hpc' = [hpc EXCEPT ![c] = "selectHigh"]
      /\ target' = [target EXCEPT ![c] = LeastCore(irq[c])]
      /\ hpc \in [Cores -> Points] /\ irq \in [Cores -> Irqs] /\ target \in [Cores -> Cores]
      /\ vvqwCoreInterruptCount \in [Cores -> [Irqs -> Nat]]
      /\ iProcessorCount \in 0 .. Cardinality(Enabled)
  BY <1>1 DEF Choose, manager, ioapic, history, apics, TypeInv, Types, HandlerTypes, ShellTypes
<1>3. PICK p, t : p = irq[c] /\ t = LeastCore(irq[c])
  OBVIOUS
<1>4. /\ hpc'[c] = "selectHigh" /\ target'[c] = t /\ p \in Irqs
      /\ \A d \in Cores \ {c} : hpc'[d] = hpc[d] /\ target'[d] = target[d]
  BY <1>2, <1>3
<1>5. iProcessorCount = Cardinality(Enabled) /\ bUseLoadBalancing = TRUE
  BY <1>1, <1>2, Balancing DEF Known, OrderInv
<1>6. t \in Cores /\ \A d \in Cores : Number(p, t) <= Number(p, d)
  BY <1>2, <1>3, <1>4, <1>5, LeastCoreIs
<1> SUFFICES ASSUME NEW q \in Irqs \ {Timer}
             PROVE  /\ level'[q] <= Floor(Number(q, 0)') + Divisor
                    /\ \A d \in Cores : ShareOK(q, d)'
  BY DEF ShareInv
<1>7. \A d \in Cores : Number(q, d)' = Number(q, d) /\ Number(q, d) \in Nat
  BY <1>1, <1>2, NumbersAre DEF Number
<1>8. level'[q] = level[q] /\ level[q] <= Floor(Number(q, 0)) + Divisor
  BY <1>2, <1>5 DEF ShareInv
<1>9. ASSUME NEW d \in Cores PROVE ShareOK(q, d)'
  <2>1. ShareOK(q, d) /\ target[d] \in Cores
    BY <1>2, <1>5 DEF ShareInv
  <2>2. /\ Goes(q, d)' <=> Goes(q, d)
        /\ Rest(q, d) => Rest(q, d)'
        /\ Deciding(q, d)' <=> Deciding(q, d)
    <3>1. CASE d = c
      BY <1>2, <1>4, <3>1 DEF Goes, High, Rest, Handling, Number, Deciding
    <3>2. CASE d # c
      BY <1>2, <1>4, <3>2 DEF Goes, High, Rest, Handling, Number, Deciding
    <3> QED
      BY <3>1, <3>2
  <2>3. CASE Deciding(q, d) => d # c
    <3>1. Deciding(q, d) => target'[d] = target[d] /\ (hpc'[d] # "choose" => hpc[d] # "choose")
      BY <1>4, <2>3
    <3>2. \A e \in Cores : Number(q, e) <= Number(q, e)'
      BY <1>7
    <3>3. Floor(Number(q, d)') = Floor(Number(q, d)) /\ Number(q, d)' = Number(q, d)
      BY <1>7
    <3>4. Floor(vvqwCoreInterruptCount'[target[d]][q]) = Floor(Number(q, target[d]))
      BY <1>2 DEF Number
    <3> QED
      BY <1>1, <1>8, <2>1, <2>2, <3>1, <3>2, <3>3, <3>4, ShareKeeps
  <2>4. CASE Deciding(q, d) /\ d = c
    <3>1. q = p
      BY <1>3, <2>4 DEF Deciding
    <3>2. Goes(q, c) /\ Number(q, c) % Divisor = 0
      BY <2>1, <2>4 DEF ShareOK, Decider
    <3>3. ASSUME NEW e \in Cores PROVE Floor(Number(q, t)) <= Number(q, e)
      <4>1. Number(q, t) <= Number(q, e) /\ Number(q, t) \in Nat /\ Number(q, e) \in Nat
        BY <1>6, <1>7, <3>1
      <4>2. Floor(Number(q, t)) <= Number(q, t) /\ Floor(Number(q, t)) \in Nat
        BY <4>1, FloorIs
      <4> QED
        BY <4>1, <4>2
    <3>4. Decider(q, c)'
      <4>1. Goes(q, c)' /\ Number(q, c)' % Divisor = 0
        BY <1>7, <2>2, <2>4, <3>2
      <4>2. \A e \in Cores : Floor(vvqwCoreInterruptCount'[target'[c]][q]) <= Number(q, e)'
        BY <1>2, <1>4, <1>7, <3>3 DEF Number
      <4> QED
        BY <4>1, <4>2 DEF Decider, Number
    <3>5. \/ \A e \in Cores : Floor(Number(q, c)') <= Number(q, e)' + Divisor
          \/ Floor(Number(q, c)') <= level'[q]
      BY <1>7, <1>8, <2>1, <2>4 DEF ShareOK
    <3> QED
      BY <2>2, <2>4, <3>2, <3>4, <3>5 DEF ShareOK
  <2> QED
    BY <2>3, <2>4
<1> QED
  BY <1>7, <1>8, <1>9, CoresAre

\* The entry leads to the core that was chosen.
LEMMA ShareWriteHigh ==
    ASSUME Known, TypeInv', RoutesInv, ShareInv, NEW c \in Cores, WriteHigh(c) PROVE ShareInv'
<1>1. TypeInv
  BY DEF Known
<1>2. /\ UNCHANGED <<vvqwCoreInterruptCount, level, bUseLoadBalancing, irr, irq, target>>
      /\ hpc[c] = "writeHigh" /\ Step(c) /\ HandlerTypes
  BY <1>1 DEF WriteHigh, manager, history, apics, TypeInv, Types
<1>3. hpc'[c] = "reselectLow" /\ \A d \in Cores \ {c} : hpc'[d] = hpc[d]
  BY <1>2, StepIs, FollowingIs DEF Windows
<1>4. bUseLoadBalancing = TRUE
  BY <1>1, <1>2, Balancing
<1>5. PICK p, t : p = irq[c] /\ t = target[c]
  OBVIOUS
<1>6. /\ p \in Irqs \ {Timer} /\ High(regs', p).top = t /\ t \in Cores
      /\ \A q \in Irqs : q # p => High(regs', q) = High(regs, q)
  BY <1>1, <1>2, <1>5, RouteWriteHigh DEF RoutesInv, HandlerTypes
<1> SUFFICES ASSUME NEW q \in Irqs \ {Timer}
             PROVE  /\ level'[q] <= Floor(Number(q, 0)') + Divisor
                    /\ \A d \in Cores : ShareOK(q, d)'
  BY DEF ShareInv
<1>7. \A d \in Cores : Number(q, d)' = Number(q, d) /\ Number(q, d) \in Nat
  BY <1>1, <1>2, NumbersAre DEF Number
<1>8. level'[q] = level[q] /\ level[q] <= Floor(Number(q, 0)) + Divisor
  BY <1>2, <1>4 DEF ShareInv
<1>9. ASSUME NEW d \in Cores PROVE ShareOK(q, d)'
  <2>1. ShareOK(q, d) /\ ShareOK(q, c)
    BY <1>4 DEF ShareInv
  <2>2. Rest(q, d) => Rest(q, d)'
    <3>1. CASE d = c
      BY <1>2, <1>3, <3>1 DEF Rest, Handling, Number
    <3>2. CASE d # c
      BY <1>2, <1>3, <3>2 DEF Rest, Handling, Number
    <3> QED
      BY <3>1, <3>2
  <2>3. CASE q # p
    <3>1. Goes(q, d)' <=> Goes(q, d)
      BY <1>6, <2>3 DEF Goes
    <3>2. Deciding(q, d)' <=> Deciding(q, d)
      <4>1. CASE d = c
        BY <1>2, <1>3, <1>5, <2>3, <4>1 DEF Deciding
      <4>2. CASE d # c
        BY <1>2, <1>3, <4>2 DEF Deciding
      <4> QED
        BY <4>1, <4>2
    <3>3. Deciding(q, d) => target'[d] = target[d] /\ (hpc'[d] # "choose" => hpc[d] # "choose")
      <4>1. Deciding(q, d) => d # c
        BY <1>5, <2>3 DEF Deciding
      <4> QED
        BY <1>2, <1>3, <4>1
    <3>4. \A e \in Cores : Number(q, e) <= Number(q, e)'
      BY <1>7
    <3>5. Floor(Number(q, d)') = Floor(Number(q, d)) /\ Number(q, d)' = Number(q, d)
      BY <1>7
    <3>6. Floor(vvqwCoreInterruptCount'[target[d]][q]) = Floor(Number(q, target[d]))
      BY <1>2 DEF Number
    <3> QED
      BY <1>1, <1>8, <2>1, <2>2, <3>1, <3>2, <3>3, <3>4, <3>5, <3>6, ShareKeeps
  <2>4. CASE q = p
    <3>1. Deciding(q, c)
      BY <1>2, <1>5, <2>4 DEF Deciding
    <3>2. Decider(q, c)
      BY <2>1, <3>1 DEF ShareOK
    <3>3. Goes(q, c) /\ Number(q, c) % Divisor = 0
          /\ \A e \in Cores : Floor(Number(q, t)) <= Number(q, e)
      BY <1>2, <1>5, <3>2 DEF Decider
    <3>4. ~Deciding(q, d)'
      <4>1. CASE d = c
        BY <1>3, <4>1 DEF Deciding
      <4>2. CASE d # c
        <5>1. ~Goes(q, d)
          BY <3>3, <4>2 DEF Goes
        <5>2. ~Deciding(q, d)
          BY <2>1, <5>1 DEF ShareOK, Decider
        <5> QED
          BY <1>2, <1>3, <4>2, <5>2 DEF Deciding
      <4> QED
        BY <4>1, <4>2
    <3>5. Rest(q, d)'  \/ d = t
      <4>1. CASE d = c
        <5>1. ~Handling(q, c)'
          BY <1>3 DEF Handling
        <5>2. Number(q, c)' % Divisor = 0
          BY <1>7, <3>3
        <5> QED
          BY <4>1, <5>1, <5>2 DEF Rest
      <4>2. CASE d # c
        <5>1. ~Goes(q, d)
          BY <3>3, <4>2 DEF Goes
        <5> QED
          BY <2>1, <2>2, <5>1 DEF ShareOK
      <4> QED
        BY <4>1, <4>2
    <3>6. Goes(q, d)' <=> d = t
      BY <1>6, <2>4 DEF Goes
    <3>7. d = t => \A e \in Cores : Floor(Number(q, d)') <= Number(q, e)'
      BY <1>7, <3>3
    <3>8. \/ \A e \in Cores : Floor(Number(q, d)') <= Number(q, e)' + Divisor
          \/ Floor(Number(q, d)') <= level'[q]
      BY <1>7, <1>8, <2>1 DEF ShareOK
    <3> QED
      BY <3>4, <3>5, <3>6, <3>7, <3>8 DEF ShareOK
  <2> QED
    BY <2>3, <2>4
<1> QED
  BY <1>7, <1>8, <1>9, CoresAre

\* One interrupt more is counted for another IRQ or below the next multiple.
LEMMA ShareCount ==
    ASSUME Known, TypeInv', ShareInv, Divisor > 1, NEW c \in Cores, Count(c) PROVE ShareInv'
<1>1. TypeInv
  BY DEF Known
<1>2. /\ UNCHANGED <<level, bUseLoadBalancing, irr, regs>>
      /\ hpc[c] = "count" /\ HandlerTypes /\ irq[c] \in Irqs
      /\ vvqwCoreInterruptCount' = [vvqwCoreInterruptCount EXCEPT ![c][irq[c]] = @ + 1]
  BY <1>1 DEF Count, IncreaseInterruptCount, ioapic, history, apics, TypeInv, Types, HandlerTypes
<1> SUFFICES ASSUME bUseLoadBalancing = TRUE, NEW q \in Irqs \ {Timer}
             PROVE  /\ level'[q] <= Floor(Number(q, 0)') + Divisor
                    /\ \A d \in Cores : ShareOK(q, d)'
  BY <1>2 DEF ShareInv
<1>3. /\ \A d \in Cores : Number(q, d) \in Nat /\ Floor(Number(q, d)) \in Nat
      /\ level[q] \in Nat /\ Divisor \in Nat /\ level'[q] = level[q]
      /\ level[q] <= Floor(Number(q, 0)) + Divisor /\ 0 \in Cores
  BY <1>1, <1>2, NumbersAre, CoresAre DEF ShareInv
<1>4. PICK p : p = irq[c]
  OBVIOUS
<1>5. \A d \in Cores : Number(q, d)' = IF d = c /\ p = q THEN Number(q, d) + 1 ELSE Number(q, d)
  BY <1>2, <1>4 DEF HandlerTypes, Number
<1>6. \A d \in Cores : Number(q, d) <= Number(q, d)' /\ Number(q, d)' \in Nat
  BY <1>3, <1>5
<1>7. \A d \in Cores : ShareOK(q, d) /\ target[d] \in Cores
  BY <1>2 DEF ShareInv, HandlerTypes
<1>8. \/ /\ hpc' = [hpc EXCEPT ![c] = "choose"] /\ UNCHANGED <<irq, copy, target>>
         /\ p # Timer /\ vvqwCoreInterruptCount'[c][p] % Divisor = 0
      \/ /\ Return(c)
         /\ p # Timer => ~(vvqwCoreInterruptCount'[c][p] % Divisor = 0)
  BY <1>4 DEF Count
<1>9. \A d \in Cores \ {c} : hpc'[d] = hpc[d] /\ irq'[d] = irq[d] /\ target'[d] = target[d]
  <2>1. CASE Return(c)
    BY <1>2, <2>1, ReturnIs
  <2>2. CASE hpc' = [hpc EXCEPT ![c] = "choose"] /\ UNCHANGED <<irq, copy, target>>
    BY <1>2, <2>2 DEF HandlerTypes
  <2> QED
    BY <1>8, <2>1, <2>2
<1>10. \A d \in Cores : Goes(q, d)' <=> Goes(q, d)
  BY <1>2 DEF Goes, High
\* what is the same for a core whose multiple is
<1>11. ASSUME NEW d \in Cores, Floor(Number(q, d)') = Floor(Number(q, d)),
              Deciding(q, d)' <=> Deciding(q, d),
              Deciding(q, d) => d # c /\ Number(q, d)' = Number(q, d)
                                /\ Floor(Number(q, target[d])) = Floor(vvqwCoreInterruptCount'[target[d]][q]),
              ~Goes(q, d) /\ Rest(q, d) => Rest(q, d)'
       PROVE  ShareOK(q, d)'
  <2>1. Deciding(q, d) =>
            /\ target'[d] = target[d] /\ (hpc'[d] # "choose" => hpc[d] # "choose")
            /\ Floor(vvqwCoreInterruptCount'[target[d]][q]) = Floor(Number(q, target[d]))
            /\ Number(q, d)' = Number(q, d)
    BY <1>9, <1>11
  <2> QED
    BY <1>1, <1>3, <1>6, <1>7, <1>10, <1>11, <2>1, ShareKeeps
<1>12. ASSUME NEW d \in Cores, d # c
       PROVE  /\ Number(q, d)' = Number(q, d) /\ (Deciding(q, d)' <=> Deciding(q, d))
              /\ Rest(q, d) => Rest(q, d)'
  <2>1. Number(q, d)' = Number(q, d)
    BY <1>5, <1>12
  <2> QED
    BY <1>2, <1>9, <1>12, <2>1 DEF Deciding, Rest, Handling
<1>13. CASE p # q
  <2>1. \A d \in Cores : Number(q, d)' = Number(q, d)
    BY <1>5, <1>13
  <2>2. irq'[c] # q
    <3>1. Timer # q /\ irq[c] # q
      BY <1>4, <1>13
    <3>2. irq'[c] = irq[c] \/ irq'[c] = Timer
      BY <1>2, <1>8 DEF Return, HandlerTypes
    <3> QED
      BY <3>1, <3>2
  <2>3. ~Deciding(q, c) /\ ~Deciding(q, c)' /\ (Rest(q, c) => Rest(q, c)')
    <3>1. ~Handling(q, c) /\ ~Handling(q, c)'
      BY <1>4, <1>13, <2>2 DEF Handling
    <3>2. ~Deciding(q, c) /\ ~Deciding(q, c)'
      BY <1>4, <1>13, <2>2 DEF Deciding
    <3> QED
      BY <1>2, <2>1, <3>1, <3>2 DEF Rest
  <2>4. ASSUME NEW d \in Cores PROVE ShareOK(q, d)'
    <3>1. Deciding(q, d) => d # c
      BY <2>3
    <3>2. Floor(Number(q, d)') = Floor(Number(q, d)) /\ Number(q, d)' = Number(q, d)
      BY <2>1
    <3>3. Floor(Number(q, target[d])) = Floor(vvqwCoreInterruptCount'[target[d]][q])
      BY <1>7, <2>1 DEF Number
    <3>4. (Deciding(q, d)' <=> Deciding(q, d)) /\ (Rest(q, d) => Rest(q, d)')
      BY <1>12, <2>3
    <3> QED
      BY <1>11, <3>1, <3>2, <3>3, <3>4
  <2> QED
    BY <1>3, <2>1, <2>4
<1>14. CASE p = q
  <2>1. PICK n, m : n = Number(q, c) /\ m = n + 1
    OBVIOUS
  <2>2. n \in Nat /\ m \in Nat /\ Number(q, c)' = m /\ vvqwCoreInterruptCount'[c][p] = m
    <3>1. n \in Nat /\ Number(q, c)' = m
      BY <1>3, <1>5, <1>14, <2>1
    <3> QED
      BY <1>14, <2>1, <3>1 DEF Number
  <2>3. Handling(q, c) /\ ~Deciding(q, c)
    BY <1>2, <1>4, <1>14 DEF Handling, Deciding
  <2>4. p # Timer
    BY <1>14
  <2>5. /\ m % Divisor = 0 => Floor(m) = Floor(n) + Divisor
        /\ m % Divisor # 0 => Floor(m) = Floor(n) /\ m % Divisor = (n % Divisor) + 1
        /\ n % Divisor = 0 => m % Divisor = 1
    BY <2>1, <2>2, FloorNext
  <2>6. level'[q] <= Floor(Number(q, 0)') + Divisor
    <3>1. CASE c = 0
      <4>1. Floor(m) >= Floor(n) /\ Floor(m) \in Nat
        <5>1. Floor(n) \in Nat /\ Floor(m) \in Nat
          BY <2>2, FloorIs
        <5>2. Floor(m) = Floor(n) + Divisor \/ Floor(m) = Floor(n)
          BY <2>5
        <5> QED
          BY <1>3, <5>1, <5>2
      <4> QED
        BY <1>3, <2>1, <2>2, <3>1, <4>1
    <3>2. CASE c # 0
      BY <1>3, <1>12, <3>2
    <3> QED
      BY <3>1, <3>2
  <2>7. CASE m % Divisor = 0
    <3>1. hpc' = [hpc EXCEPT ![c] = "choose"] /\ irq' = irq
      BY <1>8, <2>2, <2>4, <2>7
    <3>2. Goes(q, c)
      BY <1>7, <2>1, <2>3, <2>5, <2>7 DEF ShareOK, Rest
    <3>3. Deciding(q, c)' /\ hpc'[c] = "choose"
      BY <1>2, <1>4, <1>14, <3>1 DEF Deciding, HandlerTypes
    <3>4. Decider(q, c)'
      BY <1>10, <2>2, <2>7, <3>2, <3>3 DEF Decider
    <3>5. \/ \A e \in Cores : Floor(Number(q, c)') <= Number(q, e)' + Divisor
          \/ Floor(Number(q, c)') <= level'[q]
      <4>1. \/ \A e \in Cores : Floor(n) <= Number(q, e)
            \/ Floor(n) + Divisor <= level[q]
        BY <1>7, <2>1, <2>3, <3>2 DEF ShareOK
      <4>2. Floor(Number(q, c)') = Floor(n) + Divisor /\ Floor(n) \in Nat
        BY <1>3, <2>1, <2>2, <2>5, <2>7
      <4> QED
        BY <1>3, <1>6, <4>1, <4>2
    <3>6. ShareOK(q, c)'
      BY <1>10, <3>2, <3>3, <3>4, <3>5 DEF ShareOK
    <3>7. ASSUME NEW d \in Cores, d # c PROVE ShareOK(q, d)'
      <4>1. ~Goes(q, d)
        BY <3>2, <3>7 DEF Goes
      <4>2. ~Deciding(q, d)
        BY <1>7, <4>1 DEF ShareOK, Decider
      <4>3. Number(q, d)' = Number(q, d)
        BY <1>12, <3>7
      <4> QED
        BY <1>11, <1>12, <3>7, <4>2, <4>3
    <3> QED
      BY <2>6, <3>6, <3>7
  <2>8. CASE m % Divisor # 0
    <3>1. Return(c)
      BY <1>8, <2>2, <2>4, <2>8
    <3>2. hpc'[c] = "none"
      BY <1>2, <3>1, ReturnIs
    <3>3. ~Deciding(q, c)' /\ ~Handling(q, c)'
      BY <3>2 DEF Deciding, Handling
    <3>4. \A e \in Cores : Floor(Number(q, e)') = Floor(Number(q, e))
      BY <1>12, <2>1, <2>2, <2>5, <2>8
    <3>5. Rest(q, c) => Rest(q, c)'
      <4>1. ASSUME Rest(q, c) PROVE q \notin irr[c] /\ n % Divisor = 0
        BY <2>1, <2>3, <4>1 DEF Rest
      <4>2. ASSUME Rest(q, c) PROVE q \notin irr'[c] /\ Number(q, c)' % Divisor = 1
        BY <1>2, <2>2, <2>5, <4>1, <4>2
      <4> QED
        BY <3>3, <4>2 DEF Rest
    <3>6. ShareOK(q, c)'
      BY <1>11, <2>3, <3>3, <3>4, <3>5
    <3>7. ASSUME NEW d \in Cores, d # c PROVE ShareOK(q, d)'
      <4>1. Number(q, d)' = Number(q, d)
        BY <1>12, <3>7
      <4>2. Floor(Number(q, target[d])) = Floor(vvqwCoreInterruptCount'[target[d]][q])
        <5>1. PICK t \in Cores : t = target[d]
          BY <1>7
        <5>2. Floor(Number(q, t)) = Floor(vvqwCoreInterruptCount'[t][q])
          BY <3>4 DEF Number
        <5> QED
          BY <5>1, <5>2
      <4> QED
        BY <1>11, <1>12, <3>4, <3>7, <4>1, <4>2
    <3> QED
      BY <2>6, <3>6, <3>7
  <2> QED
    BY <2>7, <2>8
<1> QED
  BY <1>13, <1>14

\* Balancing begins with the bootstrap processor's lead, or begins again.
LEMMA ShareBalance ==
    ASSUME Known, TypeInv', RoutesInv, ShareInv, Balance PROVE ShareInv'
<1>1. TypeInv /\ AloneInv /\ RouteInv
  BY DEF Known, RoutesInv
<1>2. /\ UNCHANGED <<vvqwCoreInterruptCount, hpc, irq, target, regs, irr>>
      /\ level' = [q \in Irqs |-> Divisor * (vvqwCoreInterruptCount[0][q] \div Divisor + 1)]
      /\ bUseLoadBalancing' = TRUE /\ pc = "balance" /\ pc' = "prompt"
  BY DEF Balance, Finish, Goto, handler, ioapic, apics
<1> SUFFICES ASSUME NEW q \in Irqs \ {Timer}
             PROVE  /\ level'[q] <= Floor(Number(q, 0)') + Divisor
                    /\ \A d \in Cores : ShareOK(q, d)'
  BY DEF ShareInv
<1>3. /\ \A d \in Cores : Number(q, d) \in Nat /\ Floor(Number(q, d)) \in Nat /\ Number(q, d)' = Number(q, d)
      /\ level[q] \in Nat /\ Divisor \in Nat /\ 0 \in Cores
  BY <1>1, <1>2, NumbersAre, CoresAre DEF Number
<1>4. level'[q] = Floor(Number(q, 0)) + Divisor
  <2>1. level'[q] = Divisor * (Number(q, 0) \div Divisor + 1)
    BY <1>2 DEF Number
  <2> QED
    BY <1>3, <2>1, LevelIs
<1>5. ASSUME NEW d \in Cores
      PROVE  /\ Goes(q, d)' <=> Goes(q, d)
             /\ Deciding(q, d)' <=> Deciding(q, d)
             /\ Rest(q, d)' <=> Rest(q, d)
             /\ Decider(q, d)' <=> Decider(q, d)
  BY <1>2 DEF Goes, High, Deciding, Rest, Handling, Number, Decider
<1>6. CASE bUseLoadBalancing = TRUE
  <2>1. level[q] <= level'[q]
    BY <1>4, <1>6 DEF ShareInv
  <2>2. ASSUME NEW d \in Cores PROVE ShareOK(q, d)'
    <3>1. ShareOK(q, d)
      BY <1>6 DEF ShareInv
    <3>2. level'[q] \in Nat
      BY <1>3, <1>4
    <3>3. /\ Deciding(q, d)' => Decider(q, d)'
          /\ ~Goes(q, d)' => Rest(q, d)'
      BY <1>5, <3>1 DEF ShareOK
    <3>4. Goes(q, d)' /\ ~Deciding(q, d)' =>
              \/ \A e \in Cores : Floor(Number(q, d)') <= Number(q, e)'
              \/ Floor(Number(q, d)') + Divisor <= level'[q]
      BY <1>3, <1>5, <2>1, <3>1, <3>2 DEF ShareOK
    <3>5. \/ \A e \in Cores : Floor(Number(q, d)') <= Number(q, e)' + Divisor
          \/ Floor(Number(q, d)') <= level'[q]
      BY <1>3, <2>1, <3>1, <3>2 DEF ShareOK
    <3> QED
      BY <3>3, <3>4, <3>5 DEF ShareOK
  <2> QED
    BY <1>3, <1>4, <2>2
<1>7. CASE bUseLoadBalancing = FALSE
  <2>1. bSymmetricIOMode = TRUE
    <3>1. bUseLoadBalancing' = TRUE => bSymmetricIOMode' = TRUE
      BY DEF TypeInv, PlanInv
    <3> QED
      BY <1>2, <3>1 DEF Balance
  <2>2. High(regs, q).top = 0
    BY <1>2, <1>7, <2>1, <1>1 DEF RouteInv, Starter
  <2>3. ASSUME NEW d \in Cores PROVE ShareOK(q, d)'
    <3>1. ~Deciding(q, d)
      <4>1. hpc[d] \in {"none", "eoi", "count"}
        BY <1>1, <1>7 DEF TypeInv, MapInv
      <4> QED
        BY <4>1 DEF Deciding
    <3>2. CASE d = 0
      <4>1. Goes(q, d)
        BY <2>2, <3>2 DEF Goes
      <4> QED
        BY <1>3, <1>4, <1>5, <3>1, <3>2, <4>1 DEF ShareOK
    <3>3. CASE d # 0
      <4>1. q \notin irr[d] /\ Number(q, d) = 0 /\ (hpc[d] # "none" => irq[d] # q)
        BY <1>1, <1>7, <3>3 DEF AloneInv, Others, Number
      <4>2. Rest(q, d) /\ Floor(Number(q, d)) = 0
        BY <4>1, FloorZero DEF Rest, Handling
      <4>3. ~Goes(q, d)
        BY <2>2, <3>3 DEF Goes
      <4> QED
        BY <1>3, <1>5, <3>1, <4>2, <4>3 DEF ShareOK
    <3> QED
      BY <3>2, <3>3
  <2> QED
    BY <1>3, <1>4, <2>3
<1> QED
  BY <1>1, <1>6, <1>7, StageIs, CoresAre

LEMMA ShareShell == ASSUME Known, TypeInv', RoutesInv, ShareInv, Shell PROVE ShareInv'
<1>1. CASE Type \/ Clear \/ Find \/ Scan \/ MaskPIC \/ Enable \/ StartUp_IPI \/ NotDelivered
           \/ WaitForAll \/ Assign \/ Assigned
  <2>1. CASE Assign
    <3>1. pc = "assign" /\ bUseLoadBalancing' = bUseLoadBalancing
      BY <2>1 DEF Assign, manager
    <3>2. bUseLoadBalancing # TRUE
      BY <3>1 DEF Known, TypeInv, PlanInv
    <3> QED
      BY <3>1, <3>2 DEF ShareInv
  <2>2. CASE ~Assign
    <3>1. UNCHANGED <<vvqwCoreInterruptCount, level, bUseLoadBalancing, hpc, irq, target, regs, irr>>
      BY <1>1, <2>2 DEF Type, Clear, Find, Scan, MaskPIC, Enable, StartUp_IPI, NotDelivered,
         WaitForAll, Assigned, manager, history, handler, ioapic, apics
    <3> QED
      BY <3>1, ShareQuiet DEF Known
  <2> QED
    BY <2>1, <2>2
<1>2. CASE Init_IPI \/ Symmetric
  <2>1. pc \in {"init", "symmetric"} /\ bUseLoadBalancing' = bUseLoadBalancing
    BY <1>2 DEF Init_IPI, Symmetric, manager
  <2>2. bUseLoadBalancing = FALSE
    BY <2>1, NotYet DEF Known
  <2> QED
    BY <2>1, <2>2 DEF ShareInv
<1>3. CASE Balance
  BY <1>3, ShareBalance
<1> QED
  BY <1>1, <1>2, <1>3 DEF Shell

LEMMA ShareHandle ==
    ASSUME Known, TypeInv', RoutesInv, ShareInv, Divisor > 1, NEW c \in Cores, Handle(c)
    PROVE  ShareInv'
<1>1. ASSUME NEW q \in Irqs, AcceptFromPIC(q) PROVE ShareInv'
  <2>1. picMask # TRUE /\ bUseLoadBalancing' = bUseLoadBalancing
    BY <1>1 DEF AcceptFromPIC, manager
  <2>2. bUseLoadBalancing # TRUE
    BY <2>1 DEF Known, TypeInv, PlanInv, SwitchInv
  <2> QED
    BY <2>1, <2>2 DEF ShareInv
<1> QED
  BY <1>1, ShareAccept, ShareEOI, ShareCount, ShareChoose, ShareSelect, ShareWriteHigh,
     ShareWriteLow DEF Handle, Known

LEMMA ShareStep ==
    ASSUME Known, TypeInv', RoutesInv, ShareInv, Divisor > 1, [Next]_vars PROVE ShareInv'
<1>1. CASE UNCHANGED vars
  BY <1>1, ShareQuiet DEF vars, manager, history, handler, ioapic, apics, Known
<1>2. ASSUME NEW q \in Irqs, Raise(q) PROVE ShareInv'
  BY <1>2, ShareRaise
<1>3. CASE Shell
  BY <1>3, ShareShell
<1>4. ASSUME NEW c \in Cores, Handle(c) PROVE ShareInv'
  BY <1>4, ShareHandle
<1>5. ASSUME NEW c \in Cores, CountMyself(c) \/ SetUp(c) PROVE ShareInv'
  BY <1>5, ShareQuiet DEF CountMyself, SetUp, manager, history, handler, ioapic, apics, Known
<1> QED
  BY <1>1, <1>2, <1>3, <1>4, <1>5 DEF Next

-----------------------------------------------------------------------------
LEMMA InductiveInit == ASSUME Orderly, Init PROVE IInv
<1>1. TypeInv /\ OrderInv /\ StartInv /\ SwitchInv /\ AloneInv /\ RoutesInv
  BY TypeInit, OrderInit, StartInit, SwitchInit, AloneInit, RoutesInit
<1>2. AssignInv /\ ShareInv
  BY DEF Init, AssignInv, ShareInv
<1> QED
  BY <1>1, <1>2 DEF IInv

LEMMA InductiveStep == ASSUME Orderly, IInv, [Next]_vars PROVE IInv'
<1>1. /\ TypeInv /\ OrderInv /\ StartInv /\ SwitchInv /\ AssignInv /\ AloneInv /\ Known
      /\ clash = FALSE => RoutesInv
      /\ clash = FALSE /\ Divisor > 1 => ShareInv
  BY DEF IInv, Known
<1>2. TypeInv' /\ OrderInv' /\ StartInv' /\ SwitchInv' /\ AssignInv' /\ AloneInv'
  BY <1>1, TypeStep, OrderStep, StartStep, SwitchStep, AssignStep, AloneStep
<1>3. clash' = FALSE => RoutesInv'
  BY <1>1, ClashStays, RoutesStep
<1>4. clash' = FALSE /\ Divisor > 1 => ShareInv'
  BY <1>1, <1>2, ClashStays, ShareStep
<1> QED
  BY <1>2, <1>3, <1>4 DEF IInv

LEMMA InductiveForgets == IInv => NothingForgotten
<1> SUFFICES ASSUME IInv, clash # TRUE, NEW q \in Irqs, line[q] = TRUE
             PROVE  q \in lost \/ OnItsWay(q)
  <2>1. IInv => line \in [Irqs -> BOOLEAN] /\ clash \in BOOLEAN
    BY DEF IInv, TypeInv, Types, DeviceTypes, HandlerTypes
  <2> QED
    BY <2>1 DEF NothingForgotten
<1>1. TypeInv /\ SwitchInv
  BY DEF IInv
<1>2. clash = FALSE /\ LinesInv
  BY <1>1, StageIs, CoresAre DEF IInv, RoutesInv
<1>3. CASE bSymmetricIOMode = TRUE
  BY <1>2, <1>3 DEF LinesInv, OnItsWay
<1>4. CASE bSymmetricIOMode = FALSE
  <2>1. CASE picMask = TRUE
    BY <1>1, <1>4, <2>1 DEF SwitchInv
  <2>2. CASE picMask = FALSE
    BY <1>1, <1>4, <2>2 DEF SwitchInv, OnItsWay
  <2> QED
    BY <1>1, <2>1, <2>2, StageIs, CoresAre
<1> QED
  BY <1>1, <1>3, <1>4, StageIs, CoresAre

LEMMA InductiveFair == ASSUME Divisor > 1 PROVE IInv => FairShare
<1> SUFFICES ASSUME IInv, bUseLoadBalancing = TRUE, clash = FALSE, NEW q \in Irqs \ {Timer},
                    NEW c \in Cores, NEW d \in Cores, Number(q, c) > level[q] + 1
             PROVE  Number(q, c) <= Number(q, d) + Divisor + 1
  <2>1. IInv => bUseLoadBalancing \in BOOLEAN /\ clash \in BOOLEAN
    BY DEF IInv, TypeInv, Types, ShellTypes, HandlerTypes
  <2> QED
    BY <2>1 DEF FairShare, Number
<1>1. TypeInv /\ ShareInv
  BY DEF IInv
<1>2. ShareOK(q, c)
  BY <1>1 DEF ShareInv
<1>3. PICK n, k, f, v, r : /\ n = Number(q, c) /\ k = Number(q, d) /\ f = Floor(n) /\ v = level[q]
                           /\ r = n % Divisor
  OBVIOUS
<1>4. /\ n \in Nat /\ k \in Nat /\ f \in Nat /\ v \in Nat /\ Divisor \in Nat
      /\ n < f + Divisor /\ f = n - r /\ r \in Nat
  BY <1>1, <1>3, NumbersAre, FloorIs
<1>5. n > v + 1
  BY <1>3
<1>6. CASE Goes(q, c) /\ ~Deciding(q, c)
  <2>1. f <= k \/ f + Divisor <= v
    BY <1>2, <1>3, <1>6 DEF ShareOK
  <2> QED
    BY <1>3, <1>4, <1>5, <2>1
<1>7. CASE ~(Goes(q, c) /\ ~Deciding(q, c))
  <2>1. r \in {0, 1}
    <3>1. CASE Deciding(q, c)
      BY <1>2, <1>3, <3>1 DEF ShareOK, Decider
    <3>2. CASE ~Goes(q, c)
      BY <1>2, <1>3, <3>2 DEF ShareOK, Rest
    <3> QED
      BY <1>7, <3>1, <3>2
  <2>2. f <= k + Divisor \/ f <= v
    BY <1>2, <1>3 DEF ShareOK
  <2>3. n = f + r
    BY <1>4
  <2>4. n <= k + Divisor + 1
    BY <1>4, <1>5, <2>1, <2>2, <2>3
  <2> QED
    BY <1>3, <2>4
<1> QED
  BY <1>6, <1>7

\* A device that waits for its handler has its interrupt on the way to a core,
\* in the PIC, across the change of mode and while kRoutingIRQToAPICID rewrites
\* entries; only an edge that comes when kStartSymmetricIOMode has masked the PIC
\* and not yet written the IRQ's entry is lost.
THEOREM SpecNothingForgotten == ASSUME Orderly PROVE Spec => []NothingForgotten
<1>1. Init => IInv
  BY InductiveInit
<1>2. IInv /\ [Next]_vars => IInv'
  BY InductiveStep
<1>3. IInv => NothingForgotten
  BY InductiveForgets
<1> QED
  BY <1>1, <1>2, <1>3, PTL DEF Spec

\* While no two handlers are in the window, kProcessLoadBalancing keeps the
\* cores' counts of a device's interrupts within INTERRUPT_LOADBALANCINGDIVIDOR
\* and one of each other, but for the bootstrap processor's lead when it began.
\* Divisor > 1: with 1 a core that hands the entry over can already have a second
\* interrupt waiting, and decides again while the entry leads elsewhere.
THEOREM SpecFairShare == ASSUME Orderly, Divisor > 1 PROVE Spec => []FairShare
<1>1. Init => IInv
  BY InductiveInit
<1>2. IInv /\ [Next]_vars => IInv'
  BY InductiveStep
<1>3. IInv => FairShare
  BY InductiveFair
<1> QED
  BY <1>1, <1>2, <1>3, PTL DEF Spec
=============================================================================
