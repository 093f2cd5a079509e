------------------------ MODULE MCInterruptRouting ------------------------
EXTENDS InterruptRouting

Processor(enabled) == [type |-> "processor", enabled |-> enabled]
Bus(id, isa) == [type |-> "bus", id |-> id, isa |-> isa]
IOAPIC(id) == [type |-> "ioapic", id |-> id]
Assignment(bus, q, apic, intin, int) ==
    [type |-> "assignment", bus |-> bus, irq |-> q, ioapic |-> apic, intin |-> intin,
     int |-> int]

\* Two processors and a disabled one, an ISA bus and another, each with an
\* I/O APIC; the ISA bus's timer comes in where IRQ 2 would, and its first line
\* is the PIC's own.
MCEntries ==
    <<Processor(TRUE), Processor(FALSE), Processor(TRUE), Bus(0, FALSE), Bus(1, TRUE),
      IOAPIC(2), IOAPIC(3), Assignment(0, 1, 2, 2, TRUE),
      Assignment(1, 0, 3, 0, FALSE), Assignment(1, 1, 3, 1, TRUE), Assignment(1, 0, 3, 2, TRUE)>>

MCSessions ==
    {<<"startap", "startsymmetricio", "startintloadbal">>,
     <<"startsymmetricio">>,
     <<"startap", "startap", "startsymmetricio", "startintloadbal">>}

MCMaxEdges == [q \in Irqs |-> IF q = Timer THEN 2 ELSE 6]
=============================================================================
