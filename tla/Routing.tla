------------------------------ MODULE Routing -------------------------------
(***************************************************************************)
(* The I/O APICs (arch/ioapic.cpp, ioapic.hpp): what IOAPIC::init makes of *)
(* their redirection tables, and IOAPIC::map.  machine.chips says what     *)
(* sits at an address: the ID in its register, its number of lines, which  *)
(* of them have a device, and which the firmware left open.                *)
(*                                                                         *)
(* map_entry writes the low half, with the mask, before the high half with *)
(* the destination: a line may be raised between the two.                  *)
(***************************************************************************)
EXTENDS Acpi

VARIABLES
    redirect,       \* address -> line -> [masked, vector, dest]
    mapping,        \* the call of map under way: [irq, dest, at, next]
    asked,          \* history: [irq, dest, at] of the calls of map
    raised          \* history: what reached a processor, see RaiseLine

routeVars == <<redirect, mapping, asked, raised>>

IRQ0 == 32
Bus == DOMAIN machine.chips

\* Vector and destination are what the firmware left, and so is the mask.
LeftBehind(at, line) ==
    [masked |-> line \notin machine.chips[at].open,
     vector |-> machine.chips[at].left.vector, dest |-> machine.chips[at].left.dest]

RoutingInit ==
    /\ redirect = [at \in Bus |-> [line \in 0 .. machine.chips[at].lines - 1 |->
                                     LeftBehind(at, line)]]
    /\ mapping = [irq |-> 0, dest |-> 0, at |-> "none", next |-> "none"]
    /\ asked = {} /\ raised = {}

\* get_max_interrupts is the number of lines.
Lines(ioapic) == machine.chips[ioapic.at].lines

\* get_id with a bit too few; and as it is, with four bits.
ThreeBitId(ioapic) == machine.chips[ioapic.at].id % 8
HardwareId(ioapic) == machine.chips[ioapic.at].id % 16

\* The halves of map_entry.  There is nothing behind the last line to write to.
WriteLow(table, at, line, masked, vector) ==
    IF line \notin DOMAIN table[at] THEN table
    ELSE [table EXCEPT ![at][line].masked = masked, ![at][line].vector = vector]
WriteHigh(table, at, line, dest) ==
    IF line \notin DOMAIN table[at] THEN table ELSE [table EXCEPT ![at][line].dest = dest]

\* IOAPIC::init.  The loop over the lines has an empty body: what follows it
\* masks one line, whose number is that of the I/O APIC in the list.
MaskOne(table, i) ==
    LET at == ioapics[i + 1].at
    IN  WriteHigh(WriteLow(table, at, i, TRUE, IRQ0 + i), at, i, 0)

InitIoapic ==
    /\ At("ioapic")
    /\ UNCHANGED <<mapping, asked, raised, acpiVars, symbolVars, cpuVars>>
    /\ LET wrong == {i \in DOMAIN ioapics : HardwareId(ioapics[i]) # ioapics[i].id}
           through == IF wrong = {} THEN Len(ioapics) ELSE Min(wrong) - 1
           masked[n \in 0 .. through] ==
               IF n = 0 THEN redirect ELSE MaskOne(masked[n - 1], n - 1)
       IN  /\ redirect' = masked[through]
           /\ IF wrong = {} THEN ProceedSaying("hpet", "ioapic") ELSE Panic("i/o apic id")

\* find_ioapic, with a range that ends one line late.  0 is NULL.
FindIoapic(irq) ==
    LET found == {i \in DOMAIN ioapics :
                    irq >= ioapics[i].gsib /\ irq <= ioapics[i].gsib + Lines(ioapics[i])}
    IN  IF found = {} THEN 0 ELSE Min(found)

\* The line that map writes to: the number of the irq, wherever the I/O APIC
\* begins; and with an off-by-one for the low half.
LineOff(irq) == irq + 1
LineOf(irq) == irq

\* IOAPIC::map up to the low half, then the high half.
MapLow(irq, dest, next) ==
    IF FindIoapic(irq) = 0 THEN Panic("no i/o apic") /\ UNCHANGED routeVars
    ELSE LET at == ioapics[FindIoapic(irq)].at
         IN  /\ redirect' = WriteLow(redirect, at, LineOf(irq), FALSE, IRQ0 + irq)
             /\ mapping' = [irq |-> irq, dest |-> dest, at |-> at, next |-> next]
             /\ asked' = asked \cup {[irq |-> irq, dest |-> dest, at |-> at]}
             /\ UNCHANGED raised
             /\ Proceed("map_high")

MapHigh ==
    /\ At("map_high")
    /\ redirect' = WriteHigh(redirect, mapping.at, LineOf(mapping.irq), mapping.dest)
    /\ ProceedSaying(mapping.next, "mapped")
    /\ UNCHANGED <<mapping, asked, raised, acpiVars, symbolVars, cpuVars>>

\* The entry between its halves; and whether IOAPIC::init is through.
HalfWritten(at, line) ==
    pc = "map_high" /\ mapping.at = at /\ LineOf(mapping.irq) = line
Routed ==
    pc \in {"hpet", "start", "sleep", "calibrate", "map", "map_high", "handler", "done",
            "set_counter", "wait"}

\* A device raises its line.
RaiseLine ==
    \E at \in Bus : \E line \in machine.chips[at].live :
        LET entry == redirect[at][line]
        IN  /\ ~entry.masked
            /\ raised' = raised \cup {[at |-> at, line |-> line,
                                       vector |-> entry.vector, dest |-> entry.dest,
                                       half |-> HalfWritten(at, line), routed |-> Routed]}
            /\ UNCHANGED <<redirect, mapping, asked, acpiVars, codeVars, cpuVars>>

\* What the firmware left open comes in as the firmware left it - but once
\* IOAPIC::init is through not the one line of each I/O APIC that it masks.
CameAsLeft(d) ==
    LET device == machine.chips[d.at]
    IN  /\ d.line \in device.open
        /\ d.vector = device.left.vector /\ d.dest = device.left.dest
        /\ d.routed => \A i \in DOMAIN ioapics : ioapics[i].at = d.at => d.line # i - 1

\* What map was asked for comes in with the vector of the irq whose number the
\* line has in its I/O APIC, and no line below the base of that I/O APIC does: at
\* the processor that asked, or while the two halves of this very entry are being
\* written where it led before, which is to that processor, to the one the
\* firmware named, or to the first.
CameAsAsked(d) ==
    /\ d.vector = IRQ0 + d.line
    /\ \E r \in Range(firmware.records) : r.type = IO_APIC /\ r.at = d.at /\ r.gsib <= d.line
    /\ \E a \in asked :
          /\ a.irq = d.line /\ a.at = d.at
          /\ \/ d.dest = a.dest
             \/ d.half /\ d.dest \in {0, machine.chips[d.at].left.dest}

\* Nothing reaches a processor but what was left open or asked for.
LinesArriveAsAsked == \A d \in raised : CameAsLeft(d) \/ CameAsAsked(d)
=============================================================================
