-------------------------------- MODULE Acpi --------------------------------
(***************************************************************************)
(* The ACPI tables: RSDT::init checks the pointer, the root table and      *)
(* every table in it (acpi/rsdt.cpp); MADT::init takes the interrupt       *)
(* controllers from one of them (acpi/madt.cpp).                           *)
(*                                                                         *)
(* The firmware is machine.acpi: revision and checksums of the pointer,    *)
(* the root table as a sequence of tables, and the records of the MADT.    *)
(* A table, the root table too, may lie where the direct map ends.         *)
(***************************************************************************)
EXTENDS Processor

CONSTANT MaxIoapic      \* MAX_IOAPIC, 16

ASSUME AcpiConstants == MaxIoapic \in Nat \ {0}

VARIABLES
    tables,         \* m_table_count, once RSDT::init is through
    record,         \* the record of the MADT that is looked at, 0 outside
    lapic,          \* m_lapic: where the local APIC is, "null" before
    ioapics         \* m_ioapic: sequence of [id, gsib, at]

acpiVars == <<tables, record, lapic, ioapics>>

AcpiInit ==
    /\ tables = 0 /\ record = 0
    /\ lapic = "null" /\ ioapics = << >>

firmware == machine.acpi
IsV1 == firmware.revision = 0

\* The bytes behind the header of the root table.
RootBytes == Len(firmware.root) * (IF IsV1 THEN 4 ELSE 8)

\* The number of tables with every entry taken for four bytes; and as it is.
CountOfFours == RootBytes \div 4
TableCount == (RootBytes \div 4) \div (IF IsV1 THEN 1 ELSE 2)

\* What is read behind the last entry.
Stray == [sig |-> "none", sum |-> 1, far |-> TRUE]
TableAt(i) == IF i \in DOMAIN firmware.root THEN firmware.root[i] ELSE Stray

\* validate_table: the bytes sum up to 0.
Valid(sum) == sum = 0

\* The first table that stops the loop of rsdt_init, 0 if none does.
FirstBad ==
    LET bad == {i \in 1 .. TableCount : TableAt(i).far \/ ~Valid(TableAt(i).sum)}
    IN  IF bad = {} THEN 0 ELSE Min(bad)

\* RSDT::init and rsdt_init.
InitRsdt ==
    /\ At("rsdt")
    /\ UNCHANGED <<record, lapic, ioapics, symbolVars, cpuVars>>
    /\ IF ~Valid(firmware.sum) \/ (~IsV1 /\ ~Valid(firmware.xsum))
       THEN Panic("table checksum") /\ UNCHANGED tables
       ELSE IF firmware.rootFar THEN Fault("page fault") /\ UNCHANGED tables
       ELSE IF ~Valid(firmware.rootSum) THEN Panic("table checksum") /\ UNCHANGED tables
       ELSE /\ tables' = TableCount
            /\ IF FirstBad = 0 THEN ProceedSaying("madt", "rsdt")
               ELSE IF TableAt(FirstBad).far THEN Fault("page fault")
               ELSE Panic("table checksum")

\* find_table, the first of that name.  0 is NULL.
FindTable(name) ==
    LET found == {i \in 1 .. tables : TableAt(i).sig = name}
    IN  IF found = {} THEN 0 ELSE Min(found)

\* MADT::init up to the loop.
InitMadt ==
    /\ At("madt") /\ record = 0
    /\ UNCHANGED <<tables, ioapics, symbolVars, cpuVars>>
    /\ IF FindTable("APIC") = 0 THEN Panic("madt not found") /\ UNCHANGED <<record, lapic>>
       ELSE record' = 1 /\ lapic' = firmware.lapic /\ Proceed("madt")

IO_APIC == 1
LAPIC_OVERRIDE == 5

\* ptr += length, for the records that are of interest only; and as it is.
NextIfKnown(r) == IF r.empty \/ r.type \notin {IO_APIC, LAPIC_OVERRIDE} THEN record ELSE record + 1
NextRecord(r) == IF r.empty THEN record ELSE record + 1

\* One turn of the loop.  A record of length 0 is looked at again and again.
ReadRecord ==
    /\ At("madt") /\ record # 0
    /\ UNCHANGED <<tables, symbolVars, cpuVars>>
    /\ IF record > Len(firmware.records)
       THEN record' = 0 /\ Proceed("lapic") /\ UNCHANGED <<lapic, ioapics>>
       ELSE LET r == firmware.records[record]
            IN  IF r.type = IO_APIC /\ Len(ioapics) >= MaxIoapic
                THEN Panic("too many i/o apics") /\ UNCHANGED <<record, lapic, ioapics>>
                ELSE /\ record' = NextRecord(r)
                     /\ ioapics' = IF r.type # IO_APIC THEN ioapics
                                   ELSE Append(ioapics, [id |-> r.id, gsib |-> r.gsib, at |-> r.at])
                     /\ lapic' = IF r.type = LAPIC_OVERRIDE THEN r.at ELSE lapic
                     /\ Proceed("madt")

\* APIC::init: the first register it writes has to be mapped.
InitLapic ==
    /\ At("lapic")
    /\ UNCHANGED <<acpiVars, symbolVars, cpuVars>>
    /\ IF "APIC" \notin machine.cpu.has THEN Panic("apic not supported")
       ELSE IF lapic \in {"null", "far"} THEN Fault("page fault")
       ELSE /\ enabled' = TRUE /\ pc' = "ioapic"
            /\ todo' = LogLine(machine.build, [says |-> "lapic"])
            /\ UNCHANGED <<machine, status, reason, idt, aborted, chip, ready, said, wire>>

\* Where the firmware has records of a type.
OfType(type) == {i \in DOMAIN firmware.records : firmware.records[i].type = type}

\* The list of I/O APICs is the records at the given places, in their order.
ListsInOrder(from, places) ==
    /\ Range(from) = places
    /\ \A i, j \in DOMAIN ioapics : i < j => from[i] < from[j]
    /\ \A i \in DOMAIN ioapics :
          LET r == firmware.records[from[i]]
          IN  ioapics[i] = [id |-> r.id, gsib |-> r.gsib, at |-> r.at]

\* Every I/O APIC of the firmware is known when the MADT has been read, with
\* its own address and base, and none twice; the local APIC is where the last
\* override says.  The tables behind both have been checked, all of them, and
\* nothing behind the end of the root table.
FirmwareIsUnderstood ==
    /\ tables \in {0, Len(firmware.root)}
    /\ lapic # "null" =>
          LET table == TableAt(FindTable("APIC"))
          IN  table.sig = "APIC" /\ Valid(table.sum) /\ ~table.far
    /\ lapic # "null" /\ record = 0 =>
          /\ \E from \in [DOMAIN ioapics -> OfType(IO_APIC)] : ListsInOrder(from, OfType(IO_APIC))
          /\ lapic = IF OfType(LAPIC_OVERRIDE) = {} THEN firmware.lapic
                     ELSE firmware.records[Max(OfType(LAPIC_OVERRIDE))].at
=============================================================================
