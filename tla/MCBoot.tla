------------------------------- MODULE MCBoot -------------------------------
(***************************************************************************)
(* Machines for Boot.  Each departs from an ordinary one in one part, so   *)
(* that the parts' cases add up and do not multiply.                       *)
(***************************************************************************)
EXTENDS Boot

Symbol(address, name) == [address |-> address, name |-> name]
Frame(rip, rbp) == [rip |-> rip, rbp |-> rbp]

AllFeatures == {"SSE", "PGE", "XSAVE", "AVX", "PAT", "APIC", "SMAP", "SMEP", "UMIP", "FSGS"}
Cpu(has) == [has |-> has, leaf7 |-> TRUE, other |-> {}]

Table(sig) == [sig |-> sig, sum |-> 0, far |-> FALSE]
IoApic(id, gsib, at) ==
    [type |-> IO_APIC, id |-> id, gsib |-> gsib, at |-> at, empty |-> FALSE]
Override(at) == [type |-> LAPIC_OVERRIDE, id |-> 0, gsib |-> 0, at |-> at, empty |-> FALSE]
LocalApic == [type |-> 0, id |-> 0, gsib |-> 0, at |-> "none", empty |-> FALSE]

Acpi2 ==
    [revision |-> 2, sum |-> 0, xsum |-> 0, rootFar |-> FALSE, rootSum |-> 0,
     root |-> <<Table("FACP"), Table("APIC"), Table("HPET")>>,
     lapic |-> "default", records |-> <<LocalApic, IoApic(0, 0, "first")>>]

\* An I/O APIC with its lines masked, as the boot loader hands it over.
Chip(id, lines) ==
    [id |-> id, lines |-> lines, live |-> {}, open |-> {}, left |-> [vector |-> 0, dest |-> 0]]

Ordinary ==
    [build |-> "debug", answers |-> TRUE, port |-> "sound", memory |-> TRUE, room |-> TRUE,
     cpu |-> Cpu(AllFeatures), nm |-> <<Symbol(2, "a"), Symbol(3, "b"), Symbol(6, "c")>>,
     stack |-> <<Frame(5, 2), Frame(2, 0)>>, behind |-> 0, acpi |-> Acpi2,
     chips |-> [first |-> Chip(0, 3), second |-> Chip(1, 6)], hpet |-> "sound",
     apicid |-> 1, every |-> 1, calls |-> 0, maps |-> 0, lag |-> 0]

\* The start: boot loader, serial port, memory.
Starts ==
    {[Ordinary EXCEPT !.build = b, !.port = p, !.answers = a, !.memory = m, !.room = r] :
        b \in {"debug", "release"}, p \in {"sound", "garbles", "absent"},
        a \in BOOLEAN, m \in BOOLEAN, r \in BOOLEAN}

\* Processors with up to two features missing, with the least, and without leaf 7.
Processors ==
    {[Ordinary EXCEPT !.cpu.has = AllFeatures \ {f, g}] : f \in AllFeatures, g \in AllFeatures}
    \cup {[Ordinary EXCEPT !.cpu.has = {"SSE", "FSGS", "APIC"}]}
    \cup {[Ordinary EXCEPT !.cpu = [has |-> AllFeatures \ {"SMAP", "SMEP", "UMIP", "FSGS"},
                                    leaf7 |-> FALSE, other |-> other]] :
             other \in SUBSET {"SMAP", "SMEP", "UMIP", "FSGS"}}

\* Maps with gaps and with two names for one address, stacks of every address,
\* one that ends at a zero address and one that never ends; all of them seen
\* in a panic, for want of a MADT.
Maps ==
    {<<Symbol(2, "a"), Symbol(3, "b"), Symbol(6, "c")>>,
     <<Symbol(1, "a"), Symbol(4, "b"), Symbol(4, "c"), Symbol(5, "d"), Symbol(7, "e")>>,
     <<Symbol(3, "a")>>}
Stacks ==
    {<<Frame(rip, 2), Frame(other, 0)>> : rip \in 1 .. 7, other \in {0, 3, 6}}
    \cup {<<Frame(rip, 1)>> : rip \in 1 .. 7}
Traces ==
    {[Ordinary EXCEPT !.nm = nm, !.stack = stack, !.behind = behind,
                      !.acpi.root = <<Table("HPET")>>] :
        nm \in Maps, stack \in Stacks, behind \in {0, 7}}

\* Tables of either version: missing, with a bad sum, out of reach, twice.
Roots ==
    { <<Table("APIC"), Table("HPET")>>,
      <<Table("APIC"), Table("HPET"), Table("APIC")>>,
      <<Table("APIC")>>, <<Table("HPET"), Table("FACP")>>, << >>,
      <<Table("APIC"), [Table("FACP") EXCEPT !.sum = 1], Table("HPET")>>,
      <<Table("HPET"), Table("APIC"), [Table("FACP") EXCEPT !.far = TRUE]>> }
Firmware ==
    {[Ordinary EXCEPT !.acpi.revision = v, !.acpi.root = root, !.acpi.sum = s,
                      !.acpi.xsum = x, !.acpi.rootSum = t] :
        v \in {0, 2}, root \in Roots, s \in {0, 1}, x \in {0, 1}, t \in {0, 1}}
    \cup {[Ordinary EXCEPT !.acpi.rootFar = TRUE, !.acpi.sum = s] : s \in {0, 1}}

\* Interrupt controllers: an override near or far, one I/O APIC too many, an ID
\* that is not that of the chip, one that needs five bits, a record of length 0.
Records ==
    { <<IoApic(0, 0, "first"), LocalApic, IoApic(1, 3, "second")>>,
      <<IoApic(1, 3, "second"), Override("near"), IoApic(0, 0, "first")>>,
      <<IoApic(1, 3, "second")>>,
      <<Override("near"), IoApic(0, 0, "first"), Override("far")>>,
      <<IoApic(0, 0, "first"), IoApic(1, 3, "second"), IoApic(2, 9, "second")>>,
      <<IoApic(2, 0, "first")>>,
      <<LocalApic, [LocalApic EXCEPT !.empty = TRUE], IoApic(0, 0, "first")>>,
      << >> }
Controllers ==
    {[Ordinary EXCEPT !.build = "release", !.acpi.records = records, !.maps = 2,
                      !.chips.first.live = {0, 1}, !.chips.second.live = {4}] : records \in Records}
    \cup {[Ordinary EXCEPT !.acpi.records = <<IoApic(id, 0, "first")>>, !.chips.first.id = id] :
             id \in {15, 16}}
    \cup {[Ordinary EXCEPT !.acpi.records[2].gsib = 1]}

\* Lines that the firmware left open: the one that IOAPIC::init masks, one that is
\* mapped later, and one that nobody touches, of two I/O APICs and of one that is
\* not in the firmware's list.
LeftOpen ==
    {[Ordinary EXCEPT !.build = "release", !.acpi.records = records, !.maps = 1,
                      !.chips.first.live = live[1], !.chips.first.open = {0, 1},
                      !.chips.second.live = live[2], !.chips.second.open = {1, 4, 5},
                      !.chips.first.left = [vector |-> 8, dest |-> 2]] :
        live \in {<<{0}, {}>>, <<{1}, {}>>, <<{}, {1}>>, <<{}, {4}>>},
        records \in {<<IoApic(0, 0, "first"), IoApic(1, 3, "second")>>, <<IoApic(0, 0, "first")>>}}

\* Clocks of three speeds, and two calls after the boot; an HPET out of reach of
\* the direct map, and one that says its period is 0.
Clocks == {[Ordinary EXCEPT !.build = "release", !.every = every, !.calls = 2, !.lag = 1] :
              every \in 1 .. 3}
    \cup {[Ordinary EXCEPT !.hpet = h] : h \in {"far", "no period"}}

MCMachines == Starts \cup Processors \cup Traces \cup Firmware \cup Controllers \cup LeftOpen \cup Clocks
MCDurations == {0, 1, 2, 6}
MCIrqs == {1, 3, 4, 9}
=============================================================================
