------------------------------ MODULE Machine -------------------------------
(***************************************************************************)
(* What every step of kmain shares: the machine it runs on, the line of    *)
(* the log it writes, and the two ways it stops: CPU::hnr and panic.       *)
(*                                                                         *)
(* Interrupts stay off in all of kmain, so a step runs to its end before   *)
(* the next; only the devices and time go on beside it.                    *)
(***************************************************************************)
EXTENDS Serial, Symbols

CONSTANT
    Machines        \* bound: the machines to boot on, see MCBoot

\* What is constant about a machine: the build, what the boot loader answers,
\* what sits at the serial port, whether memory suffices, processor, symbols,
\* stack, firmware, the I/O APICs by their address with the lines that the
\* firmware left open and what it left in their entries, and the clocks.  The
\* firmware names an I/O APIC, which is a record of type 1, where there is one;
\* and seen through the direct map no address is NULL.
WellFormed(m) ==
    /\ m.build \in {"debug", "release"} /\ m.port \in Kinds
    /\ {m.answers, m.memory, m.room} \subseteq BOOLEAN
    /\ m.cpu \in [has : SUBSET STRING, leaf7 : BOOLEAN,
                  other : SUBSET {"SMAP", "SMEP", "UMIP", "FSGS"}]
    /\ m.nm \in SymbolList /\ Sorted(m.nm) /\ m.stack \in Stack /\ m.behind \in Addresses
    /\ LET f == m.acpi
       IN  /\ {f.revision, f.sum, f.xsum, f.rootSum} \subseteq Nat /\ f.lapic \in STRING
           /\ f.rootFar \in BOOLEAN
           /\ f.root \in Seq([sig : STRING, sum : Nat, far : BOOLEAN])
           /\ f.records \in Seq([type : Nat, id : Nat, gsib : Nat, at : STRING, empty : BOOLEAN])
           /\ f.lapic # "null" /\ \A i \in DOMAIN f.records : f.records[i].at # "null"
           /\ \A i \in DOMAIN f.records :
                 f.records[i].type = 1 => f.records[i].at \in DOMAIN m.chips
    /\ \A at \in DOMAIN m.chips :
          /\ m.chips[at] \in [id : Nat, lines : Nat, live : SUBSET Nat, open : SUBSET Nat,
                              left : [vector : Nat, dest : Nat]]
          /\ \A line \in m.chips[at].live : line < m.chips[at].lines
    /\ m.hpet \in {"sound", "far", "no period"}
    /\ m.every \in Nat \ {0} /\ {m.apicid, m.calls, m.maps, m.lag} \subseteq Nat

ASSUME MachinesAre == \A m \in Machines : WellFormed(m)

VARIABLES
    machine,        \* the one booted on: firmware, processor, devices, build
    pc,             \* the next step of kmain
    status,         \* "up", "panic", "halted", "reset" (a fault without an IDT)
    reason,         \* history: why it panicked, "none" if it did not
    idt,            \* lidt was run, and page faults have a handler
    enabled,        \* APIC::m_enabled
    aborted         \* history: the abort was broadcast

machineVars == <<machine, pc, status, reason, idt, enabled, aborted>>
codeVars == <<serialVars, symbolVars, machineVars>>

MachineInit ==
    /\ machine \in Machines
    /\ pc = "verify" /\ status = "up" /\ reason = "none"
    /\ idt = FALSE /\ enabled = FALSE /\ aborted = FALSE

\* The code is at a step, with nothing left to write.
At(step) == status = "up" /\ pc = step /\ todo = << >>

\* On to the next step, one line of the log later or none.
Proceed(next) ==
    /\ pc' = next
    /\ UNCHANGED <<machine, status, reason, idt, enabled, aborted, todo, chip, ready, said, wire>>
ProceedSaying(next, says) ==
    /\ pc' = next
    /\ todo' = LogLine(machine.build, [says |-> says])
    /\ UNCHANGED <<machine, status, reason, idt, enabled, aborted, chip, ready, said, wire>>

\* IPI::send returns at once while the APIC is off.
Broadcast == aborted' = (aborted \/ enabled)

\* What panic writes: the header, the message, the stack.
Report(why) ==
    <<[says |-> "header"], [says |-> why]>> \o Backtrace(machine.stack, machine.behind)

\* __panic.
Panic(why) ==
    /\ status' = "panic" /\ reason' = why
    /\ Broadcast
    /\ todo' = Report(why)
    /\ UNCHANGED <<machine, pc, idt, enabled, chip, ready, said, wire>>

\* An exception is a panic too once there is an IDT, and a reset before.
Fault(what) ==
    IF idt THEN Panic(what)
    ELSE /\ status' = "reset"
         /\ UNCHANGED <<machine, pc, reason, idt, enabled, aborted>>
         /\ UNCHANGED serialVars

\* CPU::hnr.
HaltAndNeverReturn ==
    /\ status' = "halted"
    /\ UNCHANGED <<machine, pc, reason, idt, enabled, aborted>>
    /\ UNCHANGED serialVars

\* The end of panic.
EndPanic ==
    /\ status = "panic" /\ todo = << >>
    /\ HaltAndNeverReturn
    /\ UNCHANGED symbolVars

\* UART::write goes on until todo is empty, in a panic as well.
WriteOut ==
    /\ status \in {"up", "panic"} /\ Write
    /\ UNCHANGED <<symbolVars, machineVars>>

PortSends == Transmit /\ UNCHANGED <<symbolVars, machineVars>>

\* verify_boot: without its answers from the boot loader the kernel stops, and
\* nobody hears of it.
VerifyBoot ==
    /\ At("verify")
    /\ IF machine.answers THEN Proceed("uart") ELSE HaltAndNeverReturn
    /\ UNCHANGED symbolVars

InitUart ==
    /\ At("uart")
    /\ UartInit(machine.build, machine.port)
    /\ pc' = "cpu"
    /\ todo' = LogLine(machine.build, [says |-> "loaded"])
    /\ UNCHANGED <<machine, status, reason, idt, enabled, aborted, said, wire>>
    /\ UNCHANGED symbolVars

\* SymbolTable::load; kmalloc may have no room for the table.
LoadSymbols ==
    /\ At("symbols")
    /\ IF machine.room THEN Load(MapFile(machine.nm)) /\ ProceedSaying("ctors", "symbols")
       ELSE Panic("no room for symbols") /\ UNCHANGED symbolVars

\* A panic that a chip in order is there to carry is heard to its end: header
\* and message come out together, then a line for each frame of the stack if
\* the symbols were loaded, each with the symbol its address lies in, which
\* an address in the last symbol may lack.  The other processors were told to
\* stop first, if there was an APIC to tell them.
PanicIsHeard ==
    reason # "none" /\ status = "halted" =>
        /\ enabled => aborted
        /\ ready => \E k \in DOMAIN said :
              /\ said[k] = [says |-> "header"]
              /\ said[k + 1] = [says |-> reason]
              /\ LET trace == SubSeq(said, k + 2, Len(said))
                     frames == Frames(machine.stack)
                 IN  IF ~loaded THEN trace = << >>
                     ELSE /\ [i \in DOMAIN trace |-> trace[i].rip] = frames
                          /\ \A i \in DOMAIN trace : LineNamesItsSymbol(trace[i], machine.nm)
=============================================================================
