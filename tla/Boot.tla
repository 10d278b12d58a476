-------------------------------- MODULE Boot --------------------------------
(***************************************************************************)
(* kmain (main.cpp) from its first step to its last, over the parts of the *)
(* machine it sets up, and the calls that the code after it may make.  The *)
(* memory managers have modules of their own; here they are one step.      *)
(***************************************************************************)
EXTENDS Timers

vars == <<codeVars, cpuVars, acpiVars, routeVars, timerVars>>

Init ==
    /\ MachineInit /\ SerialInit /\ SymbolsInit
    /\ ProcessorInit /\ AcpiInit /\ RoutingInit /\ TimersInit

\* The steps of a part leave the parts above it alone.
Simple(step) == step /\ UNCHANGED <<cpuVars, acpiVars, routeVars, timerVars>>
OfProcessor(step) == step /\ UNCHANGED <<acpiVars, routeVars, timerVars>>
OfAcpi(step) == step /\ UNCHANGED <<routeVars, timerVars>>
OfRouting(step) == step /\ UNCHANGED timerVars

\* PhysicalMemoryManager::init and init_kernel, which registers the handler of
\* page faults: FrameAllocator and AddressSpace.
InitMemory ==
    /\ At("memory")
    /\ IF machine.memory THEN ProceedSaying("symbols", "memory") ELSE Panic("no frames")
    /\ UNCHANGED symbolVars

\* init_ctors.
CallConstructors ==
    /\ At("ctors")
    /\ ProceedSaying("gdt", "constructors")
    /\ UNCHANGED symbolVars

Kmain ==
    \/ Simple(VerifyBoot) \/ Simple(InitUart)
    \/ OfProcessor(InitCpu)
    \/ Simple(InitMemory) \/ Simple(LoadSymbols) \/ Simple(CallConstructors)
    \/ OfProcessor(LoadGdt) \/ OfProcessor(LoadIdt)
    \/ OfAcpi(InitRsdt) \/ OfAcpi(InitMadt) \/ OfAcpi(ReadRecord) \/ OfAcpi(InitLapic)
    \/ OfRouting(InitIoapic)
    \/ InitHpet \/ StartCalibration \/ SleepOnHpet \/ Calibrate \/ MapTimer
    \/ OfRouting(MapHigh)
    \/ RegisterTimer

Code == Kmain \/ SetCounter \/ WakeUp \/ Finish \/ Simple(WriteOut) \/ Simple(EndPanic)

Next ==
    \/ Code
    \/ CallHal \/ CallMap
    \/ Simple(PortSends) \/ OfRouting(RaiseLine)
    \/ TimePasses

\* The processor goes on, the chip sends and time passes.  Nobody has to call,
\* and no device has to raise its line.
Fairness == WF_vars(Code) /\ WF_vars(Simple(PortSends)) /\ WF_vars(TimePasses)

Spec == Init /\ [][Next]_vars /\ Fairness

-----------------------------------------------------------------------------
Steps == {"verify", "uart", "cpu", "memory", "symbols", "ctors", "gdt", "idt", "rsdt", "madt",
          "lapic", "ioapic", "hpet", "start", "sleep", "calibrate", "map", "map_high",
          "handler", "done", "set_counter", "wait"}

\* Every part of the state has its type.
TypeOK ==
    /\ pc \in Steps
    /\ status \in {"up", "panic", "halted", "reset"}
    /\ {ready, loaded, idt, enabled, aborted} \subseteq BOOLEAN
    /\ Len(said) >= Len(wire) /\ (todo # << >> => status \in {"up", "panic"})
    /\ \A i \in DOMAIN symbols : symbols[i].address \in Addresses
    /\ tables \in Nat /\ record \in Nat /\ Len(ioapics) <= MaxIoapic
    /\ DOMAIN redirect = DOMAIN machine.chips
    /\ counter \in [initial : 0 .. CounterMax, left : 0 .. CounterMax,
                    phase : 0 .. machine.every - 1]
    /\ lvt \in [masked : BOOLEAN, periodic : BOOLEAN]
    /\ perMs \in 0 .. CounterMax /\ lag \in 0 .. machine.lag /\ calls \in 0 .. machine.calls + machine.maps

\* What the kernel needs of a machine, said without the kernel's steps.
Sound(m) ==
    /\ m.answers /\ m.memory /\ m.room
    /\ {"SSE", "FSGS", "APIC"} \subseteq m.cpu.has /\ m.cpu.leaf7
    /\ LET f == m.acpi
           io == {i \in DOMAIN f.records : f.records[i].type = IO_APIC}
       IN  /\ f.sum = 0 /\ ~f.rootFar /\ f.rootSum = 0 /\ (f.revision # 0 => f.xsum = 0)
           /\ \A i \in DOMAIN f.root : f.root[i].sum = 0 /\ ~f.root[i].far
           /\ m.hpet = "sound" /\ {"APIC", "HPET"} \subseteq {f.root[i].sig : i \in DOMAIN f.root}
           /\ f.lapic # "far" /\ \A r \in ToSet(f.records) : ~r.empty /\ r.at # "far"
           /\ Cardinality(io) <= MaxIoapic
           /\ \A i \in io : LET r == f.records[i] IN r.id = m.chips[r.at].id /\ r.id < 16
           /\ \E i \in io : f.records[i].gsib = 0

\* The kernel stops early only on a machine that lacks something it needs; on a
\* sound one every step of kmain finds what the steps before it set up.
SoundMachinesBoot ==
    Sound(machine) => \/ status = "up"
                      \/ status = "halted" /\ reason = "none" /\ pc = "done"
                      \/ calls > 0

\* The boot comes to its end, or to a stop - except on firmware with a record
\* of length 0 in its table of interrupt controllers, at which madt.cpp:60 never
\* gets past.
BootEnds ==
    (\A i \in DOMAIN machine.acpi.records : ~machine.acpi.records[i].empty) =>
        <>(pc = "done" \/ status \in {"halted", "reset"})
=============================================================================
