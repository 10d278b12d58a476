----------------------------- MODULE Processor ------------------------------
(***************************************************************************)
(* CPU::init and the segments: which control bits are set on what          *)
(* processor (arch/cpu.cpp, register.cpp), and gdt.cpp with the reload of  *)
(* the segment registers in cpu.asm.                                       *)
(***************************************************************************)
EXTENDS Machine

VARIABLES
    cr4,            \* bits set in CR4
    xcr0,           \* bits set in XCR0
    pat,            \* the memory type of entry 4 of the PAT
    gdt             \* the GDT: index -> access of the descriptor, "none" if unset

cpuVars == <<cr4, xcr0, pat, gdt>>

Segments == 0 .. 5

ProcessorInit ==
    /\ cr4 = {"PAE"}
    /\ xcr0 = {"X87", "MPX"}            \* as some machines start, cpu.cpp:33
    /\ pat = "WB"
    /\ gdt = [i \in Segments |-> "none"]

\* CPUID: the features of leaf 1, and those of leaf 7 - or, on a processor
\* whose leaves end before it, of whatever leaf is its last.
Leaf1(cpu) == cpu.has \cap {"SSE", "PGE", "XSAVE", "AVX", "PAT"}
Leaf7(cpu) == IF cpu.leaf7 THEN cpu.has \cap {"SMAP", "SMEP", "UMIP", "FSGS"} ELSE cpu.other

\* A control bit and the feature it belongs to.
FeatureOf(bit) ==
    IF bit \in {"OSFXSR", "OSXMMEXCPT"} THEN "SSE"
    ELSE IF bit = "OSXSAVE" THEN "XSAVE"
    ELSE IF bit = "FSGSBASE" THEN "FSGS"
    ELSE bit

Always == {"PAE"}

\* A write that keeps what the register holds, and one that does not.
Add(when, reg, bits) == [when |-> when, reg |-> reg, bits |-> bits, keep |-> TRUE]
Put(when, reg, bits) == [when |-> when, reg |-> reg, bits |-> bits, keep |-> FALSE]

\* sse_enable, then the writes of init in order: XCR0 before OSXSAVE; and as
\* they are.
XcrFirst(leaf1) ==
    << Put("XSAVE" \in leaf1, "xcr0", {"X87"}),
       Add(TRUE, "cr4", {"OSFXSR", "OSXMMEXCPT"}),
       Add("PGE" \in leaf1, "cr4", {"PGE"}),
       Add("XSAVE" \in leaf1, "cr4", {"OSXSAVE"}) >>
Leaf1Writes(leaf1) ==
    << Add(TRUE, "cr4", {"OSFXSR", "OSXMMEXCPT"}),
       Add("PGE" \in leaf1, "cr4", {"PGE"}),
       Add("XSAVE" \in leaf1, "cr4", {"OSXSAVE"}),
       Put("XSAVE" \in leaf1, "xcr0", {"X87"}),
       Add({"XSAVE", "AVX"} \subseteq leaf1, "xcr0", {"X87", "SSE", "AVX"}) >>
Leaf7Writes(leaf7) ==
    << Add("SMAP" \in leaf7, "cr4", {"SMAP"}),
       Add("SMEP" \in leaf7, "cr4", {"SMEP"}),
       Add("UMIP" \in leaf7, "cr4", {"UMIP"}),
       Add("FSGS" \in leaf7, "cr4", {"FSGSBASE"}) >>

Writes(cpu) == Leaf1Writes(Leaf1(cpu)) \o Leaf7Writes(Leaf7(cpu))

\* What a register holds after the first n writes.
Held(ws, reg, n) ==
    LET done == {i \in 1 .. n : ws[i].when /\ ws[i].reg = reg}
        from == Max({i \in done : ~ws[i].keep} \cup {0})
    IN  (IF from # 0 THEN {} ELSE IF reg = "cr4" THEN cr4 ELSE xcr0)
           \cup UNION {ws[i].bits : i \in {j \in done : j >= from}}

\* Register::write on CR4 and XCR0: the processor refuses a bit it does not
\* have, XSETBV before OSXSAVE, and AVX without SSE.
Refuses(cpu, ws, i) ==
    LET held == Held(ws, ws[i].reg, i)
    IN  /\ ws[i].when
        /\ IF ws[i].reg = "cr4" THEN \E bit \in held \ Always : FeatureOf(bit) \notin cpu.has
           ELSE \/ "OSXSAVE" \notin Held(ws, "cr4", i)
                \/ "AVX" \in held /\ ("SSE" \notin held \/ "AVX" \notin cpu.has)
                \/ "X87" \notin held

\* The first write that is refused, 0 if none is.
Refused(cpu, ws) ==
    LET refused == {i \in DOMAIN ws : Refuses(cpu, ws, i)}
    IN  IF refused = {} THEN 0 ELSE Min(refused)

\* CPU::init, with its two assertions.  The second comes behind the other
\* writes, so a bit that is refused comes first.
InitCpu ==
    /\ At("cpu")
    /\ \E cpu \in {machine.cpu} : \E ws \in {Writes(cpu)} : \E refused \in {Refused(cpu, ws)} :
       LET through == IF refused = 0 THEN Len(ws) ELSE refused - 1
       IN  IF "SSE" \notin Leaf1(cpu)
           THEN Panic("no sse") /\ UNCHANGED cpuVars
           ELSE /\ cr4' = Held(ws, "cr4", through) /\ xcr0' = Held(ws, "xcr0", through)
                /\ pat' = IF "PAT" \in Leaf1(cpu) THEN "WC" ELSE pat
                /\ UNCHANGED gdt
                /\ IF refused # 0 THEN Fault("control bit")
                   ELSE IF "FSGS" \notin Leaf7(cpu) THEN Panic("no fsgs")
                   ELSE Proceed("memory")
    /\ UNCHANGED symbolVars

KERNEL_CS == 8
KERNEL_DS == 16

\* set_entry for each of the five segments.
PopulatedSegments ==
    LET entries == <<"kernel code", "kernel data", "user code", "user data">>
    IN  [i \in Segments |-> IF i \in DOMAIN entries THEN entries[i] ELSE "none"]

\* gdt_init; then load_gdt, which takes CS and the data segments from it.  A
\* selector is eight times an index.
LoadGdt ==
    /\ At("gdt")
    /\ gdt' = PopulatedSegments
    /\ UNCHANGED <<cr4, xcr0, pat>>
    /\ IF gdt'[KERNEL_CS \div 8] = "kernel code" /\ gdt'[KERNEL_DS \div 8] = "kernel data"
       THEN ProceedSaying("idt", "gdt")
       ELSE Fault("segment")
    /\ UNCHANGED symbolVars

\* idt_init and load_idt.
LoadIdt ==
    /\ At("idt")
    /\ idt' = TRUE /\ pc' = "rsdt"
    /\ todo' = LogLine(machine.build, [says |-> "idt"])
    /\ UNCHANGED <<machine, status, reason, enabled, aborted, chip, ready, said, wire>>
    /\ UNCHANGED <<symbolVars, cpuVars>>

\* No step of the set-up is refused by the processor, with one exception: one
\* too old to have leaf 7, for which cpu.cpp:59 reads the bits of another.
\* What a processor has is on when CPU::init is done with it, and nothing else.
ProcessorIsSetUp ==
    /\ status = "reset" => ~machine.cpu.leaf7
    /\ pc \notin {"verify", "uart", "cpu"} /\ machine.cpu.leaf7 =>
          /\ {FeatureOf(bit) : bit \in cr4 \ Always} =
                machine.cpu.has \cap {"SSE", "PGE", "XSAVE", "SMAP", "SMEP", "UMIP", "FSGS"}
          /\ "XSAVE" \in machine.cpu.has =>
                xcr0 = {"X87"} \cup (IF "AVX" \in machine.cpu.has THEN {"SSE", "AVX"} ELSE {})
          /\ pat = "WC" <=> "PAT" \in machine.cpu.has
=============================================================================
