-------------------------- MODULE InterruptsProofs --------------------------
(***************************************************************************)
(* Theorems about Interrupts, however deep handlers nest and in whatever   *)
(* order interrupts come.                                                  *)
(***************************************************************************)
EXTENDS Interrupts, FiniteSetTheorems, SequenceTheorems, TLAPS

-----------------------------------------------------------------------------
(* The lists of isr.asm and the phases of the dispatcher *)

\* pushaq pushes fifteen words, each register once.
LEMMA PushOrderIs ==
    /\ DOMAIN PushOrder = 1 .. 15
    /\ \A k \in 1 .. 15 : PushOrder[k] \in Regs
    /\ \A k, j \in 1 .. 15 : PushOrder[k] = PushOrder[j] => k = j
    /\ \A r \in Regs : \E k \in 1 .. 15 : PushOrder[k] = r
<1>1. DOMAIN PushOrder = 1 .. 15
  BY DEF PushOrder
<1>2. \A k \in 1 .. 15 : PushOrder[k] \in Regs
  BY SMT DEF PushOrder, Regs
<1>3. \A k, j \in 1 .. 15 : PushOrder[k] = PushOrder[j] => k = j
  BY SMTT(60) DEF PushOrder
<1>4. \A r \in Regs : \E k \in 1 .. 15 : PushOrder[k] = r
  BY SMTT(60) DEF PushOrder, Regs
<1> QED  BY <1>1, <1>2, <1>3, <1>4

\* INTERRUPT_SAVE saves fifteen different registers.
LEMMA FifteenRegisters == Cardinality(Regs) = 15
<1>1. PushOrder \in [1 .. 15 -> Regs]
  BY PushOrderIs, SMT DEF PushOrder
<1>2. PushOrder \in Injection(1 .. 15, Regs)
  BY <1>1, PushOrderIs DEF Injection, IsInjective
<1>3. PushOrder \in Surjection(1 .. 15, Regs)
  BY <1>1, PushOrderIs DEF Surjection
<1>4. ExistsBijection(1 .. 15, Regs)
  BY <1>2, <1>3 DEF ExistsBijection, Bijection
<1> QED  BY <1>4, FS_CountingElements

\* handle, then eoi, then return.
LEMMA PhaseOrder == PhaseAfter("handle") = "eoi" /\ PhaseAfter("eoi") = "return"
<1>1. (CHOOSE i \in DOMAIN Phases : Phases[i] = "handle") = 1
  BY DEF Phases
<1>2. (CHOOSE i \in DOMAIN Phases : Phases[i] = "eoi") = 2
  BY DEF Phases
<1> QED  BY <1>1, <1>2 DEF PhaseAfter, Phases

\* Except for rcx and rdx, popaq takes a register's word from the place where
\* pushaq put it.
LEMMA PopsMirrorPushes ==
    ASSUME NEW k \in 1 .. 15, PushOrder[k] \notin {"rcx", "rdx"}
    PROVE  PopOf[PushOrder[k]] = 16 - k
<1> DEFINE r == PushOrder[k]
           places == {i \in DOMAIN PopOrder : PopOrder[i] = r}
<1>1. \A i \in 1 .. 15 : PopOrder[i] = r <=> i = 16 - k
  BY SMTT(60) DEF PopOrder, PushOrder
<1>2. DOMAIN PopOrder = 1 .. 15  BY DEF PopOrder
<1>3. {0} \cup places = {0, 16 - k}
  BY <1>1, <1>2
<1>4. Max({0, 16 - k}) = 16 - k
  BY DEF Max
<1> QED  BY <1>3, <1>4, PushOrderIs DEF PopOf

\* Whatever popaq does, it reads words that pushaq wrote.
LEMMA PopOfType == \A r \in Regs : PopOf[r] \in 0 .. 15
<1> TAKE r \in Regs
<1> DEFINE places == {i \in DOMAIN PopOrder : PopOrder[i] = r}
<1>1. DOMAIN PopOrder = 1 .. 15  BY DEF PopOrder
<1>2. CASE r \notin {"rcx", "rdx"}
  <2>1. PICK k \in 1 .. 15 : PushOrder[k] = r  BY PushOrderIs
  <2> QED  BY <1>2, <2>1, PopsMirrorPushes
<1>3. CASE r = "rcx"
  <2>1. {0} \cup places = {0}  BY <1>1, <1>3 DEF PopOrder
  <2>2. Max({0}) = 0  BY DEF Max
  <2> QED  BY <2>1, <2>2 DEF PopOf
<1>4. CASE r = "rdx"
  <2>1. {0} \cup places = {0, 12, 13}  BY <1>1, <1>4 DEF PopOrder
  <2>2. Max({0, 12, 13}) = 13  BY DEF Max
  <2> QED  BY <2>1, <2>2 DEF PopOf
<1> QED  BY <1>2, <1>3, <1>4

-----------------------------------------------------------------------------
(* The inductive invariant *)

\* An interrupt that the processor or its APIC can hand over has its handler in
\* the table: IF is set only when kmain has registered them all.
Installed ==
    /\ cpu.if => pc = "run"
    /\ table[NonMaskable] = "null" /\ table[IPIAbort] = "null"
    /\ table[PageFault] \in {"null", "page_fault"}
    /\ table[Timer] # "page_fault" /\ table[ApicSpurious] # "page_fault"
    /\ pc \in {"timer", "handler", "done", "run"} => table[ApicSpurious] = "irq"
    /\ pc \in {"done", "run"} => table[Timer] = "irq"

\* The words pushaq writes.
Pushed(reg) == [k \in 1 .. 15 |-> reg[PushOrder[k]]]

\* What the stub keeps of the code it interrupted.  Only a page fault goes on
\* top of MaxDepth activations.
Recorded ==
    \A i \in DOMAIN stack :
       /\ stack[i].before.if => pc = "run"
       /\ stack[i].saved = Pushed(stack[i].before.reg)
       /\ stack[i].vector \in {PageFault, Timer, ApicSpurious}
       /\ stack[i].vector = PageFault => stack[i].phase = "handle"
       /\ i > MaxDepth => stack[i].vector = PageFault
       /\ spurious = 0 => stack[i].vector # ApicSpurious

IInv ==
    /\ TypeOK
    /\ Installed /\ Recorded /\ StopsAreExplained /\ InServiceOrder

\* What the type says of each activation and of the registers.
LEMMA Elements ==
    ASSUME IInv
    PROVE  /\ Len(stack) \in Nat /\ DOMAIN stack = 1 .. Len(stack)
           /\ \A i \in 1 .. Len(stack) :
                 /\ stack[i] \in Activation
                 /\ stack[i].vector \in Vectors /\ stack[i].phase \in {"handle", "eoi", "return"}
                 /\ stack[i].saved \in [1 .. 15 -> Values]
                 /\ stack[i].before.reg \in [Regs -> Values] /\ stack[i].before.if \in BOOLEAN
           /\ Activation = [vector : Vectors, phase : {"handle", "eoi", "return"},
                            saved : [1 .. 15 -> Values],
                            before : [reg : [Regs -> Values], if : BOOLEAN]]
           /\ cpu.reg \in [Regs -> Values] /\ cpu.gs \in {"self", "zero"}
           /\ cpu.if \in BOOLEAN /\ cpu.idt \in BOOLEAN
           /\ cpu = [reg |-> cpu.reg, gs |-> cpu.gs, if |-> cpu.if, idt |-> cpu.idt]
<1>1. stack \in Seq(Activation)  BY DEF IInv, TypeOK
<1>2. \A i \in 1 .. Len(stack) : stack[i] \in Activation  BY <1>1
<1>3. cpu \in [reg : [Regs -> Values], gs : {"self", "zero"}, if : BOOLEAN, idt : BOOLEAN]
  BY DEF IInv, TypeOK
<1> QED  BY <1>1, <1>2, <1>3, FifteenRegisters DEF Activation

\* The local APIC forgets the highest vector in service.
LEMMA AcknowledgedIs ==
    /\ Acknowledged \subseteq apic.isr
    /\ apic.isr = {} => Acknowledged = {}
    /\ \A v \in Nat : apic.isr = {v} => Acknowledged = {}
BY DEF Acknowledged

CpuType == [reg : [Regs -> Values], gs : {"self", "zero"}, if : BOOLEAN, idt : BOOLEAN]

\* A write to one part of the processor's state leaves the others.
LEMMA CpuWrites ==
    ASSUME NEW c \in CpuType
    PROVE  /\ \A gs \in {"self", "zero"} :
                 /\ [c EXCEPT !.gs = gs] \in CpuType
                 /\ [c EXCEPT !.gs = gs].reg = c.reg /\ [c EXCEPT !.gs = gs].if = c.if
           /\ \A i \in BOOLEAN :
                 /\ [c EXCEPT !.if = i] \in CpuType /\ [c EXCEPT !.if = i].if = i
           /\ \A i \in BOOLEAN :
                 /\ [c EXCEPT !.idt = i] \in CpuType /\ [c EXCEPT !.idt = i].if = c.if
           /\ \A reg \in [Regs -> Values] :
                 /\ [c EXCEPT !.reg = reg] \in CpuType
                 /\ [c EXCEPT !.reg = reg].reg = reg /\ [c EXCEPT !.reg = reg].if = c.if
           /\ \A reg \in [Regs -> Values], gs \in {"self", "zero"}, i \in BOOLEAN :
                 LET w == [c EXCEPT !.reg = reg, !.gs = gs, !.if = i]
                 IN  w \in CpuType /\ w.reg = reg /\ w.if = i
BY DEF CpuType

ApicType == [on : BOOLEAN, irr : SUBSET Vectors, isr : SUBSET Vectors]

\* Writing one register of the APIC keeps its shape and the others.
LEMMA ApicWrites ==
    ASSUME NEW a \in ApicType
    PROVE  /\ \A irr \in SUBSET Vectors :
                 [a EXCEPT !.irr = irr] \in ApicType /\ [a EXCEPT !.irr = irr].isr = a.isr
           /\ \A isr \in SUBSET Vectors :
                 [a EXCEPT !.isr = isr] \in ApicType /\ [a EXCEPT !.isr = isr].isr = isr
           /\ \A isr \in SUBSET Vectors : [a EXCEPT !.on = TRUE, !.isr = isr] \in ApicType
           /\ \A irr, isr \in SUBSET Vectors :
                 LET w == [a EXCEPT !.irr = irr, !.isr = isr]
                 IN  w \in ApicType /\ w.isr = isr
BY DEF ApicType

\* The steps of kmain: the stack is empty, and what a later step relies on is
\* in the table.
LEMMA BootKeeps ==
    ASSUME IInv, Boot
    PROVE  IInv'
<1> USE DEF IInv
<1>1. /\ stack = << >> /\ status = "up" /\ UNCHANGED <<stack, cause, spurious>>
  BY DEF Boot, MainRuns, RegisterPageFault, LoadGdt, WriteSelfToGs, LoadIdt, InitApic,
         InitTimer, RegisterTimer, Halt, EnableInterrupts
<1>6. DOMAIN stack = {} /\ DOMAIN stack' = {} /\ stack' \in Seq(Activation)
  BY <1>1 DEF TypeOK
<1>7. cpu' \in CpuType /\ (~EnableInterrupts => cpu'.if = cpu.if)
  <2>1. cpu \in CpuType  BY DEF TypeOK, CpuType
  <2>2. CASE LoadGdt  BY <2>1, <2>2, CpuWrites DEF LoadGdt
  <2>3. CASE WriteSelfToGs  BY <2>1, <2>3, CpuWrites DEF WriteSelfToGs
  <2>4. CASE LoadIdt  BY <2>1, <2>4, CpuWrites DEF LoadIdt
  <2>5. CASE EnableInterrupts  BY <2>1, <2>5, CpuWrites DEF EnableInterrupts
  <2>6. CASE cpu' = cpu  BY <2>1, <2>6
  <2> QED
    BY <2>2, <2>3, <2>4, <2>5, <2>6 DEF Boot, RegisterPageFault, InitApic, InitTimer,
       RegisterTimer, Halt
<1>2. Recorded'  BY <1>6 DEF Recorded
<1>3. StopsAreExplained'
  BY <1>1 DEF StopsAreExplained, Boot, RegisterPageFault, LoadGdt, WriteSelfToGs, LoadIdt,
              InitApic, InitTimer, RegisterTimer, Halt, EnableInterrupts
<1>4. InServiceOrder'
  <2>1. Unacknowledged = {} /\ Unacknowledged' = {}  BY <1>6 DEF Unacknowledged
  <2>2. apic'.isr = apic.isr \/ apic'.isr = Acknowledged
    <3>1. CASE InitApic  BY <3>1 DEF TypeOK, InitApic
    <3>2. CASE ~InitApic
      BY <3>2 DEF Boot, RegisterPageFault, LoadGdt, WriteSelfToGs, LoadIdt, InitTimer,
                  RegisterTimer, Halt, EnableInterrupts
    <3> QED  BY <3>1, <3>2
  <2> QED  BY <1>1, <1>6, <1>7, <2>1, <2>2, AcknowledgedIs DEF InServiceOrder
<1>8. InitApic => apic' \in ApicType
  <2>1. apic \in ApicType  BY DEF TypeOK, ApicType
  <2>2. Acknowledged \in SUBSET Vectors  BY <2>1, AcknowledgedIs DEF ApicType
  <2>3. [apic EXCEPT !.on = TRUE, !.isr = Acknowledged] \in ApicType
    BY <2>1, <2>2, ApicWrites, Zenon
  <2> QED  BY <2>3 DEF InitApic
<1>5. TypeOK' /\ Installed'
  <2> USE DEF TypeOK, CpuType, Installed, Vectors, NonMaskable, PageFault, Timer, IRQ0, IPIAbort, ApicSpurious
  <2>1. CASE RegisterPageFault  BY <1>1, <1>6, <1>7, <2>1 DEF RegisterPageFault, Registered
  <2>2. CASE LoadGdt  BY <1>1, <1>6, <1>7, <2>2 DEF LoadGdt
  <2>3. CASE WriteSelfToGs  BY <1>1, <1>6, <1>7, <2>3 DEF WriteSelfToGs
  <2>4. CASE LoadIdt  BY <1>1, <1>6, <1>7, <2>4 DEF LoadIdt
  <2>5. CASE InitApic
    <3>2. table' = [table EXCEPT ![ApicSpurious] = "irq"] /\ pc' = "timer" /\ line' = line
          /\ pc = "apic" /\ cpu' = cpu /\ status' = status
      BY <2>5 DEF InitApic, Registered
    <3> QED  BY <1>1, <1>6, <1>7, <1>8, <2>5, <3>2 DEF ApicType
  <2>6. CASE InitTimer  BY <1>1, <1>6, <1>7, <2>6 DEF InitTimer
  <2>7. CASE RegisterTimer  BY <1>1, <1>6, <1>7, <2>7 DEF RegisterTimer, Registered
  <2>8. CASE Halt  BY <1>1, <1>6, <1>7, <2>8 DEF Halt
  <2>9. CASE EnableInterrupts  BY <1>1, <1>6, <1>7, <2>9 DEF EnableInterrupts
  <2> QED  BY <2>1, <2>2, <2>3, <2>4, <2>5, <2>6, <2>7, <2>8, <2>9 DEF Boot
<1> QED  BY <1>2, <1>3, <1>4, <1>5

-----------------------------------------------------------------------------
(* Taking an interrupt *)

\* The stub adds an activation that says what the interrupted code had.
LEMMA EnterAdds ==
    ASSUME IInv, NEW v \in {PageFault, Timer, ApicSpurious}, Enter(v), pc' = pc,
           v # PageFault => Len(stack) < MaxDepth,
           spurious' = 0 => spurious = 0 /\ v # ApicSpurious
    PROVE  /\ stack' \in Seq(Activation) /\ Recorded'
           /\ cpu' \in CpuType /\ cpu'.if = cpu.if
           /\ Len(stack') = Len(stack) + 1 /\ stack'[Len(stack) + 1].vector = v
           /\ \A i \in DOMAIN stack : stack'[i] = stack[i]
           /\ Unacknowledged' = IF v = PageFault THEN Unacknowledged
                                ELSE Unacknowledged \cup {Len(stack) + 1}
<1> DEFINE a == [vector |-> v, phase |-> Phases[1],
                 saved |-> [i \in DOMAIN PushOrder |-> cpu.reg[PushOrder[i]]],
                 before |-> [reg |-> cpu.reg, if |-> cpu.if]]
           n == Len(stack)
<1>1. /\ a \in Activation /\ a.vector = v /\ a.phase = "handle" /\ a.before.if = cpu.if
      /\ a.saved = Pushed(a.before.reg)
  <2>1. Phases[1] = "handle"  BY DEF Phases
  <2>2. [k \in 1 .. 15 |-> cpu.reg[PushOrder[k]]] \in [1 .. 15 -> Values]
    BY PushOrderIs, Elements
  <2>3. v \in Vectors  BY DEF Vectors
  <2> QED  BY <2>1, <2>2, <2>3, PushOrderIs, Elements DEF Pushed
<1>2. stack' = Append(stack, a) /\ stack \in Seq(Activation)
  BY DEF Enter, IInv, TypeOK
<1> HIDE DEF a
<1>7. n \in Nat  BY Elements
<1>3. /\ stack' \in Seq(Activation) /\ Len(stack') = n + 1
      /\ \A i \in 1 .. n : stack'[i] = stack[i]
      /\ stack'[n + 1] = a /\ DOMAIN stack' = 1 .. n + 1 /\ DOMAIN stack = 1 .. n
  BY <1>1, <1>2
<1> HIDE DEF n
<1>4. Recorded'
  <2> SUFFICES ASSUME NEW i \in 1 .. n + 1
      PROVE /\ stack'[i].before.if => pc' = "run"
            /\ stack'[i].saved = Pushed(stack'[i].before.reg)
            /\ stack'[i].vector \in {PageFault, Timer, ApicSpurious}
            /\ stack'[i].vector = PageFault => stack'[i].phase = "handle"
            /\ i > MaxDepth => stack'[i].vector = PageFault
            /\ spurious' = 0 => stack'[i].vector # ApicSpurious
    BY <1>3 DEF Recorded
  <2>1. CASE i \in 1 .. n
    BY <2>1, <1>3 DEF IInv, Recorded
  <2>2. CASE i = n + 1
    <3>1. cpu.if => pc = "run"  BY DEF IInv, Installed
    <3>2. i > MaxDepth => v = PageFault
      BY <1>2, <1>7, <2>2, InterruptsConstants DEF InterruptsConstants, n
    <3> QED  BY <1>1, <1>3, <2>2, <3>1, <3>2
  <2>3. i \in 1 .. n \/ i = n + 1  BY <1>7
  <2> QED  BY <2>1, <2>2, <2>3, Zenon
<1>5. cpu' \in CpuType /\ cpu'.if = cpu.if
  <2>1. cpu \in CpuType  BY DEF IInv, TypeOK, CpuType
  <2> QED  BY <2>1, CpuWrites DEF Enter
<1>6. Unacknowledged' = IF v = PageFault THEN Unacknowledged
                        ELSE Unacknowledged \cup {n + 1}
  <2>1. \A i \in 1 .. n : i \in Unacknowledged' <=> i \in Unacknowledged
    BY <1>2, <1>7, <1>3 DEF Unacknowledged
  <2>2. n + 1 \in Unacknowledged' <=> v # PageFault
    BY <1>1, <1>2, <1>3 DEF Unacknowledged, PageFault, Timer, IRQ0, ApicSpurious
  <2>3. Unacknowledged' \subseteq 1 .. n + 1 /\ Unacknowledged \subseteq 1 .. n
    BY <1>3 DEF Unacknowledged
  <2>6. \A i : i \in Unacknowledged' <=> i \in Unacknowledged \/ (v # PageFault /\ i = n + 1)
    <3> TAKE i
    <3>1. i \in 1 .. n \/ i = n + 1 \/ i \notin 1 .. n + 1  BY <1>7
    <3>2. n + 1 \notin 1 .. n /\ \A k \in 1 .. n : k \in 1 .. n + 1  BY <1>7
    <3> QED  BY <2>1, <2>2, <2>3, <3>1, <3>2, Zenon
  <2>4. CASE v = PageFault
    BY <2>6, <2>4, Zenon
  <2>5. CASE v # PageFault
    BY <2>6, <2>5, Zenon
  <2> QED  BY <2>4, <2>5
<1> QED  BY <1>1, <1>3, <1>4, <1>5, <1>6 DEF n

\* __panic for an exception.
LEMMA PanicKeeps ==
    ASSUME IInv, NEW v \in {NonMaskable, PageFault}, Panic(v, apic),
           UNCHANGED <<pc, stack, table, line, spurious>>
    PROVE  IInv'
<1> USE DEF IInv
<1>1. cpu' \in CpuType /\ cpu'.if = FALSE
  <2>1. cpu \in CpuType  BY DEF TypeOK, CpuType
  <2> QED  BY <2>1, CpuWrites DEF Panic
<1>2. apic' \in ApicType
  <2>1. apic \in ApicType  BY DEF TypeOK, ApicType
  <2>2. apic.irr \cup {IPIAbort} \in SUBSET Vectors
    BY <2>1 DEF ApicType, Vectors
  <2>3. [apic EXCEPT !.irr = apic.irr \cup {IPIAbort}] \in ApicType
    BY <2>1, <2>2, ApicWrites, Zenon
  <2> QED  BY <2>1, <2>3 DEF Panic
<1>3. status' = "panic" /\ cause' = v /\ v \in Vectors  BY DEF Panic, Vectors
<1>4. TypeOK'  BY <1>1, <1>2, <1>3 DEF TypeOK, CpuType, ApicType
<1>5. Installed'  BY <1>1 DEF Installed
<1>6. Recorded'  BY DEF Recorded
<1>7. StopsAreExplained' /\ InServiceOrder'
  BY <1>3 DEF StopsAreExplained, InServiceOrder
<1> QED  BY <1>4, <1>5, <1>6, <1>7

\* A reset keeps what is true of the machine that was.
LEMMA LostKeeps ==
    ASSUME IInv, Lost, UNCHANGED spurious
    PROVE  IInv'
<1> USE DEF IInv
<1>1. status' = "reset" /\ UNCHANGED <<pc, cpu, stack, table, apic, line, cause, spurious>>
  BY DEF Lost
<1>2. TypeOK'  BY <1>1 DEF TypeOK
<1>3. Installed' /\ Recorded'  BY <1>1 DEF Installed, Recorded
<1>4. StopsAreExplained' /\ InServiceOrder'
  BY <1>1 DEF StopsAreExplained, InServiceOrder
<1> QED  BY <1>2, <1>3, <1>4

\* A non-maskable interrupt arrives.
LEMMA RaiseNonMaskableKeeps ==
    ASSUME IInv, RaiseNonMaskable
    PROVE  IInv'
<1>1. table[NonMaskable] = "null"  BY DEF IInv, Installed
<1>2. spurious' = spurious  BY DEF RaiseNonMaskable
<1>3. CASE Lost  BY <1>2, <1>3, LostKeeps
<1>4. CASE Take(NonMaskable, apic)
  <2>1. Panic(NonMaskable, apic) /\ UNCHANGED <<pc, stack, table, line, spurious>>
    BY <1>1, <1>2, <1>4 DEF Take
  <2> QED  BY <2>1, PanicKeeps
<1> QED  BY <1>3, <1>4 DEF RaiseNonMaskable

\* A page fault puts nothing in service.
LEMMA RaisePageFaultKeeps ==
    ASSUME IInv, RaisePageFault
    PROVE  IInv'
<1>1. spurious' = spurious  BY DEF RaisePageFault
<1>2. CASE Lost  BY <1>1, <1>2, LostKeeps
<1>3. CASE Take(PageFault, apic) /\ table[PageFault] = "null"
  <2>1. Panic(PageFault, apic) /\ UNCHANGED <<pc, stack, table, line, spurious>>
    BY <1>1, <1>3 DEF Take
  <2> QED  BY <2>1, PanicKeeps
<1>4. CASE Take(PageFault, apic) /\ table[PageFault] # "null"
  <2>1. /\ Enter(PageFault) /\ status = "up"
        /\ UNCHANGED <<pc, table, apic, line, status, cause, spurious>>
    BY <1>1, <1>4 DEF Take
  <2>2. spurious' = 0 => spurious = 0 /\ PageFault # ApicSpurious
    BY <2>1 DEF PageFault, ApicSpurious
  <2>3. /\ stack' \in Seq(Activation) /\ Recorded'
        /\ cpu' \in CpuType /\ cpu'.if = cpu.if
        /\ \A i \in DOMAIN stack : stack'[i] = stack[i]
        /\ Unacknowledged' = Unacknowledged
    BY <2>1, <2>2, EnterAdds
  <2>4. TypeOK'  BY <2>1, <2>3 DEF IInv, TypeOK, CpuType
  <2>5. Installed'  BY <2>1, <2>3 DEF IInv, Installed
  <2>6. StopsAreExplained'  BY <2>1 DEF StopsAreExplained
  <2>7. InServiceOrder'
    <3>1. \A i \in Unacknowledged : stack'[i] = stack[i]
      BY <2>3 DEF Unacknowledged
    <3> QED  BY <2>1, <2>3, <3>1 DEF IInv, InServiceOrder
  <2> QED  BY <2>3, <2>4, <2>5, <2>6, <2>7 DEF IInv
<1> QED  BY <1>2, <1>3, <1>4 DEF RaisePageFault

\* The timer asks for an interrupt.
LEMMA RaiseTimerKeeps ==
    ASSUME IInv, RaiseTimer
    PROVE  IInv'
<1> USE DEF IInv
<1>1. apic' \in ApicType /\ apic'.isr = apic.isr
  <2>1. apic \in ApicType  BY DEF TypeOK, ApicType
  <2>2. apic.irr \cup {Timer} \in SUBSET Vectors  BY <2>1 DEF ApicType, Vectors
  <2> DEFINE irr == apic.irr \cup {Timer}
  <2>3. apic' = [apic EXCEPT !.irr = irr]  BY DEF RaiseTimer
  <2> HIDE DEF irr
  <2> QED  BY <2>1, <2>2, <2>3, ApicWrites, Zenon DEF irr
<1>2. status = "up" /\ UNCHANGED <<pc, cpu, stack, table, line, status, cause, spurious>>
  BY DEF RaiseTimer
<1>3. TypeOK'  BY <1>1, <1>2 DEF TypeOK, ApicType
<1>4. Installed' /\ Recorded' /\ StopsAreExplained'
  BY <1>2 DEF Installed, Recorded, StopsAreExplained
<1>5. InServiceOrder'
  <2>1. Unacknowledged' = Unacknowledged  BY <1>2 DEF Unacknowledged
  <2> QED  BY <1>1, <1>2, <2>1 DEF InServiceOrder
<1> QED  BY <1>3, <1>4, <1>5

\* Without spurious interrupts only a tick is ever in service.
LEMMA OnlyTicksInService ==
    ASSUME IInv, status = "up", spurious = 0
    PROVE  /\ \A i \in Unacknowledged : stack[i].vector = Timer
           /\ apic.isr \subseteq {Timer}
           /\ \A i, j \in Unacknowledged : ~(i < j)
<1>1. ASSUME NEW i \in Unacknowledged PROVE stack[i].vector = Timer
  <2>1. i \in DOMAIN stack /\ stack[i].vector >= 32  BY DEF Unacknowledged, IRQ0
  <2>2. stack[i].vector \in {PageFault, Timer} /\ ~(PageFault >= 32)
    BY <2>1 DEF IInv, Recorded, PageFault
  <2> QED  BY <2>1, <2>2
<1>2. apic.isr = {stack[i].vector : i \in Unacknowledged}
  BY DEF IInv, InServiceOrder
<1>3. \A i, j \in Unacknowledged :
         i < j => stack[i].vector \div 16 < stack[j].vector \div 16
  BY DEF IInv, InServiceOrder
<1>4. ~(Timer \div 16 < Timer \div 16)  BY DEF Timer, IRQ0
<1>5. \A i, j \in Unacknowledged : ~(i < j)
  BY <1>1, <1>3, <1>4, Zenon
<1> QED  BY <1>1, <1>2, <1>5

\* The APIC delivers the timer's interrupt.
LEMMA DeliverTimerKeeps ==
    ASSUME IInv, DeliverTimer
    PROVE  IInv'
<1> DEFINE a == [apic EXCEPT !.irr = @ \ {Timer}, !.isr = @ \cup {Timer}]
<1>1. table[Timer] = "irq"  BY DEF DeliverTimer, IInv, Installed
<1>2. Take(Timer, a) /\ Len(stack) < MaxDepth /\ spurious' = spurious
      /\ \A s \in apic.isr : Timer \div 16 > s \div 16
  BY DEF DeliverTimer
<1>3. a \in ApicType /\ a.isr = apic.isr \cup {Timer}
  <2>1. apic \in ApicType  BY DEF IInv, TypeOK, ApicType
  <2> DEFINE irr == apic.irr \ {Timer}
             isr == apic.isr \cup {Timer}
  <2>2. irr \in SUBSET Vectors /\ isr \in SUBSET Vectors
    BY <2>1 DEF ApicType, Vectors
  <2>3. a = [apic EXCEPT !.irr = irr, !.isr = isr]  OBVIOUS
  <2> HIDE DEF irr, isr, a
  <2>4. a \in ApicType /\ a.isr = isr  BY <2>1, <2>2, <2>3, ApicWrites, Zenon
  <2> QED  BY <2>4 DEF isr
<1> HIDE DEF a
<1>4. /\ Enter(Timer) /\ status = "up" /\ apic' = a
      /\ UNCHANGED <<pc, table, line, status, cause, spurious>>
  BY <1>1, <1>2 DEF Take
<1>5. spurious' = 0 => spurious = 0 /\ Timer # ApicSpurious
  BY <1>4 DEF Timer, IRQ0, ApicSpurious
<1> DEFINE n == Len(stack)
<1>6. /\ stack' \in Seq(Activation) /\ Recorded'
      /\ cpu' \in CpuType /\ cpu'.if = cpu.if
      /\ stack'[n + 1].vector = Timer
      /\ \A i \in DOMAIN stack : stack'[i] = stack[i]
      /\ Unacknowledged' = Unacknowledged \cup {n + 1}
  <2>1. Timer # PageFault  BY DEF Timer, IRQ0, PageFault
  <2> QED  BY <1>2, <1>4, <1>5, <2>1, EnterAdds
<1> HIDE DEF n
<1>7. TypeOK'  BY <1>3, <1>4, <1>6 DEF IInv, TypeOK, CpuType, ApicType
<1>8. Installed'  BY <1>4, <1>6 DEF IInv, Installed
<1>9. StopsAreExplained'  BY <1>4 DEF StopsAreExplained
<1>10. InServiceOrder'
  <2> SUFFICES ASSUME spurious = 0
               PROVE  /\ apic'.isr = {stack'[i].vector : i \in Unacknowledged'}
                      /\ \A i, j \in Unacknowledged' :
                           i < j => stack'[i].vector \div 16 < stack'[j].vector \div 16
    BY <1>4 DEF InServiceOrder
  <2>1. apic.isr = {stack[i].vector : i \in Unacknowledged} /\ apic.isr \subseteq {Timer}
    BY <1>4, OnlyTicksInService DEF IInv, InServiceOrder
  <2>2. Timer \notin apic.isr  BY <1>2 DEF Timer, IRQ0
  <2>3. Unacknowledged = {}  BY <2>1, <2>2
  <2>4. Unacknowledged' = {n + 1} /\ apic'.isr = {Timer}
    BY <1>3, <1>4, <1>6, <2>1, <2>2, <2>3
  <2>5. n \in Nat  BY Elements DEF n
  <2> QED  BY <1>6, <2>4, <2>5
<1> QED  BY <1>6, <1>7, <1>8, <1>9, <1>10 DEF IInv

\* A spurious interrupt is not put in service, and its handler was registered
\* by APIC::init.
LEMMA DeliverSpuriousKeeps ==
    ASSUME IInv, DeliverSpurious
    PROVE  IInv'
<1>1. table[ApicSpurious] = "irq"  BY DEF DeliverSpurious, IInv, Installed
<1>2. Len(stack) < MaxDepth /\ spurious' = spurious + 1 /\ spurious' \in 0 .. MaxSpurious
      /\ spurious' # 0
  BY InterruptsConstants DEF DeliverSpurious, IInv, TypeOK, InterruptsConstants
<1>3. /\ Enter(ApicSpurious) /\ status = "up"
      /\ UNCHANGED <<pc, table, apic, line, status, cause>>
  BY <1>1 DEF DeliverSpurious, Take
<1>4. /\ stack' \in Seq(Activation) /\ Recorded'
      /\ cpu' \in CpuType /\ cpu'.if = cpu.if
  BY <1>2, <1>3, EnterAdds
<1>5. TypeOK'  BY <1>2, <1>3, <1>4 DEF IInv, TypeOK, CpuType
<1>6. Installed'  BY <1>3, <1>4 DEF IInv, Installed
<1>7. StopsAreExplained' /\ InServiceOrder'
  BY <1>2, <1>3 DEF StopsAreExplained, InServiceOrder
<1> QED  BY <1>4, <1>5, <1>6, <1>7 DEF IInv

-----------------------------------------------------------------------------
(* Serving it *)

\* The dispatcher's next phase changes nothing else of the activation.
LEMMA TopChanges ==
    ASSUME IInv, stack # << >>, NEW p \in {"handle", "eoi", "return"}, stack' = WithPhase(p)
    PROVE  /\ Len(stack) \in DOMAIN stack /\ Top = stack[Len(stack)]
           /\ stack' \in Seq(Activation) /\ DOMAIN stack' = DOMAIN stack
           /\ \A i \in DOMAIN stack \ {Len(stack)} : stack'[i] = stack[i]
           /\ \A i \in DOMAIN stack :
                 /\ stack'[i].vector = stack[i].vector /\ stack'[i].saved = stack[i].saved
                 /\ stack'[i].before = stack[i].before
           /\ stack'[Len(stack)].phase = p
<1> DEFINE n == Len(stack)
           top == [stack[n] EXCEPT !.phase = p]
<1>1. n \in DOMAIN stack /\ DOMAIN stack = 1 .. n /\ n \in Nat
  BY Elements DEF IInv, TypeOK
<1>2. stack[n] \in Activation  BY <1>1, Elements
<1>3. top \in Activation /\ top.vector = stack[n].vector /\ top.saved = stack[n].saved
      /\ top.before = stack[n].before /\ top.phase = p
  BY <1>2 DEF Activation
<1>4. stack' = [stack EXCEPT ![n] = top]  BY <1>1 DEF WithPhase
<1>5. Top = stack[n]  BY DEF Top, Last
<1> HIDE DEF top, n
<1>6. stack' \in Seq(Activation) /\ DOMAIN stack' = DOMAIN stack
  BY <1>1, <1>3, <1>4 DEF IInv, TypeOK
<1>7. stack'[n] = top /\ \A i \in DOMAIN stack \ {n} : stack'[i] = stack[i]
  BY <1>1, <1>4, <1>6
<1> QED  BY <1>1, <1>3, <1>5, <1>6, <1>7 DEF n

\* An IRQ handler runs and writes the end of interrupt.
LEMMA HandleIrqKeeps ==
    ASSUME IInv, HandleIrq
    PROVE  IInv'
<1> DEFINE n == Len(stack)
           reg == [r \in Regs |-> IF r \in CallerSaved THEN [by |-> Len(stack), reg |-> r]
                                  ELSE cpu.reg[r]]
<1>1. /\ status = "up" /\ stack # << >> /\ Top.phase = "handle" /\ table[Top.vector] = "irq"
      /\ stack' = WithPhase("eoi") /\ cpu' = [cpu EXCEPT !.reg = reg]
      /\ UNCHANGED <<pc, table, apic, line, status, cause, spurious>>
  BY PhaseOrder DEF HandleIrq, Serving
<1>2. /\ n \in DOMAIN stack /\ Top = stack[n]
      /\ stack' \in Seq(Activation) /\ DOMAIN stack' = DOMAIN stack
      /\ \A i \in DOMAIN stack \ {n} : stack'[i] = stack[i]
      /\ \A i \in DOMAIN stack :
            /\ stack'[i].vector = stack[i].vector /\ stack'[i].saved = stack[i].saved
            /\ stack'[i].before = stack[i].before
      /\ stack'[n].phase = "eoi"
  BY <1>1, TopChanges
<1>3. stack[n].vector # PageFault
  BY <1>1, <1>2 DEF IInv, Installed
<1>4. n \in 0 .. MaxDepth
  <2>1. n \in Nat /\ ~(n > MaxDepth)
    BY <1>2, <1>3, Elements DEF IInv, Recorded
  <2> QED  BY <2>1, InterruptsConstants DEF InterruptsConstants
<1>5. cpu' \in CpuType /\ cpu'.if = cpu.if
  <2>1. reg \in [Regs -> Values]
    <3> SUFFICES ASSUME NEW r \in Regs
                 PROVE  (IF r \in CallerSaved THEN [by |-> n, reg |-> r]
                         ELSE cpu.reg[r]) \in Values
      OBVIOUS
    <3>1. [by |-> n, reg |-> r] \in Values  BY <1>4 DEF Values
    <3>2. cpu.reg[r] \in Values  BY Elements
    <3> QED  BY <3>1, <3>2
  <2>2. cpu \in CpuType  BY DEF IInv, TypeOK, CpuType
  <2>3. cpu' = [cpu EXCEPT !.reg = reg]  BY <1>1
  <2> HIDE DEF reg
  <2>4. [cpu EXCEPT !.reg = reg] \in CpuType /\ [cpu EXCEPT !.reg = reg].if = cpu.if
    BY <2>1, <2>2 DEF CpuType
  <2> QED  BY <2>3, <2>4
<1> HIDE DEF n, reg
<1>6. TypeOK'  BY <1>1, <1>2, <1>5 DEF IInv, TypeOK, CpuType
<1>7. Installed' /\ StopsAreExplained'
  BY <1>1, <1>5 DEF IInv, Installed, StopsAreExplained
<1>8. Recorded'  BY <1>1, <1>2, <1>3 DEF IInv, Recorded
<1>9. InServiceOrder'
  <2>1. \A i \in DOMAIN stack : stack'[i].phase # "return" <=> stack[i].phase # "return"
    BY <1>1, <1>2
  <2>2. Unacknowledged' = Unacknowledged  BY <1>2, <2>1 DEF Unacknowledged
  <2>3. \A i \in Unacknowledged : stack'[i].vector = stack[i].vector
    BY <1>2 DEF Unacknowledged
  <2> QED  BY <1>1, <2>2, <2>3 DEF IInv, InServiceOrder
<1> QED  BY <1>6, <1>7, <1>8, <1>9 DEF IInv

\* The page fault handler stops the kernel.
LEMMA HandlePageFaultKeeps ==
    ASSUME IInv, HandlePageFault
    PROVE  IInv'
<1>1. /\ Panic(Top.vector, apic) /\ stack # << >> /\ table[Top.vector] = "page_fault"
      /\ UNCHANGED <<pc, stack, table, line, spurious>>
  BY DEF HandlePageFault, Serving
<1>2. Top \in Activation /\ Top.vector \in {PageFault, Timer, ApicSpurious}
  <2>1. Len(stack) \in DOMAIN stack  BY <1>1, Elements DEF IInv, TypeOK
  <2> QED  BY <2>1, Elements DEF IInv, Recorded, Top, Last
<1>3. Top.vector = PageFault  BY <1>1, <1>2 DEF IInv, Installed
<1> QED  BY <1>1, <1>3, PanicKeeps

\* The acknowledged vector is the one of the handler that runs.
LEMMA EoiKeeps ==
    ASSUME IInv, Eoi
    PROVE  IInv'
<1> DEFINE n == Len(stack)
<1>1. /\ status = "up" /\ stack # << >> /\ Top.phase = "eoi"
      /\ stack' = WithPhase("return") /\ apic' = [apic EXCEPT !.isr = Acknowledged]
      /\ UNCHANGED <<pc, cpu, table, line, status, cause, spurious>>
  BY PhaseOrder DEF Eoi, Serving
<1>2. /\ n \in DOMAIN stack /\ Top = stack[n]
      /\ stack' \in Seq(Activation) /\ DOMAIN stack' = DOMAIN stack
      /\ \A i \in DOMAIN stack \ {n} : stack'[i] = stack[i]
      /\ \A i \in DOMAIN stack :
            /\ stack'[i].vector = stack[i].vector /\ stack'[i].saved = stack[i].saved
            /\ stack'[i].before = stack[i].before
      /\ stack'[n].phase = "return"
  BY <1>1, TopChanges
<1>3. stack[n].vector # PageFault
  BY <1>1, <1>2 DEF IInv, Recorded
<1>4. apic' \in ApicType /\ apic'.isr = Acknowledged
  <2>1. apic \in ApicType  BY DEF IInv, TypeOK, ApicType
  <2>2. Acknowledged \in SUBSET Vectors  BY <2>1, AcknowledgedIs DEF ApicType
  <2> QED  BY <1>1, <2>1, <2>2, ApicWrites, Zenon
<1> HIDE DEF n
<1>5. TypeOK'  BY <1>1, <1>2, <1>4 DEF IInv, TypeOK, ApicType
<1>6. Installed' /\ StopsAreExplained'
  BY <1>1 DEF IInv, Installed, StopsAreExplained
<1>7. Recorded'  BY <1>1, <1>2, <1>3 DEF IInv, Recorded
<1>8. InServiceOrder'
  <2> SUFFICES ASSUME spurious = 0
               PROVE  apic'.isr = {} /\ Unacknowledged' = {}
    BY <1>1 DEF InServiceOrder
  <2>1. /\ \A i \in Unacknowledged : stack[i].vector = Timer
        /\ \A i, j \in Unacknowledged : ~(i < j)
    BY <1>1, OnlyTicksInService
  <2>2. stack[n].vector >= IRQ0
    BY <1>2, <1>3, Elements DEF IInv, Recorded, Timer, IRQ0, ApicSpurious
  <2>3. n \in Unacknowledged  BY <1>1, <1>2, <2>2 DEF Unacknowledged
  <2>4. \A i \in Unacknowledged : i = n
    <3>1. Unacknowledged \subseteq 1 .. n  BY Elements DEF Unacknowledged, n
    <3>2. n \in Nat  BY Elements DEF n
    <3> QED  BY <2>1, <2>3, <3>1, <3>2
  <2>5. apic.isr = {Timer}
    <3>1. apic.isr = {stack[i].vector : i \in Unacknowledged}
      BY <1>1 DEF IInv, InServiceOrder
    <3> QED  BY <2>1, <2>3, <3>1
  <2>6. apic'.isr = {}  BY <1>4, <2>5, AcknowledgedIs DEF Timer, IRQ0
  <2>7. Unacknowledged' = {}
    <3>1. \A i \in Unacknowledged' : i \in Unacknowledged /\ i # n
      BY <1>2 DEF Unacknowledged
    <3> QED  BY <2>4, <3>1
  <2> QED  BY <2>6, <2>7
<1> QED  BY <1>5, <1>6, <1>7, <1>8 DEF IInv

\* The words popaq reads for a register are those of pushaq, for all but two.
LEMMA PoppedIs ==
    ASSUME NEW reg \in [Regs -> Values], NEW before \in [Regs -> Values]
    PROVE  LET back == Popped(reg, Pushed(before))
           IN  /\ back \in [Regs -> Values]
               /\ \A r \in Regs \ {"rcx", "rdx"} : back[r] = before[r]
<1> DEFINE saved == Pushed(before)
           back == Popped(reg, saved)
<1>1. saved \in [1 .. 15 -> Values] /\ \A k \in 1 .. 15 : saved[k] = before[PushOrder[k]]
  BY PushOrderIs DEF Pushed
<1>2. Len(saved) = 15
  <2>1. saved \in Seq(Values)  BY <1>1, IsASeq DEF Pushed
  <2>2. DOMAIN saved = 1 .. Len(saved) /\ Len(saved) \in Nat  BY <2>1, LenProperties
  <2>3. DOMAIN saved = 1 .. 15  BY <1>1
  <2> DEFINE n == Len(saved)
  <2> HIDE DEF saved, n
  <2>4. n \in Nat /\ 1 .. n = 1 .. 15  BY <2>2, <2>3 DEF n
  <2>5. 15 \in 1 .. n  BY <2>4, 15 \in 1 .. 15
  <2>6. n \in 1 .. 15  BY <2>4, <2>5
  <2>7. n = 15  BY <2>5, <2>6
  <2> QED  BY <2>7 DEF n
<1> HIDE DEF saved
<1>3. \A r \in Regs : back[r] = IF PopOf[r] = 0 THEN reg[r] ELSE saved[16 - PopOf[r]]
  BY <1>2, PopOfType DEF Popped
<1>4. back \in [Regs -> Values]
  <2> SUFFICES ASSUME NEW r \in Regs PROVE back[r] \in Values
    BY DEF Popped
  <2>1. PopOf[r] \in 0 .. 15  BY PopOfType
  <2>2. CASE PopOf[r] = 0  BY <1>3, <2>2
  <2>3. CASE PopOf[r] # 0
    <3>1. 16 - PopOf[r] \in 1 .. 15  BY <2>1, <2>3
    <3> QED  BY <1>1, <1>3, <2>3, <3>1
  <2> QED  BY <2>2, <2>3
<1>5. ASSUME NEW r \in Regs \ {"rcx", "rdx"} PROVE back[r] = before[r]
  <2>1. PICK k \in 1 .. 15 : PushOrder[k] = r  BY PushOrderIs
  <2>2. PopOf[r] = 16 - k  BY <2>1, PopsMirrorPushes
  <2>3. PopOf[r] # 0 /\ 16 - PopOf[r] = k  BY <2>2
  <2> QED  BY <1>1, <1>3, <2>1, <2>3
<1> QED  BY <1>4, <1>5 DEF saved

\* What a return does to the stack and the registers.
LEMMA ReturnGivesBack ==
    ASSUME IInv, Return
    PROVE  /\ Len(stack) \in DOMAIN stack /\ Top = stack[Len(stack)]
           /\ stack' \in Seq(Activation) /\ Len(stack') = Len(stack) - 1
           /\ DOMAIN stack' = DOMAIN stack \ {Len(stack)}
           /\ \A i \in DOMAIN stack' : stack'[i] = stack[i]
           /\ cpu' \in CpuType /\ cpu'.if = Top.before.if
           /\ \A r \in Regs \ {"rcx", "rdx"} : cpu'.reg[r] = Top.before.reg[r]
<1> DEFINE n == Len(stack)
           back == Popped(cpu.reg, Top.saved)
<1>1. /\ stack # << >> /\ stack' = SubSeq(stack, 1, n - 1)
      /\ cpu' = [cpu EXCEPT !.reg = back, !.gs = "zero", !.if = Top.before.if]
  BY DEF Return, Serving, Front
<1>2. stack \in Seq(Activation)  BY DEF IInv, TypeOK
<1>3. n \in Nat \ {0} /\ DOMAIN stack = 1 .. n /\ n \in DOMAIN stack /\ Top = stack[n]
  BY <1>1, <1>2 DEF Top, Last
<1>4. /\ stack' \in Seq(Activation) /\ Len(stack') = n - 1 /\ DOMAIN stack' = 1 .. n - 1
      /\ \A i \in 1 .. n - 1 : stack'[i] = stack[i]
  BY <1>1, <1>2, <1>3
<1>5. /\ Top.before.if \in BOOLEAN /\ Top.before.reg \in [Regs -> Values]
      /\ Top.saved = Pushed(Top.before.reg)
  BY <1>3, Elements DEF IInv, Recorded
<1>6. cpu \in CpuType /\ cpu.reg \in [Regs -> Values]
  BY Elements DEF IInv, TypeOK, CpuType
<1>7. /\ back \in [Regs -> Values]
      /\ \A r \in Regs \ {"rcx", "rdx"} : back[r] = Top.before.reg[r]
  BY <1>5, <1>6, PoppedIs
<1> HIDE DEF n, back
<1>8. cpu' \in CpuType /\ cpu'.if = Top.before.if /\ cpu'.reg = back
  <2> DEFINE if == Top.before.if
             w == [cpu EXCEPT !.reg = back, !.gs = "zero", !.if = if]
  <2>1. if \in BOOLEAN /\ cpu' = w  BY <1>1, <1>5
  <2> HIDE DEF if
  <2>2. w \in CpuType /\ w.reg = back /\ w.if = if
    BY <1>6, <1>7, <2>1 DEF CpuType
  <2> QED  BY <2>1, <2>2 DEF if
<1>9. DOMAIN stack' = DOMAIN stack \ {n}  BY <1>3, <1>4
<1> QED  BY <1>3, <1>4, <1>7, <1>8, <1>9 DEF n

\* iret goes back to what was interrupted.
LEMMA ReturnKeeps ==
    ASSUME IInv, Return
    PROVE  IInv'
<1> DEFINE n == Len(stack)
<1>1. /\ status = "up" /\ Top.phase = "return"
      /\ UNCHANGED <<pc, table, apic, line, status, cause, spurious>>
  BY DEF Return, Serving
<1>2. /\ n \in DOMAIN stack /\ Top = stack[n]
      /\ stack' \in Seq(Activation) /\ DOMAIN stack' = DOMAIN stack \ {n}
      /\ \A i \in DOMAIN stack' : stack'[i] = stack[i]
      /\ cpu' \in CpuType /\ cpu'.if = Top.before.if
  BY ReturnGivesBack
<1> HIDE DEF n
<1>3. TypeOK'  BY <1>1, <1>2 DEF IInv, TypeOK, CpuType
<1>4. Installed'
  <2>1. cpu'.if => pc = "run"  BY <1>2 DEF IInv, Recorded
  <2> QED  BY <1>1, <2>1 DEF IInv, Installed
<1>5. Recorded'  BY <1>1, <1>2 DEF IInv, Recorded
<1>6. StopsAreExplained'  BY <1>1 DEF StopsAreExplained
<1>7. InServiceOrder'
  <2>1. Unacknowledged' = Unacknowledged  BY <1>1, <1>2 DEF Unacknowledged
  <2>2. \A i \in Unacknowledged : stack'[i] = stack[i]
    BY <1>2, <2>1 DEF Unacknowledged
  <2> QED  BY <1>1, <2>1, <2>2 DEF IInv, InServiceOrder
<1> QED  BY <1>3, <1>4, <1>5, <1>6, <1>7 DEF IInv

-----------------------------------------------------------------------------
(* The theorems *)

\* The invariant holds before the boot.
LEMMA InitMakesIInv == Init => IInv
<1> SUFFICES ASSUME Init PROVE IInv  OBVIOUS
<1>1. cpu \in CpuType /\ cpu.if = FALSE
  <2>1. [r \in Regs |-> [by |-> 0, reg |-> r]] \in [Regs -> Values]
    BY InterruptsConstants DEF InterruptsConstants, Values
  <2> QED  BY <2>1 DEF Init, CpuType
<1>2. stack \in Seq(Activation) /\ DOMAIN stack = {}  BY DEF Init
<1>3. apic \in ApicType /\ apic.isr = {}  BY DEF Init, ApicType
<1>9. table \in [Vectors -> {"null", "irq", "page_fault"}]  BY DEF Init
<1>10. cause \in Vectors \cup {0} /\ spurious \in 0 .. MaxSpurious
  BY InterruptsConstants DEF Init, InterruptsConstants
<1>4. TypeOK
  BY <1>1, <1>2, <1>3, <1>9, <1>10 DEF Init, TypeOK, CpuType, ApicType
<1>5. Installed
  BY <1>1 DEF Init, Installed, Vectors, NonMaskable, PageFault, Timer, IRQ0, IPIAbort, ApicSpurious
<1>6. Recorded  BY <1>2 DEF Recorded
<1>7. StopsAreExplained  BY DEF Init, StopsAreExplained
<1>8. InServiceOrder
  <2>1. Unacknowledged = {}  BY <1>2 DEF Unacknowledged
  <2> QED  BY <1>3, <2>1 DEF InServiceOrder
<1> QED  BY <1>4, <1>5, <1>6, <1>7, <1>8 DEF IInv

\* Every step keeps the invariant.
LEMMA NextKeepsIInv == IInv /\ [Next]_vars => IInv'
<1> SUFFICES ASSUME IInv, [Next]_vars PROVE IInv'  OBVIOUS
<1>1. CASE Boot  BY <1>1, BootKeeps
<1>2. CASE RaiseTimer  BY <1>2, RaiseTimerKeeps
<1>3. CASE RaiseNonMaskable  BY <1>3, RaiseNonMaskableKeeps
<1>4. CASE RaisePageFault  BY <1>4, RaisePageFaultKeeps
<1>5. CASE DeliverTimer  BY <1>5, DeliverTimerKeeps
<1>6. CASE DeliverSpurious  BY <1>6, DeliverSpuriousKeeps
<1>7. CASE HandleIrq  BY <1>7, HandleIrqKeeps
<1>8. CASE HandlePageFault  BY <1>8, HandlePageFaultKeeps
<1>9. CASE Eoi  BY <1>9, EoiKeeps
<1>10. CASE Return  BY <1>10, ReturnKeeps
<1>11. CASE UNCHANGED vars
  BY <1>11 DEF vars, IInv, TypeOK, Installed, Recorded, StopsAreExplained, InServiceOrder,
               Unacknowledged
<1> QED
  BY <1>1, <1>2, <1>3, <1>4, <1>5, <1>6, <1>7, <1>8, <1>9, <1>10, <1>11 DEF Next, Serve

\* Every variable keeps its type, whatever the depth: no handler of an interrupt
\* runs deeper than MaxDepth, and each activation has fifteen saved words.
THEOREM InterruptsTyped == Spec => []TypeOK
<1>1. IInv => TypeOK  BY DEF IInv
<1> QED  BY <1>1, InitMakesIInv, NextKeepsIInv, PTL DEF Spec

\* Only an exception stops the kernel: HAL::init unmasks the timer's line before
\* it registers the handler, and yet no interrupt finds its entry empty.
THEOREM OnlyExceptionsStop == Spec => []StopsAreExplained
<1>1. IInv => StopsAreExplained  BY DEF IInv
<1> QED  BY <1>1, InitMakesIInv, NextKeepsIInv, PTL DEF Spec

\* Without spurious interrupts the local APIC has in service exactly what the
\* handlers on the stack have not acknowledged, in order of their class.
THEOREM ServiceFollowsStack == Spec => []InServiceOrder
<1>1. IInv => InServiceOrder  BY DEF IInv
<1> QED  BY <1>1, InitMakesIInv, NextKeepsIInv, PTL DEF Spec

\* Only the return from an interrupt takes an activation off the stack.
LEMMA OnlyReturnPops ==
    ASSUME IInv, [Next]_vars, Len(stack') < Len(stack)
    PROVE  Return
<1>1. Len(stack) \in Nat /\ stack \in Seq(Activation) /\ stack' # stack
  BY Elements DEF IInv, TypeOK
<1>2. ~Boot /\ ~RaiseTimer /\ ~Lost /\ ~HandlePageFault
  BY <1>1 DEF Boot, RegisterPageFault, LoadGdt, WriteSelfToGs, LoadIdt, InitApic, InitTimer,
              RegisterTimer, Halt, EnableInterrupts, RaiseTimer, Lost, HandlePageFault
<1>3. ASSUME NEW v, NEW a PROVE ~Take(v, a)
  <2>1. ~Enter(v)  BY <1>1 DEF Enter
  <2> QED  BY <1>1, <2>1 DEF Take
<1>4. ~RaiseNonMaskable /\ ~RaisePageFault /\ ~DeliverTimer /\ ~DeliverSpurious
  BY <1>2, <1>3 DEF RaiseNonMaskable, RaisePageFault, DeliverTimer, DeliverSpurious
<1>5. ~HandleIrq /\ ~Eoi
  <2> SUFFICES ASSUME HandleIrq \/ Eoi PROVE FALSE  OBVIOUS
  <2>1. stack # << >> /\ \E p \in {"handle", "eoi", "return"} : stack' = WithPhase(p)
    BY PhaseOrder DEF HandleIrq, Eoi, Serving
  <2>2. stack' \in Seq(Activation) /\ DOMAIN stack' = DOMAIN stack
    BY <2>1, TopChanges
  <2> QED  BY <1>1, <2>2
<1> QED  BY <1>1, <1>2, <1>4, <1>5 DEF Next, Serve, vars

\* However handlers nest, the code an interrupt returns to finds every register
\* but rcx and rdx, and IF, as they were.
THEOREM InterruptedCodeGetsBack == Spec => OthersComeBack
<1>1. IInv /\ [Next]_vars =>
        [Len(stack') < Len(stack) =>
            /\ \A r \in Regs \ {"rcx", "rdx"} : cpu'.reg[r] = Top.before.reg[r]
            /\ cpu'.if = Top.before.if]_vars
  BY OnlyReturnPops, ReturnGivesBack
<1> QED  BY <1>1, InitMakesIInv, NextKeepsIInv, PTL DEF Spec, OthersComeBack

=============================================================================
