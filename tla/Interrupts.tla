----------------------------- MODULE Interrupts -----------------------------
(***************************************************************************)
(* Interrupts: the stubs of arch/isr.asm and util.inc, the dispatcher and  *)
(* handler table of isr.cpp and isr.hpp, end of interrupt, and the steps   *)
(* of kmain that set all this up, on one processor with its local APIC.    *)
(*                                                                         *)
(* kmain halts with interrupts off.  HAL::oneshot and HAL::periodic are    *)
(* there for callers that have them on, so beside Halt the main context    *)
(* may end in EnableInterrupts.  Exceptions come in either case.           *)
(*                                                                         *)
(* A register's content is named by who wrote it: the main context is 0,   *)
(* the handler of the d-th nested interrupt is d.  An activation is an     *)
(* interrupt taken and not yet returned from; the last one runs.           *)
(***************************************************************************)
EXTENDS Integers, Sequences, SequencesExt, FiniteSetsExt

CONSTANTS
    MaxDepth,       \* bound: activations at once; one more for a page fault on top
    MaxSpurious     \* bound: spurious interrupts in a run

ASSUME InterruptsConstants ==
    MaxDepth \in Nat \ {0} /\ MaxSpurious \in Nat

VARIABLES
    pc,             \* what kmain does next; "run" once interrupts are on
    cpu,            \* registers, the base of GS, IF, and whether lidt was run
    stack,          \* the activations, innermost last
    table,          \* m_interrupts: vector -> handler, for the vectors in use
    apic,           \* local APIC: m_enabled, requested and in service
    line,           \* the I/O APIC passes the timer's line on
    status,         \* "up", "panic", "halted", "reset" (no IDT yet)
    cause,          \* history: the vector that ended in a panic
    spurious        \* history: spurious interrupts so far

vars == <<pc, cpu, stack, table, apic, line, status, cause, spurious>>

NonMaskable == 2
PageFault == 14
IRQ0 == 32
Timer == IRQ0
IPIAbort == 254
ApicSpurious == 255

Vectors == {NonMaskable, PageFault, Timer, IPIAbort, ApicSpurious}

\* pushaq that leaves out r15; and as it is.
PushOrderShort ==
    <<"rax", "rbx", "rcx", "rdx", "rdi", "rsi", "rbp",
      "r8", "r9", "r10", "r11", "r12", "r13", "r14">>
PushOrder ==
    <<"rax", "rbx", "rcx", "rdx", "rdi", "rsi", "rbp",
      "r8", "r9", "r10", "r11", "r12", "r13", "r14", "r15">>

Regs == {"rax", "rbx", "rcx", "rdx", "rdi", "rsi", "rbp",
         "r8", "r9", "r10", "r11", "r12", "r13", "r14", "r15"}

\* popaq with two registers swapped; and as it is, rdx twice and rcx not at all.
PopOrderSwapped ==
    <<"r15", "r14", "r13", "r12", "r11", "r10", "r9", "r8",
      "rbp", "rdi", "rsi", "rdx", "rdx", "rbx", "rax">>
PopOrder ==
    <<"r15", "r14", "r13", "r12", "r11", "r10", "r9", "r8",
      "rbp", "rsi", "rdi", "rdx", "rdx", "rbx", "rax">>

\* What a C++ function may leave changed.
CallerSaved == {"rax", "rcx", "rdx", "rsi", "rdi", "r8", "r9", "r10", "r11"}

Values == [by : 0 .. MaxDepth, reg : Regs]

\* The words on the kernel's stack, with the phase of the dispatcher and, as
\* history, what the interrupted code had.
Activation ==
    [vector : Vectors, phase : {"handle", "eoi", "return"},
     saved : [1 .. Cardinality(Regs) -> Values],
     before : [reg : [Regs -> Values], if : BOOLEAN]]

Top == Last(stack)

\* handle, then eoi, then back to the stub.
EoiFirst == <<"eoi", "handle", "return">>
Phases == <<"handle", "eoi", "return">>

PhaseAfter(p) == Phases[(CHOOSE i \in DOMAIN Phases : Phases[i] = p) + 1]

WithPhase(p) == [stack EXCEPT ![Len(stack)].phase = p]

-----------------------------------------------------------------------------
Init ==
    /\ pc = "page_fault"
    /\ cpu = [reg |-> [r \in Regs |-> [by |-> 0, reg |-> r]], gs |-> "self",
              if |-> FALSE, idt |-> FALSE]
    /\ stack = << >>
    /\ table = [v \in Vectors |-> "null"]
    /\ apic = [on |-> FALSE, irr |-> {}, isr |-> {}]
    /\ line = FALSE
    /\ status = "up" /\ cause = 0 /\ spurious = 0

\* __panic: interrupts off, the abort broadcast (to this processor too) if the
\* APIC is enabled, the message, hnr.  a is the APIC when the panic comes.
Panic(v, a) ==
    /\ status' = "panic" /\ cause' = v
    /\ cpu' = [cpu EXCEPT !.if = FALSE]
    /\ apic' = IF a.on THEN [a EXCEPT !.irr = @ \cup {IPIAbort}] ELSE a

\* No end of interrupt; and the one of APIC::eoi, which names no vector: the
\* highest in service goes.
NothingAcknowledged == apic.isr
Acknowledged == apic.isr \ {v \in apic.isr : \A w \in apic.isr : v >= w}

\* register_interrupt, when nothing is stored; and as it is.
NotStored(v, handler) == table
Registered(v, handler) == [table EXCEPT ![v] = handler]

-----------------------------------------------------------------------------
(* kmain from the end of init_kernel on.  The main context runs only while   *)
(* no handler does.                                                          *)

MainRuns == status = "up" /\ stack = << >>

RegisterPageFault ==
    /\ MainRuns /\ pc = "page_fault"
    /\ table' = Registered(PageFault, "page_fault")
    /\ pc' = "gdt"
    /\ UNCHANGED <<cpu, stack, apic, line, status, cause, spurious>>

\* Loading GS takes the base from the descriptor.
LoadGdt ==
    /\ MainRuns /\ pc = "gdt"
    /\ cpu' = [cpu EXCEPT !.gs = "zero"]
    /\ pc' = "gs"
    /\ UNCHANGED <<stack, table, apic, line, status, cause, spurious>>

WriteSelfToGs ==
    /\ MainRuns /\ pc = "gs"
    /\ cpu' = [cpu EXCEPT !.gs = "self"]
    /\ pc' = "idt"
    /\ UNCHANGED <<stack, table, apic, line, status, cause, spurious>>

LoadIdt ==
    /\ MainRuns /\ pc = "idt"
    /\ cpu' = [cpu EXCEPT !.idt = TRUE]
    /\ pc' = "apic"
    /\ UNCHANGED <<stack, table, apic, line, status, cause, spurious>>

\* APIC::init masks LINT0 and LINT1, acknowledges an interrupt, is enabled and
\* registers the spurious vector.
InitApic ==
    /\ MainRuns /\ pc = "apic"
    /\ apic' = [apic EXCEPT !.on = TRUE, !.isr = Acknowledged]
    /\ table' = Registered(ApicSpurious, "irq")
    /\ pc' = "timer"
    /\ UNCHANGED <<cpu, stack, line, status, cause, spurious>>

\* APICTimer::init unmasks the timer's line, before its handler is registered.
InitTimer ==
    /\ MainRuns /\ pc = "timer"
    /\ line' = TRUE
    /\ pc' = "handler"
    /\ UNCHANGED <<cpu, stack, table, apic, status, cause, spurious>>

RegisterTimer ==
    /\ MainRuns /\ pc = "handler"
    /\ table' = Registered(Timer, "irq")
    /\ pc' = "done"
    /\ UNCHANGED <<cpu, stack, apic, line, status, cause, spurious>>

\* hnr
Halt ==
    /\ MainRuns /\ pc = "done"
    /\ status' = "halted"
    /\ UNCHANGED <<pc, cpu, stack, table, apic, line, cause, spurious>>

EnableInterrupts ==
    /\ MainRuns /\ pc = "done"
    /\ cpu' = [cpu EXCEPT !.if = TRUE]
    /\ pc' = "run"
    /\ UNCHANGED <<stack, table, apic, line, status, cause, spurious>>

-----------------------------------------------------------------------------
(* Taking an interrupt *)

\* The stub: all gates are trap gates, so IF stays as it is; pushaq, then the
\* kernel's selector into every data segment register, GS with it.
Enter(v) ==
    /\ stack' = Append(stack,
          [vector |-> v, phase |-> Phases[1],
           saved |-> [i \in DOMAIN PushOrder |-> cpu.reg[PushOrder[i]]],
           before |-> [reg |-> cpu.reg, if |-> cpu.if]])
    /\ cpu' = [cpu EXCEPT !.gs = "zero"]

\* isr_interrupt_handler up to the call of the handler; a is the APIC once it
\* has handed the vector over.
Take(v, a) ==
    /\ status = "up" /\ cpu.idt
    /\ IF table[v] = "null"
       THEN Panic(v, a) /\ UNCHANGED stack
       ELSE Enter(v) /\ apic' = a /\ UNCHANGED <<status, cause>>
    /\ UNCHANGED <<pc, table, line>>

\* Before lidt nothing of the kernel's can be entered.
Lost ==
    /\ status = "up" /\ ~cpu.idt
    /\ status' = "reset"
    /\ UNCHANGED <<pc, cpu, stack, table, apic, line, cause>>

\* Through LINT1, until that is masked.
RaiseNonMaskable ==
    /\ ~apic.on
    /\ Lost \/ Take(NonMaskable, apic)
    /\ UNCHANGED spurious

\* Whatever runs touches a page that is not mapped.
RaisePageFault ==
    /\ Len(stack) <= MaxDepth
    /\ Lost \/ Take(PageFault, apic)
    /\ UNCHANGED spurious

\* The line, or the APIC's own timer once oneshot or periodic has armed it.
\* Requests do not count.
RaiseTimer ==
    /\ status = "up" /\ line
    /\ apic' = [apic EXCEPT !.irr = @ \cup {Timer}]
    /\ UNCHANGED <<pc, cpu, stack, table, line, status, cause, spurious>>

\* The APIC hands over what has a higher class than all that is in service.
DeliverTimer ==
    /\ Timer \in apic.irr /\ cpu.if
    /\ Len(stack) < MaxDepth
    /\ \A s \in apic.isr : Timer \div 16 > s \div 16
    /\ Take(Timer, [apic EXCEPT !.irr = @ \ {Timer}, !.isr = @ \cup {Timer}])
    /\ UNCHANGED spurious

\* A spurious interrupt is not put in service.
DeliverSpurious ==
    /\ apic.on /\ cpu.if
    /\ Len(stack) < MaxDepth /\ spurious < MaxSpurious
    /\ Take(ApicSpurious, apic)
    /\ spurious' = spurious + 1

-----------------------------------------------------------------------------
(* Serving it *)

Serving(p) == status = "up" /\ stack # << >> /\ Top.phase = p

\* The handler's code writes every register it may.
HandleIrq ==
    /\ Serving("handle") /\ table[Top.vector] = "irq"
    /\ cpu' = [cpu EXCEPT !.reg =
                  [r \in Regs |-> IF r \in CallerSaved THEN [by |-> Len(stack), reg |-> r]
                                  ELSE @[r]]]
    /\ stack' = WithPhase(PhaseAfter("handle"))
    /\ UNCHANGED <<pc, table, apic, line, status, cause, spurious>>

\* PageFaultHandler::handle
HandlePageFault ==
    /\ Serving("handle") /\ table[Top.vector] = "page_fault"
    /\ Panic(Top.vector, apic)
    /\ UNCHANGED <<pc, stack, table, line, spurious>>

\* IRQHandler::eoi, which the spurious handler inherits.
Eoi ==
    /\ Serving("eoi")
    /\ apic' = [apic EXCEPT !.isr = Acknowledged]
    /\ stack' = WithPhase(PhaseAfter("eoi"))
    /\ UNCHANGED <<pc, cpu, table, line, status, cause, spurious>>

\* Which pop writes a register last, counted from the top of the stack; 0: none.
PopOf == [r \in Regs |-> Max({0} \cup {i \in DOMAIN PopOrder : PopOrder[i] = r})]

\* popaq: the last value pushed goes to the first register of the list.
Popped(reg, saved) ==
    [r \in Regs |-> IF PopOf[r] = 0 THEN reg[r] ELSE saved[Len(saved) + 1 - PopOf[r]]]

\* restore_data_segments loads the selectors, popaq the registers, iretq IF.
Return ==
    /\ Serving("return")
    /\ cpu' = [cpu EXCEPT !.reg = Popped(@, Top.saved), !.gs = "zero", !.if = Top.before.if]
    /\ stack' = Front(stack)
    /\ UNCHANGED <<pc, table, apic, line, status, cause, spurious>>

Boot ==
    \/ RegisterPageFault \/ LoadGdt \/ WriteSelfToGs \/ LoadIdt \/ InitApic
    \/ InitTimer \/ RegisterTimer \/ Halt \/ EnableInterrupts

Serve == HandleIrq \/ HandlePageFault \/ Eoi \/ Return

Next ==
    \/ Boot
    \/ RaiseTimer \/ RaiseNonMaskable \/ RaisePageFault
    \/ DeliverTimer \/ DeliverSpurious
    \/ Serve

\* The processor runs on, and takes a request that stays deliverable.
Spec ==
    /\ Init /\ [][Next]_vars
    /\ WF_vars(Serve) /\ WF_vars(DeliverTimer)

-----------------------------------------------------------------------------
(* Properties *)

\* What every variable holds; an activation has one saved word per register.
TypeOK ==
    /\ pc \in {"page_fault", "gdt", "gs", "idt", "apic", "timer", "handler", "done", "run"}
    /\ cpu \in [reg : [Regs -> Values], gs : {"self", "zero"}, if : BOOLEAN, idt : BOOLEAN]
    /\ stack \in Seq(Activation)
    /\ table \in [Vectors -> {"null", "irq", "page_fault"}]
    /\ apic \in [on : BOOLEAN, irr : SUBSET Vectors, isr : SUBSET Vectors]
    /\ line \in BOOLEAN
    /\ status \in {"up", "panic", "halted", "reset"}
    /\ cause \in Vectors \cup {0}
    /\ spurious \in 0 .. MaxSpurious

\* The local APIC and the stack of handlers tell the same story: without
\* spurious interrupts, in service is exactly what a handler on the stack has
\* not yet acknowledged (handle comes before eoi in isr_interrupt_handler), and
\* each such handler interrupted one of a lower class.
Unacknowledged ==
    {i \in DOMAIN stack : stack[i].phase # "return" /\ stack[i].vector >= IRQ0}

InServiceOrder ==
    (status = "up" /\ spurious = 0) =>
        /\ apic.isr = {stack[i].vector : i \in Unacknowledged}
        /\ \A i, j \in Unacknowledged :
              i < j => stack[i].vector \div 16 < stack[j].vector \div 16

\* However handlers nest, the interrupted code gets back every register but rcx
\* and rdx, and its IF: popaq mirrors pushaq in all other places.
OthersComeBack ==
    [][Len(stack') < Len(stack) =>
          /\ \A r \in Regs \ {"rcx", "rdx"} : cpu'.reg[r] = Top.before.reg[r]
          /\ cpu'.if = Top.before.if]_vars

\* Only an exception stops the kernel: whatever the APIC delivers, its handler
\* is in the table by then (HAL::init unmasks the line before it registers one).
StopsAreExplained == status = "panic" => cause \in {NonMaskable, PageFault}

\* Once interrupts are on, a requested tick is taken unless the kernel stops:
\* no handler leaves something in service that would keep it out for good.
TicksAreServed ==
    (pc = "run" /\ Timer \in apic.irr) ~> (Timer \notin apic.irr \/ status # "up")

\* isr.asm:40, "restore registers".
RegistersComeBack ==
    [][Len(stack') < Len(stack) => cpu'.reg = Top.before.reg]_vars

\* main.cpp:129: the GDT's load erases what GS holds, so the CPU structure is
\* written again, for CPU::current; isr.asm:36, "restore saved segments".
SelfStaysInGs ==
    (status = "up" /\ stack = << >> /\ pc \notin {"page_fault", "gdt", "gs"}) => cpu.gs = "self"
=============================================================================
