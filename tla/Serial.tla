------------------------------- MODULE Serial -------------------------------
(***************************************************************************)
(* The serial port (dev/uart.cpp), what writes to it (log.cpp and the      *)
(* output side of printf) and the chip behind it.                          *)
(*                                                                         *)
(* A byte of output is abstracted to a token: one for a line of the log,   *)
(* one each for the parts of a panic's message.  The processor hands them  *)
(* over one by one and waits for the chip; the chip sends on its own.      *)
(***************************************************************************)
EXTENDS Integers, Sequences, SequencesExt

VARIABLES
    chip,           \* registers of the 16550: dlab, divisor, loop, rx, thr
    ready,          \* m_initialized
    todo,           \* tokens the code is about to write, in order
    said,           \* history: tokens handed to the chip
    wire            \* history: what left the chip

serialVars == <<chip, ready, todo, said, wire>>

Byte(n) == [byte |-> n]
None == [says |-> "nothing"]

\* Register offsets from PORT.
Data == 0
InterruptEnable == 1
FifoControl == 2
LineControl == 3
ModemControl == 4

Absent == Byte(255)     \* what reading a port without a device gives
Probe == 174            \* 0xAE

PowerOn ==
    [dlab |-> FALSE, divisor |-> <<Byte(1), Byte(0)>>, loop |-> FALSE, rx |-> None, thr |-> None]

SerialInit ==
    /\ chip = PowerOn
    /\ ready = FALSE
    /\ todo = << >> /\ said = << >> /\ wire = << >>

\* A bit of a byte, by its weight.
Bit(value, weight) == (value.byte \div weight) % 2 = 1

\* outb on the chip's ports.  kind says what is at the port: a sound chip, one
\* that garbles what it echoes, or nothing.
Out8(c, register, value, kind) ==
    IF kind = "absent" THEN c
    ELSE IF register = Data /\ c.dlab THEN [c EXCEPT !.divisor[1] = value]
    ELSE IF register = Data /\ c.loop
         THEN [c EXCEPT !.rx = IF kind = "sound" THEN value ELSE None]
    ELSE IF register = Data THEN [c EXCEPT !.thr = value]
    ELSE IF register = InterruptEnable /\ c.dlab THEN [c EXCEPT !.divisor[2] = value]
    ELSE IF register = LineControl THEN [c EXCEPT !.dlab = Bit(value, 128)]
    ELSE IF register = ModemControl THEN [c EXCEPT !.loop = Bit(value, 16)]
    ELSE c

\* The writes of UART::init up to the probe.
SetUp ==
    << <<InterruptEnable, 0>>, <<LineControl, 128>>, <<Data, 3>>, <<InterruptEnable, 0>>,
       <<LineControl, 3>>, <<FifoControl, 199>>, <<ModemControl, 11>>,
       <<ModemControl, 30>>, <<Data, Probe>> >>

Kinds == {"sound", "garbles", "absent"}
AfterSetUp ==
    [kind \in Kinds |->
        LET after[n \in 0 .. Len(SetUp)] ==
                IF n = 0 THEN PowerOn
                ELSE Out8(after[n - 1], SetUp[n][1], Byte(SetUp[n][2]), kind)
        IN  after[Len(SetUp)]]

\* UART::init: nothing without SERIAL_OUT.  A chip that fails the probe is left
\* in loopback and never written to again.
UartInit(build, kind) ==
    IF build = "release" THEN UNCHANGED <<chip, ready>>
    ELSE LET echo == IF kind = "absent" THEN Absent ELSE AfterSetUp[kind].rx
         IN  IF echo # Byte(Probe) THEN chip' = AfterSetUp[kind] /\ UNCHANGED ready
             ELSE /\ chip' = Out8(AfterSetUp[kind], ModemControl, Byte(15), kind)
                  /\ ready' = TRUE

\* The chip's holding register is empty, or the writer does not look.
DoesNotLook == TRUE
HoldingEmpty == chip.thr = None

\* UART::write, and what panic_write_out and _putchar do with a character.
Write ==
    /\ todo # << >>
    /\ IF ~ready THEN UNCHANGED <<chip, said>>
       ELSE /\ HoldingEmpty
            /\ chip' = Out8(chip, Data, Head(todo), "sound")
            /\ said' = Append(said, Head(todo))
    /\ todo' = Tail(todo)
    /\ UNCHANGED <<ready, wire>>

\* The chip sends what it holds, at 38400 baud if the divisor says so.
Transmit ==
    /\ chip.thr # None
    /\ wire' = Append(wire, IF chip.divisor = <<Byte(3), Byte(0)>> THEN chip.thr
                             ELSE [says |-> "garbled"])
    /\ chip' = [chip EXCEPT !.thr = None]
    /\ UNCHANGED <<ready, todo, said>>

\* _log_message behind dmesgln and critical_dmesgln, which expand to nothing
\* in a release build.
LogLine(build, says) == IF build = "release" THEN << >> ELSE <<says>>

\* Whatever is handed to the chip goes out, whole, in order and at the speed
\* uart.cpp:16 promises; the probe does not.
SerialLosesNothing ==
    ready => said = wire \o (IF chip.thr = None THEN << >> ELSE <<chip.thr>>)
=============================================================================
