------------------------------- MODULE Timers -------------------------------
(***************************************************************************)
(* The timers (dev/hal.cpp, dev/timer): the HPET, by which the counter of  *)
(* the local APIC is calibrated, and sleeping and ticking with the latter. *)
(*                                                                         *)
(* Time is counted in ticks of the HPET, Ms of them to a millisecond.  The *)
(* local counter goes down by one every machine.every of them.  A step of  *)
(* the calibration comes at most machine.lag late.                         *)
(***************************************************************************)
EXTENDS Routing

CONSTANTS
    Ms,             \* m_frequency: HPET ticks in a millisecond
    CounterMax,     \* UINT32_MAX, what the local counter holds
    CALIBRATION_MS,
    Durations,      \* bound: the arguments of msleep, oneshot and periodic
    Irqs            \* bound: the arguments of map

ASSUME TimersConstants ==
    /\ {Ms, CounterMax, CALIBRATION_MS} \subseteq Nat \ {0}
    /\ Durations \subseteq Nat

\* An irq above 119 has no entry: IOREGSEL has eight bits, and an I/O APIC no more
\* than 120 lines.  Below it the vector, IRQ0 + irq, fits its eight bits too.
ASSUME IrqsHaveEntries == Irqs \subseteq 0 .. 119

\* The local counter holds what it counts in the calibration: apic.cpp:33 takes
\* what it has gone down for the time that has passed.
ASSUME CounterLasts ==
    \A m \in Machines : CALIBRATION_MS * (Ms \div m.every) <= CounterMax

VARIABLES
    hpet,           \* the HPET: counter, and the count msleep waits for
    counter,        \* the local counter: initial (TICR), left (TCCR), phase
    lvt,            \* LAPIC_TIMER: masked, periodic
    perMs,          \* m_ticks_per_ms
    request,        \* the last call: [kind, ms], and ticks of the HPET since
    lag,            \* ticks since the code could have gone on
    fired,          \* history: of the last tick, how long after and for what
    calls           \* history: calls of HAL and map after the boot

timerVars == <<hpet, counter, lvt, perMs, request, lag, fired, calls>>
restVars == <<acpiVars, symbolVars, cpuVars>>

TimersInit ==
    /\ hpet = [count |-> 0, until |-> 0]
    /\ counter = [initial |-> 0, left |-> 0, phase |-> 0]
    /\ lvt = [masked |-> TRUE, periodic |-> FALSE]
    /\ perMs = 0
    /\ request = [kind |-> "none", ms |-> 0, since |-> 0]
    /\ lag = 0
    /\ fired = [kind |-> "none", ms |-> 0, since |-> 0]
    /\ calls = 0

\* HPET::init: the registers are reached through the direct map, and the
\* frequency is computed by dividing by the period they give.
InitHpet ==
    /\ At("hpet")
    /\ IF FindTable("HPET") = 0 THEN Panic("hpet not found") /\ UNCHANGED hpet
       ELSE IF machine.hpet = "far" THEN Fault("page fault") /\ UNCHANGED hpet
       ELSE IF machine.hpet = "no period" THEN Fault("divide error") /\ UNCHANGED hpet
       ELSE hpet' = [hpet EXCEPT !.count = 0] /\ ProceedSaying("start", "hpet")
    /\ UNCHANGED <<counter, lvt, perMs, request, lag, fired, calls, routeVars, restVars>>

\* APICTimer::init: start the counter, ...
StartCalibration ==
    /\ At("start")
    /\ counter' = [counter EXCEPT !.initial = CounterMax, !.left = CounterMax]
    /\ lag' = 0
    /\ Proceed("sleep")
    /\ UNCHANGED <<hpet, lvt, perMs, request, fired, calls, routeVars, restVars>>

\* Where HPET::msleep ends, taken from 0; and as it is, from now.
EndFromZero == CALIBRATION_MS * Ms
EndFromNow == hpet.count + CALIBRATION_MS * Ms

\* ... HPET::msleep: compute the end, wait for it, ...
SleepOnHpet ==
    /\ At("sleep")
    /\ hpet' = [hpet EXCEPT !.until = EndFromNow]
    /\ lag' = 0
    /\ Proceed("calibrate")
    /\ UNCHANGED <<counter, lvt, perMs, request, fired, calls, routeVars, restVars>>

\* ... and mask the timer, read the counter and divide.  Nobody reads the HPET
\* after that, and the model forgets it.
Calibrate ==
    /\ At("calibrate") /\ hpet.count >= hpet.until
    /\ lvt' = [masked |-> TRUE, periodic |-> FALSE]
    /\ perMs' = (CounterMax - counter.left) \div CALIBRATION_MS
    /\ lag' = 0
    /\ hpet' = [count |-> 0, until |-> 0]
    /\ ProceedSaying("map", "calibrated")
    /\ UNCHANGED <<counter, request, fired, calls, routeVars, restVars>>

\* Its last step: the interrupt line of the timer.
MapTimer ==
    /\ At("map")
    /\ MapLow(0, machine.apicid, "handler")
    /\ UNCHANGED <<timerVars, restVars>>

\* HAL::init registers the handler; kmain is done.
RegisterTimer ==
    /\ At("handler")
    /\ ProceedSaying("done", "done")
    /\ UNCHANGED <<timerVars, routeVars, restVars>>

-----------------------------------------------------------------------------
(* What HAL and IOAPIC offer to the code that will follow the boot.          *)

\* LAPIC_TIMER for each of the three, with the mode left as it was; and as it is.
ModeKept(kind) == [masked |-> kind = "msleep", periodic |-> kind = "periodic" \/ lvt.periodic]
Mode(kind) == [masked |-> kind = "msleep", periodic |-> kind = "periodic"]

\* Each writes the mode before the counter: the old count runs on in between.
CallHal ==
    /\ At("done") /\ calls < machine.calls
    /\ \E kind \in {"msleep", "oneshot", "periodic"}, ms \in Durations :
          /\ request' = [kind |-> kind, ms |-> ms, since |-> 0]
          /\ lvt' = Mode(kind)
    /\ calls' = calls + 1
    /\ fired' = [kind |-> "none", ms |-> 0, since |-> 0]
    /\ Proceed("set_counter")
    /\ UNCHANGED <<hpet, counter, perMs, lag, routeVars, restVars>>

\* APIC::write to a register of 64 bits; and as it is, of 32.
Untruncated(value) == value
Truncated(value) == value % (CounterMax + 1)

\* set_counter multiplies 64 bits.  Writing 0 stops the counter.
SetCounter ==
    /\ At("set_counter")
    /\ LET ticks == Truncated(perMs * request.ms)
       IN  counter' = [counter EXCEPT !.initial = ticks, !.left = ticks]
    /\ request' = [request EXCEPT !.since = 0]
    /\ Proceed(IF request.kind = "msleep" THEN "wait" ELSE "done")
    /\ UNCHANGED <<hpet, lvt, perMs, lag, fired, calls, routeVars, restVars>>

\* The loop of APICTimer::msleep ends.
WakeUp ==
    /\ At("wait") /\ counter.left = 0
    /\ Proceed("done")
    /\ fired' = request
    /\ request' = [request EXCEPT !.kind = "none"]
    /\ UNCHANGED <<hpet, counter, lvt, perMs, lag, calls, routeVars, restVars>>

CallMap ==
    /\ At("done") /\ calls < machine.maps
    /\ calls' = calls + 1
    /\ \E irq \in Irqs : MapLow(irq, machine.apicid, "done")
    /\ UNCHANGED <<hpet, counter, lvt, perMs, request, lag, fired, restVars>>

\* kmain ends in CPU::hnr.
Finish ==
    /\ At("done") /\ HaltAndNeverReturn
    /\ UNCHANGED <<timerVars, routeVars, restVars>>

-----------------------------------------------------------------------------
(* Time.                                                                     *)

Longest == CounterMax * machine.every + 1       \* bound: since stops there

\* Time counts while somebody looks: in the calibration and after the boot.
Calibrating == pc \in {"start", "sleep", "calibrate"}
CodeCanGoOn == pc \in {"start", "sleep"} \/ (pc = "calibrate" /\ hpet.count >= hpet.until)
TimeMatters == status = "up" /\ todo = << >> /\
               (Calibrating \/ pc \in {"set_counter", "wait"}
                  \/ (pc = "done" /\ calls > 0))

\* The local counter, one tick of the HPET later.
Down(c) ==
    IF c.left = 0 THEN c
    ELSE IF c.phase + 1 < machine.every THEN [c EXCEPT !.phase = @ + 1]
    ELSE IF c.left = 1 /\ lvt.periodic THEN [c EXCEPT !.phase = 0, !.left = c.initial]
    ELSE [c EXCEPT !.phase = 0, !.left = c.left - 1]

Expires == counter.left = 1 /\ counter.phase + 1 = machine.every

TimePasses ==
    /\ TimeMatters
    /\ Calibrating => lag < machine.lag \/ ~CodeCanGoOn
    /\ lag' = IF Calibrating /\ CodeCanGoOn THEN lag + 1 ELSE lag
    /\ hpet' = IF Calibrating THEN [hpet EXCEPT !.count = @ + 1] ELSE hpet
    /\ counter' = Down(counter)
    /\ LET since == IF request.since < Longest THEN request.since + 1 ELSE Longest
           ticks == Expires /\ ~lvt.masked
       IN  /\ fired' = IF ~ticks THEN fired
                       ELSE IF pc = "set_counter" THEN [request EXCEPT !.kind = "before"]
                       ELSE [request EXCEPT !.since = since]
           /\ request' = IF request.kind = "none" THEN request
                         ELSE [request EXCEPT !.since = IF ticks THEN 0 ELSE since]
    /\ UNCHANGED <<lvt, perMs, calls, codeVars, routeVars, acpiVars, cpuVars>>

\* A sleep, a single tick and the distance of periodic ticks are as long as
\* asked, but for what the division of the calibration cuts off of each
\* millisecond and less than one tick of the local counter, which is not in
\* step - unless the product did not fit the counter.  A tick that comes between
\* the mode and the count belongs to the request before.
NeverTooEarly ==
    fired.kind \in {"msleep", "oneshot", "periodic"} /\ perMs * fired.ms <= CounterMax =>
        fired.since > fired.ms * (Ms - (Ms % machine.every)) - machine.every

\* msleep comes back, whatever the timer did before.
SleepEnds == pc = "wait" ~> pc # "wait"
=============================================================================
