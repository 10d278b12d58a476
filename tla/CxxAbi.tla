------------------------------- MODULE CxxAbi -------------------------------
(***************************************************************************)
(* The table of destructors of arch/icxxabi.cpp.                           *)
(*                                                                         *)
(* A destructor runs between two steps of the loop that calls it and may   *)
(* register or finalise itself, so finalisations nest: the loops that are  *)
(* under way are a stack of frames, each with the function it was asked    *)
(* for, the slot it is at and whether that slot's destructor is running.   *)
(***************************************************************************)
EXTENDS Integers, SequencesExt

CONSTANTS
    Destructors,        \* functions that are registered
    ATEXIT_MAX_FUNCS,
    MaxRegistrations,   \* bounds: calls of __cxa_atexit, of __cxa_finalize, frames
    MaxFinalizations,
    MaxNesting

nullptr_f == "NULL"

ASSUME CxxAbiAssumption ==
    /\ ATEXIT_MAX_FUNCS \in Nat
    /\ nullptr_f \notin Destructors

VARIABLES
    funcs,          \* __atexit_funcs up to __atexit_func_count: the function of each
    frames,         \* calls of __cxa_finalize under way, the innermost last
    destroyed,      \* history: slots in the order their destructors were called
    turnedDown,     \* history: registrations that were answered with -1
    finalizations,  \* history: calls of __cxa_finalize so far
    every,          \* history: __cxa_finalize(NULL) was called
    reentered       \* history: a finalisation began inside one that may destroy the same

abiVars == <<funcs, frames, destroyed, turnedDown, finalizations, every, reentered>>

CxxAbiInit ==
    /\ funcs = << >> /\ frames = << >> /\ destroyed = << >>
    /\ turnedDown = 0 /\ finalizations = 0
    /\ every = FALSE /\ reentered = FALSE

\* Nobody's turn but the program's or a running destructor's.
CodeRuns == IF frames = << >> THEN TRUE ELSE Last(frames).running

__cxa_atexit(f) ==
    /\ CodeRuns
    /\ Len(funcs) + turnedDown < MaxRegistrations
    /\ IF Len(funcs) >= ATEXIT_MAX_FUNCS
       THEN turnedDown' = turnedDown + 1 /\ UNCHANGED funcs
       ELSE funcs' = Append(funcs, f) /\ UNCHANGED turnedDown
    /\ UNCHANGED <<frames, destroyed, finalizations, every, reentered>>

\* i starts behind the last slot.
__cxa_finalize(f) ==
    /\ CodeRuns
    /\ finalizations < MaxFinalizations /\ Len(frames) < MaxNesting
    /\ frames' = Append(frames, [f |-> f, start |-> Len(funcs), i |-> Len(funcs), running |-> FALSE])
    /\ finalizations' = finalizations + 1
    /\ every' = (every \/ f = nullptr_f)
    /\ reentered' = (reentered \/ \E k \in DOMAIN frames : frames[k].f = f)
    /\ UNCHANGED <<funcs, destroyed, turnedDown>>

\* Slots count from 1 here: the loop that stops one slot early, and the loop.
StopsEarly(frame) == frame.i > 1
More(frame) == frame.i > 0

\* Is slot i's destructor one the frame calls?
Wanted(frame, i) == IF frame.f = nullptr_f THEN funcs[i] # nullptr_f ELSE funcs[i] = frame.f

\* One turn of either loop, up to the call.
Turn ==
    /\ frames # << >> /\ ~Last(frames).running
    /\ More(Last(frames))
    /\ LET i == Last(frames).i
           runs == Wanted(Last(frames), i)
       IN  /\ frames' = [frames EXCEPT ![Len(frames)].i = IF runs THEN i ELSE i - 1,
                                       ![Len(frames)].running = runs]
           /\ destroyed' = IF runs THEN Append(destroyed, i) ELSE destroyed
    /\ UNCHANGED <<funcs, turnedDown, finalizations, every, reentered>>

\* The destructor returns.  Only a finalisation of one function forgets the
\* slot, and only now.
DestructorReturns ==
    /\ frames # << >> /\ Last(frames).running
    /\ LET i == Last(frames).i
       IN  /\ frames' = [frames EXCEPT ![Len(frames)].i = i - 1, ![Len(frames)].running = FALSE]
           /\ funcs' = IF Last(frames).f = nullptr_f THEN funcs
                       ELSE [funcs EXCEPT ![i] = nullptr_f]
    /\ UNCHANGED <<destroyed, turnedDown, finalizations, every, reentered>>

Return ==
    /\ frames # << >> /\ ~Last(frames).running
    /\ ~More(Last(frames))
    /\ frames' = Front(frames)
    /\ UNCHANGED <<funcs, destroyed, turnedDown, finalizations, every, reentered>>

CxxAbiNext ==
    \/ \E f \in Destructors : __cxa_atexit(f)
    \/ \E f \in Destructors \cup {nullptr_f} : __cxa_finalize(f)
    \/ Turn
    \/ DestructorReturns
    \/ Return

----------------------------------------------------------------------------
\* icxxabi.cpp:70-72: "multiple calls ... should not destroy objects multiple
\* times".  As long as nobody asked for everything and no destructor finalises
\* its own function again, no object is destroyed twice, whatever else its
\* destructor registers or finalises; and a finalisation that is about to return
\* has left nothing it was asked for that stood in the table when it began.
DestroyedOnce ==
    /\ ~every /\ ~reentered => IsInjective(destroyed)
    /\ \A k \in DOMAIN frames :
        ~frames[k].running /\ ~More(frames[k]) =>
            \A i \in 1 .. frames[k].start :
                IF frames[k].f = nullptr_f
                THEN funcs[i] = nullptr_f \/ i \in ToSet(destroyed)
                ELSE funcs[i] # frames[k].f
=============================================================================
