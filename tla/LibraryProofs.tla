--------------------------- MODULE LibraryProofs ----------------------------
(***************************************************************************)
(* Theorems about the kernel's library: the table of destructors, for      *)
(* tables of any size, any functions, and finalisations nested to any      *)
(* depth; strtok and the other string functions, for every memory and      *)
(* every set of delimiters; the formatter, for every format and buffer.    *)
(***************************************************************************)
EXTENDS Library, Arithmetic, SequenceTheorems, TLAPS

Registered == Destructors \cup {nullptr_f}
Frame == [f : Registered, start : Nat, i : Nat, running : BOOLEAN]

\* Every part of the table's state has its type.
AbiTypeOK ==
    /\ funcs \in Seq(Registered)
    /\ frames \in Seq(Frame)
    /\ destroyed \in Seq(Nat \ {0})
    /\ every \in BOOLEAN /\ reentered \in BOOLEAN

\* Slots are slots of the table.
SlotsFit ==
    /\ \A d \in DOMAIN destroyed : destroyed[d] <= Len(funcs)
    /\ \A k \in DOMAIN frames :
          /\ frames[k].i <= frames[k].start /\ frames[k].start <= Len(funcs)
          /\ frames[k].running => frames[k].i > 0

\* A loop leaves nothing behind that it was asked for.
Done(f, j) ==
    IF f = nullptr_f THEN funcs[j] = nullptr_f \/ \E d \in DOMAIN destroyed : destroyed[d] = j
    ELSE funcs[j] # f
NothingLeftBehind ==
    \A k \in DOMAIN frames : \A j \in frames[k].i + 1 .. frames[k].start : Done(frames[k].f, j)

\* A destructor that runs was called.
RunningWasCalled ==
    \A k \in DOMAIN frames : frames[k].running =>
        \E d \in DOMAIN destroyed : destroyed[d] = frames[k].i

\* While nobody asked for everything or for the same again, each loop is about
\* a function of its own, ...
LoopsDiffer ==
    /\ ~every => \A k \in DOMAIN frames : frames[k].f # nullptr_f
    /\ ~reentered => \A k, l \in DOMAIN frames : frames[k].f = frames[l].f => k = l

\* ... the slot of a running destructor still has it, and that of any other
\* that was called is clear: what is called next was not called before.
Calm == ~every /\ ~reentered
RunningStays ==
    Calm => \A k \in DOMAIN frames : frames[k].running => funcs[frames[k].i] = frames[k].f
DestroyedIsClear ==
    Calm => \A d \in DOMAIN destroyed :
        \/ funcs[destroyed[d]] = nullptr_f
        \/ \E k \in DOMAIN frames : frames[k].running /\ frames[k].i = destroyed[d]
OnlyOnce ==
    Calm => \A d, e \in DOMAIN destroyed : destroyed[d] = destroyed[e] => d = e

AbiInv ==
    /\ AbiTypeOK /\ SlotsFit /\ NothingLeftBehind /\ RunningWasCalled
    /\ LoopsDiffer /\ RunningStays /\ DestroyedIsClear /\ OnlyOnce

-----------------------------------------------------------------------------
(* What the type says of each element. *)

\* What is in the list of registered functions and in the stack of calls.
LEMMA Elements ==
    ASSUME AbiTypeOK
    PROVE  /\ Len(funcs) \in Nat /\ DOMAIN funcs = 1 .. Len(funcs)
           /\ \A j \in 1 .. Len(funcs) : funcs[j] \in Registered
           /\ Len(frames) \in Nat /\ DOMAIN frames = 1 .. Len(frames)
           /\ \A k \in 1 .. Len(frames) :
                 /\ frames[k] \in Frame
                 /\ frames[k].f \in Registered /\ frames[k].running \in BOOLEAN
                 /\ frames[k].start \in Nat /\ frames[k].i \in Nat
           /\ Len(destroyed) \in Nat /\ DOMAIN destroyed = 1 .. Len(destroyed)
           /\ \A d \in 1 .. Len(destroyed) : destroyed[d] \in Nat \ {0}
<1>1. funcs \in Seq(Registered) /\ frames \in Seq(Frame) /\ destroyed \in Seq(Nat \ {0})
  BY DEF AbiTypeOK
<1>2. \A k \in 1 .. Len(frames) : frames[k] \in Frame  BY <1>1
<1> QED  BY <1>1, <1>2 DEF Frame

-----------------------------------------------------------------------------
(* Registration. *)

\* Registering a destructor keeps the invariant.
LEMMA AtexitKeeps ==
    ASSUME AbiInv, NEW f \in Destructors, __cxa_atexit(f)
    PROVE  AbiInv'
<1> USE DEF AbiInv
<1>1. UNCHANGED <<frames, destroyed, every, reentered>>  BY DEF __cxa_atexit
<1>2. CASE UNCHANGED funcs
  BY <1>1, <1>2 DEF AbiTypeOK, SlotsFit, NothingLeftBehind, Done, RunningWasCalled, LoopsDiffer,
              Calm, RunningStays, DestroyedIsClear, OnlyOnce
<1>3. CASE funcs' = Append(funcs, f)
  <2>1. /\ funcs' \in Seq(Registered) /\ Len(funcs') = Len(funcs) + 1
        /\ \A j \in 1 .. Len(funcs) : funcs'[j] = funcs[j]
    BY <1>3 DEF Registered, AbiTypeOK
  <2>2. AbiTypeOK'  BY <1>1, <2>1 DEF AbiTypeOK
  <2>3. SlotsFit'  BY <1>1, <2>1, Elements DEF SlotsFit
  <2>4. NothingLeftBehind'
    <3> SUFFICES ASSUME NEW k \in DOMAIN frames, NEW j \in frames[k].i + 1 .. frames[k].start
                 PROVE  Done(frames[k].f, j)'
      BY <1>1 DEF NothingLeftBehind
    <3>1. Done(frames[k].f, j)  BY DEF NothingLeftBehind
    <3>2. j \in 1 .. Len(funcs)  BY Elements DEF SlotsFit
    <3> QED  BY <3>1, <3>2, <1>1, <2>1 DEF Done
  <2>5. RunningWasCalled' /\ LoopsDiffer' /\ OnlyOnce'
    BY <1>1 DEF RunningWasCalled, LoopsDiffer, OnlyOnce, Calm
  <2>6. RunningStays'  BY <1>1, <2>1, Elements DEF RunningStays, Calm, SlotsFit
  <2>7. DestroyedIsClear'  BY <1>1, <2>1, Elements DEF DestroyedIsClear, Calm, SlotsFit
  <2> QED  BY <2>2, <2>3, <2>4, <2>5, <2>6, <2>7
<1> QED  BY <1>2, <1>3 DEF __cxa_atexit

(* A finalisation begins. *)

\* A call of __cxa_finalize keeps the invariant.
LEMMA FinalizeKeeps ==
    ASSUME AbiInv, NEW f \in Registered, __cxa_finalize(f)
    PROVE  AbiInv'
<1> USE DEF AbiInv
<1> DEFINE n == Len(frames)
           new == [f |-> f, start |-> Len(funcs), i |-> Len(funcs), running |-> FALSE]
<1>1. UNCHANGED <<funcs, destroyed>>  BY DEF __cxa_finalize
<1>2. new \in Frame  BY Elements DEF Frame
<1>3. frames' = Append(frames, new)  BY DEF __cxa_finalize
<1>4. /\ n \in Nat /\ frames' \in Seq(Frame) /\ Len(frames') = n + 1
      /\ \A k \in 1 .. n : frames'[k] = frames[k]
      /\ frames'[n + 1] = new
  BY <1>2, <1>3 DEF AbiTypeOK
<1>5. new.f = f /\ new.start = Len(funcs) /\ new.i = Len(funcs) /\ new.running = FALSE  OBVIOUS
<1>6. DOMAIN frames' = 1 .. n + 1 /\ DOMAIN frames = 1 .. n  BY <1>4, Elements
<1> HIDE DEF n, new
<1>7. every' = (every \/ f = nullptr_f)  BY DEF __cxa_finalize
<1>8. reentered' = (reentered \/ \E k \in DOMAIN frames : frames[k].f = f)  BY DEF __cxa_finalize
<1>9. every' \in BOOLEAN /\ reentered' \in BOOLEAN  BY <1>7, <1>8 DEF AbiTypeOK
<1>10. Calm' => Calm  BY <1>7, <1>8 DEF Calm, AbiTypeOK
<1>11. AbiTypeOK'  BY <1>1, <1>4, <1>9 DEF AbiTypeOK
<1>12. \A k \in DOMAIN frames' :
          (k \in DOMAIN frames /\ frames'[k] = frames[k]) \/ (k = n + 1 /\ frames'[k] = new)
  BY <1>4, <1>6
<1>13. SlotsFit'  BY <1>1, <1>5, <1>12, Elements DEF SlotsFit
<1>14. NothingLeftBehind'
  <2> SUFFICES ASSUME NEW k \in DOMAIN frames', NEW j \in frames'[k].i + 1 .. frames'[k].start
               PROVE  Done(frames[k].f, j)'
    BY DEF NothingLeftBehind
  <2>1. CASE frames'[k] = new  BY <2>1, <1>5, Elements
  <2>2. CASE k \in DOMAIN frames /\ frames'[k] = frames[k]
    <3>1. Done(frames[k].f, j)  BY <2>2 DEF NothingLeftBehind
    <3> QED  BY <3>1, <2>2, <1>1 DEF Done
  <2> QED  BY <2>1, <2>2, <1>12
<1>15. RunningWasCalled'  BY <1>1, <1>5, <1>12 DEF RunningWasCalled
<1>16. LoopsDiffer'
  <2>1. ~every' => \A k \in DOMAIN frames' : frames'[k].f # nullptr_f
    BY <1>5, <1>7, <1>12 DEF LoopsDiffer
  <2>2. ~reentered' => \A k, l \in DOMAIN frames' : frames'[k].f = frames'[l].f => k = l
    BY <1>5, <1>8, <1>12 DEF LoopsDiffer
  <2> QED  BY <2>1, <2>2 DEF LoopsDiffer
<1>17. RunningStays'  BY <1>1, <1>5, <1>10, <1>12 DEF RunningStays
<1>18. DestroyedIsClear'
  BY <1>1, <1>4, <1>6, <1>10 DEF DestroyedIsClear
<1>19. OnlyOnce'  BY <1>1, <1>10 DEF OnlyOnce
<1> QED  BY <1>11, <1>13, <1>14, <1>15, <1>16, <1>17, <1>18, <1>19

(* A turn of the innermost loop. *)

\* Only the innermost call of __cxa_finalize changes.
LEMMA TopChanges ==
    ASSUME AbiTypeOK, frames # << >>, NEW i \in Nat, NEW r \in BOOLEAN,
           frames' = [frames EXCEPT ![Len(frames)].i = i, ![Len(frames)].running = r]
    PROVE  /\ Len(frames) \in DOMAIN frames
           /\ frames' \in Seq(Frame) /\ DOMAIN frames' = DOMAIN frames
           /\ \A k \in DOMAIN frames \ {Len(frames)} : frames'[k] = frames[k]
           /\ \A k \in DOMAIN frames :
                 frames'[k].f = frames[k].f /\ frames'[k].start = frames[k].start
           /\ frames'[Len(frames)].i = i /\ frames'[Len(frames)].running = r
<1> DEFINE n == Len(frames)
           top == [frames[n] EXCEPT !.i = i, !.running = r]
<1>1. n \in DOMAIN frames /\ DOMAIN frames = 1 .. n /\ n \in Nat
  BY Elements DEF AbiTypeOK
<1>2. top \in Frame /\ top.f = frames[n].f /\ top.start = frames[n].start
      /\ top.i = i /\ top.running = r
  BY <1>1, Elements DEF Frame
<1>3. frames' = [frames EXCEPT ![n] = top]  BY <1>1
<1> HIDE DEF top, n
<1>4. /\ frames' \in Seq(Frame) /\ DOMAIN frames' = DOMAIN frames /\ frames'[n] = top
      /\ \A k \in DOMAIN frames \ {n} : frames'[k] = frames[k]
  <2>1. frames \in Seq(Frame)  BY DEF AbiTypeOK
  <2>2. frames' \in Seq(Frame) /\ DOMAIN frames' = DOMAIN frames
    BY <2>1, <1>1, <1>2, <1>3
  <2> QED  BY <2>2, <1>1, <1>3
<1> QED  BY <1>1, <1>2, <1>4 DEF n

\* It passes over a slot.
LEMMA PassKeeps ==
    ASSUME AbiInv, Turn, ~Wanted(frames[Len(frames)], frames[Len(frames)].i)
    PROVE  AbiInv'
<1> USE DEF AbiInv
<1> DEFINE n == Len(frames)
           i == frames[n].i
<1>1. /\ frames # << >> /\ ~frames[n].running /\ i > 0
      /\ UNCHANGED <<funcs, destroyed, every, reentered>>
      /\ frames' = [frames EXCEPT ![n].i = i - 1, ![n].running = FALSE]
  <2>1. Wanted(Last(frames), Last(frames).i) = FALSE  BY DEF Wanted, Last
  <2>2. frames' = [frames EXCEPT ![n].i = i - 1, ![n].running = FALSE] /\ UNCHANGED destroyed
    BY <2>1 DEF Turn, Last
  <2> QED  BY <2>2 DEF Turn, Last, More
<1>2. n \in DOMAIN frames  BY <1>1, Elements DEF AbiTypeOK
<1>3. i \in Nat /\ i - 1 \in Nat  BY <1>1, <1>2, Elements
<1>4. /\ frames' \in Seq(Frame) /\ DOMAIN frames' = DOMAIN frames
      /\ \A k \in DOMAIN frames \ {n} : frames'[k] = frames[k]
      /\ \A k \in DOMAIN frames :
            frames'[k].f = frames[k].f /\ frames'[k].start = frames[k].start
      /\ frames'[n].i = i - 1 /\ frames'[n].running = FALSE
  BY <1>1, <1>3, TopChanges
<1>5. \A k \in DOMAIN frames : frames'[k].running => k # n /\ frames'[k] = frames[k]
  BY <1>4
<1>6. Done(frames[n].f, i)  BY DEF Wanted, Done
<1> HIDE DEF n, i
<1>7. AbiTypeOK'  BY <1>1, <1>4 DEF AbiTypeOK
<1>8. SlotsFit'
  <2>1. \A k \in DOMAIN frames : frames'[k].i <= frames[k].i
    BY <1>3, <1>4, Elements DEF n, i
  <2>2. \A k \in DOMAIN frames : frames'[k].i \in Nat
    BY <1>3, <1>4, Elements DEF n
  <2> QED  BY <2>1, <2>2, <1>1, <1>4, <1>5, Elements DEF SlotsFit
<1>9. NothingLeftBehind'
  <2> SUFFICES ASSUME NEW k \in DOMAIN frames, NEW j \in frames'[k].i + 1 .. frames[k].start
               PROVE  Done(frames[k].f, j)
    BY <1>1, <1>4 DEF NothingLeftBehind, Done
  <2>1. CASE k # n  BY <2>1, <1>4 DEF NothingLeftBehind
  <2>2. CASE k = n /\ j # i
    <3>1. j \in frames[k].i + 1 .. frames[k].start  BY <2>2, <1>3, <1>4, Elements DEF i
    <3> QED  BY <3>1 DEF NothingLeftBehind
  <2>3. CASE k = n /\ j = i  BY <2>3, <1>6
  <2> QED  BY <2>1, <2>2, <2>3
<1>10. RunningWasCalled'  BY <1>1, <1>4, <1>5 DEF RunningWasCalled
<1>11. LoopsDiffer'  BY <1>1, <1>4 DEF LoopsDiffer
<1>12. RunningStays'  BY <1>1, <1>4, <1>5 DEF RunningStays, Calm
<1>13. DestroyedIsClear'
  BY <1>1, <1>4 DEF DestroyedIsClear, Calm, n
<1>14. OnlyOnce'  BY <1>1 DEF OnlyOnce, Calm
<1> QED  BY <1>7, <1>8, <1>9, <1>10, <1>11, <1>12, <1>13, <1>14

\* It calls a destructor, which in a calm table was never called before.
LEMMA CallKeeps ==
    ASSUME AbiInv, Turn, Wanted(frames[Len(frames)], frames[Len(frames)].i)
    PROVE  AbiInv'
<1> USE DEF AbiInv
<1> DEFINE n == Len(frames)
           i == frames[n].i
           m == Len(destroyed)
<1>1. /\ frames # << >> /\ ~frames[n].running /\ i > 0
      /\ UNCHANGED <<funcs, every, reentered>>
      /\ frames' = [frames EXCEPT ![n].i = i, ![n].running = TRUE]
      /\ destroyed' = Append(destroyed, i)
  BY DEF Turn, Last, More
<1>2. n \in DOMAIN frames  BY <1>1, Elements DEF AbiTypeOK
<1>3. i \in Nat \ {0}  BY <1>1, <1>2, Elements
<1>4. /\ frames' \in Seq(Frame) /\ DOMAIN frames' = DOMAIN frames
      /\ \A k \in DOMAIN frames \ {n} : frames'[k] = frames[k]
      /\ \A k \in DOMAIN frames :
            frames'[k].f = frames[k].f /\ frames'[k].start = frames[k].start
      /\ frames'[n].i = i /\ frames'[n].running = TRUE
  BY <1>1, <1>3, TopChanges
<1>5. \A k \in DOMAIN frames : frames'[k].i = frames[k].i  BY <1>4
<1>6. i \in 1 .. Len(funcs)  BY <1>2, <1>3, Elements DEF SlotsFit
<1>7. /\ m \in Nat /\ destroyed' \in Seq(Nat \ {0})
      /\ DOMAIN destroyed = 1 .. m /\ DOMAIN destroyed' = 1 .. m + 1
      /\ \A d \in 1 .. m : destroyed'[d] = destroyed[d]
      /\ destroyed'[m + 1] = i
  BY <1>1, <1>3, Elements DEF AbiTypeOK
<1>8. \A d \in DOMAIN destroyed' :
          (d \in DOMAIN destroyed /\ destroyed'[d] = destroyed[d])
             \/ (d = m + 1 /\ destroyed'[d] = i)
  BY <1>7
<1>9. Calm' = Calm  BY <1>1 DEF Calm
<1>10. Calm => funcs[i] = frames[n].f /\ funcs[i] # nullptr_f
  BY <1>2 DEF Wanted, LoopsDiffer, Calm
<1> HIDE DEF n, i, m
<1>11. AbiTypeOK'  BY <1>1, <1>4, <1>7 DEF AbiTypeOK
<1>12. SlotsFit'
  <2>1. \A d \in DOMAIN destroyed' : destroyed'[d] <= Len(funcs)
    BY <1>6, <1>8 DEF SlotsFit
  <2>2. \A k \in DOMAIN frames : frames'[k].running => frames'[k].i > 0
    BY <1>3, <1>4 DEF SlotsFit
  <2> QED  BY <2>1, <2>2, <1>1, <1>4, <1>5 DEF SlotsFit
<1>13. NothingLeftBehind'
  <2> SUFFICES ASSUME NEW k \in DOMAIN frames, NEW j \in frames[k].i + 1 .. frames[k].start
               PROVE  IF frames[k].f = nullptr_f
                      THEN funcs[j] = nullptr_f \/ \E d \in DOMAIN destroyed' : destroyed'[d] = j
                      ELSE funcs[j] # frames[k].f
    BY <1>1, <1>4, <1>5 DEF NothingLeftBehind, Done
  <2>1. Done(frames[k].f, j)  BY DEF NothingLeftBehind
  <2> QED  BY <2>1, <1>7, SMTT(40) DEF Done
<1>14. RunningWasCalled'
  <2> SUFFICES ASSUME NEW k \in DOMAIN frames, frames'[k].running
               PROVE  \E d \in DOMAIN destroyed' : destroyed'[d] = frames[k].i
    BY <1>4, <1>5 DEF RunningWasCalled
  <2>1. CASE k = n  BY <2>1, <1>7 DEF i
  <2>2. CASE k # n
    <3>1. PICK d \in DOMAIN destroyed : destroyed[d] = frames[k].i
      BY <2>2, <1>4 DEF RunningWasCalled
    <3> QED  BY <3>1, <1>7
  <2> QED  BY <2>1, <2>2
<1>15. LoopsDiffer'  BY <1>1, <1>4 DEF LoopsDiffer
<1>16. RunningStays'
  BY <1>1, <1>4, <1>9, <1>10 DEF RunningStays
<1>17. DestroyedIsClear'
  <2> SUFFICES ASSUME Calm, NEW d \in DOMAIN destroyed'
               PROVE  \/ funcs[destroyed'[d]] = nullptr_f
                      \/ \E k \in DOMAIN frames : frames'[k].running /\ frames'[k].i = destroyed'[d]
    BY <1>1, <1>4, <1>9 DEF DestroyedIsClear
  <2>1. CASE destroyed'[d] = i  BY <2>1, <1>2, <1>4 DEF n
  <2>2. CASE d \in DOMAIN destroyed /\ destroyed'[d] = destroyed[d]
    BY <2>2, <1>1, <1>4, SMTT(40) DEF DestroyedIsClear, n
  <2> QED  BY <2>1, <2>2, <1>8
<1>18. OnlyOnce'
  <2>1. Calm => \A d \in DOMAIN destroyed : destroyed[d] # i
    <3> SUFFICES ASSUME Calm, NEW d \in DOMAIN destroyed, destroyed[d] = i  PROVE FALSE
      OBVIOUS
    <3>1. PICK k \in DOMAIN frames : frames[k].running /\ frames[k].i = i
      BY <1>10 DEF DestroyedIsClear
    <3>2. frames[k].f = frames[n].f  BY <3>1, <1>10 DEF RunningStays
    <3>3. k = n  BY <3>2, <1>2 DEF LoopsDiffer, Calm, n
    <3> QED  BY <3>1, <3>3, <1>1 DEF n
  <2> QED  BY <2>1, <1>8, <1>9 DEF OnlyOnce
<1> QED  BY <1>11, <1>12, <1>13, <1>14, <1>15, <1>16, <1>17, <1>18

(* A destructor returns, and the slot is forgotten or not. *)

\* A destructor that returns keeps the invariant.
LEMMA DestructorReturnKeeps ==
    ASSUME AbiInv, DestructorReturns
    PROVE  AbiInv'
<1> USE DEF AbiInv
<1> DEFINE n == Len(frames)
           i == frames[n].i
           f == frames[n].f
           After(g, j) ==
              IF g = nullptr_f
              THEN funcs'[j] = nullptr_f \/ \E d \in DOMAIN destroyed : destroyed[d] = j
              ELSE funcs'[j] # g
<1>1. /\ frames # << >> /\ frames[n].running
      /\ UNCHANGED <<destroyed, every, reentered>>
      /\ frames' = [frames EXCEPT ![n].i = i - 1, ![n].running = FALSE]
      /\ funcs' = IF f = nullptr_f THEN funcs ELSE [funcs EXCEPT ![i] = nullptr_f]
  BY DEF DestructorReturns, Last
<1>2. n \in DOMAIN frames  BY <1>1, Elements DEF AbiTypeOK
<1>3. i \in Nat /\ i > 0 /\ i - 1 \in Nat  BY <1>1, <1>2, Elements DEF SlotsFit
<1>4. /\ frames' \in Seq(Frame) /\ DOMAIN frames' = DOMAIN frames
      /\ \A k \in DOMAIN frames \ {n} : frames'[k] = frames[k]
      /\ \A k \in DOMAIN frames :
            frames'[k].f = frames[k].f /\ frames'[k].start = frames[k].start
      /\ frames'[n].i = i - 1 /\ frames'[n].running = FALSE
  BY <1>1, <1>3, TopChanges
<1>5. \A k \in DOMAIN frames : frames'[k].running => k # n /\ frames'[k] = frames[k]
  BY <1>4
<1>6. i \in 1 .. Len(funcs)  BY <1>2, <1>3, Elements DEF SlotsFit
<1>7. /\ funcs' \in Seq(Registered) /\ Len(funcs') = Len(funcs)
      /\ \A j \in 1 .. Len(funcs) : funcs'[j] = funcs[j] \/ (funcs'[j] = nullptr_f /\ j = i)
      /\ f # nullptr_f => funcs'[i] = nullptr_f
  <2>1. CASE f = nullptr_f  BY <2>1, <1>1 DEF AbiTypeOK
  <2>2. CASE f # nullptr_f
    <3>1. funcs' = [funcs EXCEPT ![i] = nullptr_f]  BY <2>2, <1>1
    <3>2. funcs \in Seq(Registered) /\ nullptr_f \in Registered  BY DEF AbiTypeOK, Registered
    <3> HIDE DEF i, f
    <3> QED  BY <3>1, <3>2, <1>6
  <2> QED  BY <2>1, <2>2
<1>8. \A j \in 1 .. Len(funcs) : funcs[j] = nullptr_f => funcs'[j] = nullptr_f
  BY <1>7
<1>9. Calm => f # nullptr_f /\ funcs[i] = f
  BY <1>1, <1>2 DEF LoopsDiffer, RunningStays, Calm
<1>10. Calm' = Calm  BY <1>1 DEF Calm
<1> HIDE DEF n, i, f
<1>11. AbiTypeOK'  BY <1>1, <1>4, <1>7 DEF AbiTypeOK
<1>12. SlotsFit'
  <2>1. \A k \in DOMAIN frames : frames'[k].i <= frames[k].i /\ frames'[k].i \in Nat
    BY <1>3, <1>4, Elements DEF n, i
  <2> QED  BY <2>1, <1>1, <1>4, <1>5, <1>7, Elements DEF SlotsFit
<1>13. \A g \in Registered, j \in 1 .. Len(funcs) : Done(g, j) => After(g, j)
  BY <1>7, <1>8 DEF Done
<1>14. After(f, i)
  <2>1. CASE f = nullptr_f  BY <2>1, <1>1, <1>2 DEF RunningWasCalled, n, i
  <2>2. CASE f # nullptr_f  BY <2>2, <1>7
  <2> QED  BY <2>1, <2>2
<1>15. NothingLeftBehind'
  <2> SUFFICES ASSUME NEW k \in DOMAIN frames, NEW j \in frames'[k].i + 1 .. frames[k].start
               PROVE  After(frames[k].f, j)
    BY <1>1, <1>4 DEF NothingLeftBehind, Done
  <2>1. CASE k = n /\ j = i  BY <2>1, <1>14 DEF f
  <2>2. CASE ~(k = n /\ j = i)
    <3>1. j \in frames[k].i + 1 .. frames[k].start
      BY <2>2, <1>3, <1>4, Elements DEF i
    <3>2. Done(frames[k].f, j)  BY <3>1 DEF NothingLeftBehind
    <3>3. j \in 1 .. Len(funcs) /\ frames[k].f \in Registered
      BY <3>1, Elements DEF SlotsFit
    <3> QED  BY <3>2, <3>3, <1>13
  <2> QED  BY <2>1, <2>2
<1>16. RunningWasCalled'  BY <1>1, <1>4, <1>5 DEF RunningWasCalled
<1>17. LoopsDiffer'  BY <1>1, <1>4 DEF LoopsDiffer
<1>18. RunningStays'
  <2> SUFFICES ASSUME Calm, NEW k \in DOMAIN frames, frames'[k].running
               PROVE  funcs'[frames[k].i] = frames[k].f
    BY <1>4, <1>5, <1>10 DEF RunningStays
  <2>1. k # n /\ frames[k].running /\ funcs[frames[k].i] = frames[k].f
    BY <1>5 DEF RunningStays
  <2>2. frames[k].f # f  BY <2>1, <1>2 DEF LoopsDiffer, Calm, f
  <2>3. frames[k].i # i  BY <2>1, <2>2, <1>9
  <2>4. frames[k].i \in 1 .. Len(funcs)  BY <2>1, Elements DEF SlotsFit
  <2> QED  BY <2>1, <2>3, <2>4, <1>7
<1>19. DestroyedIsClear'
  <2> SUFFICES ASSUME Calm, NEW d \in DOMAIN destroyed
               PROVE  \/ funcs'[destroyed[d]] = nullptr_f
                      \/ \E k \in DOMAIN frames : frames'[k].running /\ frames'[k].i = destroyed[d]
    BY <1>1, <1>4, <1>10, SMTT(40) DEF DestroyedIsClear
  <2>1. CASE destroyed[d] = i  BY <2>1, <1>7, <1>9
  <2>2. CASE destroyed[d] # i /\ funcs[destroyed[d]] = nullptr_f
    <3>1. destroyed[d] \in 1 .. Len(funcs)  BY Elements DEF SlotsFit
    <3> QED  BY <3>1, <2>2, <1>8
  <2>3. CASE destroyed[d] # i /\ funcs[destroyed[d]] # nullptr_f
    <3>1. PICK k \in DOMAIN frames : frames[k].running /\ frames[k].i = destroyed[d]
      BY <2>3 DEF DestroyedIsClear
    <3>2. k # n  BY <3>1, <2>3 DEF i
    <3> QED  BY <3>1, <3>2, <1>4
  <2> QED  BY <2>1, <2>2, <2>3
<1>20. OnlyOnce'  BY <1>1 DEF OnlyOnce, Calm
<1> QED  BY <1>11, <1>12, <1>15, <1>16, <1>17, <1>18, <1>19, <1>20

(* A finalisation ends. *)

\* A call of __cxa_finalize that returns keeps the invariant.
LEMMA ReturnKeeps ==
    ASSUME AbiInv, Return
    PROVE  AbiInv'
<1> USE DEF AbiInv
<1> DEFINE n == Len(frames)
<1>1. /\ frames # << >> /\ ~frames[n].running /\ frames' = SubSeq(frames, 1, n - 1)
      /\ UNCHANGED <<funcs, destroyed, every, reentered>>
  BY DEF Return, Last, Front
<1>2. n \in Nat \ {0} /\ DOMAIN frames = 1 .. n  BY <1>1, Elements DEF AbiTypeOK
<1>3. /\ frames' \in Seq(Frame) /\ DOMAIN frames' = 1 .. n - 1
      /\ \A k \in 1 .. n - 1 : frames'[k] = frames[k]
  BY <1>1, <1>2 DEF AbiTypeOK
<1> HIDE DEF n
<1>4. \A k \in DOMAIN frames' : k \in DOMAIN frames /\ frames'[k] = frames[k]
  BY <1>2, <1>3
<1>5. AbiTypeOK' /\ SlotsFit'  BY <1>1, <1>3, <1>4 DEF AbiTypeOK, SlotsFit
<1>6. UNCHANGED <<funcs, destroyed, every, reentered>>  BY <1>1
<1>7. NothingLeftBehind'
  <2> SUFFICES ASSUME NEW k \in DOMAIN frames', NEW j \in frames[k].i + 1 .. frames[k].start
               PROVE  Done(frames[k].f, j)
    BY <1>4, <1>6 DEF NothingLeftBehind, Done
  <2> QED  BY <1>4 DEF NothingLeftBehind
<1>8. RunningWasCalled'  BY <1>4, <1>6 DEF RunningWasCalled
<1>9. LoopsDiffer'  BY <1>4, <1>6 DEF LoopsDiffer
<1>10. RunningStays'  BY <1>4, <1>6 DEF RunningStays, Calm
<1>11. DestroyedIsClear'
  <2>1. \A k \in DOMAIN frames : frames[k].running => k \in DOMAIN frames' /\ frames'[k] = frames[k]
    BY <1>1, <1>2, <1>3 DEF n
  <2> QED  BY <2>1, <1>6 DEF DestroyedIsClear, Calm
<1>12. OnlyOnce'  BY <1>6 DEF OnlyOnce, Calm
<1> QED  BY <1>5, <1>7, <1>8, <1>9, <1>10, <1>11, <1>12

-----------------------------------------------------------------------------
(* The library's behaviours. *)

\* The invariant holds at the start.
LEMMA AbiInvInit == Init => AbiInv
<1> SUFFICES ASSUME Init  PROVE AbiInv
  OBVIOUS
<1>1. funcs = << >> /\ frames = << >> /\ destroyed = << >> /\ every = FALSE /\ reentered = FALSE
  BY DEF Init, CxxAbiInit
<1>2. DOMAIN frames = {} /\ DOMAIN destroyed = {}  BY <1>1
<1>3. AbiTypeOK
  <2>1. every \in BOOLEAN /\ reentered \in BOOLEAN  BY <1>1
  <2>2. << >> \in Seq(Registered) /\ << >> \in Seq(Frame) /\ << >> \in Seq(Nat \ {0})  OBVIOUS
  <2>3. funcs \in Seq(Registered) /\ frames \in Seq(Frame) /\ destroyed \in Seq(Nat \ {0})
    BY <1>1, <2>2, Zenon
  <2> QED  BY <2>1, <2>3 DEF AbiTypeOK
<1> QED
  BY <1>2, <1>3 DEF AbiInv, SlotsFit, NothingLeftBehind, RunningWasCalled, LoopsDiffer,
                    RunningStays, DestroyedIsClear, OnlyOnce

\* Every step keeps the invariant.
LEMMA AbiInvNext == AbiInv /\ [Next]_libraryVars => AbiInv'
<1> SUFFICES ASSUME AbiInv, [Next]_libraryVars  PROVE AbiInv'
  OBVIOUS
<1>1. CASE UNCHANGED abiVars
  BY <1>1 DEF abiVars, AbiInv, AbiTypeOK, SlotsFit, NothingLeftBehind, Done, RunningWasCalled,
              LoopsDiffer, RunningStays, DestroyedIsClear, OnlyOnce, Calm
<1>2. CASE CxxAbiNext
  <2>1. ASSUME NEW f \in Destructors, __cxa_atexit(f)  PROVE AbiInv'
    BY <2>1, AtexitKeeps
  <2>2. ASSUME NEW f \in Destructors \cup {nullptr_f}, __cxa_finalize(f)  PROVE AbiInv'
    BY <2>2, FinalizeKeeps DEF Registered
  <2>3. CASE Turn  BY <2>3, PassKeeps, CallKeeps
  <2>4. CASE DestructorReturns  BY <2>4, DestructorReturnKeeps
  <2>5. CASE Return  BY <2>5, ReturnKeeps
  <2> QED  BY <1>2, <2>1, <2>2, <2>3, <2>4, <2>5 DEF CxxAbiNext
<1>3. [Next]_libraryVars => CxxAbiNext \/ UNCHANGED abiVars
  BY DEF Next, libraryVars
<1> QED  BY <1>1, <1>2, <1>3

\* The invariant holds in every reachable state.
LEMMA AbiInvariant == Spec => []AbiInv
  BY AbiInvInit, AbiInvNext, PTL DEF Spec

\* icxxabi.cpp:70-72: no object is destroyed twice as long as nobody finalises
\* everything or a function from within its own finalisation, and a
\* finalisation forgets nothing: whatever destructors do, however deep.
THEOREM EachDestroyedOnce == Spec => []DestroyedOnce
<1>1. AbiInv => DestroyedOnce
  <2> SUFFICES ASSUME AbiInv  PROVE DestroyedOnce
    OBVIOUS
  <2> USE DEF AbiInv
  <2>1. ~every /\ ~reentered => IsInjective(destroyed)
    BY DEF OnlyOnce, Calm, IsInjective
  <2>2. ASSUME NEW k \in DOMAIN frames, ~More(frames[k]), NEW j \in 1 .. frames[k].start
        PROVE  IF frames[k].f = nullptr_f
               THEN funcs[j] = nullptr_f \/ j \in ToSet(destroyed)
               ELSE funcs[j] # frames[k].f
    <3>1. frames[k].i = 0  BY <2>2, Elements DEF More
    <3>2. Done(frames[k].f, j)  BY <2>2, <3>1, Elements DEF NothingLeftBehind
    <3> QED  BY <3>2 DEF Done, ToSet
  <2> QED  BY <2>1, <2>2 DEF DestroyedOnce
<1> QED  BY <1>1, AbiInvariant, PTL

-----------------------------------------------------------------------------
(* strtok *)

\* A piece of memory whose last byte ends every string in it.
Ends(m) == m \in Seq(Bytes \cup {Nul}) /\ Len(m) > 0 /\ m[Len(m)] = Nul

\* i is the first place from "from" on that holds one of the bytes a loop stops at.
IsFirst(m, from, stops, i) ==
    /\ i \in from .. Len(m) /\ m[i] \in stops
    /\ \A j \in from .. i - 1 : m[j] \notin stops

\* A loop that stops at NUL finds the first byte it stops at.
LEMMA FirstIsFirst ==
    ASSUME NEW m, Ends(m), NEW from \in 1 .. Len(m), NEW stops, Nul \in stops
    PROVE  IsFirst(m, from, stops, First(m, from, stops))
<1> DEFINE S == {i \in from .. Len(m) : m[i] \in stops}
<1>1. S \in SUBSET Nat /\ Len(m) \in S  BY DEF Ends
<1>2. S # {}  BY <1>1
<1>3. Min(S) \in S /\ \A y \in S : Min(S) <= y  BY <1>1, <1>2, MinIsLeast
<1>4. Min(S) \in from .. Len(m) /\ m[Min(S)] \in stops  BY <1>3
<1>5. \A j \in from .. Min(S) - 1 : m[j] \notin stops
  <2> SUFFICES ASSUME NEW j \in from .. Min(S) - 1, m[j] \in stops PROVE FALSE  OBVIOUS
  <2>1. Len(m) \in Nat /\ Min(S) \in Nat  BY <1>1, <1>3 DEF Ends
  <2>2. j \in from .. Len(m) /\ ~(Min(S) <= j)  BY <1>4, <2>1
  <2> QED  BY <1>3, <2>2
<1>6. \E i \in from .. Len(m) : m[i] \in stops /\ \A j \in from .. i - 1 : m[j] \notin stops
  BY <1>4, <1>5, Zenon
<1> QED  BY <1>6, Zenon DEF First, IsFirst

\* There is no other.
LEMMA FirstIsOnly ==
    ASSUME NEW m, Ends(m), NEW from \in 1 .. Len(m), NEW stops, NEW i, NEW k,
           IsFirst(m, from, stops, i), IsFirst(m, from, stops, k)
    PROVE  i = k
<1>1. Len(m) \in Nat  BY DEF Ends
<1>2. ~(i < k) /\ ~(k < i)  BY <1>1 DEF IsFirst
<1> QED  BY <1>1, <1>2 DEF IsFirst

\* Where the string at the start of memory o ends.
EndOfString(o) == First(o, 1, {Nul})

\* A field of that string between the bytes in d begins at i.
FieldBegins(o, d, i) ==
    /\ i \in 1 .. EndOfString(o) - 1 /\ o[i] \notin d
    /\ i = 1 \/ o[i - 1] \in d

\* The field at i ends in memory m where it ends in o, and is what it was.
FieldStands(m, o, d, i) ==
    /\ m[First(o, i, d \cup {Nul})] = Nul
    /\ \A j \in i .. First(o, i, d \cup {Nul}) - 1 : m[j] = o[j]

\* ts are the fields that begin before q, in order, and each stands in m.
Found(m, o, d, ts, q) ==
    /\ ts \in Seq(Nat) /\ m \in Seq(Bytes \cup {Nul}) /\ Len(m) = Len(o)
    /\ \A i \in Nat : i \in Range(ts) <=> FieldBegins(o, d, i) /\ i < q
    /\ \A k \in 1 .. Len(ts) - 1 : ts[k] < ts[k + 1]
    /\ \A i \in Range(ts) : FieldStands(m, o, d, i) /\ First(o, i, d \cup {Nul}) < q

\* strtok goes on at q: behind a delimiter, where nothing is overwritten yet.
GoesOn(m, o, d, ts, q) ==
    /\ q \in 1 .. EndOfString(o) /\ (q = 1 \/ o[q - 1] \in d)
    /\ \A i \in q .. Len(o) : m[i] = o[i]
    /\ Found(m, o, d, ts, q)

\* What a call that goes on at q comes to.
NextField(m, d, q) == First(m, q, {Nul} \cup (Bytes \ d))

\* The string's end: no NUL before it.
LEMMA StringEnds ==
    ASSUME NEW o, Ends(o)
    PROVE  IsFirst(o, 1, {Nul}, EndOfString(o))
BY FirstIsFirst DEF EndOfString, Ends

\* Memory that agrees from q on has the same first byte to stop at.
LEMMA FirstAgrees ==
    ASSUME NEW m, NEW o, Ends(o), m \in Seq(Bytes \cup {Nul}), Len(m) = Len(o),
           NEW q \in 1 .. Len(o), \A i \in q .. Len(o) : m[i] = o[i],
           NEW from \in q .. Len(o), NEW stops, Nul \in stops
    PROVE  /\ Ends(m)
           /\ First(m, from, stops) = First(o, from, stops)
<1>1. Len(o) \in Nat  BY DEF Ends
<1>2. Ends(m)  BY <1>1 DEF Ends
<1>3. from \in 1 .. Len(o) /\ from \in 1 .. Len(m)  BY <1>1
<1> DEFINE k == First(o, from, stops)
<1>4. IsFirst(o, from, stops, k)  BY <1>3, FirstIsFirst
<1> HIDE DEF k
<1>5. IsFirst(m, from, stops, k)  BY <1>1, <1>4 DEF IsFirst
<1>6. IsFirst(m, from, stops, First(m, from, stops))  BY <1>2, <1>3, FirstIsFirst
<1>7. First(m, from, stops) = k  BY <1>2, <1>3, <1>5, <1>6, FirstIsOnly
<1> QED  BY <1>2, <1>7 DEF k

\* What the call comes to is behind nothing but delimiters, and where no delimiter
\* stands; NUL stands there only at the string's end.
LEMMA NextFieldIs ==
    ASSUME NEW m, NEW o, NEW d, NEW ts, NEW q, Ends(o), Nul \notin d, GoesOn(m, o, d, ts, q)
    PROVE  LET start == NextField(m, d, q) IN
           /\ start \in q .. EndOfString(o) /\ m[start] = o[start] /\ o[start] \notin d
           /\ \A j \in q .. start - 1 : o[j] \in d
           /\ m[start] = Nul <=> start = EndOfString(o)
<1> DEFINE start == NextField(m, d, q)
           e == EndOfString(o)
           stops == {Nul} \cup (Bytes \ d)
<1>1. IsFirst(o, 1, {Nul}, e)  BY StringEnds
<1> HIDE DEF e
<1>2. Len(o) \in Nat /\ e \in 1 .. Len(o) /\ o[e] = Nul /\ \A j \in 1 .. e - 1 : o[j] # Nul
  BY <1>1 DEF IsFirst, Ends
<1>3. q \in 1 .. e /\ \A i \in q .. Len(o) : m[i] = o[i]  BY DEF GoesOn, e
<1>4. m \in Seq(Bytes \cup {Nul}) /\ Len(m) = Len(o)  BY DEF GoesOn, Found
<1>5. q \in 1 .. Len(o)  BY <1>2, <1>3
<1>6. start = First(o, q, stops)
  <2>1. q \in q .. Len(o)  BY <1>2, <1>5
  <2>2. First(m, q, stops) = First(o, q, stops)  BY <1>3, <1>4, <1>5, <2>1, FirstAgrees
  <2> QED  BY <2>2 DEF NextField
<1>7. IsFirst(o, q, stops, start)  BY <1>5, <1>6, FirstIsFirst
<1> HIDE DEF start
<1>8. start \in q .. Len(o) /\ o[start] \in stops /\ \A j \in q .. start - 1 : o[j] \notin stops
  BY <1>7 DEF IsFirst
<1>9. start <= e
  <2> SUFFICES ASSUME e < start PROVE FALSE  BY <1>2, <1>8
  <2>1. e \in q .. start - 1  BY <1>2, <1>3, <1>8
  <2> QED  BY <1>2, <1>8, <2>1
<1>10. m[start] = o[start]  BY <1>3, <1>8
<1>11. o[start] \notin d  BY <1>8
<1>12. \A j \in q .. start - 1 : o[j] \in d
  <2> SUFFICES ASSUME NEW j \in q .. start - 1 PROVE o[j] \in d  OBVIOUS
  <2>1. j \in 1 .. Len(o)  BY <1>2, <1>3, <1>8
  <2>2. o[j] \in Bytes \cup {Nul}  BY <2>1 DEF Ends
  <2> QED  BY <1>8, <2>2
<1>13. m[start] = Nul <=> start = e
  <2>1. ASSUME start # e PROVE o[start] # Nul
    <3>1. start \in 1 .. e - 1  BY <1>2, <1>3, <1>8, <1>9, <2>1
    <3> QED  BY <1>2, <3>1
  <2> QED  BY <1>2, <1>10, <2>1
<1>14. start \in q .. e  BY <1>2, <1>3, <1>8, <1>9
<1> QED  BY <1>10, <1>11, <1>12, <1>13, <1>14 DEF start, e

\* When only the end is left, every field was found.
LEMMA AllFound ==
    ASSUME NEW m, NEW o, NEW d, NEW ts, NEW q, Ends(o), Nul \notin d, GoesOn(m, o, d, ts, q),
           m[NextField(m, d, q)] = Nul
    PROVE  Found(m, o, d, ts, EndOfString(o) + 1)
<1> DEFINE e == EndOfString(o)
<1>1. e \in Nat /\ q \in 1 .. e
  <2>1. IsFirst(o, 1, {Nul}, e)  BY StringEnds
  <2> QED  BY <2>1 DEF IsFirst, GoesOn, Ends
<1>2. \A j \in q .. e - 1 : o[j] \in d  BY NextFieldIs
<1>3. Found(m, o, d, ts, q)  BY DEF GoesOn
<1>4. \A i \in Nat : FieldBegins(o, d, i) => i < q
  <2> SUFFICES ASSUME NEW i \in Nat, FieldBegins(o, d, i), ~(i < q) PROVE FALSE  OBVIOUS
  <2>1. i \in q .. e - 1  BY <1>1 DEF FieldBegins
  <2> QED  BY <1>2, <2>1 DEF FieldBegins
<1>5. \A i \in Nat : i < q => i < e + 1  BY <1>1
<1>6. \A i \in Nat : i \in Range(ts) <=> FieldBegins(o, d, i) /\ i < e + 1
  BY <1>3, <1>4, <1>5 DEF Found
<1>7. \A i \in Range(ts) : FieldStands(m, o, d, i) /\ First(o, i, d \cup {Nul}) < e + 1
  <2> SUFFICES ASSUME NEW i \in Range(ts)
               PROVE  FieldStands(m, o, d, i) /\ First(o, i, d \cup {Nul}) < e + 1  OBVIOUS
  <2>1. FieldStands(m, o, d, i) /\ First(o, i, d \cup {Nul}) < q  BY <1>3 DEF Found
  <2>2. Range(ts) \subseteq Nat  BY <1>3 DEF Found, Range
  <2>3. i \in 1 .. Len(o)
    <3>1. FieldBegins(o, d, i)  BY <1>3, <2>2 DEF Found
    <3>2. IsFirst(o, 1, {Nul}, e)  BY StringEnds
    <3> QED  BY <3>1, <3>2 DEF FieldBegins, IsFirst, Ends
  <2>4. First(o, i, d \cup {Nul}) \in i .. Len(o)  BY <2>3, FirstIsFirst DEF IsFirst
  <2> QED  BY <1>1, <2>1, <2>3, <2>4
<1> QED  BY <1>3, <1>6, <1>7 DEF Found

\* n is m with NUL at place f.
Ended(n, m, f) ==
    /\ n \in Seq(Bytes \cup {Nul}) /\ Len(n) = Len(m) /\ n[f] = Nul
    /\ \A i \in 1 .. Len(m) : i # f => n[i] = m[i]

\* The field that begins at start ends at f, in memory m as in o.
FieldIs(m, o, d, start, f) ==
    /\ First(m, start, {Nul} \cup d) = f /\ m[f] = o[f]
    /\ f \in start + 1 .. EndOfString(o) /\ (m[f] = Nul <=> f = EndOfString(o))
    /\ f # EndOfString(o) => o[f] \in d
    /\ \A j \in start .. f - 1 : o[j] \notin d /\ m[j] = o[j]

\* The field that begins where the call comes to ends before the string or with it.
LEMMA FieldEnds ==
    ASSUME NEW m, NEW o, NEW d, NEW ts, NEW q, Ends(o), Nul \notin d, GoesOn(m, o, d, ts, q),
           m[NextField(m, d, q)] # Nul
    PROVE  FieldIs(m, o, d, NextField(m, d, q),
                   First(o, NextField(m, d, q), d \cup {Nul}))
<1> DEFINE start == NextField(m, d, q)
           e == EndOfString(o)
           f == First(o, start, d \cup {Nul})
<1>1. IsFirst(o, 1, {Nul}, e)  BY StringEnds
<1>2. /\ start \in q .. e /\ m[start] = o[start] /\ o[start] \notin d
      /\ m[start] = Nul <=> start = e
  BY NextFieldIs
<1>3. q \in 1 .. e /\ \A i \in q .. Len(o) : m[i] = o[i]  BY DEF GoesOn
<1>4. m \in Seq(Bytes \cup {Nul}) /\ Len(m) = Len(o)  BY DEF GoesOn, Found
<1> HIDE DEF e, start
<1>5. Len(o) \in Nat /\ e \in 1 .. Len(o) /\ o[e] = Nul /\ \A j \in 1 .. e - 1 : o[j] # Nul
  BY <1>1 DEF IsFirst, Ends
<1>6. q \in 1 .. Len(o) /\ start \in q .. Len(o) /\ start \in 1 .. Len(o)  BY <1>2, <1>3, <1>5
<1>7. {Nul} \cup d = d \cup {Nul}  OBVIOUS
<1>8. First(m, start, {Nul} \cup d) = f
  <2>1. Nul \in d \cup {Nul}  OBVIOUS
  <2>2. First(m, start, d \cup {Nul}) = First(o, start, d \cup {Nul})
    BY <1>3, <1>4, <1>6, <2>1, FirstAgrees
  <2> QED  BY <1>7, <2>2
<1>9. IsFirst(o, start, d \cup {Nul}, f)  BY <1>6, FirstIsFirst
<1> HIDE DEF f
<1>10. /\ f \in start .. Len(o) /\ o[f] \in d \cup {Nul}
       /\ \A j \in start .. f - 1 : o[j] \notin d \cup {Nul}
  BY <1>9 DEF IsFirst
<1>11. f <= e
  <2> SUFFICES ASSUME e < f PROVE FALSE  BY <1>5, <1>10
  <2>1. e \in start .. f - 1  BY <1>2, <1>3, <1>5, <1>10
  <2> QED  BY <1>5, <1>10, <2>1
<1>12. start # f
  <2>1. m[start] # Nul  BY DEF start
  <2> QED  BY <1>2, <1>10, <2>1
<1>13. f \in start + 1 .. e  BY <1>5, <1>6, <1>10, <1>11, <1>12
<1>14. m[f] = o[f]  BY <1>3, <1>5, <1>6, <1>10
<1>15. o[f] = Nul <=> f = e
  <2>1. ASSUME f # e PROVE o[f] # Nul
    <3>1. f \in 1 .. e - 1  BY <1>5, <1>6, <1>13, <2>1
    <3> QED  BY <1>5, <3>1
  <2> QED  BY <1>5, <2>1
<1>16. f # e => o[f] \in d  BY <1>10, <1>15
<1>17. \A j \in start .. f - 1 : o[j] \notin d /\ m[j] = o[j]
  <2> SUFFICES ASSUME NEW j \in start .. f - 1 PROVE o[j] \notin d /\ m[j] = o[j]  OBVIOUS
  <2>1. j \in q .. Len(o)  BY <1>2, <1>3, <1>5, <1>10
  <2> QED  BY <1>3, <1>10, <2>1
<1> QED  BY <1>8, <1>13, <1>14, <1>15, <1>16, <1>17 DEF FieldIs, e, start, f

\* What a call that comes to a field leaves: one field more, ended with NUL.
LEMMA FieldFound ==
    ASSUME NEW m, NEW o, NEW d, NEW ts, NEW q, Ends(o), Nul \notin d, GoesOn(m, o, d, ts, q),
           m[NextField(m, d, q)] # Nul,
           NEW n, Ended(n, m, First(o, NextField(m, d, q), d \cup {Nul}))
    PROVE  Found(n, o, d, Append(ts, NextField(m, d, q)), First(o, NextField(m, d, q), d \cup {Nul}) + 1)
<1> DEFINE start == NextField(m, d, q)
           e == EndOfString(o)
           f == First(o, start, d \cup {Nul})
           new == Append(ts, start)
<1>1. /\ start \in q .. e /\ o[start] \notin d
      /\ \A j \in q .. start - 1 : o[j] \in d
      /\ start # e
  BY NextFieldIs
<1>2. /\ f \in start + 1 .. e
      /\ f # e => o[f] \in d
      /\ \A j \in start .. f - 1 : o[j] \notin d /\ m[j] = o[j]
  <2>1. FieldIs(m, o, d, start, f)  BY FieldEnds
  <2> QED  BY <2>1 DEF FieldIs
<1>3. q \in 1 .. e /\ (q = 1 \/ o[q - 1] \in d) /\ Found(m, o, d, ts, q)  BY DEF GoesOn
<1>4. IsFirst(o, 1, {Nul}, e)  BY StringEnds
<1>5. Ended(n, m, f)  OBVIOUS
<1> HIDE DEF e, start, f
<1>6. Len(o) \in Nat /\ e \in 1 .. Len(o)  BY <1>4 DEF IsFirst, Ends
<1>7. start \in Nat /\ q \in Nat /\ f \in Nat /\ e \in Nat  BY <1>1, <1>2, <1>3, <1>6
<1>8. ts \in Seq(Nat) /\ new \in Seq(Nat) /\ Len(m) = Len(o)
  BY <1>3, <1>7 DEF Found
<1>9. Range(new) = Range(ts) \cup {start}  <2>1. Len(new) = Len(ts) + 1 /\ new[Len(ts) + 1] = start /\ Len(ts) \in Nat  BY <1>8
  <2>2. \A k \in 1 .. Len(ts) : new[k] = ts[k]  BY <1>8
  <2>3. DOMAIN new = 1 .. Len(ts) + 1 /\ DOMAIN ts = 1 .. Len(ts)  BY <1>8, <2>1
  <2> HIDE DEF new
  <2>4. start \in Range(new)  BY <2>1, <2>3 DEF Range
  <2>5. \A x \in Range(ts) : x \in Range(new)  BY <2>1, <2>2, <2>3 DEF Range
  <2>6. \A x \in Range(new) : x = start \/ x \in Range(ts)
    <3> SUFFICES ASSUME NEW k \in DOMAIN new, new[k] # start PROVE new[k] \in Range(ts)
      BY DEF Range
    <3>1. k \in DOMAIN ts /\ new[k] = ts[k]  BY <2>1, <2>2, <2>3
    <3> QED  BY <3>1 DEF Range
  <2> QED  BY <2>4, <2>5, <2>6
<1>10. FieldBegins(o, d, start)
  <2>1. start \in 1 .. e - 1  BY <1>1, <1>3, <1>7
  <2>2. CASE start = q  BY <1>1, <1>3, <2>1, <2>2 DEF FieldBegins, e
  <2>3. CASE start # q
    <3>1. start - 1 \in q .. start - 1  BY <1>1, <1>7, <2>3
    <3> QED  BY <1>1, <2>1, <3>1 DEF FieldBegins, e
  <2> QED  BY <2>2, <2>3
<1>11. \A i \in Nat : FieldBegins(o, d, i) /\ i < f + 1 /\ ~(i < q) => i = start
  <2> SUFFICES ASSUME NEW i \in Nat, FieldBegins(o, d, i), i < f + 1, ~(i < q), i # start
               PROVE  FALSE
    OBVIOUS
  <2>1. o[i] \notin d /\ (i = 1 \/ o[i - 1] \in d) /\ i \in 1 .. e - 1  BY DEF FieldBegins, e
  <2>2. CASE i < start
    <3>1. i \in q .. start - 1  BY <1>7, <2>2
    <3> QED  BY <1>1, <2>1, <3>1
  <2>3. CASE start < i /\ i < f
    <3>1. i - 1 \in start .. f - 1  BY <1>7, <2>3
    <3>2. i # 1  BY <1>1, <1>3, <1>7, <2>3
    <3> QED  BY <1>2, <2>1, <3>1, <3>2
  <2>4. CASE start < i /\ i = f
    <3>1. i - 1 \in start .. f - 1  BY <1>7, <2>4
    <3>2. i # 1  BY <1>1, <1>3, <1>7, <2>4
    <3> QED  BY <1>2, <2>1, <3>1, <3>2
  <2> QED  BY <1>7, <2>2, <2>3, <2>4
<1>12. \A i \in Nat : i \in Range(new) <=> FieldBegins(o, d, i) /\ i < f + 1
  <2> SUFFICES ASSUME NEW i \in Nat
               PROVE  i \in Range(new) <=> FieldBegins(o, d, i) /\ i < f + 1  OBVIOUS
  <2>1. i < q => i < f + 1  BY <1>1, <1>2, <1>7
  <2>2. start < f + 1  BY <1>2, <1>7
  <2>3. i \in Range(ts) <=> FieldBegins(o, d, i) /\ i < q  BY <1>3 DEF Found
  <2> QED  BY <1>9, <1>10, <1>11, <2>1, <2>2, <2>3
<1>13. \A k \in 1 .. Len(new) - 1 : new[k] < new[k + 1]
  <2> SUFFICES ASSUME NEW k \in 1 .. Len(new) - 1 PROVE new[k] < new[k + 1]  OBVIOUS
  <2>1. Len(new) = Len(ts) + 1 /\ Len(ts) \in Nat  BY <1>8
  <2>2. k \in 1 .. Len(ts) /\ new[k] = ts[k]  BY <1>8, <2>1
  <2>3. CASE k = Len(ts)
    <3>1. ts[k] \in Range(ts) /\ ts[k] \in Nat  BY <1>8, <2>2 DEF Range
    <3>2. ts[k] < q  BY <1>3, <3>1 DEF Found
    <3>3. new[k + 1] = start  BY <1>8, <2>1, <2>3
    <3> QED  BY <1>1, <1>7, <2>2, <3>1, <3>2, <3>3
  <2>4. CASE k # Len(ts)
    <3>1. k \in 1 .. Len(ts) - 1 /\ new[k + 1] = ts[k + 1]  BY <1>8, <2>1, <2>2, <2>4
    <3> QED  BY <1>3, <2>2, <3>1 DEF Found
  <2> QED  BY <2>3, <2>4
<1>14. \A i \in Range(new) : FieldStands(n, o, d, i) /\ First(o, i, d \cup {Nul}) < f + 1
  <2>1. ASSUME NEW i \in Range(ts)
        PROVE  FieldStands(n, o, d, i) /\ First(o, i, d \cup {Nul}) < f + 1
    <3> DEFINE g == First(o, i, d \cup {Nul})
    <3>1. FieldStands(m, o, d, i) /\ g < q  BY <1>3, <2>1 DEF Found
    <3>2. i \in Nat /\ FieldBegins(o, d, i)
      <4>1. i \in Nat  BY <1>8, <2>1 DEF Range
      <4> QED  BY <1>3, <2>1, <4>1 DEF Found
    <3>3. i \in 1 .. Len(o)  BY <1>6, <3>2 DEF FieldBegins, e
    <3>4. IsFirst(o, i, d \cup {Nul}, g)  BY <3>3, FirstIsFirst
    <3>5. m[g] = Nul /\ \A j \in i .. g - 1 : m[j] = o[j]  BY <3>1 DEF FieldStands
    <3> HIDE DEF g
    <3>6. g \in i .. Len(o) /\ g \in Nat  BY <3>3, <3>4 DEF IsFirst
    <3>7. n[g] = Nul /\ g < f + 1
      <4>1. g \in 1 .. Len(m) /\ g # f  BY <1>1, <1>2, <1>7, <1>8, <3>1, <3>2, <3>3, <3>6
      <4> QED  BY <1>1, <1>2, <1>5, <1>7, <3>1, <3>5, <3>6, <4>1 DEF Ended
    <3>8. \A j \in i .. g - 1 : n[j] = o[j]
      <4> SUFFICES ASSUME NEW j \in i .. g - 1 PROVE n[j] = o[j]  OBVIOUS
      <4>1. j \in 1 .. Len(m) /\ j # f  BY <1>1, <1>2, <1>6, <1>7, <1>8, <3>1, <3>3, <3>6
      <4> QED  BY <1>5, <3>5, <4>1 DEF Ended
    <3> QED  BY <3>7, <3>8 DEF FieldStands, g
  <2>2. FieldStands(n, o, d, start) /\ f < f + 1
    <3>1. n[f] = Nul  BY <1>5 DEF Ended
    <3>2. \A j \in start .. f - 1 : n[j] = o[j]
      <4> SUFFICES ASSUME NEW j \in start .. f - 1 PROVE n[j] = o[j]  OBVIOUS
      <4>1. j \in 1 .. Len(m) /\ j # f  BY <1>1, <1>2, <1>3, <1>6, <1>7, <1>8
      <4> QED  BY <1>2, <1>5, <4>1 DEF Ended
    <3> QED  BY <1>7, <3>1, <3>2 DEF FieldStands, f
  <2> QED  BY <1>9, <2>1, <2>2 DEF f
<1>15. n \in Seq(Bytes \cup {Nul}) /\ Len(n) = Len(o)  BY <1>5, <1>8 DEF Ended
<1>16. Found(n, o, d, new, f + 1)  BY <1>8, <1>12, <1>13, <1>14, <1>15 DEF Found
<1> QED  BY <1>16 DEF start, f

\* What strtok keeps between two calls: before the first one that finds a field
\* nothing is touched, then some fields were found, and in the end all of them.
StringsRight ==
    /\ Ends(original) /\ Nul \notin delim
    /\ tokens = << >> => p = nullptr /\ text = original
    /\ tokens # << >> /\ p = nullptr =>
           Found(text, original, delim, tokens, EndOfString(original) + 1)
    /\ tokens # << >> /\ p # nullptr => GoesOn(text, original, delim, tokens, p)

\* A call of strtok that goes on at q, with the fields ts found since it was given
\* a string, comes to the end or finds a field more.
LEMMA StrtokKeeps ==
    ASSUME NEW s, NEW q, NEW ts, Ends(original), Nul \notin delim,
           q = IF s = nullptr THEN p ELSE s,
           ts = IF s = nullptr THEN tokens ELSE << >>,
           GoesOn(text, original, delim, ts, q), strtok(s)
    PROVE  \/ /\ p' = nullptr /\ text' = text /\ tokens' = tokens
              /\ Found(text, original, delim, ts, EndOfString(original) + 1)
           \/ /\ tokens' # << >> /\ p' = nullptr
              /\ Found(text', original, delim, tokens', EndOfString(original) + 1)
           \/ /\ tokens' # << >> /\ p' # nullptr
              /\ GoesOn(text', original, delim, tokens', p')
<1> DEFINE start == NextField(text, delim, q)
           f == First(original, start, delim \cup {Nul})
           e == EndOfString(original)
<1>1. IsFirst(original, 1, {Nul}, e)  BY StringEnds
<1>2. q \in 1 .. e /\ e \in Nat /\ Len(original) \in Nat /\ e <= Len(original)
  BY <1>1 DEF GoesOn, IsFirst, Ends
<1>3. start \in q .. e  BY NextFieldIs
<1>4. q + strspn(text, q, delim) = start
  <2> HIDE DEF e
  <2>1. strspn(text, q, delim) = start - q  BY DEF strspn, NextField
  <2> QED  BY <1>2, <1>3, <2>1
<1>5. CASE text[start] = Nul
  <2>1. Found(text, original, delim, ts, e + 1)  BY <1>5, AllFound
  <2>2. p' = nullptr /\ text' = text /\ tokens' = tokens  BY <1>4, <1>5 DEF strtok
  <2> QED  BY <2>1, <2>2
<1>6. CASE text[start] # Nul
  <2>1. FieldIs(text, original, delim, start, f)  BY <1>6, FieldEnds
  <2>2. GoesOn(text, original, delim, ts, q)  OBVIOUS
  <2>3. /\ text \in Seq(Bytes \cup {Nul}) /\ Len(text) = Len(original)
        /\ \A i \in q .. Len(original) : text[i] = original[i]
        /\ ts \in Seq(Nat)
    BY <2>2 DEF GoesOn, Found
  <2>4. \A n : Ended(n, text, f) => Found(n, original, delim, Append(ts, start), f + 1)
    BY <1>6, FieldFound
  <2> HIDE DEF e, f, start
  <2>5. start \in Nat /\ f \in Nat /\ f \in start + 1 .. e /\ f \in 1 .. Len(original)
    BY <1>2, <1>3, <2>1 DEF FieldIs, e
  <2>6. start + strcspn(text, start, delim) = f
    <3>1. strcspn(text, start, delim) = f - start  BY <2>1 DEF strcspn, FieldIs
    <3> QED  BY <2>5, <3>1
  <2>7. tokens' = Append(ts, start) /\ tokens' # << >>
    <3>1. q # nullptr  BY <1>2 DEF nullptr
    <3>2. tokens' = Append(ts, start)  BY <1>4, <1>6, <3>1 DEF strtok
    <3> QED  BY <2>3, <2>5, <3>2
  <2>8. q # nullptr  BY <1>2 DEF nullptr
  <2>9. CASE text[f] # Nul
    <3>1. text' = [text EXCEPT ![f] = Nul] /\ p' = f + 1
      BY <1>4, <1>6, <2>6, <2>8, <2>9 DEF strtok, Behind
    <3>2. Ended(text', text, f)
      <4>1. f \in 1 .. Len(text)  BY <2>3, <2>5
      <4> QED  BY <2>3, <3>1, <4>1 DEF Ended
    <3>3. Found(text', original, delim, tokens', f + 1)  BY <2>4, <2>7, <3>2
    <3>4. f # e /\ original[f] \in delim  BY <2>1, <2>9 DEF FieldIs, e
    <3>5. f + 1 \in 1 .. e  BY <1>2, <2>5, <3>4
    <3>6. \A i \in f + 1 .. Len(original) : text'[i] = original[i]
      <4> SUFFICES ASSUME NEW i \in f + 1 .. Len(original) PROVE text'[i] = original[i]  OBVIOUS
      <4>1. i \in q .. Len(original) /\ i \in 1 .. Len(text) /\ i # f
        BY <1>2, <1>3, <2>3, <2>5
      <4> QED  BY <2>3, <3>1, <4>1
    <3>7. original[(f + 1) - 1] \in delim
      <4>1. (f + 1) - 1 = f  BY <2>5
      <4> QED  BY <3>4, <4>1
    <3>8. GoesOn(text', original, delim, tokens', f + 1)
      BY <3>3, <3>5, <3>6, <3>7 DEF GoesOn, e
    <3>9. f + 1 # nullptr  BY <2>5 DEF nullptr
    <3> QED  BY <2>7, <3>1, <3>8, <3>9
  <2>10. CASE text[f] = Nul
    <3>1. text' = text /\ p' = nullptr
      BY <1>4, <1>6, <2>6, <2>8, <2>10 DEF strtok
    <3>2. Ended(text', text, f)  BY <2>3, <2>10, <3>1 DEF Ended
    <3>3. f = e  BY <2>1, <2>10 DEF FieldIs, e
    <3>4. Found(text', original, delim, tokens', e + 1)  BY <2>4, <2>7, <3>2, <3>3
    <3> QED  BY <2>7, <3>1, <3>4 DEF e
  <2> QED  BY <2>9, <2>10
<1> QED  BY <1>5, <1>6

\* Memory no call has touched.
LEMMA UntouchedGoesOn ==
    ASSUME NEW o, NEW d, Ends(o)
    PROVE  GoesOn(o, o, d, << >>, 1)
<1>1. IsFirst(o, 1, {Nul}, EndOfString(o))  BY StringEnds
<1>2. 1 \in 1 .. EndOfString(o)  BY <1>1 DEF IsFirst, Ends
<1>3. Range(<< >>) = {} /\ Len(<< >>) = 0 /\ << >> \in Seq(Nat)  BY DEF Range
<1>4. \A i \in Nat : FieldBegins(o, d, i) => ~(i < 1)  BY <1>2 DEF FieldBegins
<1>5. Found(o, o, d, << >>, 1)  BY <1>3, <1>4 DEF Found, Ends
<1> QED  BY <1>2, <1>5 DEF GoesOn

\* The library starts with a string strtok has not seen, or with none.
LEMMA StringsRightInit == Init => StringsRight
<1> SUFFICES ASSUME Init PROVE StringsRight  OBVIOUS
<1>1. CASE unit = "strings"
  <2>1. original \in Texts /\ text = original /\ p = nullptr /\ tokens = << >>
        /\ delim \in SUBSET (Bytes \ {Nul})
    BY <1>1 DEF Init, StringsInit
  <2>2. Ends(original)  BY <2>1, TextsAssumption DEF Ends
  <2> QED  BY <2>1, <2>2 DEF StringsRight
<1>2. CASE unit # "strings"
  <2>1. original = <<Nul>> /\ text = original /\ p = nullptr /\ tokens = << >> /\ delim = {}
    BY <1>2 DEF Init
  <2>2. <<Nul>> \in Seq(Bytes \cup {Nul}) /\ Len(<<Nul>>) = 1 /\ <<Nul>>[1] = Nul  OBVIOUS
  <2>3. Ends(original)  BY <2>1, <2>2 DEF Ends
  <2> QED  BY <2>1, <2>3 DEF StringsRight
<1> QED  BY <1>1, <1>2

\* Every step keeps it.
LEMMA StringsRightNext == StringsRight /\ [Next]_libraryVars => StringsRight'
<1> SUFFICES ASSUME StringsRight, [Next]_libraryVars PROVE StringsRight'  OBVIOUS
<1>1. FirstToken \/ NextToken \/ UNCHANGED stringVars
  BY DEF Next, libraryVars, StringsNext
<1>2. Ends(original) /\ Nul \notin delim  BY DEF StringsRight
<1>3. CASE FirstToken
  <2>1. tokens = << >> /\ strtok(1) /\ original' = original /\ delim' = delim
    BY <1>3 DEF FirstToken
  <2>2. p = nullptr /\ text = original  BY <2>1 DEF StringsRight
  <2>3. GoesOn(text, original, delim, tokens, 1)  BY <1>2, <2>1, <2>2, UntouchedGoesOn
  <2>4. 1 = IF 1 = nullptr THEN p ELSE 1  BY DEF nullptr
  <2>5. tokens = IF 1 = nullptr THEN tokens ELSE << >>  BY <2>1
  <2>6. \/ p' = nullptr /\ text' = text /\ tokens' = tokens
        \/ /\ tokens' # << >> /\ p' = nullptr
           /\ Found(text', original, delim, tokens', EndOfString(original) + 1)
        \/ tokens' # << >> /\ p' # nullptr /\ GoesOn(text', original, delim, tokens', p')
    BY <1>2, <2>1, <2>3, <2>4, <2>5, StrtokKeeps
  <2> QED  BY <1>2, <2>1, <2>2, <2>6 DEF StringsRight
<1>4. CASE NextToken
  <2>1. tokens # << >> /\ p # nullptr /\ strtok(nullptr) /\ original' = original /\ delim' = delim
    BY <1>4 DEF NextToken
  <2>2. GoesOn(text, original, delim, tokens, p)  BY <2>1 DEF StringsRight
  <2>3. \/ /\ p' = nullptr /\ text' = text /\ tokens' = tokens
           /\ Found(text, original, delim, tokens, EndOfString(original) + 1)
        \/ /\ tokens' # << >> /\ p' = nullptr
           /\ Found(text', original, delim, tokens', EndOfString(original) + 1)
        \/ tokens' # << >> /\ p' # nullptr /\ GoesOn(text', original, delim, tokens', p')
    BY <1>2, <2>1, <2>2, StrtokKeeps
  <2> QED  BY <1>2, <2>1, <2>3 DEF StringsRight
<1>5. CASE UNCHANGED stringVars
  <2>1. text' = text /\ original' = original /\ p' = p /\ delim' = delim /\ tokens' = tokens
    BY <1>5 DEF stringVars
  <2> QED  BY <2>1 DEF StringsRight
<1> QED  BY <1>1, <1>3, <1>4, <1>5

\* It holds in every reachable state.
LEMMA StringsInvariant == Spec => []StringsRight
  BY StringsRightInit, StringsRightNext, PTL DEF Spec

\* Starts are the places where a field begins.
LEMMA StartsAre ==
    ASSUME Ends(original)
    PROVE  \A i \in Nat : i \in Starts <=> FieldBegins(original, delim, i)
<1> DEFINE e == EndOfString(original)
<1>1. strlen(original, 1) = e - 1  BY DEF strlen, EndOfString
<1>2. e \in Nat  BY StringEnds DEF IsFirst, Ends
<1> HIDE DEF e
<1> SUFFICES ASSUME NEW i \in Nat PROVE i \in Starts <=> FieldBegins(original, delim, i)
  OBVIOUS
<1>3. i \in 1 .. e - 1 => (Inside(i) <=> original[i] \notin delim)  BY <1>1 DEF Inside
<1>4. i \in 1 .. e - 1 => (Inside(i - 1) <=> i # 1 /\ original[i - 1] \notin delim)
  BY <1>1, <1>2 DEF Inside
<1> QED  BY <1>1, <1>3, <1>4 DEF Starts, FieldBegins, e

\* The string at i is the field of o that begins there.
ReadsAs(m, o, d, i) == StringAt(m, i) = SubSeq(o, i, First(o, i, d \cup {Nul}) - 1)

\* A field that stands in memory is the string that begins there.
LEMMA FieldIsString ==
    ASSUME NEW m, NEW o, NEW d, Ends(o), Nul \notin d, m \in Seq(Bytes \cup {Nul}),
           Len(m) = Len(o), NEW i \in 1 .. Len(o), FieldStands(m, o, d, i)
    PROVE  ReadsAs(m, o, d, i)
<1> DEFINE f == First(o, i, d \cup {Nul})
           g == First(m, i, {Nul})
<1>1. IsFirst(o, i, d \cup {Nul}, f)  BY FirstIsFirst
<1>2. m[f] = Nul /\ \A j \in i .. f - 1 : m[j] = o[j]  BY DEF FieldStands
<1> HIDE DEF f
<1>3. Len(o) \in Nat  BY DEF Ends
<1>4. f \in i .. Len(o) /\ \A j \in i .. f - 1 : o[j] # Nul  BY <1>1 DEF IsFirst
<1>5. IsFirst(m, i, {Nul}, f)  BY <1>2, <1>3, <1>4 DEF IsFirst
<1>6. g = f
  <2> DEFINE S == {k \in i .. Len(m) : m[k] \in {Nul}}
  <2>1. \E k \in i .. Len(m) : m[k] \in {Nul} /\ \A j \in i .. k - 1 : m[j] \notin {Nul}
    BY <1>5 DEF IsFirst
  <2>2. IsFirst(m, i, {Nul}, g)  BY <2>1, Zenon DEF First, IsFirst
  <2> HIDE DEF g
  <2>3. ~(g < f) /\ ~(f < g)  BY <1>3, <1>5, <2>2 DEF IsFirst
  <2> QED  BY <1>3, <1>5, <2>2, <2>3 DEF IsFirst
<1>7. strlen(m, i) = f - i  BY <1>6 DEF strlen
<1>8. i + strlen(m, i) - 1 = f - 1  BY <1>3, <1>4, <1>7
<1>9. StringAt(m, i) = SubSeq(m, i, f - 1)  BY <1>8 DEF StringAt
<1>10. SubSeq(m, i, f - 1) = SubSeq(o, i, f - 1)
  <2>1. \A j \in 1 .. (f - 1) - i + 1 : i + j - 1 \in i .. f - 1  BY <1>3, <1>4
  <2>2. \A j \in 1 .. (f - 1) - i + 1 : m[i + j - 1] = o[i + j - 1]  BY <1>2, <2>1
  <2> DEFINE s == SubSeq(m, i, f - 1)
             t == SubSeq(o, i, f - 1)
  <2>3. /\ Len(s) = (f - 1) - i + 1 /\ Len(t) = (f - 1) - i + 1
        /\ s \in Seq(Bytes \cup {Nul}) /\ t \in Seq(Bytes \cup {Nul})
        /\ \A j \in 1 .. (f - 1) - i + 1 : s[j] = m[i + j - 1] /\ t[j] = o[i + j - 1]
    BY <1>3, <1>4 DEF Ends
  <2> HIDE DEF s, t
  <2>4. \A j \in 1 .. Len(s) : s[j] = t[j]  BY <2>2, <2>3
  <2>5. s = t  BY <2>3, <2>4
  <2> QED  BY <2>5 DEF s, t
<1> QED  BY <1>9, <1>10 DEF ReadsAs, f

\* string.cpp:174: however strtok is called on whatever memory, what it has
\* returned are the fields up to where it goes on, in order, each once and each
\* terminated; and when it has returned NULL, they are all the fields there are.
THEOREM TokensAreTheFields == Spec => []TokensAreFields
<1>1. StringsRight => TokensAreFields
  <2> SUFFICES ASSUME StringsRight, tokens # << >>
               PROVE  /\ Range(tokens) = {i \in Starts : p = nullptr \/ i < p}
                      /\ \A k \in 1 .. Len(tokens) - 1 : tokens[k] < tokens[k + 1]
                      /\ \A i \in Range(tokens) :
                            StringAt(text, i) = SubSeq(original, i, EndOf(i) - 1)
    BY DEF TokensAreFields
  <2> DEFINE e == EndOfString(original)
             q == IF p = nullptr THEN e + 1 ELSE p
  <2>1. Ends(original) /\ Nul \notin delim /\ Found(text, original, delim, tokens, q)
    BY DEF StringsRight, GoesOn
  <2>2. IsFirst(original, 1, {Nul}, e)  BY <2>1, StringEnds
  <2>3. e \in 1 .. Len(original) /\ Len(original) \in Nat  BY <2>1, <2>2 DEF IsFirst, Ends
  <2>4. \A i \in Nat : FieldBegins(original, delim, i) => i \in 1 .. e - 1
    BY DEF FieldBegins
  <2> HIDE DEF e
  <2>5. \A i \in Nat : FieldBegins(original, delim, i) =>
            (i < q <=> p = nullptr \/ i < p) /\ i \in 1 .. Len(original)
    BY <2>3, <2>4
  <2> HIDE DEF q
  <2>6. \A i \in Nat : i \in Range(tokens) <=> FieldBegins(original, delim, i) /\ i < q
    BY <2>1 DEF Found
  <2>7. Range(tokens) \subseteq Nat  BY <2>1 DEF Found, Range
  <2>8. \A i \in Nat : i \in Starts <=> FieldBegins(original, delim, i)  BY <2>1, StartsAre
  <2>9. Starts \subseteq Nat
    <3>1. strlen(original, 1) = e - 1  BY DEF strlen, EndOfString, e
    <3> QED  BY <2>3, <3>1 DEF Starts
  <2>10. Range(tokens) = {i \in Starts : p = nullptr \/ i < p}
    BY <2>5, <2>6, <2>7, <2>8, <2>9
  <2>11. \A k \in 1 .. Len(tokens) - 1 : tokens[k] < tokens[k + 1]  BY <2>1 DEF Found
  <2>12. ASSUME NEW i \in Range(tokens)
         PROVE  StringAt(text, i) = SubSeq(original, i, EndOf(i) - 1)
    <3>1. i \in Nat /\ FieldBegins(original, delim, i)  BY <2>6, <2>7
    <3>2. i \in 1 .. Len(original)  BY <2>5, <3>1
    <3>3. /\ FieldStands(text, original, delim, i)
          /\ text \in Seq(Bytes \cup {Nul}) /\ Len(text) = Len(original)
      BY <2>1 DEF Found
    <3>4. ReadsAs(text, original, delim, i)
      BY <2>1, <3>2, <3>3, FieldIsString
    <3> QED  BY <3>4 DEF ReadsAs, EndOf
  <2> QED  BY <2>10, <2>11, <2>12
<1> QED  BY <1>1, StringsInvariant, PTL
-----------------------------------------------------------------------------
(* Memory, and how it is copied. *)

\* Memories of one size.
OfSize(size) == [1 .. size -> Bytes]

\* NUL is a byte.
LEMMA NulIsByte == Nul \in Bytes /\ Bytes \subseteq Nat
  BY SCHAR_MAXAssumption DEF Nul, Bytes

\* f[k] is the memory after k bytes, one offset after the other.
CopiedBy(f, m, dest, src, offsets) ==
    /\ f[0] = m
    /\ \A k \in 1 .. Len(offsets) :
          f[k] = [f[k - 1] EXCEPT ![dest + offsets[k]] = f[k - 1][src + offsets[k]]]
    /\ Copy(m, dest, src, offsets) = f[Len(offsets)]

\* The loop of a copy goes from memory to memory.
LEMMA CopySteps ==
    ASSUME NEW size \in Nat, NEW m \in OfSize(size), NEW dest \in Nat, NEW src \in Nat,
           NEW offsets \in Seq(Nat),
           \A k \in 1 .. Len(offsets) : src + offsets[k] \in 1 .. size
    PROVE  \E f \in [0 .. Len(offsets) -> OfSize(size)] : CopiedBy(f, m, dest, src, offsets)
<1> DEFINE n == Len(offsets)
           S == OfSize(size)
           One(t, k) == [t EXCEPT ![dest + offsets[k]] = t[src + offsets[k]]]
           step == [k \in 1 .. n |-> [t \in S |-> One(t, k)]]
           IsAfter(g) == g = [k \in 0 .. n |-> IF k = 0 THEN m ELSE One(g[k - 1], k)]
<1>1. n \in Nat  OBVIOUS
<1>2. \A k \in 1 .. n : \A t \in S : One(t, k) \in S
  BY DEF OfSize
<1> HIDE DEF S, n
<1>3. step \in [1 .. n -> [S -> S]]
  <2> HIDE DEF One
  <2> QED  BY <1>2
<1>4. PICK f \in Walks(n, S, m, step) : TRUE
  <2>1. m \in S  BY DEF S
  <2> HIDE DEF step
  <2> QED  BY <1>1, <1>3, <2>1, RecursionExists
<1>5. f \in [0 .. n -> S] /\ f[0] = m /\ \A k \in 1 .. n : f[k] = One(f[k - 1], k)
  <2>1. f \in [0 .. n -> S] /\ f[0] = m /\ \A k \in 1 .. n : f[k] = step[k][f[k - 1]]
    <3> HIDE DEF step
    <3> QED  BY <1>4 DEF Walks
  <2>2. ASSUME NEW k \in 1 .. n PROVE f[k] = One(f[k - 1], k)
    <3>1. k - 1 \in 0 .. n  BY <1>1
    <3>2. f[k - 1] \in S /\ f[k] = step[k][f[k - 1]]  BY <2>1, <3>1
    <3> HIDE DEF One
    <3> QED  BY <3>2
  <2> QED  BY <2>1, <2>2
<1>6. IsAfter(f)
  <2> HIDE DEF One
  <2>1. \A k \in 0 .. n : f[k] = IF k = 0 THEN m ELSE One(f[k - 1], k)  BY <1>1, <1>5
  <2> QED  BY <1>5, <2>1
<1> DEFINE after == CHOOSE g : IsAfter(g)
<1>7. IsAfter(after)  BY <1>6, Zenon
<1>8. Copy(m, dest, src, offsets) = after[n]  BY DEF Copy, n
<1> HIDE DEF after
<1>9. after = f
  <2> DEFINE Same == {k \in 0 .. n : after[k] = f[k]}
  <2> HIDE DEF One
  <2>1. \A k \in 0 .. n : after[k] = IF k = 0 THEN m ELSE One(after[k - 1], k)  BY <1>7
  <2>2. 0 \in Same  BY <1>1, <1>5, <2>1
  <2>3. \A k \in 0 .. n - 1 : k \in Same => k + 1 \in Same
    <3> SUFFICES ASSUME NEW k \in 0 .. n - 1, after[k] = f[k] PROVE k + 1 \in Same
      OBVIOUS
    <3>1. k + 1 \in 1 .. n /\ k + 1 \in 0 .. n /\ (k + 1) - 1 = k /\ k + 1 # 0  BY <1>1
    <3>2. after[k + 1] = One(after[k], k + 1)  BY <2>1, <3>1
    <3>3. f[k + 1] = One(f[k], k + 1)  BY <1>5, <3>1
    <3> QED  BY <3>1, <3>2, <3>3
  <2> HIDE DEF Same
  <2>4. 0 .. n \subseteq Same  BY <1>1, <2>2, <2>3, InductionUpTo
  <2>5. \A k \in 0 .. n : after[k] = f[k]  BY <2>4 DEF Same
  <2>6. after = [k \in 0 .. n |-> after[k]]  BY <1>7
  <2>7. f = [k \in 0 .. n |-> f[k]]  BY <1>5
  <2> QED  BY <2>5, <2>6, <2>7
<1>10. CopiedBy(f, m, dest, src, offsets)  BY <1>5, <1>8, <1>9 DEF CopiedBy, n
<1> QED  BY <1>5, <1>10 DEF n, S

\* c is m with n bytes from s moved to d, whatever they overlap.
IsMoved(c, m, d, s, n, size) ==
    /\ c \in OfSize(size)
    /\ \A i \in 1 .. size : c[i] = IF i \in d .. d + n - 1 THEN m[i - d + s] ELSE m[i]

\* A copy that never reads what it wrote moves the bytes.
LEMMA CopyMoves ==
    ASSUME NEW size \in Nat, NEW m \in OfSize(size), NEW d \in Nat, NEW s \in Nat, NEW n \in Nat,
           NEW offsets \in Seq(Nat), Len(offsets) = n,
           \A k \in 1 .. n : s + offsets[k] \in 1 .. size /\ offsets[k] \in 0 .. n - 1,
           \A o \in 0 .. n - 1 : \E k \in 1 .. n : offsets[k] = o,
           \A k \in 1 .. n : \A j \in 1 .. k - 1 : s + offsets[k] # d + offsets[j]
    PROVE  IsMoved(Copy(m, d, s, offsets), m, d, s, n, size)
<1>1. PICK f \in [0 .. n -> OfSize(size)] : CopiedBy(f, m, d, s, offsets)  BY CopySteps
<1> DEFINE Written(i, k) == \E j \in 1 .. k : i = d + offsets[j]
           At(i, k) == f[k][i] = IF Written(i, k) THEN m[i - d + s] ELSE m[i]
           Good == {k \in 0 .. n : \A i \in 1 .. size : At(i, k)}
<1>2. 0 \in Good  BY <1>1 DEF CopiedBy
<1>8. ASSUME NEW j \in 1 .. n
      PROVE  offsets[j] \in Nat /\ offsets[j] \in 0 .. n - 1 /\ s + offsets[j] \in 1 .. size
  <2>1. s + offsets[j] \in 1 .. size /\ offsets[j] \in 0 .. n - 1  OBVIOUS
  <2>2. \A x \in 0 .. n - 1 : x \in Nat  OBVIOUS
  <2> QED  BY <2>1, <2>2
<1>3. \A k \in 0 .. n - 1 : k \in Good => k + 1 \in Good
  <2> SUFFICES ASSUME NEW k \in 0 .. n - 1, k \in Good, NEW i \in 1 .. size PROVE At(i, k + 1)
    <3> HIDE DEF At
    <3>1. \A k \in 0 .. n - 1 : k + 1 \in 0 .. n  OBVIOUS
    <3> QED  BY <3>1
  <2>1. k + 1 \in 1 .. n /\ (k + 1) - 1 = k /\ k \in 0 .. n  OBVIOUS
  <2> DEFINE a == d + offsets[k + 1]
             b == s + offsets[k + 1]
  <2>2. a \in Nat /\ b \in 1 .. size /\ a - d + s = b
    <3>1. offsets[k + 1] \in Nat /\ s + offsets[k + 1] \in 1 .. size  BY <1>8, <2>1
    <3>2. PICK x \in Nat : x = offsets[k + 1]  BY <3>1
    <3>3. a = d + x /\ b = s + x  BY <3>2
    <3> HIDE DEF a, b
    <3>4. (d + x) - d + s = s + x /\ d + x \in Nat  OBVIOUS
    <3>5. s + x \in 1 .. size  BY <3>1, <3>2
    <3> QED  BY <3>3, <3>4, <3>5
  <2>3. f[k] \in OfSize(size) /\ f[k + 1] = [f[k] EXCEPT ![a] = f[k][b]]
    BY <1>1, <2>1 DEF CopiedBy
  <2>4. ~Written(b, k)
    <3>1. \A j \in 1 .. k : j \in 1 .. (k + 1) - 1  OBVIOUS
    <3> QED  BY <2>1, <3>1
  <2>5. f[k][b] = m[b]  BY <2>2, <2>4
  <2>6. Written(i, k + 1) <=> Written(i, k) \/ i = a
    <3>1. \A j \in 1 .. k : j \in 1 .. k + 1  OBVIOUS
    <3>2. \A j \in 1 .. k + 1 : j \in 1 .. k \/ j = k + 1  OBVIOUS
    <3>3. k + 1 \in 1 .. k + 1  OBVIOUS
    <3> QED  BY <3>1, <3>2, <3>3, Zenon
  <2>7. At(i, k)  OBVIOUS
  <2> HIDE DEF Written, a, b
  <2>8. CASE i = a  BY <2>2, <2>3, <2>5, <2>6, <2>8 DEF OfSize
  <2>9. CASE i # a
    <3>1. f[k + 1][i] = f[k][i]  BY <2>3, <2>9 DEF OfSize
    <3> QED  BY <2>6, <2>7, <2>9, <3>1
  <2> QED  BY <2>8, <2>9
<1> HIDE DEF Good
<1>4. 0 .. n \subseteq Good  BY <1>2, <1>3, InductionUpTo
<1>5. \A i \in 1 .. size : At(i, n)  BY <1>4 DEF Good
<1>6. \A i \in 1 .. size : Written(i, n) <=> i \in d .. d + n - 1
  <2> SUFFICES ASSUME NEW i \in 1 .. size PROVE Written(i, n) <=> i \in d .. d + n - 1  OBVIOUS
  <2>1. ASSUME i \in d .. d + n - 1 PROVE Written(i, n)
    <3>1. i - d \in 0 .. n - 1 /\ i = d + (i - d)  BY <2>1
    <3> QED  BY <3>1
  <2>2. ASSUME NEW j \in 1 .. n, i = d + offsets[j] PROVE i \in d .. d + n - 1
    <3>1. PICK x \in 0 .. n - 1 : x = offsets[j]  BY <1>8
    <3>2. d + x \in d .. d + n - 1  OBVIOUS
    <3> QED  BY <2>2, <3>1, <3>2
  <2> QED  BY <2>1, <2>2
<1> HIDE DEF Written
<1>7. Copy(m, d, s, offsets) = f[n] /\ f[n] \in OfSize(size)  BY <1>1 DEF CopiedBy
<1> QED  BY <1>5, <1>6, <1>7 DEF IsMoved

\* Copying upwards moves them unless it overtakes what it reads.
LEMMA UpwardsMoves ==
    ASSUME NEW size \in Nat, NEW m \in OfSize(size), NEW d \in 1 .. size, NEW s \in 1 .. size,
           NEW n \in Nat, s + n <= size + 1, d <= s \/ s + n <= d
    PROVE  IsMoved(Copy(m, d, s, Upwards(n)), m, d, s, n, size)
<1> DEFINE o == Upwards(n)
<1>1. o \in Seq(Nat) /\ Len(o) = n /\ \A k \in 1 .. n : o[k] = k - 1  BY DEF Upwards
<1> HIDE DEF o
<1>2. \A k \in 1 .. n : s + o[k] \in 1 .. size /\ o[k] \in 0 .. n - 1  BY <1>1
<1>3. \A i \in 0 .. n - 1 : \E k \in 1 .. n : o[k] = i
  <2> TAKE i \in 0 .. n - 1
  <2>1. i + 1 \in 1 .. n /\ o[i + 1] = i  BY <1>1
  <2> QED  BY <2>1
<1>4. ASSUME NEW k \in 1 .. n, NEW j \in 1 .. k - 1 PROVE s + o[k] # d + o[j]
  <2>1. o[k] = k - 1 /\ o[j] = j - 1 /\ j \in 1 .. n  BY <1>1
  <2>2. s + (k - 1) # d + (j - 1)  OBVIOUS
  <2> QED  BY <2>1, <2>2
<1>5. IsMoved(Copy(m, d, s, o), m, d, s, n, size)
  <2>1. d \in Nat /\ s \in Nat  OBVIOUS
  <2> QED  BY <1>1, <1>2, <1>3, <1>4, <2>1, CopyMoves
<1> QED  BY <1>5 DEF o

\* So does copying downwards.
LEMMA DownwardsMoves ==
    ASSUME NEW size \in Nat, NEW m \in OfSize(size), NEW d \in 1 .. size, NEW s \in 1 .. size,
           NEW n \in Nat, s + n <= size + 1, s <= d
    PROVE  IsMoved(Copy(m, d, s, Downwards(n)), m, d, s, n, size)
<1> DEFINE o == Downwards(n)
<1>1. o \in Seq(Nat) /\ Len(o) = n /\ \A k \in 1 .. n : o[k] = n - k  BY DEF Downwards
<1> HIDE DEF o
<1>2. ASSUME NEW k \in 1 .. n PROVE s + o[k] \in 1 .. size /\ o[k] \in 0 .. n - 1
  <2>1. o[k] = n - k /\ n - k \in 0 .. n - 1  BY <1>1
  <2>2. s + (n - k) \in 1 .. size  OBVIOUS
  <2> QED  BY <2>1, <2>2
<1>3. \A i \in 0 .. n - 1 : \E k \in 1 .. n : o[k] = i
  <2> TAKE i \in 0 .. n - 1
  <2>1. n - i \in 1 .. n /\ o[n - i] = i  BY <1>1
  <2> QED  BY <2>1
<1>4. ASSUME NEW k \in 1 .. n, NEW j \in 1 .. k - 1 PROVE s + o[k] # d + o[j]
  <2>1. o[k] = n - k /\ o[j] = n - j /\ j \in 1 .. n  BY <1>1
  <2>2. s + (n - k) # d + (n - j)  OBVIOUS
  <2> QED  BY <2>1, <2>2
<1>5. IsMoved(Copy(m, d, s, o), m, d, s, n, size)
  <2>1. d \in Nat /\ s \in Nat  OBVIOUS
  <2> QED  BY <1>1, <1>2, <1>3, <1>4, <2>1, CopyMoves
<1> QED  BY <1>5 DEF o
-----------------------------------------------------------------------------
(* Strings in memory, and how far two pieces agree. *)

\* A search that could end somewhere ends there.
LEMMA FirstWhere ==
    ASSUME NEW m, Len(m) \in Nat, NEW from \in Nat, NEW stops, NEW i, IsFirst(m, from, stops, i)
    PROVE  First(m, from, stops) = i
<1> DEFINE k == First(m, from, stops)
<1>1. \E j \in from .. Len(m) : m[j] \in stops /\ \A l \in from .. j - 1 : m[l] \notin stops
  BY DEF IsFirst
<1>2. IsFirst(m, from, stops, k)  BY <1>1, Zenon DEF First, IsFirst
<1> HIDE DEF k
<1>3. k \in from .. Len(m) /\ i \in from .. Len(m)  BY <1>2 DEF IsFirst
<1>4. ~(i < k) /\ ~(k < i)  BY <1>2, <1>3 DEF IsFirst
<1>5. k = i  BY <1>3, <1>4
<1> QED  BY <1>5 DEF k

\* Memory as a function and as a sequence.
LEMMA SizedMemory ==
    ASSUME NEW size \in Nat, NEW m \in OfSize(size)
    PROVE  m \in Seq(Bytes) /\ Len(m) = size /\ DOMAIN m = 1 .. size
  BY DEF OfSize

\* The converse, and what its elements are.
LEMMA MemoryIs ==
    ASSUME NEW m, Ends(m)
    PROVE  /\ Len(m) \in Nat \ {0} /\ DOMAIN m = 1 .. Len(m) /\ m \in OfSize(Len(m))
           /\ \A i \in 1 .. Len(m) : m[i] \in Bytes /\ m[i] \in Nat
           /\ m[Len(m)] = Nul
<1>1. Bytes \cup {Nul} = Bytes  BY NulIsByte
<1>2. m \in Seq(Bytes)  BY <1>1 DEF Ends
<1>3. Len(m) \in Nat \ {0}  BY <1>2 DEF Ends
<1>4. \A i \in 1 .. Len(m) : m[i] \in Bytes  BY <1>2
<1>5. \A x \in Bytes : x \in Nat  BY NulIsByte
<1>6. DOMAIN m = 1 .. Len(m) /\ m \in OfSize(Len(m))  BY <1>2 DEF OfSize
<1> QED  BY <1>3, <1>4, <1>5, <1>6 DEF Ends

\* a is the string at s, and ends at e.
IsString(a, m, s, e) ==
    /\ s \in Nat /\ e \in s .. Len(m) /\ m[e] = Nul /\ \A j \in s .. e - 1 : m[j] # Nul
    /\ strlen(m, s) = e - s
    /\ a \in Seq(Bytes) /\ Len(a) = e - s
    /\ \A k \in 1 .. e - s : a[k] = m[s + k - 1]

\* A string ends where the first NUL is.
LEMMA StringWhere ==
    ASSUME NEW size \in Nat, NEW m \in OfSize(size), NEW s \in 1 .. size, NEW e \in s .. size,
           m[e] = Nul, \A j \in s .. e - 1 : m[j] # Nul
    PROVE  IsString(StringAt(m, s), m, s, e)
<1>1. m \in Seq(Bytes) /\ Len(m) = size  BY SizedMemory
<1>2. IsFirst(m, s, {Nul}, e)  BY <1>1 DEF IsFirst
<1>3. First(m, s, {Nul}) = e  BY <1>1, <1>2, FirstWhere
<1>4. strlen(m, s) = e - s  BY <1>3 DEF strlen
<1>5. s + strlen(m, s) - 1 = e - 1  BY <1>4
<1>6. StringAt(m, s) = SubSeq(m, s, e - 1)  BY <1>5 DEF StringAt
<1> DEFINE a == SubSeq(m, s, e - 1)
<1>7. a \in Seq(Bytes) /\ Len(a) = e - s /\ \A k \in 1 .. e - s : a[k] = m[s + k - 1]
  BY <1>1
<1> HIDE DEF a
<1> QED  BY <1>1, <1>4, <1>6, <1>7 DEF IsString, a

\* Every place in memory begins a string.
LEMMA StringIs ==
    ASSUME NEW m, Ends(m), NEW s \in 1 .. Len(m)
    PROVE  \E e \in s .. Len(m) : IsString(StringAt(m, s), m, s, e)
<1> DEFINE e == First(m, s, {Nul})
<1>1. IsFirst(m, s, {Nul}, e)  BY FirstIsFirst
<1> HIDE DEF e
<1>2. Len(m) \in Nat /\ m \in OfSize(Len(m))  BY MemoryIs
<1>3. e \in s .. Len(m) /\ m[e] = Nul /\ \A j \in s .. e - 1 : m[j] # Nul  BY <1>1 DEF IsFirst
<1>4. IsString(StringAt(m, s), m, s, e)  BY <1>2, <1>3, StringWhere
<1> QED  BY <1>3, <1>4

\* Two strings are the same if they are as long and have the same bytes.
LEMMA SameStrings ==
    ASSUME NEW a \in Seq(Bytes), NEW b \in Seq(Bytes)
    PROVE  a = b <=> Len(a) = Len(b) /\ \A k \in 1 .. Len(a) : a[k] = b[k]
  OBVIOUS

\* One begins the other if it is no longer and has the same bytes.
LEMMA PrefixIs ==
    ASSUME NEW a \in Seq(Bytes), NEW b \in Seq(Bytes)
    PROVE  IsPrefix(a, b) <=> Len(a) <= Len(b) /\ \A k \in 1 .. Len(a) : a[k] = b[k]
<1> SUFFICES ASSUME Len(a) <= Len(b)
             PROVE  SubSeq(a, 1, Len(a)) = SubSeq(b, 1, Len(a))
                        <=> \A k \in 1 .. Len(a) : a[k] = b[k]
  BY DEF IsPrefix
<1> DEFINE x == SubSeq(a, 1, Len(a))
           y == SubSeq(b, 1, Len(a))
<1>1. /\ x \in Seq(Bytes) /\ Len(x) = Len(a) /\ \A k \in 1 .. Len(a) : x[k] = a[k]
      /\ y \in Seq(Bytes) /\ Len(y) = Len(a) /\ \A k \in 1 .. Len(a) : y[k] = b[k]
  OBVIOUS
<1> HIDE DEF x, y
<1>2. x = y <=> \A k \in 1 .. Len(a) : x[k] = y[k]  BY <1>1, SameStrings
<1>3. x = y <=> \A k \in 1 .. Len(a) : a[k] = b[k]  BY <1>1, <1>2
<1> QED  BY <1>3 DEF x, y

\* Two pieces agree up to i.
IsAgreement(m, s1, s2, n, i) ==
    /\ i \in 0 .. n /\ (i = n \/ m[s1 + i] # m[s2 + i])
    /\ \A j \in 0 .. i - 1 : m[s1 + j] = m[s2 + j]

\* Agreement finds where.
LEMMA AgreementIs ==
    ASSUME NEW m, NEW s1, NEW s2, NEW n \in Nat
    PROVE  IsAgreement(m, s1, s2, n, Agreement(m, s1, s2, n))
<1> DEFINE S == {i \in 0 .. n : i = n \/ m[s1 + i] # m[s2 + i]}
           i == Min(S)
<1>1. S \in SUBSET Nat /\ S # {}  OBVIOUS
<1>2. i \in S /\ \A y \in S : i <= y  BY <1>1, MinIsLeast
<1> HIDE DEF i
<1>3. i \in 0 .. n /\ (i = n \/ m[s1 + i] # m[s2 + i])  BY <1>2
<1>4. \A j \in 0 .. i - 1 : m[s1 + j] = m[s2 + j]
  <2> SUFFICES ASSUME NEW j \in 0 .. i - 1, m[s1 + j] # m[s2 + j] PROVE FALSE  OBVIOUS
  <2>1. j \in S /\ ~(i <= j)  BY <1>3
  <2> QED  BY <1>2, <2>1
<1>5. \E k \in 0 .. n : (k = n \/ m[s1 + k] # m[s2 + k])
                        /\ \A j \in 0 .. k - 1 : m[s1 + j] = m[s2 + j]
  BY <1>3, <1>4, Zenon
<1> QED  BY <1>5, Zenon DEF Agreement, IsAgreement

\* Two pieces of n bytes are the same.
SameBytes(m, s1, s2, n) == \A j \in 0 .. n - 1 : m[s1 + j] = m[s2 + j]

\* memcmp says whether they are.
LEMMA MemcmpIs ==
    ASSUME NEW m, NEW s1, NEW s2, NEW n \in Nat
    PROVE  memcmp(m, s1, s2, n) = 0 <=> SameBytes(m, s1, s2, n)
<1> DEFINE i == Agreement(m, s1, s2, n)
<1>1. IsAgreement(m, s1, s2, n, i)  BY AgreementIs
<1>2. memcmp(m, s1, s2, n) = IF i = n THEN 0 ELSE IF m[s1 + i] < m[s2 + i] THEN -1 ELSE 1
  BY DEF memcmp
<1> HIDE DEF i
<1>3. memcmp(m, s1, s2, n) = 0 <=> i = n  BY <1>2
<1>4. CASE i = n  BY <1>1, <1>3, <1>4 DEF IsAgreement, SameBytes
<1>5. CASE i # n
  <2>1. i \in 0 .. n - 1 /\ m[s1 + i] # m[s2 + i]  BY <1>1, <1>5 DEF IsAgreement
  <2> QED  BY <1>3, <1>5, <2>1 DEF SameBytes
<1> QED  BY <1>4, <1>5
-----------------------------------------------------------------------------
(* The copies agree. *)

\* memmove moves, whichever way the pieces overlap.
LEMMA MemmoveMoves ==
    ASSUME NEW size \in Nat, NEW m \in OfSize(size), NEW d \in 1 .. size, NEW s \in 1 .. size,
           NEW n \in Nat, s + n <= size + 1, d + n <= size + 1
    PROVE  IsMoved(memmove(m, d, s, n), m, d, s, n, size)
<1>1. CASE s > d
  <2>1. IsMoved(Copy(m, d, s, Upwards(n)), m, d, s, n, size)  BY <1>1, UpwardsMoves
  <2> QED  BY <1>1, <2>1 DEF memmove
<1>2. CASE s < d
  <2>1. IsMoved(Copy(m, d, s, Downwards(n)), m, d, s, n, size)  BY <1>2, DownwardsMoves
  <2>2. ~(s > d)  BY <1>2
  <2> QED  BY <1>2, <2>1, <2>2 DEF memmove
<1>3. CASE s = d
  <2>1. memmove(m, d, s, n) = m  BY <1>3 DEF memmove
  <2>2. \A i \in 1 .. size : i - d + s = i  BY <1>3
  <2> QED  BY <2>1, <2>2 DEF IsMoved
<1> QED  BY <1>1, <1>2, <1>3

\* What a piece is after it was moved, in one expression.
MovedTo(m, d, s, n) == [i \in DOMAIN m |-> IF i \in d .. d + n - 1 THEN m[i - d + s] ELSE m[i]]

\* Memory where the bytes are moved is just that.
LEMMA MovedIs ==
    ASSUME NEW size \in Nat, NEW m \in OfSize(size), NEW d, NEW s, NEW n, NEW c,
           IsMoved(c, m, d, s, n, size)
    PROVE  c = MovedTo(m, d, s, n)
<1>1. DOMAIN m = 1 .. size  BY DEF OfSize
<1>2. c = [i \in 1 .. size |-> c[i]]  BY DEF IsMoved, OfSize
<1> QED  BY <1>1, <1>2 DEF IsMoved, MovedTo

\* memcmp finds what was moved, where it was not itself moved over.
LEMMA MovedCompares ==
    ASSUME NEW size \in Nat, NEW m \in OfSize(size), NEW d \in 1 .. size, NEW s \in 1 .. size,
           NEW n \in Nat, s + n <= size + 1, d + n <= size + 1, NEW c,
           IsMoved(c, m, d, s, n, size), ~Overlap(d, s, n)
    PROVE  memcmp(c, d, s, n) = 0
<1>1. ASSUME NEW j \in 0 .. n - 1 PROVE c[d + j] = c[s + j]
  <2>1. d + j \in 1 .. size /\ s + j \in 1 .. size  OBVIOUS
  <2>2. d + j \in d .. d + n - 1 /\ (d + j) - d + s = s + j  OBVIOUS
  <2>3. s + j \notin d .. d + n - 1  BY DEF Overlap
  <2>4. c[d + j] = m[s + j]  BY <2>1, <2>2 DEF IsMoved
  <2>5. c[s + j] = m[s + j]  BY <2>1, <2>3 DEF IsMoved
  <2> QED  BY <2>4, <2>5
<1>2. SameBytes(c, d, s, n)  BY <1>1 DEF SameBytes
<1> QED  BY <1>2, MemcmpIs

\* What is copied upwards and terminated, in one expression.
CopiesString(m, d, s, k, a) ==
    StringAt([Copy(m, d, s, Upwards(k)) EXCEPT ![d + k] = Nul], d) = SubSeq(a, 1, k)

\* It is the string it was copied from, or as much of it as was copied.
LEMMA CopyEnds ==
    ASSUME NEW size \in Nat, NEW m \in OfSize(size), NEW d \in 1 .. size, NEW s \in 1 .. size,
           NEW e \in Nat, NEW a, IsString(a, m, s, e), NEW k \in 0 .. e - s,
           d + k <= size, ~Overlap(d, s, e - s + 1)
    PROVE  CopiesString(m, d, s, k, a)
<1> DEFINE c == Copy(m, d, s, Upwards(k))
           r == [c EXCEPT ![d + k] = Nul]
           x == StringAt(r, d)
           y == SubSeq(a, 1, k)
<1>1. Len(m) = size  BY SizedMemory
<1>2. e \in s .. size /\ (\A j \in s .. e - 1 : m[j] # Nul) /\ a \in Seq(Bytes) /\ Len(a) = e - s
      /\ \A j \in 1 .. e - s : a[j] = m[s + j - 1]
  BY <1>1 DEF IsString
<1>3. IsMoved(c, m, d, s, k, size)
  <2>1. k \in Nat /\ s + k <= size + 1  BY <1>2
  <2>2. d <= s \/ s + k <= d  BY <1>2 DEF Overlap
  <2> QED  BY <2>1, <2>2, UpwardsMoves
<1> HIDE DEF c
<1>4. c \in OfSize(size) /\ \A j \in 1 .. size : j \in d .. d + k - 1 => c[j] = m[j - d + s]
  BY <1>3 DEF IsMoved
<1>5. r \in OfSize(size) /\ r[d + k] = Nul /\ \A j \in d .. d + k - 1 : r[j] = c[j]
  <2>1. d + k \in 1 .. size /\ Nul \in Bytes  BY NulIsByte
  <2>2. \A j \in d .. d + k - 1 : j \in 1 .. size /\ j # d + k  BY <1>2
  <2> QED  BY <1>4, <2>1, <2>2 DEF OfSize
<1> HIDE DEF r
<1>6. \A j \in d .. d + k - 1 : r[j] = m[j - d + s] /\ j - d + s \in s .. e - 1
  <2> TAKE j \in d .. d + k - 1
  <2>1. j \in 1 .. size /\ j - d + s \in s .. e - 1  BY <1>2
  <2> QED  BY <1>4, <1>5, <2>1
<1>7. IsString(x, r, d, d + k)
  <2>1. d + k \in d .. size  OBVIOUS
  <2>2. ASSUME NEW j \in d .. (d + k) - 1 PROVE r[j] # Nul
    <3>1. j \in d .. d + k - 1  OBVIOUS
    <3>2. PICK i \in s .. e - 1 : i = j - d + s  BY <1>6, <3>1
    <3> QED  BY <1>2, <1>6, <3>1, <3>2
  <2> QED  BY <1>5, <2>1, <2>2, StringWhere
<1> HIDE DEF x
<1>8. x \in Seq(Bytes) /\ Len(x) = k /\ \A j \in 1 .. k : x[j] = r[d + j - 1]
  <2>1. (d + k) - d = k  OBVIOUS
  <2> QED  BY <1>7, <2>1 DEF IsString
<1>9. y \in Seq(Bytes) /\ Len(y) = k /\ \A j \in 1 .. k : y[j] = a[j]
  <2>1. k \in 0 .. Len(a)  BY <1>2
  <2> QED  BY <1>2, <2>1
<1> HIDE DEF y
<1>10. ASSUME NEW j \in 1 .. k PROVE x[j] = y[j]
  <2>1. d + j - 1 \in d .. d + k - 1 /\ (d + j - 1) - d + s = s + j - 1 /\ j \in 1 .. e - s
    BY <1>2
  <2>2. r[d + j - 1] = m[s + j - 1]  BY <1>6, <2>1
  <2> QED  BY <1>2, <1>8, <1>9, <2>1, <2>2
<1>11. x = y  BY <1>8, <1>9, <1>10, SameStrings
<1> QED  BY <1>11 DEF x, y, r, c, CopiesString

\* The lesser of two numbers.
LEMMA MinOfTwo ==
    ASSUME NEW a \in Nat, NEW b \in Nat
    PROVE  Min({a, b}) \in {a, b} /\ Min({a, b}) <= a /\ Min({a, b}) <= b
           /\ (a <= b => Min({a, b}) = a) /\ (b <= a => Min({a, b}) = b)
<1>1. {a, b} \in SUBSET Nat /\ {a, b} # {}  OBVIOUS
<1>2. Min({a, b}) \in {a, b} /\ \A y \in {a, b} : Min({a, b}) <= y  BY <1>1, MinIsLeast
<1> QED  BY <1>2

\* memcpy, memmove, strcpy and strncpy leave what they should in any memory.
LEMMA CopiesDoAgree ==
    ASSUME NEW m, Ends(m)
    PROVE  CopiesAgree(m)
<1> DEFINE size == Len(m)
<1>1. size \in Nat \ {0} /\ DOMAIN m = 1 .. size /\ m \in OfSize(size)  BY MemoryIs
<1> HIDE DEF size
<1>2. ASSUME NEW x \in Pieces(m)
      PROVE  /\ memmove(m, x[1], x[2], x[3]) = MovedTo(m, x[1], x[2], x[3])
             /\ (~Overlap(x[1], x[2], x[3]) \/ x[1] <= x[2]) =>
                    memcpy(m, x[1], x[2], x[3]) = MovedTo(m, x[1], x[2], x[3])
             /\ \/ memcmp(memmove(m, x[1], x[2], x[3]), x[1], x[2], x[3]) = 0
                \/ Overlap(x[1], x[2], x[3])
  <2> DEFINE d == x[1]
             s == x[2]
             n == x[3]
  <2>1. d \in 1 .. size /\ s \in 1 .. size /\ n \in Nat /\ d + n <= size + 1 /\ s + n <= size + 1
    BY <1>1 DEF Pieces, size
  <2> HIDE DEF d, s, n
  <2>2. IsMoved(memmove(m, d, s, n), m, d, s, n, size)  BY <1>1, <2>1, MemmoveMoves
  <2>3. memmove(m, d, s, n) = MovedTo(m, d, s, n)  BY <1>1, <2>2, MovedIs
  <2>4. ASSUME ~Overlap(d, s, n) \/ d <= s PROVE memcpy(m, d, s, n) = MovedTo(m, d, s, n)
    <3>1. d <= s \/ s + n <= d  BY <2>1, <2>4 DEF Overlap
    <3>2. IsMoved(Copy(m, d, s, Upwards(n)), m, d, s, n, size)
      BY <1>1, <2>1, <3>1, UpwardsMoves
    <3> QED  BY <1>1, <3>2, MovedIs DEF memcpy
  <2>5. memcmp(memmove(m, d, s, n), d, s, n) = 0 \/ Overlap(d, s, n)
    BY <1>1, <2>1, <2>2, MovedCompares
  <2> QED  BY <2>3, <2>4, <2>5 DEF d, s, n
<1>3. ASSUME NEW d \in DOMAIN m, NEW s \in DOMAIN m, NEW n \in 0 .. Len(m),
             d + strlen(m, s) <= Len(m), ~Overlap(d, s, strlen(m, s) + 1)
      PROVE  /\ StringAt(strcpy(m, d, s), d) = StringAt(m, s)
             /\ StringAt(strncpy(m, d, s, n), d) = Upto(StringAt(m, s), n)
  <2> DEFINE a == StringAt(m, s)
             l == strlen(m, s)
             k == Min({n, l})
  <2>1. d \in 1 .. size /\ s \in 1 .. size /\ s \in 1 .. Len(m)  BY <1>1 DEF size
  <2>2. PICK e \in s .. Len(m) : IsString(a, m, s, e)  BY <2>1, StringIs
  <2> HIDE DEF a
  <2>3. l = e - s /\ a \in Seq(Bytes) /\ Len(a) = e - s  BY <2>2 DEF IsString
  <2> HIDE DEF l
  <2>4. e \in Nat /\ l \in Nat /\ n \in Nat  BY <1>1, <2>1, <2>2, <2>3 DEF size
  <2>5. k \in {n, l} /\ k <= l /\ k <= n  BY <2>4, MinOfTwo
  <2>6. k = Min({n, Len(a)})  BY <2>3
  <2> HIDE DEF k
  <2>7. ASSUME NEW j \in 0 .. e - s
        PROVE  CopiesString(m, d, s, j, a)
    <3>1. d + j <= size  BY <1>1, <1>3, <2>1, <2>3, <2>4 DEF size, l
    <3>2. ~Overlap(d, s, e - s + 1)  BY <1>3, <2>3 DEF l
    <3> QED  BY <1>1, <2>1, <2>2, <2>4, <3>1, <3>2, CopyEnds
  <2>8. l \in 0 .. e - s /\ k \in 0 .. e - s  BY <2>3, <2>4, <2>5
  <2>9. d # nullptr  BY <2>1 DEF nullptr
  <2>10. strcpy(m, d, s) = [Copy(m, d, s, Upwards(l)) EXCEPT ![d + l] = Nul]
    BY <2>9 DEF strcpy, l
  <2>11. strncpy(m, d, s, n) = [Copy(m, d, s, Upwards(k)) EXCEPT ![d + k] = Nul]
    BY <2>9 DEF strncpy, l, k
  <2>12. SubSeq(a, 1, l) = a  BY <2>3
  <2>13. Upto(a, n) = SubSeq(a, 1, k)  BY <2>6 DEF Upto
  <2> QED  BY <2>7, <2>8, <2>10, <2>11, <2>12, <2>13 DEF a, CopiesString
<1> QED  BY <1>2, <1>3 DEF CopiesAgree, MovedTo
-----------------------------------------------------------------------------
(* The searches and comparisons agree. *)

\* How much of a string there is, in one expression.
LEMMA UptoIs ==
    ASSUME NEW a \in Seq(Bytes), NEW n \in Nat
    PROVE  /\ Upto(a, n) \in Seq(Bytes)
           /\ Len(Upto(a, n)) = IF n <= Len(a) THEN n ELSE Len(a)
           /\ \A j \in 1 .. Len(Upto(a, n)) : Upto(a, n)[j] = a[j]
<1> DEFINE k == Min({n, Len(a)})
<1>1. Len(a) \in Nat  OBVIOUS
<1>2. k \in 0 .. Len(a) /\ k = IF n <= Len(a) THEN n ELSE Len(a)  BY <1>1, MinOfTwo
<1>3. Upto(a, n) = SubSeq(a, 1, k)  BY DEF Upto
<1> HIDE DEF k
<1> DEFINE x == SubSeq(a, 1, k)
<1>4. x \in Seq(Bytes) /\ Len(x) = k /\ \A j \in 1 .. k : x[j] = a[j]  BY <1>2
<1> HIDE DEF x
<1> QED  BY <1>2, <1>3, <1>4 DEF x

\* The bytes of a string, as the memory holds them.
LEMMA StringBytes ==
    ASSUME NEW m, Ends(m), NEW s \in 1 .. Len(m), NEW e, NEW a, IsString(a, m, s, e)
    PROVE  /\ Len(m) \in Nat /\ e \in s .. Len(m) /\ e \in Nat /\ m[e] = Nul
           /\ a \in Seq(Bytes) /\ Len(a) \in Nat /\ e = s + Len(a)
           /\ \A j \in 0 .. Len(a) - 1 : m[s + j] # Nul /\ m[s + j] = a[j + 1]
           /\ \A j \in 0 .. Len(a) : m[s + j] \in Bytes /\ m[s + j] \in Nat
<1>1. Len(m) \in Nat /\ \A i \in 1 .. Len(m) : m[i] \in Bytes /\ m[i] \in Nat  BY MemoryIs
<1>2. e \in s .. Len(m) /\ e \in Nat /\ m[e] = Nul /\ a \in Seq(Bytes) /\ Len(a) = e - s
      /\ (\A j \in s .. e - 1 : m[j] # Nul) /\ \A k \in 1 .. e - s : a[k] = m[s + k - 1]
  BY <1>1 DEF IsString
<1>3. Len(a) \in Nat /\ e = s + Len(a)  BY <1>2
<1>4. ASSUME NEW j \in 0 .. Len(a) - 1 PROVE m[s + j] # Nul /\ m[s + j] = a[j + 1]
  <2>1. s + j \in s .. e - 1 /\ j + 1 \in 1 .. e - s /\ s + (j + 1) - 1 = s + j  BY <1>2, <1>3
  <2>2. a[j + 1] = m[s + (j + 1) - 1]  BY <1>2, <2>1
  <2> QED  BY <1>2, <2>1, <2>2
<1>5. ASSUME NEW j \in 0 .. Len(a) PROVE m[s + j] \in Bytes /\ m[s + j] \in Nat
  <2>1. s + j \in 1 .. Len(m)  BY <1>1, <1>2, <1>3
  <2> QED  BY <1>1, <2>1
<1> QED  BY <1>1, <1>2, <1>3, <1>4, <1>5

\* Two strings are the same up to k, and there they part or both end.
Meets(m, s1, s2, k) ==
    /\ k \in Nat
    /\ \A j \in 0 .. k - 1 : m[s1 + j] = m[s2 + j] /\ m[s1 + j] # Nul
    /\ m[s1 + k] # m[s2 + k] \/ m[s1 + k] = Nul

\* They do so at one place.
LEMMA MeetsOnce ==
    ASSUME NEW m, NEW s1, NEW s2, NEW k, NEW l, Meets(m, s1, s2, k), Meets(m, s1, s2, l)
    PROVE  k = l
<1>1. k \in Nat /\ l \in Nat  BY DEF Meets
<1>2. ~(k < l)
  <2> SUFFICES ASSUME k < l PROVE FALSE  OBVIOUS
  <2>1. k \in 0 .. l - 1  BY <1>1
  <2> QED  BY <2>1 DEF Meets
<1>3. ~(l < k)
  <2> SUFFICES ASSUME l < k PROVE FALSE  OBVIOUS
  <2>1. l \in 0 .. k - 1  BY <1>1
  <2> QED  BY <2>1 DEF Meets
<1> QED  BY <1>1, <1>2, <1>3

\* Neither has ended before.
LEMMA MeetsWithin ==
    ASSUME NEW m, Ends(m), NEW s1 \in 1 .. Len(m), NEW s2 \in 1 .. Len(m), NEW k,
           NEW e1, NEW e2, NEW a, NEW b, IsString(a, m, s1, e1), IsString(b, m, s2, e2),
           Meets(m, s1, s2, k)
    PROVE  k <= Len(a) /\ k <= Len(b) /\ k \in Nat
<1>1. k \in Nat /\ Len(a) \in Nat /\ Len(b) \in Nat  BY StringBytes DEF Meets
<1>2. m[s1 + Len(a)] = Nul /\ m[s2 + Len(b)] = Nul  BY StringBytes
<1>3. k <= Len(a)
  <2> SUFFICES ASSUME Len(a) < k PROVE FALSE  BY <1>1
  <2>1. Len(a) \in 0 .. k - 1  BY <1>1
  <2> QED  BY <1>2, <2>1 DEF Meets
<1>4. k <= Len(b)
  <2> SUFFICES ASSUME Len(b) < k PROVE FALSE  BY <1>1
  <2>1. Len(b) \in 0 .. k - 1  BY <1>1
  <2> QED  BY <1>2, <2>1 DEF Meets
<1> QED  BY <1>1, <1>3, <1>4

\* The strings are the same just if they end where they meet.
LEMMA MeetsSame ==
    ASSUME NEW m, Ends(m), NEW s1 \in 1 .. Len(m), NEW s2 \in 1 .. Len(m), NEW k,
           NEW e1, NEW e2, NEW a, NEW b, IsString(a, m, s1, e1), IsString(b, m, s2, e2),
           Meets(m, s1, s2, k)
    PROVE  /\ a = b <=> m[s1 + k] = m[s2 + k]
           /\ IsStrictPrefix(a, b) => m[s1 + k] = Nul /\ m[s2 + k] # Nul
<1>1. k <= Len(a) /\ k <= Len(b) /\ k \in Nat  BY MeetsWithin
<1>2. /\ Len(a) \in Nat /\ m[s1 + Len(a)] = Nul /\ a \in Seq(Bytes)
      /\ \A j \in 0 .. Len(a) - 1 : m[s1 + j] # Nul /\ m[s1 + j] = a[j + 1]
  BY StringBytes
<1>3. /\ Len(b) \in Nat /\ m[s2 + Len(b)] = Nul /\ b \in Seq(Bytes)
      /\ \A j \in 0 .. Len(b) - 1 : m[s2 + j] # Nul /\ m[s2 + j] = b[j + 1]
  BY StringBytes
<1>4. ASSUME m[s1 + k] = m[s2 + k] PROVE a = b
  <2>1. m[s1 + k] = Nul /\ m[s2 + k] = Nul  BY <1>4 DEF Meets
  <2>2. k = Len(a)
    <3>1. k < Len(a) => k \in 0 .. Len(a) - 1  BY <1>1, <1>2
    <3> QED  BY <1>1, <1>2, <2>1, <3>1
  <2>3. k = Len(b)
    <3>1. k < Len(b) => k \in 0 .. Len(b) - 1  BY <1>1, <1>3
    <3> QED  BY <1>1, <1>3, <2>1, <3>1
  <2>4. ASSUME NEW j \in 1 .. Len(a) PROVE a[j] = b[j]
    <3>1. j - 1 \in 0 .. k - 1 /\ (j - 1) + 1 = j  BY <1>2, <2>2
    <3>2. m[s1 + (j - 1)] = m[s2 + (j - 1)]  BY <3>1 DEF Meets
    <3>3. m[s1 + (j - 1)] = a[(j - 1) + 1]  BY <1>2, <2>2, <3>1
    <3>4. m[s2 + (j - 1)] = b[(j - 1) + 1]  BY <1>3, <2>3, <3>1
    <3> QED  BY <3>1, <3>2, <3>3, <3>4
  <2>5. a \in Seq(Bytes) /\ b \in Seq(Bytes) /\ Len(a) = Len(b)  BY <1>2, <1>3, <2>2, <2>3
  <2> QED  BY <2>4, <2>5, SameStrings
<1>5. ASSUME a = b PROVE m[s1 + k] = m[s2 + k]
  <2>1. CASE k = Len(a)  BY <1>2, <1>3, <1>5, <2>1
  <2>2. CASE k # Len(a)
    <3>1. k \in 0 .. Len(a) - 1 /\ k \in 0 .. Len(b) - 1  BY <1>1, <1>2, <1>5, <2>2
    <3>2. m[s1 + k] = a[k + 1]  BY <1>2, <3>1
    <3>3. m[s2 + k] = b[k + 1]  BY <1>3, <3>1
    <3> QED  BY <1>5, <3>2, <3>3
  <2> QED  BY <2>1, <2>2
<1>6. ASSUME IsStrictPrefix(a, b) PROVE m[s1 + k] = Nul /\ m[s2 + k] # Nul
  <2>1. a # b /\ Len(a) <= Len(b) /\ \A j \in 1 .. Len(a) : a[j] = b[j]
    BY <1>2, <1>3, <1>6, PrefixIs DEF IsStrictPrefix
  <2>2. m[s1 + k] # m[s2 + k]  BY <1>4, <2>1
  <2>3. k = Len(a)
    <3> SUFFICES ASSUME k < Len(a) PROVE FALSE  BY <1>1, <1>2
    <3>1. k \in 0 .. Len(a) - 1 /\ k \in 0 .. Len(b) - 1 /\ k + 1 \in 1 .. Len(a)
      BY <1>1, <1>2, <1>3, <2>1
    <3>2. m[s1 + k] = a[k + 1]  BY <1>2, <3>1
    <3>3. m[s2 + k] = b[k + 1]  BY <1>3, <3>1
    <3> QED  BY <2>1, <2>2, <3>1, <3>2, <3>3
  <2> QED  BY <1>2, <2>2, <2>3
<1> QED  BY <1>4, <1>5, <1>6

\* strcmp is the difference of the bytes where the strings meet.
LEMMA StrcmpMeets ==
    ASSUME NEW m, Ends(m), NEW s1 \in 1 .. Len(m), NEW s2 \in 1 .. Len(m),
           NEW e1, NEW e2, NEW a, NEW b, IsString(a, m, s1, e1), IsString(b, m, s2, e2)
    PROVE  \E k : Meets(m, s1, s2, k) /\ strcmp(m, s1, s2) = m[s1 + k] - m[s2 + k]
<1> DEFINE n == strlen(m, s1)
           i == Agreement(m, s1, s2, n)
<1>1. /\ Len(a) \in Nat /\ m[s1 + Len(a)] = Nul
      /\ \A j \in 0 .. Len(a) - 1 : m[s1 + j] # Nul /\ m[s1 + j] = a[j + 1]
  BY StringBytes
<1>2. n = Len(a)  BY DEF IsString
<1> HIDE DEF n
<1>3. IsAgreement(m, s1, s2, n, i)  BY <1>1, <1>2, AgreementIs
<1>4. strcmp(m, s1, s2) = m[s1 + i] - m[s2 + i]  BY DEF strcmp, n
<1> HIDE DEF i
<1>5. i \in Nat /\ i <= Len(a) /\ \A j \in 0 .. i - 1 : m[s1 + j] = m[s2 + j]
  BY <1>1, <1>2, <1>3 DEF IsAgreement
<1>6. \A j \in 0 .. i - 1 : m[s1 + j] # Nul
  <2> TAKE j \in 0 .. i - 1
  <2>1. j \in 0 .. Len(a) - 1  BY <1>1, <1>5
  <2> QED  BY <1>1, <2>1
<1>7. m[s1 + i] # m[s2 + i] \/ m[s1 + i] = Nul  BY <1>1, <1>2, <1>3 DEF IsAgreement
<1>8. Meets(m, s1, s2, i)  BY <1>5, <1>6, <1>7 DEF Meets
<1> QED  BY <1>4, <1>8

\* strcmp orders two strings.
LEMMA StrcmpAgrees ==
    ASSUME NEW m, Ends(m), NEW s1 \in 1 .. Len(m), NEW s2 \in 1 .. Len(m),
           NEW e1, NEW e2, NEW a, NEW b, IsString(a, m, s1, e1), IsString(b, m, s2, e2)
    PROVE  /\ (strcmp(m, s1, s2) = 0) = (a = b)
           /\ strcmp(m, s1, s2) = - strcmp(m, s2, s1)
           /\ IsStrictPrefix(a, b) => strcmp(m, s1, s2) < 0
<1>1. PICK k : Meets(m, s1, s2, k) /\ strcmp(m, s1, s2) = m[s1 + k] - m[s2 + k]
  BY StrcmpMeets
<1>2. PICK l : Meets(m, s2, s1, l) /\ strcmp(m, s2, s1) = m[s2 + l] - m[s1 + l]
  BY StrcmpMeets
<1>3. Meets(m, s1, s2, l)  BY <1>2 DEF Meets
<1>4. k = l  BY <1>1, <1>3, MeetsOnce
<1>5. k <= Len(a) /\ k <= Len(b) /\ k \in Nat  BY <1>1, MeetsWithin
<1>6. m[s1 + k] \in Nat /\ m[s2 + k] \in Nat
  <2>1. Len(a) \in Nat /\ \A j \in 0 .. Len(a) : m[s1 + j] \in Nat  BY StringBytes
  <2>2. Len(b) \in Nat /\ \A j \in 0 .. Len(b) : m[s2 + j] \in Nat  BY StringBytes
  <2>3. k \in 0 .. Len(a) /\ k \in 0 .. Len(b)  BY <1>5, <2>1, <2>2
  <2> QED  BY <2>1, <2>2, <2>3
<1>7. /\ a = b <=> m[s1 + k] = m[s2 + k]
      /\ IsStrictPrefix(a, b) => m[s1 + k] = Nul /\ m[s2 + k] # Nul
  BY <1>1, MeetsSame
<1>8. PICK x \in Nat, y \in Nat : x = m[s1 + k] /\ y = m[s2 + k]  BY <1>6
<1>9. strcmp(m, s1, s2) = x - y /\ strcmp(m, s2, s1) = y - x  BY <1>1, <1>2, <1>4, <1>8
<1>10. (strcmp(m, s1, s2) = 0) <=> (a = b)  BY <1>7, <1>8, <1>9
<1>11. IsStrictPrefix(a, b) => strcmp(m, s1, s2) < 0  BY <1>7, <1>8, <1>9 DEF Nul
<1> QED  BY <1>9, <1>10, <1>11
\* Reading bytes as chars keeps different ones different.
LEMMA CharsDiffer ==
    ASSUME NEW x \in Bytes, NEW y \in Bytes
    PROVE  Char(x) - Char(y) = 0 <=> x = y
<1>1. x \in Nat /\ y \in Nat /\ x <= 2 * SCHAR_MAX + 1 /\ y <= 2 * SCHAR_MAX + 1
      /\ SCHAR_MAX \in Nat
  BY SCHAR_MAXAssumption DEF Bytes
<1> QED  BY <1>1 DEF Char

\* strncmp tells equal from different up to the end of the shorter.
LEMMA StrncmpAgrees ==
    ASSUME NEW m, Ends(m), NEW s1 \in 1 .. Len(m), NEW s2 \in 1 .. Len(m),
           NEW e1, NEW e2, NEW a, NEW b, IsString(a, m, s1, e1), IsString(b, m, s2, e2),
           NEW n \in 0 .. Min({Len(a), Len(b)}) + 1
    PROVE  (strncmp(m, s1, s2, n) = 0) = (Upto(a, n) = Upto(b, n))
<1> DEFINE i == Agreement(m, s1, s2, n)
           least == Min({Len(a), Len(b)})
<1>1. /\ Len(a) \in Nat /\ m[s1 + Len(a)] = Nul /\ a \in Seq(Bytes)
      /\ \A j \in 0 .. Len(a) - 1 : m[s1 + j] # Nul /\ m[s1 + j] = a[j + 1]
      /\ \A j \in 0 .. Len(a) : m[s1 + j] \in Bytes
  BY StringBytes
<1>2. /\ Len(b) \in Nat /\ m[s2 + Len(b)] = Nul /\ b \in Seq(Bytes)
      /\ \A j \in 0 .. Len(b) - 1 : m[s2 + j] # Nul /\ m[s2 + j] = b[j + 1]
      /\ \A j \in 0 .. Len(b) : m[s2 + j] \in Bytes
  BY StringBytes
<1>3. least \in Nat /\ least <= Len(a) /\ least <= Len(b) /\ least \in {Len(a), Len(b)}
  BY <1>1, <1>2, MinOfTwo
<1> HIDE DEF least
<1>4. n \in Nat /\ n <= least + 1  BY <1>3 DEF least
<1>5. IsAgreement(m, s1, s2, n, i)  BY <1>4, AgreementIs
<1>6. strncmp(m, s1, s2, n) = IF i = n THEN 0 ELSE Char(m[s1 + i]) - Char(m[s2 + i])
  BY DEF strncmp
<1> HIDE DEF i
<1>7. i \in Nat /\ i <= n /\ \A j \in 0 .. i - 1 : m[s1 + j] = m[s2 + j]
  BY <1>4, <1>5 DEF IsAgreement
<1> DEFINE x == Upto(a, n)
           y == Upto(b, n)
<1>8. x \in Seq(Bytes) /\ Len(x) = (IF n <= Len(a) THEN n ELSE Len(a))
      /\ \A j \in 1 .. Len(x) : x[j] = a[j]
  BY <1>1, <1>4, UptoIs
<1>9. y \in Seq(Bytes) /\ Len(y) = (IF n <= Len(b) THEN n ELSE Len(b))
      /\ \A j \in 1 .. Len(y) : y[j] = b[j]
  BY <1>2, <1>4, UptoIs
<1> HIDE DEF x, y
<1>10. CASE i = n
  <2>1. strncmp(m, s1, s2, n) = 0  BY <1>6, <1>10
  <2>2. Len(x) = Len(y)
    <3>1. CASE n <= least
      <4>1. n <= Len(a) /\ n <= Len(b)  BY <1>1, <1>2, <1>3, <1>4, <3>1
      <4> QED  BY <1>8, <1>9, <4>1
    <3>2. CASE n = least + 1
      <4>1. least \in 0 .. i - 1  BY <1>3, <1>10, <3>2
      <4>2. m[s1 + least] = m[s2 + least]  BY <1>7, <4>1
      <4>3. ~(least < Len(a)) \/ ~(least < Len(b))  BY <1>1, <1>2, <1>3
      <4>4. least < Len(a) => m[s1 + least] # Nul
        <5>1. least < Len(a) => least \in 0 .. Len(a) - 1  BY <1>1, <1>3
        <5> QED  BY <1>1, <5>1
      <4>5. least < Len(b) => m[s2 + least] # Nul
        <5>1. least < Len(b) => least \in 0 .. Len(b) - 1  BY <1>2, <1>3
        <5> QED  BY <1>2, <5>1
      <4>6. least = Len(a) => m[s1 + least] = Nul  BY <1>1
      <4>7. least = Len(b) => m[s2 + least] = Nul  BY <1>2
      <4>8. least = Len(a) /\ least = Len(b)
        BY <1>1, <1>2, <1>3, <4>2, <4>4, <4>5, <4>6, <4>7
      <4> QED  BY <1>3, <1>8, <1>9, <3>2, <4>8
    <3> QED  BY <1>3, <1>4, <3>1, <3>2
  <2>3. ASSUME NEW j \in 1 .. Len(x) PROVE x[j] = y[j]
    <3>1. j \in Nat /\ j - 1 \in 0 .. i - 1 /\ j - 1 \in 0 .. Len(a) - 1 /\ j - 1 \in 0 .. Len(b) - 1
          /\ (j - 1) + 1 = j /\ j \in 1 .. Len(y)
      <4>1. j \in 1 .. Len(y)  BY <2>2
      <4>2. Len(x) <= n /\ Len(x) <= Len(a) /\ Len(x) \in Nat  BY <1>1, <1>4, <1>8
      <4>3. Len(y) <= Len(b)  BY <1>2, <1>4, <1>9
      <4> QED  BY <1>1, <1>2, <1>4, <1>10, <2>2, <4>1, <4>2, <4>3
    <3>2. m[s1 + (j - 1)] = m[s2 + (j - 1)]  BY <1>7, <3>1
    <3>3. m[s1 + (j - 1)] = a[(j - 1) + 1]  BY <1>1, <3>1
    <3>4. m[s2 + (j - 1)] = b[(j - 1) + 1]  BY <1>2, <3>1
    <3>5. x[j] = a[j] /\ y[j] = b[j]  BY <1>8, <1>9, <3>1
    <3> QED  BY <3>1, <3>2, <3>3, <3>4, <3>5
  <2>4. x \in Seq(Bytes) /\ y \in Seq(Bytes)  BY <1>8, <1>9
  <2>5. x = y  BY <2>2, <2>3, <2>4, SameStrings
  <2> QED  BY <2>1, <2>5 DEF x, y
<1>11. CASE i # n
  <2>1. m[s1 + i] # m[s2 + i] /\ i < n /\ i <= least
    BY <1>3, <1>4, <1>5, <1>7, <1>11 DEF IsAgreement
  <2>2. m[s1 + i] \in Bytes /\ m[s2 + i] \in Bytes
    <3>1. i \in 0 .. Len(a) /\ i \in 0 .. Len(b)
      <4>1. i \in Nat  BY <1>7
      <4>2. Len(a) \in Nat  BY <1>1
      <4>3. Len(b) \in Nat  BY <1>2
      <4> QED  BY <1>3, <2>1, <4>1, <4>2, <4>3
    <3> QED  BY <1>1, <1>2, <3>1
  <2>3. strncmp(m, s1, s2, n) # 0  BY <1>6, <1>11, <2>1, <2>2, CharsDiffer
  <2>4. x # y
    <3> SUFFICES ASSUME x = y PROVE FALSE  OBVIOUS
    <3>1. CASE i < Len(a) /\ i < Len(b)
      <4>1. i \in 0 .. Len(a) - 1 /\ i \in 0 .. Len(b) - 1  BY <1>1, <1>2, <1>7, <3>1
      <4>2. i + 1 \in 1 .. Len(x) /\ i + 1 \in 1 .. Len(y)
        BY <1>1, <1>2, <1>4, <1>7, <1>8, <1>9, <2>1, <3>1
      <4>3. m[s1 + i] = a[i + 1]  BY <1>1, <4>1
      <4>4. m[s2 + i] = b[i + 1]  BY <1>2, <4>1
      <4>5. x[i + 1] = a[i + 1]  BY <1>8, <4>2
      <4>6. y[i + 1] = b[i + 1]  BY <1>9, <4>2
      <4> QED  BY <2>1, <4>3, <4>4, <4>5, <4>6
    <3>2. CASE ~(i < Len(a) /\ i < Len(b))
      <4>1. i = least /\ n = least + 1  BY <1>1, <1>2, <1>3, <1>4, <1>7, <2>1, <3>2
      <4>2. Len(a) # Len(b)
        <5> SUFFICES ASSUME Len(a) = Len(b) PROVE FALSE  OBVIOUS
        <5>1. i = Len(a) /\ i = Len(b)  BY <1>3, <4>1
        <5> QED  BY <1>1, <1>2, <2>1, <5>1
      <4>3. Len(x) # Len(y)
        <5>1. CASE least = Len(a)
          <6>1. Len(b) >= n /\ ~(n <= Len(a))  BY <1>1, <1>2, <1>3, <4>1, <4>2, <5>1
          <6> QED  BY <1>1, <1>2, <1>4, <1>8, <1>9, <4>1, <5>1, <6>1
        <5>2. CASE least = Len(b)
          <6>1. Len(a) >= n /\ ~(n <= Len(b))  BY <1>1, <1>2, <1>3, <4>1, <4>2, <5>2
          <6> QED  BY <1>1, <1>2, <1>4, <1>8, <1>9, <4>1, <5>2, <6>1
        <5> QED  BY <1>3, <5>1, <5>2
      <4> QED  BY <4>3
    <3> QED  BY <3>1, <3>2
  <2> QED  BY <2>3, <2>4 DEF x, y
<1> QED  BY <1>10, <1>11

\* What strchr returns, as the comment at the property says it.
StrchrFinds(m, s1, a, c) ==
    LET at == strchr(m, s1, c)
    IN  IF c = Nul THEN at = s1 + Len(a)
        ELSE IF c \in ToSet(a) THEN at \in DOMAIN m /\ at - s1 = strcspn(m, s1, {c})
        ELSE at = nullptr

\* strchr finds the first of the bytes it looks for.
LEMMA StrchrAgrees ==
    ASSUME NEW m, Ends(m), NEW s1 \in 1 .. Len(m), NEW e1, NEW a, IsString(a, m, s1, e1),
           NEW c \in Bytes
    PROVE  StrchrFinds(m, s1, a, c)
<1> DEFINE i == First(m, s1, {c, Nul})
<1>1. /\ Len(m) \in Nat /\ e1 \in s1 .. Len(m) /\ m[e1] = Nul /\ e1 = s1 + Len(a) /\ Len(a) \in Nat
      /\ \A j \in 0 .. Len(a) - 1 : m[s1 + j] # Nul /\ m[s1 + j] = a[j + 1]
  BY StringBytes
<1>2. DOMAIN m = 1 .. Len(m)  BY MemoryIs
<1>3. IsFirst(m, s1, {c, Nul}, i)  BY FirstIsFirst
<1>4. strchr(m, s1, c) = IF m[i] = c THEN i ELSE nullptr  BY DEF strchr
<1>5. strcspn(m, s1, {c}) = i - s1
  <2>1. {Nul} \cup {c} = {c, Nul}  OBVIOUS
  <2> QED  BY <2>1 DEF strcspn
<1> HIDE DEF i
<1>6. i \in s1 .. Len(m) /\ (m[i] = c \/ m[i] = Nul)
      /\ \A j \in s1 .. i - 1 : m[j] # c /\ m[j] # Nul
  BY <1>3 DEF IsFirst
<1>7. i <= e1
  <2> SUFFICES ASSUME e1 < i PROVE FALSE  BY <1>1, <1>6
  <2>1. e1 \in s1 .. i - 1  BY <1>1, <1>6
  <2> QED  BY <1>1, <1>6, <2>1
<1>8. i < e1 => m[i] # Nul /\ m[i] = c /\ c \in ToSet(a)
  <2> SUFFICES ASSUME i < e1 PROVE m[i] # Nul /\ m[i] = c /\ c \in ToSet(a)  OBVIOUS
  <2>1. i - s1 \in 0 .. Len(a) - 1 /\ s1 + (i - s1) = i  BY <1>1, <1>6
  <2>2. m[i] # Nul /\ m[i] = a[(i - s1) + 1]  BY <1>1, <2>1
  <2>3. (i - s1) + 1 \in 1 .. Len(a) /\ DOMAIN a = 1 .. Len(a)  BY <1>1, <2>1 DEF IsString
  <2> QED  BY <1>6, <2>2, <2>3 DEF ToSet
<1>9. CASE c = Nul
  <2>1. i = e1  BY <1>1, <1>6, <1>7, <1>8, <1>9
  <2> QED  BY <1>1, <1>4, <1>9, <2>1 DEF StrchrFinds
<1>10. CASE c # Nul /\ c \in ToSet(a)
  <2>1. i < e1
    <3>1. a \in Seq(Bytes)  BY DEF IsString
    <3>2. PICK k \in 1 .. Len(a) : a[k] = c  BY <1>10, <3>1 DEF ToSet
    <3>3. k - 1 \in 0 .. Len(a) - 1 /\ (k - 1) + 1 = k /\ s1 + (k - 1) < e1
          /\ s1 + (k - 1) \in s1 .. e1 - 1
      BY <1>1
    <3>4. m[s1 + (k - 1)] = c
      <4>1. m[s1 + (k - 1)] = a[(k - 1) + 1]  BY <1>1, <3>3
      <4> QED  BY <3>2, <3>3, <4>1
    <3> SUFFICES ASSUME i = e1 PROVE FALSE  BY <1>1, <1>6, <1>7
    <3> QED  BY <1>6, <3>3, <3>4
  <2>2. m[i] = c  BY <1>8, <2>1
  <2>3. i \in DOMAIN m /\ strchr(m, s1, c) = i  BY <1>1, <1>2, <1>4, <1>6, <2>2
  <2> QED  BY <1>5, <1>10, <2>3 DEF StrchrFinds
<1>11. CASE c # Nul /\ c \notin ToSet(a)
  <2>1. i = e1  BY <1>1, <1>6, <1>7, <1>8, <1>11
  <2> QED  BY <1>1, <1>4, <1>11, <2>1 DEF StrchrFinds
<1> QED  BY <1>9, <1>10, <1>11
\* What strstr returns, as the property says it.
StrstrFinds(m, s1, s2, a, b) ==
    LET found == {i \in s1 .. s1 + Len(a) - 1 : IsPrefix(b, StringAt(m, i))}
    IN  strstr(m, s1, s2) = IF found = {} THEN nullptr ELSE Min(found)

\* Within a string, memcmp finds just what its rest begins with.
LEMMA MemcmpPrefix ==
    ASSUME NEW m, Ends(m), NEW s1 \in 1 .. Len(m), NEW s2 \in 1 .. Len(m),
           NEW e1, NEW e2, NEW a, NEW b, IsString(a, m, s1, e1), IsString(b, m, s2, e2),
           NEW i \in s1 .. e1
    PROVE  memcmp(m, i, s2, Len(b)) = 0 <=> IsPrefix(b, StringAt(m, i))
<1>1. Len(m) \in Nat /\ e1 \in s1 .. Len(m) /\ e1 \in Nat /\ m[e1] = Nul
      /\ \A j \in s1 .. e1 - 1 : m[j] # Nul
  BY StringBytes DEF IsString
<1>2. /\ Len(b) \in Nat /\ b \in Seq(Bytes)
      /\ \A j \in 0 .. Len(b) - 1 : m[s2 + j] # Nul /\ m[s2 + j] = b[j + 1]
  BY StringBytes
<1> DEFINE r == StringAt(m, i)
<1>3. m \in OfSize(Len(m))  BY MemoryIs
<1>4. i \in 1 .. Len(m) /\ e1 \in i .. Len(m) /\ \A j \in i .. e1 - 1 : m[j] # Nul
  BY <1>1
<1>5. IsString(r, m, i, e1)  BY <1>1, <1>3, <1>4, StringWhere
<1> HIDE DEF r
<1>6. /\ Len(r) \in Nat /\ e1 = i + Len(r) /\ r \in Seq(Bytes)
      /\ \A j \in 0 .. Len(r) - 1 : m[i + j] = r[j + 1]
  BY <1>4, <1>5, StringBytes
<1>7. IsPrefix(b, r) <=> Len(b) <= Len(r) /\ \A k \in 1 .. Len(b) : b[k] = r[k]
  BY <1>2, <1>6, PrefixIs
<1>8. memcmp(m, i, s2, Len(b)) = 0 <=> SameBytes(m, i, s2, Len(b))  BY <1>2, MemcmpIs
<1>9. ASSUME IsPrefix(b, r), NEW j \in 0 .. Len(b) - 1 PROVE m[i + j] = m[s2 + j]
  <2>1. Len(b) <= Len(r) /\ \A k \in 1 .. Len(b) : b[k] = r[k]  BY <1>7, <1>9
  <2>2. j \in 0 .. Len(r) - 1 /\ j + 1 \in 1 .. Len(b)  BY <1>2, <1>6, <2>1
  <2>3. m[i + j] = r[j + 1]  BY <1>6, <2>2
  <2>4. m[s2 + j] = b[j + 1]  BY <1>2
  <2> QED  BY <2>1, <2>2, <2>3, <2>4
<1>10. ASSUME SameBytes(m, i, s2, Len(b)) PROVE IsPrefix(b, r)
  <2>1. Len(b) <= Len(r)
    <3> SUFFICES ASSUME Len(r) < Len(b) PROVE FALSE  BY <1>2, <1>6
    <3>1. Len(r) \in 0 .. Len(b) - 1  BY <1>2, <1>6
    <3>2. m[i + Len(r)] = m[s2 + Len(r)]  BY <1>10, <3>1 DEF SameBytes
    <3>3. m[s2 + Len(r)] # Nul  BY <1>2, <3>1
    <3> QED  BY <1>1, <1>6, <3>2, <3>3
  <2>2. ASSUME NEW k \in 1 .. Len(b) PROVE b[k] = r[k]
    <3>1. k - 1 \in 0 .. Len(b) - 1 /\ k - 1 \in 0 .. Len(r) - 1 /\ (k - 1) + 1 = k
      BY <1>2, <1>6, <2>1
    <3>2. m[i + (k - 1)] = r[(k - 1) + 1]  BY <1>6, <3>1
    <3>3. m[s2 + (k - 1)] = b[(k - 1) + 1]  BY <1>2, <3>1
    <3>4. m[i + (k - 1)] = m[s2 + (k - 1)]  BY <1>10, <3>1 DEF SameBytes
    <3> QED  BY <3>1, <3>2, <3>3, <3>4
  <2> QED  BY <1>7, <2>1, <2>2
<1>11. IsPrefix(b, r) => SameBytes(m, i, s2, Len(b))  BY <1>9 DEF SameBytes
<1>12. memcmp(m, i, s2, Len(b)) = 0 <=> IsPrefix(b, r)  BY <1>8, <1>10, <1>11
<1> QED  BY <1>12 DEF r

\* strstr finds the first place the string it looks for begins at.
LEMMA StrstrAgrees ==
    ASSUME NEW m, Ends(m), NEW s1 \in 1 .. Len(m), NEW s2 \in 1 .. Len(m),
           NEW e1, NEW e2, NEW a, NEW b, IsString(a, m, s1, e1), IsString(b, m, s2, e2)
    PROVE  StrstrFinds(m, s1, s2, a, b)
<1> DEFINE n == strlen(m, s2)
           end == s1 + strlen(m, s1)
           Stops(i) == i = end \/ memcmp(m, i, s2, n) = 0
           S == {i \in s1 .. end : Stops(i)}
           i == CHOOSE i \in s1 .. end : Stops(i) /\ \A j \in s1 .. i - 1 : memcmp(m, j, s2, n) # 0
           found == {j \in s1 .. s1 + Len(a) - 1 : IsPrefix(b, StringAt(m, j))}
<1>1. e1 \in s1 .. Len(m) /\ e1 \in Nat /\ e1 = s1 + Len(a) /\ Len(a) \in Nat  BY StringBytes
<1>2. n = Len(b) /\ end = e1
  <2>1. strlen(m, s1) = e1 - s1 /\ strlen(m, s2) = e2 - s2 /\ Len(b) = e2 - s2  BY DEF IsString
  <2> QED  BY <1>1, <2>1
<1>3. strstr(m, s1, s2) = IF i = end THEN nullptr ELSE i  BY DEF strstr
<1> HIDE DEF n, end
<1>4. S \in SUBSET Nat /\ S # {}  BY <1>1, <1>2
<1>5. Min(S) \in S /\ \A y \in S : Min(S) <= y  BY <1>4, MinIsLeast
<1> HIDE DEF Stops
<1>6. ASSUME NEW j \in s1 .. Min(S) - 1 PROVE ~Stops(j)
  <2> SUFFICES ASSUME Stops(j) PROVE FALSE  OBVIOUS
  <2>1. Min(S) \in s1 .. end /\ Min(S) \in Nat  BY <1>4, <1>5
  <2>2. j \in S /\ ~(Min(S) <= j)  BY <1>1, <1>2, <2>1
  <2> QED  BY <1>5, <2>2
<1>7. i \in s1 .. end /\ Stops(i) /\ \A j \in s1 .. i - 1 : memcmp(m, j, s2, n) # 0
  <2>1. Min(S) \in s1 .. end /\ Stops(Min(S))  BY <1>5
  <2>2. \A j \in s1 .. Min(S) - 1 : memcmp(m, j, s2, n) # 0  BY <1>6 DEF Stops
  <2>3. \E k \in s1 .. end : Stops(k) /\ \A j \in s1 .. k - 1 : memcmp(m, j, s2, n) # 0
    BY <2>1, <2>2
  <2> QED  BY <2>3, Zenon
<1> HIDE DEF i
<1>8. i \in Nat /\ i \in s1 .. e1 /\ (i = e1 \/ memcmp(m, i, s2, n) = 0)
  BY <1>1, <1>2, <1>7 DEF Stops
<1>9. ASSUME NEW j \in s1 .. e1 PROVE memcmp(m, j, s2, n) = 0 <=> IsPrefix(b, StringAt(m, j))
  BY <1>2, MemcmpPrefix
<1>10. \A j \in Nat : j \in found <=> j \in s1 .. e1 - 1 /\ memcmp(m, j, s2, n) = 0
  <2> SUFFICES ASSUME NEW j \in Nat
               PROVE  j \in found <=> j \in s1 .. e1 - 1 /\ memcmp(m, j, s2, n) = 0
    OBVIOUS
  <2>1. j \in s1 .. e1 - 1 => j \in s1 .. e1  BY <1>1
  <2>2. j \in found <=> j \in s1 .. e1 - 1 /\ IsPrefix(b, StringAt(m, j))  BY <1>1
  <2> QED  BY <1>9, <2>1, <2>2
<1>11. found \in SUBSET Nat
  <2>1. \A j \in s1 .. s1 + Len(a) - 1 : j \in Nat  BY <1>1
  <2> QED  BY <2>1
<1> HIDE DEF found
<1>12. CASE i = e1
  <2>1. found = {}
    <3> SUFFICES ASSUME NEW j \in found PROVE FALSE  OBVIOUS
    <3>1. j \in s1 .. e1 - 1 /\ memcmp(m, j, s2, n) = 0  BY <1>10, <1>11
    <3> QED  BY <1>7, <1>12, <3>1
  <2>2. strstr(m, s1, s2) = nullptr  BY <1>2, <1>3, <1>12
  <2> QED  BY <2>1, <2>2 DEF StrstrFinds, found
<1>13. CASE i # e1
  <2>1. i \in s1 .. e1 - 1 /\ memcmp(m, i, s2, n) = 0  BY <1>1, <1>8, <1>13
  <2>2. i \in found  BY <1>8, <1>10, <2>1
  <2>3. Min(found) \in found /\ \A y \in found : Min(found) <= y  BY <1>11, <2>2, MinIsLeast
  <2>4. Min(found) \in Nat /\ Min(found) <= i  BY <1>11, <2>2, <2>3
  <2>5. Min(found) \in s1 .. e1 - 1 /\ memcmp(m, Min(found), s2, n) = 0  BY <1>10, <2>3, <2>4
  <2>6. ~(Min(found) < i)
    <3> SUFFICES ASSUME Min(found) < i PROVE FALSE  OBVIOUS
    <3>1. Min(found) \in s1 .. i - 1  BY <1>8, <2>4, <2>5
    <3> QED  BY <1>7, <2>5, <3>1
  <2>7. Min(found) = i  BY <1>8, <2>4, <2>6
  <2>8. strstr(m, s1, s2) = i  BY <1>2, <1>3, <1>13
  <2> QED  BY <2>2, <2>7, <2>8 DEF StrstrFinds, found
<1> QED  BY <1>12, <1>13

\* strspn and strcspn part a string.
LEMMA StrspnAgrees ==
    ASSUME NEW m, Ends(m), NEW s1 \in 1 .. Len(m), NEW e1, NEW a, IsString(a, m, s1, e1),
           NEW accept, strspn(m, s1, accept) < Len(a)
    PROVE  strcspn(m, s1 + strspn(m, s1, accept), accept) > 0
<1> DEFINE x == First(m, s1, {Nul} \cup (Bytes \ accept))
           y == First(m, x, {Nul} \cup accept)
<1>1. /\ Len(m) \in Nat /\ e1 \in s1 .. Len(m) /\ e1 = s1 + Len(a) /\ Len(a) \in Nat
      /\ \A j \in 0 .. Len(a) - 1 : m[s1 + j] # Nul
  BY StringBytes
<1>2. IsFirst(m, s1, {Nul} \cup (Bytes \ accept), x)  BY FirstIsFirst
<1>3. strspn(m, s1, accept) = x - s1  BY DEF strspn
<1> HIDE DEF x
<1>4. x \in s1 .. Len(m) /\ m[x] \in {Nul} \cup (Bytes \ accept)  BY <1>2 DEF IsFirst
<1>5. s1 + strspn(m, s1, accept) = x /\ x < e1 /\ x \in 1 .. Len(m)  BY <1>1, <1>3, <1>4
<1>6. strcspn(m, x, accept) = y - x  BY DEF strcspn
<1>7. IsFirst(m, x, {Nul} \cup accept, y)  BY <1>5, FirstIsFirst
<1> HIDE DEF y
<1>8. y \in x .. Len(m) /\ m[y] \in {Nul} \cup accept  BY <1>7 DEF IsFirst
<1>9. m[x] # Nul
  <2>1. x - s1 \in 0 .. Len(a) - 1 /\ s1 + (x - s1) = x  BY <1>1, <1>4, <1>5
  <2> QED  BY <1>1, <2>1
<1>10. y # x  BY <1>4, <1>8, <1>9
<1> QED  BY <1>1, <1>4, <1>5, <1>6, <1>8, <1>10

\* The comparisons and searches agree on any memory.
LEMMA SearchesDoAgree ==
    ASSUME NEW m, Ends(m)
    PROVE  SearchesAgree(m)
<1>1. DOMAIN m = 1 .. Len(m)  BY MemoryIs
<1>2. ASSUME NEW s1 \in DOMAIN m, NEW s2 \in DOMAIN m
      PROVE  LET a == StringAt(m, s1)
                 b == StringAt(m, s2)
             IN  /\ (strcmp(m, s1, s2) = 0) = (a = b)
                 /\ strcmp(m, s1, s2) = - strcmp(m, s2, s1)
                 /\ IsStrictPrefix(a, b) => strcmp(m, s1, s2) < 0
                 /\ \A n \in 0 .. Min({Len(a), Len(b)}) + 1 :
                     (strncmp(m, s1, s2, n) = 0) = (Upto(a, n) = Upto(b, n))
                 /\ \A c \in Bytes : StrchrFinds(m, s1, a, c)
                 /\ a # << >> => StrstrFinds(m, s1, s2, a, b)
                 /\ LET k == strspn(m, s1, ToSet(b))
                    IN  k < Len(a) => strcspn(m, s1 + k, ToSet(b)) > 0
  <2> DEFINE a == StringAt(m, s1)
             b == StringAt(m, s2)
  <2>1. s1 \in 1 .. Len(m) /\ s2 \in 1 .. Len(m)  BY <1>1
  <2>2. PICK e1 \in s1 .. Len(m) : IsString(a, m, s1, e1)  BY <2>1, StringIs
  <2>3. PICK e2 \in s2 .. Len(m) : IsString(b, m, s2, e2)  BY <2>1, StringIs
  <2> HIDE DEF a, b
  <2>4. /\ (strcmp(m, s1, s2) = 0) = (a = b)
        /\ strcmp(m, s1, s2) = - strcmp(m, s2, s1)
        /\ IsStrictPrefix(a, b) => strcmp(m, s1, s2) < 0
    BY <2>1, <2>2, <2>3, StrcmpAgrees
  <2>5. \A n \in 0 .. Min({Len(a), Len(b)}) + 1 :
            (strncmp(m, s1, s2, n) = 0) = (Upto(a, n) = Upto(b, n))
    BY <2>1, <2>2, <2>3, StrncmpAgrees
  <2>6. \A c \in Bytes : StrchrFinds(m, s1, a, c)  BY <2>1, <2>2, StrchrAgrees
  <2>7. StrstrFinds(m, s1, s2, a, b)  BY <2>1, <2>2, <2>3, StrstrAgrees
  <2>8. strspn(m, s1, ToSet(b)) < Len(a) =>
            strcspn(m, s1 + strspn(m, s1, ToSet(b)), ToSet(b)) > 0
    BY <2>1, <2>2, StrspnAgrees
  <2> QED  BY <2>4, <2>5, <2>6, <2>7, <2>8 DEF a, b
<1> QED  BY <1>2 DEF SearchesAgree, StrchrFinds, StrstrFinds

-----------------------------------------------------------------------------
(* Every memory strtok leaves is one in which every string ends. *)

\* The memory ends in NUL ...
TextEnds == Ends(text)

\* ... and always does: strtok writes nothing else.
LEMMA TextAlwaysEnds == Spec => []TextEnds
<1>1. Init => TextEnds
  <2>1. Init => text = original  BY DEF Init, StringsInit
  <2> QED  BY <2>1, StringsRightInit DEF StringsRight, TextEnds
<1>2. TextEnds /\ [Next]_libraryVars => TextEnds'
  <2> SUFFICES ASSUME TextEnds, [Next]_libraryVars PROVE Ends(text')  BY DEF TextEnds
  <2>1. text' = text \/ \E end : text' = [text EXCEPT ![end] = Nul]
    BY DEF Next, libraryVars, stringVars, StringsNext, FirstToken, NextToken, strtok
  <2>2. ASSUME NEW end, text' = [text EXCEPT ![end] = Nul] PROVE Ends(text')
    <3>1. Len(text) \in Nat \ {0} /\ text \in Seq(Bytes \cup {Nul}) /\ text[Len(text)] = Nul
      BY DEF Ends, TextEnds
    <3>2. PICK t : t = [text EXCEPT ![end] = Nul]  OBVIOUS
    <3>3. DOMAIN t = 1 .. Len(text) /\ \A i \in 1 .. Len(text) : t[i] = text[i] \/ t[i] = Nul
      BY <3>1, <3>2
    <3>4. text \in [1 .. Len(text) -> Bytes \cup {Nul}]  BY <3>1
    <3>5. t \in [1 .. Len(text) -> Bytes \cup {Nul}]  BY <3>2, <3>4
    <3>6. t \in Seq(Bytes \cup {Nul}) /\ Len(t) = Len(text)  BY <3>1, <3>5
    <3>7. t[Len(t)] = Nul  BY <3>1, <3>3, <3>6
    <3> QED  BY <2>2, <3>1, <3>2, <3>6, <3>7 DEF Ends
  <2> QED  BY <2>1, <2>2 DEF TextEnds
<1> QED  BY <1>1, <1>2, PTL DEF Spec

\* string.cpp:32, 72 and 83: in every memory, for every place and length, memmove,
\* memcpy, strcpy and strncpy leave what they should, strcmp, and strncmp up to the end
\* of the shorter, tell equal strings from different ones, and the searches find the
\* first of what they look for (strstr in a string that is not empty).
THEOREM StringsDoAgree == Spec => []StringsAgree
<1>1. TextEnds => StringsAgree
  BY CopiesDoAgree, SearchesDoAgree DEF StringsAgree, TextEnds
<1> QED  BY <1>1, TextAlwaysEnds, PTL
-----------------------------------------------------------------------------
(* The formatter: what it puts out are characters. *)

\* The characters the formatter has of its own; what it puts out are these and
\* the characters it is given.
OwnCharacters ==
    {" ", "0", "b", "x", "X", "+", "-"} \cup {DigitChars[k] : k \in 1 .. 16}
                                        \cup {UpperChars[k] : k \in 1 .. 16}

\* None of them is NUL.
LEMMA OwnAreShown == NUL \notin OwnCharacters
  BY DEF OwnCharacters, DigitChars, UpperChars, NUL

\* A character over and over.
LEMMA RepeatIs ==
    ASSUME NEW T, NEW char \in T, NEW n \in Int
    PROVE  /\ Repeat(char, n) \in Seq(T)
           /\ Len(Repeat(char, n)) = IF n > 0 THEN n ELSE 0
           /\ \A i \in 1 .. n : Repeat(char, n)[i] = char
<1>1. CASE n > 0  BY <1>1 DEF Repeat
<1>2. CASE ~(n > 0)  BY <1>2 DEF Repeat
<1> QED  BY <1>1, <1>2

\* The other way round.
LEMMA ReverseIs ==
    ASSUME NEW T, NEW buf \in Seq(T)
    PROVE  /\ Reverse(buf) \in Seq(T) /\ Len(Reverse(buf)) = Len(buf)
           /\ \A i \in 1 .. Len(buf) : Reverse(buf)[i] = buf[(Len(buf) - i) + 1]
  BY DEF Reverse

\* Up to a length.
LEMMA PadToIs ==
    ASSUME NEW T, NEW buf \in Seq(T), NEW char \in T, NEW n \in Int
    PROVE  /\ PadTo(buf, n, char) \in Seq(T)
           /\ Len(PadTo(buf, n, char)) = IF n > Len(buf) THEN n ELSE Len(buf)
           /\ \A i \in 1 .. Len(PadTo(buf, n, char)) :
                  PadTo(buf, n, char)[i] = IF i <= Len(buf) THEN buf[i] ELSE char
<1> DEFINE k == n - Len(buf)
           pad == Repeat(char, k)
<1>1. Len(buf) \in Nat /\ k \in Int  OBVIOUS
<1>2. /\ pad \in Seq(T) /\ Len(pad) = (IF k > 0 THEN k ELSE 0)
      /\ \A i \in 1 .. k : pad[i] = char
  BY <1>1, RepeatIs
<1>3. PadTo(buf, n, char) = buf \o pad  BY DEF PadTo
<1> HIDE DEF pad
<1>4. /\ buf \o pad \in Seq(T) /\ Len(buf \o pad) = Len(buf) + Len(pad)
      /\ \A i \in 1 .. Len(buf) + Len(pad) :
             (buf \o pad)[i] = IF i <= Len(buf) THEN buf[i] ELSE pad[i - Len(buf)]
  BY <1>2, ConcatProperties
<1> DEFINE s == buf \o pad
<1>5. Len(s) = IF n > Len(buf) THEN n ELSE Len(buf)  BY <1>1, <1>2, <1>4
<1>6. ASSUME NEW i \in 1 .. Len(s) PROVE s[i] = IF i <= Len(buf) THEN buf[i] ELSE char
  <2> HIDE DEF s
  <2>1. i \in 1 .. Len(buf) + Len(pad)  BY <1>1, <1>4 DEF s
  <2>2. s[i] = IF i <= Len(buf) THEN buf[i] ELSE pad[i - Len(buf)]  BY <1>4, <2>1 DEF s
  <2>3. ~(i <= Len(buf)) => i - Len(buf) \in 1 .. k  BY <1>1, <1>2, <2>1
  <2> QED  BY <1>2, <2>2, <2>3
<1> HIDE DEF s
<1> QED  BY <1>3, <1>4, <1>5, <1>6 DEF s

\* The first ones.
LEMMA TakeIsPrefix ==
    ASSUME NEW T, NEW chars \in Seq(T), NEW n \in Nat
    PROVE  /\ Take(chars, n) \in Seq(T)
           /\ Len(Take(chars, n)) = IF n < Len(chars) THEN n ELSE Len(chars)
<1>1. Len(chars) \in Nat  OBVIOUS
<1>2. Min({n, Len(chars)}) = IF n < Len(chars) THEN n ELSE Len(chars)
  <2>1. {n, Len(chars)} \in SUBSET Nat /\ {n, Len(chars)} # {}  BY <1>1
  <2>2. /\ Min({n, Len(chars)}) \in {n, Len(chars)}
        /\ \A y \in {n, Len(chars)} : Min({n, Len(chars)}) <= y
    BY <2>1, MinIsLeast
  <2> QED  BY <1>1, <2>2
<1> DEFINE m == Min({n, Len(chars)})
<1>3. m \in Nat /\ m <= Len(chars)  BY <1>1, <1>2
<1> HIDE DEF m
<1>4. SubSeq(chars, 1, m) \in Seq(T) /\ Len(SubSeq(chars, 1, m)) = m
  <2>1. \A i \in 1 .. m : chars[i] \in T  BY <1>1, <1>3
  <2>2. SubSeq(chars, 1, m) \in Seq(T) /\ Len(SubSeq(chars, 1, m)) = IF 1 <= m THEN m - 1 + 1 ELSE 0
    BY <1>3, <2>1, SubSeqProperties
  <2> QED  BY <1>3, <2>2
<1> QED  BY <1>2, <1>4 DEF Take, m

\* A digit below 16, as the flags want it.
DigitChar(v, flags) == (IF "UPPERCASE" \in flags THEN UpperChars ELSE DigitChars)[v + 1]

\* It is one of the formatter's.
LEMMA DigitIsOwn ==
    ASSUME NEW v \in 0 .. 15, NEW flags
    PROVE  DigitChar(v, flags) \in OwnCharacters
<1>1. v + 1 \in 1 .. 16  OBVIOUS
<1>2. DigitChar(v, flags) \in {DigitChars[v + 1], UpperChars[v + 1]}  BY DEF DigitChar
<1>3. DigitChars[v + 1] \in OwnCharacters /\ UpperChars[v + 1] \in OwnCharacters
  BY <1>1 DEF OwnCharacters
<1> QED  BY <1>2, <1>3

\* One turn of the loop that makes digits, and what it works on.
OneDigit(s, base, flags) ==
    IF s.buf # << >> /\ s.rest = 0 THEN s
    ELSE [buf |-> Append(s.buf, DigitChar(s.rest % base, flags)), rest |-> s.rest \div base]
Making == [buf : Seq(OwnCharacters), rest : Nat]

\* A turn leaves digits and a number.
LEMMA DigitMakes ==
    ASSUME NEW s \in Making, NEW base \in 2 .. 16, NEW flags
    PROVE  OneDigit(s, base, flags) \in Making
<1>1. s.buf \in Seq(OwnCharacters) /\ s.rest \in Nat  BY DEF Making
<1>2. s.rest % base \in 0 .. 15 /\ s.rest \div base \in Nat
  <2>1. base \in Nat \ {0}  OBVIOUS
  <2>2. s.rest % base \in 0 .. base - 1 /\ s.rest \div base \in Nat  BY <1>1, <2>1, DivMod
  <2> QED  BY <2>2
<1>3. DigitChar(s.rest % base, flags) \in OwnCharacters  BY <1>2, DigitIsOwn
<1>4. Append(s.buf, DigitChar(s.rest % base, flags)) \in Seq(OwnCharacters)  BY <1>1, <1>3
<1> QED  BY <1>2, <1>4 DEF OneDigit, Making

\* f[k] is what k turns have made of value.
DigitsGo(f, value, base, flags) ==
    /\ f \in [0 .. NTOA_BUFFER_SIZE -> Making]
    /\ f[0] = [buf |-> << >>, rest |-> value]
    /\ \A k \in 1 .. NTOA_BUFFER_SIZE : f[k] = OneDigit(f[k - 1], base, flags)

\* The loop goes turn by turn.
LEMMA DigitsAreMade ==
    ASSUME NEW value \in Nat, NEW base \in 2 .. 16, NEW flags
    PROVE  \E f : DigitsGo(f, value, base, flags) /\ Digits(value, base, flags) = f[NTOA_BUFFER_SIZE].buf
<1> DEFINE n == NTOA_BUFFER_SIZE
           start == [buf |-> << >>, rest |-> value]
           step == [k \in 1 .. n |-> [s \in Making |-> OneDigit(s, base, flags)]]
           IsAfter(g) == g = [k \in 0 .. n |-> IF k = 0 THEN start ELSE OneDigit(g[k - 1], base, flags)]
           after == CHOOSE g : IsAfter(g)
<1>1. n \in Nat  BY PrintfAssumption
<1>2. step \in [1 .. n -> [Making -> Making]]
  <2>1. \A s \in Making : OneDigit(s, base, flags) \in Making  BY DigitMakes
  <2> QED  BY <2>1
<1>3. start \in Making  BY DEF Making
<1>4. PICK f \in Walks(n, Making, start, step) : TRUE
  <2> HIDE DEF step, n, start
  <2> QED  BY <1>1, <1>2, <1>3, RecursionExists
<1>5. /\ f \in [0 .. n -> Making] /\ f[0] = start
      /\ \A k \in 1 .. n : f[k] = OneDigit(f[k - 1], base, flags)
  <2>1. f \in [0 .. n -> Making] /\ f[0] = start /\ \A k \in 1 .. n : f[k] = step[k][f[k - 1]]
    <3> HIDE DEF step, n, start
    <3> QED  BY <1>4 DEF Walks
  <2>2. ASSUME NEW k \in 1 .. n PROVE f[k] = OneDigit(f[k - 1], base, flags)
    <3>1. k - 1 \in 0 .. n  BY <1>1
    <3>2. f[k - 1] \in Making /\ f[k] = step[k][f[k - 1]]  BY <2>1, <3>1
    <3> QED  BY <3>2
  <2> QED  BY <2>1, <2>2
<1> HIDE DEF n
<1>6. IsAfter(f)
  <2> HIDE DEF start
  <2>1. \A k \in 0 .. n : f[k] = IF k = 0 THEN start ELSE OneDigit(f[k - 1], base, flags)
    BY <1>1, <1>5
  <2> QED  BY <1>5, <2>1
<1>7. IsAfter(after)  BY <1>6, Zenon
<1>8. Digits(value, base, flags) = after[n].buf  BY Zenon DEF Digits, OneDigit, DigitChar, n
<1> HIDE DEF after
<1>9. \A k \in 0 .. n : after[k] = IF k = 0 THEN start ELSE OneDigit(after[k - 1], base, flags)
  <2> HIDE DEF start
  <2> QED  BY <1>7
<1>10. after \in [0 .. n -> Making] /\ after[0] = start
  <2>1. after[0] = start  BY <1>1, <1>9
  <2>2. \A k \in 0 .. n : after[k] \in Making
    <3>1. after[0] \in Making  BY <1>3, <2>1
    <3>2. ASSUME NEW k \in 1 .. n, after[k - 1] \in Making PROVE after[k] \in Making
      <4>1. after[k] = OneDigit(after[k - 1], base, flags)  BY <1>1, <1>9
      <4> QED  BY <3>2, <4>1, DigitMakes
    <3> QED  BY <1>1, <3>1, <3>2, StaysIn
  <2>3. DOMAIN after = 0 .. n /\ after = [k \in DOMAIN after |-> after[k]]  BY <1>7
  <2> QED  BY <2>1, <2>2, <2>3
<1>11. \A k \in 1 .. n : after[k] = OneDigit(after[k - 1], base, flags)  BY <1>1, <1>9
<1>12. DigitsGo(after, value, base, flags)  BY <1>10, <1>11 DEF DigitsGo, n
<1> QED  BY <1>8, <1>12 DEF n

\* Longer is buf with zeros in front of the number, that is behind its last digit.
WithZeros(longer, buf) ==
    /\ longer \in Seq(OwnCharacters) /\ Len(longer) >= Len(buf)
    /\ \A i \in 1 .. Len(longer) : longer[i] = IF i <= Len(buf) THEN buf[i] ELSE "0"

LEMMA ZeroIsOwn == {" ", "0", "b", "x", "X", "+", "-"} \subseteq OwnCharacters
  BY DEF OwnCharacters

\* Padding to a length that the buffer may be too small for.
LEMMA PadsWithZeros ==
    ASSUME NEW buf \in Seq(OwnCharacters), NEW n \in Nat
    PROVE  LET m == IF n < NTOA_BUFFER_SIZE THEN n ELSE NTOA_BUFFER_SIZE
               longer == PadTo(buf, Min({n, NTOA_BUFFER_SIZE}), "0")
           IN  WithZeros(longer, buf) /\ Len(longer) = IF m > Len(buf) THEN m ELSE Len(buf)
<1>1. NTOA_BUFFER_SIZE \in Nat /\ Len(buf) \in Nat /\ "0" \in OwnCharacters
  <2>1. NTOA_BUFFER_SIZE \in Nat  BY PrintfAssumption
  <2>2. "0" \in OwnCharacters  BY ZeroIsOwn
  <2> QED  BY <2>1, <2>2
<1>2. Min({n, NTOA_BUFFER_SIZE}) = IF n < NTOA_BUFFER_SIZE THEN n ELSE NTOA_BUFFER_SIZE
  <2>1. {n, NTOA_BUFFER_SIZE} \in SUBSET Nat /\ {n, NTOA_BUFFER_SIZE} # {}  BY <1>1
  <2>2. /\ Min({n, NTOA_BUFFER_SIZE}) \in {n, NTOA_BUFFER_SIZE}
        /\ \A y \in {n, NTOA_BUFFER_SIZE} : Min({n, NTOA_BUFFER_SIZE}) <= y
    BY <2>1, MinIsLeast
  <2> QED  BY <1>1, <2>2
<1> DEFINE m == Min({n, NTOA_BUFFER_SIZE})
           longer == PadTo(buf, m, "0")
<1>3. m \in Int  BY <1>1, <1>2
<1> HIDE DEF m
<1>4. /\ longer \in Seq(OwnCharacters)
      /\ Len(longer) = IF m > Len(buf) THEN m ELSE Len(buf)
      /\ \A i \in 1 .. Len(longer) : longer[i] = IF i <= Len(buf) THEN buf[i] ELSE "0"
  BY <1>1, <1>3, PadToIs
<1> HIDE DEF longer
<1>5. WithZeros(longer, buf)  BY <1>1, <1>3, <1>4 DEF WithZeros
<1> QED  BY <1>2, <1>4, <1>5 DEF m, longer

\* Zeros behind zeros.
LEMMA MoreZeros ==
    ASSUME NEW buf \in Seq(OwnCharacters), NEW longer, NEW longest, WithZeros(longer, buf),
           WithZeros(longest, longer)
    PROVE  WithZeros(longest, buf)
<1>1. Len(buf) \in Nat /\ Len(longer) \in Nat /\ Len(longest) \in Nat  BY DEF WithZeros
<1>2. ASSUME NEW i \in 1 .. Len(longest)
      PROVE  longest[i] = IF i <= Len(buf) THEN buf[i] ELSE "0"
  <2>1. longest[i] = IF i <= Len(longer) THEN longer[i] ELSE "0"  BY DEF WithZeros
  <2>2. i <= Len(longer) => longer[i] = IF i <= Len(buf) THEN buf[i] ELSE "0"
    BY <1>1 DEF WithZeros
  <2>3. i <= Len(buf) => i <= Len(longer)  BY <1>1 DEF WithZeros
  <2> QED  BY <2>1, <2>2, <2>3
<1> QED  BY <1>1, <1>2 DEF WithZeros

\* What _ntoa_format pads a number to.
PaddedLength(len, prec, width, flags) ==
    LET least(n) == IF n < NTOA_BUFFER_SIZE THEN n ELSE NTOA_BUFFER_SIZE
        precise == IF least(prec) > len THEN least(prec) ELSE len
    IN  IF "LEFT" \in flags THEN len
        ELSE IF "ZEROPAD" \in flags /\ least(width) > precise THEN least(width) ELSE precise

\* It pads with zeros to that.
LEMMA ZerosAre ==
    ASSUME NEW buf \in Seq(OwnCharacters), NEW prec \in Nat, NEW width \in Nat, NEW flags
    PROVE  /\ WithZeros(Zeros(buf, prec, width, flags), buf)
           /\ Len(Zeros(buf, prec, width, flags)) = PaddedLength(Len(buf), prec, width, flags)
<1> DEFINE least(n) == IF n < NTOA_BUFFER_SIZE THEN n ELSE NTOA_BUFFER_SIZE
           longer == PadTo(buf, Min({prec, NTOA_BUFFER_SIZE}), "0")
           longest == PadTo(longer, Min({width, NTOA_BUFFER_SIZE}), "0")
           m == IF least(prec) > Len(buf) THEN least(prec) ELSE Len(buf)
<1>1. WithZeros(longer, buf) /\ Len(longer) = m  BY PadsWithZeros
<1>2. longer \in Seq(OwnCharacters)  BY <1>1, Zenon DEF WithZeros
<1> HIDE DEF longer
<1>3. WithZeros(longest, longer)
      /\ Len(longest) = IF least(width) > Len(longer) THEN least(width) ELSE Len(longer)
  BY <1>2, PadsWithZeros
<1> HIDE DEF longest
<1>4. WithZeros(longest, buf)  BY <1>1, <1>3, MoreZeros
<1>5. WithZeros(buf, buf)  BY DEF WithZeros
<1>6. Zeros(buf, prec, width, flags) =
          IF "LEFT" \in flags THEN buf ELSE IF "ZEROPAD" \in flags THEN longest ELSE longer
  BY Zenon DEF Zeros, longer, longest
<1>7. CASE "LEFT" \in flags  BY <1>5, <1>6, <1>7, Zenon DEF PaddedLength
<1>8. CASE "LEFT" \notin flags /\ "ZEROPAD" \notin flags
  <2>1. Zeros(buf, prec, width, flags) = longer  BY <1>6, <1>8
  <2>2. PaddedLength(Len(buf), prec, width, flags) = m  BY <1>8 DEF PaddedLength
  <2> QED  BY <1>1, <2>1, <2>2
<1>9. CASE "LEFT" \notin flags /\ "ZEROPAD" \in flags
  <2>1. Zeros(buf, prec, width, flags) = longest  BY <1>6, <1>9
  <2>2. PaddedLength(Len(buf), prec, width, flags) = IF least(width) > m THEN least(width) ELSE m
    BY <1>9 DEF PaddedLength
  <2> HIDE DEF m, least
  <2> QED  BY <1>1, <1>3, <1>4, <2>1, <2>2
<1> QED  BY <1>7, <1>8, <1>9

\* What goes into the buffer while there is room.
LEMMA RoomIs ==
    ASSUME NEW buf \in Seq(OwnCharacters), NEW chars \in Seq(OwnCharacters)
    PROVE  Room(chars, buf) \in Seq(OwnCharacters)
  BY DEF Room

\* The prefix and the sign.
LEMMA HashIs ==
    ASSUME NEW buf \in Seq(OwnCharacters), NEW base, NEW prec, NEW width, NEW flags
    PROVE  Hash(buf, base, prec, width, flags) \in Seq(OwnCharacters)
<1> DEFINE fills == "PRECISION" \notin flags /\ Len(buf) \in {prec, width} \ {0}
           cut == IF ~fills THEN 0 ELSE IF Len(buf) > 1 /\ base = 16 THEN 2 ELSE 1
           letter == IF base = 16 THEN <<IF "UPPERCASE" \in flags THEN "X" ELSE "x">>
                     ELSE IF base = 2 THEN <<"b">> ELSE << >>
           bare == SubSeq(buf, 1, Len(buf) - cut)
<1>1. cut \in 0 .. 2 /\ Len(buf) \in Nat  OBVIOUS
<1>2. letter \in Seq(OwnCharacters) /\ <<"0">> \in Seq(OwnCharacters)
  <2>1. "0" \in OwnCharacters /\ "x" \in OwnCharacters /\ "X" \in OwnCharacters /\ "b" \in OwnCharacters
    BY ZeroIsOwn
  <2> QED  BY <2>1
<1> HIDE DEF cut, letter
<1>3. bare \in Seq(OwnCharacters)
  <2>1. \A i \in 1 .. Len(buf) - cut : buf[i] \in OwnCharacters  BY <1>1
  <2>2. Len(buf) - cut \in Int  BY <1>1
  <2> QED  BY <2>1, <2>2, SubSeqProperties
<1> HIDE DEF bare
<1>4. Room(letter, bare) \in Seq(OwnCharacters)  BY <1>2, <1>3, RoomIs
<1>5. Room(<<"0">>, Room(letter, bare)) \in Seq(OwnCharacters)  BY <1>2, <1>4, RoomIs
<1> QED  BY <1>5, Zenon DEF Hash, bare, letter, cut
LEMMA SignIs ==
    ASSUME NEW negative \in BOOLEAN, NEW flags
    PROVE  Sign(negative, flags) \in Seq(OwnCharacters)
<1>1. "-" \in OwnCharacters /\ "+" \in OwnCharacters /\ " " \in OwnCharacters  BY ZeroIsOwn
<1>2. Sign(negative, flags) \in {<<"-">>, <<"+">>, <<" ">>, << >>}  BY Zenon DEF Sign
<1>3. \A c \in OwnCharacters : <<c>> \in Seq(OwnCharacters)  OBVIOUS
<1>4. <<"-">> \in Seq(OwnCharacters) /\ <<"+">> \in Seq(OwnCharacters) /\ <<" ">> \in Seq(OwnCharacters)
  BY <1>1, <1>3, Zenon
<1>5. << >> \in Seq(OwnCharacters)  OBVIOUS
<1> QED  BY <1>2, <1>4, <1>5, Zenon

\* The blanks in front of what _out_rev puts out, and behind it.
BlanksBefore(len, width, flags) ==
    IF flags \cap {"LEFT", "ZEROPAD"} = {} /\ width > len THEN width - len ELSE 0
BlanksAfter(len, width, flags) == IF "LEFT" \in flags /\ width > len THEN width - len ELSE 0

\* Nothing else is.
LEMMA OutRevIs ==
    ASSUME NEW buf \in Seq(OwnCharacters), NEW width \in Int, NEW flags
    PROVE  LET before == BlanksBefore(Len(buf), width, flags)
               after == BlanksAfter(Len(buf), width, flags)
               out == OutRev(buf, width, flags)
           IN  /\ before \in Nat /\ after \in Nat
               /\ out = Repeat(" ", before) \o Reverse(buf) \o Repeat(" ", after)
               /\ out \in Seq(OwnCharacters) /\ Len(out) = before + Len(buf) + after
<1> DEFINE before == BlanksBefore(Len(buf), width, flags)
           after == BlanksAfter(Len(buf), width, flags)
           out == OutRev(buf, width, flags)
           k == width - Len(buf)
<1>1. Len(buf) \in Nat /\ k \in Int  OBVIOUS
<1>2. before \in Nat /\ after \in Nat  BY <1>1 DEF BlanksBefore, BlanksAfter
<1>3. Repeat(" ", k) = IF k > 0 THEN Repeat(" ", k) ELSE << >>  BY <1>1 DEF Repeat
<1>4. Repeat(" ", 0) = << >>  BY DEF Repeat
<1>5. (IF flags \cap {"LEFT", "ZEROPAD"} = {} THEN Repeat(" ", k) ELSE << >>) = Repeat(" ", before)
  <2>1. CASE flags \cap {"LEFT", "ZEROPAD"} = {} /\ width > Len(buf)
    <3>1. before = k  BY <2>1 DEF BlanksBefore
    <3> QED  BY <2>1, <3>1
  <2>2. CASE flags \cap {"LEFT", "ZEROPAD"} = {} /\ ~(width > Len(buf))
    <3>1. before = 0 /\ ~(k > 0)  BY <1>1, <2>2 DEF BlanksBefore
    <3> QED  BY <1>3, <1>4, <2>2, <3>1
  <2>3. CASE ~(flags \cap {"LEFT", "ZEROPAD"} = {})
    <3>1. before = 0  BY <2>3 DEF BlanksBefore
    <3> QED  BY <1>4, <2>3, <3>1
  <2> QED  BY <2>1, <2>2, <2>3
<1>6. (IF "LEFT" \in flags THEN Repeat(" ", k) ELSE << >>) = Repeat(" ", after)
  <2>1. CASE "LEFT" \in flags /\ width > Len(buf)
    <3>1. after = k  BY <2>1 DEF BlanksAfter
    <3> QED  BY <2>1, <3>1
  <2>2. CASE "LEFT" \in flags /\ ~(width > Len(buf))
    <3>1. after = 0 /\ ~(k > 0)  BY <1>1, <2>2 DEF BlanksAfter
    <3> QED  BY <1>3, <1>4, <2>2, <3>1
  <2>3. CASE ~("LEFT" \in flags)
    <3>1. after = 0  BY <2>3 DEF BlanksAfter
    <3> QED  BY <1>4, <2>3, <3>1
  <2> QED  BY <2>1, <2>2, <2>3
<1>7. out = Repeat(" ", before) \o Reverse(buf) \o Repeat(" ", after)
  BY <1>5, <1>6, Zenon DEF OutRev
<1> HIDE DEF before, after, out
<1>8. " " \in OwnCharacters  BY ZeroIsOwn
<1> DEFINE b == Repeat(" ", before)
           m == Reverse(buf)
           a == Repeat(" ", after)
<1>9. b \in Seq(OwnCharacters) /\ Len(b) = before
  <2>1. before \in Int  BY <1>2
  <2>2. b \in Seq(OwnCharacters) /\ Len(b) = IF before > 0 THEN before ELSE 0
    BY <1>8, <2>1, RepeatIs
  <2> HIDE DEF b
  <2> QED  BY <1>2, <2>2
<1>10. a \in Seq(OwnCharacters) /\ Len(a) = after
  <2>1. after \in Int  BY <1>2
  <2>2. a \in Seq(OwnCharacters) /\ Len(a) = IF after > 0 THEN after ELSE 0
    BY <1>8, <2>1, RepeatIs
  <2> HIDE DEF a
  <2> QED  BY <1>2, <2>2
<1>11. m \in Seq(OwnCharacters) /\ Len(m) = Len(buf)  BY ReverseIs
<1>12. out = b \o m \o a  BY <1>7, Zenon
<1> HIDE DEF a, b, m
<1>13. b \o m \in Seq(OwnCharacters) /\ Len(b \o m) = before + Len(buf)
  <2>1. b \o m \in Seq(OwnCharacters) /\ Len(b \o m) = Len(b) + Len(m)
    <3>1. b \in Seq(OwnCharacters) /\ m \in Seq(OwnCharacters)  BY <1>9, <1>11
    <3> QED  BY <3>1, ConcatProperties, Zenon
  <2> QED  BY <1>9, <1>11, <2>1
<1>14. out \in Seq(OwnCharacters) /\ Len(out) = before + Len(buf) + after
  <2>1. /\ (b \o m) \o a \in Seq(OwnCharacters)
        /\ Len((b \o m) \o a) = Len(b \o m) + Len(a)
    <3>1. b \o m \in Seq(OwnCharacters) /\ a \in Seq(OwnCharacters)  BY <1>10, <1>13
    <3> QED  BY <3>1, ConcatProperties, Zenon
  <2> QED  BY <1>1, <1>2, <1>10, <1>12, <1>13, <2>1
<1> QED  BY <1>2, <1>7, <1>14 DEF before, after, out

\* What _ntoa_format makes of digits.
LEMMA NtoaFormatIs ==
    ASSUME NEW buf \in Seq(OwnCharacters), NEW negative \in BOOLEAN, NEW base, NEW prec \in Nat,
           NEW width \in Nat, NEW flags
    PROVE  NtoaFormat(buf, negative, base, prec, width, flags) \in Seq(OwnCharacters)
<1> DEFINE signed == negative \/ flags \cap {"PLUS", "SPACE"} # {}
           w == SignWithin(width, signed, flags)
           padded == Zeros(buf, prec, w, flags)
           hashed == IF "HASH" \in flags THEN Hash(padded, base, prec, w, flags) ELSE padded
<1>1. w \in Nat /\ w \in Int  BY DEF SignWithin
<1> HIDE DEF w
<1>2. padded \in Seq(OwnCharacters)
  <2>1. WithZeros(padded, buf)  BY <1>1, ZerosAre
  <2> QED  BY <2>1, Zenon DEF WithZeros
<1> HIDE DEF padded
<1>3. hashed \in Seq(OwnCharacters)
  <2>1. Hash(padded, base, prec, w, flags) \in Seq(OwnCharacters)  BY <1>2, HashIs
  <2> QED  BY <1>2, <2>1
<1> HIDE DEF hashed
<1>4. Room(Sign(negative, flags), hashed) \in Seq(OwnCharacters)
  <2>1. Sign(negative, flags) \in Seq(OwnCharacters)  BY SignIs
  <2> QED  BY <1>3, <2>1, RoomIs
<1>5. OutRev(Room(Sign(negative, flags), hashed), w, flags) \in Seq(OwnCharacters)
  BY <1>1, <1>4, OutRevIs
<1> QED  BY <1>5, Zenon DEF NtoaFormat, hashed, padded, w

\* The bases there are.
Bases == {2, 8, 10, 16}

\* The digits of a number are the formatter's characters.
LEMMA DigitsAre ==
    ASSUME NEW value \in Nat, NEW base \in Bases, NEW flags
    PROVE  Digits(value, base, flags) \in Seq(OwnCharacters)
<1>1. base \in 2 .. 16  BY DEF Bases
<1>2. PICK f : DigitsGo(f, value, base, flags)
               /\ Digits(value, base, flags) = f[NTOA_BUFFER_SIZE].buf
  BY <1>1, DigitsAreMade
<1>3. f[NTOA_BUFFER_SIZE] \in Making
  <2>1. NTOA_BUFFER_SIZE \in Nat  BY PrintfAssumption
  <2>2. NTOA_BUFFER_SIZE \in 0 .. NTOA_BUFFER_SIZE  BY <2>1
  <2> QED  BY <1>2, <2>2 DEF DigitsGo
<1> QED  BY <1>2, <1>3 DEF Making
LEMMA NtoaIs ==
    ASSUME NEW value \in Nat, NEW negative \in BOOLEAN, NEW base \in Bases, NEW prec \in Nat,
           NEW width \in Nat, NEW flags
    PROVE  Ntoa(value, negative, base, prec, width, flags) \in Seq(OwnCharacters)
<1> DEFINE buf == IF "PRECISION" \in flags /\ value = 0 THEN << >> ELSE Digits(value, base, flags)
           f == IF value = 0 THEN flags \ {"HASH"} ELSE flags
<1>1. buf \in Seq(OwnCharacters)
  <2>1. Digits(value, base, flags) \in Seq(OwnCharacters) /\ << >> \in Seq(OwnCharacters)
    BY DigitsAre
  <2> QED  BY <2>1
<1> HIDE DEF buf, f
<1>2. NtoaFormat(buf, negative, base, prec, width, f) \in Seq(OwnCharacters)
  BY <1>1, NtoaFormatIs
<1> QED  BY <1>2, Zenon DEF Ntoa, buf, f

\* t doubles up to bits.
Doubles(t, bits) ==
    /\ t \in [0 .. bits -> Nat \ {0}] /\ t[0] = 1
    /\ \A k \in 1 .. bits : t[k] = 2 * t[k - 1]

\* The number of values a type has comes from doubling.
LEMMA ValuesAreDoubled ==
    ASSUME NEW bits \in Nat
    PROVE  \E t : Doubles(t, bits) /\ Values(bits) = t[bits]
<1> DEFINE S == Nat \ {0}
           step == [k \in 1 .. bits |-> [s \in S |-> 2 * s]]
           IsAfter(g) == g = [k \in 0 .. bits |-> IF k = 0 THEN 1 ELSE 2 * g[k - 1]]
           after == CHOOSE g : IsAfter(g)
<1>1. step \in [1 .. bits -> [S -> S]]  OBVIOUS
<1>2. PICK f \in Walks(bits, S, 1, step) : TRUE
  <2>1. 1 \in S  OBVIOUS
  <2> HIDE DEF step, S
  <2> QED  BY <1>1, <2>1, RecursionExists
<1>3. f \in [0 .. bits -> S] /\ f[0] = 1 /\ \A k \in 1 .. bits : f[k] = 2 * f[k - 1]
  <2>1. f \in [0 .. bits -> S] /\ f[0] = 1 /\ \A k \in 1 .. bits : f[k] = step[k][f[k - 1]]
    <3> HIDE DEF step, S
    <3> QED  BY <1>2 DEF Walks
  <2>2. ASSUME NEW k \in 1 .. bits PROVE f[k] = 2 * f[k - 1]
    <3>1. k - 1 \in 0 .. bits  OBVIOUS
    <3>2. f[k - 1] \in S /\ f[k] = step[k][f[k - 1]]  BY <2>1, <3>1
    <3> QED  BY <3>2
  <2> QED  BY <2>1, <2>2
<1>4. IsAfter(f)
  <2>1. \A k \in 0 .. bits : f[k] = IF k = 0 THEN 1 ELSE 2 * f[k - 1]  BY <1>3
  <2> QED  BY <1>3, <2>1
<1>5. IsAfter(after)  BY <1>4, Zenon
<1>6. Values(bits) = after[bits]  BY Zenon DEF Values
<1> HIDE DEF after
<1>7. \A k \in 0 .. bits : after[k] = IF k = 0 THEN 1 ELSE 2 * after[k - 1]  BY <1>5
<1>8. after \in [0 .. bits -> S] /\ after[0] = 1
  <2>1. after[0] = 1  BY <1>7
  <2>2. \A k \in 0 .. bits : after[k] \in S
    <3>1. after[0] \in S  BY <2>1
    <3>2. ASSUME NEW k \in 1 .. bits, after[k - 1] \in S PROVE after[k] \in S
      <4>1. k \in 0 .. bits /\ ~(k = 0)  OBVIOUS
      <4>2. after[k] = 2 * after[k - 1]  BY <1>7, <4>1, Zenon
      <4>3. \A x \in S : 2 * x \in S  OBVIOUS
      <4> HIDE DEF S
      <4> QED  BY <3>2, <4>2, <4>3
    <3> HIDE DEF S
    <3> QED  BY <3>1, <3>2, StaysIn
  <2>3. DOMAIN after = 0 .. bits /\ after = [k \in DOMAIN after |-> after[k]]  BY <1>5
  <2> QED  BY <2>1, <2>2, <2>3
<1>9. \A k \in 1 .. bits : after[k] = 2 * after[k - 1]  BY <1>7
<1>10. Doubles(after, bits)  BY <1>8, <1>9 DEF Doubles
<1> QED  BY <1>6, <1>10

\* It is a positive number, and doubles with each bit.
LEMMA ValuesAre == ASSUME NEW bits \in Nat PROVE Values(bits) \in Nat \ {0}
<1>1. PICK t : Doubles(t, bits) /\ Values(bits) = t[bits]  BY ValuesAreDoubled
<1>2. bits \in 0 .. bits  OBVIOUS
<1> QED  BY <1>1, <1>2 DEF Doubles

LEMMA ValuesDouble ==
    ASSUME NEW bits \in Nat
    PROVE  Values(0) = 1 /\ Values(bits + 1) = 2 * Values(bits)
<1>1. PICK t : Doubles(t, bits) /\ Values(bits) = t[bits]  BY ValuesAreDoubled
<1>2. bits + 1 \in Nat  OBVIOUS
<1>3. PICK u : Doubles(u, bits + 1) /\ Values(bits + 1) = u[bits + 1]  BY <1>2, ValuesAreDoubled
<1> DEFINE Same == {k \in 0 .. bits : t[k] = u[k]}
<1>4. 0 \in Same  BY <1>1, <1>3 DEF Doubles
<1>5. ASSUME NEW k \in 0 .. bits - 1, k \in Same PROVE k + 1 \in Same
  <2>1. k + 1 \in 1 .. bits /\ k + 1 \in 1 .. bits + 1 /\ (k + 1) - 1 = k  OBVIOUS
  <2>2. t[k + 1] = 2 * t[k] /\ u[k + 1] = 2 * u[k]  BY <1>1, <1>3, <2>1 DEF Doubles
  <2> QED  BY <1>5, <2>1, <2>2
<1>6. bits \in Same
  <2> HIDE DEF Same
  <2>1. 0 .. bits \subseteq Same  BY <1>4, <1>5, InductionUpTo
  <2> QED  BY <2>1
<1>7. u[bits + 1] = 2 * u[bits]
  <2>1. bits + 1 \in 1 .. bits + 1 /\ (bits + 1) - 1 = bits  OBVIOUS
  <2> QED  BY <1>3, <2>1 DEF Doubles
<1>8. Values(0) = 1
  <2>1. PICK v : Doubles(v, 0) /\ Values(0) = v[0]  BY ValuesAreDoubled
  <2> QED  BY <2>1 DEF Doubles
<1> QED  BY <1>1, <1>3, <1>6, <1>7, <1>8

\* What an argument can be.
LEMMA ArgumentIs ==
    ASSUME NEW arg \in Int, NEW bits \in Nat \ {0}
    PROVE  /\ Values(bits) \in Nat \ {0} /\ Unsigned(arg, bits) \in 0 .. Values(bits) - 1
           /\ Signed(arg, bits) \in Int
           /\ Signed(arg, bits) < Values(bits) /\ -Signed(arg, bits) < Values(bits)
<1>1. Values(bits) \in Nat \ {0} /\ Values(bits - 1) \in Nat \ {0}
  <2>1. bits \in Nat /\ bits - 1 \in Nat  OBVIOUS
  <2> QED  BY <2>1, ValuesAre
<1> DEFINE v == Values(bits)
           h == Values(bits - 1)
           u == Unsigned(arg, bits)
<1>2. u \in 0 .. v - 1
  <2>1. u = arg % v  BY DEF Unsigned
  <2> HIDE DEF u, v
  <2> QED  BY <1>1, <2>1, IntDivMod DEF v
<1>3. Signed(arg, bits) = IF u < h THEN u ELSE u - v  BY Zenon DEF Signed
<1> HIDE DEF u, v, h
<1>4. v \in Nat \ {0} /\ h \in Nat \ {0}  BY <1>1 DEF v, h
<1>5. /\ Signed(arg, bits) \in Int
      /\ Signed(arg, bits) < v /\ -Signed(arg, bits) < v
  BY <1>2, <1>3, <1>4
<1> QED  BY <1>1, <1>2, <1>5 DEF u, v

\* The lengths there are, and the letters of numbers.
Lengths == {"hh", "h", "", "l"}
Letters == {"d", "u", "x", "X", "o", "b"}

LEMMA LengthIs == ASSUME NEW l \in Lengths PROVE Bits[l] \in Nat \ {0}
  BY PrintfAssumption DEF Lengths

LEMMA BaseIs == ASSUME NEW spec PROVE BaseOf(spec) \in Bases
  BY Zenon DEF BaseOf, Bases

\* A number is put out in the formatter's characters.
LEMMA IntegerIs ==
    ASSUME NEW d, d.arg \in Int, d.length \in Lengths, d.precision \in Nat, d.width \in Nat
    PROVE  Integer(d) \in Seq(OwnCharacters)
<1> DEFINE bits == Bits[d.length]
           s == Signed(d.arg, bits)
           u == Unsigned(d.arg, bits)
<1>1. bits \in Nat \ {0}  BY LengthIs
<1> HIDE DEF bits
<1>2. s \in Int /\ u \in Nat
  <2>1. Values(bits) \in Nat \ {0} /\ u \in 0 .. Values(bits) - 1 /\ s \in Int  BY <1>1, ArgumentIs
  <2> HIDE DEF u, s
  <2> QED  BY <2>1
<1> HIDE DEF s, u
<1>3. (IF s > 0 THEN s ELSE -s) \in Nat /\ (s < 0) \in BOOLEAN /\ FALSE \in BOOLEAN  BY <1>2
<1>4. 10 \in Bases /\ BaseOf(d.spec) \in Bases  BY BaseIs DEF Bases
<1>5. /\ Ntoa(IF s > 0 THEN s ELSE -s, s < 0, 10, d.precision, d.width, FlagsOf(d))
             \in Seq(OwnCharacters)
      /\ Ntoa(u, FALSE, BaseOf(d.spec), d.precision, d.width, FlagsOf(d)) \in Seq(OwnCharacters)
  <2> DEFINE v == IF s > 0 THEN s ELSE -s
             n == s < 0
  <2>1. v \in Nat /\ n \in BOOLEAN  BY <1>3
  <2> HIDE DEF v, n
  <2>2. Ntoa(v, n, 10, d.precision, d.width, FlagsOf(d)) \in Seq(OwnCharacters)
    BY <1>4, <2>1, NtoaIs
  <2>3. Ntoa(u, FALSE, BaseOf(d.spec), d.precision, d.width, FlagsOf(d)) \in Seq(OwnCharacters)
    BY <1>2, <1>3, <1>4, NtoaIs
  <2> QED  BY <2>2, <2>3 DEF v, n
<1> QED  BY <1>5, Zenon DEF Integer, bits, s, u

\* What _out_rev and the others pad with.
Blank == " "

LEMMA BlankIsOwn == Blank \in OwnCharacters
  BY ZeroIsOwn, Zenon DEF Blank

\* Blanks on one side.
LEMMA PaddedIs ==
    ASSUME NEW T, Blank \in T, NEW chars \in Seq(T), NEW length \in Nat, NEW width \in Nat, NEW flags
    PROVE  Padded(chars, length, width, flags) \in Seq(T)
<1> DEFINE pad == Repeat(Blank, width - length)
<1>1. pad \in Seq(T)
  <2>1. width - length \in Int  OBVIOUS
  <2> QED  BY <2>1, RepeatIs
<1> HIDE DEF pad
<1>2. chars \o pad \in Seq(T) /\ pad \o chars \in Seq(T)  BY <1>1
<1>3. Padded(chars, length, width, flags) = IF "LEFT" \in flags THEN chars \o pad ELSE pad \o chars
  BY Zenon DEF Padded, pad, Blank
<1> QED  BY <1>2, <1>3

\* A directive with its stars read: a width and a precision that are not negative.
LEMMA StarredIs ==
    ASSUME NEW given, IsDirective(given)
    PROVE  LET d == Starred(given)
           IN  /\ d.spec = given.spec /\ d.length = given.length /\ d.arg = given.arg
               /\ d.flags = IF given.width < 0 THEN given.flags \cup {"LEFT"} ELSE given.flags
               /\ d.width = IF given.width < 0 THEN -given.width ELSE given.width
               /\ d.precision = IF given.precision > 0 THEN given.precision ELSE 0
               /\ d.width \in Nat /\ d.precision \in Nat
<1>1. PICK spec, flags, width, precision, length, arg :
          /\ spec = given.spec /\ flags = given.flags /\ width = given.width
          /\ precision = given.precision /\ length = given.length /\ arg = given.arg
  OBVIOUS
<1>2. given = [spec |-> spec, flags |-> flags, width |-> width, precision |-> precision,
               length |-> length, arg |-> arg]
      /\ width \in Int /\ precision \in Int
  BY <1>1 DEF IsDirective
<1> DEFINE d == Starred(given)
<1>3. /\ d.spec = spec /\ d.length = length /\ d.arg = arg
      /\ d.flags = IF width < 0 THEN flags \cup {"LEFT"} ELSE flags
      /\ d.width = IF width < 0 THEN -width ELSE width
      /\ d.precision = IF precision > 0 THEN precision ELSE 0
  BY <1>2 DEF Starred
<1> HIDE DEF d
<1>4. d.width \in Nat /\ d.precision \in Nat  BY <1>2, <1>3
<1> QED  BY <1>1, <1>3, <1>4 DEF d

\* What the argument of a directive says itself.
Said(d) ==
    IF d.spec \in Letters \cup {"p"} THEN {} ELSE IF d.spec = "s" THEN ToSet(d.arg) ELSE {d.arg}

\* A directive puts out the formatter's characters and what its argument says.
LEMMA DirectiveIs ==
    ASSUME NEW given, IsDirective(given), NEW T, OwnCharacters \subseteq T, Said(given) \subseteq T
    PROVE  Directive(given) \in Seq(T)
<1> DEFINE d == Starred(given)
<1>1. /\ d.spec = given.spec /\ d.length = given.length /\ d.arg = given.arg
      /\ d.width \in Nat /\ d.precision \in Nat
  BY StarredIs
<1>2. d.length \in Lengths  BY <1>1 DEF IsDirective, Lengths
<1>3. Blank \in T  BY BlankIsOwn
<1> HIDE DEF d
<1>4. CASE d.spec \in Letters
  <2>1. Directive(given) = Integer(d)  BY <1>4, Zenon DEF Directive, d, Letters
  <2>2. d.arg \in Int  BY <1>1, <1>4 DEF IsDirective, Letters
  <2>3. Integer(d) \in Seq(OwnCharacters)  BY <1>1, <1>2, <2>2, IntegerIs
  <2> QED  BY <2>1, <2>3, SeqMonotonic
<1>5. CASE d.spec = "c"
  <2>1. Directive(given) = Padded(<<d.arg>>, 1, d.width, d.flags)  BY <1>5 DEF Directive, d
  <2>2. d.arg \in T  BY <1>1, <1>5 DEF Said, Letters
  <2>3. <<d.arg>> \in Seq(T)  BY <2>2
  <2> QED  BY <1>1, <1>3, <2>1, <2>3, PaddedIs
<1>6. CASE d.spec = "s"
  <2> DEFINE chars == IF "PRECISION" \in d.flags THEN Take(d.arg, d.precision) ELSE d.arg
  <2>1. Directive(given) = Padded(chars, Len(chars), d.width, d.flags)
    BY <1>6 DEF Directive, String, d
  <2>2. d.arg \in Seq(ToSet(d.arg)) /\ ToSet(d.arg) \subseteq T
    BY <1>1, <1>6 DEF Said, Letters, IsDirective
  <2>3. d.arg \in Seq(T)  BY <2>2, SeqMonotonic
  <2>4. Take(d.arg, d.precision) \in Seq(T)  BY <1>1, <2>3, TakeIsPrefix
  <2>5. chars \in Seq(T)  BY <2>3, <2>4
  <2> HIDE DEF chars
  <2>6. Len(chars) \in Nat  BY <2>5
  <2> QED  BY <1>1, <1>3, <2>1, <2>5, <2>6, PaddedIs
<1>7. CASE d.spec = "p"
  <2> DEFINE bits == Bits["l"]
             u == Unsigned(d.arg, bits)
             width == (bits + 3) \div 4
             flags == d.flags \cup {"ZEROPAD", "UPPERCASE"}
  <2>1. Directive(given) = Ntoa(u, FALSE, 16, d.precision, width, flags)
    BY <1>7 DEF Directive, Pointer, d
  <2>2. d.arg \in Int  BY <1>1, <1>7 DEF IsDirective
  <2>3. bits \in Nat \ {0}
    <3>1. "l" \in Lengths  BY DEF Lengths
    <3> QED  BY <3>1, LengthIs
  <2> HIDE DEF bits
  <2>4. u \in 0 .. Values(bits) - 1 /\ Values(bits) \in Nat \ {0}  BY <2>2, <2>3, ArgumentIs
  <2> HIDE DEF u
  <2>5. u \in Nat  BY <2>4
  <2>6. width \in Nat  BY <2>3
  <2> HIDE DEF width, flags
  <2>7. 16 \in Bases /\ FALSE \in BOOLEAN  BY DEF Bases
  <2>8. Ntoa(u, FALSE, 16, d.precision, width, flags) \in Seq(OwnCharacters)
    BY <1>1, <2>5, <2>6, <2>7, NtoaIs
  <2> QED  BY <2>1, <2>8, SeqMonotonic
<1>8. CASE d.spec \notin Letters \cup {"c", "s", "p"}
  <2>1. Directive(given) = <<d.arg>>  BY <1>8 DEF Directive, Letters, d
  <2>2. d.arg \in T  BY <1>1, <1>8 DEF Said
  <2> QED  BY <2>1, <2>2
<1> QED  BY <1>4, <1>5, <1>6, <1>7, <1>8

\* A format puts out what its directives do.
LEMMA OutsAre ==
    ASSUME NEW D, NEW format \in Seq(D), \A d \in D : IsDirective(d),
           NEW T, OwnCharacters \subseteq T, \A d \in D : Said(d) \subseteq T
    PROVE  Outs(format) \in Seq(T)
<1> DEFINE n == Len(format)
           S == Seq(T)
           step == [k \in 1 .. n |-> [s \in S |-> s \o Directive(format[k])]]
           IsAfter(g) == g = [k \in 0 .. n |-> IF k = 0 THEN << >> ELSE g[k - 1] \o Directive(format[k])]
           after == CHOOSE g : IsAfter(g)
<1>1. n \in Nat /\ << >> \in S  OBVIOUS
<1>2. \A k \in 1 .. n : Directive(format[k]) \in S
  <2>1. ASSUME NEW k \in 1 .. n PROVE Directive(format[k]) \in S
    <3>1. format[k] \in D  OBVIOUS
    <3> QED  BY <3>1, DirectiveIs
  <2> QED  BY <2>1
<1>3. \A s \in S : \A k \in 1 .. n : s \o Directive(format[k]) \in S  BY <1>2
<1> HIDE DEF n, S
<1>4. step \in [1 .. n -> [S -> S]]  BY <1>3
<1>5. PICK f \in Walks(n, S, << >>, step) : TRUE
  <2> HIDE DEF step
  <2> QED  BY <1>1, <1>4, RecursionExists
<1>6. /\ f \in [0 .. n -> S] /\ f[0] = << >>
      /\ \A k \in 1 .. n : f[k] = f[k - 1] \o Directive(format[k])
  <2>1. f \in [0 .. n -> S] /\ f[0] = << >> /\ \A k \in 1 .. n : f[k] = step[k][f[k - 1]]
    <3> HIDE DEF step
    <3> QED  BY <1>5 DEF Walks
  <2>2. ASSUME NEW k \in 1 .. n PROVE f[k] = f[k - 1] \o Directive(format[k])
    <3>1. k - 1 \in 0 .. n  BY <1>1
    <3>2. f[k - 1] \in S /\ f[k] = step[k][f[k - 1]]  BY <2>1, <3>1
    <3> QED  BY <3>2
  <2> QED  BY <2>1, <2>2
<1>7. IsAfter(f)
  <2>1. \A k \in 0 .. n : f[k] = IF k = 0 THEN << >> ELSE f[k - 1] \o Directive(format[k])
    <3>1. ASSUME NEW k \in 0 .. n
          PROVE  f[k] = IF k = 0 THEN << >> ELSE f[k - 1] \o Directive(format[k])
      <4>1. k = 0 \/ (k \in 1 .. n /\ ~(k = 0))  BY <1>1
      <4> QED  BY <1>6, <4>1, Zenon
    <3> QED  BY <3>1
  <2> QED  BY <1>6, <2>1
<1>8. IsAfter(after)  BY <1>7, Zenon
<1>9. Outs(format) = after[n]  BY Zenon DEF Outs, n
<1> HIDE DEF after
<1>10. \A k \in 0 .. n : after[k] = IF k = 0 THEN << >> ELSE after[k - 1] \o Directive(format[k])
  BY <1>8
<1>11. \A k \in 0 .. n : after[k] \in S
  <2>1. after[0] \in S  BY <1>1, <1>10
  <2>2. ASSUME NEW k \in 1 .. n, after[k - 1] \in S PROVE after[k] \in S
    <3>1. after[k] = after[k - 1] \o Directive(format[k])
      <4>1. k \in 0 .. n /\ ~(k = 0)  BY <1>1
      <4> QED  BY <1>10, <4>1, Zenon
    <3> QED  BY <1>3, <2>2, <3>1, Zenon
  <2> QED  BY <1>1, <2>1, <2>2, StaysIn
<1>12. n \in 0 .. n  BY <1>1
<1> QED  BY <1>9, <1>11, <1>12 DEF S

\* The buffer after k characters: those below the count, and nothing else.
Below(chars, k, count) ==
    [i \in 0 .. count + 1 |-> IF i < k /\ i < count THEN chars[i + 1] ELSE Untouched]

\* One more character goes where the next one belongs.
LEMMA WritesOne ==
    ASSUME NEW chars, NEW k \in Nat, NEW count \in Nat
    PROVE  OutBuffer(Below(chars, k, count), chars[k + 1], k, count) = Below(chars, k + 1, count)
<1> DEFINE one == OutBuffer(Below(chars, k, count), chars[k + 1], k, count)
<1>1. CASE k < count
  <2>1. one = [Below(chars, k, count) EXCEPT ![k] = chars[k + 1]]
    BY <1>1 DEF OutBuffer, Fits
  <2>2. \A i \in 0 .. count + 1 : one[i] = IF i = k THEN chars[k + 1] ELSE Below(chars, k, count)[i]
    BY <2>1 DEF Below
  <2>3. one = [i \in 0 .. count + 1 |-> one[i]]  BY <2>1 DEF Below
  <2> HIDE DEF one
  <2>4. ASSUME NEW i \in 0 .. count + 1 PROVE one[i] = Below(chars, k + 1, count)[i]
    <3>1. Below(chars, k + 1, count)[i] = IF i < k + 1 /\ i < count THEN chars[i + 1] ELSE Untouched
      BY DEF Below
    <3>2. Below(chars, k, count)[i] = IF i < k /\ i < count THEN chars[i + 1] ELSE Untouched
      BY DEF Below
    <3>3. one[i] = IF i = k THEN chars[k + 1] ELSE Below(chars, k, count)[i]  BY <2>2
    <3>4. CASE i = k
      <4>1. i < k + 1 /\ i < count  BY <1>1, <3>4
      <4> QED  BY <3>1, <3>3, <3>4, <4>1
    <3>5. CASE ~(i = k)
      <4>1. i < k + 1 <=> i < k  BY <3>5
      <4> QED  BY <3>1, <3>2, <3>3, <3>5, <4>1
    <3> QED  BY <3>4, <3>5
  <2>5. Below(chars, k + 1, count) = [i \in 0 .. count + 1 |-> Below(chars, k + 1, count)[i]]
    BY DEF Below
  <2> QED  BY <2>3, <2>4, <2>5 DEF one
<1>2. CASE ~(k < count)
  <2>1. one = Below(chars, k, count)  BY <1>2 DEF OutBuffer, Fits
  <2>2. ASSUME NEW i \in 0 .. count + 1
        PROVE  (i < k /\ i < count) <=> (i < k + 1 /\ i < count)
    BY <1>2
  <2>3. Below(chars, k, count) = Below(chars, k + 1, count)  BY <2>2 DEF Below
  <2> QED  BY <2>1, <2>3
<1> QED  BY <1>1, <1>2

\* All of them leave what fits.
LEMMA VsnprintfIs ==
    ASSUME NEW T, NEW format, Outs(format) \in Seq(T), NEW count \in Nat
    PROVE  LET chars == Outs(format)
               r == Vsnprintf([i \in 0 .. count + 1 |-> Untouched], count, format)
           IN  /\ r.returned = Len(chars)
               /\ r.buffer = OutBuffer(Below(chars, Len(chars), count), NUL,
                                       Terminator(Len(chars), count), count)
<1> DEFINE chars == Outs(format)
           n == Len(chars)
           buffer == [i \in 0 .. count + 1 |-> Untouched]
           r == Vsnprintf(buffer, count, format)
           IsAfter(g) == g = [k \in 0 .. n |-> IF k = 0 THEN buffer
                                               ELSE OutBuffer(g[k - 1], chars[k], k - 1, count)]
           after == CHOOSE g : IsAfter(g)
           f == [k \in 0 .. n |-> Below(chars, k, count)]
<1>1. n \in Nat  OBVIOUS
<1>2. r.returned = n /\ r.buffer = OutBuffer(after[n], NUL, Terminator(n, count), count)
  <2>1. r = [buffer |-> OutBuffer(after[n], NUL, Terminator(n, count), count), returned |-> n]
    BY Zenon DEF Vsnprintf
  <2> HIDE DEF r, n, after
  <2> QED  BY <2>1
<1> HIDE DEF n, chars
<1>3. Below(chars, 0, count) = buffer
  <2>1. \A i \in 0 .. count + 1 : ~(i < 0)  OBVIOUS
  <2> QED  BY <2>1 DEF Below
<1> HIDE DEF buffer
<1>4. \A k \in 1 .. n : Below(chars, k, count) = OutBuffer(Below(chars, k - 1, count), chars[k], k - 1, count)
  <2>1. ASSUME NEW k \in 1 .. n
        PROVE  Below(chars, k, count) = OutBuffer(Below(chars, k - 1, count), chars[k], k - 1, count)
    <3>1. k - 1 \in Nat /\ (k - 1) + 1 = k  BY <1>1
    <3>2. OutBuffer(Below(chars, k - 1, count), chars[(k - 1) + 1], k - 1, count)
              = Below(chars, (k - 1) + 1, count)
      BY <3>1, WritesOne
    <3> QED  BY <3>1, <3>2
  <2> QED  BY <2>1
<1>5. IsAfter(f)
  <2>1. ASSUME NEW k \in 0 .. n
        PROVE  f[k] = IF k = 0 THEN buffer ELSE OutBuffer(f[k - 1], chars[k], k - 1, count)
    <3>1. f[k] = Below(chars, k, count)  OBVIOUS
    <3>2. CASE k = 0  BY <1>3, <3>1, <3>2
    <3>3. CASE ~(k = 0)
      <4>1. k - 1 \in 0 .. n /\ k \in 1 .. n  BY <1>1, <3>3
      <4>2. f[k - 1] = Below(chars, k - 1, count)  BY <4>1
      <4> HIDE DEF f
      <4> QED  BY <1>4, <3>1, <3>3, <4>1, <4>2
    <3> QED  BY <3>2, <3>3
  <2> QED  BY <2>1
<1>6. IsAfter(after)  BY <1>5, Zenon
<1> HIDE DEF after, f
<1>7. \A k \in 0 .. n : after[k] = IF k = 0 THEN buffer ELSE OutBuffer(after[k - 1], chars[k], k - 1, count)
  BY <1>6
<1>8. after[n] = Below(chars, n, count)
  <2> DEFINE Good == {k \in 0 .. n : after[k] = Below(chars, k, count)}
  <2>1. 0 \in Good  BY <1>1, <1>3, <1>7
  <2>2. ASSUME NEW k \in 0 .. n - 1, k \in Good PROVE k + 1 \in Good
    <3>1. k + 1 \in 0 .. n /\ ~(k + 1 = 0) /\ (k + 1) - 1 = k /\ k + 1 \in 1 .. n  BY <1>1
    <3>2. after[k + 1] = OutBuffer(after[k], chars[k + 1], k, count)  BY <1>7, <3>1
    <3>3. Below(chars, k + 1, count) = OutBuffer(Below(chars, k, count), chars[k + 1], k, count)
      BY <1>4, <3>1
    <3> QED  BY <2>2, <3>1, <3>2, <3>3
  <2>3. 0 .. n \subseteq Good
    <3> HIDE DEF Good
    <3> QED  BY <1>1, <2>1, <2>2, InductionUpTo
  <2>4. n \in 0 .. n  BY <1>1
  <2> QED  BY <2>3, <2>4
<1> QED  BY <1>2, <1>8, Zenon DEF chars, n, r, buffer

\* printf sends the characters that are no NUL: all of them if there is none.
LEMMA FctprintfIs ==
    ASSUME NEW T, NUL \notin T, NEW format, Outs(format) \in Seq(T)
    PROVE  Fctprintf(format) = Outs(format)
<1> DEFINE chars == Outs(format)
           n == Len(chars)
           IsAfter(g) == g = [k \in 0 .. n |-> IF k = 0 THEN << >>
                                               ELSE IF chars[k] = NUL THEN g[k - 1]
                                               ELSE Append(g[k - 1], chars[k])]
           after == CHOOSE g : IsAfter(g)
           f == [k \in 0 .. n |-> SubSeq(chars, 1, k)]
<1>1. n \in Nat /\ chars \in Seq(T)  OBVIOUS
<1>2. Fctprintf(format) = after[n]  BY Zenon DEF Fctprintf
<1> HIDE DEF chars
<1>3. \A k \in 1 .. n : chars[k] \in T /\ chars[k] # NUL  BY <1>1
<1>4. SubSeq(chars, 1, 0) = << >> /\ SubSeq(chars, 1, n) = chars
  <2>1. SubSeq(chars, 1, 0) = << >>  BY SubSeqEmpty
  <2>2. SubSeq(chars, 1, n) = chars  BY <1>1
  <2> QED  BY <2>1, <2>2
<1> HIDE DEF n
<1>5. \A k \in 1 .. n : SubSeq(chars, 1, k) = Append(SubSeq(chars, 1, k - 1), chars[k])
  BY <1>1 DEF n
<1>6. IsAfter(f)
  <2>1. ASSUME NEW k \in 0 .. n
        PROVE  f[k] = IF k = 0 THEN << >>
                      ELSE IF chars[k] = NUL THEN f[k - 1] ELSE Append(f[k - 1], chars[k])
    <3>1. f[k] = SubSeq(chars, 1, k)  OBVIOUS
    <3>2. CASE k = 0  BY <1>4, <3>1, <3>2
    <3>3. CASE ~(k = 0)
      <4>1. k - 1 \in 0 .. n /\ k \in 1 .. n  BY <1>1, <3>3
      <4>2. f[k - 1] = SubSeq(chars, 1, k - 1)  BY <4>1
      <4>3. f[k] = Append(f[k - 1], chars[k]) /\ chars[k] # NUL
        <5> HIDE DEF f
        <5> QED  BY <1>3, <1>5, <3>1, <4>1, <4>2, Zenon
      <4> HIDE DEF f
      <4> QED  BY <3>3, <4>3
    <3> QED  BY <3>2, <3>3
  <2> QED  BY <2>1
<1>7. IsAfter(after)  BY <1>6, Zenon
<1> HIDE DEF after, f
<1>8. \A k \in 0 .. n : after[k] = IF k = 0 THEN << >>
                                  ELSE IF chars[k] = NUL THEN after[k - 1]
                                  ELSE Append(after[k - 1], chars[k])
  BY <1>7
<1>9. after[n] = SubSeq(chars, 1, n)
  <2> DEFINE Good == {k \in 0 .. n : after[k] = SubSeq(chars, 1, k)}
  <2>1. 0 \in Good
    <3>1. 0 \in 0 .. n  BY <1>1
    <3>2. after[0] = << >>  BY <1>8, <3>1, Zenon
    <3> QED  BY <1>4, <3>1, <3>2
  <2>2. ASSUME NEW k \in 0 .. n - 1, k \in Good PROVE k + 1 \in Good
    <3>1. k + 1 \in 0 .. n /\ ~(k + 1 = 0) /\ (k + 1) - 1 = k /\ k + 1 \in 1 .. n  BY <1>1
    <3>2. after[k] = SubSeq(chars, 1, k)  BY <2>2
    <3>3. after[k + 1] = Append(after[k], chars[k + 1])
      <4>1. ~(chars[k + 1] = NUL)  BY <1>3, <3>1
      <4>2. after[k + 1] = IF k + 1 = 0 THEN << >>
                           ELSE IF chars[k + 1] = NUL THEN after[(k + 1) - 1]
                           ELSE Append(after[(k + 1) - 1], chars[k + 1])
        BY <1>8, <3>1
      <4> QED  BY <3>1, <4>1, <4>2
    <3>4. SubSeq(chars, 1, k + 1) = Append(SubSeq(chars, 1, (k + 1) - 1), chars[k + 1])
      BY <1>5, <3>1
    <3> QED  BY <3>1, <3>2, <3>3, <3>4
  <2>3. 0 .. n \subseteq Good
    <3> HIDE DEF Good
    <3> QED  BY <1>1, <2>1, <2>2, InductionUpTo
  <2>4. n \in 0 .. n  BY <1>1
  <2> QED  BY <2>3, <2>4
<1> QED  BY <1>2, <1>4, <1>9 DEF chars

\* The terminator closes what fits.
LEMMA TerminatorCloses ==
    ASSUME NEW chars, NEW n \in Nat, NEW count \in Nat,
           NEW i \in 0 .. count + 1
    PROVE  LET b == OutBuffer(Below(chars, n, count), NUL, Terminator(n, count), count)
               kept == IF n < count THEN n ELSE count - 1
           IN  b[i] = IF count = 0 \/ i > kept THEN Untouched ELSE IF i = kept THEN NUL
                      ELSE chars[i + 1]
<1> DEFINE b == OutBuffer(Below(chars, n, count), NUL, Terminator(n, count), count)
           kept == IF n < count THEN n ELSE count - 1
<1>1. Below(chars, n, count)[i] = IF i < n /\ i < count THEN chars[i + 1] ELSE Untouched  BY DEF Below
<1>2. CASE count = 0
  <2>1. b = Below(chars, n, count)  BY <1>2 DEF OutBuffer, Fits, Terminator
  <2>2. ~(i < count)  BY <1>2
  <2> HIDE DEF b
  <2> QED  BY <1>1, <1>2, <2>1, <2>2 DEF b
<1>3. CASE ~(count = 0)
  <2>1. Terminator(n, count) = kept /\ kept \in Nat /\ kept < count  BY <1>3 DEF Terminator
  <2>2. b = [Below(chars, n, count) EXCEPT ![kept] = NUL]  BY <2>1 DEF OutBuffer, Fits
  <2>3. b[i] = IF i = kept THEN NUL ELSE Below(chars, n, count)[i]  BY <2>2 DEF Below
  <2>4. i < kept => i < n /\ i < count  BY <1>3
  <2>5. i > kept => ~(i < n /\ i < count)  BY <1>3
  <2>6. i < kept \/ i = kept \/ i > kept  BY <2>1
  <2>7. i < kept => ~(i > kept) /\ ~(i = kept)  BY <2>1
  <2>8. i > kept => ~(i = kept)  BY <2>1
  <2>9. i = kept => ~(i > kept)  BY <2>1
  <2> HIDE DEF b, kept
  <2> QED  BY <1>1, <1>3, <2>3, <2>4, <2>5, <2>6, <2>7, <2>8, <2>9 DEF b, kept
<1> QED  BY <1>2, <1>3

\* What snprintf of a call leaves.
PrintedOf(format, count) ==
    LET result == Vsnprintf([i \in 0 .. count + 1 |-> Untouched], count, format)
    IN  [format |-> format, count |-> count, buffer |-> result.buffer, returned |-> result.returned]

\* What is printed is nothing yet, or what snprintf leaves of one of the calls.
PrintedByACall ==
    \/ printed.buffer = << >>
    \/ \E call \in Calls : printed = PrintedOf(call[1], call[2])

LEMMA PrintedIsByACall == Spec => []PrintedByACall
<1>1. Init => PrintedByACall  BY DEF Init, PrintfInit, PrintedByACall
<1>2. PrintedByACall /\ [Next]_libraryVars => PrintedByACall'
  <2> SUFFICES ASSUME PrintedByACall, [Next]_libraryVars PROVE PrintedByACall'  OBVIOUS
  <2>1. CASE UNCHANGED printed  BY <2>1, Zenon DEF PrintedByACall
  <2>2. ASSUME NEW call \in Calls, Snprintf(call[1], call[2]) PROVE PrintedByACall'
    <3>1. printed' = PrintedOf(call[1], call[2])  BY <2>2, Zenon DEF Snprintf, PrintedOf
    <3> QED  BY <3>1, Zenon DEF PrintedByACall
  <2>3. UNCHANGED printed \/ \E call \in Calls : Snprintf(call[1], call[2])
    BY Zenon DEF Next, libraryVars
  <2> QED  BY <2>1, <2>2, <2>3
<1> QED  BY <1>1, <1>2, PTL DEF Spec

\* printf.cpp:136-142 and 856-860: for every format of directives and every count, snprintf
\* writes a prefix of what printf would print and one terminator, stays inside the count,
\* and returns the length of the whole.
THEOREM SnprintfTruncatesOnly == Spec => []TruncatesOnly
<1>1. PrintedByACall => TruncatesOnly
  <2> SUFFICES ASSUME PrintedByACall PROVE TruncatesOnly  OBVIOUS
  <2>1. CASE printed.buffer = << >>
    <3>1. \A i \in DOMAIN printed.buffer : FALSE  BY <2>1
    <3> QED  BY <3>1, Zenon DEF TruncatesOnly
  <2>2. CASE \E call \in Calls : printed = PrintedOf(call[1], call[2])
    <3>1. PICK call \in Calls : printed = PrintedOf(call[1], call[2])  BY <2>2
    <3> DEFINE format == call[1]
               count == call[2]
               D == ToSet(format)
               T == OwnCharacters \cup UNION {Said(d) : d \in D}
               chars == Outs(format)
               n == Len(chars)
               kept == IF n < count THEN n ELSE count - 1
               r == Vsnprintf([i \in 0 .. count + 1 |-> Untouched], count, format)
               clean == \A d \in D : d.spec = "c" => d.arg # NUL
    <3>2. count \in Nat /\ format \in Seq(D) /\ \A d \in D : IsDirective(d)
      BY CallsAssumption, Zenon
    <3> HIDE DEF format, count, D
    <3>3. OwnCharacters \subseteq T /\ \A d \in D : Said(d) \subseteq T  OBVIOUS
    <3>4. chars \in Seq(T)
      <4> HIDE DEF T
      <4> QED  BY <3>2, <3>3, OutsAre
    <3>5. clean => NUL \notin T
      <4>1. ASSUME clean, NEW d \in D PROVE NUL \notin Said(d)
        <5>1. IsDirective(d) /\ (d.spec = "c" => d.arg # NUL)  BY <3>2, <4>1
        <5> QED  BY <5>1, Zenon DEF Said, IsDirective, Letters
      <4>2. NUL \notin OwnCharacters  BY OwnAreShown
      <4> QED  BY <4>1, <4>2
    <3> HIDE DEF T, clean
    <3>6. clean => Fctprintf(format) = chars
      <4>1. ASSUME clean PROVE Fctprintf(format) = chars
        <5>1. NUL \notin T  BY <3>5, <4>1
        <5> QED  BY <3>4, <5>1, FctprintfIs
      <4> QED  BY <4>1
    <3>7. r.returned = n
          /\ r.buffer = OutBuffer(Below(chars, n, count), NUL, Terminator(n, count), count)
      BY <3>2, <3>4, VsnprintfIs
    <3>8. /\ printed.format = format /\ printed.count = count
          /\ printed.buffer = r.buffer /\ printed.returned = r.returned
      <4>1. printed = [format |-> format, count |-> count, buffer |-> r.buffer, returned |-> r.returned]
        BY <3>1, Zenon DEF PrintedOf, format, count
      <4> HIDE DEF r
      <4> QED  BY <4>1
    <3>9. n \in Nat  BY <3>4
    <3> HIDE DEF chars, n, r
    <3>10. DOMAIN printed.buffer = 0 .. count + 1
      BY <3>7, <3>8 DEF OutBuffer, Below
    <3>11. count = 0 \/ Min({n, count - 1}) = kept
      <4> SUFFICES ASSUME count # 0 PROVE Min({n, count - 1}) = kept  OBVIOUS
      <4> DEFINE S == {n, count - 1}
      <4>1. S \in SUBSET Nat /\ S # {}  BY <3>2, <3>9
      <4> HIDE DEF S
      <4>2. Min(S) \in S /\ \A y \in S : Min(S) <= y  BY <4>1, MinIsLeast
      <4> QED  BY <3>2, <3>9, <4>2 DEF S
    <3>12. ASSUME NEW i \in DOMAIN printed.buffer
           PROVE  IF printed.count = 0 \/ i > Min({printed.returned, printed.count - 1})
                  THEN printed.buffer[i] = Untouched
                  ELSE IF i = Min({printed.returned, printed.count - 1}) THEN printed.buffer[i] = NUL
                  ELSE clean => /\ printed.returned = Len(Fctprintf(printed.format))
                                /\ printed.buffer[i] = Fctprintf(printed.format)[i + 1]
      <4>1. i \in 0 .. count + 1  BY <3>10
      <4> DEFINE b == OutBuffer(Below(chars, n, count), NUL, Terminator(n, count), count)
      <4>2. b[i] = IF count = 0 \/ i > kept THEN Untouched ELSE IF i = kept THEN NUL
                   ELSE chars[i + 1]
        BY <3>2, <3>9, <4>1, TerminatorCloses
      <4> HIDE DEF b, kept
      <4>3. printed.buffer = b /\ printed.returned = n  BY <3>7, <3>8 DEF b
      <4>4. n = Len(chars)  BY DEF n
      <4>5. CASE count = 0  BY <3>8, <4>2, <4>3, <4>5, Zenon
      <4>6. CASE ~(count = 0)
        <5>1. Min({printed.returned, printed.count - 1}) = kept
          BY <3>8, <3>11, <4>3, <4>6, Zenon
        <5> QED  BY <3>6, <3>8, <4>2, <4>3, <4>4, <4>6, <5>1, Zenon
      <4> QED  BY <4>5, <4>6
    <3> QED  BY <3>8, <3>12, Zenon DEF TruncatesOnly, clean, D
  <2> QED  BY <2>1, <2>2 DEF PrintedByACall
<1> QED  BY <1>1, PrintedIsByACall, PTL

\* Num, its last digit first, is value down to rest: q[i] is what i digits leave of it.
Spelt(q, num, base, value, rest) ==
    /\ q \in [0 .. Len(num) -> Nat] /\ q[0] = value /\ q[Len(num)] = rest
    /\ \A i \in 1 .. Len(num) : q[i] = q[i - 1] \div base /\ IsDigit(num[i], q[i - 1] % base)

\* A digit is one whatever its letters' case.
LEMMA DigitSays ==
    ASSUME NEW v, NEW flags
    PROVE  IsDigit(DigitChar(v, flags), v)
  BY Zenon DEF IsDigit, DigitChar

\* One more digit.
LEMMA SpellsOne ==
    ASSUME NEW num \in Seq(OwnCharacters), NEW q, NEW base \in Bases, NEW value, NEW rest \in Nat,
           Spelt(q, num, base, value, rest), NEW c \in OwnCharacters, IsDigit(c, rest % base)
    PROVE  \E p1 : Spelt(p1, Append(num, c), base, value, rest \div base)
<1> DEFINE n == Len(num)
           longer == Append(num, c)
           r == rest \div base
           p1 == [i \in 0 .. n + 1 |-> IF i <= n THEN q[i] ELSE r]
<1>1. n \in Nat /\ Len(longer) = n + 1 /\ \A i \in 1 .. n : longer[i] = num[i]  OBVIOUS
<1>2. longer[n + 1] = c  OBVIOUS
<1>3. r \in Nat
  <2>1. base \in Nat \ {0}  BY DEF Bases
  <2> QED  BY <2>1, DivMod
<1>4. /\ q \in [0 .. n -> Nat] /\ q[0] = value /\ q[n] = rest
      /\ \A i \in 1 .. n : q[i] = q[i - 1] \div base /\ IsDigit(num[i], q[i - 1] % base)
  BY DEF Spelt
<1> HIDE DEF n, longer
<1>5. p1 \in [0 .. n + 1 -> Nat] /\ p1[0] = value
  <2> HIDE DEF r
  <2> QED  BY <1>1, <1>3, <1>4
<1>6. p1[n + 1] = r  BY <1>1
<1>7. \A i \in 0 .. n : p1[i] = q[i]  BY <1>1
<1> HIDE DEF p1
<1>8. ASSUME NEW i \in 1 .. n + 1
      PROVE  p1[i] = p1[i - 1] \div base /\ IsDigit(longer[i], p1[i - 1] % base)
  <2>1. i - 1 \in 0 .. n  BY <1>1
  <2>2. p1[i - 1] = q[i - 1]  BY <1>7, <2>1
  <2>3. CASE i = n + 1
    <3>1. i - 1 = n  BY <1>1, <2>3
    <3>2. p1[i - 1] = rest  BY <1>4, <2>2, <3>1
    <3> QED  BY <1>2, <1>6, <2>3, <3>2, Zenon DEF r
  <2>4. CASE ~(i = n + 1)
    <3>1. i \in 1 .. n /\ i \in 0 .. n  BY <1>1, <2>4
    <3> QED  BY <1>1, <1>4, <1>7, <2>2, <3>1, Zenon
  <2> QED  BY <2>3, <2>4
<1>9. Spelt(p1, longer, base, value, r)  BY <1>1, <1>5, <1>6, <1>8, Zenon DEF Spelt
<1> QED  BY <1>9 DEF longer, r

\* Leading zeros say nothing.
LEMMA ZerosSpell ==
    ASSUME NEW num \in Seq(OwnCharacters), NEW q, NEW base \in Bases, NEW value,
           Spelt(q, num, base, value, 0), NEW longer, WithZeros(longer, num)
    PROVE  \E p1 : Spelt(p1, longer, base, value, 0)
<1> DEFINE n == Len(num)
           m == Len(longer)
           p1 == [i \in 0 .. m |-> IF i <= n THEN q[i] ELSE 0]
<1>1. n \in Nat /\ m \in Nat /\ n <= m  BY DEF WithZeros
<1>2. \A i \in 1 .. m : longer[i] = IF i <= n THEN num[i] ELSE "0"  BY Zenon DEF WithZeros
<1>3. /\ q \in [0 .. n -> Nat] /\ q[0] = value /\ q[n] = 0
      /\ \A i \in 1 .. n : q[i] = q[i - 1] \div base /\ IsDigit(num[i], q[i - 1] % base)
  BY DEF Spelt
<1> HIDE DEF n, m
<1>4. p1 \in [0 .. m -> Nat] /\ p1[0] = value /\ p1[m] = 0
  <2>1. ASSUME NEW i \in 0 .. m PROVE (IF i <= n THEN q[i] ELSE 0) \in Nat  BY <1>1, <1>3
  <2>2. p1[0] = q[0]  BY <1>1
  <2>3. p1[m] = IF m <= n THEN q[m] ELSE 0  BY <1>1
  <2>4. m <= n => m = n  BY <1>1
  <2> QED  BY <1>3, <2>1, <2>2, <2>3, <2>4
<1>5. 0 \div base = 0 /\ 0 % base = 0  BY DEF Bases
<1>6. IsDigit("0", 0)  BY DEF IsDigit, DigitChars
<1>7. ASSUME NEW i \in 1 .. m
      PROVE  p1[i] = p1[i - 1] \div base /\ IsDigit(longer[i], p1[i - 1] % base)
  <2>1. i \in 0 .. m /\ i - 1 \in 0 .. m  BY <1>1
  <2>2. p1[i] = (IF i <= n THEN q[i] ELSE 0) /\ p1[i - 1] = (IF i - 1 <= n THEN q[i - 1] ELSE 0)
    BY <2>1
  <2> HIDE DEF p1
  <2>3. CASE i <= n
    <3>1. i \in 1 .. n /\ i - 1 <= n  BY <1>1, <2>3
    <3> QED  BY <1>2, <1>3, <2>2, <2>3, <3>1, Zenon
  <2>4. CASE ~(i <= n)
    <3>1. i - 1 <= n => i - 1 = n  BY <1>1, <2>4
    <3>2. p1[i] = 0 /\ p1[i - 1] = 0  BY <1>3, <2>2, <2>4, <3>1
    <3> QED  BY <1>2, <1>5, <1>6, <2>4, <3>2, Zenon
  <2> QED  BY <2>3, <2>4
<1> HIDE DEF p1
<1>8. Spelt(p1, longer, base, value, 0)  BY <1>4, <1>7, Zenon DEF Spelt, m
<1> QED  BY <1>8

\* What k turns have made: k digits of value, or all of them.
Turned(s, k, value, base) ==
    /\ s \in Making /\ Len(s.buf) <= k /\ (Len(s.buf) = k \/ s.rest = 0)
    /\ \E q : Spelt(q, s.buf, base, value, s.rest)

LEMMA TurnsOnce ==
    ASSUME NEW value \in Nat, NEW base \in Bases, NEW flags, NEW k \in Nat, NEW s,
           Turned(s, k, value, base)
    PROVE  Turned(OneDigit(s, base, flags), k + 1, value, base)
<1>1. s \in Making /\ s.buf \in Seq(OwnCharacters) /\ s.rest \in Nat /\ Len(s.buf) \in Nat
      /\ Len(s.buf) <= k /\ (Len(s.buf) = k \/ s.rest = 0)
  BY DEF Turned, Making
<1>2. CASE s.buf # << >> /\ s.rest = 0
  <2>1. OneDigit(s, base, flags) = s  BY <1>2 DEF OneDigit
  <2>2. Len(s.buf) <= k + 1  BY <1>1
  <2> QED  BY <1>2, <2>1, <2>2 DEF Turned
<1>3. CASE ~(s.buf # << >> /\ s.rest = 0)
  <2> DEFINE t == OneDigit(s, base, flags)
             c == DigitChar(s.rest % base, flags)
  <2>1. t = [buf |-> Append(s.buf, c), rest |-> s.rest \div base]  BY <1>3 DEF OneDigit
  <2>2. base \in 2 .. 16  BY DEF Bases
  <2>3. t \in Making  BY <1>1, <2>2, DigitMakes
  <2>4. s.rest % base \in 0 .. 15
    <3>1. base \in Nat \ {0}  BY <2>2
    <3>2. s.rest % base \in 0 .. base - 1  BY <1>1, <3>1, DivMod
    <3> QED  BY <2>2, <3>2
  <2>5. c \in OwnCharacters /\ IsDigit(c, s.rest % base)  BY <2>4, DigitIsOwn, DigitSays
  <2> HIDE DEF c, t
  <2>6. t.buf = Append(s.buf, c) /\ t.rest = s.rest \div base  BY <2>1
  <2>7. \E q : Spelt(q, t.buf, base, value, t.rest)
    <3>1. PICK q : Spelt(q, s.buf, base, value, s.rest)  BY DEF Turned
    <3>2. \E p1 : Spelt(p1, Append(s.buf, c), base, value, s.rest \div base)
      BY <1>1, <2>5, <3>1, SpellsOne
    <3> QED  BY <2>6, <3>2
  <2>8. Len(t.buf) = Len(s.buf) + 1  BY <1>1, <2>5, <2>6
  <2>9. Len(t.buf) <= k + 1  BY <1>1, <2>8
  <2>10. Len(t.buf) = k + 1 \/ t.rest = 0
    <3>1. CASE Len(s.buf) = k  BY <1>1, <2>8, <3>1
    <3>2. CASE s.rest = 0
      <4>1. 0 \div base = 0  BY DEF Bases
      <4> QED  BY <2>6, <3>2, <4>1
    <3> QED  BY <1>1, <3>1, <3>2
  <2> QED  BY <2>3, <2>7, <2>9, <2>10, Zenon DEF Turned, t
<1> QED  BY <1>2, <1>3

\* Digits the buffer has room for spell the value.
LEMMA DigitsSpell ==
    ASSUME NEW value \in Nat, NEW base \in Bases, NEW flags,
           Len(Digits(value, base, flags)) < NTOA_BUFFER_SIZE
    PROVE  \E q : Spelt(q, Digits(value, base, flags), base, value, 0)
<1> DEFINE N == NTOA_BUFFER_SIZE
<1>1. base \in 2 .. 16 /\ N \in Nat
  <2>1. base \in 2 .. 16  BY DEF Bases
  <2>2. N \in Nat  BY PrintfAssumption
  <2> QED  BY <2>1, <2>2
<1>2. PICK f : DigitsGo(f, value, base, flags) /\ Digits(value, base, flags) = f[N].buf
  BY <1>1, DigitsAreMade
<1>3. /\ f \in [0 .. N -> Making] /\ f[0] = [buf |-> << >>, rest |-> value]
      /\ \A k \in 1 .. N : f[k] = OneDigit(f[k - 1], base, flags)
  BY <1>2, Zenon DEF DigitsGo
<1>4. Len(f[N].buf) < N  BY <1>2, Zenon
<1> HIDE DEF N
<1>5. Turned(f[N], N, value, base)
  <2> DEFINE Good == {k \in 0 .. N : Turned(f[k], k, value, base)}
  <2>1. 0 \in Good
    <3>1. f[0] \in Making  BY <1>1, <1>3
    <3>2. f[0].buf = << >> /\ f[0].rest = value  BY <1>3
    <3>3. Len(<< >>) = 0 /\ 0 \in 0 .. N  BY <1>1
    <3>4. Spelt([i \in 0 .. 0 |-> value], << >>, base, value, value)  BY DEF Spelt
    <3>5. Len(f[0].buf) <= 0 /\ Len(f[0].buf) = 0  BY <3>2, <3>3
    <3>6. Turned(f[0], 0, value, base)  BY <3>1, <3>2, <3>4, <3>5, Zenon DEF Turned
    <3> QED  BY <3>3, <3>6
  <2>2. ASSUME NEW k \in 0 .. N - 1, k \in Good PROVE k + 1 \in Good
    <3>1. k + 1 \in 1 .. N /\ (k + 1) - 1 = k /\ k + 1 \in 0 .. N /\ k \in Nat  BY <1>1
    <3>2. f[k + 1] = OneDigit(f[k], base, flags)  BY <1>3, <3>1
    <3>3. Turned(f[k], k, value, base)  BY <2>2
    <3>4. Turned(OneDigit(f[k], base, flags), k + 1, value, base)  BY <3>1, <3>3, TurnsOnce
    <3> QED  BY <3>1, <3>2, <3>4
  <2>3. 0 .. N \subseteq Good
    <3> HIDE DEF Good
    <3> QED  BY <1>1, <2>1, <2>2, InductionUpTo
  <2>4. N \in 0 .. N  BY <1>1
  <2> QED  BY <2>3, <2>4
<1>6. f[N].rest = 0
  <2>1. f[N] \in Making /\ (Len(f[N].buf) = N \/ f[N].rest = 0)  BY <1>5, Zenon DEF Turned
  <2>2. Len(f[N].buf) # N  BY <1>1, <1>4
  <2> QED  BY <2>1, <2>2
<1>7. \E q : Spelt(q, f[N].buf, base, value, 0)  BY <1>5, <1>6, Zenon DEF Turned
<1> QED  BY <1>2, <1>7, Zenon

\* How many there are is not a matter of their letters' case.
LEMMA SameDigits ==
    ASSUME NEW value \in Nat, NEW base \in Bases, NEW flags, NEW others
    PROVE  Len(Digits(value, base, flags)) = Len(Digits(value, base, others))
<1> DEFINE N == NTOA_BUFFER_SIZE
<1>1. base \in 2 .. 16  BY DEF Bases
<1>2. N \in Nat  BY PrintfAssumption
<1>3. PICK f : DigitsGo(f, value, base, flags) /\ Digits(value, base, flags) = f[N].buf
  BY <1>1, DigitsAreMade
<1>4. PICK g : DigitsGo(g, value, base, others) /\ Digits(value, base, others) = g[N].buf
  BY <1>1, DigitsAreMade
<1>5. /\ f \in [0 .. N -> Making] /\ f[0] = [buf |-> << >>, rest |-> value]
      /\ \A k \in 1 .. N : f[k] = OneDigit(f[k - 1], base, flags)
  BY <1>3, Zenon DEF DigitsGo
<1>6. /\ g \in [0 .. N -> Making] /\ g[0] = [buf |-> << >>, rest |-> value]
      /\ \A k \in 1 .. N : g[k] = OneDigit(g[k - 1], base, others)
  BY <1>4, Zenon DEF DigitsGo
<1> HIDE DEF N
<1> DEFINE Good == {k \in 0 .. N : f[k].rest = g[k].rest /\ Len(f[k].buf) = Len(g[k].buf)}
<1>7. 0 \in Good  BY <1>2, <1>5, <1>6
<1>8. ASSUME NEW k \in 0 .. N - 1, k \in Good PROVE k + 1 \in Good
  <2>1. k + 1 \in 1 .. N /\ (k + 1) - 1 = k /\ k + 1 \in 0 .. N /\ k \in 0 .. N  BY <1>2
  <2> DEFINE s == f[k]
             t == g[k]
  <2>2. f[k + 1] = OneDigit(s, base, flags) /\ g[k + 1] = OneDigit(t, base, others)
    BY <1>5, <1>6, <2>1
  <2>3. s \in Making /\ t \in Making  BY <1>5, <1>6, <2>1
  <2>4. s.rest = t.rest /\ Len(s.buf) = Len(t.buf)  BY <1>8
  <2> HIDE DEF s, t
  <2>5. s.buf \in Seq(OwnCharacters) /\ t.buf \in Seq(OwnCharacters)  BY <2>3 DEF Making
  <2>6. s.buf = << >> <=> t.buf = << >>  BY <2>4, <2>5
  <2>7. CASE s.buf # << >> /\ s.rest = 0
    <3>1. OneDigit(s, base, flags) = s /\ OneDigit(t, base, others) = t
      BY <2>4, <2>6, <2>7, Zenon DEF OneDigit
    <3> QED  BY <2>1, <2>2, <2>4, <3>1
  <2>8. CASE ~(s.buf # << >> /\ s.rest = 0)
    <3> DEFINE c == DigitChar(s.rest % base, flags)
               e == DigitChar(t.rest % base, others)
    <3>1. OneDigit(s, base, flags) = [buf |-> Append(s.buf, c), rest |-> s.rest \div base]
      BY <2>8, Zenon DEF OneDigit
    <3>2. OneDigit(t, base, others) = [buf |-> Append(t.buf, e), rest |-> t.rest \div base]
      BY <2>4, <2>6, <2>8, Zenon DEF OneDigit
    <3> HIDE DEF c, e
    <3>3. Len(Append(s.buf, c)) = Len(s.buf) + 1 /\ Len(Append(t.buf, e)) = Len(t.buf) + 1
      <4>1. c \in OwnCharacters \cup {c, e} /\ e \in OwnCharacters \cup {c, e}  OBVIOUS
      <4>2. s.buf \in Seq(OwnCharacters \cup {c, e}) /\ t.buf \in Seq(OwnCharacters \cup {c, e})
        BY <2>5
      <4> QED  BY <4>1, <4>2, AppendProperties
    <3> QED  BY <2>1, <2>2, <2>4, <3>1, <3>2, <3>3
  <2> QED  BY <2>7, <2>8
<1>9. 0 .. N \subseteq Good
  <2> HIDE DEF Good
  <2> QED  BY <1>2, <1>7, <1>8, InductionUpTo
<1>10. N \in 0 .. N  BY <1>2
<1> QED  BY <1>3, <1>4, <1>9, <1>10

\* What a digit is worth.
DigitValue(c) ==
    IF c = "0" THEN 0 ELSE IF c = "1" THEN 1 ELSE IF c = "2" THEN 2 ELSE IF c = "3" THEN 3
    ELSE IF c = "4" THEN 4 ELSE IF c = "5" THEN 5 ELSE IF c = "6" THEN 6 ELSE IF c = "7" THEN 7
    ELSE IF c = "8" THEN 8 ELSE IF c = "9" THEN 9 ELSE IF c \in {"a", "A"} THEN 10
    ELSE IF c \in {"b", "B"} THEN 11 ELSE IF c \in {"c", "C"} THEN 12
    ELSE IF c \in {"d", "D"} THEN 13 ELSE IF c \in {"e", "E"} THEN 14 ELSE 15

\* A character is one digit at most.
LEMMA OneValue ==
    ASSUME NEW c, NEW v \in 0 .. 15, NEW w \in 0 .. 15, IsDigit(c, v), IsDigit(c, w)
    PROVE  v = w
<1>1. ASSUME NEW k \in 0 .. 15, NEW d \in {DigitChars[k + 1], UpperChars[k + 1]}
      PROVE  DigitValue(d) = k
  <2>1. CASE k = 0
    <3>1. d \in {DigitChars[1], UpperChars[1]}  BY <2>1
    <3> QED  BY <2>1, <3>1 DEF DigitValue, DigitChars, UpperChars
  <2>2. CASE k = 1
    <3>1. d \in {DigitChars[2], UpperChars[2]}  BY <2>2
    <3> QED  BY <2>2, <3>1 DEF DigitValue, DigitChars, UpperChars
  <2>3. CASE k = 2
    <3>1. d \in {DigitChars[3], UpperChars[3]}  BY <2>3
    <3> QED  BY <2>3, <3>1 DEF DigitValue, DigitChars, UpperChars
  <2>4. CASE k = 3
    <3>1. d \in {DigitChars[4], UpperChars[4]}  BY <2>4
    <3> QED  BY <2>4, <3>1 DEF DigitValue, DigitChars, UpperChars
  <2>5. CASE k = 4
    <3>1. d \in {DigitChars[5], UpperChars[5]}  BY <2>5
    <3> QED  BY <2>5, <3>1 DEF DigitValue, DigitChars, UpperChars
  <2>6. CASE k = 5
    <3>1. d \in {DigitChars[6], UpperChars[6]}  BY <2>6
    <3> QED  BY <2>6, <3>1 DEF DigitValue, DigitChars, UpperChars
  <2>7. CASE k = 6
    <3>1. d \in {DigitChars[7], UpperChars[7]}  BY <2>7
    <3> QED  BY <2>7, <3>1 DEF DigitValue, DigitChars, UpperChars
  <2>8. CASE k = 7
    <3>1. d \in {DigitChars[8], UpperChars[8]}  BY <2>8
    <3> QED  BY <2>8, <3>1 DEF DigitValue, DigitChars, UpperChars
  <2>9. CASE k = 8
    <3>1. d \in {DigitChars[9], UpperChars[9]}  BY <2>9
    <3> QED  BY <2>9, <3>1 DEF DigitValue, DigitChars, UpperChars
  <2>10. CASE k = 9
    <3>1. d \in {DigitChars[10], UpperChars[10]}  BY <2>10
    <3> QED  BY <2>10, <3>1 DEF DigitValue, DigitChars, UpperChars
  <2>11. CASE k = 10
    <3>1. d \in {DigitChars[11], UpperChars[11]}  BY <2>11
    <3> QED  BY <2>11, <3>1 DEF DigitValue, DigitChars, UpperChars
  <2>12. CASE k = 11
    <3>1. d \in {DigitChars[12], UpperChars[12]}  BY <2>12
    <3> QED  BY <2>12, <3>1 DEF DigitValue, DigitChars, UpperChars
  <2>13. CASE k = 12
    <3>1. d \in {DigitChars[13], UpperChars[13]}  BY <2>13
    <3> QED  BY <2>13, <3>1 DEF DigitValue, DigitChars, UpperChars
  <2>14. CASE k = 13
    <3>1. d \in {DigitChars[14], UpperChars[14]}  BY <2>14
    <3> QED  BY <2>14, <3>1 DEF DigitValue, DigitChars, UpperChars
  <2>15. CASE k = 14
    <3>1. d \in {DigitChars[15], UpperChars[15]}  BY <2>15
    <3> QED  BY <2>15, <3>1 DEF DigitValue, DigitChars, UpperChars
  <2>16. CASE k = 15
    <3>1. d \in {DigitChars[16], UpperChars[16]}  BY <2>16
    <3> QED  BY <2>16, <3>1 DEF DigitValue, DigitChars, UpperChars
  <2> QED  BY <2>1, <2>2, <2>3, <2>4, <2>5, <2>6, <2>7, <2>8, <2>9, <2>10, <2>11, <2>12, <2>13, <2>14, <2>15, <2>16
<1>2. c \in {DigitChars[v + 1], UpperChars[v + 1]} /\ c \in {DigitChars[w + 1], UpperChars[w + 1]}
  BY Zenon DEF IsDigit
<1>3. DigitValue(c) = v /\ DigitValue(c) = w  BY <1>1, <1>2, Zenon
<1> QED  BY <1>3

\* What spells a value reads as that value, first digit first.
LEMMA SpeltIsRead ==
    ASSUME NEW num \in Seq(OwnCharacters), NEW q, NEW base \in Bases, NEW value \in Nat,
           Spelt(q, num, base, value, 0)
    PROVE  /\ Reads(Reverse(num), base) = value
           /\ \A i \in DOMAIN Reverse(num) : \E v \in 0 .. base - 1 : IsDigit(Reverse(num)[i], v)
<1> DEFINE digits == Reverse(num)
           m == Len(num)
           said(k) == CHOOSE v \in 0 .. base - 1 : IsDigit(digits[k], v)
           IsAfter(g) == g = [k \in 0 .. m |-> IF k = 0 THEN 0 ELSE g[k - 1] * base + said(k)]
           after == CHOOSE g : IsAfter(g)
           f == [k \in 0 .. m |-> q[m - k]]
<1>1. m \in Nat /\ Len(digits) = m /\ DOMAIN digits = 1 .. m
  <2>1. digits \in Seq(OwnCharacters) /\ Len(digits) = Len(num)  BY ReverseIs
  <2> HIDE DEF digits
  <2> QED  BY <2>1, LenProperties
<1>2. Reads(digits, base) = after[m]
  <2>1. Reads(digits, base) = (CHOOSE g : g = [k \in 0 .. Len(digits) |->
            IF k = 0 THEN 0 ELSE g[k - 1] * base + said(k)])[Len(digits)]
    <3> HIDE DEF digits
    <3> QED  BY Zenon DEF Reads
  <2> HIDE DEF digits, m
  <2> QED  BY <1>1, <2>1, Zenon
<1>3. \A k \in 1 .. m : digits[k] = num[(m - k) + 1]  BY ReverseIs
<1>4. /\ q \in [0 .. m -> Nat] /\ q[0] = value /\ q[m] = 0
      /\ \A i \in 1 .. m : q[i] = q[i - 1] \div base /\ IsDigit(num[i], q[i - 1] % base)
  BY DEF Spelt
<1> HIDE DEF digits, m
<1>5. base \in Nat \ {0} /\ base <= 16  BY DEF Bases
<1>6. ASSUME NEW k \in 1 .. m
      PROVE  /\ q[m - k] = q[m - (k - 1)] * base + said(k)
             /\ \E v \in 0 .. base - 1 : IsDigit(digits[k], v)
  <2> DEFINE i == (m - k) + 1
             n == q[m - k]
             r == n % base
  <2>1. i \in 1 .. m /\ i - 1 = m - k /\ i = m - (k - 1) /\ m - k \in 0 .. m  BY <1>1
  <2>2. digits[k] = num[i]  BY <1>3
  <2>3. q[i] = n \div base /\ IsDigit(digits[k], r)  BY <1>4, <2>1, <2>2
  <2>4. n \in Nat  BY <1>4, <2>1
  <2> HIDE DEF i, n
  <2>5. r \in 0 .. base - 1 /\ n = (n \div base) * base + r  BY <1>5, <2>4, DivMod
  <2> HIDE DEF r
  <2>6. \A v \in 0 .. base - 1 : IsDigit(digits[k], v) => v = r
    <3>1. ASSUME NEW v \in 0 .. base - 1, IsDigit(digits[k], v) PROVE v = r
      <4>1. v \in 0 .. 15 /\ r \in 0 .. 15  BY <1>5, <2>5
      <4> QED  BY <2>3, <3>1, <4>1, OneValue
    <3> QED  BY <3>1
  <2>7. said(k) = r  BY <2>3, <2>5, <2>6, Zenon
  <2>8. n = q[i] * base + said(k)  BY <2>3, <2>5, <2>7, Zenon
  <2>9. \E v \in 0 .. base - 1 : IsDigit(digits[k], v)  BY <2>3, <2>5
  <2> QED  BY <2>1, <2>8, <2>9, Zenon DEF n
<1> HIDE DEF said
<1>7. IsAfter(f)
  <2>1. ASSUME NEW k \in 0 .. m PROVE f[k] = IF k = 0 THEN 0 ELSE f[k - 1] * base + said(k)
    <3>1. f[k] = q[m - k]  OBVIOUS
    <3>2. CASE k = 0
      <4>1. m - k = m  BY <1>1, <3>2
      <4> QED  BY <1>4, <3>1, <3>2, <4>1
    <3>3. CASE ~(k = 0)
      <4>1. k - 1 \in 0 .. m /\ k \in 1 .. m  BY <1>1, <3>3
      <4>2. f[k - 1] = q[m - (k - 1)]  BY <4>1
      <4> HIDE DEF f
      <4> QED  BY <1>6, <3>1, <3>3, <4>1, <4>2, Zenon
    <3> QED  BY <3>2, <3>3
  <2> QED  BY <2>1
<1>8. IsAfter(after)  BY <1>7, Zenon
<1> HIDE DEF after, f
<1>9. \A k \in 0 .. m : after[k] = IF k = 0 THEN 0 ELSE after[k - 1] * base + said(k)  BY <1>8
<1>10. after[m] = q[0]
  <2> DEFINE Good == {k \in 0 .. m : after[k] = q[m - k]}
  <2>1. 0 \in Good
    <3>1. 0 \in 0 .. m /\ m - 0 = m  BY <1>1
    <3>2. after[0] = 0  BY <1>9, <3>1, Zenon
    <3> QED  BY <1>4, <3>1, <3>2
  <2>2. ASSUME NEW k \in 0 .. m - 1, k \in Good PROVE k + 1 \in Good
    <3>1. k + 1 \in 0 .. m /\ ~(k + 1 = 0) /\ (k + 1) - 1 = k /\ k + 1 \in 1 .. m  BY <1>1
    <3>2. after[k + 1] = after[k] * base + said(k + 1)
      <4>1. after[k + 1] = IF k + 1 = 0 THEN 0 ELSE after[(k + 1) - 1] * base + said(k + 1)
        BY <1>9, <3>1
      <4> QED  BY <3>1, <4>1
    <3>3. q[m - (k + 1)] = q[m - k] * base + said(k + 1)
      <4>1. q[m - (k + 1)] = q[m - ((k + 1) - 1)] * base + said(k + 1)  BY <1>6, <3>1
      <4> QED  BY <3>1, <4>1
    <3>4. after[k] = q[m - k]  BY <2>2
    <3>5. after[k + 1] = q[m - (k + 1)]  BY <3>2, <3>3, <3>4, Zenon
    <3> QED  BY <3>1, <3>5
  <2>3. 0 .. m \subseteq Good
    <3> HIDE DEF Good
    <3> QED  BY <1>1, <2>1, <2>2, InductionUpTo
  <2>4. m \in 0 .. m /\ m - m = 0  BY <1>1
  <2>5. m \in Good  BY <2>3, <2>4
  <2> QED  BY <2>4, <2>5
<1> QED  BY <1>1, <1>2, <1>4, <1>6, <1>10, Zenon DEF digits

\* Three sequences, one after the other, and the one in the middle.
Joined(x, y, z, T) ==
    /\ SubSeq((x \o y) \o z, Len(x) + 1, Len(x) + Len(y)) = y
    /\ (x \o y) \o z \in Seq(T) /\ Len((x \o y) \o z) = Len(x) + Len(y) + Len(z)

LEMMA JoinedAre ==
    ASSUME NEW T, NEW x \in Seq(T), NEW y \in Seq(T), NEW z \in Seq(T)
    PROVE  Joined(x, y, z, T)
<1> DEFINE s == (x \o y) \o z
           m == Len(x)
           n == Len(y)
           sub == SubSeq(s, m + 1, m + n)
<1>1. m \in Nat /\ n \in Nat /\ Len(z) \in Nat  OBVIOUS
<1>2. /\ x \o y \in Seq(T) /\ Len(x \o y) = m + n
      /\ \A i \in 1 .. m + n : (x \o y)[i] = IF i <= m THEN x[i] ELSE y[i - m]
  BY ConcatProperties
<1> DEFINE xy == x \o y
<1> HIDE DEF xy
<1>3. /\ s \in Seq(T) /\ Len(s) = (m + n) + Len(z)
      /\ \A i \in 1 .. (m + n) + Len(z) : s[i] = IF i <= m + n THEN xy[i] ELSE z[i - (m + n)]
  <2>1. /\ xy \o z \in Seq(T) /\ Len(xy \o z) = Len(xy) + Len(z)
        /\ \A i \in 1 .. Len(xy) + Len(z) : (xy \o z)[i] = IF i <= Len(xy) THEN xy[i] ELSE z[i - Len(xy)]
    <3>1. xy \in Seq(T)  BY <1>2 DEF xy
    <3> QED  BY <3>1, ConcatProperties, Zenon
  <2>2. s = xy \o z /\ Len(xy) = m + n  BY <1>2 DEF xy
  <2> HIDE DEF s, m, n
  <2> QED  BY <2>1, <2>2
<1> HIDE DEF s, m, n
<1>4. \A i \in 1 .. n : s[m + i] = y[i]
  <2>1. ASSUME NEW i \in 1 .. n PROVE s[m + i] = y[i]
    <3>1. m + i \in 1 .. m + n /\ m + i \in 1 .. (m + n) + Len(z) /\ m + i <= m + n
          /\ ~(m + i <= m) /\ (m + i) - m = i
      BY <1>1
    <3>2. s[m + i] = xy[m + i]  BY <1>3, <3>1
    <3>3. xy[m + i] = y[(m + i) - m]  BY <1>2, <3>1 DEF xy
    <3> QED  BY <3>1, <3>2, <3>3
  <2> QED  BY <2>1
<1>5. sub \in Seq(T) /\ Len(sub) = n /\ \A i \in 1 .. n : sub[i] = s[(m + 1) + i - 1]
  <2> DEFINE lo == m + 1
             hi == m + n
  <2>1. lo \in Int /\ hi \in Int  BY <1>1
  <2>2. \A i \in lo .. hi : s[i] \in T
    <3>1. \A i \in m + 1 .. m + n : i \in 1 .. (m + n) + Len(z)  BY <1>1
    <3>2. \A i \in 1 .. Len(s) : s[i] \in T  BY <1>3
    <3> QED  BY <1>3, <3>1, <3>2
  <2>3. sub = SubSeq(s, lo, hi)  OBVIOUS
  <2>4. hi - lo + 1 = n /\ (lo <= hi <=> n > 0)  BY <1>1
  <2> HIDE DEF sub, lo, hi
  <2>5. /\ sub \in Seq(T) /\ Len(sub) = IF lo <= hi THEN hi - lo + 1 ELSE 0
        /\ \A i \in 1 .. hi - lo + 1 : sub[i] = s[lo + i - 1]
    BY <2>1, <2>2, <2>3, SubSeqProperties
  <2>6. Len(sub) = n /\ \A i \in 1 .. n : sub[i] = s[lo + i - 1]  BY <1>1, <2>4, <2>5
  <2> QED  BY <2>5, <2>6 DEF lo
<1> HIDE DEF sub
<1>6. sub = y
  <2>1. \A i \in 1 .. n : (m + 1) + i - 1 = m + i  BY <1>1
  <2>2. \A i \in 1 .. n : sub[i] = y[i]  BY <1>4, <1>5, <2>1
  <2>3. Len(y) = n /\ y \in Seq(T)  BY DEF n
  <2> QED  BY <1>5, <2>2, <2>3, SeqEqual
<1>7. Len(s) = m + n + Len(z)  BY <1>1, <1>3
<1> QED  BY <1>3, <1>6, <1>7, Zenon DEF Joined, s, m, n, sub

\* What _ntoa_format puts out: blanks, sign, prefix, digits and blanks.
Shape(before, sign, prefix, digits, after) ==
    (((Repeat(Blank, before) \o sign) \o prefix) \o digits) \o Repeat(Blank, after)

\* Some characters make a sequence of them.
LEMMA SomeAre ==
    /\ << >> \in Seq(OwnCharacters) /\ \A c \in OwnCharacters : <<c>> \in Seq(OwnCharacters)
    /\ \A c, e \in OwnCharacters : <<c, e>> \in Seq(OwnCharacters)
  OBVIOUS

\* Parts of it are characters.
LEMMA SignsAre ==
    ASSUME NEW sign \in {<< >>, <<"-">>, <<"+">>, <<" ">>}
    PROVE  sign \in Seq(OwnCharacters)
<1>1. "-" \in OwnCharacters /\ "+" \in OwnCharacters /\ " " \in OwnCharacters  BY ZeroIsOwn, Zenon
<1>2. \A c \in OwnCharacters : <<c>> \in Seq(OwnCharacters)  BY SomeAre, Zenon
<1>3. << >> \in Seq(OwnCharacters)  BY SomeAre, Zenon
<1>4. <<"-">> \in Seq(OwnCharacters) /\ <<"+">> \in Seq(OwnCharacters) /\ <<" ">> \in Seq(OwnCharacters)
  BY <1>1, <1>2, Zenon
<1> QED  BY <1>3, <1>4, Zenon

LEMMA PrefixesAre ==
    ASSUME NEW base, NEW prefix \in PrefixesOf(base)
    PROVE  prefix \in Seq(OwnCharacters)
<1>1. "0" \in OwnCharacters /\ "x" \in OwnCharacters /\ "X" \in OwnCharacters /\ "b" \in OwnCharacters
  BY ZeroIsOwn, Zenon
<1>2. \A c, e \in OwnCharacters : <<c, e>> \in Seq(OwnCharacters)  BY SomeAre, Zenon
<1>3. << >> \in Seq(OwnCharacters)  BY SomeAre, Zenon
<1>4. /\ <<"0", "x">> \in Seq(OwnCharacters) /\ <<"0", "X">> \in Seq(OwnCharacters)
      /\ <<"0", "b">> \in Seq(OwnCharacters)
  BY <1>1, <1>2, Zenon
<1>5. prefix \in {<< >>, <<"0", "x">>, <<"0", "X">>, <<"0", "b">>}  BY Zenon DEF PrefixesOf
<1> QED  BY <1>3, <1>4, <1>5, Zenon

\* How long it is, and where the digits are found.
Laid(before, sign, prefix, digits, after) ==
    LET chars == Shape(before, sign, prefix, digits, after)
    IN  /\ Len(chars) = before + Len(sign) + Len(prefix) + Len(digits) + after
        /\ SubSeq(chars, before + Len(sign) + Len(prefix) + 1, Len(chars) - after) = digits
        /\ before \in 0 .. Len(chars) /\ after \in 0 .. Len(chars)

LEMMA ShapeIs ==
    ASSUME NEW before \in Nat, NEW after \in Nat, NEW sign \in Seq(OwnCharacters),
           NEW prefix \in Seq(OwnCharacters), NEW digits \in Seq(OwnCharacters)
    PROVE  Laid(before, sign, prefix, digits, after)
<1> DEFINE blanks == Repeat(Blank, before)
           back == Repeat(Blank, after)
           front == (blanks \o sign) \o prefix
           chars == Shape(before, sign, prefix, digits, after)
           s == Len(sign)
           t == Len(prefix)
           n == Len(digits)
<1>1. /\ blanks \in Seq(OwnCharacters) /\ Len(blanks) = before
      /\ back \in Seq(OwnCharacters) /\ Len(back) = after
  <2>1. before \in Int /\ after \in Int /\ Blank \in OwnCharacters  BY BlankIsOwn
  <2>2. /\ Repeat(Blank, before) \in Seq(OwnCharacters)
        /\ Len(Repeat(Blank, before)) = IF before > 0 THEN before ELSE 0
    BY <2>1, RepeatIs
  <2>3. /\ Repeat(Blank, after) \in Seq(OwnCharacters)
        /\ Len(Repeat(Blank, after)) = IF after > 0 THEN after ELSE 0
    BY <2>1, RepeatIs
  <2>4. (IF before > 0 THEN before ELSE 0) = before /\ (IF after > 0 THEN after ELSE 0) = after
    OBVIOUS
  <2> QED  BY <2>2, <2>3, <2>4, Zenon
<1>2. chars = (front \o digits) \o back  BY Zenon DEF Shape
<1> HIDE DEF blanks, back
<1>3. front \in Seq(OwnCharacters) /\ Len(front) = Len(blanks) + s + t
  <2>1. blanks \in Seq(OwnCharacters)  BY <1>1
  <2>2. Joined(blanks, sign, prefix, OwnCharacters)  BY <2>1, JoinedAre
  <2> QED  BY <2>2, Zenon DEF Joined
<1> HIDE DEF front, chars
<1>4. /\ SubSeq(chars, Len(front) + 1, Len(front) + n) = digits
      /\ Len(chars) = Len(front) + n + Len(back)
  <2>1. back \in Seq(OwnCharacters)  BY <1>1
  <2>2. /\ SubSeq((front \o digits) \o back, Len(front) + 1, Len(front) + Len(digits)) = digits
        /\ Len((front \o digits) \o back) = Len(front) + Len(digits) + Len(back)
    <3>1. Joined(front, digits, back, OwnCharacters)  BY <1>3, <2>1, JoinedAre
    <3> QED  BY <3>1, Zenon DEF Joined
  <2> QED  BY <1>2, <2>2
<1>5. s \in Nat /\ t \in Nat /\ n \in Nat  OBVIOUS
<1> HIDE DEF s, t, n
<1>6. /\ before \in 0 .. Len(chars) /\ after \in 0 .. Len(chars)
      /\ before + s + t + 1 = Len(front) + 1 /\ Len(chars) - after = Len(front) + n
      /\ Len(chars) = before + s + t + n + after
  BY <1>1, <1>3, <1>4, <1>5
<1>7. SubSeq(chars, before + s + t + 1, Len(chars) - after) = digits  BY <1>4, <1>6, Zenon
<1> QED  BY <1>6, <1>7, Zenon DEF Laid, chars, s, t, n

\* Whatever has this shape says the number that its digits spell.
LEMMA ShapeSays ==
    ASSUME NEW before \in Nat, NEW after \in Nat, NEW sign \in {<< >>, <<"-">>, <<"+">>},
           NEW base \in Bases, NEW prefix \in PrefixesOf(base), NEW num \in Seq(OwnCharacters), NEW q,
           NEW value \in Nat, Spelt(q, num, base, value, 0)
    PROVE  SaysNumber(Shape(before, sign, prefix, Reverse(num), after), base,
                      IF sign = <<"-">> THEN -value ELSE value)
<1> DEFINE digits == Reverse(num)
           chars == Shape(before, sign, prefix, digits, after)
<1>1. sign \in Seq(OwnCharacters) /\ prefix \in Seq(OwnCharacters) /\ digits \in Seq(OwnCharacters)
  <2>1. sign \in Seq(OwnCharacters)  BY SignsAre, Zenon
  <2>2. prefix \in Seq(OwnCharacters)  BY PrefixesAre
  <2>3. digits \in Seq(OwnCharacters)  BY ReverseIs
  <2> QED  BY <2>1, <2>2, <2>3
<1>2. /\ SubSeq(chars, before + Len(sign) + Len(prefix) + 1, Len(chars) - after) = digits
      /\ before \in 0 .. Len(chars) /\ after \in 0 .. Len(chars)
  <2>1. Laid(before, sign, prefix, digits, after)  BY <1>1, ShapeIs, Zenon
  <2> QED  BY <2>1, Zenon DEF Laid
<1>3. /\ Reads(digits, base) = value
      /\ \A i \in DOMAIN digits : \E v \in 0 .. base - 1 : IsDigit(digits[i], v)
  BY SpeltIsRead
<1>4. chars = Repeat(" ", before) \o sign \o prefix \o digits \o Repeat(" ", after)
  BY Zenon DEF Shape, Blank
<1> HIDE DEF chars, digits
<1>5. (IF sign = <<"-">> THEN -value ELSE value)
          = IF sign = <<"-">> THEN -Reads(digits, base) ELSE Reads(digits, base)
  BY <1>3, Zenon
<1>6. SaysNumber(chars, base, IF sign = <<"-">> THEN -value ELSE value)
  BY <1>2, <1>3, <1>4, <1>5, Zenon DEF SaysNumber
<1> QED  BY <1>6 DEF chars, digits

\* A blank for a sign is one more blank.
LEMMA BlankSign ==
    ASSUME NEW before \in Nat, NEW prefix, NEW digits, NEW after
    PROVE  Shape(before, <<Blank>>, prefix, digits, after) = Shape(before + 1, << >>, prefix, digits, after)
<1>1. Repeat(Blank, before) \o <<Blank>> = Repeat(Blank, before + 1) \o << >>
  <2> DEFINE x == Repeat(Blank, before)
             y == Repeat(Blank, before + 1)
  <2>1. before \in Int /\ before + 1 \in Int /\ Blank \in {Blank}  OBVIOUS
  <2>2. /\ x \in Seq({Blank}) /\ Len(x) = (IF before > 0 THEN before ELSE 0)
        /\ \A i \in 1 .. before : x[i] = Blank
    BY <2>1, RepeatIs
  <2>3. /\ y \in Seq({Blank}) /\ Len(y) = (IF before + 1 > 0 THEN before + 1 ELSE 0)
        /\ \A i \in 1 .. before + 1 : y[i] = Blank
    BY <2>1, RepeatIs
  <2> HIDE DEF x, y
  <2>4. Len(x) = before /\ Len(y) = before + 1  BY <2>2, <2>3
  <2>5. y \o << >> = y  BY <2>3, ConcatEmptySeq
  <2> DEFINE z == x \o <<Blank>>
  <2>6. z \in Seq({Blank}) /\ Len(z) = before + 1  BY <2>2, <2>4
  <2> HIDE DEF z
  <2>7. \A i \in 1 .. before + 1 : z[i] = Blank  BY <2>6
  <2>8. z = y  BY <2>3, <2>4, <2>6, <2>7, SeqEqual
  <2> QED  BY <2>5, <2>8 DEF x, y, z
<1> QED  BY <1>1, Zenon DEF Shape

\* Two sequences the other way round.
LEMMA ReverseBoth ==
    ASSUME NEW T, NEW x \in Seq(T), NEW y \in Seq(T)
    PROVE  Reverse(x \o y) = Reverse(y) \o Reverse(x)
<1> DEFINE m == Len(x)
           n == Len(y)
           z == x \o y
           a == Reverse(z)
           r == Reverse(y)
           t == Reverse(x)
           b == r \o t
<1>1. m \in Nat /\ n \in Nat  OBVIOUS
<1>2. /\ z \in Seq(T) /\ Len(z) = m + n
      /\ \A i \in 1 .. m + n : z[i] = IF i <= m THEN x[i] ELSE y[i - m]
  BY ConcatProperties
<1> HIDE DEF z
<1>3. a \in Seq(T) /\ Len(a) = m + n /\ \A i \in 1 .. m + n : a[i] = z[((m + n) - i) + 1]
  <2>1. z \in Seq(T)  BY <1>2
  <2>2. /\ a \in Seq(T) /\ Len(a) = Len(z)
        /\ \A i \in 1 .. Len(z) : a[i] = z[(Len(z) - i) + 1]
    BY <2>1, ReverseIs
  <2> HIDE DEF a
  <2> QED  BY <1>2, <2>2
<1>4. /\ r \in Seq(T) /\ Len(r) = n /\ \A i \in 1 .. n : r[i] = y[(n - i) + 1]
      /\ t \in Seq(T) /\ Len(t) = m /\ \A i \in 1 .. m : t[i] = x[(m - i) + 1]
  BY ReverseIs
<1> HIDE DEF r, t
<1>5. /\ b \in Seq(T) /\ Len(b) = n + m
      /\ \A i \in 1 .. n + m : b[i] = IF i <= n THEN r[i] ELSE t[i - n]
  BY <1>4, ConcatProperties
<1> HIDE DEF a, b, m, n
<1>6. \A i \in 1 .. m + n : a[i] = b[i]
  <2>1. ASSUME NEW i \in 1 .. m + n PROVE a[i] = b[i]
    <3> DEFINE j == ((m + n) - i) + 1
    <3>1. j \in 1 .. m + n /\ i \in 1 .. n + m  BY <1>1
    <3>2. a[i] = z[j] /\ z[j] = (IF j <= m THEN x[j] ELSE y[j - m])  BY <1>2, <1>3, <3>1
    <3>3. b[i] = IF i <= n THEN r[i] ELSE t[i - n]  BY <1>5, <3>1
    <3>4. CASE i <= n
      <4>1. ~(j <= m) /\ j - m = (n - i) + 1 /\ i \in 1 .. n  BY <1>1, <3>4
      <4> HIDE DEF j
      <4> QED  BY <1>4, <3>2, <3>3, <3>4, <4>1
    <3>5. CASE ~(i <= n)
      <4>1. j <= m /\ j = (m - (i - n)) + 1 /\ i - n \in 1 .. m  BY <1>1, <3>5
      <4> HIDE DEF j
      <4>2. t[i - n] = x[(m - (i - n)) + 1]  BY <1>4, <4>1
      <4> QED  BY <3>2, <3>3, <3>5, <4>1, <4>2
    <3> QED  BY <3>4, <3>5
  <2> QED  BY <2>1
<1>7. a = b
  <2>1. Len(a) = Len(b) /\ \A i \in 1 .. Len(a) : a[i] = b[i]  BY <1>1, <1>3, <1>5, <1>6
  <2> QED  BY <1>3, <1>5, <2>1, SeqEqual
<1> QED  BY <1>7 DEF a, b, z, r, t

\* One, two or no characters the other way round.
LEMMA ReverseFew ==
    /\ Reverse(<< >>) = << >>
    /\ \A c : Reverse(<<c>>) = <<c>>
    /\ \A c, e : Reverse(<<c, e>>) = <<e, c>>
<1>1. Reverse(<< >>) = << >>
  <2>1. << >> \in Seq({})  OBVIOUS
  <2>2. Reverse(<< >>) \in Seq({}) /\ Len(Reverse(<< >>)) = Len(<< >>)  BY <2>1, ReverseIs
  <2> QED  BY <2>2
<1>2. ASSUME NEW c PROVE Reverse(<<c>>) = <<c>>
  <2> DEFINE x == <<c>>
             y == Reverse(x)
  <2>1. x \in Seq({c}) /\ Len(x) = 1 /\ x[1] = c  OBVIOUS
  <2> HIDE DEF x
  <2>2. /\ y \in Seq({c}) /\ Len(y) = Len(x)
        /\ \A i \in 1 .. Len(x) : y[i] = x[(Len(x) - i) + 1]
    BY <2>1, ReverseIs
  <2> HIDE DEF y
  <2>3. \A i \in 1 .. Len(y) : y[i] = x[i]  BY <2>1, <2>2
  <2>4. y = x  BY <2>1, <2>2, <2>3, SeqEqual
  <2> QED  BY <2>4 DEF x, y
<1>3. ASSUME NEW c, NEW e PROVE Reverse(<<c, e>>) = <<e, c>>
  <2> DEFINE x == <<c, e>>
             y == Reverse(x)
             z == <<e, c>>
  <2>1. /\ x \in Seq({c, e}) /\ Len(x) = 2 /\ x[1] = c /\ x[2] = e
        /\ z \in Seq({c, e}) /\ Len(z) = 2 /\ z[1] = e /\ z[2] = c
    OBVIOUS
  <2> HIDE DEF x, z
  <2>2. /\ y \in Seq({c, e}) /\ Len(y) = Len(x)
        /\ \A i \in 1 .. Len(x) : y[i] = x[(Len(x) - i) + 1]
    BY <2>1, ReverseIs
  <2> HIDE DEF y
  <2>3. y[1] = x[2] /\ y[2] = x[1]
    <3>1. 1 \in 1 .. Len(x) /\ 2 \in 1 .. Len(x) /\ (Len(x) - 1) + 1 = 2 /\ (Len(x) - 2) + 1 = 1
      BY <2>1
    <3> QED  BY <2>2, <3>1
  <2>4. \A i \in 1 .. Len(y) : y[i] = z[i]  BY <2>1, <2>2, <2>3
  <2>5. y = z  BY <2>1, <2>2, <2>4, SeqEqual
  <2> QED  BY <2>5 DEF x, y, z
<1> QED  BY <1>1, <1>2, <1>3

\* Taking zeros away again.
LEMMA FewerZeros ==
    ASSUME NEW buf \in Seq(OwnCharacters), NEW padded, WithZeros(padded, buf), NEW cut \in Nat,
           Len(padded) - cut >= Len(buf)
    PROVE  /\ WithZeros(SubSeq(padded, 1, Len(padded) - cut), buf)
           /\ Len(SubSeq(padded, 1, Len(padded) - cut)) = Len(padded) - cut
<1> DEFINE m == Len(padded) - cut
           bare == SubSeq(padded, 1, m)
<1>1. /\ padded \in Seq(OwnCharacters) /\ Len(padded) \in Nat /\ Len(buf) \in Nat
      /\ m \in Nat /\ m <= Len(padded) /\ Len(buf) <= m
  <2>1. padded \in Seq(OwnCharacters)  BY Zenon DEF WithZeros
  <2>2. Len(padded) \in Nat /\ Len(buf) \in Nat  BY <2>1
  <2> QED  BY <2>1, <2>2
<1>2. \A i \in 1 .. Len(padded) : padded[i] = IF i <= Len(buf) THEN buf[i] ELSE "0"
  BY Zenon DEF WithZeros
<1> HIDE DEF m
<1>3. bare \in Seq(OwnCharacters) /\ Len(bare) = m /\ \A i \in 1 .. m : bare[i] = padded[i]
  BY <1>1
<1> HIDE DEF bare
<1>4. \A i \in 1 .. Len(bare) : bare[i] = IF i <= Len(buf) THEN buf[i] ELSE "0"
  <2>1. \A i \in 1 .. Len(bare) : i \in 1 .. m /\ i \in 1 .. Len(padded)  BY <1>1, <1>3
  <2> QED  BY <1>2, <1>3, <2>1
<1>5. Len(bare) >= Len(buf)  BY <1>1, <1>3
<1>6. WithZeros(bare, buf)  BY <1>3, <1>4, <1>5, Zenon DEF WithZeros
<1> QED  BY <1>3, <1>6 DEF bare, m

\* Two characters are one and one.
LEMMA TwoAre ==
    ASSUME NEW c, NEW e
    PROVE  <<c>> \o <<e>> = <<c, e>>
<1> DEFINE T == {c, e}
           x == <<c>>
           y == <<e>>
           z == <<c, e>>
<1>1. /\ x \in Seq(T) /\ Len(x) = 1 /\ x[1] = c /\ y \in Seq(T) /\ Len(y) = 1 /\ y[1] = e
      /\ z \in Seq(T) /\ Len(z) = 2 /\ z[1] = c /\ z[2] = e
  OBVIOUS
<1> HIDE DEF x, y, z, T
<1> DEFINE w == x \o y
<1>2. /\ w \in Seq(T) /\ Len(w) = Len(x) + Len(y)
      /\ \A i \in 1 .. Len(x) + Len(y) : w[i] = IF i <= Len(x) THEN x[i] ELSE y[i - Len(x)]
  BY <1>1, ConcatProperties
<1> HIDE DEF w
<1>3. Len(w) = 2 /\ w[1] = c /\ w[2] = e  BY <1>1, <1>2
<1>4. \A i \in 1 .. Len(w) : w[i] = z[i]  BY <1>1, <1>3
<1>5. w = z  BY <1>1, <1>2, <1>3, <1>4, SeqEqual
<1> QED  BY <1>5 DEF w, x, y, z

\* What the prefix makes of padded digits: digits, and the prefix behind them.
Prefixed(out, buf, base) ==
    \E num, prefix, back :
        /\ WithZeros(num, buf) /\ prefix \in PrefixesOf(base) /\ Reverse(back) = prefix
        /\ back \in Seq(OwnCharacters) /\ out = num \o back

\* It takes the place of zeros only, and the buffer has room for it.
LEMMA HashSays ==
    ASSUME NEW buf \in Seq(OwnCharacters), NEW padded, WithZeros(padded, buf),
           NEW base \in Bases \ {10}, NEW prec, NEW width, NEW flags,
           Len(padded) + 2 <= NTOA_BUFFER_SIZE,
           "PRECISION" \notin flags /\ Len(padded) \in {prec, width} \ {0} => Len(padded) >= Len(buf) + 2
    PROVE  Prefixed(Hash(padded, base, prec, width, flags), buf, base)
           /\ Len(Hash(padded, base, prec, width, flags)) <= Len(padded) + 2
<1> DEFINE fills == "PRECISION" \notin flags /\ Len(padded) \in {prec, width} \ {0}
           cut == IF ~fills THEN 0 ELSE IF Len(padded) > 1 /\ base = 16 THEN 2 ELSE 1
           big == IF "UPPERCASE" \in flags THEN "X" ELSE "x"
           letter == IF base = 16 THEN <<big>> ELSE IF base = 2 THEN <<"b">> ELSE << >>
           bare == SubSeq(padded, 1, Len(padded) - cut)
           out == Hash(padded, base, prec, width, flags)
           N == NTOA_BUFFER_SIZE
<1>1. Len(padded) \in Nat /\ Len(buf) \in Nat /\ Len(padded) >= Len(buf) /\ N \in Nat
  <2>1. padded \in Seq(OwnCharacters) /\ Len(padded) >= Len(buf)  BY Zenon DEF WithZeros
  <2>2. N \in Nat  BY PrintfAssumption
  <2> QED  BY <2>1, <2>2
<1>2. cut \in Nat /\ Len(padded) - cut >= Len(buf)
  <2>1. CASE fills
    <3>1. cut \in {1, 2} /\ Len(padded) >= Len(buf) + 2  BY <2>1
    <3> HIDE DEF cut
    <3> QED  BY <1>1, <3>1
  <2>2. CASE ~fills
    <3>1. cut = 0  BY <2>2
    <3> HIDE DEF cut
    <3> QED  BY <1>1, <3>1
  <2> QED  BY <2>1, <2>2
<1>3. out = Room(<<"0">>, Room(letter, bare))  BY Zenon DEF Hash
<1>4. Len(padded) + 2 <= N  OBVIOUS
<1> HIDE DEF cut, fills, N
<1>5. WithZeros(bare, buf) /\ Len(bare) = Len(padded) - cut  BY <1>2, FewerZeros
<1>6. bare \in Seq(OwnCharacters)  BY <1>5, Zenon DEF WithZeros
<1>7. big \in {"x", "X"} /\ big \in OwnCharacters
  <2>1. "x" \in OwnCharacters /\ "X" \in OwnCharacters  BY ZeroIsOwn, Zenon
  <2> QED  BY <2>1
<1>8. "0" \in OwnCharacters /\ "b" \in OwnCharacters  BY ZeroIsOwn, Zenon
<1> HIDE DEF bare, big, out
<1>9. Len(bare) + 2 <= N /\ Len(bare) <= Len(padded)  BY <1>1, <1>2, <1>4, <1>5
<1>10. CASE base = 8
  <2>1. Room(letter, bare) = bare
    <3>1. letter = << >>  BY <1>10
    <3>2. bare \o << >> = bare  BY <1>6, ConcatEmptySeq
    <3> QED  BY <3>1, <3>2 DEF Room
  <2>2. out = bare \o <<"0">>
    <3>1. Len(bare) < NTOA_BUFFER_SIZE  BY <1>1, <1>6, <1>9 DEF N
    <3> QED  BY <1>3, <2>1, <3>1, Zenon DEF Room
  <2> DEFINE num == bare \o <<"0">>
  <2>3. WithZeros(num, buf) /\ Len(num) = Len(bare) + 1
    <3>1. num = Append(bare, "0")  BY <1>6, <1>8, AppendIsConcat
    <3>2. /\ num \in Seq(OwnCharacters) /\ Len(num) = Len(bare) + 1
          /\ \A i \in 1 .. Len(bare) : num[i] = bare[i]
          /\ num[Len(bare) + 1] = "0"
      <4> HIDE DEF num
      <4> QED  BY <1>6, <1>8, <3>1, AppendProperties
    <3> HIDE DEF num
    <3>3. WithZeros(num, bare)
      <4>1. Len(bare) \in Nat  BY <1>6
      <4> QED  BY <3>2, <4>1 DEF WithZeros
    <3> QED  BY <1>5, <3>2, <3>3, MoreZeros
  <2>4. << >> \in PrefixesOf(base)  BY Zenon DEF PrefixesOf
  <2>5. Reverse(<< >>) = << >> /\ << >> \in Seq(OwnCharacters)  BY ReverseFew, SomeAre, Zenon
  <2> HIDE DEF num
  <2>6. num \o << >> = num
    <3>1. num \in Seq(OwnCharacters)  BY <2>3, Zenon DEF WithZeros
    <3> QED  BY <3>1, ConcatEmptySeq
  <2>7. out = num \o << >>  BY <2>2, <2>6 DEF num
  <2>8. Prefixed(out, buf, base)  BY <2>3, <2>4, <2>5, <2>7, Zenon DEF Prefixed
  <2>9. Len(out) <= Len(padded) + 2
    <3>1. Len(out) = Len(bare) + 1  BY <2>2, <2>3 DEF num
    <3> QED  BY <1>1, <1>6, <1>9, <3>1
  <2> QED  BY <2>8, <2>9 DEF out
<1>11. ASSUME NEW c \in OwnCharacters, letter = <<c>>, <<"0", c>> \in PrefixesOf(base)
       PROVE  Prefixed(out, buf, base) /\ Len(out) <= Len(padded) + 2
  <2>1. Room(letter, bare) = bare \o <<c>>
    <3>1. Len(bare) < NTOA_BUFFER_SIZE  BY <1>1, <1>6, <1>9 DEF N
    <3> HIDE DEF letter
    <3> QED  BY <1>11, <3>1, Zenon DEF Room
  <2> DEFINE one == bare \o <<c>>
  <2>2. one \in Seq(OwnCharacters) /\ Len(one) = Len(bare) + 1
    <3>1. <<c>> \in Seq(OwnCharacters) /\ Len(<<c>>) = 1  OBVIOUS
    <3>2. one \in Seq(OwnCharacters) /\ Len(one) = Len(bare) + Len(<<c>>)
      BY <1>6, <3>1, ConcatProperties
    <3> QED  BY <3>1, <3>2
  <2> HIDE DEF one
  <2>3. out = one \o <<"0">>
    <3>1. Len(one) < NTOA_BUFFER_SIZE  BY <1>1, <1>6, <1>9, <2>2 DEF N
    <3>2. out = Room(<<"0">>, one)  BY <1>3, <2>1, Zenon DEF one
    <3> QED  BY <3>1, <3>2, Zenon DEF Room
  <2>4. <<c>> \o <<"0">> = <<c, "0">>  BY TwoAre, Zenon
  <2>5. <<c>> \in Seq(OwnCharacters) /\ <<"0">> \in Seq(OwnCharacters)
        /\ <<c, "0">> \in Seq(OwnCharacters)
    BY <1>8, SomeAre, Zenon
  <2>6. out = bare \o <<c, "0">>
    <3>1. (bare \o <<c>>) \o <<"0">> = bare \o (<<c>> \o <<"0">>)
      BY <1>6, <2>5, ConcatAssociative
    <3> QED  BY <2>3, <2>4, <3>1, Zenon DEF one
  <2>7. Reverse(<<c, "0">>) = <<"0", c>>  BY ReverseFew, Zenon
  <2>8. Prefixed(out, buf, base)  BY <1>5, <1>11, <2>5, <2>6, <2>7, Zenon DEF Prefixed
  <2>9. Len(out) = Len(one) + 1
    <3>1. Len(<<"0">>) = 1  OBVIOUS
    <3>2. Len(one \o <<"0">>) = Len(one) + Len(<<"0">>)  BY <2>2, <2>5, ConcatProperties
    <3> QED  BY <2>3, <3>1, <3>2
  <2>10. Len(out) <= Len(padded) + 2  BY <1>1, <1>6, <1>9, <2>2, <2>9
  <2> QED  BY <2>8, <2>10
<1>12. CASE base = 2
  <2>1. letter = <<"b">>  BY <1>12
  <2>2. <<"0", "b">> \in PrefixesOf(base)  BY <1>12 DEF PrefixesOf
  <2> QED  BY <1>8, <1>11, <2>1, <2>2 DEF out
<1>13. CASE base = 16
  <2>1. letter = <<big>>  BY <1>13
  <2>2. <<"0", big>> \in PrefixesOf(base)  BY <1>7, <1>13 DEF PrefixesOf
  <2> QED  BY <1>7, <1>11, <2>1, <2>2 DEF out
<1>14. base \in {2, 8, 16}  BY DEF Bases
<1> QED  BY <1>10, <1>12, <1>13, <1>14 DEF out

\* A prefix asks for a width that the digits do not fill, or that has two zeros in it.
HashRoom(n, width, flags) ==
    IF "ZEROPAD" \in flags /\ "LEFT" \notin flags /\ width > n THEN width >= n + 2 ELSE width # n

\* What _ntoa_format is asked for: it all fits its buffer, and a prefix has room.
Asked(len, negative, base, prec, width, flags) ==
    /\ len + 2 <= NTOA_BUFFER_SIZE /\ prec + 2 <= NTOA_BUFFER_SIZE /\ width + 2 <= NTOA_BUFFER_SIZE
    /\ "PRECISION" \notin flags => prec = 0
    /\ "HASH" \in flags =>
           /\ base # 10 /\ ~negative /\ flags \cap {"PLUS", "SPACE"} = {}
           /\ "PRECISION" \notin flags => HashRoom(len, width, flags)

\* Three sequences are put together from either side.
Associates(x, y, z) == (x \o y) \o z = x \o (y \o z)

LEMMA TheyAssociate ==
    ASSUME NEW x \in Seq(OwnCharacters), NEW y \in Seq(OwnCharacters), NEW z \in Seq(OwnCharacters)
    PROVE  Associates(x, y, z)
  BY ConcatAssociative DEF Associates

\* The parts of a number put together.
Together(hashed, sign, before, prefix, num, after) ==
    /\ hashed \in Seq(OwnCharacters)
    /\ Repeat(Blank, before) \o Reverse(hashed \o sign) \o Repeat(Blank, after)
           = Shape(before, sign, prefix, Reverse(num), after)

LEMMA PutTogether ==
    ASSUME NEW before \in Int, NEW after \in Int, NEW sign, sign \in Seq(OwnCharacters), Reverse(sign) = sign,
           NEW num \in Seq(OwnCharacters), NEW back \in Seq(OwnCharacters),
           NEW prefix, Reverse(back) = prefix
    PROVE  Together(num \o back, sign, before, prefix, num, after)
<1> DEFINE A == Repeat(Blank, before)
           B == Repeat(Blank, after)
           R == Reverse(num)
           hashed == num \o back
<1>1. R \in Seq(OwnCharacters) /\ prefix \in Seq(OwnCharacters)  BY ReverseIs
<1>2. A \in Seq(OwnCharacters)
  <2>1. Blank \in OwnCharacters  BY BlankIsOwn
  <2> QED  BY <2>1, RepeatIs
<1>3. hashed \in Seq(OwnCharacters)  OBVIOUS
<1>4. Reverse(hashed) = prefix \o R  BY ReverseBoth
<1> HIDE DEF A, B, R, hashed
<1>5. Reverse(hashed \o sign) = sign \o (prefix \o R)
  <2>1. Reverse(hashed \o sign) = Reverse(sign) \o Reverse(hashed)  BY <1>3, ReverseBoth
  <2> QED  BY <1>4, <2>1
<1>6. A \o (sign \o (prefix \o R)) = ((A \o sign) \o prefix) \o R
  <2>1. A \o sign \in Seq(OwnCharacters) /\ prefix \o R \in Seq(OwnCharacters)
    <3> HIDE DEF OwnCharacters
    <3> QED  BY <1>1, <1>2, ConcatProperties
  <2>2. Associates(A, sign, prefix \o R) /\ Associates(A \o sign, prefix, R)
    BY <1>1, <1>2, <2>1, TheyAssociate, Zenon
  <2> QED  BY <2>2, Zenon DEF Associates
<1>7. A \o Reverse(hashed \o sign) \o B = Shape(before, sign, prefix, R, after)
  <2>1. (A \o (sign \o (prefix \o R))) \o B = (((A \o sign) \o prefix) \o R) \o B  BY <1>6, Zenon
  <2> QED  BY <1>5, <2>1, Zenon DEF Shape, A, B
<1> QED  BY <1>3, <1>7, Zenon DEF Together, A, B, R, hashed

\* The sign is one of four, and its own reverse.
LEMMA SignOneOf ==
    ASSUME NEW negative \in BOOLEAN, NEW flags
    PROVE  /\ Sign(negative, flags) \in {<< >>, <<"-">>, <<"+">>, <<" ">>}
           /\ Sign(negative, flags) = <<"-">> <=> negative
           /\ Reverse(Sign(negative, flags)) = Sign(negative, flags)
           /\ Len(Sign(negative, flags))
                  = IF negative \/ flags \cap {"PLUS", "SPACE"} # {} THEN 1 ELSE 0
<1>1. Reverse(<<"-">>) = <<"-">> /\ Reverse(<<"+">>) = <<"+">> /\ Reverse(<<" ">>) = <<" ">>
      /\ Reverse(<< >>) = << >>
  BY ReverseFew, Zenon
<1>2. \A c : Len(<<c>>) = 1  OBVIOUS
<1>3. \A c, e : <<c>> = <<e>> => c = e  OBVIOUS
<1>4. \A c : <<c>> # << >>  OBVIOUS
<1>5. Len(<< >>) = 0  OBVIOUS
<1>6. "-" # "+" /\ "-" # " "  BY Zenon
<1>7. <<"+">> # <<"-">> /\ <<" ">> # <<"-">> /\ << >> # <<"-">>  BY <1>3, <1>4, <1>6, Zenon
<1>8. CASE negative
  <2>1. Sign(negative, flags) = <<"-">>  BY <1>8, Zenon DEF Sign
  <2> QED  BY <1>1, <1>2, <1>8, <2>1, Zenon
<1>9. CASE ~negative /\ "PLUS" \in flags
  <2>1. Sign(negative, flags) = <<"+">>  BY <1>9, Zenon DEF Sign
  <2>2. flags \cap {"PLUS", "SPACE"} # {}  BY <1>9, Zenon
  <2> QED  BY <1>1, <1>2, <1>7, <1>9, <2>1, <2>2, Zenon
<1>10. CASE ~negative /\ "PLUS" \notin flags /\ "SPACE" \in flags
  <2>1. Sign(negative, flags) = <<" ">>  BY <1>10, Zenon DEF Sign
  <2>2. flags \cap {"PLUS", "SPACE"} # {}  BY <1>10, Zenon
  <2> QED  BY <1>1, <1>2, <1>7, <1>10, <2>1, <2>2, Zenon
<1>11. CASE ~negative /\ "PLUS" \notin flags /\ "SPACE" \notin flags
  <2>1. Sign(negative, flags) = << >>  BY <1>11, Zenon DEF Sign
  <2>2. flags \cap {"PLUS", "SPACE"} = {}  BY <1>11, Zenon
  <2>3. << >> \in {<< >>, <<"-">>, <<"+">>, <<" ">>}  BY Zenon
  <2>4. Reverse(<< >>) = << >>  BY <1>1, Zenon
  <2>5. (<< >> = <<"-">>) <=> negative  BY <1>7, <1>11, Zenon
  <2>6. (IF negative \/ flags \cap {"PLUS", "SPACE"} # {} THEN 1 ELSE 0) = 0  BY <1>11, <2>2, Zenon
  <2> QED  BY <1>5, <2>1, <2>3, <2>4, <2>5, <2>6, Zenon
<1> QED  BY <1>8, <1>9, <1>10, <1>11

\* How wide _ntoa_format makes digits: as wide as asked, or as the digits and the sign.
WideAsAsked(out, len, negative, width, flags) ==
    LET all == IF negative \/ flags \cap {"PLUS", "SPACE"} # {} THEN len + 1 ELSE len
    IN  Len(out) = IF width > all THEN width ELSE all

\* What _ntoa_format says: the number, and in no more width than asked.
FormatSays(out, len, negative, base, width, flags, value) ==
    /\ SaysNumber(out, base, IF negative THEN -value ELSE value)
    /\ flags \cap {"HASH", "PRECISION"} = {} => WideAsAsked(out, len, negative, width, flags)

\* The width with the sign left out of it.
LEMMA WidthWithin ==
    ASSUME NEW width \in Nat, NEW signed \in BOOLEAN, NEW flags
    PROVE  /\ SignWithin(width, signed, flags) \in Nat /\ SignWithin(width, signed, flags) <= width
           /\ SignWithin(width, signed, flags)
                  = IF width > 0 /\ "LEFT" \notin flags /\ "ZEROPAD" \in flags /\ signed
                    THEN width - 1 ELSE width
  BY DEF SignWithin

\* How long padded digits are, where the buffer is big enough.
LEMMA PaddedFits ==
    ASSUME NEW len \in Nat, NEW prec \in Nat, NEW width \in Nat, NEW flags,
           len + 2 <= NTOA_BUFFER_SIZE, prec + 2 <= NTOA_BUFFER_SIZE, width + 2 <= NTOA_BUFFER_SIZE
    PROVE  LET m == PaddedLength(len, prec, width, flags)
           IN  /\ m \in Nat /\ m + 2 <= NTOA_BUFFER_SIZE /\ len <= m
               /\ prec = 0 => m = IF "LEFT" \notin flags /\ "ZEROPAD" \in flags /\ width > len
                                  THEN width ELSE len
<1> DEFINE N == NTOA_BUFFER_SIZE
           m == PaddedLength(len, prec, width, flags)
           least(n) == IF n < N THEN n ELSE N
           precise == IF prec > len THEN prec ELSE len
<1>1. N \in Nat  BY PrintfAssumption
<1>2. len + 2 <= N /\ prec + 2 <= N /\ width + 2 <= N  OBVIOUS
<1>3. m = IF "LEFT" \in flags THEN len
          ELSE IF "ZEROPAD" \in flags /\ least(width) > (IF least(prec) > len THEN least(prec) ELSE len)
          THEN least(width) ELSE (IF least(prec) > len THEN least(prec) ELSE len)
  BY Zenon DEF PaddedLength
<1> HIDE DEF N, m
<1>4. least(width) = width /\ least(prec) = prec  BY <1>1, <1>2
<1>5. m = IF "LEFT" \in flags THEN len
          ELSE IF "ZEROPAD" \in flags /\ width > precise THEN width ELSE precise
  BY <1>3, <1>4, Zenon
<1>6. precise \in Nat /\ precise + 2 <= N /\ len <= precise /\ (prec = 0 => precise = len)
  BY <1>1, <1>2
<1> HIDE DEF precise
<1>7. /\ m \in Nat /\ m + 2 <= N /\ len <= m
      /\ prec = 0 => m = IF "LEFT" \notin flags /\ "ZEROPAD" \in flags /\ width > len
                         THEN width ELSE len
  <2>1. CASE "LEFT" \in flags
    <3>1. m = len  BY <1>5, <2>1
    <3> QED  BY <1>1, <1>2, <2>1, <3>1
  <2>2. CASE "LEFT" \notin flags /\ "ZEROPAD" \in flags /\ width > precise
    <3>1. m = width  BY <1>5, <2>2
    <3> QED  BY <1>1, <1>2, <1>6, <2>2, <3>1
  <2>3. CASE "LEFT" \notin flags /\ ~("ZEROPAD" \in flags /\ width > precise)
    <3>1. m = precise  BY <1>5, <2>3
    <3> QED  BY <1>1, <1>2, <1>6, <2>3, <3>1
  <2> QED  BY <2>1, <2>2, <2>3
<1> QED  BY <1>7 DEF m, N

\* The prefix only takes the place of zeros.
LEMMA PrefixFits ==
    ASSUME NEW len \in Nat, NEW width \in Nat, NEW flags, HashRoom(len, width, flags), NEW m \in Nat,
           m = IF "LEFT" \notin flags /\ "ZEROPAD" \in flags /\ width > len THEN width ELSE len,
           m \in {0, width} \ {0}
    PROVE  m >= len + 2
<1>1. m = width  OBVIOUS
<1>2. CASE "LEFT" \notin flags /\ "ZEROPAD" \in flags /\ width > len
  <2>1. width >= len + 2  BY <1>2 DEF HashRoom
  <2> QED  BY <1>1, <2>1
<1>3. CASE ~("LEFT" \notin flags /\ "ZEROPAD" \in flags /\ width > len)
  <2>1. m = len  BY <1>3
  <2>2. width # len  BY <1>3, Zenon DEF HashRoom
  <2> QED  BY <1>1, <2>1, <2>2
<1> QED  BY <1>2, <1>3

\* _ntoa_format says the number whose digits it is given.
LEMMA NtoaFormatSays ==
    ASSUME NEW buf \in Seq(OwnCharacters), NEW negative \in BOOLEAN, NEW base \in Bases, NEW prec \in Nat,
           NEW width \in Nat, NEW flags, NEW q, NEW value \in Nat, Spelt(q, buf, base, value, 0),
           Asked(Len(buf), negative, base, prec, width, flags)
    PROVE  FormatSays(NtoaFormat(buf, negative, base, prec, width, flags), Len(buf), negative, base, width,
                      flags, value)
<1> DEFINE signed == negative \/ flags \cap {"PLUS", "SPACE"} # {}
           w == SignWithin(width, signed, flags)
           padded == Zeros(buf, prec, w, flags)
           hashed == IF "HASH" \in flags THEN Hash(padded, base, prec, w, flags) ELSE padded
           sign == Sign(negative, flags)
           whole == Room(sign, hashed)
           out == OutRev(whole, w, flags)
           N == NTOA_BUFFER_SIZE
           len == Len(buf)
           m == Len(padded)
<1>1. signed \in BOOLEAN /\ len \in Nat /\ N \in Nat
  <2>1. N \in Nat  BY PrintfAssumption
  <2> QED  BY <2>1
<1>2. NtoaFormat(buf, negative, base, prec, width, flags) = out  BY Zenon DEF NtoaFormat
<1>3. /\ Len(buf) + 2 <= N /\ prec + 2 <= N /\ width + 2 <= N
      /\ "PRECISION" \notin flags => prec = 0
      /\ "HASH" \in flags => /\ base # 10 /\ ~negative /\ flags \cap {"PLUS", "SPACE"} = {}
                             /\ "PRECISION" \notin flags => HashRoom(Len(buf), width, flags)
  BY Zenon DEF Asked
<1> HIDE DEF signed
<1>4. w \in Nat /\ w <= width
      /\ w = IF width > 0 /\ "LEFT" \notin flags /\ "ZEROPAD" \in flags /\ signed THEN width - 1 ELSE width
  BY <1>1, WidthWithin
<1> HIDE DEF w
<1>5. WithZeros(padded, buf) /\ m = PaddedLength(len, prec, w, flags)
  <2>1. w \in Nat  BY <1>4
  <2> QED  BY <2>1, ZerosAre
<1> HIDE DEF padded, N
<1>6. /\ m \in Nat /\ m + 2 <= N /\ len <= m
      /\ prec = 0 => m = IF "LEFT" \notin flags /\ "ZEROPAD" \in flags /\ w > len THEN w ELSE len
  <2>1. /\ w \in Nat /\ len + 2 <= NTOA_BUFFER_SIZE /\ prec + 2 <= NTOA_BUFFER_SIZE
        /\ w + 2 <= NTOA_BUFFER_SIZE
    BY <1>1, <1>3, <1>4 DEF N
  <2> HIDE DEF m, len
  <2>2. LET n == PaddedLength(len, prec, w, flags)
        IN  /\ n \in Nat /\ n + 2 <= NTOA_BUFFER_SIZE /\ len <= n
            /\ prec = 0 => n = IF "LEFT" \notin flags /\ "ZEROPAD" \in flags /\ w > len THEN w ELSE len
    BY <1>1, <2>1, PaddedFits
  <2> QED  BY <1>5, <2>2, Zenon DEF N
<1>7. Prefixed(hashed, buf, base) /\ Len(hashed) <= m + 2
      /\ ("HASH" \notin flags => Len(hashed) = m)
  <2>1. CASE "HASH" \in flags
    <3>1. base \in Bases \ {10}  BY <1>3, <2>1
    <3>2. ~signed  BY <1>3, <2>1, Zenon DEF signed
    <3>3. w = width  BY <1>4, <3>2
    <3>4. "PRECISION" \notin flags /\ m \in {prec, w} \ {0} => m >= len + 2
      <4> SUFFICES ASSUME "PRECISION" \notin flags, m \in {prec, w} \ {0} PROVE m >= len + 2
        OBVIOUS
      <4>1. prec = 0 /\ HashRoom(len, w, flags)  BY <1>3, <2>1, <3>3, Zenon
      <4>2. m = IF "LEFT" \notin flags /\ "ZEROPAD" \in flags /\ w > len THEN w ELSE len
        BY <1>6, <4>1
      <4>3. m \in {0, w} \ {0}  BY <4>1
      <4> HIDE DEF m, len
      <4> QED  BY <1>1, <1>4, <1>6, <4>1, <4>2, <4>3, PrefixFits
    <3>5. Len(padded) + 2 <= NTOA_BUFFER_SIZE  BY <1>6 DEF N
    <3>6. Prefixed(Hash(padded, base, prec, w, flags), buf, base)
          /\ Len(Hash(padded, base, prec, w, flags)) <= Len(padded) + 2
      BY <1>5, <3>1, <3>4, <3>5, HashSays
    <3>7. hashed = Hash(padded, base, prec, w, flags)  BY <2>1, Zenon
    <3> HIDE DEF hashed
    <3> QED  BY <2>1, <3>6, <3>7, Zenon
  <2>2. CASE "HASH" \notin flags
    <3>1. hashed = padded  BY <2>2, Zenon
    <3>2. padded \in Seq(OwnCharacters)  BY <1>5, Zenon DEF WithZeros
    <3>3. padded = padded \o << >>  BY <3>2, ConcatEmptySeq
    <3>4. << >> \in PrefixesOf(base)  BY Zenon DEF PrefixesOf
    <3>5. Reverse(<< >>) = << >> /\ << >> \in Seq(OwnCharacters)  BY ReverseFew, SomeAre, Zenon
    <3>6. Prefixed(padded, buf, base)  BY <1>5, <3>3, <3>4, <3>5, Zenon DEF Prefixed
    <3>7. m <= m + 2  BY <1>6
    <3> HIDE DEF hashed
    <3> QED  BY <2>2, <3>1, <3>6, <3>7, Zenon
  <2> QED  BY <2>1, <2>2
<1> HIDE DEF hashed
<1>8. PICK num, prefix, back :
          /\ WithZeros(num, buf) /\ prefix \in PrefixesOf(base) /\ Reverse(back) = prefix
          /\ back \in Seq(OwnCharacters) /\ hashed = num \o back
  BY <1>7, Zenon DEF Prefixed
<1>9. num \in Seq(OwnCharacters) /\ hashed \in Seq(OwnCharacters)
  <2>1. num \in Seq(OwnCharacters)  BY <1>8, Zenon DEF WithZeros
  <2>2. num \o back \in Seq(OwnCharacters)
    <3>1. back \in Seq(OwnCharacters)  BY <1>8
    <3> QED  BY <2>1, <3>1, ConcatProperties
  <2> QED  BY <1>8, <2>1, <2>2
<1>10. /\ sign \in {<< >>, <<"-">>, <<"+">>, <<" ">>} /\ (sign = <<"-">> <=> negative)
       /\ Reverse(sign) = sign /\ Len(sign) = IF signed THEN 1 ELSE 0
  BY SignOneOf DEF signed
<1>11. sign \in Seq(OwnCharacters)  BY SignIs
<1> HIDE DEF sign
<1>12. whole = hashed \o sign /\ whole \in Seq(OwnCharacters) /\ Len(whole) = Len(hashed) + Len(sign)
  <2>1. Len(hashed) \in Nat  BY <1>9
  <2>2. hashed \o sign \in Seq(OwnCharacters) /\ Len(hashed \o sign) = Len(hashed) + Len(sign)
    BY <1>9, <1>11, ConcatProperties
  <2>3. CASE "HASH" \notin flags
    <3>1. Len(hashed) < NTOA_BUFFER_SIZE  BY <1>1, <1>6, <1>7, <2>1, <2>3 DEF N
    <3>2. whole = hashed \o sign  BY <3>1, Zenon DEF Room
    <3> QED  BY <2>2, <3>2
  <2>4. CASE "HASH" \in flags
    <3>1. Len(sign) = 0  BY <1>3, <1>10, <2>4, Zenon DEF signed
    <3>2. sign = << >>  BY <1>11, <3>1
    <3>3. hashed \o << >> = hashed  BY <1>9, ConcatEmptySeq
    <3>4. whole = IF Len(hashed) < NTOA_BUFFER_SIZE THEN hashed \o sign ELSE hashed
      BY Zenon DEF Room
    <3> HIDE DEF whole
    <3>5. whole = hashed \o sign  BY <3>2, <3>3, <3>4, Zenon
    <3> QED  BY <2>2, <3>5
  <2> QED  BY <2>3, <2>4
<1> HIDE DEF whole
<1> DEFINE before == BlanksBefore(Len(whole), w, flags)
           after == BlanksAfter(Len(whole), w, flags)
<1>13. /\ before \in Nat /\ after \in Nat
       /\ out = Repeat(" ", before) \o Reverse(whole) \o Repeat(" ", after)
       /\ Len(out) = before + Len(whole) + after
  <2>1. w \in Int  BY <1>4
  <2> QED  BY <1>12, <2>1, OutRevIs
<1> HIDE DEF out, before, after
<1>14. before \in Nat /\ after \in Nat  BY <1>13, Zenon
<1>15. out = Shape(before, sign, prefix, Reverse(num), after)
  <2>1. before \in Int /\ after \in Int  BY <1>14
  <2>2. Together(num \o back, sign, before, prefix, num, after)
    BY <1>8, <1>9, <1>10, <1>11, <2>1, PutTogether
  <2>3. Repeat(Blank, before) \o Reverse((num \o back) \o sign) \o Repeat(Blank, after)
            = Shape(before, sign, prefix, Reverse(num), after)
    BY <2>2, Zenon DEF Together
  <2> QED  BY <1>8, <1>12, <1>13, <2>3, Zenon DEF Blank
<1>16. PICK p1 : Spelt(p1, num, base, value, 0)  BY <1>8, ZerosSpell
<1>17. SaysNumber(out, base, IF negative THEN -value ELSE value)
  <2>1. CASE sign = <<" ">>
    <3>1. out = Shape(before + 1, << >>, prefix, Reverse(num), after)
      <4>1. Shape(before, <<Blank>>, prefix, Reverse(num), after)
                = Shape(before + 1, << >>, prefix, Reverse(num), after)
        BY <1>14, BlankSign
      <4> QED  BY <1>15, <2>1, <4>1, Zenon DEF Blank
    <3>2. before + 1 \in Nat /\ after \in Nat  BY <1>14
    <3>3. << >> \in {<< >>, <<"-">>, <<"+">>}  BY Zenon
    <3>4. SaysNumber(Shape(before + 1, << >>, prefix, Reverse(num), after), base,
                     IF << >> = <<"-">> THEN -value ELSE value)
      BY <1>8, <1>9, <1>16, <3>2, <3>3, ShapeSays, Zenon
    <3>5. << >> # <<"-">> /\ ~negative
      <4>1. \A c : <<c>> # << >>  OBVIOUS
      <4>2. \A c, e : <<c>> = <<e>> => c = e  OBVIOUS
      <4>3. " " # "-"  BY Zenon
      <4> QED  BY <1>10, <2>1, <4>1, <4>2, <4>3, Zenon
    <3> QED  BY <3>1, <3>4, <3>5, Zenon
  <2>2. CASE sign # <<" ">>
    <3>1. sign \in {<< >>, <<"-">>, <<"+">>}  BY <1>10, <2>2, Zenon
    <3>2. before \in Nat /\ after \in Nat  BY <1>14
    <3>3. SaysNumber(Shape(before, sign, prefix, Reverse(num), after), base,
                     IF sign = <<"-">> THEN -value ELSE value)
      BY <1>8, <1>9, <1>16, <3>1, <3>2, ShapeSays, Zenon
    <3> QED  BY <1>10, <1>15, <3>3, Zenon
  <2> QED  BY <2>1, <2>2, Zenon
<1>18. ASSUME flags \cap {"HASH", "PRECISION"} = {}
       PROVE  WideAsAsked(out, len, negative, width, flags)
  <2> DEFINE s == IF signed THEN 1 ELSE 0
             all == len + s
             k == Len(whole)
  <2>1. "HASH" \notin flags /\ "PRECISION" \notin flags  BY <1>18, Zenon
  <2>2. m = IF "LEFT" \notin flags /\ "ZEROPAD" \in flags /\ w > len THEN w ELSE len
    BY <1>3, <1>6, <2>1
  <2>3. k = m + s  BY <1>7, <1>10, <1>12, <2>1, Zenon
  <2>4. Len(out) = before + k + after  BY <1>13, Zenon
  <2>5. before = IF flags \cap {"LEFT", "ZEROPAD"} = {} /\ w > k THEN w - k ELSE 0
    BY Zenon DEF before, BlanksBefore
  <2>6. after = IF "LEFT" \in flags /\ w > k THEN w - k ELSE 0  BY Zenon DEF after, BlanksAfter
  <2>7. s \in 0 .. 1 /\ (signed <=> s = 1)  OBVIOUS
  <2> HIDE DEF k, m, len, s
  <2>8. Len(out) = IF width > all THEN width ELSE all
    <3>1. CASE "LEFT" \in flags
      <4>1. m = len /\ w = width /\ before = 0 /\ after = IF w > k THEN w - k ELSE 0
        BY <1>4, <2>2, <2>5, <2>6, <3>1
      <4> QED  BY <1>1, <1>4, <2>3, <2>4, <2>7, <4>1
    <3>2. CASE "LEFT" \notin flags /\ "ZEROPAD" \in flags
      <4>1. before = 0 /\ after = 0 /\ m = (IF w > len THEN w ELSE len)
        BY <2>2, <2>5, <2>6, <3>2
      <4>2. w = IF width > 0 /\ s = 1 THEN width - 1 ELSE width  BY <1>4, <2>7, <3>2
      <4> QED  BY <1>1, <1>4, <2>3, <2>4, <2>7, <4>1, <4>2
    <3>3. CASE "LEFT" \notin flags /\ "ZEROPAD" \notin flags
      <4>1. flags \cap {"LEFT", "ZEROPAD"} = {}  BY <3>3
      <4>2. m = len /\ w = width /\ after = 0 /\ before = IF w > k THEN w - k ELSE 0
        BY <1>4, <2>2, <2>5, <2>6, <3>3, <4>1
      <4> QED  BY <1>1, <1>4, <2>3, <2>4, <2>7, <4>2
    <3> QED  BY <3>1, <3>2, <3>3
  <2>9. all = IF negative \/ flags \cap {"PLUS", "SPACE"} # {} THEN len + 1 ELSE len
    <3>1. CASE signed
      <4>1. all = len + 1  BY <2>7, <3>1
      <4> QED  BY <3>1, <4>1, Zenon DEF signed
    <3>2. CASE ~signed
      <4>1. all = len  BY <1>1, <2>7, <3>2
      <4> QED  BY <3>2, <4>1, Zenon DEF signed
    <3> QED  BY <3>1, <3>2
  <2> HIDE DEF all
  <2> QED  BY <2>8, <2>9, Zenon DEF WideAsAsked
<1> QED  BY <1>2, <1>17, <1>18, Zenon DEF FormatSays

\* How many digits _ntoa_long makes, and with which flags it goes on.
LengthOf(value, base, flags) ==
    IF "PRECISION" \in flags /\ value = 0 THEN 0 ELSE Len(Digits(value, base, flags))
FlagsFor(value, flags) == IF value = 0 THEN flags \ {"HASH"} ELSE flags

\* _ntoa_long says its value.
LEMMA NtoaSays ==
    ASSUME NEW value \in Nat, NEW negative \in BOOLEAN, NEW base \in Bases, NEW prec \in Nat,
           NEW width \in Nat, NEW flags,
           Asked(LengthOf(value, base, flags), negative, base, prec, width, FlagsFor(value, flags))
    PROVE  FormatSays(Ntoa(value, negative, base, prec, width, flags), LengthOf(value, base, flags),
                      negative, base, width, FlagsFor(value, flags), value)
<1> DEFINE buf == IF "PRECISION" \in flags /\ value = 0 THEN << >> ELSE Digits(value, base, flags)
           f == FlagsFor(value, flags)
<1>1. Ntoa(value, negative, base, prec, width, flags) = NtoaFormat(buf, negative, base, prec, width, f)
  BY Zenon DEF Ntoa, FlagsFor
<1>2. /\ buf \in Seq(OwnCharacters) /\ Len(buf) = LengthOf(value, base, flags)
      /\ \E q : Spelt(q, buf, base, value, 0)
  <2>1. CASE "PRECISION" \in flags /\ value = 0
    <3>1. buf = << >> /\ LengthOf(value, base, flags) = 0  BY <2>1 DEF LengthOf
    <3>2. Len(<< >>) = 0 /\ << >> \in Seq(OwnCharacters)  OBVIOUS
    <3>3. Spelt([i \in 0 .. 0 |-> 0], << >>, base, 0, 0)  BY DEF Spelt
    <3> HIDE DEF buf
    <3> QED  BY <2>1, <3>1, <3>2, <3>3, Zenon
  <2>2. CASE ~("PRECISION" \in flags /\ value = 0)
    <3>1. buf = Digits(value, base, flags) /\ LengthOf(value, base, flags) = Len(Digits(value, base, flags))
      BY <2>2, Zenon DEF LengthOf
    <3>2. Digits(value, base, flags) \in Seq(OwnCharacters)  BY DigitsAre
    <3>3. Len(Digits(value, base, flags)) < NTOA_BUFFER_SIZE
      <4>1. Len(Digits(value, base, flags)) + 2 <= NTOA_BUFFER_SIZE  BY <3>1, Zenon DEF Asked
      <4>2. Len(Digits(value, base, flags)) \in Nat  BY <3>2
      <4>3. NTOA_BUFFER_SIZE \in Nat  BY PrintfAssumption
      <4> QED  BY <4>1, <4>2, <4>3
    <3> HIDE DEF buf
    <3>4. \E q : Spelt(q, Digits(value, base, flags), base, value, 0)  BY <3>3, DigitsSpell
    <3> QED  BY <3>1, <3>2, <3>4, Zenon
  <2> QED  BY <2>1, <2>2
<1> HIDE DEF buf, f
<1>3. PICK q : Spelt(q, buf, base, value, 0)  BY <1>2
<1>4. Asked(Len(buf), negative, base, prec, width, f)  BY <1>2, Zenon DEF f
<1>5. FormatSays(NtoaFormat(buf, negative, base, prec, width, f), Len(buf), negative, base, width, f, value)
  BY <1>2, <1>3, <1>4, NtoaFormatSays
<1> QED  BY <1>1, <1>2, <1>5, Zenon DEF f

\* What an integer directive is about: a value with a sign.
ValueIn(d) == IF NumberOf(d) > 0 THEN NumberOf(d) ELSE -NumberOf(d)
NegativeIn(d) == d.spec = "d" /\ NumberOf(d) < 0

LEMMA ValueInIs ==
    ASSUME NEW d, d.arg \in Int, d.length \in Lengths
    PROVE  /\ NumberOf(d) \in Int /\ (d.spec # "d" => NumberOf(d) \in Nat)
           /\ ValueIn(d) \in Nat /\ NegativeIn(d) \in BOOLEAN
           /\ (IF NegativeIn(d) THEN -ValueIn(d) ELSE ValueIn(d)) = NumberOf(d)
<1> DEFINE bits == Bits[d.length]
           n == NumberOf(d)
<1>1. bits \in Nat \ {0}  BY LengthIs
<1> HIDE DEF bits
<1>2. /\ Values(bits) \in Nat \ {0} /\ Unsigned(d.arg, bits) \in 0 .. Values(bits) - 1
      /\ Signed(d.arg, bits) \in Int
  BY <1>1, ArgumentIs
<1>3. n = IF d.spec = "d" THEN Signed(d.arg, bits) ELSE Unsigned(d.arg, bits)
  BY Zenon DEF NumberOf, bits
<1> HIDE DEF n
<1>4. n \in Int /\ (d.spec # "d" => n \in Nat)  BY <1>2, <1>3
<1>5. ValueIn(d) = (IF n > 0 THEN n ELSE -n) /\ (NegativeIn(d) <=> d.spec = "d" /\ n < 0)
      /\ NegativeIn(d) \in BOOLEAN
  BY Zenon DEF ValueIn, NegativeIn, n
<1>6. (IF n > 0 THEN n ELSE -n) \in Nat
      /\ (IF d.spec = "d" /\ n < 0 THEN -(IF n > 0 THEN n ELSE -n) ELSE (IF n > 0 THEN n ELSE -n)) = n
  BY <1>4
<1> QED  BY <1>4, <1>5, <1>6, Zenon DEF n

\* An integer directive says its argument, if it all fits.
LEMMA IntegerSays ==
    ASSUME NEW d, d.arg \in Int, d.length \in Lengths, d.precision \in Nat, d.width \in Nat,
           Asked(LengthOf(ValueIn(d), BaseOf(d.spec), FlagsOf(d)), NegativeIn(d), BaseOf(d.spec),
                 d.precision, d.width, FlagsFor(ValueIn(d), FlagsOf(d)))
    PROVE  FormatSays(Integer(d), LengthOf(ValueIn(d), BaseOf(d.spec), FlagsOf(d)), NegativeIn(d),
                      BaseOf(d.spec), d.width, FlagsFor(ValueIn(d), FlagsOf(d)), ValueIn(d))
<1> DEFINE value == ValueIn(d)
           negative == NegativeIn(d)
           base == BaseOf(d.spec)
           flags == FlagsOf(d)
           prec == d.precision
           width == d.width
           bits == Bits[d.length]
           n == NumberOf(d)
<1>1. n \in Int /\ (d.spec # "d" => n \in Nat) /\ value \in Nat /\ negative \in BOOLEAN
  BY ValueInIs, Zenon
<1>2. base \in Bases  BY BaseIs
<1>3. Integer(d) = Ntoa(value, negative, base, prec, width, flags)
  <2>1. CASE d.spec = "d"
    <3>1. base = 10  BY <2>1 DEF BaseOf
    <3>2. n = Signed(d.arg, bits)  BY <2>1, Zenon DEF NumberOf
    <3>3. Integer(d) = Ntoa(IF Signed(d.arg, bits) > 0 THEN Signed(d.arg, bits) ELSE -Signed(d.arg, bits),
                            Signed(d.arg, bits) < 0, 10, prec, width, flags)
      BY <2>1, Zenon DEF Integer
    <3>4. value = IF n > 0 THEN n ELSE -n  BY Zenon DEF ValueIn
    <3>5. negative <=> n < 0  BY <2>1, Zenon DEF NegativeIn
    <3> HIDE DEF n
    <3>6. (n < 0) \in BOOLEAN  BY <1>1
    <3>7. negative = (n < 0)
      <4>1. \A x, y \in BOOLEAN : (x <=> y) => x = y  OBVIOUS
      <4> HIDE DEF negative
      <4> QED  BY <1>1, <3>5, <3>6, <4>1, Zenon
    <3> HIDE DEF base, value, negative, bits
    <3> QED  BY <3>1, <3>2, <3>3, <3>4, <3>7, Zenon
  <2>2. CASE d.spec # "d"
    <3>1. Integer(d) = Ntoa(Unsigned(d.arg, bits), FALSE, base, prec, width, flags)
      BY <2>2, Zenon DEF Integer
    <3>2. n = Unsigned(d.arg, bits)  BY <2>2, Zenon DEF NumberOf
    <3>3. value = IF n > 0 THEN n ELSE -n  BY Zenon DEF ValueIn
    <3>4. negative = FALSE
      <4>1. ~negative  BY <2>2, Zenon DEF NegativeIn
      <4> HIDE DEF negative
      <4> QED  BY <1>1, <4>1, Zenon
    <3> HIDE DEF base, value, negative, n
    <3>5. value = n  BY <1>1, <2>2, <3>3
    <3> QED  BY <3>1, <3>2, <3>4, <3>5, Zenon
  <2> QED  BY <2>1, <2>2
<1>4. prec \in Nat /\ width \in Nat
      /\ Asked(LengthOf(value, base, flags), negative, base, prec, width, FlagsFor(value, flags))
  OBVIOUS
<1> HIDE DEF value, negative, base, flags, prec, width
<1>5. FormatSays(Ntoa(value, negative, base, prec, width, flags), LengthOf(value, base, flags),
                 negative, base, width, FlagsFor(value, flags), value)
  BY <1>1, <1>2, <1>4, NtoaSays
<1> QED  BY <1>3, <1>5, Zenon DEF value, negative, base, flags, width

\* The greatest of a few numbers.
LEMMA GreatestIs ==
    ASSUME NEW S \in SUBSET Int, NEW m \in S, \A y \in S : y <= m
    PROVE  Max(S) = m
<1>1. m >= m /\ \A y \in S : m >= y  OBVIOUS
<1>2. \A x \in S : (\A y \in S : x >= y) => x = m  OBVIOUS
<1>3. Max(S) = CHOOSE x \in S : \A y \in S : x >= y  BY Zenon DEF Max
<1> QED  BY <1>1, <1>2, <1>3

LEMMA GreatestOfFour ==
    ASSUME NEW a \in Int, NEW b \in Int, NEW c \in Int, NEW e \in Int
    PROVE  LET m == Max({a, b, c, e})
           IN  m \in {a, b, c, e} /\ a <= m /\ b <= m /\ c <= m /\ e <= m
<1> DEFINE S == {a, b, c, e}
<1>1. PICK m \in S : \A y \in S : y <= m
  <2> DEFINE k == IF a >= b THEN a ELSE b
             l == IF c >= e THEN c ELSE e
  <2>1. CASE k >= l
    <3>1. k \in S /\ \A y \in S : y <= k  BY <2>1
    <3> QED  BY <3>1
  <2>2. CASE ~(k >= l)
    <3>1. l \in S /\ \A y \in S : y <= l  BY <2>2
    <3> QED  BY <3>1
  <2> QED  BY <2>1, <2>2
<1>2. S \in SUBSET Int  OBVIOUS
<1> HIDE DEF S
<1>3. Max(S) = m  BY <1>1, <1>2, GreatestIs
<1>4. Max(S) \in S /\ \A y \in S : y <= Max(S)  BY <1>1, <1>3, Zenon
<1> QED  BY <1>4 DEF S

LEMMA GreatestOfTwo ==
    ASSUME NEW w \in Int
    PROVE  Max({w, -w}) = IF w < 0 THEN -w ELSE w
<1> DEFINE S == {w, -w}
           m == IF w < 0 THEN -w ELSE w
<1>1. S \in SUBSET Int /\ m \in S /\ \A y \in S : y <= m  OBVIOUS
<1> HIDE DEF S, m
<1>2. Max(S) = m  BY <1>1, GreatestIs
<1> QED  BY <1>2, Zenon DEF S, m

LEMMA GreatestOfThree ==
    ASSUME NEW w \in Int, NEW n \in Nat
    PROVE  Max({w, -w, n}) = LET u == IF w < 0 THEN -w ELSE w IN IF u > n THEN u ELSE n
<1> DEFINE S == {w, -w, n}
           u == IF w < 0 THEN -w ELSE w
           m == IF u > n THEN u ELSE n
<1>1. S \in SUBSET Int /\ m \in S /\ \A y \in S : y <= m  OBVIOUS
<1> HIDE DEF S, m
<1>2. Max(S) = m  BY <1>1, GreatestIs
<1> QED  BY <1>2, Zenon DEF S, m, u

\* Which flags a specifier leaves of those a directive has, and of those what a value leaves.
LEMMA FlagsAre ==
    ASSUME NEW d, NEW value
    PROVE  LET f == FlagsFor(value, FlagsOf(d))
           IN  /\ "PRECISION" \in FlagsOf(d) <=> "PRECISION" \in d.flags
               /\ "PRECISION" \in f <=> "PRECISION" \in d.flags
               /\ "LEFT" \in f <=> "LEFT" \in d.flags
               /\ "HASH" \in f <=> "HASH" \in d.flags /\ BaseOf(d.spec) # 10 /\ value # 0
               /\ "ZEROPAD" \in f <=> "ZEROPAD" \in d.flags /\ "PRECISION" \notin d.flags
               /\ "PLUS" \in f <=> "PLUS" \in d.flags /\ d.spec = "d"
               /\ "SPACE" \in f <=> "SPACE" \in d.flags /\ d.spec = "d"
<1> DEFINE F == FlagsOf(d)
<1>1. F = ((d.flags \cup (IF d.spec = "X" THEN {"UPPERCASE"} ELSE {}))
               \ (IF BaseOf(d.spec) = 10 THEN {"HASH"} ELSE {}))
               \ ((IF d.spec # "d" THEN {"PLUS", "SPACE"} ELSE {})
                   \cup (IF "PRECISION" \in d.flags THEN {"ZEROPAD"} ELSE {}))
  BY Zenon DEF FlagsOf
<1> HIDE DEF F
<1>2. /\ "PRECISION" \in F <=> "PRECISION" \in d.flags
      /\ "LEFT" \in F <=> "LEFT" \in d.flags
      /\ "HASH" \in F <=> "HASH" \in d.flags /\ BaseOf(d.spec) # 10
      /\ "ZEROPAD" \in F <=> "ZEROPAD" \in d.flags /\ "PRECISION" \notin d.flags
      /\ "PLUS" \in F <=> "PLUS" \in d.flags /\ d.spec = "d"
      /\ "SPACE" \in F <=> "SPACE" \in d.flags /\ d.spec = "d"
  BY <1>1
<1>3. FlagsFor(value, F) = IF value = 0 THEN F \ {"HASH"} ELSE F  BY Zenon DEF FlagsFor
<1> DEFINE f == FlagsFor(value, F)
<1> HIDE DEF f
<1>4. f = IF value = 0 THEN F \ {"HASH"} ELSE F  BY <1>3, Zenon DEF f
<1>5. /\ "PRECISION" \in f <=> "PRECISION" \in F
      /\ "LEFT" \in f <=> "LEFT" \in F
      /\ "HASH" \in f <=> "HASH" \in F /\ value # 0
      /\ "ZEROPAD" \in f <=> "ZEROPAD" \in F
      /\ "PLUS" \in f <=> "PLUS" \in F
      /\ "SPACE" \in f <=> "SPACE" \in F
  BY <1>4
<1>6. /\ "PRECISION" \in F <=> "PRECISION" \in d.flags
      /\ "PRECISION" \in f <=> "PRECISION" \in d.flags
      /\ "LEFT" \in f <=> "LEFT" \in d.flags
      /\ "HASH" \in f <=> "HASH" \in d.flags /\ BaseOf(d.spec) # 10 /\ value # 0
      /\ "ZEROPAD" \in f <=> "ZEROPAD" \in d.flags /\ "PRECISION" \notin d.flags
      /\ "PLUS" \in f <=> "PLUS" \in d.flags /\ d.spec = "d"
      /\ "SPACE" \in f <=> "SPACE" \in d.flags /\ d.spec = "d"
  BY <1>2, <1>5
<1> QED  BY <1>6, Zenon DEF f, F

\* How many digits there are, if any, is not a matter of the flags.
LEMMA LengthWithin ==
    ASSUME NEW value \in Nat, NEW base \in Bases, NEW flags, NEW others
    PROVE  /\ LengthOf(value, base, flags) \in Nat
           /\ LengthOf(value, base, flags) <= Len(Digits(value, base, others))
<1>1. Digits(value, base, others) \in Seq(OwnCharacters)  BY DigitsAre
<1>2. Len(Digits(value, base, others)) \in Nat  BY <1>1
<1>3. Len(Digits(value, base, flags)) = Len(Digits(value, base, others))  BY SameDigits
<1>4. LengthOf(value, base, flags) \in {0, Len(Digits(value, base, flags))}  BY Zenon DEF LengthOf
<1> HIDE DEF LengthOf
<1> QED  BY <1>2, <1>3, <1>4

\* What a directive for an integer has: the parts of it, and the room.
LEMMA IntegerHas ==
    ASSUME NEW g, IsDirective(g), g.spec \in Letters, BufferIsBigEnough(g)
    PROVE  /\ g.arg \in Int /\ g.length \in Lengths /\ g.width \in Int /\ g.precision \in Int
           /\ "PRECISION" \notin g.flags => g.precision = 0
           /\ DigitsOf(g) \in Nat /\ DigitsOf(g) = Len(Digits(ValueIn(g), BaseOf(g.spec), {}))
           /\ NTOA_BUFFER_SIZE \in Nat
           /\ g.width + 2 <= NTOA_BUFFER_SIZE /\ 2 - g.width <= NTOA_BUFFER_SIZE
           /\ g.precision + 2 <= NTOA_BUFFER_SIZE /\ DigitsOf(g) + 2 <= NTOA_BUFFER_SIZE
<1>1. g.arg \in Int  BY Zenon DEF IsDirective, Letters
<1>2. /\ g.length \in Lengths /\ g.width \in Int /\ g.precision \in Int
      /\ "PRECISION" \notin g.flags => g.precision = 0
  BY Zenon DEF IsDirective, Lengths
<1>3. DigitsOf(g) = Len(Digits(ValueIn(g), BaseOf(g.spec), {}))  BY Zenon DEF DigitsOf, ValueIn
<1>4. NTOA_BUFFER_SIZE \in Nat  BY PrintfAssumption
<1> DEFINE w == g.width
           p1 == g.precision
           n == DigitsOf(g)
<1>5. n \in Nat
  <2>1. ValueIn(g) \in Nat /\ BaseOf(g.spec) \in Bases  BY <1>1, <1>2, ValueInIs, BaseIs
  <2>2. Digits(ValueIn(g), BaseOf(g.spec), {}) \in Seq(OwnCharacters)  BY <2>1, DigitsAre
  <2> QED  BY <1>3, <2>2
<1>6. Max({w, -w, p1, n}) + 2 <= NTOA_BUFFER_SIZE  BY Zenon DEF BufferIsBigEnough
<1>7. w \in Int /\ p1 \in Int  BY <1>2
<1> HIDE DEF w, p1, n
<1> DEFINE m == Max({w, -w, p1, n})
<1>8. -w \in Int /\ n \in Int  BY <1>5, <1>7
<1>9. m \in {w, -w, p1, n} /\ w <= m /\ -w <= m /\ p1 <= m /\ n <= m
  BY <1>7, <1>8, GreatestOfFour, Zenon
<1> HIDE DEF m
<1>10. m + 2 <= NTOA_BUFFER_SIZE  BY <1>6, Zenon DEF m
<1>11. w + 2 <= NTOA_BUFFER_SIZE /\ 2 - w <= NTOA_BUFFER_SIZE
       /\ p1 + 2 <= NTOA_BUFFER_SIZE /\ n + 2 <= NTOA_BUFFER_SIZE
  BY <1>4, <1>5, <1>7, <1>9, <1>10
<1> QED  BY <1>1, <1>2, <1>3, <1>4, <1>5, <1>11, Zenon DEF w, p1, n

\* The room # asks of the width, as the directive gives it and as _ntoa_format takes it.
LEMMA HashRoomIs ==
    ASSUME NEW g, IsDirective(g), g.spec \in Letters, BufferIsBigEnough(g), PrefixHasRoom(g),
           "HASH" \in g.flags, "PRECISION" \notin g.flags, NEW f, NEW len,
           "ZEROPAD" \in f <=> "ZEROPAD" \in g.flags,
           "LEFT" \in f <=> "LEFT" \in g.flags \/ g.width < 0,
           len = DigitsOf(g), len \in Nat
    PROVE  HashRoom(len, IF g.width < 0 THEN -g.width ELSE g.width, f)
<1> DEFINE w == g.width
           u == IF w < 0 THEN -w ELSE w
           zeros == "ZEROPAD" \in f
           left == "LEFT" \in f
<1>1. w \in Int  BY IntegerHas
<1>2. IF "ZEROPAD" \in g.flags /\ w > len THEN w >= len + 2 ELSE Max({w, -w}) # len
  BY Zenon DEF PrefixHasRoom
<1>3. Max({w, -w}) = u
  <2> HIDE DEF w
  <2> QED  BY <1>1, GreatestOfTwo
<1>4. IF zeros /\ w > len THEN w >= len + 2 ELSE u # len  BY <1>2, <1>3, Zenon
<1>5. w < 0 => left  OBVIOUS
<1> HIDE DEF zeros, left, w
<1>6. IF zeros /\ ~left /\ u > len THEN u >= len + 2 ELSE u # len  BY <1>1, <1>4, <1>5
<1>7. HashRoom(len, u, f) <=> IF zeros /\ ~left /\ u > len THEN u >= len + 2 ELSE u # len
  BY Zenon DEF HashRoom, zeros, left
<1> HIDE DEF u
<1> QED  BY <1>6, <1>7, Zenon DEF u, w

\* A directive whose number fits asks for nothing _ntoa_long has no room for.
LEMMA AskedOf ==
    ASSUME NEW g, IsDirective(g), g.spec \in Letters, BufferIsBigEnough(g), PrefixHasRoom(g)
    PROVE  LET d == Starred(g)
               value == ValueIn(d)
           IN  Asked(LengthOf(value, BaseOf(d.spec), FlagsOf(d)), NegativeIn(d), BaseOf(d.spec),
                     d.precision, d.width, FlagsFor(value, FlagsOf(d)))
<1> DEFINE d == Starred(g)
           value == ValueIn(d)
           negative == NegativeIn(d)
           base == BaseOf(d.spec)
           f == FlagsFor(value, FlagsOf(d))
           len == LengthOf(value, base, FlagsOf(d))
           n == DigitsOf(g)
           w == g.width
           p1 == g.precision
<1>1. /\ g.arg \in Int /\ g.length \in Lengths /\ w \in Int /\ p1 \in Int
      /\ "PRECISION" \notin g.flags => p1 = 0
      /\ n \in Nat /\ n = Len(Digits(ValueIn(g), BaseOf(g.spec), {})) /\ NTOA_BUFFER_SIZE \in Nat
      /\ w + 2 <= NTOA_BUFFER_SIZE /\ 2 - w <= NTOA_BUFFER_SIZE
      /\ p1 + 2 <= NTOA_BUFFER_SIZE /\ n + 2 <= NTOA_BUFFER_SIZE
  BY IntegerHas
<1>2. /\ d.spec = g.spec /\ d.length = g.length /\ d.arg = g.arg
      /\ d.flags = (IF w < 0 THEN g.flags \cup {"LEFT"} ELSE g.flags)
      /\ d.width = (IF w < 0 THEN -w ELSE w)
      /\ d.precision = (IF p1 > 0 THEN p1 ELSE 0)
  BY StarredIs
<1> HIDE DEF d
<1>3. value \in Nat /\ negative \in BOOLEAN  BY <1>1, <1>2, ValueInIs
<1>4. base \in Bases  BY BaseIs
<1>5. /\ "PRECISION" \in FlagsOf(d) <=> "PRECISION" \in d.flags
      /\ "PRECISION" \in f <=> "PRECISION" \in d.flags
      /\ "LEFT" \in f <=> "LEFT" \in d.flags
      /\ "HASH" \in f <=> "HASH" \in d.flags /\ base # 10 /\ value # 0
      /\ "ZEROPAD" \in f <=> "ZEROPAD" \in d.flags /\ "PRECISION" \notin d.flags
      /\ "PLUS" \in f <=> "PLUS" \in d.flags /\ d.spec = "d"
      /\ "SPACE" \in f <=> "SPACE" \in d.flags /\ d.spec = "d"
  <2> HIDE DEF value
  <2> QED  BY FlagsAre, Zenon
<1>6. "HASH" \in f => d.spec # "d"  BY <1>5 DEF BaseOf
<1>7. (d.spec # "d" => ~negative) /\ n = Len(Digits(value, base, {}))
  <2>1. NumberOf(d) = NumberOf(g)  BY <1>2, Zenon DEF NumberOf
  <2>2. value = ValueIn(g)  BY <2>1, Zenon DEF ValueIn
  <2>3. base = BaseOf(g.spec)  BY <1>2, Zenon
  <2> HIDE DEF value, base, n
  <2> QED  BY <1>1, <2>2, <2>3, Zenon DEF NegativeIn
<1>8. "PRECISION" \notin f => len = Len(Digits(value, base, FlagsOf(d)))
  BY <1>5, Zenon DEF LengthOf
<1> HIDE DEF value, negative, base, f, n
<1>9. len \in Nat /\ len <= n  BY <1>3, <1>4, <1>7, LengthWithin
<1>10. len + 2 <= NTOA_BUFFER_SIZE /\ d.precision + 2 <= NTOA_BUFFER_SIZE
       /\ d.width + 2 <= NTOA_BUFFER_SIZE
  <2> HIDE DEF len
  <2>1. 2 <= NTOA_BUFFER_SIZE  BY <1>1, <1>9
  <2> QED  BY <1>1, <1>2, <1>9, <2>1
<1>11. "PRECISION" \in d.flags <=> "PRECISION" \in g.flags  BY <1>2
<1>12. "PRECISION" \notin f => d.precision = 0
  BY <1>1, <1>2, <1>5, <1>11
<1>13. "HASH" \in f => base # 10 /\ ~negative /\ f \cap {"PLUS", "SPACE"} = {}
  <2> HIDE DEF p1, w
  <2> QED  BY <1>5, <1>6, <1>7
<1>14. ASSUME "HASH" \in f, "PRECISION" \notin f PROVE HashRoom(len, d.width, f)
  <2>1. /\ "HASH" \in g.flags /\ "PRECISION" \notin g.flags
        /\ ("ZEROPAD" \in f <=> "ZEROPAD" \in g.flags)
        /\ ("LEFT" \in f <=> "LEFT" \in g.flags \/ w < 0)
    BY <1>2, <1>5, <1>6, <1>11, <1>14
  <2>2. len = DigitsOf(g)
    <3>1. len = Len(Digits(value, base, FlagsOf(d)))  BY <1>8, <1>14
    <3>2. Len(Digits(value, base, FlagsOf(d))) = Len(Digits(value, base, {}))
      BY <1>3, <1>4, SameDigits
    <3> QED  BY <1>7, <3>1, <3>2, Zenon DEF n
  <2>3. len \in Nat  BY <1>1, <1>9
  <2> HIDE DEF len
  <2>4. HashRoom(len, IF w < 0 THEN -w ELSE w, f)  BY <2>1, <2>2, <2>3, HashRoomIs, Zenon
  <2> QED  BY <1>2, <2>4, Zenon
<1> HIDE DEF len
<1>15. Asked(len, negative, base, d.precision, d.width, f)
  BY <1>10, <1>12, <1>13, <1>14, Zenon DEF Asked
<1> QED  BY <1>15, Zenon DEF len, negative, base, f, value, d

\* What a number's directive puts out says its argument, in no more width than asked.
WideFor(g) ==
    LET d == Starred(g)
    IN  WideAsAsked(Directive(g), LengthOf(ValueIn(d), BaseOf(g.spec), FlagsOf(d)), NegativeIn(d),
                    d.width, FlagsFor(ValueIn(d), FlagsOf(d)))

LEMMA DirectiveSays ==
    ASSUME NEW g, IsDirective(g), g.spec \in Letters, BufferIsBigEnough(g), PrefixHasRoom(g)
    PROVE  /\ SaysNumber(Directive(g), BaseOf(g.spec), NumberOf(g))
           /\ g.flags \cap {"HASH", "PRECISION"} = {} => WideFor(g)
<1> DEFINE d == Starred(g)
           value == ValueIn(d)
           negative == NegativeIn(d)
           base == BaseOf(d.spec)
           f == FlagsFor(value, FlagsOf(d))
           len == LengthOf(value, base, FlagsOf(d))
<1>1. /\ d.spec = g.spec /\ d.length = g.length /\ d.arg = g.arg
      /\ d.flags = (IF g.width < 0 THEN g.flags \cup {"LEFT"} ELSE g.flags)
      /\ d.width \in Nat /\ d.precision \in Nat
  BY StarredIs
<1>2. g.arg \in Int /\ g.length \in Lengths  BY IntegerHas
<1>3. Directive(g) = Integer(d)
  <2>1. d.spec \in {"d", "u", "x", "X", "o", "b"}  BY <1>1, Zenon DEF Letters
  <2> QED  BY <2>1, Zenon DEF Directive
<1>4. Asked(len, negative, base, d.precision, d.width, f)  BY AskedOf
<1> HIDE DEF d
<1>5. FormatSays(Integer(d), len, negative, base, d.width, f, value)
  <2>1. d.arg \in Int /\ d.length \in Lengths /\ d.precision \in Nat /\ d.width \in Nat
    BY <1>1, <1>2, Zenon
  <2> QED  BY <1>4, <2>1, IntegerSays
<1>6. (IF negative THEN -value ELSE value) = NumberOf(g)
  <2>1. (IF negative THEN -value ELSE value) = NumberOf(d)  BY <1>1, <1>2, ValueInIs
  <2> HIDE DEF negative, value
  <2> QED  BY <1>1, <2>1, Zenon DEF NumberOf
<1>7. ASSUME g.flags \cap {"HASH", "PRECISION"} = {} PROVE f \cap {"HASH", "PRECISION"} = {}
  <2>1. /\ "PRECISION" \in f <=> "PRECISION" \in d.flags
        /\ "HASH" \in f <=> "HASH" \in d.flags /\ BaseOf(d.spec) # 10 /\ value # 0
    <3> HIDE DEF value
    <3> QED  BY FlagsAre, Zenon
  <2> HIDE DEF f, value
  <2> QED  BY <1>1, <1>7, <2>1
<1> HIDE DEF negative, f, value
<1>8. SaysNumber(Integer(d), base, NumberOf(g))
      /\ (f \cap {"HASH", "PRECISION"} = {} => WideAsAsked(Integer(d), len, negative, d.width, f))
  BY <1>5, <1>6, Zenon DEF FormatSays
<1>9. base = BaseOf(g.spec)  BY <1>1, Zenon
<1>10. WideFor(g) <=> WideAsAsked(Directive(g), len, negative, d.width, f)
  BY <1>1, Zenon DEF WideFor, d, value, negative, f
<1> HIDE DEF base, len
<1> QED  BY <1>3, <1>7, <1>8, <1>9, <1>10, Zenon

\* Without # and a precision, the width changes nothing but the blanks and zeros around the digits.
LEMMA AsWideAsNeeded ==
    ASSUME NEW g, IsDirective(g), g.spec \in Letters, BufferIsBigEnough(g),
           g.flags \cap {"HASH", "PRECISION"} = {}
    PROVE  Len(Directive(g)) = Max({g.width, -g.width, Len(Directive([g EXCEPT !.width = 0]))})
<1> DEFINE g0 == [g EXCEPT !.width = 0]
           d == Starred(g)
           d0 == Starred(g0)
           w == g.width
           n == DigitsOf(g)
<1>1. /\ g.arg \in Int /\ g.length \in Lengths /\ w \in Int /\ g.precision \in Int
      /\ n \in Nat /\ NTOA_BUFFER_SIZE \in Nat
      /\ g.precision + 2 <= NTOA_BUFFER_SIZE /\ n + 2 <= NTOA_BUFFER_SIZE
  BY IntegerHas
<1>2. g = [spec |-> g.spec, flags |-> g.flags, width |-> g.width, precision |-> g.precision,
           length |-> g.length, arg |-> g.arg]
  BY Zenon DEF IsDirective
<1>3. /\ g0 = [spec |-> g0.spec, flags |-> g0.flags, width |-> g0.width, precision |-> g0.precision,
               length |-> g0.length, arg |-> g0.arg]
      /\ g0.spec = g.spec /\ g0.flags = g.flags /\ g0.width = 0 /\ g0.precision = g.precision
      /\ g0.length = g.length /\ g0.arg = g.arg
  <2> DEFINE r == [spec |-> g.spec, flags |-> g.flags, width |-> 0, precision |-> g.precision,
                   length |-> g.length, arg |-> g.arg]
  <2>1. g0 = r  BY <1>2
  <2>2. /\ r.spec = g.spec /\ r.flags = g.flags /\ r.width = 0 /\ r.precision = g.precision
        /\ r.length = g.length /\ r.arg = g.arg
    OBVIOUS
  <2> HIDE DEF g0
  <2> QED  BY <2>1, <2>2
<1> HIDE DEF g0
<1>4. IsDirective(g0)
  <2>1. /\ g.flags \subseteq {"ZEROPAD", "LEFT", "PLUS", "SPACE", "HASH", "PRECISION"}
        /\ g.precision \in Int /\ g.length \in {"hh", "h", "", "l"}
        /\ "PRECISION" \notin g.flags => g.precision = 0
    BY Zenon DEF IsDirective
  <2>2. g0.spec \in {"d", "u", "x", "X", "o", "b", "p"} /\ g0.arg \in Int
    BY <1>1, <1>3 DEF Letters
  <2>3. g0.width \in Int  BY <1>3
  <2> QED  BY <1>3, <2>1, <2>2, <2>3, Zenon DEF IsDirective
<1>5. BufferIsBigEnough(g0) /\ PrefixHasRoom(g0) /\ PrefixHasRoom(g) /\ g0.spec \in Letters
  <2> DEFINE m == Max({0, -0, g.precision, n})
  <2>1. m \in {0, -0, g.precision, n}
    <3>1. 0 \in Int /\ -0 \in Int /\ g.precision \in Int /\ n \in Int  BY <1>1
    <3> HIDE DEF m, n
    <3> QED  BY <3>1, GreatestOfFour, Zenon DEF m
  <2>2. BufferIsBigEnough(g0) <=> m + 2 <= NTOA_BUFFER_SIZE
    <3>1. DigitsOf(g0) = n  BY <1>3, Zenon DEF DigitsOf, NumberOf
    <3> HIDE DEF n
    <3> QED  BY <1>3, <3>1, Zenon DEF BufferIsBigEnough
  <2> HIDE DEF m, n
  <2>3. m + 2 <= NTOA_BUFFER_SIZE  BY <1>1, <2>1
  <2>4. "HASH" \notin g.flags  OBVIOUS
  <2> QED  BY <1>3, <2>2, <2>3, <2>4, Zenon DEF PrefixHasRoom
<1>6. WideFor(g) /\ WideFor(g0)  BY <1>3, <1>4, <1>5, DirectiveSays, Zenon
<1>7. /\ d.spec = g.spec /\ d.length = g.length /\ d.arg = g.arg
      /\ d.flags = (IF w < 0 THEN g.flags \cup {"LEFT"} ELSE g.flags)
      /\ d.width = (IF w < 0 THEN -w ELSE w)
  BY StarredIs
<1>8. /\ d0.spec = g.spec /\ d0.length = g.length /\ d0.arg = g.arg
      /\ d0.flags = g.flags /\ d0.width = 0
  <2>1. /\ d0.spec = g0.spec /\ d0.length = g0.length /\ d0.arg = g0.arg
        /\ d0.flags = (IF g0.width < 0 THEN g0.flags \cup {"LEFT"} ELSE g0.flags)
        /\ d0.width = (IF g0.width < 0 THEN -g0.width ELSE g0.width)
    BY <1>4, StarredIs
  <2> HIDE DEF d0
  <2> QED  BY <1>3, <2>1
<1> HIDE DEF d, d0
<1> DEFINE value == ValueIn(d)
           negative == NegativeIn(d)
           base == BaseOf(g.spec)
           f == FlagsFor(value, FlagsOf(d))
           f0 == FlagsFor(value, FlagsOf(d0))
           len == LengthOf(value, base, FlagsOf(d))
           len0 == LengthOf(value, base, FlagsOf(d0))
<1>9. ValueIn(d0) = value /\ (NegativeIn(d0) <=> negative)
  <2>1. NumberOf(d0) = NumberOf(d)  BY <1>7, <1>8, Zenon DEF NumberOf
  <2> QED  BY <1>7, <1>8, <2>1, Zenon DEF ValueIn, NegativeIn
<1>10. value \in Nat /\ negative \in BOOLEAN /\ NegativeIn(d0) \in BOOLEAN
  BY <1>1, <1>7, <1>8, ValueInIs
<1>11. NegativeIn(d0) = negative
  <2> HIDE DEF negative
  <2> QED  BY <1>9, <1>10, Zenon
<1>12. /\ WideAsAsked(Directive(g), len, negative, d.width, f)
       /\ WideAsAsked(Directive(g0), len0, negative, 0, f0)
  <2>1. WideAsAsked(Directive(g), len, negative, d.width, f)
    BY <1>6, Zenon DEF WideFor, d
  <2>2. WideAsAsked(Directive(g0), LengthOf(ValueIn(d0), BaseOf(g0.spec), FlagsOf(d0)), NegativeIn(d0),
                    d0.width, FlagsFor(ValueIn(d0), FlagsOf(d0)))
    BY <1>6, Zenon DEF WideFor, d0
  <2> HIDE DEF value, negative
  <2>3. WideAsAsked(Directive(g0), len0, negative, 0, f0)  BY <1>3, <1>8, <1>9, <1>11, <2>2, Zenon
  <2> QED  BY <2>1, <2>3
<1>13. len = len0 /\ len \in Nat
  <2> HIDE DEF value
  <2>1. "PRECISION" \notin FlagsOf(d) /\ "PRECISION" \notin FlagsOf(d0)
    <3>1. "PRECISION" \notin d.flags /\ "PRECISION" \notin d0.flags  BY <1>7, <1>8
    <3> QED  BY <3>1, FlagsAre, Zenon
  <2>2. len = Len(Digits(value, base, FlagsOf(d))) /\ len0 = Len(Digits(value, base, FlagsOf(d0)))
    BY <2>1, Zenon DEF LengthOf
  <2>3. base \in Bases  BY BaseIs
  <2>4. Len(Digits(value, base, FlagsOf(d))) = Len(Digits(value, base, FlagsOf(d0)))
    BY <1>10, <2>3, SameDigits
  <2>5. len \in Nat  BY <1>10, <2>3, LengthWithin
  <2> HIDE DEF len, len0
  <2> QED  BY <1>1, <2>2, <2>4, <2>5
<1>14. f \cap {"PLUS", "SPACE"} # {} <=> f0 \cap {"PLUS", "SPACE"} # {}
  <2>1. /\ "PLUS" \in f <=> "PLUS" \in d.flags /\ d.spec = "d"
        /\ "SPACE" \in f <=> "SPACE" \in d.flags /\ d.spec = "d"
        /\ "PLUS" \in f0 <=> "PLUS" \in d0.flags /\ d0.spec = "d"
        /\ "SPACE" \in f0 <=> "SPACE" \in d0.flags /\ d0.spec = "d"
    <3> HIDE DEF value
    <3> QED  BY FlagsAre, Zenon
  <2> HIDE DEF f, f0
  <2> QED  BY <1>7, <1>8, <2>1
<1> HIDE DEF value, negative, base, f, f0, len, len0
<1> DEFINE signed == negative \/ f \cap {"PLUS", "SPACE"} # {}
           all == IF signed THEN len + 1 ELSE len
<1>15. /\ Len(Directive(g)) = (IF d.width > all THEN d.width ELSE all)
       /\ Len(Directive(g0)) = IF 0 > all THEN 0 ELSE all
  <2>1. Len(Directive(g)) = (IF d.width > all THEN d.width ELSE all)
    BY <1>12, Zenon DEF WideAsAsked
  <2>2. Len(Directive(g0)) = LET all0 == IF negative \/ f0 \cap {"PLUS", "SPACE"} # {} THEN len0 + 1 ELSE len0
                             IN  IF 0 > all0 THEN 0 ELSE all0
    BY <1>12, Zenon DEF WideAsAsked
  <2>3. (IF negative \/ f0 \cap {"PLUS", "SPACE"} # {} THEN len0 + 1 ELSE len0) = all
    BY <1>13, <1>14, Zenon
  <2> HIDE DEF all
  <2> QED  BY <2>1, <2>2, <2>3, Zenon
<1> HIDE DEF signed
<1>16. all \in Nat  BY <1>13
<1> HIDE DEF all
<1>17. Len(Directive(g0)) = all /\ Len(Directive(g)) = IF d.width > all THEN d.width ELSE all
  BY <1>15, <1>16
<1> HIDE DEF w
<1>18. Max({w, -w, all}) = LET u == IF w < 0 THEN -w ELSE w IN IF u > all THEN u ELSE all
  BY <1>1, <1>16, GreatestOfThree
<1>19. Len(Directive(g)) = Max({w, -w, all})  BY <1>7, <1>17, <1>18, Zenon
<1> QED  BY <1>17, <1>19, Zenon DEF w, g0

\* What is printed is made of directives.
PrintedDirectives == \A d \in ToSet(printed.format) : IsDirective(d)

LEMMA PrintedIsOfDirectives == Spec => []PrintedDirectives
<1>1. Init => PrintedDirectives
  <2> SUFFICES ASSUME Init PROVE PrintedDirectives  OBVIOUS
  <2>1. printed.format = << >>  BY DEF Init, PrintfInit
  <2>2. ToSet(<< >>) = {}  BY DEF ToSet
  <2> QED  BY <2>1, <2>2, Zenon DEF PrintedDirectives
<1>2. PrintedDirectives /\ [Next]_libraryVars => PrintedDirectives'
  <2> SUFFICES ASSUME PrintedDirectives, [Next]_libraryVars PROVE PrintedDirectives'  OBVIOUS
  <2>1. CASE UNCHANGED printed  BY <2>1, Zenon DEF PrintedDirectives
  <2>2. ASSUME NEW call \in Calls, Snprintf(call[1], call[2]) PROVE PrintedDirectives'
    <3>1. printed' = PrintedOf(call[1], call[2])  BY <2>2, Zenon DEF Snprintf, PrintedOf
    <3>2. PrintedOf(call[1], call[2]).format = call[1]  BY DEF PrintedOf
    <3>3. \A d \in ToSet(call[1]) : IsDirective(d)  BY CallsAssumption, Zenon
    <3> QED  BY <3>1, <3>2, <3>3, Zenon DEF PrintedDirectives
  <2>3. UNCHANGED printed \/ \E call \in Calls : Snprintf(call[1], call[2])
    BY Zenon DEF Next, libraryVars
  <2> QED  BY <2>1, <2>2, <2>3
<1> QED  BY <1>1, <1>2, PTL DEF Spec

\* printf.cpp:687-760: in every format, whatever a directive says, a number that is printed
\* whole reads back as itself in its type, and is no wider than asked unless it needs to be.
THEOREM NumbersDoReadBack == Spec => []NumbersReadBack
<1>1. PrintedDirectives => NumbersReadBack
  <2> SUFFICES ASSUME PrintedDirectives PROVE NumbersReadBack  OBVIOUS
  <2> SUFFICES ASSUME NEW d \in ToSet(printed.format), d.spec \in {"d", "u", "x", "X", "o", "b"},
                      BufferIsBigEnough(d), PrefixHasRoom(d)
               PROVE  /\ SaysNumber(Directive(d), BaseOf(d.spec), NumberOf(d))
                      /\ d.flags \cap {"HASH", "PRECISION"} = {} =>
                          Len(Directive(d)) = Max({d.width, -d.width, Len(Directive([d EXCEPT !.width = 0]))})
    BY Zenon DEF NumbersReadBack
  <2>1. IsDirective(d)  BY Zenon DEF PrintedDirectives
  <2>2. d.spec \in Letters  BY Zenon DEF Letters
  <2>3. SaysNumber(Directive(d), BaseOf(d.spec), NumberOf(d))  BY <2>1, <2>2, DirectiveSays
  <2>4. ASSUME d.flags \cap {"HASH", "PRECISION"} = {}
        PROVE  Len(Directive(d)) = Max({d.width, -d.width, Len(Directive([d EXCEPT !.width = 0]))})
    BY <2>1, <2>2, <2>4, AsWideAsNeeded
  <2> QED  BY <2>3, <2>4
<1> QED  BY <1>1, PrintedIsOfDirectives, PTL
=============================================================================
