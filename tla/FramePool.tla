----------------------------- MODULE FramePool -----------------------------
(***************************************************************************)
(* What the physical memory manager promises the code that calls it: one   *)
(* pool of frame numbers, handed out lowest first, and stopped for good by *)
(* a release that makes no sense.  FrameAllocator, which is the code's     *)
(* bitmap, implements it.  Callers rely on "lowest first":                 *)
(* AddressSpace::allocate puts the frames it is handed at consecutive      *)
(* addresses without ever looking at their numbers.                        *)
(***************************************************************************)
EXTENDS Integers

CONSTANTS
    FrameSize,      \* bytes of a frame
    Addresses,      \* the addresses callers may give back
    MayLose         \* TRUE when the build lets the pool be lost after Start

VARIABLES
    pool,           \* the free frames
    limit,          \* every frame number is below it
    mode,           \* "down" before Start, then "up"; "lost"; "stopped"
    call            \* the last call served and the address it took or gave

poolVars == <<pool, limit, mode, call>>

\* class Address: a number and a null flag, so address 0 is not "no address".
NullAddress == [addr |-> 0, null |-> TRUE]
AddressOf(a) == [addr |-> a, null |-> FALSE]

NoCall == [op |-> "none", at |-> NullAddress]
Allocated(address) == [op |-> "allocate", at |-> address]
Released(a) == [op |-> "release", at |-> AddressOf(a)]

\* a is the start of a frame of the pool's range.
IsFrame(a) == a % FrameSize = 0 /\ a \div FrameSize < limit

PoolInit ==
    /\ pool = {} /\ limit = 0
    /\ mode = "down"
    /\ call = NoCall

\* The memory map decides what the pool starts from; with no room for its own
\* book-keeping it never starts.
Start ==
    /\ mode = "down"
    /\ mode' \in {"up", "stopped"}
    /\ limit' \in Nat
    /\ pool' \in SUBSET (0 .. limit' - 1)
    /\ UNCHANGED call

\* The lowest free frame leaves the pool and is the answer.
Take ==
    /\ mode = "up"
    /\ \E f \in pool :
          /\ \A g \in pool : f <= g
          /\ pool' = pool \ {f}
          /\ call' = Allocated(AddressOf(f * FrameSize))
    /\ UNCHANGED <<limit, mode>>

\* Only an empty pool answers with the null address.
TakeNone ==
    /\ mode = "up" /\ pool = {}
    /\ call' = Allocated(NullAddress)
    /\ UNCHANGED <<pool, limit, mode>>

Give(a) ==
    /\ mode = "up"
    /\ IsFrame(a) /\ a \div FrameSize \notin pool
    /\ pool' = pool \cup {a \div FrameSize}
    /\ call' = Released(a)
    /\ UNCHANGED <<limit, mode>>

\* A frame given back twice, or an address that is no frame, stops the machine:
\* nothing else does.
Refuse(a) ==
    /\ mode = "up"
    /\ ~(IsFrame(a) /\ a \div FrameSize \notin pool)
    /\ mode' = "stopped"
    /\ call' = Released(a)
    /\ UNCHANGED <<pool, limit>>

\* A pool that was lost stops the machine at the next call.
Lose == MayLose /\ mode = "up" /\ mode' = "lost" /\ UNCHANGED <<pool, limit, call>>

StopLost ==
    /\ mode = "lost" /\ mode' = "stopped"
    /\ call' \in {Allocated(NullAddress)} \cup {Released(a) : a \in Addresses}
    /\ UNCHANGED <<pool, limit>>

PoolNext ==
    Start \/ Take \/ TakeNone \/ (\E a \in Addresses : Give(a) \/ Refuse(a)) \/ Lose \/ StopLost

PoolSpec == PoolInit /\ [][PoolNext]_poolVars
=============================================================================
