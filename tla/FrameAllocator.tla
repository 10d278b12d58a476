--------------------------- MODULE FrameAllocator ---------------------------
(***************************************************************************)
(* The physical memory manager: mem/pmm.cpp over lib/bitmap.hpp.           *)
(*                                                                         *)
(* One bit per frame, in words of WordBits bits that live in the first     *)
(* usable region big enough to hold them; a set bit is a frame in use.  A  *)
(* word is the set of its set bits, so UINT64_MAX is FullWord.  Addresses, *)
(* bases and lengths are bytes, because the bitmap takes its room off the  *)
(* front of a region in bytes and the rounding to frames comes after.      *)
(*                                                                         *)
(* The kernel runs on one core and never enables interrupts, so each call  *)
(* is one action.  It runs the static initialisers AFTER this component    *)
(* has been set up (main.cpp, init_ctors): when the compiler emits one for *)
(* the manager (GCC does), Bitmap() takes the bitmap's address away.       *)
(***************************************************************************)
EXTENDS Integers, Sequences, FiniteSetsExt

CONSTANTS
    FrameSize,      \* FRAME_SIZE, 4096
    WordBits,       \* bits of a bitmap word, 64
    WordBytes,      \* bytes of a bitmap word, 8
    AddressLimit,   \* 2^64: addresses are u64 and no region wraps
    MemoryMaps,     \* the memory maps the bootloader may report
    Addresses,      \* the addresses callers may pass to release_frame
    DynamicInit     \* TRUE: m_instance has a dynamic initialiser

VARIABLES
    memmap,         \* memmap_request.response->entries
    bitmap,         \* the bitmap's words: index -> set of set bits
    entries,        \* m_entries; m_bitsize is entries * WordBits
    addr,           \* m_addr, as a physical address
    status,         \* "boot", "up", "panic", "fault"
    call,           \* the last call served and the address it took or gave
    held,           \* history: frames handed out and not yet given back
    foreign         \* history: frames taken back that were never handed out

vars == <<memmap, bitmap, entries, addr, status, call, held, foreign>>

RoundDown(n, size) == n - (n % size)
RoundUp(n, size) == RoundDown(n + size - 1, size)

Region == [base : Nat, length : Nat, type : {"usable", "other"}]

UsableIn(map) == {i \in DOMAIN map : map[i].type = "usable"}

RegionEnd(r) == r.base + r.length

\* What the boot protocol guarantees of a memory map: usable entries are made
\* of whole frames, do not overlap each other and do not wrap.
WellFormed(map) ==
    /\ map \in Seq(Region)
    /\ \A i \in UsableIn(map) : RegionEnd(map[i]) < AddressLimit
    /\ \A i \in UsableIn(map) :
          map[i].base % FrameSize = 0 /\ map[i].length % FrameSize = 0
    /\ \A i, j \in UsableIn(map) :
          i # j => RegionEnd(map[i]) <= map[j].base \/ RegionEnd(map[j]) <= map[i].base

ASSUME FrameAllocatorConstants ==
    /\ FrameSize \in Nat \ {0} /\ WordBits \in Nat \ {0} /\ WordBytes \in Nat \ {0}
    /\ AddressLimit \in Nat \ {0}
    /\ \A map \in MemoryMaps : WellFormed(map)
    /\ Addresses \subseteq Nat
    /\ DynamicInit \in BOOLEAN

-----------------------------------------------------------------------------
\* class Address: a number and a null flag, so address 0 is not "no address".
NullAddress == [addr |-> 0, null |-> TRUE]
AddressOf(a) == [addr |-> a, null |-> FALSE]

NoCall == [op |-> "none", at |-> NullAddress]
Allocated(address) == [op |-> "allocate", at |-> address]
Released(a) == [op |-> "release", at |-> AddressOf(a)]

\* m_max_value: every bit of the word is set.
FullWord == 0 .. WordBits - 1

IsSet(n) == n % WordBits \in bitmap[n \div WordBits]

BitSize == entries * WordBits

Free == {n \in 0 .. BitSize - 1 : ~IsSet(n)}

\* Every usable entry lies below the end of memory; the bitmap has a whole
\* number of words.
MemoryEnd(map) == Max({0} \cup {RegionEnd(map[i]) : i \in UsableIn(map)})

WordsFor(map) ==
    RoundUp(MemoryEnd(map) \div FrameSize, WordBits) \div WordBits

\* The base rounded down: the frame that holds the bitmap's tail is freed.
RegionFramesFromBelow(r) ==
    LET first == r.base \div FrameSize
        count == r.length \div FrameSize
    IN  first .. first + count - 1

\* free_region: the length is rounded down and the base up, each on its own.
RegionFrames(r) ==
    LET first == RoundUp(r.base, FrameSize) \div FrameSize
        count == r.length \div FrameSize
    IN  first .. first + count - 1

FreedFrames(map) == UNION {RegionFrames(map[i]) : i \in UsableIn(map)}

\* A search that takes any usable region.
RegionsOfAnySize(map, bytes) == UsableIn(map)

\* The usable regions the bitmap's words fit in.
RoomyRegions(map, bytes) == {i \in UsableIn(map) : map[i].length >= bytes}

\* The bitmap's room comes off the front of the region that holds it.
Carve(map, i, bytes) ==
    [map EXCEPT ![i] = [base |-> map[i].base + bytes,
                        length |-> map[i].length - bytes,
                        type |-> map[i].type]]

\* clear(.., true) on the way: a frame beyond the bitmap or freed twice panics.
FreeingPanics(map, bits) ==
    \/ ~(FreedFrames(map) \subseteq 0 .. bits - 1)
    \/ \E i, j \in UsableIn(map) :
          i # j /\ RegionFrames(map[i]) \cap RegionFrames(map[j]) # {}

-----------------------------------------------------------------------------
Init ==
    /\ memmap \in MemoryMaps
    /\ bitmap = [w \in {} |-> {}] /\ entries = 0
    /\ addr = NullAddress
    /\ status = "boot"
    /\ call = NoCall
    /\ held = {} /\ foreign = {}

\* PhysicalMemoryManager::init: memset to all used, then free the regions.
PmmInit ==
    LET words == WordsFor(memmap)
        bytes == words * WordBytes
        hosts == RoomyRegions(memmap, bytes)
        host == Min(hosts)
    IN
    /\ status = "boot"
    /\ \/ /\ hosts = {}
          /\ status' = "panic"
          /\ UNCHANGED <<memmap, bitmap, entries, addr>>
       \/ /\ hosts # {}
          /\ addr' = AddressOf(memmap[host].base)
          /\ memmap' = Carve(memmap, host, bytes)
          /\ entries' = words
          /\ bitmap' = [w \in 0 .. words - 1 |->
                          {j \in FullWord : w * WordBits + j \notin FreedFrames(memmap')}]
          /\ status' = IF FreeingPanics(memmap', words * WordBits) THEN "panic" ELSE "up"
    /\ UNCHANGED <<call, held, foreign>>

\* A scan that stops one word early.
OpenWordsButLast == {i \in 0 .. entries - 2 : bitmap[i] # FullWord}

\* The words that are not m_max_value.
OpenWords == {i \in 0 .. entries - 1 : bitmap[i] # FullWord}

\* find_set skips the full words and takes the lowest clear bit of the first
\* other one; the manager turns its number into an address.
AllocateFrame ==
    LET i == Min(OpenWords)
        j == Min(FullWord \ bitmap[i])
        n == i * WordBits + j
    IN
    /\ status = "up" /\ ~addr.null
    /\ \/ /\ OpenWords = {}
          /\ call' = Allocated(NullAddress)
          /\ UNCHANGED <<bitmap, held>>
       \/ /\ OpenWords # {}
          /\ bitmap' = [bitmap EXCEPT ![i] = @ \cup {j}]
          /\ call' = Allocated(AddressOf(n * FrameSize))
          /\ held' = held \cup {n}
    /\ UNCHANGED <<memmap, entries, addr, status, foreign>>

\* A clear that does not look at the bit.
ClearableUnchecked(n) == n < BitSize

\* What clear() takes for granted of the number: it is described by the bitmap
\* and its bit is set.
Clearable(n) == n < BitSize /\ IsSet(n)

\* Nothing tells a frame that was handed out from one that was never usable:
\* both have their bit set, so both are accepted.
ReleaseFrame(a) ==
    LET n == a \div FrameSize IN
    /\ status = "up" /\ ~addr.null
    /\ \/ /\ a % FrameSize = 0 /\ Clearable(n)
          /\ bitmap' = [bitmap EXCEPT ![n \div WordBits] = @ \ {n % WordBits}]
          /\ held' = held \ {n}
          /\ foreign' = IF n \in held THEN foreign ELSE foreign \cup {n}
          /\ UNCHANGED status
       \/ /\ ~(a % FrameSize = 0 /\ Clearable(n))
          /\ status' = "panic"
          /\ UNCHANGED <<bitmap, held, foreign>>
    /\ call' = Released(a)
    /\ UNCHANGED <<memmap, entries, addr>>

\* init_ctors runs m_instance's initialiser: Bitmap() : m_addr(nullptr).
RunConstructor ==
    /\ DynamicInit
    /\ status = "up" /\ ~addr.null
    /\ addr' = NullAddress
    /\ UNCHANGED <<memmap, bitmap, entries, status, call, held, foreign>>

\* With a null bitmap the first word read faults.  (A bad address still panics
\* before that.)
CallWithoutBitmap ==
    /\ status = "up" /\ addr.null
    /\ \/ call' = Allocated(NullAddress) /\ status' = "fault"
       \/ \E a \in Addresses :
             /\ call' = Released(a)
             /\ status' = IF a % FrameSize = 0 /\ a \div FrameSize < BitSize
                          THEN "fault" ELSE "panic"
    /\ UNCHANGED <<memmap, bitmap, entries, addr, held, foreign>>

Next ==
    \/ PmmInit
    \/ AllocateFrame
    \/ \E a \in Addresses : ReleaseFrame(a)
    \/ RunConstructor
    \/ CallWithoutBitmap

Spec == Init /\ [][Next]_vars

-----------------------------------------------------------------------------
\* Every variable keeps its shape; the carved region keeps a natural length.
TypeOK ==
    /\ memmap \in Seq(Region)
    /\ entries \in Nat
    /\ bitmap \in [0 .. entries - 1 -> SUBSET FullWord]
    /\ addr \in [addr : Nat, null : BOOLEAN]
    /\ status \in {"boot", "up", "panic", "fault"}
    /\ call \in [op : {"none", "allocate", "release"}, at : [addr : Nat, null : BOOLEAN]]
    /\ held \subseteq 0 .. BitSize - 1
    /\ foreign \subseteq 0 .. BitSize - 1

Managed == FreedFrames(memmap)

\* Once set up, every frame the manager was given is free or with a caller and
\* never both, and what it hands out beyond those is exactly what some caller
\* gave back without having been handed it (find_set, clear).
Partition ==
    status = "up" =>
        /\ Free \cap held = {}
        /\ Managed \cap foreign = {}
        /\ Free \cup held = Managed \cup foreign

\* Frame f, byte for byte, is inside a usable region, and touches no byte of
\* the bitmap's words.
FrameIsUsable(f) ==
    LET first == f * FrameSize
        last == first + FrameSize - 1
    IN  /\ \E i \in UsableIn(memmap) :
              memmap[i].base <= first /\ last < RegionEnd(memmap[i])
        /\ addr.null \/ last < addr.addr \/ first >= addr.addr + entries * WordBytes

\* The rounding of init and free_region gives away no byte that is not usable
\* or that holds the bitmap, and loses no whole frame that could be used.
ManagesUsableFrames ==
    status = "up" =>
        (Free \cup held) \ foreign = {f \in 0 .. BitSize - 1 : FrameIsUsable(f)}

-----------------------------------------------------------------------------
PoolMode ==
    IF status = "boot" THEN "down"
    ELSE IF status = "up" THEN IF addr.null THEN "lost" ELSE "up"
    ELSE "stopped"

Pool == INSTANCE FramePool
    WITH pool <- Free, limit <- BitSize, mode <- PoolMode, MayLose <- DynamicInit

\* The bitmap implements the pool: lowest free frame first, the null address
\* only when nothing is free, and stopped by nothing but a senseless release or
\* the loss of the bitmap.
ImplementsPool == Pool!PoolSpec

\* "Initialize constructors after memory has been initialized" (main.cpp):
\* memory that has been initialised stays so when the constructors run.
BitmapStaysInstalled == status = "up" => ~addr.null
=============================================================================
