------------------------ MODULE FrameAllocatorProofs ------------------------
(***************************************************************************)
(* Theorems about FrameAllocator, for every frame size, word size, memory  *)
(* map and order of calls.                                                 *)
(***************************************************************************)
EXTENDS FrameAllocator, Arithmetic, SequenceTheorems, TLAPS

-----------------------------------------------------------------------------
(* Rounding *)

\* Rounding up to a multiple: the next one, at most w - 1 away.
LEMMA RoundUpIs ==
    ASSUME NEW n \in Nat, NEW w \in Nat \ {0}
    PROVE  /\ RoundUp(n, w) = ((n + w - 1) \div w) * w
           /\ RoundUp(n, w) \in Nat
<1> DEFINE x == n + w - 1
<1>1. x \in Nat  OBVIOUS
<1>2. x \div w \in Nat /\ x = (x \div w) * w + (x % w) /\ x % w \in 0 .. w - 1
  BY <1>1, DivMod
<1>3. (x \div w) * w \in Nat  BY <1>2, SMT
<1>4. RoundUp(n, w) = x - (x % w)  BY DEF RoundUp, RoundDown
<1> HIDE DEF x
<1>5. x - (x % w) = (x \div w) * w  BY <1>1, <1>2, <1>3
<1> QED  BY <1>3, <1>4, <1>5 DEF x

-----------------------------------------------------------------------------
(* The inductive invariant *)

\* Until the manager is set up nothing was handed out, and the memory map is as
\* the bootloader left it.
Booting == status = "boot" => memmap \in MemoryMaps /\ held = {} /\ foreign = {}

IInv == TypeOK /\ Booting /\ Partition

\* The size of the bitmap in bits.
LEMMA BitSizeType ==
    ASSUME FrameAllocatorConstants, entries \in Nat
    PROVE  BitSize \in Nat
<1>1. WordBits \in Nat  BY DEF FrameAllocatorConstants
<1> QED  BY <1>1, SMT DEF BitSize

\* Where the bit of a frame is.
LEMMA BitOfFrame ==
    ASSUME FrameAllocatorConstants, entries \in Nat, NEW n \in 0 .. BitSize - 1
    PROVE  /\ n \div WordBits \in 0 .. entries - 1
           /\ n % WordBits \in FullWord
           /\ n = (n \div WordBits) * WordBits + (n % WordBits)
<1>1. WordBits \in Nat \ {0}  BY DEF FrameAllocatorConstants
<1>2. entries * WordBits \in Nat  BY <1>1
<1>3. n \in Nat /\ n < entries * WordBits  BY <1>2 DEF BitSize
<1>4. /\ n \div WordBits \in Nat
      /\ n % WordBits \in 0 .. WordBits - 1
      /\ n = (n \div WordBits) * WordBits + (n % WordBits)
  BY <1>1, <1>3, DivMod
<1>5. n \div WordBits < entries
  BY <1>1, <1>3, DivBelow
<1>6. n \div WordBits \in 0 .. entries - 1
  BY <1>4, <1>5
<1> QED  BY <1>4, <1>6 DEF FullWord

\* A memory map of whole, bounded regions needs a natural number of words.
LEMMA WordsForType ==
    ASSUME FrameAllocatorConstants, NEW map \in MemoryMaps
    PROVE  WordsFor(map) \in Nat
<1> DEFINE Ends == {0} \cup {RegionEnd(map[i]) : i \in UsableIn(map)}
<1>1. WellFormed(map)  BY DEF FrameAllocatorConstants
<1>2. \A i \in UsableIn(map) : map[i] \in Region
  BY <1>1 DEF WellFormed, UsableIn
<1>3. \A i \in UsableIn(map) : RegionEnd(map[i]) \in Nat /\ RegionEnd(map[i]) <= AddressLimit
  BY <1>1, <1>2, AddressLimit \in Nat DEF WellFormed, Region, RegionEnd, FrameAllocatorConstants
<1>4. Ends \in SUBSET Nat /\ Ends # {} /\ \A e \in Ends : e <= AddressLimit
  BY <1>3 DEF FrameAllocatorConstants
<1>5. MemoryEnd(map) \in Nat
  <2> HIDE DEF Ends
  <2>1. AddressLimit \in Nat  BY DEF FrameAllocatorConstants
  <2>2. Max(Ends) \in Ends  BY <1>4, <2>1, MaxIsGreatest
  <2>3. Max(Ends) \in Nat  BY <1>4, <2>2
  <2> QED  BY <2>3 DEF Ends, MemoryEnd
<1>6. FrameSize \in Nat \ {0} /\ WordBits \in Nat \ {0}  BY DEF FrameAllocatorConstants
<1> DEFINE frames == MemoryEnd(map) \div FrameSize
<1>7. frames \in Nat  BY <1>5, <1>6, DivMod
<1> HIDE DEF frames
<1>10. RoundUp(frames, WordBits) \in Nat
  BY <1>6, <1>7, RoundUpIs
<1> QED  BY <1>6, <1>10, DivMod DEF WordsFor, frames

\* Taking the bitmap's room off a region leaves a memory map.
LEMMA CarveType ==
    ASSUME NEW map \in Seq(Region), NEW i \in DOMAIN map, NEW bytes \in Nat,
           bytes <= map[i].length
    PROVE  Carve(map, i, bytes) \in Seq(Region)
<1>1. i \in 1 .. Len(map)  OBVIOUS
<1>2. map[i] \in Region  OBVIOUS
<1> DEFINE r == [base |-> map[i].base + bytes, length |-> map[i].length - bytes,
                 type |-> map[i].type]
<1>3. r \in Region  BY <1>2 DEF Region
<1>4. [map EXCEPT ![i] = r] \in Seq(Region)
  BY <1>1, <1>3, ExceptSeq
<1> QED  BY <1>4 DEF Carve

-----------------------------------------------------------------------------
(* What the calls do to the set of free frames *)

\* find_set takes the lowest free frame and nothing else.
LEMMA AllocateTakesLeast ==
    ASSUME FrameAllocatorConstants, TypeOK, AllocateFrame, OpenWords # {}
    PROVE  \E n \in Free :
              /\ \A m \in Free : n <= m
              /\ Free' = Free \ {n}
              /\ held' = held \cup {n}
              /\ call' = Allocated(AddressOf(n * FrameSize))
              /\ bitmap' \in [0 .. entries - 1 -> SUBSET FullWord]
<1> DEFINE i == Min(OpenWords)
           j == Min(FullWord \ bitmap[i])
           n == i * WordBits + j
<1>1. WordBits \in Nat \ {0} /\ entries \in Nat /\ bitmap \in [0 .. entries - 1 -> SUBSET FullWord]
  BY DEF FrameAllocatorConstants, TypeOK
<1>2. i \in OpenWords /\ \A k \in OpenWords : i <= k
  BY MinIsLeast DEF OpenWords
<1> HIDE DEF i
<1>3. i \in 0 .. entries - 1 /\ bitmap[i] # FullWord /\ bitmap[i] \subseteq FullWord
  BY <1>1, <1>2 DEF OpenWords
<1>4. j \in FullWord \ bitmap[i] /\ \A k \in FullWord \ bitmap[i] : j <= k
  <2>1. FullWord \ bitmap[i] \in SUBSET Nat
    BY <1>1 DEF FullWord
  <2>2. FullWord \ bitmap[i] # {}
    BY <1>3
  <2> QED  BY <2>1, <2>2, MinIsLeast
<1> HIDE DEF j
<1>5. j \in 0 .. WordBits - 1  BY <1>4 DEF FullWord
<1>6. n \in 0 .. BitSize - 1
  BY <1>1, <1>3, <1>5, WordsBelow DEF BitSize
<1>7. n \div WordBits = i /\ n % WordBits = j
  BY <1>1, <1>3, <1>5, DivModUnique
<1> HIDE DEF n
<1>8. n \in Free
  BY <1>4, <1>6, <1>7 DEF Free, IsSet
<1>9. /\ bitmap' = [bitmap EXCEPT ![i] = @ \cup {j}]
      /\ call' = Allocated(AddressOf(n * FrameSize))
      /\ held' = held \cup {n}
      /\ entries' = entries
  BY DEF AllocateFrame, i, j, n
<1>10. \A m \in Free : n <= m
  <2> TAKE m \in Free
  <2>1. m \in 0 .. BitSize - 1 /\ m % WordBits \notin bitmap[m \div WordBits]
    BY DEF Free, IsSet
  <2>2. /\ m \div WordBits \in 0 .. entries - 1
        /\ m % WordBits \in FullWord
        /\ m = (m \div WordBits) * WordBits + (m % WordBits)
    BY <1>1, <2>1, BitOfFrame
  <2> DEFINE q == m \div WordBits
             r == m % WordBits
  <2>3. q \in OpenWords  BY <2>1, <2>2 DEF OpenWords
  <2>4. i <= q  BY <1>2, <2>3
  <2>5. q \in Nat /\ r \in Nat /\ i \in Nat /\ j \in Nat /\ m = q * WordBits + r
    BY <1>3, <1>5, <2>2 DEF FullWord
  <2>6. CASE i = q
    <3>1. j <= r  BY <1>4, <2>1, <2>2, <2>6
    <3> HIDE DEF q, r
    <3>2. i * WordBits + j <= q * WordBits + r
      <4>1. i * WordBits \in Nat  BY <1>1, <2>5, SMT
      <4> QED  BY <2>5, <2>6, <3>1, <4>1
    <3> QED  BY <2>5, <3>2 DEF n
  <2>7. CASE i < q
    <3> HIDE DEF q, r
    <3>1. i + 1 <= q  BY <2>5, <2>7
    <3>2. (i + 1) * WordBits <= q * WordBits  BY <1>1, <2>5, <3>1, SMT
    <3>3. (i + 1) * WordBits = i * WordBits + WordBits  BY <1>1, <2>5, SMT
    <3>4. i * WordBits \in Nat /\ q * WordBits \in Nat  BY <1>1, <2>5, SMT
    <3>5. i * WordBits + j <= q * WordBits + r
      BY <1>1, <1>5, <2>5, <3>2, <3>3, <3>4
    <3> QED  BY <2>5, <3>5 DEF n
  <2>8. i < q \/ i = q  BY <2>4, <2>5
  <2> QED  BY <2>6, <2>7, <2>8
<1>11. Free' = Free \ {n}
  <2>1. BitSize' = BitSize  BY <1>9 DEF BitSize
  <2>2. ASSUME NEW m \in 0 .. BitSize - 1
        PROVE  IsSet(m)' <=> (IsSet(m) \/ m = n)
    <3>1. /\ m \div WordBits \in 0 .. entries - 1
          /\ m % WordBits \in FullWord
          /\ m = (m \div WordBits) * WordBits + (m % WordBits)
      BY <1>1, <2>2, BitOfFrame
    <3>2. m = n <=> (m \div WordBits = i /\ m % WordBits = j)
      BY <1>7, <3>1 DEF n
    <3> QED  BY <1>1, <1>3, <1>9, <3>1, <3>2 DEF IsSet
  <2> QED  BY <2>1, <2>2 DEF Free
<1>12. bitmap' \in [0 .. entries - 1 -> SUBSET FullWord]
  <2>1. bitmap[i] \cup {j} \in SUBSET FullWord  BY <1>3, <1>4
  <2> QED  BY <1>1, <1>9, <2>1
<1> QED  BY <1>8, <1>9, <1>10, <1>11, <1>12

\* clear() puts the frame back and touches no other.
LEMMA ReleaseGives ==
    ASSUME FrameAllocatorConstants, TypeOK, NEW a \in Addresses, ReleaseFrame(a),
           a % FrameSize = 0, Clearable(a \div FrameSize)
    PROVE  LET n == a \div FrameSize
           IN  /\ n \in 0 .. BitSize - 1 /\ n \notin Free
               /\ Free' = Free \cup {n}
               /\ held' = held \ {n}
               /\ foreign' = IF n \in held THEN foreign ELSE foreign \cup {n}
<1> DEFINE n == a \div FrameSize
           i == n \div WordBits
           j == n % WordBits
<1>1. /\ WordBits \in Nat \ {0} /\ FrameSize \in Nat \ {0} /\ a \in Nat
      /\ entries \in Nat /\ bitmap \in [0 .. entries - 1 -> SUBSET FullWord]
  BY DEF FrameAllocatorConstants, TypeOK
<1>2. n \in Nat  BY <1>1, DivMod
<1>3. BitSize \in Nat  BY <1>1, SMT DEF BitSize
<1>4. n \in 0 .. BitSize - 1  BY <1>2, <1>3 DEF Clearable
<1>5. n \notin Free  BY DEF Free, Clearable
<1>6. /\ bitmap' = [bitmap EXCEPT ![i] = @ \ {j}]
      /\ entries' = entries
      /\ held' = held \ {n}
      /\ foreign' = IF n \in held THEN foreign ELSE foreign \cup {n}
  BY DEF ReleaseFrame
<1>7. i \in 0 .. entries - 1 /\ n = i * WordBits + j
  BY <1>1, <1>4, BitOfFrame
<1>8. Free' = Free \cup {n}
  <2> HIDE DEF n
  <2>1. BitSize' = BitSize  BY <1>6 DEF BitSize
  <2>2. ASSUME NEW m \in 0 .. BitSize - 1
        PROVE  IsSet(m)' <=> (IsSet(m) /\ m # n)
    <3>1. /\ m \div WordBits \in 0 .. entries - 1
          /\ m % WordBits \in FullWord
          /\ m = (m \div WordBits) * WordBits + (m % WordBits)
      BY <1>1, <2>2, BitOfFrame
    <3>2. m = n <=> (m \div WordBits = i /\ m % WordBits = j)
      BY <1>7, <3>1
    <3> QED  BY <1>1, <1>6, <1>7, <3>1, <3>2 DEF IsSet
  <2> QED  BY <1>4, <2>1, <2>2 DEF Free
<1> QED  BY <1>4, <1>5, <1>6, <1>8

-----------------------------------------------------------------------------
(* Each action keeps the inductive invariant *)

\* PMM::init keeps the invariant.
LEMMA PmmInitKeepsIInv ==
    ASSUME FrameAllocatorConstants, IInv, PmmInit
    PROVE  IInv'
<1> DEFINE words == WordsFor(memmap)
           bytes == words * WordBytes
           hosts == RoomyRegions(memmap, bytes)
<1>1. /\ WordBits \in Nat \ {0} /\ WordBytes \in Nat \ {0}
      /\ TypeOK /\ memmap \in MemoryMaps /\ held = {} /\ foreign = {}
      /\ UNCHANGED <<call, held, foreign>>
  BY DEF FrameAllocatorConstants, IInv, Booting, PmmInit
<1>2. CASE hosts = {}
  <2>1. status' = "panic" /\ UNCHANGED <<memmap, bitmap, entries, addr>>
    BY <1>2 DEF PmmInit
  <2>2. TypeOK'  BY <1>1, <2>1 DEF TypeOK, BitSize
  <2> QED  BY <2>1, <2>2 DEF IInv, Booting, Partition
<1>3. CASE hosts # {}
  <2> DEFINE host == Min(hosts)
  <2>1. words \in Nat  BY <1>1, WordsForType
  <2>2. bytes \in Nat  BY <1>1, <2>1, SMT
  <2>3. memmap \in Seq(Region)  BY <1>1 DEF TypeOK
  <2>4. host \in hosts
    <3>1. hosts \in SUBSET Nat  BY <2>3 DEF UsableIn, RoomyRegions
    <3> HIDE DEF hosts
    <3> QED  BY <1>3, <3>1, MinIsLeast
  <2>5. /\ addr' = AddressOf(memmap[host].base)
        /\ memmap' = Carve(memmap, host, bytes)
        /\ entries' = words
        /\ bitmap' = [w \in 0 .. words - 1 |->
                        {j \in FullWord : w * WordBits + j \notin FreedFrames(memmap')}]
        /\ status' = IF FreeingPanics(memmap', words * WordBits) THEN "panic" ELSE "up"
    BY <1>3 DEF PmmInit
  <2> HIDE DEF words, bytes
  <2>6. memmap[host] \in Region /\ host \in DOMAIN memmap /\ bytes <= memmap[host].length
    <3>1. host \in DOMAIN memmap /\ memmap[host].length >= bytes
      BY <2>4 DEF UsableIn, RoomyRegions
    <3> HIDE DEF hosts, host
    <3>2. memmap[host] \in Region  BY <2>3, <3>1
    <3>3. memmap[host].length \in Nat  BY <3>2 DEF Region
    <3> QED  BY <2>2, <3>1, <3>2, <3>3
  <2> HIDE DEF hosts, host
  <2>7. TypeOK'
    <3>1. memmap' \in Seq(Region)  BY <2>2, <2>3, <2>5, <2>6, CarveType
    <3>2. bitmap' \in [0 .. entries' - 1 -> SUBSET FullWord]  BY <2>5
    <3>3. addr' \in [addr : Nat, null : BOOLEAN]  BY <2>5, <2>6 DEF AddressOf, Region
    <3>4. status' \in {"boot", "up", "panic", "fault"}  BY <2>5
    <3> QED  BY <1>1, <2>1, <2>5, <3>1, <3>2, <3>3, <3>4 DEF TypeOK
  <2>8. Booting'  BY <2>5 DEF Booting
  <2>9. Partition'
    <3> SUFFICES ASSUME status' = "up" PROVE Free' = Managed'
      BY <1>1 DEF Partition
    <3>1. FreedFrames(memmap') \subseteq 0 .. words * WordBits - 1
      BY <2>5 DEF FreeingPanics
    <3>2. BitSize' = words * WordBits  BY <2>5 DEF BitSize
    <3>3. ASSUME NEW n \in 0 .. words * WordBits - 1
          PROVE  IsSet(n)' <=> n \notin FreedFrames(memmap')
      <4>1. words * WordBits \in Nat  BY <1>1, <2>1, SMT
      <4>0. n \in Nat /\ n < words * WordBits  BY <3>3, <4>1
      <4>2. /\ n \div WordBits \in Nat
            /\ n % WordBits \in 0 .. WordBits - 1
            /\ n = (n \div WordBits) * WordBits + (n % WordBits)
        BY <1>1, <4>0, DivMod
      <4>3. n \div WordBits < words  BY <1>1, <2>1, <4>0, DivBelow
      <4>4. n \div WordBits \in 0 .. words - 1  BY <2>1, <4>2, <4>3
      <4> QED  BY <2>5, <4>2, <4>4 DEF IsSet, FullWord
    <3> QED  BY <3>1, <3>2, <3>3 DEF Free, Managed
  <2> QED  BY <2>7, <2>8, <2>9 DEF IInv
<1> QED  BY <1>2, <1>3

\* find_set keeps the invariant.
LEMMA AllocateFrameKeepsIInv ==
    ASSUME FrameAllocatorConstants, IInv, AllocateFrame
    PROVE  IInv'
<1>1. /\ TypeOK /\ Partition /\ status = "up" /\ status' = "up"
      /\ UNCHANGED <<memmap, entries, addr, foreign>>
  BY DEF IInv, AllocateFrame
<1>2. BitSize' = BitSize /\ Managed' = Managed  BY <1>1 DEF BitSize, Managed
<1>3. CASE OpenWords = {}
  <2>1. UNCHANGED <<bitmap, held>> /\ call' = Allocated(NullAddress)
    BY <1>3 DEF AllocateFrame
  <2>2. Free' = Free  BY <1>1, <2>1 DEF Free, IsSet, BitSize
  <2>3. TypeOK'  BY <1>1, <1>2, <2>1 DEF TypeOK, Allocated, NullAddress
  <2> QED  BY <1>1, <1>2, <2>1, <2>2, <2>3 DEF IInv, Booting, Partition
<1>4. CASE OpenWords # {}
  <2>1. PICK n \in Free :
          /\ Free' = Free \ {n}
          /\ held' = held \cup {n}
          /\ call' = Allocated(AddressOf(n * FrameSize))
          /\ bitmap' \in [0 .. entries - 1 -> SUBSET FullWord]
    BY <1>1, <1>4, AllocateTakesLeast
  <2>2. n \in 0 .. BitSize - 1  BY <2>1 DEF Free
  <2>3. TypeOK'
    <3>1. n \in Nat /\ n * FrameSize \in Nat
      BY <2>2, SMT DEF FrameAllocatorConstants
    <3>2. call' \in [op : {"none", "allocate", "release"}, at : [addr : Nat, null : BOOLEAN]]
      BY <2>1, <3>1 DEF Allocated, AddressOf
    <3>3. held' \subseteq 0 .. BitSize' - 1  BY <1>1, <1>2, <2>1, <2>2 DEF TypeOK
    <3> QED  BY <1>1, <1>2, <2>1, <3>2, <3>3 DEF TypeOK
  <2> QED  BY <1>1, <1>2, <2>1, <2>3 DEF IInv, Booting, Partition
<1> QED  BY <1>3, <1>4

\* A frame given back keeps the invariant.
LEMMA ReleaseFrameKeepsIInv ==
    ASSUME FrameAllocatorConstants, IInv, NEW a \in Addresses, ReleaseFrame(a)
    PROVE  IInv'
<1> DEFINE n == a \div FrameSize
<1>1. /\ TypeOK /\ Partition /\ status = "up" /\ a \in Nat
      /\ UNCHANGED <<memmap, entries, addr>>
      /\ call' = Released(a)
  BY DEF IInv, ReleaseFrame, FrameAllocatorConstants
<1>2. BitSize' = BitSize /\ Managed' = Managed  BY <1>1 DEF BitSize, Managed
<1>3. CASE a % FrameSize = 0 /\ Clearable(n)
  <2>1. /\ n \in 0 .. BitSize - 1 /\ n \notin Free
        /\ Free' = Free \cup {n}
        /\ held' = held \ {n}
        /\ foreign' = IF n \in held THEN foreign ELSE foreign \cup {n}
    BY <1>1, <1>3, ReleaseGives
  <2>2. /\ status' = status
        /\ bitmap' = [bitmap EXCEPT ![n \div WordBits] = @ \ {n % WordBits}]
    BY <1>3 DEF ReleaseFrame
  <2> HIDE DEF n
  <2>3. TypeOK'
    <3>1. bitmap' \in [0 .. entries - 1 -> SUBSET FullWord]
      BY <1>1, <2>2 DEF TypeOK
    <3>2. held' \subseteq 0 .. BitSize' - 1 /\ foreign' \subseteq 0 .. BitSize' - 1
      BY <1>1, <1>2, <2>1 DEF TypeOK
    <3> QED  BY <1>1, <2>2, <3>1, <3>2 DEF TypeOK, Released, AddressOf
  <2>4. Partition'
    <3>1. n \in held => n \in Managed \cup foreign  BY <1>1 DEF Partition
    <3>2. n \notin held => n \notin Managed \cup foreign  BY <1>1, <2>1 DEF Partition
    <3> QED  BY <1>1, <1>2, <2>1, <2>2, <3>1, <3>2 DEF Partition
  <2> QED  BY <1>1, <2>2, <2>3, <2>4 DEF IInv, Booting
<1>4. CASE ~(a % FrameSize = 0 /\ Clearable(n))
  <2>1. status' = "panic" /\ UNCHANGED <<bitmap, held, foreign>>
    BY <1>4 DEF ReleaseFrame
  <2>2. TypeOK'  BY <1>1, <1>2, <2>1 DEF TypeOK, Released, AddressOf
  <2> QED  BY <2>1, <2>2 DEF IInv, Booting, Partition
<1> QED  BY <1>3, <1>4

\* Losing the bitmap and running without it leave the record of frames alone.
LEMMA ConstructorKeepsIInv ==
    ASSUME FrameAllocatorConstants, IInv, RunConstructor \/ CallWithoutBitmap
    PROVE  IInv'
<1>1. /\ TypeOK /\ status = "up"
      /\ UNCHANGED <<memmap, bitmap, entries, held, foreign>>
  BY DEF IInv, RunConstructor, CallWithoutBitmap
<1>2. Free' = Free /\ Managed' = Managed /\ BitSize' = BitSize
  BY <1>1 DEF Free, IsSet, BitSize, Managed
<1>3. CASE RunConstructor
  <2>1. TypeOK'  BY <1>1, <1>2, <1>3 DEF RunConstructor, TypeOK, NullAddress
  <2> QED  BY <1>1, <1>2, <1>3, <2>1 DEF RunConstructor, IInv, Booting, Partition
<1>4. CASE CallWithoutBitmap
  <2>1. status' \in {"fault", "panic"}  BY <1>4 DEF CallWithoutBitmap
  <2>2. call' \in [op : {"none", "allocate", "release"}, at : [addr : Nat, null : BOOLEAN]]
    <3>1. \/ call' = Allocated(NullAddress)
          \/ \E a \in Addresses : call' = Released(a)
      BY <1>4 DEF CallWithoutBitmap
    <3>2. CASE call' = Allocated(NullAddress)  BY <3>2 DEF Allocated, NullAddress
    <3>3. ASSUME NEW a \in Addresses, call' = Released(a)
          PROVE  call' \in [op : {"none", "allocate", "release"},
                            at : [addr : Nat, null : BOOLEAN]]
      <4>1. a \in Nat  BY DEF FrameAllocatorConstants
      <4> QED  BY <3>3, <4>1 DEF Released, AddressOf
    <3> QED  BY <3>1, <3>2, <3>3
  <2>3. addr' = addr  BY <1>4 DEF CallWithoutBitmap
  <2>4. TypeOK'  BY <1>1, <1>2, <2>1, <2>2, <2>3 DEF TypeOK
  <2> QED  BY <2>1, <2>4 DEF IInv, Booting, Partition
<1> QED  BY <1>3, <1>4

\* IInv holds in every state the kernel reaches.
THEOREM InductiveInvariant == Spec => []IInv
<1>1. Init => IInv
  <2> SUFFICES ASSUME Init PROVE IInv  OBVIOUS
  <2>1. memmap \in Seq(Region)
    BY FrameAllocatorConstants DEF Init, FrameAllocatorConstants, WellFormed
  <2>2. bitmap \in [0 .. entries - 1 -> SUBSET FullWord]
    <3>1. 0 .. entries - 1 = {}  BY DEF Init
    <3> QED  BY <3>1 DEF Init
  <2>3. TypeOK  BY <2>1, <2>2 DEF Init, TypeOK, NoCall, NullAddress
  <2> QED  BY <2>3 DEF Init, IInv, Booting, Partition
<1>2. IInv /\ [Next]_vars => IInv'
  <2> SUFFICES ASSUME IInv, [Next]_vars PROVE IInv'  OBVIOUS
  <2> USE FrameAllocatorConstants
  <2>1. CASE PmmInit  BY <2>1, PmmInitKeepsIInv
  <2>2. CASE AllocateFrame  BY <2>2, AllocateFrameKeepsIInv
  <2>3. ASSUME NEW a \in Addresses, ReleaseFrame(a) PROVE IInv'
    BY <2>3, ReleaseFrameKeepsIInv
  <2>4. CASE RunConstructor  BY <2>4, ConstructorKeepsIInv
  <2>5. CASE CallWithoutBitmap  BY <2>5, ConstructorKeepsIInv
  <2>6. CASE UNCHANGED vars
    BY <2>6 DEF vars, IInv, TypeOK, Booting, Partition, Free, IsSet, BitSize, Managed
  <2> QED  BY <2>1, <2>2, <2>3, <2>4, <2>5, <2>6 DEF Next
<1> QED  BY <1>1, <1>2, PTL DEF Spec

\* Every variable keeps its shape (class Bitmap, PhysicalMemoryManager).
THEOREM TypeCorrect == Spec => []TypeOK
<1>1. IInv => TypeOK  BY DEF IInv
<1> QED  BY <1>1, InductiveInvariant, PTL

\* allocate_frame and release_frame never lose a frame the manager was given
\* and never have one both free and handed out, whatever the callers give back.
THEOREM FramesArePartitioned == Spec => []Partition
<1>1. IInv => Partition  BY DEF IInv
<1> QED  BY <1>1, InductiveInvariant, PTL

-----------------------------------------------------------------------------
(* The bitmap implements the pool of frame numbers *)

\* PMM::init starts the pool, or stops the kernel before it.
LEMMA PmmInitStartsPool ==
    ASSUME FrameAllocatorConstants, IInv, IInv', PmmInit
    PROVE  Pool!Start
<1>1. status = "boot" /\ status' \in {"panic", "up"} /\ call' = call
  BY DEF PmmInit
<1>2. status' = "up" => ~addr'.null
  BY DEF PmmInit, AddressOf
<1>3. BitSize' \in Nat
  <2>1. WordBits \in Nat /\ entries' \in Nat  BY DEF IInv, TypeOK, FrameAllocatorConstants
  <2>2. \A e, w \in Nat : e * w \in Nat  BY SMT
  <2>3. entries' * WordBits \in Nat  BY <2>1, <2>2
  <2> QED  BY <2>3 DEF BitSize
<1>4. Free' \in SUBSET (0 .. BitSize' - 1)  BY DEF Free
<1> QED  BY <1>1, <1>2, <1>3, <1>4 DEF Pool!Start, PoolMode

\* find_set takes a frame from the pool, or finds none.
LEMMA AllocateFrameTakes ==
    ASSUME FrameAllocatorConstants, IInv, AllocateFrame
    PROVE  Pool!Take \/ Pool!TakeNone
<1>1. /\ TypeOK /\ status = "up" /\ status' = "up" /\ ~addr.null
      /\ UNCHANGED <<memmap, entries, addr>>
  BY DEF IInv, AllocateFrame
<1>2. BitSize' = BitSize  BY <1>1 DEF BitSize
<1>3. CASE OpenWords = {}
  <2>1. UNCHANGED <<bitmap, held>> /\ call' = Allocated(NullAddress)
    BY <1>3 DEF AllocateFrame
  <2>2. Free' = Free  BY <1>1, <2>1 DEF Free, IsSet, BitSize
  <2>3. Free = {}
    <3> SUFFICES ASSUME NEW n \in Free PROVE FALSE  OBVIOUS
    <3>1. /\ n \div WordBits \in 0 .. entries - 1
          /\ n % WordBits \in FullWord \ bitmap[n \div WordBits]
      BY <1>1, BitOfFrame DEF Free, IsSet, TypeOK
    <3> QED  BY <1>3, <3>1 DEF OpenWords
  <2> QED
    BY <1>1, <1>2, <2>1, <2>2, <2>3 DEF PoolMode, Pool!TakeNone, Pool!Allocated, Pool!NullAddress,
       Allocated, NullAddress
<1>4. CASE OpenWords # {}
  <2>1. PICK n \in Free :
          /\ \A m \in Free : n <= m
          /\ Free' = Free \ {n}
          /\ call' = Allocated(AddressOf(n * FrameSize))
    BY <1>1, <1>4, AllocateTakesLeast
  <2> QED
    BY <1>1, <1>2, <2>1 DEF PoolMode, Pool!Take, Pool!Allocated, Pool!AddressOf, Allocated, AddressOf
<1> QED  BY <1>3, <1>4

\* A frame given back goes to the pool, or is turned away.
LEMMA ReleaseFrameGives ==
    ASSUME FrameAllocatorConstants, IInv, NEW a \in Addresses, ReleaseFrame(a)
    PROVE  Pool!Give(a) \/ Pool!Refuse(a)
<1> DEFINE n == a \div FrameSize
<1>1. /\ TypeOK /\ status = "up" /\ ~addr.null
      /\ UNCHANGED <<memmap, entries, addr>>
      /\ call' = Released(a)
  BY DEF IInv, ReleaseFrame
<1>2. BitSize' = BitSize  BY <1>1 DEF BitSize
<1>3. n \in Nat /\ BitSize \in Nat
  <2>1. a \in Nat /\ FrameSize \in Nat \ {0} /\ entries \in Nat
    BY <1>1 DEF FrameAllocatorConstants, TypeOK
  <2> QED  BY <2>1, DivMod, BitSizeType
<1>4. Clearable(n) <=> n < BitSize /\ n \notin Free
  BY <1>3 DEF Clearable, Free
<1>5. Pool!Released(a) = Released(a)
  BY DEF Pool!Released, Pool!AddressOf, Released, AddressOf
<1>6. CASE a % FrameSize = 0 /\ Clearable(n)
  <2>1. Free' = Free \cup {n}  BY <1>1, <1>6, ReleaseGives
  <2>2. status' = status  BY <1>6 DEF ReleaseFrame
  <2> QED  BY <1>1, <1>2, <1>4, <1>5, <1>6, <2>1, <2>2 DEF PoolMode, Pool!Give, Pool!IsFrame
<1>7. CASE ~(a % FrameSize = 0 /\ Clearable(n))
  <2>1. status' = "panic" /\ bitmap' = bitmap  BY <1>7 DEF ReleaseFrame
  <2>2. Free' = Free  BY <1>1, <2>1 DEF Free, IsSet, BitSize
  <2> QED  BY <1>1, <1>2, <1>4, <1>5, <1>7, <2>1, <2>2 DEF PoolMode, Pool!Refuse, Pool!IsFrame
<1> QED  BY <1>6, <1>7

\* A constructor that runs after init loses the pool for good.
LEMMA LosingTheBitmap ==
    ASSUME FrameAllocatorConstants, IInv, RunConstructor \/ CallWithoutBitmap
    PROVE  Pool!Lose \/ Pool!StopLost
<1>1. status = "up" /\ UNCHANGED <<memmap, bitmap, entries>>
  BY DEF RunConstructor, CallWithoutBitmap
<1>2. Free' = Free /\ BitSize' = BitSize  BY <1>1 DEF Free, IsSet, BitSize
<1>3. CASE RunConstructor
  BY <1>1, <1>2, <1>3 DEF PoolMode, RunConstructor, NullAddress, Pool!Lose
<1>4. CASE CallWithoutBitmap
  <2>1. status' \in {"fault", "panic"} /\ addr.null
    BY <1>4 DEF CallWithoutBitmap
  <2>2. call' \in {Pool!Allocated(Pool!NullAddress)} \cup {Pool!Released(a) : a \in Addresses}
    BY <1>4 DEF CallWithoutBitmap, Allocated, Released, NullAddress, AddressOf,
                Pool!Allocated, Pool!Released, Pool!NullAddress, Pool!AddressOf
  <2> QED  BY <1>1, <1>2, <2>1, <2>2 DEF PoolMode, Pool!StopLost
<1> QED  BY <1>3, <1>4

\* The bitmap manager is a pool: lowest free frame first, refused only when no
\* frame is free, stopped only by a senseless release or the lost bitmap.
THEOREM BitmapImplementsPool == Spec => ImplementsPool
<1>1. Init => Pool!PoolInit
  <2> SUFFICES ASSUME Init PROVE Pool!PoolInit  OBVIOUS
  <2>1. BitSize = 0
    <3>1. WordBits \in Nat  BY FrameAllocatorConstants DEF FrameAllocatorConstants
    <3> QED  BY <3>1 DEF Init, BitSize
  <2>2. Free = {}  BY <2>1 DEF Free
  <2> QED  BY <2>1, <2>2 DEF Init, Pool!PoolInit, PoolMode, NoCall, NullAddress,
              Pool!NoCall, Pool!NullAddress
<1>2. IInv /\ IInv' /\ [Next]_vars => [Pool!PoolNext]_(Pool!poolVars)
  <2> SUFFICES ASSUME IInv, IInv', [Next]_vars PROVE [Pool!PoolNext]_(Pool!poolVars)
    OBVIOUS
  <2> USE FrameAllocatorConstants DEF Pool!PoolNext
  <2>1. CASE PmmInit  BY <2>1, PmmInitStartsPool
  <2>2. CASE AllocateFrame  BY <2>2, AllocateFrameTakes
  <2>3. ASSUME NEW a \in Addresses, ReleaseFrame(a) PROVE Pool!PoolNext
    BY <2>3, ReleaseFrameGives
  <2>4. CASE RunConstructor  BY <2>4, LosingTheBitmap
  <2>5. CASE CallWithoutBitmap  BY <2>5, LosingTheBitmap
  <2>6. CASE UNCHANGED vars
    BY <2>6 DEF vars, PoolMode, Pool!poolVars, Free, IsSet, BitSize
  <2> QED  BY <2>1, <2>2, <2>3, <2>4, <2>5, <2>6 DEF Next
<1> QED  BY <1>1, <1>2, InductiveInvariant, PTL DEF Spec, ImplementsPool, Pool!PoolSpec

-----------------------------------------------------------------------------
(* What the rounding of init and free_region makes of the memory map *)

\* Once set up: every usable region still ends with a whole frame, its frames
\* have a bit, and none of its bytes holds a word of the bitmap.
Geometry ==
    status = "up" =>
        /\ FreedFrames(memmap) \subseteq 0 .. BitSize - 1
        /\ \A i \in UsableIn(memmap) : RegionEnd(memmap[i]) % FrameSize = 0
        /\ addr.null \/ \A i \in UsableIn(memmap) :
              \/ RegionEnd(memmap[i]) <= addr.addr
              \/ addr.addr + entries * WordBytes <= memmap[i].base

\* A region that ends with a whole frame: free_region frees exactly the frames
\* all of whose bytes it holds.
LEMMA WholeFrames ==
    ASSUME FrameAllocatorConstants, NEW r \in Region, RegionEnd(r) % FrameSize = 0,
           NEW f \in Nat
    PROVE  f \in RegionFrames(r) <=>
              r.base <= f * FrameSize /\ f * FrameSize + FrameSize - 1 < RegionEnd(r)
<1> DEFINE q == (r.base + FrameSize - 1) \div FrameSize
           s == q * FrameSize - r.base
           e == RegionEnd(r) \div FrameSize
<1>1. FrameSize \in Nat \ {0} /\ r.base \in Nat /\ r.length \in Nat /\ RegionEnd(r) \in Nat
  BY DEF FrameAllocatorConstants, Region, RegionEnd
<1>2. q \in Nat /\ s \in 0 .. FrameSize - 1 /\ r.base = q * FrameSize - s
  <2> DEFINE x == r.base + FrameSize - 1
             rest == x % FrameSize
  <2>1. x \in Nat  BY <1>1
  <2>2. /\ q \in Nat /\ rest \in 0 .. FrameSize - 1
        /\ x = q * FrameSize + rest
    BY <1>1, <2>1, DivMod
  <2>3. q * FrameSize \in Nat  BY <1>1, <2>2, SMT
  <2> HIDE DEF q, rest
  <2>4. q * FrameSize + rest = r.base + FrameSize - 1  BY <2>2
  <2> QED  BY <1>1, <2>2, <2>3, <2>4
<1>3. e \in Nat /\ RegionEnd(r) = e * FrameSize
  <2>1. e \in Nat /\ RegionEnd(r) = e * FrameSize + 0  BY <1>1, DivMod
  <2>2. e * FrameSize \in Nat  BY <1>1, <2>1, SMT
  <2> HIDE DEF e
  <2> QED  BY <2>1, <2>2
<1>4. RoundUp(r.base, FrameSize) \div FrameSize = q
  <2>1. RoundUp(r.base, FrameSize) = q * FrameSize + 0
    <3>1. RoundUp(r.base, FrameSize) = q * FrameSize  BY <1>1, RoundUpIs
    <3>2. q * FrameSize \in Nat  BY <1>1, <1>2, SMT
    <3> HIDE DEF q
    <3> QED  BY <3>1, <3>2
  <2> HIDE DEF q
  <2>2. 0 \in 0 .. FrameSize - 1  BY <1>1
  <2> QED  BY <1>1, <1>2, <2>1, <2>2, DivModUnique
<1> HIDE DEF q, e
<1>5. q * FrameSize \in Nat /\ e * FrameSize \in Nat  BY <1>1, <1>2, <1>3, SMT
<1>6. r.length = e * FrameSize - q * FrameSize + s
  BY <1>1, <1>2, <1>3, <1>5 DEF RegionEnd
<1> HIDE DEF s
<1>7. q <= e
  <2> SUFFICES ASSUME e + 1 <= q PROVE FALSE  BY <1>2, <1>3
  <2>1. (e + 1) * FrameSize <= q * FrameSize  BY <1>1, <1>2, <1>3, TimesMonotone
  <2>2. (e + 1) * FrameSize = e * FrameSize + FrameSize  BY <1>1, <1>3, SMT
  <2> QED  BY <1>1, <1>2, <1>5, <1>6, <2>1, <2>2
<1>8. r.length \div FrameSize = e - q
  <2> DEFINE d == e - q
  <2>1. d \in Nat /\ e = q + d  BY <1>2, <1>3, <1>7
  <2> HIDE DEF d
  <2>2. (q + d) * FrameSize = q * FrameSize + d * FrameSize /\ d * FrameSize \in Nat
    BY <1>1, <1>2, <2>1, SMT
  <2>3. r.length = d * FrameSize + s  BY <1>1, <1>2, <1>5, <1>6, <2>1, <2>2
  <2>4. (d * FrameSize + s) \div FrameSize = d  BY <1>1, <1>2, <2>1, DivModUnique
  <2> QED  BY <2>3, <2>4 DEF d
<1>9. f \in RegionFrames(r) <=> q <= f /\ f + 1 <= e
  BY <1>2, <1>3, <1>4, <1>7, <1>8 DEF RegionFrames
<1>10. f * FrameSize \in Nat  BY <1>1, SMT
<1>11. q <= f <=> r.base <= f * FrameSize
  <2>1. q <= f => q * FrameSize <= f * FrameSize  BY <1>1, <1>2, TimesMonotone
  <2>2. f + 1 <= q => (f + 1) * FrameSize <= q * FrameSize  BY <1>1, <1>2, TimesMonotone
  <2>3. (f + 1) * FrameSize = f * FrameSize + FrameSize  BY <1>1, SMT
  <2> QED  BY <1>1, <1>2, <1>5, <1>10, <2>1, <2>2, <2>3
<1>12. f + 1 <= e <=> f * FrameSize + FrameSize - 1 < RegionEnd(r)
  <2>1. f + 1 <= e <=> (f + 1) * FrameSize <= e * FrameSize  BY <1>1, <1>3, TimesMonotone
  <2>2. (f + 1) * FrameSize = f * FrameSize + FrameSize  BY <1>1, SMT
  <2> QED  BY <1>1, <1>3, <1>5, <1>10, <2>1, <2>2
<1> QED  BY <1>9, <1>11, <1>12

\* The bitmap takes its room off the front of its region; what is left ends
\* where the region ended, and the other regions lie elsewhere.
LEMMA PmmInitMakesGeometry ==
    ASSUME FrameAllocatorConstants, IInv, PmmInit, status' = "up"
    PROVE  Geometry'
<1> DEFINE words == WordsFor(memmap)
           bytes == words * WordBytes
           hosts == RoomyRegions(memmap, bytes)
           host == Min(hosts)
<1>1. /\ FrameSize \in Nat \ {0} /\ WordBytes \in Nat \ {0}
      /\ memmap \in MemoryMaps /\ WellFormed(memmap)
  BY DEF FrameAllocatorConstants, IInv, Booting, PmmInit
<1>2. /\ hosts # {}
      /\ addr' = AddressOf(memmap[host].base)
      /\ memmap' = Carve(memmap, host, bytes)
      /\ entries' = words
      /\ ~FreeingPanics(memmap', words * WordBits)
  BY DEF PmmInit
<1>3. words \in Nat  BY <1>1, WordsForType
<1>4. bytes \in Nat  BY <1>1, <1>3, SMT
<1>5. memmap \in Seq(Region)  BY <1>1 DEF WellFormed
<1>6. host \in hosts
  <2>1. hosts \in SUBSET Nat  BY <1>5 DEF UsableIn, RoomyRegions
  <2> HIDE DEF hosts
  <2> QED  BY <1>2, <2>1, MinIsLeast
<1>7. FreedFrames(memmap') \subseteq 0 .. BitSize' - 1
  BY <1>2 DEF FreeingPanics, BitSize
<1>8. host \in UsableIn(memmap) /\ memmap[host].length >= bytes
  BY <1>6 DEF RoomyRegions
<1> HIDE DEF words, hosts, host
<1>9. entries' * WordBytes = bytes  BY <1>2
<1> HIDE DEF bytes
<1>10. host \in DOMAIN memmap  BY <1>8 DEF UsableIn
<1>11. \A i \in DOMAIN memmap :
          /\ memmap[i] \in Region /\ memmap[i].base \in Nat /\ memmap[i].length \in Nat
  <2>1. \A i \in DOMAIN memmap : memmap[i] \in Region  BY <1>5
  <2> QED  BY <2>1 DEF Region
<1>12. /\ DOMAIN memmap' = DOMAIN memmap
       /\ memmap'[host] = [base |-> memmap[host].base + bytes,
                           length |-> memmap[host].length - bytes,
                           type |-> memmap[host].type]
       /\ \A i \in DOMAIN memmap : i # host => memmap'[i] = memmap[i]
  BY <1>2, <1>5, <1>10 DEF Carve
<1>13. UsableIn(memmap') = UsableIn(memmap)
  BY <1>12 DEF UsableIn
<1>14. \A i \in UsableIn(memmap) : RegionEnd(memmap[i]) % FrameSize = 0
  <2> TAKE i \in UsableIn(memmap)
  <2> DEFINE b == memmap[i].base \div FrameSize
             l == memmap[i].length \div FrameSize
  <2>1. i \in DOMAIN memmap  BY DEF UsableIn
  <2>2. memmap[i].base % FrameSize = 0 /\ memmap[i].length % FrameSize = 0
    BY <1>1 DEF WellFormed
  <2>3. /\ b \in Nat /\ memmap[i].base = b * FrameSize + 0
        /\ l \in Nat /\ memmap[i].length = l * FrameSize + 0
    BY <1>1, <1>11, <2>1, <2>2, DivMod
  <2> HIDE DEF b, l
  <2>4. b * FrameSize \in Nat /\ l * FrameSize \in Nat
        /\ (b + l) * FrameSize = b * FrameSize + l * FrameSize
    BY <1>1, <2>3, SMT
  <2>5. RegionEnd(memmap[i]) = (b + l) * FrameSize + 0  BY <2>3, <2>4 DEF RegionEnd
  <2>6. b + l \in Nat /\ 0 \in 0 .. FrameSize - 1  BY <1>1, <2>3
  <2>7. ((b + l) * FrameSize + 0) % FrameSize = 0  BY <1>1, <2>6, DivModUnique
  <2> QED  BY <2>5, <2>7
<1>15. \A i \in UsableIn(memmap) : RegionEnd(memmap'[i]) = RegionEnd(memmap[i])
  <2> TAKE i \in UsableIn(memmap)
  <2>1. i \in DOMAIN memmap  BY DEF UsableIn
  <2>2. CASE i # host  BY <1>12, <2>1, <2>2
  <2>3. CASE i = host  BY <1>4, <1>8, <1>11, <1>12, <2>1, <2>3 DEF RegionEnd
  <2> QED  BY <2>2, <2>3
<1>16. \A i \in UsableIn(memmap') :
          \/ RegionEnd(memmap'[i]) <= addr'.addr
          \/ addr'.addr + entries' * WordBytes <= memmap'[i].base
  <2> TAKE i \in UsableIn(memmap')
  <2>1. i \in UsableIn(memmap) /\ i \in DOMAIN memmap  BY <1>13 DEF UsableIn
  <2>2. addr'.addr = memmap[host].base  BY <1>2 DEF AddressOf
  <2>3. CASE i = host  BY <1>4, <1>9, <1>11, <1>12, <2>1, <2>2, <2>3
  <2>4. CASE i # host
    <3>1. \/ RegionEnd(memmap[i]) <= memmap[host].base
          \/ RegionEnd(memmap[host]) <= memmap[i].base
      BY <1>1, <1>8, <2>1, <2>4 DEF WellFormed
    <3>2. memmap[host].base + bytes <= RegionEnd(memmap[host])
      BY <1>4, <1>8, <1>10, <1>11 DEF RegionEnd
    <3> QED
      BY <1>4, <1>9, <1>10, <1>11, <1>12, <1>15, <2>1, <2>2, <2>4, <3>1, <3>2 DEF RegionEnd
  <2> QED  BY <2>3, <2>4
<1> QED  BY <1>7, <1>13, <1>14, <1>15, <1>16 DEF Geometry

\* The frames the manager was given are those the memory map has whole.
LEMMA ManagedAreUsable ==
    ASSUME FrameAllocatorConstants, IInv, Geometry
    PROVE  ManagesUsableFrames
<1> SUFFICES ASSUME status = "up"
             PROVE  (Free \cup held) \ foreign = {f \in 0 .. BitSize - 1 : FrameIsUsable(f)}
  BY DEF ManagesUsableFrames
<1>1. TypeOK /\ Partition  BY DEF IInv
<1>2. BitSize \in Nat /\ entries * WordBytes \in Nat /\ FrameSize \in Nat \ {0}
  BY <1>1, BitSizeType, SMT DEF TypeOK, FrameAllocatorConstants
<1>3. (Free \cup held) \ foreign = Managed  BY <1>1 DEF Partition
<1>4. Managed \subseteq 0 .. BitSize - 1  BY DEF Geometry, Managed
<1>5. ASSUME NEW f \in 0 .. BitSize - 1
      PROVE  f \in Managed <=> FrameIsUsable(f)
  <2>1. f \in Nat /\ f * FrameSize \in Nat
    <3>1. f \in Nat  BY <1>2
    <3> QED  BY <1>2, <3>1, SMT
  <2>2. \A i \in UsableIn(memmap) :
           /\ memmap[i].base \in Nat /\ RegionEnd(memmap[i]) \in Nat
           /\ f \in RegionFrames(memmap[i]) <=>
                 /\ memmap[i].base <= f * FrameSize
                 /\ f * FrameSize + FrameSize - 1 < RegionEnd(memmap[i])
    <3> TAKE i \in UsableIn(memmap)
    <3>1. memmap \in Seq(Region) /\ i \in DOMAIN memmap  BY <1>1 DEF TypeOK, UsableIn
    <3>2. memmap[i] \in Region  BY <3>1
    <3>3. RegionEnd(memmap[i]) % FrameSize = 0  BY DEF Geometry
    <3>4. memmap[i].base \in Nat /\ RegionEnd(memmap[i]) \in Nat  BY <3>2 DEF Region, RegionEnd
    <3> QED  BY <2>1, <3>2, <3>3, <3>4, WholeFrames
  <2>3. f \in Managed <=> \E i \in UsableIn(memmap) : f \in RegionFrames(memmap[i])
    BY DEF Managed, FreedFrames
  <2>4. addr.addr \in Nat  BY <1>1 DEF TypeOK
  <2>5. ASSUME NEW i \in UsableIn(memmap), memmap[i].base <= f * FrameSize,
               f * FrameSize + FrameSize - 1 < RegionEnd(memmap[i])
        PROVE  \/ addr.null
               \/ f * FrameSize + FrameSize - 1 < addr.addr
               \/ f * FrameSize >= addr.addr + entries * WordBytes
    BY <1>2, <2>1, <2>2, <2>4, <2>5 DEF Geometry
  <2> QED  BY <2>2, <2>3, <2>5 DEF FrameIsUsable
<1> QED  BY <1>3, <1>4, <1>5

\* The rounding of PhysicalMemoryManager::init and free_region gives away no
\* byte that is not usable or that holds the bitmap, and loses no whole frame,
\* for every memory map the boot protocol allows and every frame size.
THEOREM RoundingLosesNothing == Spec => []ManagesUsableFrames
<1>1. Init => Geometry  BY DEF Init, Geometry
<1>2. IInv /\ Geometry /\ [Next]_vars => Geometry'
  <2> SUFFICES ASSUME IInv, Geometry, [Next]_vars, status' = "up" PROVE Geometry'
    BY DEF Geometry
  <2>1. CASE PmmInit  BY <2>1, FrameAllocatorConstants, PmmInitMakesGeometry
  <2>2. CASE AllocateFrame \/ (\E a \in Addresses : ReleaseFrame(a)) \/ UNCHANGED vars
    <3>1. status = "up" /\ UNCHANGED <<memmap, entries, addr>>
      BY <2>2 DEF AllocateFrame, ReleaseFrame, vars
    <3> QED  BY <3>1 DEF Geometry, BitSize
  <2>3. CASE RunConstructor
    <3>1. status = "up" /\ UNCHANGED <<memmap, entries>> /\ addr'.null
      BY <2>3 DEF RunConstructor, NullAddress
    <3> QED  BY <3>1 DEF Geometry, BitSize
  <2>4. CASE CallWithoutBitmap
    <3>1. status' \in {"fault", "panic"}  BY <2>4 DEF CallWithoutBitmap
    <3> QED  BY <3>1
  <2> QED  BY <2>1, <2>2, <2>3, <2>4 DEF Next
<1>3. IInv /\ Geometry => ManagesUsableFrames
  BY FrameAllocatorConstants, ManagedAreUsable
<1> QED  BY <1>1, <1>2, <1>3, InductiveInvariant, PTL DEF Spec
=============================================================================
