---------------------------- MODULE AddressSpace ----------------------------
(***************************************************************************)
(* The kernel's address space: mem/address_space.cpp and page_table.cpp,   *)
(* four levels of tables kept in frames of the physical memory manager,    *)
(* whose pool FramePool describes (lowest free frame first, a bad release  *)
(* stops the machine).                                                     *)
(*                                                                         *)
(* Pages and frames are numbers.  The bootloader's direct map (HHDM) puts  *)
(* frame f at page HhdmBase + f; the kernel reaches its own tables through *)
(* it, and AddressSpace::allocate hands out addresses in it.               *)
(*                                                                         *)
(* One core, interrupts never enabled: each call is one action.  The       *)
(* machine's memory is a record the steps of a call hand to each other:    *)
(*   pool    free frames                                                   *)
(*   table   table frame -> present index -> [frame, flags]                *)
(*   root    the PML4's frame (m_phys_pml4), 0 before there is one         *)
(*   cr3     root, or 0 while the bootloader's tables map everything       *)
(*   halt    "no", or why the machine stopped                              *)
(***************************************************************************)
EXTENDS Integers, SequencesExt, FiniteSetsExt, Functions

CONSTANTS
    Fanout,         \* ENTRIES_PER_TABLE, 512
    HhdmBase,       \* the page of HHDM address 0
    Machines,       \* what the bootloader and the linker may hand the kernel
    PageCounts,     \* numbers of pages the heap asks for
    MaxLive         \* bound: allocations outstanding at once

VARIABLES
    machine,        \* the machine this kernel booted on
    mem,            \* the machine's memory, see above
    tlb,            \* cached translations: page -> frame
    live,           \* allocations handed out: first page -> frames, in order
    fragmented      \* history: some allocation got frames not in a row

vars == <<machine, mem, tlb, live, fragmented>>

\* A run of pages mapped to a run of frames with the same flags.
Span == [virt : Nat, phys : Nat, pages : Nat, flags : SUBSET {"W", "XD", "PAT"}]

\* limit: frames the bitmap describes; direct: frames of the first 4 GiB;
\* sections: requests, text, rodata, ctor, ksyms, data, then the framebuffer.
Machine == [limit : Nat, usable : SUBSET Nat, direct : Nat \ {0}, sections : Seq(Span)]

-----------------------------------------------------------------------------
(* Pages and flags *)

Hhdm(f) == HhdmBase + f

\* Pages behind one entry of a table of each level, and behind a PML4.
PagesBehind == <<Fanout * Fanout * Fanout, Fanout * Fanout, Fanout, 1>>
PageEnd == Fanout * PagesBehind[1]

\* Without the mask.
IndexUnmasked(v, level) == v \div PagesBehind[level]

\* pml4_index, pdp_index, pd_index, pt_index
Index(v, level) == (v \div PagesBehind[level]) % Fanout

-----------------------------------------------------------------------------
(* What the bootloader and the linker promise *)

PageOf(r, k) == r.virt + k
FrameOf(r, k) == r.phys + k

\* The direct map of the first 4 GiB.
FourGiB(mach) ==
    [virt |-> HhdmBase, phys |-> 0, pages |-> mach.direct, flags |-> {"W", "XD"}]

\* The frames of the first 4 GiB and those the bitmap describes.
DirectFrames(mach) == (0 .. mach.direct - 1) \cup (0 .. mach.limit - 1)

\* The framebuffer lies in the direct map, at its place, and is mapped writable.
InPlace(r) == "W" \in r.flags /\ r.virt = Hhdm(r.phys)

\* The kernel is linked into the topmost 2 GiB: no PML4 entry leads both to it and
\* to the direct map.
Elsewhere(mach, r) ==
    \A k \in 0 .. r.pages - 1 : \A f \in DirectFrames(mach) :
        Index(PageOf(r, k), 1) # Index(Hhdm(f), 1)

\* A page that two sections share has the same frame in both.
Agree(r, q) ==
    \A k \in 0 .. r.pages - 1 : \A l \in 0 .. q.pages - 1 :
        PageOf(r, k) = PageOf(q, l) => FrameOf(r, k) = FrameOf(q, l)

Fits(r) == r.virt + r.pages <= PageEnd

\* Frame 0 is never usable, and every page has an address.
Promised(mach) ==
    /\ mach.usable \subseteq 1 .. mach.limit - 1
    /\ Hhdm(mach.limit) <= PageEnd /\ Fits(FourGiB(mach))
    /\ \A s \in DOMAIN mach.sections :
          LET r == mach.sections[s] IN
          /\ Fits(r)
          /\ InPlace(r) \/ Elsewhere(mach, r)
          /\ \A t \in DOMAIN mach.sections : Agree(r, mach.sections[t])

\* The tables on the way to two pages are the same down to this level.
SameWay(v, w, level) == \A l \in 1 .. level : Index(v, l) = Index(w, l)

\* A section that may not be written has no part of its way to itself that a
\* writable one needs too: an earlier section has been there.
GoesAfterAnother(mach, s, k, v) ==
    \A level \in 1 .. 3 :
        SameWay(PageOf(mach.sections[s], k), v, level) =>
            \E q \in 1 .. s - 1 : \E j \in 0 .. mach.sections[q].pages - 1 :
                SameWay(PageOf(mach.sections[s], k), PageOf(mach.sections[q], j), level)

\* The image as linker.ld lays it out while it fits behind one last table, its
\* requests first: what the protection of the sections depends on and nobody
\* promises.
LaidOut(mach) ==
    \A s \in DOMAIN mach.sections :
        LET r == mach.sections[s] IN
        /\ InPlace(r) =>
              /\ "XD" \in r.flags
              /\ \A k \in 0 .. r.pages - 1 : FrameOf(r, k) \notin mach.usable \cup {0}
        /\ \A t \in DOMAIN mach.sections :
              LET q == mach.sections[t] IN
              \A k \in 0 .. r.pages - 1 : \A l \in 0 .. q.pages - 1 :
                  /\ PageOf(r, k) = PageOf(q, l) =>
                        /\ "W" \in r.flags <=> "W" \in q.flags
                        /\ "XD" \in r.flags <=> "XD" \in q.flags
                  /\ "W" \notin r.flags /\ "W" \in q.flags =>
                        GoesAfterAnother(mach, s, k, PageOf(q, l))

ASSUME AddressSpaceConstants ==
    /\ Fanout \in Nat \ {0, 1} /\ HhdmBase \in Nat
    /\ Machines \subseteq Machine
    /\ \A mach \in Machines : Promised(mach)
    /\ PageCounts \subseteq Nat
    /\ MaxLive \in Nat

-----------------------------------------------------------------------------
(* Flags *)

\* fix_flags: the entry itself gets Present; directories lose PAT, which would
\* mean a huge page there, and XD.
PteFlags(flags) == flags \cup {"P"}
DirFlagsWithXd(flags) == PteFlags(flags) \ {"PAT"}
DirFlagsReadOnly(flags) == {"P"}
DirFlags(flags) == PteFlags(flags) \ {"PAT", "XD"}

-----------------------------------------------------------------------------
(* Steps of a call: each takes the memory and returns it *)

Stop(m, why) == [m EXCEPT !.halt = why]
Running(m) == m.halt = "no"
Loaded(m) == m.cr3 # 0

\* The function f, but y at x.
With(f, x, y) == [z \in DOMAIN f \cup {x} |-> IF z = x THEN y ELSE f[z]]

\* PhysicalMemoryManager::allocate_frame takes the lowest free frame.
Take(m, f) == [m EXCEPT !.pool = m.pool \ {f}]

\* PhysicalMemoryManager::release_frame of a frame number.
ReleaseFrame(m, f) ==
    IF f < machine.limit /\ f \notin m.pool
    THEN [m EXCEPT !.pool = m.pool \cup {f}]
    ELSE Stop(m, "panic")

\* An entry of table t: its frame if present.
Present(m, t, i) == i \in DOMAIN m.table[t]

SetRow(m, t, row) == [m EXCEPT !.table = With(m.table, t, row)]
SetEntry(m, t, i, f, flags) ==
    SetRow(m, t, With(m.table[t], i, [frame |-> f, flags |-> flags]))

\* One entry further on the way to page v; a missing entry ends the way.
Follow(m, path, v) ==
    LET t == IF path = << >> THEN m.root ELSE Last(path).frame
        i == Index(v, Len(path) + 1)
    IN  IF t \in DOMAIN m.table /\ Present(m, t, i) THEN Append(path, m.table[t][i]) ELSE path

\* The walk a processor does: the chain of entries from the root to page v.
Chain(m, v) == Follow(m, Follow(m, Follow(m, Follow(m, << >>, v), v), v), v)

Mapped(m, v) == Len(Chain(m, v)) = 4
Translation(m, v) == Chain(m, v)[4].frame

\* Everything on the way must allow a write.
WritablePage(m, v) == \A l \in 1 .. 4 : "W" \in Chain(m, v)[l].flags

\* XD anywhere on the way forbids execution.
Executable(m, v) == \A l \in 1 .. 4 : "XD" \notin Chain(m, v)[l].flags

\* tohh() of a frame can be read and written.
DirectlyMapped(m, f) ==
    Loaded(m) => Mapped(m, Hhdm(f)) /\ Translation(m, Hhdm(f)) = f

\* create_table: a frame from the pool, cleared through the direct map, then
\* hung into the entry.
CreateTable(m, t, i, flags) ==
    IF m.pool = {} THEN Stop(m, "panic")
    ELSE LET f == Min(m.pool)
         IN  IF ~DirectlyMapped(m, f) THEN Stop(Take(m, f), "fault")
             ELSE SetEntry(SetRow(Take(m, f), f, << >>), t, i, f, flags)

\* Where a step down has come to: the next table's frame, or 0 when the entry is
\* still missing.
Arrived(m, t, i) ==
    [m |-> m, at |-> IF Running(m) /\ Present(m, t, i) THEN m.table[t][i].frame ELSE 0]

\* get_next_table: a missing entry is filled if it may be.  The entry is read
\* through the direct map too.
NextTable(m, t, i, flags, allocate) ==
    IF ~DirectlyMapped(m, t) THEN [m |-> Stop(m, "fault"), at |-> 0]
    ELSE Arrived(IF allocate /\ ~Present(m, t, i) THEN CreateTable(m, t, i, flags) ELSE m, t, i)

Down(s, i, flags, allocate) ==
    IF s.at = 0 THEN s ELSE NextTable(s.m, s.at, i, flags, allocate)

\* The table come to is read, and may be written, through the direct map.
ReadThrough(s) ==
    IF s.at # 0 /\ ~DirectlyMapped(s.m, s.at) THEN [m |-> Stop(s.m, "fault"), at |-> 0]
    ELSE s

\* virt2pte: three tables down to the one that holds v's entry, which the caller reads.
Virt2pte(m, v, flags, allocate) ==
    ReadThrough(Down(Down(Down([m |-> m, at |-> m.root],
                               Index(v, 1), flags, allocate),
                          Index(v, 2), flags, allocate),
                     Index(v, 3), flags, allocate))

\* The entry is written unless the release before it stopped the machine.
Install(m, t, i, f, flags) ==
    IF Running(m) THEN SetEntry(m, t, i, f, PteFlags(flags)) ELSE m

\* The frame a present entry names is released when it is not the new one.
Remap(w, i, f, flags) ==
    LET old == w.m.table[w.at][i].frame IN
    IF ~Running(w.m) THEN w.m
    ELSE Install(IF Present(w.m, w.at, i) /\ old # f THEN ReleaseFrame(w.m, old) ELSE w.m,
                 w.at, i, f, flags)

\* AddressSpace::map of one page.  Nothing is flushed here.
MapPage(m, v, f, flags) ==
    Remap(Virt2pte(m, v, DirFlags(flags), TRUE), Index(v, 4), f, flags)

\* AddressSpace::map of a range.
MapNth(m, r, k) ==
    IF Running(m) THEN MapPage(m, PageOf(r, k), FrameOf(r, k), r.flags) ELSE m

MapRange(m, r) ==
    LET after[k \in 0 .. r.pages] == IF k = 0 THEN m ELSE MapNth(after[k - 1], r, k - 1)
    IN  after[r.pages]

\* The entry is cleared and its frame released.
Unlink(w, i) ==
    IF w.at = 0 \/ ~Present(w.m, w.at, i) THEN w.m
    ELSE LET row == w.m.table[w.at]
         IN  ReleaseFrame(SetRow(w.m, w.at, Restrict(row, DOMAIN row \ {i})), row[i].frame)

\* AddressSpace::unmap: a page that is not mapped is only reported.
UnmapPage(m, v) == Unlink(Virt2pte(m, v, {}, FALSE), Index(v, 4))

\* unmap of one page after the other.
UnmapNth(m, v) == IF Running(m) THEN UnmapPage(m, v) ELSE m

UnmapRun(m, first, count) ==
    LET after[k \in 0 .. count] ==
            IF k = 0 THEN m ELSE UnmapNth(after[k - 1], first + k - 1)
    IN  after[count]

\* One page too many, and one page too far.
ReleaseOneMore(m, first, count) == UnmapRun(m, first, count + 1)
ReleaseShifted(m, first, count) == UnmapRun(m, first + 1, count)

\* AddressSpace::release, without its flushes.
ReleasePages(m, first, count) == UnmapRun(m, first, count)

\* AddressSpace::allocate.  Its result: the memory, the frames mapped so far in
\* order, and whether it answers with a page or with null, having released them.
\* The first frame goes to its own place in the direct map and the others to the
\* pages behind it, whatever their numbers.
GiveUpShort(m, first, mapped) == ReleasePages(m, first, mapped - 1)
GiveUp(m, first, mapped) == ReleasePages(m, first, mapped)

MapNext(s, first, k) ==
    IF s.m.pool = {}
    THEN [m |-> GiveUp(s.m, first, k), frames |-> s.frames, answer |-> "null"]
    ELSE LET g == Min(s.m.pool)
         IN  [m |-> MapPage(Take(s.m, g), first + k, g, {"W"}),
              frames |-> Append(s.frames, g), answer |-> "page"]

MapMore(s, first, k) ==
    IF Running(s.m) /\ s.answer = "page" THEN MapNext(s, first, k) ELSE s

AllocatePages(m, n) ==
    LET f == Min(m.pool)
        after[k \in 0 .. n - 1] ==
            IF k = 0
            THEN [m |-> MapPage(Take(m, f), Hhdm(f), f, {"W"}), frames |-> <<f>>,
                  answer |-> "page"]
            ELSE MapMore(after[k - 1], Hhdm(f), k)
    IN  after[n - 1]

Consecutive(frames) ==
    \A k \in 1 .. Len(frames) - 1 : frames[k + 1] = frames[k] + 1

\* flush_tlb of count pages; of the first only.
FlushedFirst(first, count) == Restrict(tlb, DOMAIN tlb \ {first})
Flushed(first, count) == Restrict(tlb, DOMAIN tlb \ (first .. first + count - 1))

-----------------------------------------------------------------------------
(* Who owns the frames *)

Reserved == (0 .. machine.limit - 1) \ machine.usable
Tables == DOMAIN mem.table
Allocated == UNION {Range(live[p]) : p \in DOMAIN live}

\* Every usable frame is free, a table or part of one allocation, and no
\* reserved frame is any of these.
OneOwner ==
    /\ mem.pool \cap Tables = {}
    /\ mem.pool \cap Allocated = {}
    /\ Tables \cap Allocated = {}
    /\ mem.pool \cup Tables \cup Allocated = machine.usable
    /\ \A p \in DOMAIN live : IsInjective(live[p])
    /\ \A p, q \in DOMAIN live : p # q => Range(live[p]) \cap Range(live[q]) = {}

-----------------------------------------------------------------------------
Init ==
    /\ machine \in Machines
    /\ mem = [pool |-> machine.usable, table |-> << >>, root |-> 0,
              cr3 |-> 0, halt |-> "no"]
    /\ tlb = << >>
    /\ live = << >>
    /\ fragmented = FALSE

Load(m) == IF Running(m) THEN [m EXCEPT !.cr3 = m.root] ELSE m

FirstPage == [virt |-> HhdmBase, phys |-> 0, pages |-> 1, flags |-> {"XD"}]
Spans(mach) == <<FourGiB(mach), FirstPage>> \o mach.sections

MapSpans(m, spans) ==
    LET after[k \in 0 .. Len(spans)] == IF k = 0 THEN m ELSE MapRange(after[k - 1], spans[k])
    IN  after[Len(spans)]

\* The PML4, cleared.
Rooted(m, f) == [SetRow(Take(m, f), f, << >>) EXCEPT !.root = f]

\* AddressSpace::init_kernel up to load(): the PML4, the first 4 GiB, HHDM page 0
\* again, the kernel's sections and the framebuffer.
InitKernel ==
    /\ ~Loaded(mem) /\ Running(mem)
    /\ mem' = IF mem.pool = {} THEN Stop(mem, "panic")
              ELSE Load(MapSpans(Rooted(mem, Min(mem.pool)), Spans(machine)))
    /\ UNCHANGED <<machine, tlb, live, fragmented>>

\* The model follows a call only while every frame has one owner; what the
\* kernel does after that depends on what the frame's owners write to it.
Ready == Loaded(mem) /\ Running(mem) /\ OneOwner

\* What the caller and the TLB have after an allocation that ended in s.
HandOut(s, first) ==
    /\ mem' = s.m
    /\ tlb' = Flushed(first, Len(s.frames))
    /\ live' = IF s.answer = "page" /\ Running(s.m) THEN With(live, first, s.frames) ELSE live
    /\ fragmented' = (fragmented \/ ~Consecutive(s.frames))

\* A request is refused, and nothing changes, when the pool is empty.
Allocate(n) ==
    /\ Ready /\ n > 0
    /\ Cardinality(DOMAIN live) < MaxLive
    /\ mem.pool # {}
    /\ HandOut(AllocatePages(mem, n), Hhdm(Min(mem.pool)))
    /\ UNCHANGED machine

\* The heap releases what it was handed, with the size it asked for.
Release(p) ==
    /\ Ready
    /\ mem' = ReleasePages(mem, p, Len(live[p]))
    /\ tlb' = Flushed(p, Len(live[p]))
    /\ live' = Restrict(live, DOMAIN live \ {p})
    /\ UNCHANGED <<machine, fragmented>>

PagesOf(p) == p .. p + Len(live[p]) - 1

\* The processor reads or writes page v of an allocation and caches where it is.
Touch(v) ==
    /\ Ready
    /\ v \notin DOMAIN tlb /\ Mapped(mem, v)
    /\ tlb' = With(tlb, v, Translation(mem, v))
    /\ UNCHANGED <<machine, mem, live, fragmented>>

Next ==
    \/ InitKernel
    \/ \E n \in PageCounts : Allocate(n)
    \/ \E p \in DOMAIN live : Release(p)
    \/ \E p \in DOMAIN live : \E v \in PagesOf(p) : Touch(v)

Spec == Init /\ [][Next]_vars

-----------------------------------------------------------------------------
Entry == [frame : Nat, flags : SUBSET {"P", "W", "XD", "PAT"}]

\* Tables hold well-formed entries and live in frames of the bitmap.
TypeOK ==
    /\ machine \in Machines
    /\ mem.pool \subseteq 0 .. machine.limit - 1
    /\ Tables \subseteq 0 .. machine.limit - 1
    /\ \A t \in Tables : /\ DOMAIN mem.table[t] \subseteq 0 .. Fanout - 1
                         /\ Range(mem.table[t]) \subseteq Entry
    /\ mem.root \in {0} \cup Tables
    /\ mem.cr3 \in {0, mem.root} /\ mem.halt \in {"no", "panic", "fault"}
    /\ Range(tlb) \subseteq Nat /\ fragmented \in BOOLEAN
    /\ \A p \in DOMAIN live : live[p] \in Seq(Nat)

\* As long as every allocation so far got frames in a row: map, unmap, allocate
\* with its give-up path and release neither lose a usable frame nor give one
\* away twice, nor ever give away a reserved one.
FramesHaveOneOwner == Running(mem) /\ ~fragmented => OneOwner

\* What Allocate returned stays mapped, to its own frames and writable, whatever
\* else is allocated and released.
AllocationsStayMapped ==
    Running(mem) /\ ~fragmented =>
        \A p \in DOMAIN live : \A k \in 1 .. Len(live[p]) :
            /\ Mapped(mem, p + k - 1)
            /\ Translation(mem, p + k - 1) = live[p][k]
            /\ WritablePage(mem, p + k - 1)

\* Every table can be reached where get_next_table looks for it, and written.
TablesStayReachable ==
    Loaded(mem) /\ Running(mem) /\ ~fragmented =>
        \A t \in Tables : DirectlyMapped(mem, t) /\ WritablePage(mem, Hhdm(t))

\* No page is used through a translation the tables no longer hold: map flushes
\* nothing, so allocate and release must.
TlbIsCoherent ==
    Running(mem) =>
        \A v \in DOMAIN tlb : Mapped(mem, v) /\ Translation(mem, v) = tlb[v]

\* init_kernel's comments: each section is mapped with the protection it names.
SectionsProtected ==
    Loaded(mem) =>
        \A s \in DOMAIN machine.sections : \A k \in 1 .. machine.sections[s].pages :
            LET r == machine.sections[s]
                v == r.virt + k - 1
            IN  /\ Mapped(mem, v) /\ Translation(mem, v) = r.phys + k - 1
                /\ WritablePage(mem, v) <=> "W" \in r.flags
                /\ Executable(mem, v) <=> "XD" \notin r.flags

\* "Map the other pages after the first page" (allocate): mapping an allocation
\* takes no frame from anyone.
NoFrameIsStolen == Loaded(mem) /\ Running(mem) => OneOwner

\* The only ways a call stops the machine are running out of frames for tables
\* and memory above what the direct map covers.
StopsOnlyForMemory ==
    ~fragmented =>
        /\ mem.halt = "panic" => mem.pool = {}
        /\ mem.halt = "fault" => \E f \in machine.usable : f >= machine.direct
=============================================================================
