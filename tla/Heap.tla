-------------------------------- MODULE Heap --------------------------------
(***************************************************************************)
(* The kernel heap, mem/heap.cpp: liballoc over AddressSpace's pages.      *)
(*                                                                         *)
(* The heap owns majors, runs of pages linked from l_memRoot in the order  *)
(* they were obtained; a major holds its header and minors, blocks linked  *)
(* in address order, each a header followed by its bytes.  Here a list is  *)
(* a sequence, a major is named by its address, and a minor's "at" counts  *)
(* from its major.                                                         *)
(*                                                                         *)
(* kmalloc looks through the majors, one action per turn of its loop; what *)
(* kcalloc and krealloc do once it returns is a step of its own.  Nothing  *)
(* runs between the steps of a call: the kernel has one thread and the     *)
(* lock hooks are empty.                                                   *)
(***************************************************************************)
EXTENDS Integers, Sequences, SequencesExt, FiniteSetsExt

CONSTANTS
    PageSize,       \* l_pageSize, 4096
    PageCount,      \* l_pageCount, 16: the least a major has
    MajorSize,      \* sizeof(liballoc_major), 40
    MinorSize,      \* sizeof(liballoc_minor), 40
    HeaderAlign,    \* alignof(liballoc_minor), 8
    Alignment,      \* ALIGNMENT and ALIGN_INFO, 16 each
    UintLimit,      \* 2^32, the range of an unsigned int
    HeapPages,      \* the pages AddressSpace can hand out, page 0 is not one
    Requests,       \* the sizes callers ask for, 0 included
    MaxBlocks,      \* bound: no call is made with this many blocks in use
    Sanitized       \* TRUE: built with -fsanitize=undefined (DEBUG)

ASSUME HeapConstants ==
    /\ {PageSize, PageCount, MajorSize, MinorSize, HeaderAlign, Alignment, UintLimit}
          \subseteq Nat \ {0}
    /\ PageSize % Alignment = 0
    /\ HeapPages \subseteq Nat \ {0}
    /\ Requests \subseteq Nat
    /\ \A r \in Requests :
          r + 2 * Alignment + MajorSize + MinorSize + PageCount * PageSize < UintLimit \div 2
    /\ MaxBlocks \in Nat
    /\ Sanitized \in BOOLEAN

VARIABLES
    majors,         \* the majors, from l_memRoot on
    bestBet,        \* l_bestBet, NULL or a major's address
    allocated,      \* l_allocated
    inuse,          \* l_inuse
    job,            \* the call being served
    status          \* "up", "panic" (a sanitizer report), "fault" (NULL written)

vars == <<majors, bestBet, allocated, inuse, job, status>>

NULL == 0

NoJob == [op |-> "none", pc |-> "idle", req |-> 0, old |-> NULL,
          at |-> 0, started |-> FALSE, best |-> 0, result |-> NULL]

AsUint(n) == n % UintLimit

-----------------------------------------------------------------------------
(* Majors and minors *)

\* ALIGN: room for the alignment note, then up to the next multiple.
AlignUp(n) == ((n + Alignment - 1) \div Alignment) * Alignment

UserAt(minor) == AlignUp(minor.at + MinorSize + Alignment)

\* An adjustment that leaves room for the rounding but not for the note.
SizeForNoNote(req) == req + Alignment

\* What kmalloc asks for on behalf of its caller, so that ALIGN has room.
SizeFor(req) == req + 2 * Alignment

FreeIn(major) == AsUint(major.size - major.usage)

BlockEnd(minor) == minor.at + MinorSize + minor.size

\* The gap behind the first k minors.
GapStart(major, k) == IF k = 0 THEN MajorSize ELSE BlockEnd(major.minors[k])

\* A gap that is taken to reach to the end of the major.
GapEndPastNext(major, k) == major.size

GapEnd(major, k) ==
    IF k = Len(major.minors) THEN major.size ELSE major.minors[k + 1].at

\* CASE 2, 3 and 4: the gaps that hold a header and size bytes.  An empty
\* major is taken to have room.
Fitting(major, size) ==
    {k \in 0 .. Len(major.minors) :
        \/ major.minors = <<>>
        \/ GapEnd(major, k) - GapStart(major, k) >= size + MinorSize}

\* Place a block in the gap behind k minors.
WithBlock(major, k, req, size) ==
    LET minor == [at |-> GapStart(major, k), size |-> AsUint(size), req |-> AsUint(req)] IN
    [major EXCEPT !.minors = InsertAt(@, k + 1, minor),
                  !.usage = AsUint(@ + size + MinorSize)]

\* The pages a major of n pages at address a covers.
PagesFrom(a, n) == (a \div PageSize) .. (a \div PageSize) + n - 1

OwnedPages == UNION {PagesFrom(majors[i].base, majors[i].pages) : i \in DOMAIN majors}

\* liballoc_alloc: any run of free pages, by its address.
FreeRuns(n) ==
    {a \in {p * PageSize : p \in HeapPages} : PagesFrom(a, n) \subseteq HeapPages \ OwnedPages}

\* allocate_new_page: pages for size bytes and two headers, at least PageCount.
PagesFor(size) ==
    LET bytes == AsUint(AsUint(size) + MajorSize + MinorSize) IN
    Max({PageCount, (bytes + PageSize - 1) \div PageSize})

NewMajor(a, n) ==
    [base |-> a, pages |-> n, size |-> AsUint(n * PageSize), usage |-> MajorSize,
     minors |-> <<>>]

\* Every block, as its major's and its own place in the lists.
Blocks == UNION {{<<i, k>> : k \in DOMAIN majors[i].minors} : i \in DOMAIN majors}

MinorOf(b) == majors[b[1]].minors[b[2]]

HeaderOf(b) == majors[b[1]].base + MinorOf(b).at

PointerOf(b) == majors[b[1]].base + UserAt(MinorOf(b))

\* UNALIGN: the block a pointer was handed out for.
BlockAt(p) == CHOOSE b \in Blocks : PointerOf(b) = p

Pointers == {PointerOf(b) : b \in Blocks}

Indices(base) == {i \in DOMAIN majors : majors[i].base = base}

-----------------------------------------------------------------------------
(* Serving a call *)

Init ==
    /\ majors = <<>> /\ bestBet = NULL
    /\ allocated = 0 /\ inuse = 0
    /\ job = NoJob
    /\ status = "up"

\* The search starts at the best bet if that has more than enough in all.
Search(op, req, old, list) ==
    LET bets == {i \in DOMAIN list : list[i].base = bestBet}
        best == IF bets = {} THEN 0 ELSE FreeIn(list[Max(bets)])
        started == best > SizeFor(req) + MinorSize
    IN  [op |-> op, pc |-> "walk", req |-> req, old |-> old,
         at |-> IF started THEN Max(bets) ELSE 1, started |-> started,
         best |-> best, result |-> NULL]

Returned(result) == [job EXCEPT !.pc = "return", !.result = result]

\* kmalloc up to its loop: the first call obtains the first major.
BeginMalloc(op, req, old) ==
    LET n == PagesFor(SizeFor(req)) IN
    /\ Cardinality(Blocks) < MaxBlocks
    /\ \/ /\ majors # <<>>
          /\ job' = Search(op, req, old, majors)
          /\ UNCHANGED <<majors, allocated>>
       \/ /\ majors = <<>>
          /\ \E a \in FreeRuns(n) :
                /\ majors' = <<NewMajor(a, n)>>
                /\ job' = Search(op, req, old, majors')
          /\ allocated' = allocated + n * PageSize
       \/ /\ majors = <<>> /\ FreeRuns(n) = {}
          /\ job' = [NoJob EXCEPT !.op = op, !.pc = "return", !.req = req, !.old = old]
          /\ UNCHANGED <<majors, allocated>>
    /\ UNCHANGED <<bestBet, inuse, status>>

\* kmalloc writes its header behind k minors of the i-th major of a list; a
\* sanitized build reports a header that is not aligned.
PlaceIn(list, i, k) ==
    LET size == SizeFor(job.req)
        header == list[i].base + GapStart(list[i], k)
    IN
    /\ majors' = [list EXCEPT ![i] = WithBlock(@, k, job.req, size)]
    /\ inuse' = inuse + size
    /\ job' = Returned(list[i].base + UserAt(majors'[i].minors[k + 1]))
    /\ status' = IF Sanitized /\ header % HeaderAlign # 0 THEN "panic" ELSE status

\* The turn of the loop that begins remembers a major with more free memory.
Remember ==
    bestBet' = IF job.best < FreeIn(majors[job.at]) THEN majors[job.at].base ELSE bestBet

Remembered == Max({job.best, FreeIn(majors[job.at])})

Cramped(major) == FreeIn(major) < SizeFor(job.req) + MinorSize

\* Where this major has room in one piece.
Fits ==
    LET major == majors[job.at] IN
    IF Cramped(major) THEN {} ELSE Fitting(major, SizeFor(job.req))

Walking == status = "up" /\ job.pc = "walk"

\* The first gap that is big enough.
Place ==
    /\ Walking /\ Fits # {}
    /\ Remember
    /\ PlaceIn(majors, job.at, Min(Fits))
    /\ UNCHANGED allocated

\* An end of the list that is noticed one major too late.
PastLast == job.at > Len(majors)

AtLast == job.at = Len(majors)

\* A search that never comes back to the majors before the best bet.
StartedAtBestNever == FALSE

\* A search that forgets that it has come back.
StartedAtBestForGood == TRUE

StartedAtBest == job.started

\* On to the next major, or back to the first after a start at the best bet.
Hop ==
    /\ Walking /\ Fits = {}
    /\ ~AtLast \/ StartedAtBest
    /\ Remember
    /\ job' = [job EXCEPT !.best = Remembered,
                          !.at = IF AtLast THEN 1 ELSE @ + 1,
                          !.started = @ /\ ~AtLast]
    /\ UNCHANGED <<majors, allocated, inuse, status>>

\* The end of the list: one more major.  From CASE 1 it is filled at once, from
\* CASE 5 in the next turn.
Grow ==
    LET n == PagesFor(SizeFor(job.req)) IN
    /\ Walking /\ Fits = {} /\ AtLast /\ ~StartedAtBest
    /\ Remember
    /\ \E a \in FreeRuns(n) :
          LET longer == Append(majors, NewMajor(a, n)) IN
          \/ /\ Cramped(majors[job.at])
             /\ PlaceIn(longer, Len(longer), 0)
          \/ /\ ~Cramped(majors[job.at])
             /\ majors' = longer
             /\ job' = [job EXCEPT !.best = Remembered, !.at = @ + 1]
             /\ UNCHANGED <<inuse, status>>
    /\ allocated' = allocated + n * PageSize

\* No memory for another major: kmalloc returns NULL.
GiveUp ==
    /\ Walking /\ Fits = {} /\ AtLast /\ ~StartedAtBest
    /\ FreeRuns(PagesFor(SizeFor(job.req))) = {}
    /\ Remember
    /\ job' = Returned(NULL)
    /\ UNCHANGED <<majors, allocated, inuse, status>>

Turn == Place \/ Hop \/ Grow \/ GiveUp

-----------------------------------------------------------------------------
(* Giving blocks back *)

\* An unlinking that gives the bytes back but not the header's.
WithoutBlockBytes(major, k) ==
    [major EXCEPT !.minors = RemoveAt(@, k),
                  !.usage = AsUint(@ - major.minors[k].size)]

WithoutBlock(major, k) ==
    [major EXCEPT !.minors = RemoveAt(@, k),
                  !.usage = AsUint(@ - (major.minors[k].size + MinorSize))]

\* A bet that is kept although its major is gone.
BetKept(major) == bestBet

\* The bet falls with its major.
BetWithout(major) == IF bestBet = major.base THEN NULL ELSE bestBet

\* A major that has got more free memory than the bet becomes the bet.
BetAfter(list, i) ==
    IF \E j \in DOMAIN list :
          list[j].base = bestBet /\ FreeIn(list[i]) > FreeIn(list[j])
    THEN list[i].base ELSE bestBet

\* kfree of a block: unlink it, and release its major if that is empty now.
FreeBlock(p) ==
    LET b == BlockAt(p)
        i == b[1]
        major == majors[i]
        lighter == WithoutBlock(major, b[2])
    IN
    /\ inuse' = inuse - MinorOf(b).size
    /\ \/ /\ lighter.minors = <<>>
          /\ majors' = RemoveAt(majors, i)
          /\ bestBet' = BetWithout(major)
          /\ allocated' = allocated - major.size
       \/ /\ lighter.minors # <<>>
          /\ majors' = [majors EXCEPT ![i] = lighter]
          /\ bestBet' = BetAfter(majors', i)
          /\ UNCHANGED allocated

-----------------------------------------------------------------------------
(* The calls.  kfree(NULL) and a pointer whose header has lost its magic are  *)
(* turned away without a change, and need no action.                          *)

Idle == status = "up" /\ job.pc = "idle"

\* kmalloc, and krealloc of NULL.
Malloc(r) == Idle /\ BeginMalloc("malloc", r, NULL)

\* r is nobj * size, which fits the int that holds it.
Calloc(r) == Idle /\ BeginMalloc("calloc", r, NULL)

\* kfree, and krealloc to 0 bytes.
Free(p) ==
    /\ Idle
    /\ FreeBlock(p)
    /\ UNCHANGED <<job, status>>

\* krealloc to no more than was asked for before: only the note changes.
ReallocInPlace(p, r) ==
    LET b == BlockAt(p) IN
    /\ Idle
    /\ r # 0 /\ MinorOf(b).req >= r
    /\ majors' = [majors EXCEPT ![b[1]].minors[b[2]].req = r]
    /\ UNCHANGED <<bestBet, allocated, inuse, job, status>>

ReallocElsewhere(p, r) ==
    /\ Idle
    /\ MinorOf(BlockAt(p)).req < r
    /\ BeginMalloc("realloc", r, p)

\* What the copy or the clearing writes through the pointer kmalloc returned.
BytesWritten ==
    IF job.op = "calloc" THEN job.req
    ELSE IF job.op = "realloc" THEN MinorOf(BlockAt(job.old)).req
    ELSE 0

\* Neither kcalloc nor krealloc looks whether the pointer is NULL.
WritesNull == job.result = NULL /\ BytesWritten > 0

\* The call returns; krealloc frees the old block first.
Return ==
    /\ status = "up" /\ job.pc = "return"
    /\ \/ /\ WritesNull
          /\ status' = "fault"
          /\ UNCHANGED <<majors, bestBet, allocated, inuse, job>>
       \/ /\ ~WritesNull /\ job.op = "realloc"
          /\ FreeBlock(job.old)
          /\ job' = NoJob
          /\ UNCHANGED status
       \/ /\ ~WritesNull /\ job.op # "realloc"
          /\ job' = NoJob
          /\ UNCHANGED <<majors, bestBet, allocated, inuse, status>>

Next ==
    \/ \E r \in Requests : Malloc(r) \/ Calloc(r)
    \/ \E p \in Pointers : Free(p)
    \/ \E p \in Pointers, r \in Requests : ReallocInPlace(p, r) \/ ReallocElsewhere(p, r)
    \/ Turn
    \/ Return

\* A call that has begun runs on: the loop is ordinary sequential code.
Spec == Init /\ [][Next]_vars /\ WF_vars(Turn \/ Return)

-----------------------------------------------------------------------------
MinorType == [at : Nat, size : Nat, req : Nat]

MajorType == [base : Nat, pages : Nat, size : Nat, usage : Nat, minors : Seq(MinorType)]

JobType == [op : {"none", "malloc", "calloc", "realloc"}, pc : {"idle", "walk", "return"},
            req : Nat, old : Nat, at : Nat, started : BOOLEAN, best : Nat, result : Nat]

\* Every variable keeps its shape; the counters never go below zero and a
\* search stands at a major.
TypeOK ==
    /\ majors \in Seq(MajorType)
    /\ bestBet \in Nat /\ allocated \in Nat /\ inuse \in Nat
    /\ job \in JobType
    /\ job.pc = "walk" => job.at \in DOMAIN majors
    /\ status \in {"up", "panic", "fault"}

\* The minors of a major lie in list order between its header and its end, a
\* block's own bytes and its alignment note lie behind its header, and no page
\* is in two majors: nobody writes over a header or over another's bytes.
BlocksStayApart ==
    /\ \A i \in DOMAIN majors :
          LET m == majors[i] IN
          /\ \A k \in 0 .. Len(m.minors) : GapStart(m, k) <= GapEnd(m, k)
          /\ \A k \in DOMAIN m.minors :
                LET b == m.minors[k] IN
                /\ b.at + MinorSize <= UserAt(b) - Alignment
                /\ UserAt(b) + b.req <= BlockEnd(b)
    /\ \A i, j \in DOMAIN majors :
          i # j => PagesFrom(majors[i].base, majors[i].pages)
                      \cap PagesFrom(majors[j].base, majors[j].pages) = {}

\* The sum of a sequence of numbers.
Total(s) ==
    LET upTo[n \in 0 .. Len(s)] == IF n = 0 THEN 0 ELSE upTo[n - 1] + s[n]
    IN  upTo[Len(s)]

Sizes(list) == [k \in DOMAIN list |-> list[k].size]

Taken(minors) == [k \in DOMAIN minors |-> minors[k].size + MinorSize]

InUseIn(list) == [i \in DOMAIN list |-> Total(Sizes(list[i].minors))]

\* A major's usage, the bytes in use and the bytes obtained are what the lists
\* say, after every step of every call: the search trusts them (diff).
AccountsExact ==
    /\ \A i \in DOMAIN majors :
          LET m == majors[i] IN
          /\ m.usage = MajorSize + Total(Taken(m.minors))
          /\ m.usage <= m.size /\ m.size = m.pages * PageSize
    /\ inuse = Total(InUseIn(majors))
    /\ allocated = Total(Sizes(majors))

\* Between calls the heap keeps no empty major, and always its bet is a major
\* it owns: l_bestBet is read without a look at whether it still exists.
BestBetIsOwned ==
    /\ bestBet = NULL \/ \E i \in DOMAIN majors : majors[i].base = bestBet
    /\ job.pc = "idle" => \A i \in DOMAIN majors : majors[i].minors # <<>>

RoomFor(size) == \E i \in DOMAIN majors : Fitting(majors[i], size) # {}

\* Wherever the search starts, it asks for another major, or gives up, only
\* when no gap of any major would do.
SearchesEverywhere ==
    [][ \/ Len(majors') > Len(majors)
        \/ job'.pc = "return" /\ job'.result = NULL
        => ~RoomFor(SizeFor(job'.req)) ]_vars

\* The turns of the loop come to an end.
CallsReturn == job.pc = "walk" ~> (job.pc = "idle" \/ status # "up")

UserBlocks == {[at |-> PointerOf(b), bytes |-> MinorOf(b).req] : b \in Blocks}

Promise == INSTANCE HeapBlocks WITH blocks <- UserBlocks

\* Callers see blocks that appear apart from all others, aligned, and stay.
ImplementsBlocks == Promise!BlocksSpec

\* "failed to krealloc memory", "failed to kcalloc memory" (run_test): when
\* memory runs out the calls return NULL, for the caller to see.
ReportsNoMemory == status # "fault"

\* "Could be 1 byte or more" (liballoc_minor): no size of a block is refused by
\* the build that checks alignment.
AnySizeIsServed == status # "panic"
=============================================================================
