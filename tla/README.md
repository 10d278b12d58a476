# EpsilonOS in TLA+

EpsilonOS is a small x86-64 kernel, loaded by Limine. `kmain` (src/kernel/src/main.cpp)
brings the machine up in a fixed order and halts: serial port, CPU features, physical
memory, address space, kernel symbols, static initialisers, GDT, IDT, ACPI tables, local
APIC, I/O APIC, timers. The modules here follow the code of the parts that keep state;
TLC checks them on small instances, and TLAPS proves for every value of the constants what
matters most of the frame allocator, the address space, the heap, the interrupts, the boot, the
table of destructors, the string functions and the checked arithmetic of the compiler's runtime.

Paths below leave out `src/kernel/`.

## The system's parts

| Part | State it keeps | Operations | What makes it correct |
|---|---|---|---|
| Physical memory manager, `src/mem/pmm.cpp`, `include/lib/bitmap.hpp` | one bit per frame, the bitmap's address, the memory map it carves the bitmap from | `init`, `allocate_frame`, `release_frame` | a usable frame is free or with one caller; no frame holds the bitmap or reserved memory; the lowest free frame is handed out |
| Address space, `src/mem/address_space.cpp`, `page_table.cpp` | four levels of page tables in frames, CR3 | `init_kernel`, `map`, `unmap`, `allocate`, `release`, `flush_tlb` | every frame has one owner; what was allocated stays mapped; the kernel can always reach its tables; no stale translation; sections keep their protection |
| Kernel heap, `src/mem/heap.cpp` (liballoc) | list of majors, each with a list of minors; `l_bestBet`, `l_allocated`, `l_inuse` | `kmalloc`, `kcalloc`, `krealloc`, `kfree` | blocks do not overlap each other or the headers; counters are exact; the search ends and misses no room |
| Boot sequence, `src/main.cpp` | what has been initialised so far | the steps of `kmain` | no step uses what a later step sets up, or loses what an earlier one did |
| Interrupt entry, `src/arch/isr.asm`, `isr.cpp`, `idt.cpp` | the saved frame, the handler table | entry, dispatch, return, `register_interrupt` | the interrupted code finds its registers unchanged; every vector has a live handler |
| CPU, GDT, `src/arch/cpu.cpp`, `gdt.cpp` | control registers, the per-CPU pointer in GS | `CPU::init`, `load_gdt`, `write_self_to_gs`, `current` | `CPU::current()` is this processor's structure whenever it is read |
| Local APIC, IPIs, panic, `lapic.cpp`, `ipi.cpp`, `panic.cpp` | APIC registers, enabled flag | `APIC::init`, `eoi`, `send_interrupt`, `__panic` | a panic stops the other processors and gets its message out once |
| I/O APIC, MADT, `ioapic.cpp`, `src/acpi/madt.cpp` | redirection entries, table of I/O APICs | `init`, `map` | a line is delivered as `map` programmed it, and any other as the firmware left it or not at all |
| ACPI tables, `src/acpi/rsdt.cpp` | root table, number of tables | `init`, `find_table` | every table used was checked |
| Timers, `src/dev/hal.cpp`, `src/dev/timer` | ticks per millisecond, counter | `init`, `msleep`, `oneshot`, `periodic` | a sleep ends, and not early |
| Kernel symbols, `src/arch/ksyms.cpp` | sorted symbols | `load`, `backtrace` | an address is given the symbol it lies in |
| C++ runtime, `src/arch/icxxabi.cpp` | table of destructors | `__cxa_atexit`, `__cxa_finalize` | each destructor runs once, last registered first |
| Log and serial port, `src/dev/uart.cpp`, `src/log.cpp` | whether the chip answered; the chip's registers | `UART::init`, `write`, `dmesgln` | what is written goes out whole, in order, at the right speed |
| String functions, `src/lib/string.cpp` | `strtok`'s position | the C functions | as the C library defines them |
| printf, `src/lib/printf.cpp` (mpaland) | none between calls | `snprintf`, `fctprintf` and their kin | numbers read back, buffers are not left |
| Compiler runtime, `src/cc-runtime.c` (LLVM) | none | `__udivmodti4` and its kin | exact results, overflow told |
| Headers, `limine.h`, `types.hpp` | none | declarations | |

How they meet: the heap obtains and returns runs of pages through
`AddressSpace::allocate` and `release`; the address space obtains frames for pages and
tables from the physical memory manager, and reaches its own tables through the direct
map that it builds itself; `init_ctors` touches the static instance of the physical memory
manager after it is in use; everything that gives up ends in `panic`, which writes through
printf and the serial port and reads the symbols. The MADT, found among the ACPI tables, tells
where the local APIC and the I/O APICs are; the local timer is calibrated by the HPET, whose
address is in another table, and routed by the I/O APIC. `operator new` has
two users, `register_interrupt` and `SymbolTable::load`.

What is hard here. The kernel runs on one core with interrupts off, so there is little
interleaving up to the end of `kmain`; the difficulty lies in the order of initialisation, in addresses that
are derived from other addresses and no longer fit, in half-done work when memory runs
out, in rounding at the ends of regions and words, and in long sequences of calls on the
heap's lists. `PROJECT.json` lists each such place under `hazards`, with the
properties that would notice.

## Modules

`FramePool` says what callers may expect of frames: a pool of numbers, lowest first, stopped
for good by a senseless release.

`FrameAllocator` is the code: `PmmInit` (`init`, `free_region` and `Bitmap::init` with their
roundings), `AllocateFrame` (`find_set`), `ReleaseFrame` (`clear`), `RunConstructor` (what
`init_ctors` does to the static instance) and `CallWithoutBitmap` (a call after that). A
word is the set of its set bits; addresses are bytes. `held` and `foreign` are history
variables: frames with callers, and frames given back that nobody had been given. The
refinement `Pool` maps the clear bits to the pool.

`AddressSpace` stands on `FramePool`'s behaviour, written as a pool field of the memory
record. `Virt2pte`, `CreateTable`, `NextTable`, `MapPage`, `UnmapPage`, `AllocatePages` and
`ReleasePages` each take the machine's memory and return it, in the order the code
does things, so one action is a whole call with every early exit. Entries keep their flags,
so protection is what the four levels together allow. `Touch` is the processor filling its
TLB. After `load()` (`cr3`) every access to a table goes through the direct map, and faults when
that is not mapped. The loops over pages are recursive functions along the page's number in its
range (`MapRange`, `UnmapRun`, `AllocatePages`, `MapSpans`), each over one step of the loop
(`MapNth`, `UnmapNth`, `MapMore`) that does nothing once the machine has stopped. `Promised` is
what the boot loader and the linker script guarantee of a machine: frame 0 is not usable, no address
wraps, the framebuffer lies at its place in the direct map, the kernel under no PML4 entry
that also leads to the direct map, and sections that share a page share its frame.

`HeapBlocks` says what the heap promises its callers. `Heap` is the code; the loop of
`kmalloc` is one action per turn (`Place`, `Hop`, `Grow`, `GiveUp`), because the
search's termination and completeness are the questions. `Return` is what `kcalloc` and
`krealloc` do afterwards. Pages come from any free run: where `AddressSpace` puts them is not
the heap's business.

`Interrupts` follows `kmain` from the registration of the page-fault handler through GDT, GS,
IDT, local APIC and timer, and then the processor taking, serving and returning from
interrupts. Every register's content is named by who wrote it and where, so the orders of
`pushaq` and `popaq` matter; an activation on the stack keeps what the stub saved
(`saved`), and, as history, what was there (`before`). `Take` is the stub and the dispatcher up to
the handler, the handler and its `eoi` are steps of their own, because a trap gate leaves
interrupts on and another vector may come in between. `Enter` and `Return` reload GS.
At this commit `kmain` ends in `hnr` with interrupts off; `HAL::oneshot` and
`HAL::periodic` serve a kernel that has them on, so the main context may also take
`EnableInterrupts` there. Ticks exist only after that step, exceptions in either case.

`Boot` is `kmain` from its first step to its last. Its parts extend each other in the order in
which the kernel sets them up, each with its own variables and actions:

| Module | Code | State and actions |
|---|---|---|
| `Serial` | `uart.cpp`, `log.cpp` | the chip's registers and what is still to be written; `UartInit`, `Write`, and `Transmit`, the chip's own step |
| `Symbols` | `ksyms.cpp` | the sorted table; `Load` reads the digits of the map the build writes, `Backtrace` walks a stack |
| `Machine` | `panic.cpp`, `main.cpp` | where `kmain` is, the two ways to stop (`HaltAndNeverReturn`, `Panic`), and `Fault`, a panic once there is an IDT and a reset before |
| `Processor` | `cpu.cpp`, `register.cpp`, `gdt.cpp` | CR4, XCR0, PAT, GDT; `InitCpu` is a sequence of writes the processor may refuse |
| `Acpi` | `rsdt.cpp`, `madt.cpp`, `lapic.cpp` | the tables' number, the lists of interrupt controllers; `InitRsdt`, `InitMadt`, `ReadRecord` (one turn of the loop), `InitLapic` |
| `Routing` | `ioapic.cpp`, `ioapic.hpp` | redirection entries; `InitIoapic`, `MapLow` and `MapHigh` (the two halves of an entry), `RaiseLine` |
| `Timers` | `src/dev` | HPET, local counter; calibration in its three steps, `CallHal` and `SetCounter` (mode before count), `WakeUp`, `TimePasses` |
| `Boot` | `main.cpp` | the order of it all, and what holds of the whole |

`machine` is the constant part of a behaviour: build, what the boot loader answers, processor,
firmware, chips, stack. A step of `kmain` runs to its end before the next, so it is one action,
except where something else can come between: the chip sends while characters wait, a device
raises its line between the halves of an entry, time passes between the steps of the
calibration and between a timer's mode and its count. After the boot the code that will follow
may call `HAL` and `IOAPIC::map` (`CallHal`, `CallMap`); nothing at this commit does.

`Library` puts four parts side by side that nobody else's state depends on. `Strings` has every function of
`string.cpp`, on memory that is a sequence of bytes; `strtok`, with its static pointer, is a
sequence of calls. `Printf` goes from a directive's flags, width, precision and argument to
characters, step by step as `_ntoa_format` does, and from there into a buffer of limited
size. `CxxAbi` has finalisations as a stack of loops, since a destructor
may register or finalise while it runs. `CcRuntime` has one definition for the copies
of an algorithm that differ in the word's size only. The powers of two and the loops that make digits, put out characters, copy bytes and
divide are recursive functions along the number of turns.

The theorems are in modules of their own, which extend what they are about and change nothing:
`FrameAllocatorProofs`, `AddressSpaceProofs`, `HeapProofs`, `InterruptsProofs`, `LibraryProofs` and, for
`CcRuntime`, `CcRuntimeProofs`, and `BootProofs`, which begins with the operators of `Symbols`. `Arithmetic` has what they share: quotients and
remainders, the library's `Min` and `Max`, induction up to a number, and that a function
defined by recursion along `0 .. n` exists and has the values its equation gives it.

## Runs

| Run | Question | Result |
|---|---|---|
| `frame_allocator` | any order of allocations and releases, five memory maps | partition, the managed frames are the usable ones, refines `FramePool` |
| `frame_allocator_ctors` | does initialised memory stay so while the constructors run? | no: `BitmapStaysInstalled` fails |
| `address_space` | one to three pages allocated and released in any order on five machines | one owner per frame, allocations stay mapped, tables reachable, TLB coherent, sections protected, stops only for lack of memory |
| `address_space_hole` | may an allocation be scattered? | no: `NoFrameIsStolen` fails when its frames are not in a row |
| `heap` | sequences of the four calls, four blocks in use | blocks apart, counters exact, best bet owned, search complete and terminating, refines `HeapBlocks` |
| `heap_no_memory` | do `kcalloc` and `krealloc` report NULL? | no: `ReportsNoMemory` fails |
| `heap_sanitized` | is a block of one byte served by the default build? | no: `AnySizeIsServed` fails |
| `boot` | `kmain` on some four hundred machines, each out of the ordinary in one part, and two calls after it | every sound machine boots, a panic is heard, the serial line loses nothing, the firmware is understood, lines arrive as asked, sleeps are neither early nor endless |
| `library` | the library functions against what they are for | strings, tokens, formatted numbers, truncation, destructors, division and overflow |
| `interrupts` | exceptions during the boot, nested ticks and spurious interrupts after it | service and stack agree, only exceptions stop the kernel, all registers but rcx and rdx come back, ticks stay served |
| `interrupts_registers` | do all registers come back? | no: `RegistersComeBack` fails |
| `interrupts_gs` | does GS keep naming the CPU structure? | no: `SelfStaysInGs` fails |

### What the six violations show

- main.cpp:121 runs the constructors "after memory has been initialized", and the memory
  manager's own static instance is one of them. Its constructor is not `constexpr`, and GCC at
  -O2 emits an initialiser that sets the bitmap's address to null. The next frame call reads
  address 0. `DynamicInit` is the constant for it; with FALSE the step does not exist.
- `AddressSpace::allocate` maps its second and later frames at the addresses behind the first.
  With a reserved frame in between, that address is the direct map of another frame,
  which `map` releases as "the current one". The frame, reserved or somebody's, is handed out
  again. The `address_space` properties that presuppose consecutive frames say so
  (`~fragmented`), and the model stops following a machine after a theft.
- `kcalloc` and `krealloc` write through the pointer `kmalloc` returned. The test in
  heap.cpp expects NULL to come back ("failed to kcalloc memory").
- A block's size is not rounded up, so the header behind a block of one byte is at an odd
  address; the sanitizer the default build links in answers with a panic. heap.cpp:84 says
  "Could be 1 byte or more".
- `popaq` has `pop rdx` where `pop rcx` belongs. The interrupted code resumes with its rcx in
  rdx and the handler's rcx in its own. isr.asm:40 says "restore registers". `OthersComeBack`
  is the same property without these two, over nested handlers.
- The stub loads the gs selector on the way in and on the way out, which puts the descriptor's
  base, 0, in place of the pointer `write_self_to_gs` wrote; main.cpp:129 knows the effect from
  the GDT. After the first interrupt `CPU::current()` is null.

### Where the code falls short and no run says so

These came up while the properties were written. The properties say what holds instead, or have a
precondition, named at each.

- `IOAPIC::init` masks one line of each I/O APIC, the one whose number is the index of the I/O APIC, where the
  comment at ioapic.cpp:21 has "Disable all interrupts". The firmware may leave any line open here, and
  `LinesArriveAsAsked` says that those lines go on arriving as the firmware left them, all but the masked one.
- `find_ioapic` ends a range one line late and `map` writes to the line numbered like the
  interrupt whatever the I/O APIC's base, so lines of any I/O APIC but the first are misrouted. `LinesArriveAsAsked` covers
  every I/O APIC: what arrives with a vector of `map` comes from the line numbered like the interrupt, of
  the I/O APIC that `find_ioapic` found.
- `map_entry` opens a line before it says where the line leads. `LinesArriveAsAsked` allows what is raised in between,
  from that very entry only, at the processor that the entry led to before.
- Tables above the first 4 GiB are written where nothing is mapped (page_table.cpp:29). `StopsOnlyForMemory`
  permits this fault where there is such memory.
- The handler of spurious interrupts acknowledges what it interrupted (lapic.cpp:10). `InServiceOrder`, and so
  `ServiceFollowsStack`, is about behaviours without spurious interrupts.
- `__cxa_finalize` of everything, or of the same function again from inside its destructor, repeats destructors
  (`DestroyedOnce` excludes both).
- A MADT record of length 0 is read for ever (`BootEnds` excludes it).
- CPUID leaf 7 is read without asking for it (`ProcessorIsSetUp` requires it).
- `strncmp` reads on behind equal strings, and compares chars where `strcmp` compares bytes: `StringsAgree` has it tell
  equal from different up to the end of the shorter string, and nothing of its sign. `strncpy` writes n + 1 bytes; `strstr` finds
  nothing in an empty string, not even another one.
- `#` makes room for its prefix by dropping digits, padding or not (`PrefixHasRoom`).
- `addr2symbol` reads one symbol behind the last; an address in the last symbol has no name, or
  the last one's, as the heap's bytes decide. `PanicIsHeard` lets such a line go without a name.

### Bounds, and why they are enough

- `MCFrameAllocator`: frames of 4 bytes, words of 3 bits stored in 2 bytes. The five maps put
  the bitmap's end inside a frame and at its end, leave padding bits in the last word, put a
  region too small for the bitmap first, and have none big enough. Released addresses include
  free, held, reserved and unknown frames and one inside a frame. Up to nine frames; every
  order of calls.
- `MCAddressSpace`: tables of 8 entries with all four levels, a direct map of 24 frames in three
  tables, the kernel's sections and a framebuffer with PAT. Machines: memory in a row, a hole,
  a bitmap shorter than the direct map, too little memory for the tables, memory above the
  direct map. `MaxLive = 3` allocations of one to three pages exhaust the six free frames, so
  the give-up path runs with every prefix.
- `MCHeap`: sizes are a quarter of the real ones, which keeps their order and the
  divisibility of headers. Three pages make up to three majors, or one of two pages; requests of
  0, 12 and 60 bytes make gaps that just fit, just fail and fail for the header only.
  `MaxBlocks = 4` limits the blocks in use when a call begins.
- `MCInterrupts`: three activations at once are a tick that has been acknowledged, the next tick on
  top of it, and a spurious interrupt on top of that or anywhere below; a page fault may come on
  top of all three. Two ticks cannot be in service together, so a fourth level repeats the second.
  One spurious interrupt suffices to acknowledge a tick too early.

- `MCBoot`: numbers of three digits in base 2, so that eight addresses stand for 2^64 and digits of the
  line before do overflow; stacks of one and two frames, ended, endless and ended by a zero,
  against `MaxSymbolTrace = 3`. Up to two I/O APICs and lists with one more than
  `MaxIoapic = 2`, in either order. `Ms = 3` ticks to a millisecond with local clocks of
  1, 2 and 3 of them, so the division of the calibration cuts something off; a local counter of
  4 bits (`CounterMax`) that two of the durations `{0, 1, 2, 6}` overrun. The calibration sleeps
  2 ms (`CALIBRATION_MS`) and its steps come up to one tick late (`lag`). `Irqs` has a line of the first I/O APIC, the line both claim,
  one of the second and one of none. The firmware leaves lines of either I/O APIC open, with a
  vector and a processor of its own, among them the line that is masked and those that are mapped. The root table or a listed one may be
  above the direct map, and so may the HPET's registers, or their period be 0. Machines depart in one part only; within a
  part, everything meets everything (all pairs of missing features, all combinations of bad
  checksums).
- `MCLibrary`: bytes of two bits (`SCHAR_MAX = 1`), two of their four values negative as chars, and every memory
  of four bytes and a terminator with every set of delimiters. Formats: all flags with each other
  on widths and precisions around the number's length; all conversions with all arguments of five bits
  on types of 2, 3, 4 and 5. Words of 2, 4, 6 and 8 bits (`WIDEST = 8`), every one with every other, which reaches
  every case of `__udivmoddi4` and both corrections of Algorithm D. Three slots for destructors,
  four registrations, three finalisations, three of them nested.

Deadlock is not checked in runs whose system stops: a panic or a fault is final, and a
bounded heap with no legal call left has nothing to do, the kernel halts at the end of `kmain`,
and a library function returns.

### Fairness

`Heap` assumes `WF_vars(Turn \/ Return)`. A call is sequential code on one core with
interrupts off; once begun, its next instruction runs. Callers owe nothing. `CallsReturn`
holds because a search goes round at most twice.

`Interrupts` assumes `WF_vars(Serve)`, a handler's code runs on, and `WF_vars(DeliverTimer)`, the
processor takes a request that stays deliverable. Devices and exceptions owe nothing.

`Boot` assumes weak fairness of `Code`, the one processor running with interrupts off, of
`PortSends`, the chip that empties its holding register, and of `TimePasses`. Nobody has to call, no
device has to raise its line. `SleepEnds` needs time to pass, `BootEnds` all three.

`Library` has no fairness and no liveness: what could go on for ever there, a loop over a string
or a table, is one step or bounded by its index.

## What is proved

Every theorem is about the specification its module checks with TLC, for all values of the
constants that satisfy the assumptions, which are named in the modules that declare the constants and
evaluated by TLC in every run:

| Assumption | Says |
|---|---|
| `FrameAllocatorConstants` | sizes are positive, memory maps are as the boot protocol guarantees them, addresses are numbers |
| `AddressSpaceConstants` | a table has at least two entries, a machine is what `Promised` says |
| `HeapConstants` | sizes are positive, pages hold whole alignment notes, no request comes near half of 2^32 |
| `InterruptsConstants` | the bounds are numbers |
| `CxxAbiAssumption` | the null pointer is no destructor |
| `SCHAR_MAXAssumption`, `WIDESTAssumption` | a byte has a value besides 0, a word at least two bits |
| `TextsAssumption` | memory is bytes, and its last byte ends every string in it |
| `OperandsAssumption` | the sizes of words are even, at least 2, and a word is below the power of its size |
| `MachinesAre` | each machine is one: `WellFormed` gives every part its type, the symbols their order, an I/O APIC to each record that names one |
| `SymbolsConstants`, `AcpiConstants`, `TimersConstants` | base, digits, sizes and frequencies are positive numbers |
| `IrqsHaveEntries` | an interrupt that is mapped is one of 0 to 119: its entry has a register number of 8 bits (ioapic.hpp:23) and its vector 32 + irq a value of 8 bits |
| `CounterLasts` | the local counter does not run down within the calibration, as apic.cpp:33 presupposes |

### Frames

- `TypeCorrect`: `Spec => []TypeOK`.
- `FramesArePartitioned`: `Spec => []Partition`. Free and held frames are disjoint, and
  together they are the frames of the usable regions plus what callers gave back unasked.
- `RoundingLosesNothing`: `Spec => []ManagesUsableFrames`. The frames that `init` starts with are
  those that lie wholly in usable memory, less the bitmap's.
- `BitmapImplementsPool`: `Spec => Pool!PoolSpec`. The bitmap search yields the lowest free
  frame, and the null address only when none is free.

They rest on `InductiveInvariant`, `Spec => []IInv`: `TypeOK`, `Partition`, and
`Booting` (before `PmmInit` nothing is held and the map is one of the bootloader's).
`Partition` alone is not inductive: the step of `PmmInit` needs the shape of the memory map that
nobody has carved yet, and the steps on bits need `TypeOK` to turn a frame number into a word
and a bit and back. The lemmas on div and mod carry
that; `AllocateTakesLeast` and `ReleaseGives` describe the two calls in terms of the pool, and both
the invariant and the refinement are proved from them. `Geometry` says where the bitmap lies after
`PmmInit`; the rounding of a region at both ends and of the bitmap at its end are its lemmas.

### Address space

For every number of entries in a table, every place of the direct map and every machine that is as
promised:

- `FramesKeepOneOwner`, `AllocationsKeepMapped`, `StopsAreForMemory`: `Spec => []FramesHaveOneOwner`,
  `[]AllocationsStayMapped`, `[]StopsOnlyForMemory`.
- `TlbKeepsCoherent`, `AddressSpaceTypeOK`: `Spec => [](~fragmented => TlbIsCoherent)` and the same of
  `TypeOK`. TLC finds no state in which either fails after an allocation out of a row, but there
  the theorems say nothing: such an allocation may free the frame of a table, and what the table holds
  afterwards is anyone's guess.
- `TablesKeepReachable`: `Spec => [](machine.usable \subseteq 0 .. machine.direct - 1 => TablesStayReachable)`.
  With usable memory above the first 4 GiB `init_kernel` may put a table where nothing is mapped when
  low memory runs short, and the next access to it is the fault that `StopsOnlyForMemory` names.
- `SectionsKeepProtected`: `Spec => [](LaidOut(machine) /\ Running(mem) /\ ~fragmented => SectionsProtected)`.
  `LaidOut` is a hypothesis and not one of the promises, because `linker.ld` and `init_kernel` keep it only for an image
  of today's size. A directory has the flags of the section that made it, and is not changed afterwards. The requests come
  first and are writable, so a kernel that fits behind one page directory entry (2 MiB) is right; once its text reaches into the
  next 2 MiB, the directory made there is read-only, and data that follow in them could not be written. `LaidOut` says what
  it takes: a read-only section has no part of its way to itself that a writable one needs too, an earlier section has been
  there (`GoesAfterAnother`); sections that share a page agree; the framebuffer is in no usable frame. TLC checks that its
  machines are laid out so (`MachinesLaidOut`).

They rest on `AddressSpaceInvariant`, `Spec => []IInv`. That every frame has one owner is not
inductive, since which frame `map` and `unmap` release depends on what a table holds, and which
table they look into on the entries on the way. So `IInv` says, as long as allocations got frames in a row,
that the machine has stopped for a reason (`Halted`), has not made a table yet (`Pristine`), or
has a memory that is `Good`, which consists of

- `IsTree`: there is a level and a set of pages for each table (`lev`, `home`), such that an
  entry leads one level down, to the table of just the pages with its index (`Leads`), every table but the root hangs
  in one (`Hangs`), and tables of a level have no page in common (`Apart`). `WalkArrives` and `WalkArrived` derive from it
  what the processor's walk of four steps finds; `OneLeaf` that no other page changes when a leaf is written.
- `LeavesRight`: a page of the direct map has its own frame and may be written, but for the first; a page of a
  section has the section's frame and, in an image that is laid out, its protection (`ProtectedAs`). This is why `map` never finds another frame to release than the
  one it is to map, and where an allocation out of a row breaks everything.
- `Writes`: the directories on the way to the direct map and to writable sections are writable, whoever made them, and
  none forbids execution. A new directory keeps this (`KeepsWrites`) because it is writable itself, or because nothing
  behind it must be, or because a mapped page shows that it is not new (`SameEntry`).
- `Owned` and `Backed`: the usable frames are free, a table, or handed out; those handed out have their leaves.
- `SelfMapped`: a table in the first 4 GiB has its page in the direct map, and none of those pages misses a table,
  hence mapping one of them never needs a frame; the sections are mapped (`SectionsHave`), and an `unmap` later on
  takes no page of theirs, since it is called for usable frames only.

`RowsRight` adds that each allocation is a row of frames at its place, apart from the others, and `CacheRight`
that only pages of allocations are cached. There is one lemma for each step of a call (`NextTableMade`,
`LeafMapped`, `LeafCleared`, ...) and one for each loop (`RangeMapped`, `RunUnmapped`, `PagesAllocated`,
`SpansMapped`), by induction up to the number of turns.

### Heap

- `HeapTyped`, `HeapKeepsBlocksApart`, `HeapCountsExactly`, `BetNeverDangles`: `Spec => []TypeOK`,
  `[]BlocksStayApart`, `[]AccountsExact`, `[]BestBetIsOwned`.
- `KmallocLooksEverywhere`: `Spec => SearchesEverywhere`, an action property. The heap asks for pages, or
  gives up, only when no major has room.
- `HeapImplementsBlocks`: `Spec => ImplementsBlocks`, the refinement of `HeapBlocks`.

The invariant `IInv` is what the loops of heap.cpp presuppose and nobody wrote down. The list of majors is
a `GoodList`: each major is `Sound` - its minors lie behind its header in the order of their addresses, apart, and
within its pages, and its usage is the sum of their sizes and headers - and two majors share no page. `Counted`
relates the two counters to sums over the whole list. `OnlyTargetIsEmpty`: between two calls no major is
without blocks; during one, only the one a block is about to go to. `BetOwned`: the best bet is null or in the
list. `JobOK` is what the loop of `kmalloc` has in hand between its turns, and `Searched` that
the majors it has already passed have no room. `BlocksStayApart` alone is not inductive, because a new block goes
into a gap computed from its neighbours' sizes, and the gap's size is right only in a list that is in order; and
`SearchesEverywhere` needs `Searched` with the place where the search started, since it goes round. Sums over lists
are handled by the change one insertion or removal makes to them.

### Interrupts

- `InterruptsTyped`, `OnlyExceptionsStop`, `ServiceFollowsStack`: `Spec => []TypeOK`, `[]StopsAreExplained`,
  `[]InServiceOrder`, however deep handlers nest.
- `InterruptedCodeGetsBack`: `Spec => OthersComeBack`, an action property.

`IInv` adds `Installed`, which handlers are in the table by when - IF is set only after the last of them is, so
nothing the APIC delivers finds an empty entry - and `Recorded`, what an activation has
saved of the code below it. Without `Recorded` a return could bring back anything; with it, `PopsMirrorPushes` and
`PoppedIs` reduce the property to the two lists of isr.asm. `ServiceFollowsStack` needs that a tick is delivered only above
everything in service (`OnlyTicksInService`).

### The library

The products and divisions are proved in `CcRuntimeProofs`, the rest in `LibraryProofs`.

- `EachDestroyedOnce`: `Spec => []DestroyedOnce` for the behaviours of `Library`, whatever the
  table's size and however deep destructors register and finalise.

It rests on `AbiInvariant`, `Spec => []AbiInv`. What was called and what is in the table do
not exclude each other by themselves: between the call of a destructor and its return the slot still has
the function, and another loop may pass over it. `AbiInv` says who may: while nobody asked for everything or for
the same again (`Calm`), every loop under way is about a function of its own (`LoopsDiffer`), the
slot of a running destructor keeps its function (`RunningStays`), and any other slot that was
called is clear (`DestroyedIsClear`). So a loop that finds its function in a slot finds one that
was not called before (`OnlyOnce`; lemma `CallKeeps`). `NothingLeftBehind` is the second half of
the property, for the slots each loop has passed. There is one lemma per action.

- `TokensAreTheFields`: `Spec => []TokensAreFields`, for every memory and every set of delimiters.

The tokens alone do not say where `strtok` goes on, and the string it works on is no longer the
string it was given. `StringsRight` says that between two calls everything from the static pointer on is untouched and
a delimiter stood right before it (`GoesOn`), that the tokens are the fields that begin before it, and that each still
has its bytes and now a NUL behind it (`FieldStands`). A call writes one byte, behind every field found before.

- `StringsDoAgree`: `Spec => []StringsAgree`, for every memory, of any length and any width of bytes.

The invariant is that memory ends in a NUL (`TextEnds`), which `strtok`'s writes keep. The copies are `CopyMoves`: in the
order `memmove` chooses, no turn reads a byte that an earlier one wrote (`UpwardsMoves`, `DownwardsMoves`).
The comparisons rest on where two strings `Meets`: the first place at which they differ or both end, which is one
place however the loop gets there.

- `OverflowIsAlwaysTold`: `Spec => []OverflowIsTold`, for words of every even size up to any `WIDEST`.

`IsSize` reduces a word to a number modulo an even number, `SignedIs` and `SignedOfWrap` the sign to the half it lies
in. `SumTells` and `NegateTells` are then linear; `ProductTells` is the reason why comparing with a quotient
tells whether a product is too large. `WideProduct` adds the products of halves in the code's order and shows that no sum
on the way leaves its word.

- `DivisionIsAlwaysExact`: `Spec => []DivisionIsExact`, for words of every even size up to any `WIDEST`, every dividend and
  every divisor but 0.

There is one lemma for each way in which the code divides. *Shift and subtract* (`UdivmodXDivides`,
`FromHalvesDivides`): after each turn `AtTurn` holds, the bits taken so far are quotient and remainder of the dividend
without those still to come. The test by sign is right only while the difference fits a signed word, which is what the
choice of the first turn from the leading zeros is for (`SignServes`, `TurnsFor`); that the four ways in which
`__udivmoddi4` shifts halves are all one shift of the whole is `StartsFrom`. *Powers of two* (`PowerDivides`) shift the
dividend through both halves. *Two digits* (`TwoDigitsDivide`), where there is no `divq`: an
estimate is compared with what is left of the dividend, and `TestTells` and `EnoughLeft` say that it is taken down exactly while it is
too large, and never tested where the test would leave its word. *The loop of `__udivmodti4`* (`TakesDivide`) keeps
`AtTake`, the quotient so far times the divisor where it has got to, and `LiningUp` shows that the leading zeros of the upper halves
put it where it has to start. The signed divisions put the signs back on the magnitudes' (`SignsDivide`), the least
number's among them, whose magnitude is a word but not a number of its type.

- `SnprintfTruncatesOnly`: `Spec => []TruncatesOnly`, for every set of formats of well-formed directives
  (`CallsAssumption`), every count and every size of the number buffer.

`DirectiveIs` follows each conversion to its end and finds the formatter's own characters, none of which is a NUL, and
the argument's. Then the loop of `_out_buffer` has, after k characters, written those of them that are below the count (`Below`,
`VsnprintfIs`), and the one of `_out_char` has sent all of them (`FctprintfIs`); `TerminatorCloses` is the arithmetic of the
last line, for a count of 0 too.

- `NumbersDoReadBack`: `Spec => []NumbersReadBack`, for every directive of every such format, every argument and all
  sizes of types and of the number buffer. A number is followed if its own digits, the width and the precision each leave two
  characters of the buffer free (`BufferIsBigEnough`): with the real 32 these are all but the binary numbers of
  more than 30 digits. `#` needs room for its prefix too (`PrefixHasRoom`).

`Spelt` says that a row of digits, last one first, is what the divisions by the base leave from turn to turn; the loop keeps it
(`TurnsOnce`), and a loop that ended before the buffer was full has nothing left of the value (`DigitsSpell`). Leading zeros do
not change it (`ZerosSpell`), and what is spelt is what a reader finds, digit by digit from the other end
(`SpeltIsRead`). So it remains to show that `_ntoa_format` adds nothing but zeros, prefix, sign and blanks: `HashSays`
is the one place where it takes characters away again, and `HashRoom` is what makes them zeros. `NtoaFormatSays` puts the
parts together, with the width: a sign is in it or on top, but never both. That the flags, a negative
width and the specifier leave what these lemmas ask for is `AskedOf`.

### Boot

All of `Boot`'s safety properties, for every set of well-formed machines, sizes, frequencies, durations and
interrupts:

- `SoundMachinesBootTheorem`: a machine with what `kmain` needs gets to the end of it.
- `SerialLosesNothingTheorem`, `PanicIsHeardTheorem`, `ProcessorIsSetUpTheorem`,
  `FirmwareIsUnderstoodTheorem`, `LinesArriveAsAskedTheorem`, `NeverTooEarlyTheorem`, `TypeOKTheorem`: the
  property each is named for.

`BootHolds` is the invariant, a conjunction with a part per component, each proved to be kept by every step and using only the
parts before it:

- `Control`: where the code is, and that the IDT and the APIC are on from their steps onwards. With it, lemma `CodeSteps`
  sorts all of `Next` into the few things a step can do to the code's own state (`CodeStep`); the next three
  parts look at nothing else.
- `SymbolsHold`: the table is empty or the machine's. That the loader reads back what the build wrote,
  though it never resets its accumulator between lines, is `LinesReadBack`: the digits of a line
  push those of the line before out of the word.
- `PortHolds`: a port that is written to is tuned and out of loopback, and what was said is what was sent
  and what the chip holds. `SetUpIs` follows the writes of `UART::init` one by one.
- `PanicHolds`: what has been said and what is still to be written end, together, in the report.
- `CpuHolds`: the registers are as the machine starts until `CPU::init`. `NothingRefused` is the order of its nine writes:
  XCR0 is written behind OSXSAVE.
- `FirmHolds`: before record n of the MADT is looked at, exactly the records before it are understood
  (`Understood`); a record of length 0 is never left, and nothing else is claimed then.
- `RouteHolds`: every open entry is as the firmware left it (`IsLeft`) or was asked for (`WasAsked`), and the latter leads to this processor
  unless it is the one whose halves are being written (`HalfWritten`), which is why the property
  bounds what arrives early. Once `IOAPIC::init` is through, the line it masks (`IsMasked`) is open only if it was asked for;
  `InitIoapicMasks` is the loop that does this.
- `TimersHold`: during the calibration the local counter has gone down by no more than time has passed
  (`Waited`), hence ticks per millisecond are not too many; afterwards what is left of a count and the time since it was
  set make up the whole (`Elapsed`). Both are inequalities between products, as the two clocks are not in step.
- `RestHolds`: bounds.

`SoundMachinesBoot` is then one case per step: what would stop it is excluded by `Sound` or by what an earlier part of
`BootHolds` says. The room in the list of I/O APICs is a counting argument (`RoomForOneMore`): the list's places
map one to one to records other than the one at hand.

### Only model-checked

- `SectionsProtected` of `AddressSpace` on a machine that has stopped, or after an allocation out of a row.
- `TypeOK` and `TlbIsCoherent` of `AddressSpace` after an allocation out of a row, see above.
- Liveness under fairness: `CallsReturn`, `TicksAreServed`, `SleepEnds`, `BootEnds`.
- The six violations.

## Not modelled

- Other processors. The kernel starts none; whom an IPI reaches is not followed.
- Floating point in printf (`_ftoa`, `_etoa`), which the kernel never prints, and the
  characters a directive is read from.
- Shifts by halves, bit counts, comparisons and byte swaps of the compiler runtime: single lines of bit
  operations.
- The reports of the sanitizer other than the alignment check the heap runs into: each is a panic with
  another text, at places the compiler chooses.
- Headers: declarations.
- Sizes near 2^32, where the heap's `unsigned int` fields would wrap: excluded by
  `HeapConstants`, no caller comes near.
- A pointer freed twice after its bytes were reused: the allocator cannot tell it from a live
  one; callers of the model free live pointers only.
- Two memory managers inside `Boot`: one step there, `FrameAllocator` and `AddressSpace` here.

## Plan

Every part of the table above has its module. What is left:

1. Composition: `Heap` over `AddressSpace`'s pages instead of any free run.
