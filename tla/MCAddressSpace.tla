--------------------------- MODULE MCAddressSpace ---------------------------
(***************************************************************************)
(* Small machines for AddressSpace: tables of 8 entries, so the direct map *)
(* of 24 frames takes three page tables, and six frames are left for the   *)
(* heap.  Page 2048 is the direct map's first, 4088 the kernel's.          *)
(***************************************************************************)
EXTENDS AddressSpace

MCHhdmBase == 2048
Kernel == 4088

Section(page, frame, pages, flags) ==
    [virt |-> page, phys |-> frame, pages |-> pages, flags |-> flags]

\* The order init_kernel maps them in.
Sections(first, frame) ==
    << Section(first, frame, 1, {"W", "XD"}),                      \* requests
       Section(first + 1, frame + 1, 1, {}),                       \* text
       Section(first + 2, frame + 2, 1, {"XD"}),                   \* rodata
       Section(first + 3, frame + 3, 1, {"W", "XD"}),              \* data
       Section(MCHhdmBase + 23, 23, 1, {"W", "XD", "PAT"}) >>      \* framebuffer

MCMachines ==
    { \* six free frames in a row, then the kernel
      [limit |-> 22, usable |-> 2 .. 16, direct |-> 24, sections |-> Sections(Kernel, 18)],
      \* a reserved frame in the middle of the free ones
      [limit |-> 22, usable |-> (2 .. 12) \cup (14 .. 17), direct |-> 24,
       sections |-> Sections(Kernel, 18)],
      \* the end of the bitmap's range among the direct map's pages
      [limit |-> 18, usable |-> {2, 3} \cup (5 .. 17), direct |-> 24,
       sections |-> Sections(Kernel, 18)],
      \* too few frames for the tables of init_kernel
      [limit |-> 9, usable |-> 2 .. 8, direct |-> 24, sections |-> Sections(Kernel, 18)],
      \* memory above the direct map
      [limit |-> 30, usable |-> (2 .. 12) \cup (24 .. 29), direct |-> 24,
       sections |-> Sections(Kernel, 18)] }

\* All of them have their sections as the linker script orders them.
ASSUME MachinesLaidOut == \A mach \in MCMachines : LaidOut(mach)

MCPageCounts == {1, 2, 3}
=============================================================================
