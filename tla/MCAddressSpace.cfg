\* Allocations of one to three pages on five machines.
CONSTANTS
    Fanout = 8
    HhdmBase <- MCHhdmBase
    Machines <- MCMachines
    PageCounts <- MCPageCounts
    MaxLive = 3
SPECIFICATION Spec
INVARIANTS
    TypeOK
    FramesHaveOneOwner
    AllocationsStayMapped
    TablesStayReachable
    TlbIsCoherent
    SectionsProtected
    StopsOnlyForMemory
\* The machine may stop, and nothing is left to do with no frame free.
CHECK_DEADLOCK FALSE
