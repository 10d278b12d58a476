\* Sequences of kmalloc, kcalloc, krealloc and kfree with up to four blocks.
SPECIFICATION Spec
CONSTANTS
    PageSize = 64
    PageCount = 1
    MajorSize = 10
    MinorSize = 10
    HeaderAlign = 2
    Alignment = 4
    UintLimit = 4096
    HeapPages = {1, 2, 3}
    Requests = {0, 12, 60}
    MaxBlocks = 4
    Sanitized = FALSE
INVARIANTS
    TypeOK
    BlocksStayApart
    AccountsExact
    BestBetIsOwned
PROPERTIES
    SearchesEverywhere
    CallsReturn
    ImplementsBlocks
CHECK_DEADLOCK FALSE
