\* The build that checks alignment, with a request of one byte.
SPECIFICATION Spec
CONSTANTS
    PageSize = 64
    PageCount = 1
    MajorSize = 10
    MinorSize = 10
    HeaderAlign = 2
    Alignment = 4
    UintLimit = 4096
    HeapPages = {1, 2, 3}
    Requests = {0, 1, 60}
    MaxBlocks = 4
    Sanitized = TRUE
INVARIANTS
    AnySizeIsServed
CHECK_DEADLOCK FALSE
