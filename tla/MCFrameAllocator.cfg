\* Every memory map of MCMemoryMaps under every order of calls.
CONSTANTS
    FrameSize = 4
    WordBits = 3
    WordBytes = 2
    AddressLimit = 64
    MemoryMaps <- MCMemoryMaps
    Addresses <- MCAddresses
    DynamicInit = TRUE
SPECIFICATION Spec
INVARIANTS
    TypeOK
    Partition
    ManagesUsableFrames
PROPERTY
    ImplementsPool
\* A panic or a fault stops the machine for good.
CHECK_DEADLOCK FALSE
