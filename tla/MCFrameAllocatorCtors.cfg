\* The constructors run after the frame allocator has been set up.
CONSTANTS
    FrameSize = 4
    WordBits = 3
    WordBytes = 2
    AddressLimit = 64
    MemoryMaps <- MCMemoryMaps
    Addresses <- MCAddresses
    DynamicInit = TRUE
SPECIFICATION Spec
INVARIANT
    BitmapStaysInstalled
CHECK_DEADLOCK FALSE
