CHECK_DEADLOCK FALSE
SPECIFICATION Spec
CONSTANTS
    MaxDepth = 1
    MaxSpurious = 0
INVARIANTS
    SelfStaysInGs
