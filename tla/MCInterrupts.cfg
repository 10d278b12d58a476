\* The kernel may halt, panic or reset: it stops there.
CHECK_DEADLOCK FALSE
SPECIFICATION Spec
CONSTANTS
    MaxDepth = 3
    MaxSpurious = 1
INVARIANTS
    TypeOK
    InServiceOrder
    StopsAreExplained
PROPERTIES
    OthersComeBack
    TicksAreServed
