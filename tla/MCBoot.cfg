\* The boot on machines with one part out of the ordinary.
CONSTANTS
    HexBase = 2
    AddressDigits = 3
    CountDigits = 3
    MaxSymbolTrace = 3
    Machines <- MCMachines
    MaxIoapic = 2
    Ms = 3
    CounterMax = 15
    CALIBRATION_MS = 2
    Durations <- MCDurations
    Irqs <- MCIrqs
SPECIFICATION Spec
INVARIANTS
    TypeOK
    SerialLosesNothing
    PanicIsHeard
    ProcessorIsSetUp
    FirmwareIsUnderstood
    LinesArriveAsAsked
    NeverTooEarly
    SoundMachinesBoot
PROPERTIES
    SleepEnds
    BootEnds
\* The kernel halts.
CHECK_DEADLOCK FALSE
