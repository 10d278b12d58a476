\* An allocation whose frames are not in a row.
CONSTANTS
    Fanout = 8
    HhdmBase <- MCHhdmBase
    Machines <- MCMachines
    PageCounts <- MCPageCounts
    MaxLive = 3
SPECIFICATION Spec
INVARIANT
    NoFrameIsStolen
CHECK_DEADLOCK FALSE
