SPECIFICATION FairSpec
CONSTANTS
    PwmMin = 1
    PwmMax = 2
    TickPwm = 1
    FastIncrement = 2
    IntMax = 4
    Positions <- TwoPositions
    AngleTicks = 2
    Absent = Absent
    Empty = Empty
    HwFaults = FALSE
    NvFaults = FALSE
INVARIANT NvPending
PROPERTIES
    PositionSaved
    PowerSettles
