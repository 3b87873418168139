SPECIFICATION Spec
CONSTANTS
    PwmMin = 1
    PwmMax = 3
    TickPwm = 1
    FastIncrement = 2
    IntMax = 4
    Positions <- TwoPositions
    AngleTicks = 2
    Absent = Absent
    Empty = Empty
    HwFaults = FALSE
    NvFaults = FALSE
INVARIANT PowerReported
