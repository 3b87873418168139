SPECIFICATION Spec
CONSTANTS
    PwmMin = 1
    PwmMax = 3
    TickPwm = 1
    FastIncrement = 2
    IntMax = 4
    Positions <- ThreePositions
    AngleTicks = 2
    Absent = Absent
    Empty = Empty
    HwFaults = TRUE
    NvFaults = TRUE
INVARIANTS
    TypeOK
    HwInRange
    SwitchPending
    StoredIsInFile
PROPERTY CameraAgrees
