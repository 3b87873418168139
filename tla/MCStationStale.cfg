SPECIFICATION Spec
CONSTANTS
    PipeCap = 8
    Steps = {1}
    MaxEvents = 2
INVARIANT
    LatestIsCurrent
