SPECIFICATION FairSpec
CONSTANTS
    PipeCap = 8
    Steps = {1}
    MaxEvents = 1
PROPERTIES
    OperatorHeard
    VanishedDropped
    TermStops
