SPECIFICATION Spec
CONSTANTS
    PipeCap = 8
    Steps = {1}
    MaxEvents = 2
INVARIANTS
    TypeOK
    OnlyGreetingStale
