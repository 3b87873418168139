CONSTANTS
    MaxStarts = 4
    MaxStrays = 3
    MaxRetries = 2
SPECIFICATION Spec
INVARIANTS TypeOK StopHolds WatchdogGuards RunningHasSource
PROPERTY StreamsWhenOn
CHECK_DEADLOCK TRUE
