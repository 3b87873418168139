CONSTANTS
    TimestampLen = 0
    PayloadLen <- MCPayloadLen
    FdLimit = 1
    MaxFrames <- MCMaxFrames
    StatusTimeout = 2
    AlarmSeconds = 1
    Never = Never
    Tails = {0, 2}
SPECIFICATION FairSpec
INVARIANTS TypeOK CleanResync KilledWithInput
PROPERTIES Processed DropNeedsAlarm Reconnects
CHECK_DEADLOCK TRUE
