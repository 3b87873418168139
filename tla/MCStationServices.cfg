CONSTANTS
    sda1 = sda1
    sdb1 = sdb1
    Drives = {sda1, sdb1}
    Label <- MCLabel
    MaxPlugs = 3
    FileOn <- MCFileOn
    Files = {"factory", "table", "absent", "bad"}
    Good = {"factory", "table", "absent"}
    Absent = {"absent"}
    Factory = "factory"
    NoFile = "nofile"
    Empty = "empty"
    MaxToggles = 3
    MaxCleanups = 2
SPECIFICATION MCSpec
INVARIANTS TypeOK HelperMounted LockFreed FlagTruth
PROPERTIES RecordingEnds ConfigCurrent
CHECK_DEADLOCK FALSE
