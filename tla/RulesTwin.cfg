SPECIFICATION TwinSpec
CONSTANTS
    Files <- TwinFile
    Sources = {"supply", "pump", "battery"}
    Levels = {0, 1}
    TEMP_SUSTAIN = 3
    TEMP_SUSTAIN_MS = 4
    COOLDOWN_MS = 5
    Delays = {1, 2, 5}
    MaxTime = 16
    ALERT_MAX = 14
    CODE_MAX = 6
    FRAME = 2
    MaxText = 5
    MaxDepth = 3
    MaxList = 5
INVARIANTS AlertEarned
CHECK_DEADLOCK FALSE
