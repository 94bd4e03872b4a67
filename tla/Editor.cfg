SPECIFICATION MCSpec
CONSTANTS
    Toolbox <- MCToolbox
    Fields = {"f0", "f1"}
    Default = "f0"
    Seeded = "f1"
    Templates <- MCTemplates
    Stores <- MCStores
    MaxSteps = 3
    SeedSteps = 1
    MaxBlocks = 6
    Files <- MCFiles
    Sources = {"supply", "pump", "battery"}
    Levels = {0, 1}
    TEMP_SUSTAIN = 3
    TEMP_SUSTAIN_MS = 4
    COOLDOWN_MS = 5
    Delays = {1, 2, 5}
    MaxTime = 16
    ALERT_MAX = 14
    CODE_MAX = 6
    FRAME = 2
    MaxText = 5
    MaxDepth = 3
    MaxList = 5
INVARIANTS
    WellPlugged UndoReturns StoredAgrees
    AlertEarned NoMissedAlert TextReadsBack ExprReadsBack HelpersDefined
PROPERTIES CooldownHeld
CHECK_DEADLOCK FALSE
