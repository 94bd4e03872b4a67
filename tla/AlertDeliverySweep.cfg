CONSTANTS
    Alerts <- TwoAlerts
    Subs <- SweepSubs
    Devices = {"d"}
    DeviceOf <- SweepDeviceOf
    ChannelOf <- SweepChannelOf
    MatchOf <- SweepMatchOf
    ScopedTo <- Unscoped
    LiveAtStart <- SweepSubs
    MaxAttempts = 2
    BatchLimit = 1
    MaxFaults = 0
    MaxCrashes = 1
SPECIFICATION FairSpec
PROPERTIES EventuallyClosed
CHECK_DEADLOCK FALSE
