CONSTANTS
    Alerts <- OneAlert
    Subs <- RaceSubs
    Devices = {"d"}
    DeviceOf <- RaceDeviceOf
    ChannelOf <- RaceChannelOf
    MatchOf <- RaceMatchOf
    ScopedTo <- RaceScopedTo
    LiveAtStart <- RaceLive
    MaxAttempts = 2
    BatchLimit = 1
    MaxFaults = 1
    MaxCrashes = 1
SPECIFICATION Spec
INVARIANTS TypeOK ClaimExclusive NoResend DeliveredReachesStanding
PROPERTIES TerminalStable ImplementsLifecycle
CHECK_DEADLOCK FALSE
