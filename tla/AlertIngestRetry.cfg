CONSTANTS
    Messages <- ThreeMessages
    PayloadOf <- ThreePayloads
    RetrySlots = 1
    InsertRetries = 2
    RetryDelay = 5
    DedupWindow = 600
    EventsPerDay = 2
    MaxFaults = 3
    MaxCrashes = 1
SPECIFICATION FairSpec
INVARIANTS StoredOncePerMessage QuotaHeld NoSilentLoss
PROPERTIES EveryCallEnds
CHECK_DEADLOCK FALSE
