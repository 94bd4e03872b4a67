CONSTANTS
    Messages <- TwoDeliveries
    PayloadOf <- OnePayload
    RetrySlots = 1
    InsertRetries = 2
    RetryDelay = 5
    DedupWindow = 600
    EventsPerDay = 2
    MaxFaults = 0
    MaxCrashes = 0
SPECIFICATION Spec
INVARIANTS RedeliveryNotifiesOnce
CHECK_DEADLOCK FALSE
