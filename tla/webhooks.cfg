SPECIFICATION FairSpec
CONSTANTS
    Endpoints = {e1}
    Workers = {w1, w2}
    None = None
    MaxEvents = 2
    MaxReplays = 1
    MaxAttempts = 2
    BatchLimit = 2
    Lease = 2
    BaseBackoff = 1
    MaxBackoff = 1
INVARIANTS
    TypeOK
    OneSenderPerDelivery
    RecordedAttemptsBounded
    GivesUpOnlyWhenExhausted
PROPERTIES
    DeliveredStays
    EveryDeliveryEnds
CHECK_DEADLOCK FALSE
