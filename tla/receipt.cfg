SPECIFICATION FairSpec
CONSTANTS
    Keys = {k1}
    NoKey = NoKey
    Params = {p1, p2}
    Hashes = {h1, h2}
    Requests = {r1, r2, r3}
    None = None
    MaxCrashes = 1
INVARIANTS
    TypeOK
    SameKeySameInvoice
    PaidMeansReceived
    OutboxMatchesInvoice
    ClaimMeansPaid
PROPERTIES
    FinalIsForever
    EveryEventIsAcknowledged
CHECK_DEADLOCK FALSE
