SPECIFICATION Spec
CONSTANTS
    a1 = a1  a2 = a2  d1 = d1  d2 = d2
    Addresses <- MCAddresses
    Deposits <- MCDeposits
    AddressOf <- MCAddressOf
    Required <- MCRequired
    MempoolCap = 1
    MaxTip = 2
    MaxReorgs = 1
INVARIANTS
    TypeOK
    OutboxMatchesDeposit
PROPERTIES
    CountFallsOnlyAfterReorg
    EventuallyAccurate
