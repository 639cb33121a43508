SPECIFICATION Spec
CONSTANTS
    k1 = k1  k2 = k2  i1 = i1  i2 = i2
    Keys <- MCKeys
    Invoices <- MCInvoices
    Bodies <- MCBodies
    Requests = {r1, r2, r3}
    Reconcilers = {c1}
    Startup = startup
    None = None
    MaxCrashes = 1
SYMMETRY Symmetry
INVARIANTS
    TypeOK
    AskedOncePerKey
    SucceededMeansPaid
    FailedMeansNotPaid
    OutboxMatchesLedger
    ClaimMeansApplied
PROPERTIES
    FinalIsForever
    StartupLeavesNoOrphan
    ImplementsLifecycle
CHECK_DEADLOCK FALSE
