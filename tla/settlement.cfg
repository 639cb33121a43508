SPECIFICATION Spec
CONSTANTS
    Threads = {t1, t2}
    Routes = {"settle", "reconcile_peer", "payout", "reconcile", "own_payout", "own_reconcile",
              "release", "refund", "record"}
    MaxCrashes = 1
INVARIANTS
    TypeOK
    PaidOutOnce
    ReleaseAfterPayout
    RefundedMeansUnpaid
    ConfirmedIsReleasable
    ConclusionHasEvidence
SYMMETRY ThreadSymmetry
