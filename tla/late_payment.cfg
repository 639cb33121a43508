SPECIFICATION Spec
CONSTANTS
    Keys = {k1}
    NoKey = NoKey
    Params = {p1, p2}
    Hashes = {h1, h2}
    Requests = {r1, r2}
    None = None
    MaxCrashes = 1
INVARIANT AcknowledgedIsPaid
CHECK_DEADLOCK FALSE
