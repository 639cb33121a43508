SPECIFICATION Spec
CONSTANTS
    Endpoints = {e1, e2, e3}
    Workers = {w1, w2}
    None = None
    MaxEvents = 1
    MaxReplays = 0
    MaxAttempts = 2
    BatchLimit = 3
    Lease = 3
    BaseBackoff = 1
    MaxBackoff = 2
INVARIANT NeverSentTwice
CHECK_DEADLOCK FALSE
