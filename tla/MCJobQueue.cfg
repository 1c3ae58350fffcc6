SPECIFICATION Spec
CONSTANTS
    JobIds = {j1, j2}
    Workers = {w1, w2}
    Payloads = {p}
    MaxAttempts = 2
    None = None
    Backoff = 2
    TxLag = 1
    MaxNow = 6
INVARIANTS TypeOK RetrySpacing
PROPERTIES PoolSpec
CHECK_DEADLOCK FALSE
