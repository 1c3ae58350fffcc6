SPECIFICATION FairSpec
CONSTANTS
    JobIds = {j1, j2, j3}
    Workers = {w1, w2}
    Payloads = {p}
    MaxAttempts = 3
    None = None
INVARIANTS TypeOK ExclusiveLease RetryBudget
PROPERTIES OutcomeIsFinal JobSettles
CHECK_DEADLOCK FALSE
