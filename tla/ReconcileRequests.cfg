SPECIFICATION FairSpec
CONSTANTS
    Requests = {c1, c2}
    Targets = {t1, t2}
    PoolSize = 3
    JobIds = {j1, j2, j3}
    Workers = {w1}
    MaxAttempts = 1
    None = None
INVARIANTS DedupBound AnswersAlike
PROPERTIES RequestsEnd
CHECK_DEADLOCK FALSE
