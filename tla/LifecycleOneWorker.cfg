SPECIFICATION Spec
CONSTANTS
    r1 = r1
    r2 = r2
    k1 = k1
    k2 = k2
    Intents = {1}
    Revisions = {r1, r2}
    Keys = {k1}
    IntentOf <- OneIntent
    KeyOf <- SameKey
    TtlRevisions = {r1, r2}
    Unrenderable = {}
    MaxPlans = 2
    Calls = {c1, c2}
    Workers = {w1}
    JobIds = {1, 2, 3, 4}
    MaxAttempts = 2
    Limit = 1
    MaxErrors = 1
    MaxCrashes = 1
    None = None
SYMMETRY Alike
CONSTRAINT OneFailure
INVARIANTS TypeOK EnforcedIsApplied AppliedIsEnforced ExpiryIsAudited
CHECK_DEADLOCK FALSE
