SPECIFICATION MCSpec
CONSTANTS
    r1 = r1
    r2 = r2
    r3 = r3
    k1 = k1
    k2 = k2
    near = near
    dry = dry
    Intents = {1, 2}
    Revisions = {r1, r2, r3}
    Keys = {k1, k2}
    IntentOf <- MCIntentOf
    KeyOf <- MCKeyOf
    TtlRevisions = {r1}
    Unrenderable = {}
    MaxPlans = 2
    Calls = {c1}
    Workers = {w1}
    JobIds = {1, 2}
    MaxAttempts = 2
    Limit = 2
    MaxErrors = 1
    MaxFaults = 1
    MaxCrashes = 1
    None = None
    Targets = {near, dry}
    RecJobIds = {11}
    KeysOf <- Namespaces
    DryRuns = {dry}
    DriftKeys = {k1}
    ReconcileLimit = 2
    DriftLimit = 2
    MaxTampers = 1
INVARIANTS DriftTypeOK
PROPERTIES DeletesOnlyExtra ReconcileConverges SnapshotFollows
CHECK_DEADLOCK FALSE
