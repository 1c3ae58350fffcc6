SPECIFICATION ScenarioSpec
CONSTANTS
    r1 = r1
    r2 = r2
    k1 = k1
    k2 = k2
    Intents = {1}
    Revisions = {r1, r2}
    Keys = {k1}
    IntentOf <- OneIntent
    KeyOf <- SameKey
    TtlRevisions = {r2}
    Unrenderable = {}
    MaxPlans = 2
    Calls = {c1}
    Workers = {w1}
    JobIds = {1, 2, 3, 4}
    MaxAttempts = 2
    Limit = 1
    MaxErrors = 1
    MaxCrashes = 0
    None = None
    Base = r1
    Brief = r2
    Client = c1
CHECK_DEADLOCK FALSE
PROPERTIES OnlyDeadlineRaces ScenarioEnds ResultStands
