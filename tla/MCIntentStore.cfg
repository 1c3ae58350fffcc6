SPECIFICATION FairSpec
CONSTANTS
    i1 = i1
    i2 = i2
    i3 = i3
    Unknown = Unknown
    Ids = {i1, i2, i3, Unknown}
    Key <- KeyOf
    Requests = {t1, t2, t3}
    None = None
INVARIANTS TypeOK GaplessHistory
PROPERTIES LogSpec RequestsEnd
CHECK_DEADLOCK FALSE
