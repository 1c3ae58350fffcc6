SPECIFICATION Spec
SYMMETRY Symmetry
CONSTANTS
    i1 = i1
    i2 = i2
    i3 = i3
    i4 = i4
    c1 = c1
    c2 = c2
    Internet = "0.0.0.0/0"
    Padded = " 0.0.0.0/0"
    PolicyName <- MCPolicyName
    Int32Max = 100000
    Overflowed <- MCOverflowed
    Intents = {i1, i2, i3}
    Writers = {c1, c2}
    Nil = Nil
    Malformed = Malformed
    Limit = 2
    Specs <- MCSpecs
    Requests <- MCRequests
    MaxTransactions = 4
    MaxRevisions = 2
    Common <- MCCommon
INVARIANTS TypeOK AllowedIsEnforced GlobalIsSingle GuardedPolicies PolicyIsConfined GrantsOnlyNamed
PROPERTIES FreshIsGlobal
CHECK_DEADLOCK FALSE
