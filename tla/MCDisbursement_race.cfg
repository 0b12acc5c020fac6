SPECIFICATION Spec
CONSTANTS
    Requests = {r1, r2}
    Agreements = {a1, a2}
    Conditions = {c1, c2}
    Amounts <- MCAmounts
    MaxTotal = 2
    MaxTranches = 2
    NULL = NULL
SYMMETRY Symmetry
INVARIANTS TypeOK NothingBeforeSigning TotalAccounted
PROPERTY PaysOnlyWhenReady
