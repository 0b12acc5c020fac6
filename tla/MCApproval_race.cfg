SPECIFICATION Spec
CONSTANTS
    ini = ini
    sup = sup
    chk = chk
    cm = cm
    apr = apr
    NULL = NULL
    Staff = {ini, sup, chk, cm, apr}
    Requests = {r1, r2}
    ToStages = {"INITIATED", "SUPPORTED"}
    RoleOf <- MCRoleOf
    Approvals <- MCApprovals
SYMMETRY RequestSymmetry
INVARIANTS TypeOK SignOffChain ShortcutOnlyWhileSentBack DecisionIsOnRecord
PROPERTY ImplementsLoanGrant
