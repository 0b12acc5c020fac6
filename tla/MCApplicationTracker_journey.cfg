SPECIFICATION JourneySpec
CONSTANTS
    ini = ini
    sup = sup
    chk = chk
    apr = apr
    NULL = NULL
    Staff = {ini, sup, chk, apr}
    Requests = {r1}
    ToStages = {"INITIATED", "SUPPORTED"}
    RoleOf <- MCRoleOf
    Approvals <- MCApprovals
    Amounts <- MCAmounts
    Totals = {0, 1}
INVARIANT ShownReviewerCanAct
PROPERTY ProgressIsKept
