SPECIFICATION Spec
CONSTANTS
    ini = ini
    sup = sup
    chk = chk
    cm = cm
    apr = apr
    NULL = NULL
    Staff = {ini, sup, chk, apr}
    Requests = {r1}
    ToStages = {"INITIATED"}
    RoleOf <- MCRoleOf
    Approvals <- MCApprovals
PROPERTY ApproveFromCheckingSucceeds
