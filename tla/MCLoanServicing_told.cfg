SPECIFICATION ServicingSpec
CONSTANTS
    NULL = NULL
    Approved <- MCApproved
    Tranches <- MCTranches
    Totals = {0, 2}
    Overrides <- MCQuarterly
    Requests = {r1, r2}
INVARIANT ToldTenureIsScheduled
CHECK_DEADLOCK FALSE
