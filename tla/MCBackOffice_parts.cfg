SPECIFICATION Spec
CONSTANTS
    NULL = NULL
    Requests = {r1, r2}
    Users = {u1}
    Detail = {d1, d2}
    TYPED = TYPED
    Value = {v1, v2}
    Samples <- MCSamples
    staff = staff
    page = page
    key1 = key1
    Roles = {staff}
    MenuItems = {page, added}
    NewItems = {added}
    Keys = {key1}
    DefaultMenu <- MCDefaultMenu
    DefaultKeys <- MCDefaultKeys
    Editors = {e1, e2}
    Emails = {m1}
    Passwords = {p1, p2}
    MaxTokens = 3
    s1 = s1
    u1 = u1
    u2 = u2
    Addresses <- MCAddresses
    MaxCalls = 2
    Terms <- MCTerms
    TermsText = {x1, x2}
    Approved <- MCApproved
    Tranches <- MCTranches
    Totals = {0, 2}
    Overrides <- MCOverrides
    Due <- MCDue
    LastTime = 745
    MaxMissed = 1
    MaxPayments = 1
INVARIANTS BackOfficeTypeOK BlacklistConsistent ScoreIsOfStoredInputs
           OnlyYearsAreLost RoleTablesAgree DeliveredOrReported LinksAreSound
           ScheduleAddsUp AgeingSound ConsentSound
PROPERTIES FrozenUnderReview NewScheduleIsSound JobSeesWhatIsUnpaid
CHECK_DEADLOCK FALSE
