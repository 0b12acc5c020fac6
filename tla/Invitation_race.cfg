SPECIFICATION FairSpec
CONSTANTS
    NULL = NULL
    Emails = {e1, e2}
    Requests = {r1, r2}
    MaxLinks = 2
INVARIANTS TypeOK RecipientNotLockedOut
PROPERTIES RevokedIsSuperseded SettledIsFinal
CHECK_DEADLOCK FALSE
