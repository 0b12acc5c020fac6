SPECIFICATION Spec
CONSTANTS
    NULL = NULL
    Emails = {e1, e2}
    Requests = {r1}
    MaxLinks = 2
INVARIANT SupersededIsInvalid
CHECK_DEADLOCK FALSE
