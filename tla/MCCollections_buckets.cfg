SPECIFICATION CollectionsSpec
CONSTANTS
    Due <- MCDue
    LastTime = 745
    MaxMissed = 1
    MaxPayments = 1
INVARIANT ListedByDaysOverdue
CHECK_DEADLOCK FALSE
