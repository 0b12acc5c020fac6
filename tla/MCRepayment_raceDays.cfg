SPECIFICATION MCSpec
CONSTANTS
    Requests = {r1, r2}
    Installments = 2
    MaxSchedules = 2
    MaxDay = 3
    RaceDays = 1
SYMMETRY RequestSymmetry
INVARIANTS TypeOK NoMissedClearance NoPenalBeforeDue
PROPERTY ClearedIsFinal
