CONSTANTS
    Model = {m1, m2}
    DayLength = 3
    LastInstant = 5
    MaxUse = 2
    MaxRebuilds = 0
    Tasks = 1
    Corrections = {TRUE}
SPECIFICATION Spec
INVARIANT PastDatesAreCorrected
