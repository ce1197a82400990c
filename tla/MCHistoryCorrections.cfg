CONSTANTS
    Model = {m1, m2}
    DayLength = 3
    LastInstant = 5
    MaxUse = 2
    MaxRebuilds = 2
    Tasks = 1
    Corrections = {TRUE, FALSE}
SPECIFICATION FairSpec
INVARIANTS
    NothingForgotten
    LoadedIsReported
PROPERTY CatchesUp
