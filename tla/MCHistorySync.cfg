CONSTANTS
    Model = {m1, m2}
    DayLength = 3
    LastInstant = 5
    MaxUse = 3
    MaxRebuilds = 1
    Tasks = 2
    Corrections = {FALSE}
SPECIFICATION Spec
SYMMETRY Symmetry
INVARIANTS
    LoadedIsReported
    NoDoubleCount
    NeverRefused
    ModelsAddUp
    PeriodsAgree
PROPERTY LoadedNeverShrinks
