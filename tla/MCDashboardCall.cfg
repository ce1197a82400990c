CONSTANTS
    None = none
    Failed = failed
    Waiting = waiting
    Open = open
    Ok = ok
    Caller = {c1, c2}
    Browser = c1
    Call <- Asked
    Discovery <- Discoveries
    Owners <- Logins
    Usage <- Recorded
    Persistence = {TRUE, FALSE}
    Limit = 1
    Now <- Date
    MonthStarts = {0, 5, 36}
    MaxFilledLifetimeDays = 9
    Gap = none
    Skew = 1
SPECIFICATION FairSpec
INVARIANTS
    SlotsInv
    NothingDropped
    ChoiceIsStable
    DaysAreComplete
PROPERTY EveryCallEnds
