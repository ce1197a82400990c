CONSTANTS
    None = none
    Failed = failed
    Waiting = waiting
    Open = open
    Ok = ok
    Caller = {c1}
    Browser = c1
    Call <- Asked
    Discovery <- Discoveries
    Owners <- Logins
    Usage <- Recorded
    Persistence = {TRUE}
    Limit = 1
    Now <- Date
    MonthStarts = {0, 5, 36}
    MaxFilledLifetimeDays = 9
    Gap = 34
    Skew <- Earlier
SPECIFICATION Spec
INVARIANTS
    DaysAreComplete
