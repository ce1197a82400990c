CONSTANTS
    Login = {alice, bob}
    All = all
    Period = {today, lifetime}
    MaxRefresh = 3
    MaxPage = 3
    MaxCalls = 3
    None = none
SPECIFICATION FairSpec
INVARIANTS
    TypeOK
    ContentIsSelection
    EventsBelongToContent
    AnswersAreWanted
    BusyIsPending
    UrlIsSelection
PROPERTY PageSettles
