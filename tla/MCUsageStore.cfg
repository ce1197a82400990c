CONSTANTS
    Name = {n1, n2, n3}
    URL = {u1, u2}
    Login = {alice}
    Snapshot <- Reports
    MaxSegments = 2
    Model = {m1, m2}
    DayLength = 2
    Ends = {1, 3, 4}
    MaxTokens = 1
SPECIFICATION FocusedSpec
INVARIANTS
    SourcesDistinct
    TypeOK
    SaveIsIdempotent
PROPERTIES
    IdentityIsKept
    StoredDaysAreKept
