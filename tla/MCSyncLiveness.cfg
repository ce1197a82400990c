CONSTANTS
    Background = background
    Resolve = resolve
    All = all
    Caller = {background, h1}
    Login = {alice}
    Origin = {o1}
SPECIFICATION FairSpec
PROPERTIES
    EveryCallReturns
    ShutdownCompletes
