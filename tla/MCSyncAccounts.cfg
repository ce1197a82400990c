CONSTANTS
    Background = background
    Resolve = resolve
    All = all
    Caller = {background, h1}
    Login = {alice, bob}
    Origin = {o1}
SPECIFICATION Spec
CONSTRAINT Serving
INVARIANT SyncedIsStored
