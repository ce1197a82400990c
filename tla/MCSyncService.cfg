CONSTANTS
    Background = background
    Resolve = resolve
    All = all
    Caller = {background, h1}
    Login = {alice}
    Origin = {before, after}
SPECIFICATION Spec
SYMMETRY Symmetry
INVARIANTS
    TypeOK
    DrainInv
    NoTaskAfterClose
    CancellationIsPrivate
    OwnEndpoint
PROPERTY GateSpec
