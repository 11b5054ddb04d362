SPECIFICATION Spec
CONSTANTS
    Nobody = Nobody
    admin = admin
    student = student
    other = other
    h1 = h1
    h2 = h2
    User <- MCUser
    Request <- MCRequest
    Hook <- MCHook
    DeniedWeight = 40
    ScopeFloor = 1
    ScopeSpan = 1
    ScopeCap = 50
    Single = 75
    Correlated = 50
    MassLimit = 3
    MaxRequests = 3
    MaxFailures = 1
    MaxExpiries = 1
CHECK_DEADLOCK FALSE
INVARIANT OneAlertPerCooldown
