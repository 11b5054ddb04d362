SPECIFICATION MCSpec
CONSTANTS
    User = {u1, u2}
    Ticket = {u1, u2}
    Token = {t1, t2, t3}
    Batch = {t1, t2, t3}
    Secret = {s1, s2}
    BatchSize = 1
    Handler = {h1, h2}
    NoToken = NoToken
    Nobody = Nobody
    None = None
    MaxFailures = 1
SYMMETRY Interchangeable
CHECK_DEADLOCK FALSE
INVARIANT TypeOK
INVARIANT OneRowPerLogin
INVARIANT RevokedStaysRevoked
INVARIANT SessionsLostOnlyToFailures
INVARIANT FactorTypeOK
INVARIANT OpensBoundedByOverlap
INVARIANT FactorHasItsCodes
PROPERTY ImplementsSessionLife
