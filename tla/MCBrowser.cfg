SPECIFICATION Spec
CONSTANTS
    User = {u1}
    Token = {t1, t2, t3}
    Handler = {h1, h2}
    NoToken = NoToken
    Nobody = Nobody
    MaxFailures = 1
    Tab = {b1, b2}
    NoTab = NoTab
VIEW WithoutSwept
SYMMETRY Interchangeable
CHECK_DEADLOCK FALSE
INVARIANT TypeOK
INVARIANT RacingTabsKeepTheLogin
INVARIANT LogoutIsFinal
