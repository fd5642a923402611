\* Login sessions and their second factor: five sets of requests on a session
\* and three on a login.  A behaviour ends when its requests have ended.
SPECIFICATION MCSpec
CONSTANTS
    x1 = x1
    x2 = x2
    x3 = x3
    y1 = y1
    y2 = y2
    y3 = y3
    y4 = y4
    f1 = f1
    f2 = f2
    NoProc = NoProc
    Procs = {x1, x2, x3}
    Settings <- SessionSettings
    Logins = {y1, y2, y3, y4}
    Flows = {f1, f2}
    FlowOf <- Twos
    LoginSettings <- VerifySettings
    Lockout = 1
    SessionLimit = 2
    Retries = 2
    LoginHorizon = 2
INVARIANTS
    StaleAtMostTTL
    RevocationHolds
    RefreshRaceIsSafe
    SecondFactorHolds
CHECK_DEADLOCK FALSE
