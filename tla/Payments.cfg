\* Two orders at a time of five providers on up to two nodes; two codes and two
\* days of check-ins by two requests of a user.
SPECIFICATION MCSpec
CONSTANTS
    Orders = {"epay", "stripe", "creem", "waffo", "pancake"}
    Provider <- ProviderOf
    Nodes = {n1, n2}
    Amounts = {1, 2}
    QuotaPerUnit = 2
    Settings <- TopUpSettings
    n1 = n1
    n2 = n2
    Requests = {r1, r2}
    Codes = {c1, c2}
    Quotas = {2}
    Award = 1
    GivenCeiling = 4
    LastDay = 1
    Databases <- GivenDatabases
CHECK_DEADLOCK FALSE
INVARIANTS
    CreditsAreExact
    GivenOnce
PROPERTIES
    SuccessIsFinal
    PaidIsCredited
