\* An image request whose estimate is raised before an upstream attempt.
SPECIFICATION Spec
CONSTANTS
    Requests = {r1}
    Profiles <- ImageProfiles
    Quotas = {1, 2}
    WalletInit = 3
    TokenInit = 3
    TokenUnlimited = FALSE
    SubTotal = 0
    HasSub = FALSE
    AllowOverflow = FALSE
    TrustQuota = 0
    RetryTimes = 1
    FaultBudget = 0
INVARIANTS
    RefundReturnsEverything
