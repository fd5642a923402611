\* Requests on the wallet, the subscription or both; storage failures and retries.
SPECIFICATION Spec
CONSTANTS
    Requests = {r1, r2}
    Profiles <- AllProfiles
    Quotas = {0, 1, 2}
    WalletInit = 3
    TokenInit = 3
    TokenUnlimited = FALSE
    SubTotal = 2
    HasSub = TRUE
    AllowOverflow = TRUE
    TrustQuota = 2
    RetryTimes = 1
    FaultBudget = 1
INVARIANTS
    
    NeverOverRefunded
    
    SubscriptionWithinPlan

    
