\* Usage of subscriptions by up to two requests, and three subscriptions that are
\* bought, ordered, bound and ended.
SPECIFICATION MCSpec
CONSTANTS
    Requests = {r1, r2}
    Subs = {1, 2}
    Amounts = {1}
    MaxAttempts = 3
    Settings <- UsageSettings
    r1 = r1
    r2 = r2
    o1 = o1
    o2 = o2
    b1 = b1
    b2 = b2
    Orders = {o1, o2}
    Buyers = {b1, b2}
    Upgrade <- PlanGroups
    Price <- PlanPrices
    BaseGroup = "default"
    MaxSubs = 3
    OrderSettings <- BuyingSettings
INVARIANTS
    UsagePerPeriod
    
    PurchasesWithinPlan
    

    
CHECK_DEADLOCK FALSE
