\* The caches of users and of tokens, each with four sets of requests.  A
\* behaviour ends when its requests have ended.
SPECIFICATION MCSpec
CONSTANTS
    x1 = x1
    x2 = x2
    x3 = x3
    x4 = x4
    NoProc = NoProc
    Procs = {x1, x2, x3, x4}
    Settings <- AuthSettings
    TokenSettings <- UseSettings
    Cost = 1
    TokenFenceTTL = 3
    MaxDelay = 1
INVARIANTS
    ReportedIsSeen
    AuthHashIsSound
    TokenHashIsSound
CHECK_DEADLOCK FALSE
