\* The three limiters; two requests of a user against the model limit; and up to
\* six requests on one wallet: with a batch; with changes written at once, an
\* expiry of the copy, failures and a crash; with a copy that stays; and without
\* Redis.
SPECIFICATION MCSpec
CONSTANTS
  Limiters = {"window", "queue", "bucket"}
  Max = 3
  Duration = 4
  Expiration = 4
  MaxOver = 2
  MaxTime = 11
  Requests = {r1, r2}
  ModelMax = 2
  ModelDuration = 2
  ModelMaxTime = 5
  Asks = {"reserve1", "reserve2", "reserve3", "credit1", "topup", "debit", "read"}
  Kind <- KindOf
  Amount <- AmountOf
  InitQuota = 2
  Settings <- StoreSettings
INVARIANTS
  LimitsHold
  RefusedOnlyAtLimit
  WalletCovered
  CopyAgrees

  
CHECK_DEADLOCK FALSE
