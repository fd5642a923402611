\* The keys an operator deletes are all the keys there are.
SPECIFICATION MCSpec
CONSTANTS
  Requests = {r1, r2}
  Prober = prober
  Syncer = syncer
  Admin = admin
  Manager = manager
  NoOne = none
  Slots = {1, 2, 3, 4, 5, 6, 7, 8}
  NewKeys <- OtherKeys
  Configs <- DeletingAll
  r1 = r1
  r2 = r2
  a1 = a1
  a2 = a2
  a3 = a3
  b1 = b1
  b2 = b2
  Channels = {a1, a2, a3, b1, b2}
  TokenGroups <- TwoGroups
  Priority <- Priorities
  RetryTimes = 2
  MaxFlips = 1
INVARIANT
  DeletedKeysAreGone
CHECK_DEADLOCK FALSE
