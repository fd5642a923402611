\* A client learns of the failure first.
SPECIFICATION MCSpecRealtime
CONSTANTS
  Tasks = {t1}
  NoTask = NoTask
  Pollers = {p}
  LonePoller = p
  Clients = {k}
  MaxQuota = 2
  MaxFails = 2
  ChannelsVanish = FALSE
  FullEarly = FALSE
  FaultBudget = 0
  CrashBudget = 0
  h1 = h1
  h2 = h2
  l1 = l1
  l2 = l2
  MjHandlers = {h1, h2}
  MjLoops = {l1, l2}
  MjPrice = 1
  MjItems <- MCItems
  MjSetups <- MCSetups
  Runners = {a, b, c}
  NoRunner = none
  Stable = {a}
  MaxTasks = 2
  Failures = 1
  Pauses = FALSE
  Pausing = {a, b}
INVARIANT
  FailedIsRefunded
CHECK_DEADLOCK FALSE
