\* Overlapping and single passes over one task, with deleted channels, errors and
\* a crash; the passes over a Midjourney task; and the runner's loops on three nodes
\* of which two may crash, with a failing statement, or on two that may be paused.
SPECIFICATION MCSpec
CONSTANTS
  Tasks = {t1}
  NoTask = NoTask
  Pollers = {p, q}
  LonePoller = p
  Clients = {}
  MaxQuota = 2
  MaxFails = 2
  ChannelsVanish = TRUE
  FullEarly = FALSE
  FaultBudget = 2
  CrashBudget = 1
  h1 = h1
  h2 = h2
  l1 = l1
  l2 = l2
  MjHandlers = {h1, h2}
  MjLoops = {l1, l2}
  MjPrice = 1
  MjItems <- MCItems
  MjSetups <- MCSetups
  Runners = {a, b, c}
  NoRunner = none
  Stable = {a}
  MaxTasks = 2
  Failures = 1
  Pauses = FALSE
  Pausing = {a, b}
INVARIANTS
  ChargeIsOnRecord
  NeverOverRefunded
  FailedByPassIsRefunded
  
  
  LostLeaseNeverSucceeds
PROPERTIES
  EndIsFinal
  TasksEnd
  SystemTasksEnd
CHECK_DEADLOCK FALSE
