\* Two executors contend for one task that fails twice, with leases that expire at once.
SPECIFICATION Spec
CONSTANTS
  t1 = t1
  t2 = t2
  Task = {t1}
  CronTask = {}
  NoTask = NoTask
  w1 = w1
  w2 = w2
  Worker = {w1}
  NoWorker = NoWorker
  HomeWorker = w1
  HeartbeatWindow = 0
  Executor = {e1, e2}
  Client = {c1}
  Ops = {"cancel", "register-worker"}
  Priority <- FlatPriority
  MaxRetries = 2
  RetryDelay = 1
  TTL = 0
  CronGap <- EveryUnit
  MaxTime = 2
  MaxVersion = 4
INVARIANTS
  ExclusiveOwnership
  VersionFence
  LeaseFence
  BackoffIsKept
PROPERTIES
  ImplementsLifecycle
