\* Two exports, an import and a restart, beside each other and in any order.
SPECIFICATION SnapshotSpec
CONSTANTS
  t1 = t1
  t2 = t2
  Task = {t1}
  CronTask = {}
  NoTask = NoTask
  w1 = w1
  w2 = w2
  Worker = {w1}
  NoWorker = NoWorker
  HomeWorker = w1
  HeartbeatWindow = 0
  Executor = {e1}
  Client = {c1}
  Ops = {}
  Priority <- FlatPriority
  MaxRetries = 1
  RetryDelay = 0
  TTL = 0
  CronGap <- EveryUnit
  MaxTime = 0
  MaxVersion = 2
  Slot = {s1, s2}
  MaxCalls <- TwoExports
SYMMETRY AlikeSlots
INVARIANTS
  SnapshotIsBacked
  RestoreIsBacked
