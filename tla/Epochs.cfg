\* A snapshot is restored while a cron task runs, is updated and cancelled.
SPECIFICATION SnapshotSpec
CONSTANTS
  t1 = t1
  t2 = t2
  Task = {t1}
  CronTask = {t1}
  NoTask = NoTask
  w1 = w1
  w2 = w2
  Worker = {w1}
  NoWorker = NoWorker
  HomeWorker = w1
  HeartbeatWindow = 0
  Executor = {e1}
  Client = {c1}
  Ops = {"update-cron", "cancel"}
  Priority <- FlatPriority
  MaxRetries = 1
  RetryDelay = 0
  TTL = 0
  CronGap <- EveryUnit
  MaxTime = 1
  MaxVersion = 2
  Slot = {s1}
  MaxCalls <- NoRestart
PROPERTIES
  OnlyOldHoldersRevive
