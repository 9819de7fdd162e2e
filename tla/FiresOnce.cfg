\* A cron task after its first run.
SPECIFICATION FairSpec
CONSTANTS
  t1 = t1
  t2 = t2
  Task = {t1}
  CronTask = {t1}
  NoTask = NoTask
  w1 = w1
  w2 = w2
  Worker = {w1}
  NoWorker = NoWorker
  HomeWorker = w1
  HeartbeatWindow = 0
  Executor = {e1}
  Client = {c1}
  Ops = {}
  Priority <- FlatPriority
  MaxRetries = 0
  RetryDelay = 1
  TTL = 1
  CronGap <- EveryUnit
  MaxTime = 2
  MaxVersion = 4
PROPERTIES
  CronFires
