\* A batch with a cron task is refused while its tasks run, fail and are retried.
SPECIFICATION BulkFairSpec
CONSTANTS
  t1 = t1
  t2 = t2
  Task = {t1, t2}
  CronTask = {t1}
  NoTask = NoTask
  w1 = w1
  w2 = w2
  Worker = {w1}
  NoWorker = NoWorker
  HomeWorker = w1
  HeartbeatWindow = 0
  Executor = {e1}
  Client = {}
  Ops = {}
  Priority <- RankedPriority
  MaxRetries = 1
  RetryDelay = 1
  TTL = 0
  CronGap <- EveryUnit
  MaxTime = 2
  MaxVersion = 4
PROPERTIES
  NothingIsRevived
  DeletedIsForgotten
  EveryTaskSettles
