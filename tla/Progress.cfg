\* Every goroutine keeps running; two tasks of different priority share the queues.
SPECIFICATION FairSpec
CONSTANTS
  t1 = t1
  t2 = t2
  Task = {t1, t2}
  CronTask = {}
  NoTask = NoTask
  w1 = w1
  w2 = w2
  Worker = {w1}
  NoWorker = NoWorker
  HomeWorker = w1
  HeartbeatWindow = 0
  Executor = {e1}
  Client = {c1}
  Ops = {"cancel"}
  Priority <- RankedPriority
  MaxRetries = 1
  RetryDelay = 1
  TTL = 0
  CronGap <- EveryUnit
  MaxTime = 1
  MaxVersion = 4
INVARIANTS
  ReadyIsCovered
PROPERTIES
  ImplementsFairLifecycle
