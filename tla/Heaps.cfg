\* Three tasks, two of them of the same priority, in both queues.
SPECIFICATION HeapsSpec
CONSTANTS
  t1 = t1
  t2 = t2
  t3 = t3
  Task = {t1, t2, t3}
  CronTask = {}
  NoTask = NoTask
  Priority <- RankedPriority
  MaxRetries = 0
  RetryDelay = 1
  TTL = 0
  CronGap = {1}
  MaxTime = 2
  MaxVersion = 1
INVARIANTS
  PresentAgrees
PROPERTIES
  ImplementsQueues
  PopsInOrder
