\* One task, one executor, a worker on the roster and one that is not.
SPECIFICATION Spec
CONSTANTS
  t1 = t1
  t2 = t2
  Task = {t1}
  CronTask = {}
  NoTask = NoTask
  w1 = w1
  w2 = w2
  Worker = {w1, w2}
  NoWorker = NoWorker
  HomeWorker = w1
  HeartbeatWindow = 0
  Executor = {e1}
  Client = {c1}
  Ops = {"trigger", "cancel", "heartbeat"}
  Priority <- FlatPriority
  MaxRetries = 1
  RetryDelay = 1
  TTL = 1
  CronGap <- EveryUnit
  MaxTime = 2
  MaxVersion = 4
INVARIANTS
  TypeOK
  ReadyIsCovered
  LeasedIsCovered
  LeaseTableIsSound
  ActiveLeaseIsCurrent
  OutcomeIsRecorded
PROPERTIES
  RetryBudgetShrinks
  TerminalIsFinal
