\* Requests cross: a cron task is registered, updated and cancelled while it is run.
SPECIFICATION Spec
CONSTANTS
  t1 = t1
  t2 = t2
  Task = {t1}
  CronTask = {t1}
  NoTask = NoTask
  w1 = w1
  w2 = w2
  Worker = {w1}
  NoWorker = NoWorker
  HomeWorker = w1
  HeartbeatWindow = 0
  Executor = {e1}
  Client = {c1, c2}
  Ops = {"cancel", "update-cron"}
  Priority <- FlatPriority
  MaxRetries = 1
  RetryDelay = 1
  TTL = 0
  CronGap <- EveryUnit
  MaxTime = 2
  MaxVersion = 4
SYMMETRY AlikeClients
INVARIANTS
  OutcomesBacked
  PendingIsTracked
PROPERTIES
  TerminalIsFinal
  OnlyCrossedUpdatesDiverge
