\* Four tasks, two of which want the same name, and three instants.
SPECIFICATION IndexesSpec
CONSTANTS
  t1 = t1
  t2 = t2
  t3 = t3
  t4 = t4
  Task = {t1, t2, t3, t4}
  NoTask = NoTask
  NameOf <- SharedName
  MaxTime = 2
INVARIANTS
  ScanDueIsExact
  IndexIsBounded
  NamesAgree
