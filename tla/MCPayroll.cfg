CONSTANTS
  e1 = e1  e2 = e2  t1 = t1  t2 = t2  l1 = l1  l2 = l2  NotYet = NotYet
  Payable = {e1, e2}
  Task = {t1, t2}
  Locker = {l1, l2}
  Settings <- MCSettings
  MaxRetries = 1
  MayDie = TRUE
SPECIFICATION FairSpec
INVARIANT JournalMatchesRuns
INVARIANT GeneratedTogether
PROPERTY ImplementsContract
PROPERTY FrozenOnceQuiet
PROPERTY EveryTaskEnds
CHECK_DEADLOCK FALSE
