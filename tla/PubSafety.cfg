SPECIFICATION Spec
CONSTANTS
  g1 = g1
  g2 = g2
  r1 = r1
  Posts = {g1}
  Raws = {r1}
  RawOf <- MCRawOf
  Targets = {t1, t2}
  Windowed = {t1}
  Clicks = {c1, c2}
  Sched = sched
  NoProc = NoProc
  NoPair = NoPair
  MaxRetry = 2
  Fresh = {}
  Bodyless = {g1}
  Operator = {"save", "reject", "bulk_reject"}
  Layouts = {"split"}
  Restores = TRUE
  Lossy = TRUE
  MaxAttempts = 1
  MaxRestarts = 1
SYMMETRY ClickSymmetry
INVARIANTS
  TypeOK
  DuplicatesAccountedFor
  MediaAccountedFor
  StatusIsEarned
  LocksHaveOwners
  RunningIsAlive
  ScheduledHasJob
PROPERTIES
  JobsOnlyAdvance
CHECK_DEADLOCK FALSE
