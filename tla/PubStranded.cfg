SPECIFICATION FairSpec
CONSTANTS
  g1 = g1
  g2 = g2
  r1 = r1
  Posts = {g1}
  Raws = {r1}
  RawOf <- MCRawOf
  Targets = {t1, t2}
  Windowed = {t1}
  Clicks = {c1}
  Sched = sched
  NoProc = NoProc
  NoPair = NoPair
  MaxRetry = 3
  Fresh = {}
  Bodyless = {}
  Operator = {}
  Layouts = {"text"}
  Restores = FALSE
  Lossy = FALSE
  MaxAttempts = 1
  MaxRestarts = 0
PROPERTIES
  PendingIsServed
CHECK_DEADLOCK FALSE
