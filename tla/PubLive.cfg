SPECIFICATION FairSpec
CONSTANTS
  g1 = g1
  g2 = g2
  r1 = r1
  Posts = {g1, g2}
  Raws = {r1}
  RawOf <- MCRawOf
  Targets = {t1}
  Windowed = {t1}
  Clicks = {c1}
  Sched = sched
  NoProc = NoProc
  NoPair = NoPair
  MaxRetry = 2
  Fresh = {g2}
  Bodyless = {}
  Operator = {"reject_raw"}
  Layouts = {"captioned", "split"}
  Restores = FALSE
  Lossy = TRUE
  MaxAttempts = 1
  MaxRestarts = 0
INVARIANTS
  RetryLimit
PROPERTIES
  PendingIsServed
  FailedIsRetried
  RunningIsSettled
  ImplementsLedger
CHECK_DEADLOCK FALSE
