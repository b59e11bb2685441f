SPECIFICATION Spec
CONSTANTS
  Requests = {r1}
  Watchers = {w1}
  Tasks = {t1, t2, t3}
  Clients = {k1, k2, k3}
  Login = login
  Poll = poll
  None = None
  Strays = FALSE
SYMMETRY SessionSymmetry
INVARIANTS
  TypeOK
  LockIsOwned
  OneClient
  LockGoesBack
  ActiveListens
