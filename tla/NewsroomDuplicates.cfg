SPECIFICATION Spec
CONSTANTS
  p1 = p1 p2 = p2 m1 = m1 t1 = t1 t2 = t2
  r1 = r1 r2 = r2 d1 = d1 d2 = d2
  NoText = "none"
  None = None
  Alike <- Identical
  Near <- Identical
  Posts = {p1, p2}
  Text <- OneText
  Composed = {}
  Drafts = {d1}
  Ends = {}
  Runs = {r1}
  Desks = {}
  Operator = {}
  MaxRequests = 0
INVARIANT OriginalStands
