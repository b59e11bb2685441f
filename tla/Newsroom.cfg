SPECIFICATION Spec
CONSTANTS
  p1 = p1 p2 = p2 m1 = m1 t1 = t1 t2 = t2
  r1 = r1 r2 = r2 d1 = d1 d2 = d2
  NoText = "none"
  None = None
  Alike <- Close
  Near <- Close
  Posts = {p1, p2, m1}
  Text <- HandText
  Composed = {m1}
  Drafts = {d1, d2}
  Ends = {"published", "failed", "scheduled"}
  Runs = {r1, r2}
  Desks = {"desk"}
  Operator = {"generate", "regenerate", "many", "compose", "edit", "reject", "delete", "reject_generated"}
  MaxRequests = 1
SYMMETRY Symmetry
INVARIANTS
  TypeOK
  FirstOfItsText
  ManualIsNotAuto
  TwiceOnlyWhenShared
  OriginalIsThere
