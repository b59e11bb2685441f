SPECIFICATION Spec
CONSTANTS
  p1 = p1
  u1 = u1 u2 = u2 c1 = c1 c2 = c2 t1 = t1 t2 = t2
  None = None
  Posts = {p1}
  Channel = {1}
  Manual = {2, 3}
  Album <- OneAlbum
  Limit = 2
  MaxDay = 2
  Uploads = {u1, u2}
  Pages = {c1, c2}
  Publications = {"bot"}
  Threads = {t1, t2}
  MaxRequests = 2
SYMMETRY Symmetry
INVARIANTS
  TypeOK
  AlbumAddsUp
  OrdersDistinct
  ManualIsKept
  SendsWhole
  OrphansAccountedFor
  FlightIsOwned
PROPERTY KeptForPublication
