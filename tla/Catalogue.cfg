SPECIFICATION Spec
CONSTANTS
  a = a b = b h1 = h1 h2 = h2 s1 = s1 s2 = s2 r1 = r1 r2 = r2 t1 = t1
  None = None
  Channels = {a, b}
  Named = {a, b}
  Invites = {h1, h2}
  ChannelOf <- ToB
  Sources = {s1, s2}
  Targets = {t1}
  Prompts = {1, 2}
  Requests = {r1, r2}
  Readers = {"poll"}
  Saves = {"event"}
  Threads = {"d"}
  MaxRequests = 5
SYMMETRY Symmetry
INVARIANTS
  TypeOK
  CursorIsOwn
  TwinsAccountedFor
  PromptsResolve
