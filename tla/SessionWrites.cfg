CONSTANTS
  c1 = c1
  c2 = c2
  c3 = c3
  None = None
  Calls = {c1, c2, c3}
  A = A
  B = B
  W = W
  L = L
  Servers = {A, B}
  Websites = {W, L}
  ConfigServer = None
  ConfigWebsite = W
  Local = {B, L}
  Ops = {"consent", "points", "mark", "dispose", "crash", "fault", "refusal"}
  Exclusive = FALSE
SPECIFICATION FairSpec
PROPERTIES WritesAreKept EveryCallReturns
