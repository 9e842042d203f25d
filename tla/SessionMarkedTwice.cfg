CONSTANTS
  c1 = c1
  c2 = c2
  c3 = c3
  None = None
  Calls = {c1, c2}
  A = A
  B = B
  W = W
  L = L
  Servers = {A, B}
  Websites = {W, L}
  ConfigServer = A
  ConfigWebsite = W
  Local = {B, L}
  Ops = {"points", "mark", "crash"}
  Exclusive = TRUE
SPECIFICATION FairSpec
PROPERTIES PointsMarkedOnce
