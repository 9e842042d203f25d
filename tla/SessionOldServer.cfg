CONSTANTS
  c1 = c1
  c2 = c2
  c3 = c3
  Calls = {c1, c2}
  A = A
  B = B
  W = W
  L = L
  Servers = {A, B}
  Websites = {W, L}
  None = None
  ConfigServer = A
  ConfigWebsite = W
  Local = {B, L}
  Ops = {"consent", "server", "register"}
  Exclusive = FALSE
SPECIFICATION Spec
SYMMETRY CallSymmetry
INVARIANTS
  IssuerInEffect
