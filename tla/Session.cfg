CONSTANTS
  c1 = c1
  c2 = c2
  c3 = c3
  None = None
  Calls = {c1, c2}
  A = A
  B = B
  W = W
  L = L
  Servers = {A, B}
  Websites = {W, L}
  ConfigServer = A
  ConfigWebsite = W
  Local = {B, L}
  Ops = {"consent", "server", "website", "register", "bind", "dispose", "crash", "fault"}
  Exclusive = TRUE
SPECIFICATION Spec
SYMMETRY CallSymmetry
INVARIANTS TypeOK ServerInEffect StaysQuiet NeverForgetsToRegister
PROPERTIES SentWithConsent LinkMatches SettingsAreDurable
