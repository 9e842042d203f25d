SPECIFICATION Spec
CONSTANTS
  c1 = c1
  c2 = c2
  s1 = s1
  s2 = s2
  p1 = p1
  p2 = p2
  None = None
  Calls = {c1, c2}
  Servers = {s1, s2}
  Principals = {p1, p2}
  Home = s1
  Exclusive = TRUE
  Scenarios <- Settling
SYMMETRY PairSymmetry
INVARIANTS TypeOK OneRecoveryIsSeen ReadFromServerInEffect
PROPERTIES SentWithConsent
