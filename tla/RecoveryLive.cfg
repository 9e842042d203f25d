SPECIFICATION FairSpec
CONSTANTS
  c1 = c1
  c2 = c2
  s1 = s1
  s2 = s2
  p1 = p1
  p2 = p2
  None = None
  Calls = {c1, c2}
  Servers = {s1}
  Principals = {p1}
  Home = s1
  Exclusive = TRUE
  Scenarios <- Undisturbed
PROPERTIES ComesBack
