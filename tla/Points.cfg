SPECIFICATION Spec
CONSTANTS
  c1 = c1
  c2 = c2
  s1 = s1
  s2 = s2
  h1 = h1
  h2 = h2
  None = None
  Calls = {c1, c2}
  Servers = {s1, s2}
  Hanas = {h1, h2}
  Home = s1
  Concurrency = 2
  Exclusive = TRUE
SYMMETRY Symmetry
INVARIANTS TypeOK OneServer
