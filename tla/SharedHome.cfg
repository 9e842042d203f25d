CONSTANTS
  c1 = c1
  c2 = c2
  r1 = r1
  r2 = r2
  r3 = r3
  k1 = k1
  k2 = k2
  k3 = k3
  k4 = k4
  Clients = {c1, c2}
  Resolvers = {r1, r2, r3}
  ClientOf <- MCClientOf
  Keys = {k1, k2, k3, k4}
  NoKey = NoKey
  Torn = Torn
  MaxRemovals = 1
  a1 = a1
  a2 = a2
  None = None
  Procs = {a1, a2}
  Ids = {k1, k2, k3, k4}
SPECIFICATION HomeSpec
SYMMETRY HomeSymmetry
INVARIANTS TypeOK OneDevice AgentTypeOK OneGeneration
PROPERTIES WriteOnce NoKeyLost ClosedForGood
