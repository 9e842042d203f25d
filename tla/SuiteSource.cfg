SPECIFICATION FairSpec
CONSTANTS
  c1 = c1
  c2 = c2
  a = a
  b = b
  l1 = l1
  l2 = l2
  l3 = l3
  k1 = k1
  Conns = {k1}
  None = None
  Customs = {a, b}
  Configured = a
  Fixed = {a}
  Listeners = {l1, l2, l3}
  MaxStuck = 1
  Calls = {c1, c2}
INVARIANTS TypeOK ListenersAreOwned
PROPERTIES ShownIsTrue EveryCallReturns
