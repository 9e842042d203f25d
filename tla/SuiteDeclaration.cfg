SPECIFICATION FairSpec
CONSTANTS
  p1 = p1
  p2 = p2
  v1 = v1
  v2 = v2
  i1 = i1
  i2 = i2
  None = None
  MaxGen = 2
  Pages = {p1, p2}
  Versions = {v1, v2}
  Invs = {i1, i2}
  Signals = {p1}
  Bundles = {1, 2, 3}
  Contents <- Releases
  Fits <- Manifests
  Takes <- Peers
  Running = 1
INVARIANTS TypeOK LeaseFollowsPage DeclarationIsTrue
PROPERTIES BothSidesLearn
