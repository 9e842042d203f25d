SPECIFICATION FairSpec
CONSTANTS
  k1 = k1
  k2 = k2
  t1 = t1
  t2 = t2
  r1 = r1
  Components = {k1, k2}
  Policy <- MCPolicy
  Facts <- MCFacts
  Checks = {t1, t2}
  First = t1
  Requests = {r1}
  MaxChanges = 1
  MaxFaults = 2
INVARIANTS TypeOK PluginIsWhole
PROPERTIES HealthIsHonest EverythingSettles
