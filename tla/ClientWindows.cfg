CONSTANTS
  w1 = w1
  w2 = w2
  m1 = m1
  m2 = m2
  m3 = m3
  Windows = {w1, w2}
  Mounts = {m1, m2, m3}
  WindowOf <- MCWindowOf
  Beside = {m3}
  MaxBeside = 1
  Calls = {i1, i2, i3}
  None = None
  MaxActs = 3
SPECIFICATION Spec
INVARIANTS TypeOK AskedOnce
PROPERTIES ShownGoesForward PageConverges PromptsMoveOn
CHECK_DEADLOCK FALSE
