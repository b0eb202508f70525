SPECIFICATION Spec
CONSTANTS
  r = r
  w = w
  c = c
  n = n
  Ops = {w}
  KindOf <- MCKindOf
  MaxPending = 1
INVARIANT EffectHonest
CHECK_DEADLOCK FALSE
