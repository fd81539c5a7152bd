SPECIFICATION Spec
CONSTANTS
  Tab = {t1, t2}
  Slot = {s1, s2}
  Call = {c1, c2}
  MaxQty = 2
  MaxClicks = 4
  Serial = TRUE
SYMMETRY Symmetry
CHECK_DEADLOCK FALSE
INVARIANTS CartTypeOK  CalmCartIsTrue CartInv
