SPECIFICATION Spec
CONSTANTS
  Listeners = {l1, l2}
  NULL = NULL
  AcceptCap = 1
  Backlogs = {}
  MaxConns = 2
  MaxErrors = 1
  Interps = {i1, i2}
  Conns = {c1, c2}
  MaxNest = 2
  AssocDataStays = TRUE
SYMMETRY Alike
INVARIANTS NothingStaleIsUsed RunningIsHeld PartsAgree NobodyIsOrphaned
CHECK_DEADLOCK FALSE
