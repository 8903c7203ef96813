SPECIFICATION Spec
CONSTANTS
  Listeners = {l1}
  NULL = NULL
  AcceptCap = 2
  Backlogs = {1, 2, 3}
  MaxConns = 3
  MaxErrors = 2
  Interps = {i1}
  Conns = {c1, c2, c3}
  MaxNest = 1
  AssocDataStays = TRUE
SYMMETRY Alike
INVARIANTS SlotsAccounted PoolIsFull
CHECK_DEADLOCK FALSE
