CONSTANTS
  n1 = n1 n2 = n2 n3 = n3 n4 = n4
  tcl = tcl ct = ct
  x = x y = y
  Nodes = {n1, n2, n3, n4}
  Lists = {l1, l2}
  Threads = {tcl, ct}
  Items = {x, y}
  None = None
  Embedded = {n1, n2, n3}
  Owning = {l2}
  Holds <- Items2
  Shared = {}
SYMMETRY Alike
SPECIFICATION Spec
CHECK_DEADLOCK FALSE
INVARIANTS WellFormed NothingDangles
PROPERTY ImplementsContract
