CONSTANTS
  Listeners = {l1}
  Clients = {c1, c2}
  None = None
  AcceptCap = 2
  RecvCap = 2
  SendCap = 1
  EmptyPopFaults = FALSE
SPECIFICATION Spec
CHECK_DEADLOCK FALSE
SYMMETRY ClientSymmetry
INVARIANTS OpsBalance LastOpIsLast TclClientIsLive
PROPERTY ImplementsContract
