SPECIFICATION Spec
CONSTANTS
  Buffers = {b1, b2, b3, b4}
  None = None
  Kinds = {"client", "connecting", "listener"}
  Modes = {"zero", "flow", "burst"}
  MaxData = 2
  MaxLost = 1
SYMMETRY Alike
INVARIANTS OneOwner NothingRemains
PROPERTY ImplementsContract
CHECK_DEADLOCK FALSE
