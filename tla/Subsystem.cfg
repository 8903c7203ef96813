CONSTANTS
  Threads = {m, w}
  Main = m
  Sockets = {s1, s2}
  None = None
  Inits = 2
  Liberties = {"move"}
SPECIFICATION Spec
CHECK_DEADLOCK FALSE
INVARIANTS WellFormed NothingGoneIsUsed OneCompletionThread NothingIsLeftOver
PROPERTY ExitEnds
