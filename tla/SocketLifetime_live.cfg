CONSTANTS
  Listeners = {l1}
  Clients = {c1}
  None = None
  AcceptCap = 1
  RecvCap = 1
  SendCap = 1
  EmptyPopFaults = FALSE
SPECIFICATION FairSpec
CHECK_DEADLOCK FALSE
PROPERTY ClosingClientIsFreed
