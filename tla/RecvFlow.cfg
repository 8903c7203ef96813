CONSTANTS
  MaxSent = 6
  BufSize = 2
  ChanSize = 3
  BurstCap = 2
  BurstUnread = 3
  Starts = {"zero", "flow", "burst"}
  Switches <- Onwards
  EmptyPopFaults = FALSE
SPECIFICATION Spec
CHECK_DEADLOCK FALSE
INVARIANTS WellFormed NothingLost EofIsLast DirectReadIsReady NeverDeaf
