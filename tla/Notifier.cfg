CONSTANTS
  Listeners = {l1}
  Clients = {c1}
  None = None
  Connecting = {c1}
  MaxRecvs = 1
  MaxAccepts = 2
  SendCap = 1
  SendNoBufs = TRUE
  EmptyPopFaults = FALSE
SPECIFICATION FairSpec
CHECK_DEADLOCK FALSE
INVARIANTS WellFormed MarkIsBacked EventsAreForOpen SleepsOnlyWhenIdle
PROPERTIES WantedIsServed
