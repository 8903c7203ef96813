SPECIFICATION CommandsSpec
CONSTANTS
  AcceptCap = 3
  Emulations = {TRUE, FALSE}
  Caps = {0, 1, 2}
  Recommended = 2
  DefaultCap = 2
  MaxSets = 2
  MaxAccepted = 1
  IrdaErrors = {6, 10014, 10024, 10036, 10038, 10047, 10050, 10055, 10061, 10093, 10106, 11001}
  DeviceLimit = 3
  MaxIrda = 3
  MaxLines = 3
  MaxAddrs = 2
INVARIANTS  NothingTwice PostsAreHeard CallerIsTold InheritsWhatWasThere
CHECK_DEADLOCK FALSE
