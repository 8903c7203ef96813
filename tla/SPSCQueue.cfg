SPECIFICATION QueueSpec
CONSTANTS
  QueueItems = {a, b, c}
  NoItem = NoItem
  Cap = 4
  Laps = 2
INVARIANT NoSharedSlot
PROPERTY ImplementsFifo
