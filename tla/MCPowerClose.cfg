SPECIFICATION Spec
CONSTANTS
  Replica = {r1}
  Slot = {s1}
  None = None
  MaxGeneration = 2
  MaxExits = 1
  MaxFaults = 0
CHECK_DEADLOCK FALSE
INVARIANT CloseStopsWhatItStarted
