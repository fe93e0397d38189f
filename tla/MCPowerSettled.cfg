SPECIFICATION Spec
CONSTANTS
  Replica = {r1}
  Slot = {s1, s2}
  None = None
  MaxGeneration = 1
  MaxExits = 0
  MaxFaults = 0
CHECK_DEADLOCK FALSE
INVARIANT PreviousBoutIsSettled
