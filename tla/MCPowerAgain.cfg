SPECIFICATION PromptSpec
CONSTANTS
  Replica = {r1}
  Slot = {s1, s2}
  None = None
  MaxGeneration = 2
  MaxExits = 1
  MaxFaults = 1
SYMMETRY Symmetry
CHECK_DEADLOCK FALSE
PROPERTY NoRaceIsStopped
