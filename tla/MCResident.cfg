CONSTANTS
  s1 = s1
  s2 = s2
  Server = {s1, s2}
  None = None
  MaxAttempt = 2
  MaxBout = 1
  MaxBoot = 2
SPECIFICATION Spec
SYMMETRY Symmetry
INVARIANTS SettledIsQuiet OpenIsOwned
PROPERTY CurrentPoolStands
CHECK_DEADLOCK FALSE
