SPECIFICATION Spec
CONSTANTS
  Process = {p1, p2}
  Newer = {}
  Claim = {c1}
  None = None
  MaxGeneration = 1
  MaxFence = 4
SYMMETRY Symmetry
CHECK_DEADLOCK FALSE
INVARIANT NeverWedged
