SPECIFICATION Spec
CONSTANTS
  Branch = Branch
  Cluster = Cluster
  Instance = Instance
  Lanes = {Branch, Cluster}
  MaxBout = 2
  MaxFaults = 2
PROPERTIES
  NoStrayDelete
CHECK_DEADLOCK FALSE
