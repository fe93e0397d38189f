CONSTANTS
  s1 = s1
  Server = {s1}
  None = None
  MaxAttempt = 1
  MaxBout = 1
  MaxBoot = 2
SPECIFICATION Spec
INVARIANT CleanupCanSettle
CHECK_DEADLOCK FALSE
