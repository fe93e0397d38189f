SPECIFICATION FairSpec
CONSTANTS
  Replica = {r1}
  Slot = {s1}
  None = None
  MaxGeneration = 2
  MaxExits = 1
  MaxFaults = 1
CHECK_DEADLOCK FALSE
INVARIANT StartOnRecordIsOwed
PROPERTY SettledStaysSettled
PROPERTY DebtIsRepaid
