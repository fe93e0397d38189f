CONSTANTS
  Last = 3
  Own = own
  Recovery = {r1}
  MaxToken = 6
  MaxFaults = 3
SPECIFICATION JournalFairSpec
INVARIANTS ExistingIsOwed
PROPERTY CleanedInTheEnd
CHECK_DEADLOCK FALSE
