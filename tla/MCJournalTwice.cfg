CONSTANTS
  Last = 3
  Own = own
  Recovery = {r1}
  MaxToken = 6
  MaxFaults = 1
SPECIFICATION JournalSpec
INVARIANT OrphanIsReclaimable
CHECK_DEADLOCK FALSE
