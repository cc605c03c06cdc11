CONSTANTS
  Sessions = {s1, s2}
  Lease = 2
  Grace = 2
  MaxClock = 5
SPECIFICATION FairLease
INVARIANT PunctualHoldersExclude
PROPERTY SurvivorIsServed
CHECK_DEADLOCK FALSE
