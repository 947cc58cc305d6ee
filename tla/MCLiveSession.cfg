CONSTANTS
  MaxSessions = 2
  MaxFaults = 1
SPECIFICATION Spec
INVARIANTS SendingIsExclusive EndIsNotAssumed FailedMeansNeverSent
PROPERTIES SessionEnds
CHECK_DEADLOCK FALSE
