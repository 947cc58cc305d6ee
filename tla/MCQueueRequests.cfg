\* Three requests, one key.
CONSTANTS
  Keys = {k1}
  MaxCalls = 3
  MaxLapses = 1
  MaxCrashes = 1
  None = None
SPECIFICATION Spec
INVARIANTS WorkOncePerKey LockProtects
PROPERTIES LockIsRecovered
CHECK_DEADLOCK FALSE  \* with every request answered nothing has to happen
