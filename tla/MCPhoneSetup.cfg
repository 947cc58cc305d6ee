\* Two PCs, one phone with two accounts, two proxies.
CONSTANTS
  Users = {u1, u2}
  PCs = {p1, p2}
  Proxies = {x1, x2}
  Pin = pin
  None = None
  MaxOps = 2
  MaxTaken = 1
  MaxMoves = 2
  MaxFaults = 1
SYMMETRY Interchangeable
SPECIFICATION Spec
INVARIANTS JobExitIsItsOwn
PROPERTIES FacebookComesLast OldPrimaryOverwritesNothing
CHECK_DEADLOCK FALSE  \* nothing has to happen: every action is a request, a failure or bounded by a Max
