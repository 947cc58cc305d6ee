CONSTANTS
  Profiles = {p1}
  Executions = {e1, e2}
  Tokens = {t1, t2}
  NoOwner = NoOwner
  Overlaps = {}
  MaxRestarts = 1
SPECIFICATION FairSpec
INVARIANTS TypeOK StopsHitTheirOwner RunningIsOwned DriverIsOwner MaintenanceIsQuiet
PROPERTIES ImplementsOwnership EveryOwnerLetsGo
CHECK_DEADLOCK FALSE
