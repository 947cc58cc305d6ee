CONSTANTS
  Executions = {1}
  Profiles = {1}
  ProfileOf <- OneProfile
  Prepared = {1}
  MaxAttempts = 2
  MaxCrashes = 1
  Faults = {"kill", "lost_lines", "overlap", "threads"}
SPECIFICATION FairSpec
INVARIANTS WorkerOwnsProfile
PROPERTIES RunEnds
CHECK_DEADLOCK FALSE
