CONSTANTS
  Executions = {1, 2}
  Profiles = {1}
  ProfileOf <- OneProfile
  Prepared = {2}
  MaxAttempts = 2
  MaxCrashes = 1
  Faults = {"kill", "threads", "overlap"}
SPECIFICATION Spec
INVARIANTS TypeOK NeverRepeatedAutomatically ClickIsOnRecord OutcomeIsTrue
CONSTRAINT Followed
CHECK_DEADLOCK FALSE
