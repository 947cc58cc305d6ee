CONSTANTS
  Attempts = {a1}
  MaxAccepted = 1
  Overlaps = {}
  MaxCrashes = 1
  None = None
SPECIFICATION FairSpec
INVARIANTS ConfirmedCancelStands ResultIsTrue
PROPERTIES PublicationIsReported
CHECK_DEADLOCK FALSE
