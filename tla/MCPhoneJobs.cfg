CONSTANTS
  a1 = a1
  a2 = a2
  Accounts = {a1, a2}
  Owner = owner
  Posters = {a1}
  Cooldown = FALSE
  Looks = 2
  MaxPosts = 3
  MaxFaults = 1
  MaxAsks = 1
  MaxStarts = 2
  MaxLost = 1
SPECIFICATION Spec
CONSTRAINT Followed
INVARIANTS SharesOwnPost NothingTwiceUnasked FailedWasNotShared
PROPERTIES PhoneIsFreed
