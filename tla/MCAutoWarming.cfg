\* Two accounts that share one slot.
CONSTANTS
  Accounts = {a1, a2}
  Slots = 1
  MaxOps = 2
  MaxFaults = 1
SPECIFICATION WarmingSpec
PROPERTIES RestartsGently HeldPostStarts
CHECK_DEADLOCK FALSE  \* with no post left nothing has to happen
