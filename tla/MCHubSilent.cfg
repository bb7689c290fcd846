SPECIFICATION FairSpec
CONSTANTS
  Modules = {vault}
  Supervised = {vault}
  External = {}
  Slots = {c1}
  NoSlot = NoSlot
  Free = Free
  DeadThreshold = 2
  MaxRestarts = 2
  Window = 2
PROPERTIES
  SilentIsFailed
CHECK_DEADLOCK FALSE
