SPECIFICATION Spec
CONSTANTS
  Modules = {vault}
  Supervised = {vault}
  External = {}
  Slots = {c1, c2}
  NoSlot = NoSlot
  Free = Free
  DeadThreshold = 2
  MaxRestarts = 2
  Window = 2
PROPERTIES
  ReattachKeepsRoute
CHECK_DEADLOCK FALSE
