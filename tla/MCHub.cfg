SPECIFICATION FairSpec
CONSTANTS
  Modules = {vault}
  Supervised = {vault}
  External = {}
  Slots = {c1, c2}
  NoSlot = NoSlot
  Free = Free
  DeadThreshold = 2
  MaxRestarts = 2
  Window = 2
INVARIANTS
  TypeOK
  RouteIsLive
  OneEventPerFailure
  RestartBudget
PROPERTIES
  TerminalIsFinal
  FailureIsHandled
CHECK_DEADLOCK FALSE
