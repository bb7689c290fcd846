SPECIFICATION FairSpec
CONSTANTS
  Callers = {p, q}
  Modules = {vault, echo}
  Links = {k, l}
  Room = 1
  MaxCalls = 2
  NoLink = NoLink
  NotPending = NotPending
INVARIANTS
  TypeOK
  PendingIsWaited
PROPERTIES
  ImplementsRpc
  CallsEnd
CHECK_DEADLOCK FALSE
