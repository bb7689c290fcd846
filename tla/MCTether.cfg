SPECIFICATION FairSpec
CONSTANTS
  AbsentTicks = 3
  RecoverTicks = 2
  Grace = 2
  L1ToL2 = 2
  L2ToL3 = 2
  SuspiciousDelay = 1
  Graces = {4}
  MaxGap = 3
INVARIANTS
  TypeOK
PROPERTIES
  PresenceIsEarned
  ImplementsDeadMan
  AbsenceEscalates
