CONSTANTS
  Organs = {"vault", "chaff"}
  Buffer = 1
  MaxTrail = 2
  MaxEvents = 3
  MaxFaults = 1
  MayFill = {"vault"}
  UnlocksUntil = 1
  Reports = {"detected", "cleared", "lock_vaults", "trigger_purge"}

SPECIFICATION FairSpec

INVARIANTS
  TypeOK
  LastWordWins
  TrailIsTrue

PROPERTIES
  LoopsComeBack

CHECK_DEADLOCK FALSE
