CONSTANTS
  Levels = {0, 10}
  Scores = {10}
  WeightSets <- MCWeightSets
  DriftMin = 3
  DriftWindow = 1
  Actions = {m}
  MaxTicks = 3
  Callers = {c1}
  Phrases = {p}
  NoPhrase = none
  Torn = torn

SPECIFICATION FairSpec

INVARIANTS
  TypeOK
  AbsentDoesNotCount
  LastModeWins

PROPERTIES
  DeniedForCause
  GateCatchesUp
