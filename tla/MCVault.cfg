SPECIFICATION FairSpec
CONSTANTS
  v1 = v1
  v2 = v2
  day = day
  always = always
  Vaults = {v1, v2}
  NoVault = NoVault
  Policies = {day, always}
  NoPolicy = NoPolicy
  Contexts = {"noon", "night"}
  Verdict <- MCVerdict
  RelockAfter = 2
  RegistryFits <- MCRegistryFits
  IndexMax = 1
  DetachFails = TRUE
  MaxSecrets = 2
  MaxDisks = 2
INVARIANTS
  TypeOK
  OneOpen
  OpenUnderGrant
  NeverOrphaned
PROPERTIES
  EvictedNeverOpens
  OpeningEnds
