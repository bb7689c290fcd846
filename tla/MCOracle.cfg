SPECIFICATION FairSpec
CONSTANTS
  Top = 10
  Hysteresis = 1
  DefaultThreshold = 7
  nan = nan
  NaN = nan
  Reported <- MCReported
  Asked <- MCAsked
  MaxRows = 2
  MaxStarts = 2
INVARIANTS
  TypeOK
  StoreIsTrue
PROPERTIES
  SteadySignals
  
CHECK_DEADLOCK FALSE
