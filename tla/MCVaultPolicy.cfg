SPECIFICATION Spec
CONSTANTS
  Tokens = {"allow_when", ":", "relock_after", "min", "hour", "weekday", "oracle_score", "mon", "==", "<", "in", "between", "1", "2", "[", "]", ",", "not", "and", "or", "(", ")", "?"}
  MaxTokens = 8
  MaxPhrases = 14
  Number <- MCNumber
  Rules <- MCRules
  Depth <- MCDepth
  NoRule = NoRule
  Moments <- MCMoments
  SecondsPerHour = 2
  HoursPerDay = 3
  DaysPerWeek = 2
  MonthLengths = {3, 4}
  Horizon = 6
  DayName <- MCDayName
INVARIANTS
  ReadsTheGrammar
  ErrorNeverOpens
  DeferIsTheFirstHour
CHECK_DEADLOCK FALSE
