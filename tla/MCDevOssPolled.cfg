SPECIFICATION FairSpec
CONSTANTS
  BufLen = 3
  KernCap = 2
  Labels = 4
  Levels = 0
  SplitUpdate = TRUE
  IoErrors = FALSE
PROPERTIES
  ClockAccurate
  Heard
