SPECIFICATION FairSpec
CONSTANTS
  BufLen = 4
  CacheLen = 5
  Levels = 0
  IoErrors = TRUE
  MaxFrames = 12
INVARIANTS TypeOK WritesInOrder ClockCounts
PROPERTIES WritesAll Takes
