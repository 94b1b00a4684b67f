SPECIFICATION FairSpec
CONSTANTS
  WaveLen = 3
  RingMax = 4
  ReadMax = 2
  BufLen = 3
  Sigalrm = TRUE
  IoErrors = FALSE
INVARIANTS
  TypeOK
  LoopRight
PROPERTIES
  Ends
