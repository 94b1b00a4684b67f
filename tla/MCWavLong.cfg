SPECIFICATION Spec
CONSTANTS
  WaveLen = 4
  RingMax = 3
  ReadMax = 2
  BufLen = 3
  Sigalrm = FALSE
  IoErrors = TRUE
INVARIANTS
  RingHolds
PROPERTIES
  PlaysFile
