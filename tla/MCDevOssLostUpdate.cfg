SPECIFICATION Spec
CONSTANTS
  BufLen = 3
  KernCap = 2
  Labels = 4
  Levels = 1
  SplitUpdate = TRUE
  IoErrors = FALSE
INVARIANTS
  Unreachable
