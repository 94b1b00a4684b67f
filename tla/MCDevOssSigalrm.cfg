SPECIFICATION Spec
CONSTANTS
  BufLen = 3
  KernCap = 2
  Labels = 4
  Levels = 2
  SplitUpdate = FALSE
  IoErrors = TRUE
INVARIANTS
  TypeOK
  RingInv
  Unreachable
  NoKernelBug
PROPERTIES
  PlaysInOrder
