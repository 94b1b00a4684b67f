SPECIFICATION FairSpec
CONSTANTS
  Levels = 3
  Mask = 3
  PollRate = 4
  QuietRates = {1, 4}
INVARIANTS TypeOK RoutineAlone GuardLeft Disposition SlaveSoon
PROPERTIES Served
