SPECIFICATION FairSpec
CONSTANTS
  Files = {"module", "track", "gone", "device", "text"}
  NoFile = "none"
  Unreadable = {"gone"}
  Virtual = {"track", "device"}
  NoInterface = {"text"}
  NoInit = {"device"}
  MaxList = 3
INVARIANTS TypeOK NothingLeaks RunsItsFile
PROPERTIES ComesBack EveryFilePlayed
