SPECIFICATION FairRolloutSpec
CONSTANTS
  Absent = Absent
  Malformed = Malformed
  Unborn = Unborn
  Gone = Gone
  Second = 1
  MaxDuration = 100
  Object <- OneRun
  TTLs <- OneSecond
  StatusForm <- Completing
  Label = {"demo"}
  MayReuse = FALSE
  MayEdit = FALSE
  MaxClock = 0
  MaxFail = 0
  Reaper = {r1}
  ReaperSpec <- GoodOrBad
  Namespace = {"demo"}
  CoreGroup = "core"
  Worker = {w1}
  TimerId = {t1}
  Overrun = TRUE
  ResyncAfter = 9
INVARIANTS NeitherForgets
PROPERTIES TogetherImplementPolicy DueIsReapedByEither
CHECK_DEADLOCK FALSE
