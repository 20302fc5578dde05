SPECIFICATION FairSpec
CONSTANTS
  Absent = Absent
  Malformed = Malformed
  Unborn = Unborn
  Gone = Gone
  Second = 1
  MaxDuration = 100
  Object <- OneRun
  TTLs <- OneSecond
  StatusForm <- Completing
  Label = {"demo"}
  MayReuse = FALSE
  MayEdit = TRUE
  MaxClock = 1
  MaxFail = 1
  Reaper = {r1}
  ReaperSpec <- AllSpaces
  Namespace = {"demo"}
  CoreGroup = "core"
  Worker = {w1}
  TimerId = {t1, t2}
  Overrun = TRUE
  ResyncAfter = 1
  MaxCrash = 0
INVARIANT NothingStale
PROPERTY DueIsReaped
CHECK_DEADLOCK FALSE
