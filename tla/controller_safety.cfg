SPECIFICATION ControllerSpec
CONSTANTS
  Absent = Absent
  Malformed = Malformed
  Unborn = Unborn
  Gone = Gone
  Second = 1
  MaxDuration = 100
  Object <- OneRun
  TTLs <- OneSecond
  StatusForm <- Completing
  Label = {"demo"}
  MayReuse = FALSE
  MayEdit = TRUE
  MaxClock = 1
  MaxFail = 1
  Reaper = {r1, r2}
  ReaperSpec <- AllSpaces
  Namespace = {"demo"}
  CoreGroup = "core"
  Worker = {w1, w2}
  TimerId = {t1}
  Overrun = FALSE
  ResyncAfter = 9
  MaxCrash = 1
SYMMETRY Symmetry
INVARIANT NothingForgotten
PROPERTY KeepsFeed
CHECK_DEADLOCK FALSE
