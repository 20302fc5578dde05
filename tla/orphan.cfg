SPECIFICATION ControllerSpec
CONSTANTS
  Absent = Absent
  Malformed = Malformed
  Unborn = Unborn
  Gone = Gone
  Second = 1
  MaxDuration = 100
  Object <- OneRun
  TTLs <- OneSecond
  StatusForm <- Completing
  Label = {"demo"}
  MayReuse = FALSE
  MayEdit = FALSE
  MaxClock = 1
  MaxFail = 1
  Reaper = {r1, r2}
  ReaperSpec <- OneSpace
  Namespace = {"demo"}
  CoreGroup = "core"
  Worker = {w1, w2}
  TimerId = {t1, t2}
  Overrun = FALSE
  ResyncAfter = 9
  MaxCrash = 0
SYMMETRY Symmetry
INVARIANT SingleTimer
CHECK_DEADLOCK FALSE
