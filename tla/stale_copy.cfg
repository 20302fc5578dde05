SPECIFICATION ControllerSpec
CONSTANTS
  Absent = Absent
  Malformed = Malformed
  Unborn = Unborn
  Gone = Gone
  Second = 1
  MaxDuration = 100
  Object <- OneRun
  TTLs <- OneSecond
  StatusForm <- Completing
  Label = {"demo"}
  MayReuse = TRUE
  MayEdit = FALSE
  MaxClock = 1
  MaxFail = 0
  Reaper = {r1}
  ReaperSpec <- OneSpace
  Namespace = {"demo"}
  CoreGroup = "core"
  Worker = {w1}
  TimerId = {t1, t2}
  Overrun = FALSE
  ResyncAfter = 9
  MaxCrash = 0
SYMMETRY Symmetry
INVARIANT ReapsOnlyExpired
CHECK_DEADLOCK FALSE
