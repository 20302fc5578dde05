SPECIFICATION ControllerSpec
CONSTANTS
  Absent = Absent
  Malformed = Malformed
  Unborn = Unborn
  Gone = Gone
  Second = 1
  MaxDuration = 100
  Object <- OnePolicy
  TTLs <- OneSecond
  StatusForm <- Completing
  Label = {"demo"}
  MayReuse = FALSE
  MayEdit = TRUE
  MaxClock = 1
  MaxFail = 0
  Reaper = {r1}
  ReaperSpec <- Policies
  Namespace = {"demo"}
  CoreGroup = "core"
  Worker = {w1}
  TimerId = {t1, t2}
  Overrun = FALSE
  ResyncAfter = 9
  MaxCrash = 0
SYMMETRY Symmetry
PROPERTY TickWatchesTargets
CHECK_DEADLOCK FALSE
