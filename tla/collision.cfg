SPECIFICATION ControllerSpec
CONSTANTS
  Absent = Absent
  Malformed = Malformed
  Unborn = Unborn
  Gone = Gone
  Second = 1
  MaxDuration = 100
  Object <- TwoGroups
  TTLs <- OneSecond
  StatusForm <- Completing
  Label = {"demo"}
  MayReuse = FALSE
  MayEdit = FALSE
  MaxClock = 0
  MaxFail = 0
  Reaper = {r1, r2}
  ReaperSpec <- EachGroup
  Namespace = {"demo"}
  CoreGroup = "core"
  Worker = {w1}
  TimerId = {t1, t2}
  Overrun = FALSE
  ResyncAfter = 9
  MaxCrash = 0
SYMMETRY Symmetry
INVARIANT NothingForgotten
CHECK_DEADLOCK FALSE
