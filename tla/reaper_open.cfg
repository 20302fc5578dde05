SPECIFICATION Spec
CONSTANTS
  Absent = Absent
  Malformed = Malformed
  Unborn = Unborn
  Gone = Gone
  Second = 1
  MaxDuration = 100
  Object <- OneRun
  TTLs <- OneSecond
  StatusForm <- Completing
  Label = {"demo"}
  MayReuse = TRUE
  MayEdit = FALSE
  MaxClock = 1
  MaxFail = 1
  Reaper = {r1, r2}
  ReaperSpec <- AllSpaces
  Namespace = {"demo"}
  CoreGroup = "core"
  Worker = {w1, w2}
  TimerId = {t1, t2}
  Overrun = FALSE
SYMMETRY Symmetry
INVARIANTS TypeOK NoTimerLeak WarrantedReap
PROPERTY ImplementsPolicy
CHECK_DEADLOCK FALSE
