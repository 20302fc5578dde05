SPECIFICATION FairStartupSpec
CONSTANTS
  Reaper = {r1, r2}
  ReaperSpec <- GoodAndBad
  Absent = Absent
  MaxExit = 1
  MaxWrite = 2
INVARIANTS StartupTypeOK NoneUnserved
PROPERTIES ImplementsFeed EveryReaperServed EveryTypeWatched
