SPECIFICATION FairFactorySpec
CONSTANTS
  Type = {t1, t2}
  Caller = {c1, c2}
  StopCh = {s1, s2}
  None = None
INVARIANTS FactoryTypeOK WaitGroupCounts ShutdownIsFinal
PROPERTIES NoAddDuringWait SyncedOnReturn CallsReturn
