SPECIFICATION StoreSpec
CONSTANTS
  Procs = {p1, p2, p3}
  Inodes = {i1, i2, i3}
  Stale = 1
  CrashPoints <- OutsideBreaking
  MaxCrashes = 2
  MaxClockSteps = 0
  None = None
  Orphan = Orphan
  w1 = w1
  w2 = w2
  t1 = t1
  t2 = t2
  Writers <- TheWriters
  Texts <- TheTexts
  MaxDeaths = 2
  Missing = Missing
  Askers <- TheAskers
  Paths <- ThePaths
SYMMETRY Symmetric
CHECK_DEADLOCK FALSE
INVARIANTS
  MutualExclusion
  
  WholeFile
  
  NoCircularWait
PROPERTIES
  ImplementsLockService
  
