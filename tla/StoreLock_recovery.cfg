SPECIFICATION FairSpec
CONSTANTS
  Procs = {p1, p2}
  Inodes = {i1, i2}
  Stale = 1
  CrashPoints <- LeavingLitter
  MaxCrashes = 2
  MaxClockSteps = 1
  None = None
  Orphan = Orphan
PROPERTIES
  OrphanedLockIsCleared
