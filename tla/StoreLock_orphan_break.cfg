SPECIFICATION Spec
CONSTANTS
  Procs = {p1, p2}
  Inodes = {i1, i2, i3}
  Stale = 1
  CrashPoints <- PCs
  MaxCrashes = 2
  MaxClockSteps = 0
  None = None
  Orphan = Orphan
SYMMETRY Symmetric
INVARIANTS
  MutualExclusion
