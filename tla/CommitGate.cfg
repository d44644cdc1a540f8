SPECIFICATION FairSpec
CONSTANTS
  source = source
  g1 = g1
  Files <- TheFiles
  Formatted <- TheFiles
  Gates <- TheGates
  Slots = 1
  Daemon = Daemon
  MaxEdits = 3
  Absent = Absent
  Setups <- TheSetups
CHECK_DEADLOCK FALSE
INVARIANTS
  SilenceIsAVerdict
PROPERTIES
  QuietCommitIsClean
  GateEnds
