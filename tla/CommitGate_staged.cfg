SPECIFICATION Spec
CONSTANTS
  source = source
  g1 = g1
  Files <- TheFiles
  Formatted <- TheFiles
  Gates <- TheGates
  Slots = 1
  Daemon = Daemon
  MaxEdits = 2
  Absent = Absent
  Setups <- TheSetups
CHECK_DEADLOCK FALSE
PROPERTIES
  SecretsStayOut
