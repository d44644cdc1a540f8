SPECIFICATION SessionSpec
CONSTANTS
  s1 = s1
  s2 = s2
  s3 = s3
  d1 = d1
  d2 = d2
  a1 = a1
  n1 = n1
  n2 = n2
  u1 = u1
  u2 = u2
  f1 = f1
  f2 = f2
  Sessions <- TheSessions
  Daemons <- TheDaemons
  Troubles = {"death", "refusal", "delay", "by hand"}
  MaxTrouble = 1
  Nothing = Nothing
  Dead = Dead
  Agents <- TheAgents
  Asking = {m1, m2}
  Reporting = {r1}
  Notes <- TheNotes
  MaxDecisions = 2
  Missing = Missing
  NoFile = NoFile
  Upgrades <- TheUpgrades
  Running = Running
  Cuts = 2
  Damaged = Damaged
  MaxFaults = 2
  Hooks = {h1, h2}
  Builders = {b1}
  Files <- TheFiles
  Escaped <- TheEscaped
  MaxVersion = 3
  MaxHead = 2
  Absent = Absent
CHECK_DEADLOCK FALSE
INVARIANTS
  SessionTypeOK
  OneDaemon
  RecordedIsEnough
  OnlyAgreed
  
  IndexIsTheTree
PROPERTIES
  StartedAgain
  
  
