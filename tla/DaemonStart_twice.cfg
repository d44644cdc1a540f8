SPECIFICATION StartSpec
CONSTANTS
  Sessions = {s1, s2, s3}
  Daemons = {d1, d2}
  Troubles = {"death"}
  MaxTrouble = 1
  Nothing = Nothing
  Dead = Dead
CHECK_DEADLOCK FALSE
INVARIANT ExactlyOnce
