SPECIFICATION ChecksSpec
CONSTANTS
  f1 = f1
  f2 = f2
  d1 = d1
  d2 = d2
  PythonLocks = {"uv.lock", "poetry.lock"}
  MaxIncludes = 1
  MaxDepth = 1
CHECK_DEADLOCK FALSE
INVARIANTS
  
  SweepKeepsWhatIsUsed
  
  
  
