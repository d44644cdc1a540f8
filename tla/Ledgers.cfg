SPECIFICATION MCSpec
CONSTANTS
  p1 = p1
  p2 = p2
  a1 = a1
  a2 = a2
  w = w
  t1 = t1
  t2 = t2
  q1 = q1
  q2 = q2
  yes = yes
  no = no
  Agents <- TheAgents
  Patterns <- ThePatterns
  Paths <- ThePaths
  Characters <- TheCharacters
  MaxClaims = 2
  Waves <- TheWaves
  Tasks <- TheTasks
  Questions <- TheQuestions
  Texts <- TheTexts
  MaxEdits = 1
  Processes <- TheProcesses
  Serial = TRUE
  None = None
SYMMETRY Symmetry
CHECK_DEADLOCK FALSE
INVARIANTS
  HeldIsListed
  OverlapTold
  
  VerdictIsTheRecord

  
