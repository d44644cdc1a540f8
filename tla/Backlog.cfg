SPECIFICATION Spec
CONSTANTS
  s1 = s1
  s2 = s2
  epic = epic
  milestone = milestone
  p1 = p1
  p2 = p2
  Stories <- TheStories
  Epics <- TheEpics
  Milestones <- TheMilestones
  Parent <- TheParent
  Goals <- TheGoals
  MaxSprints = 2
  MaxEdits = 2
  Processes <- TheProcesses
  Serial = TRUE
  RetroOff = FALSE
  Absent = Absent
  None = None
SYMMETRY Symmetry
CHECK_DEADLOCK FALSE

  
PROPERTIES
  DoneStays
  LeavesVisibly
  ParentLast
