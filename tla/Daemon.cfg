SPECIFICATION FairSpec
CONSTANTS
  gate = gate
  suite = suite
  third = third
  r1 = r1
  r2 = r2
  old = old
  new = new
  Clients <- AllClients
  Repos <- AllRepos
  RepoOf <- WhereTheyStand
  Long <- LongOnes
  Gates <- TheGates
  Executing <- ThirdOnly
  Foreign <- NoClient
  Exec = FALSE
  Builds <- AllBuilds
  BuildOf <- AllNew
  Window = 1
  MaxOut = 2
  MaxStarts = 2
  None = None
CHECK_DEADLOCK FALSE
INVARIANTS
  Serialised
  VerdictIsOwn
  
  LostIsNotRunning
PROPERTIES
  EveryoneIsAnswered
  IdleDaemonLeaves
