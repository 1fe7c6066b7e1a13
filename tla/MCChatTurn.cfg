SPECIFICATION FairSpec
CONSTANTS
  t1 = t1
  i1 = i1
  i2 = i2
  r1 = r1
  r2 = r2
  None = None
  Turns <- MCTurns
  Runs <- MCRuns
  Instances <- MCInstances
  Home <- MCHome
  Topics = 2
  ReadsFail = TRUE
INVARIANTS
  TypeOK
  OneRunReplies
  DoneHasReply
PROPERTIES
  TurnEnds
CHECK_DEADLOCK FALSE
