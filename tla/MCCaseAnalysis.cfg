SPECIFICATION FairSpec
CONSTANTS
  d1 = d1
  d2 = d2
  w1 = w1
  w2 = w2
  Docs <- MCDocs
  Workers <- MCWorkers
  MaxClicks = 1
  MaxChanges = 2
  MaxFaults = 1
INVARIANTS
  TypeOK
  ChangeIsRemembered
PROPERTIES
  ChangeIsAnalysed
CHECK_DEADLOCK FALSE
CONSTRAINT Untroubled
