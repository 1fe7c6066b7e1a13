SPECIFICATION FairSpec
CONSTANTS
  d1 = d1
  i1 = i1
  j1 = j1
  j2 = j2
  Docs = {d1}
  Instances = {i1}
  Jobs = {j1, j2}
  Home <- MCHome
  Rounds = 2
  MaxAgain = 1
  MaxFaults = 2
INVARIANTS
  TypeOK
  ReadyIsWhole
PROPERTIES
  IsReadInTheEnd
CHECK_DEADLOCK FALSE
