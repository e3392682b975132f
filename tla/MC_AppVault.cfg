CONSTANTS
  t1 = t1
  t2 = t2
  pw = pw
  paper = paper
  None = None
  NoId = NoId
  i1 = i1
  i2 = i2
  Ids <- TwoIds
  Tabs <- TwoTabs
  Codes <- OneCode
  Faults <- KeyFaults
  MaxWork = 1
  MaxLoads = 2
SPECIFICATION Spec
SYMMETRY TabSymmetry
INVARIANTS
  TypeOK
  LockedNeedsPassword
  
  KeyStaysForgotten
PROPERTIES
  CachedKeyRespectsLock
CHECK_DEADLOCK FALSE
