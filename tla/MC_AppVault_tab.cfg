CONSTANTS
  t1 = t1
  t2 = t2
  pw = pw
  paper = paper
  None = None
  NoId = NoId
  i1 = i1
  i2 = i2
  Ids <- TwoIds
  Tabs <- OneTab
  Codes <- TwoCodes
  Faults <- DraftFaults
  MaxWork = 2
  MaxLoads = 2
SPECIFICATION Spec

  
PROPERTIES
  IdleLocks
CHECK_DEADLOCK FALSE
