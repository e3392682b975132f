CONSTANTS
  t1 = t1
  t2 = t2
  k1 = k1
  Nobody = Nobody
  Clients <- TwoTabs
  Names <- OneName
  MaxEdits = 2
  MaxVersion = 3
  MaxFaults = 1
  MaxCloses = 1
SPECIFICATION Spec
INVARIANTS
  SavedMeansStored
  
  DiscardedStaysOut
PROPERTIES
  NoLostUpdate
  EditsSettle
CHECK_DEADLOCK FALSE
