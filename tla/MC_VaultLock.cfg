CONSTANTS
  d1 = d1
  d2 = d2
  l1 = l1
  s1 = s1
  s2 = s2
  None = None
  Downloads <- TwoDownloads
  Lookups <- OneLookup
  Saves <- TwoSaves
SPECIFICATION Spec
CHECK_DEADLOCK FALSE
INVARIANTS WritesExclude SomeoneGoesOn
PROPERTY OnlyWedgeStops
