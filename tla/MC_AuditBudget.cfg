CONSTANTS
  s1 = s1
  s2 = s2
  s3 = s3
  MaxRequests = 4
  Sources <- ThreeSources
  Overflow = Overflow
  Flush = Flush
  Close = Close
  MaxSources = 1
  Burst = 1
  Window = 1
SPECIFICATION Spec
CHECK_DEADLOCK FALSE
INVARIANTS
  TypeOK
  
  CloseLeavesNothing
PROPERTY EventuallyAccounted
