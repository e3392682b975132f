CONSTANTS
  a = a
  b = b
  c = c
  d = d
  Partial = Partial
  None = None
  Blobs <- TwoBlobs
  Devices <- OneDevice
  ConflictIds <- OneConflict
  Faults <- CrashOnly
  MaxHistory = 2
  Retention = 3
  Second = 2
  MaxVersion = 3
  MaxClock = 4
SPECIFICATION Spec
SYMMETRY BlobSymmetry
INVARIANTS
  
  FirstStopRecoverable
  PreviousVersionKept
  RejectedKept
  EnvelopesKept
  ReadsCommitted
PROPERTIES
  ImplementsVersions
