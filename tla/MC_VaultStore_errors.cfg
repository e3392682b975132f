CONSTANTS
  a = a
  b = b
  c = c
  d = d
  Partial = Partial
  None = None
  Blobs <- TwoBlobs
  Devices <- OneDevice
  ConflictIds <- OneConflict
  Faults <- AllFaults
  MaxHistory = 2
  Retention = 3
  Second = 2
  MaxVersion = 2
  MaxClock = 3
SPECIFICATION Spec
SYMMETRY BlobSymmetry
INVARIANT TypeOK
PROPERTY CapKeepsWindow
