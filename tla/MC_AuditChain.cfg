CONSTANTS
  Scenarios <- Reconcilable
  MaxMinted = 5
SPECIFICATION Spec
INVARIANTS
  NeverRefuses
  AcknowledgedSurvive
  LogVerifies
PROPERTIES
  AppendOnly
