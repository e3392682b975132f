CONSTANTS
  Tokens <- SomeTokens
  Tables <- AllTables
  Preferred <- SomeProviders
  NewNames <- SomeNames
  FirstGroups <- Groups
  FirstEntries <- SomeEntries
  MaxDepth = 2
  MaxImports = 2
SPECIFICATION Spec
INVARIANTS
  ParsesWritten
PROPERTIES
  SelectedImportedOnce
  
  FailsWhole
CHECK_DEADLOCK FALSE
