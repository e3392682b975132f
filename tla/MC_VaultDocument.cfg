CONSTANTS
  e1 = e1
  e2 = e2
  c1 = c1
  c2 = c2
  f = f
  i = i
  None = None
  Root = Root
  Folder = Folder
  Bin = Bin
  Entries <- MCEntries
  Contents <- MCContents
  Blank = c1
  Files <- MCFiles
  Inline <- MCInline
  Budget = 2
  Limits <- SomeLimits
  FirstVault <- First
  Conflict <- Preserved
  EditorMayBeOpen = FALSE
  MaxChanges = 3
  MaxAdding = 2
SPECIFICATION Spec
INVARIANTS
  EditorShowsEntry
PROPERTIES
  AddsLandInView
  RecycledFrozen
  
