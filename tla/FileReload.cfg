CONSTANTS
  f1 = f1
  f2 = f2
  x = x
  xy = xy
  z = z
  l1 = l1
  l2 = l2
  l3 = l3
  l4 = l4
  l5 = l5
  EmptyLine = EmptyLine
  Similar <- MCSimilar
  Context = 2
  Nowhere = Nowhere
  Files <- MCFiles
  MaxClock = 3
  SavesAs = TRUE
  Backdates = FALSE
  ReloadFails = FALSE
  IdleSaves = TRUE
SPECIFICATION FairSpec
INVARIANTS
  StaleIsPending
  ChangesScheduled
PROPERTIES
  UnsavedKept
  AutoFollows
  ReloadShowsTheFile
