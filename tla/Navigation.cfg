CONSTANTS
  f1 = f1
  f2 = f2
  f3 = f3
  NoFile = NoFile
  Files <- MCFiles
  PlacesOf <- MCPlacesOf
  Limit = 4
  Half = 2
  MaxEditors = 2
  CanVanish <- MCCanVanish
SPECIFICATION Spec
INVARIANTS
  TrailAhead
PROPERTIES
  KeepsRecent
  BackIsAtPosition
