CONSTANTS
  a = a
  b = b
  NoTerm = NoTerm
  Terms = {a}
  Lines <- MCLines
  Typed = b
  Wide = {b}
  Spaces = {b}
  Replacements <- MCReplacements
  MaxRuns = 2
  MaxOthers = 1
  MaxChanges = 1
SPECIFICATION FairSpec
CHECK_DEADLOCK FALSE
INVARIANTS
  CompleteUnlessCut
  ReplacesWhatIsMarked
PROPERTIES
  ImplementsSearchRuns
  Settles
