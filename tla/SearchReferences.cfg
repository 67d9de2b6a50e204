CONSTANTS
  a = a
  b = b
  NoTerm = NoTerm
  Terms = {a}
  Lines <- MCLines
  Typed = b
  Wide = {b}
  Spaces = {b}
  Replacements <- MCReplacements
  MaxRuns = 1
  MaxOthers = 1
  MaxChanges = 0
SPECIFICATION Spec
CHECK_DEADLOCK FALSE
INVARIANTS
  ReferencesMark
