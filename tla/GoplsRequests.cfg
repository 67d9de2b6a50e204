CONSTANTS
  a = a
  b = b
  pa = pa
  pb = pb
  mod1 = mod1
  NoEditor = NoEditor
  NoKey = NoKey
  Editors <- MCEditors
  GoEditors <- MCEditors
  Paths <- MCPaths
  InitialPath <- MCInitialPath
  SaveAsPaths <- MCNone
  Keys <- MCKeys
  Key <- MCKey
  RootKey = mod1
  MaxIds = 2
SPECIFICATION ReqFairSpec
CHECK_DEADLOCK FALSE
INVARIANTS
  TablesAgree
  PendingIsOwed
PROPERTIES
  NoneWaitsForEver
