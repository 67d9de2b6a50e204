CONSTANTS
  a = a
  b = b
  pa = pa
  pb = pb
  pc = pc
  mod1 = mod1
  mod2 = mod2
  NoEditor = NoEditor
  NoKey = NoKey
  Editors <- MCEditors
  GoEditors <- MCEditors
  Paths <- MCPaths
  InitialPath <- MCInitialPath
  SaveAsPaths <- MCSpare
  Keys <- MCKeys
  Key <- MCKey
  RootKey <- MCRootKey
  DialogEditors <- MCDialogs
  MaxEdits = 1
  MaxVersion <- MCMaxVersion
SPECIFICATION DocSpec
INVARIANTS
  ServerMirrorsEditors
  LegalTraffic
  DocumentsOfOpenEditors
PROPERTIES
  ImplementsTextSync
