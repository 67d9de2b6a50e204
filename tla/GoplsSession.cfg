CONSTANTS
  a = a
  b = b
  t = t
  pa = pa
  pb = pb
  pt = pt
  mod1 = mod1
  mod2 = mod2
  NoEditor = NoEditor
  NoKey = NoKey
  Editors <- MCEditors
  GoEditors <- MCGoEditors
  Paths <- MCPaths
  InitialPath <- MCInitialPath
  SaveAsPaths <- MCSaveAsPaths
  Keys <- MCKeys
  Key <- MCKey
  RootKey <- MCRootKey
SPECIFICATION FairSpec
INVARIANTS
  GocodeRestored
  OneOwner
  GocodeServes
  NeverDeaf
  GoplsServes
PROPERTIES
  ReadyInOneWorkspace
  DisableRestores
  RestartDone
