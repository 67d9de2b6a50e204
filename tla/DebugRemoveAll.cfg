CONSTANTS
  Main = Main
  Files <- MCFiles
  InWork <- MCFiles
  MaxLine = 1
  MaxPipe = 3
  MaxSessions = 1
SPECIFICATION Spec
PROPERTY RemovesAll
