CONSTANTS
  Main = Main
  Files <- MCFiles
  InWork <- MCFiles
  MaxLine = 1
  MaxPipe = 3
  MaxSessions = 2
SPECIFICATION Spec
INVARIANTS
  DebuggerAgrees
  StopsAtMarks
  IndexWithinMarks
