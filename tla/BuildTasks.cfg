CONSTANTS
  Build = Build
  Run = Run
  RunTerm = RunTerm
  BuildAndRun = BuildAndRun
  Debug = Debug
  Cover = Cover
  Actions <- MCActions
  Tasks <- MCTasks
  KillOld <- MCKillOld
  Processless <- MCProcessless
  Command = Command
  Tool = Tool
  Stop = Stop
  NoRequest = NoRequest
  MaxExecs = 3
SPECIFICATION FairSpec
INVARIANTS
  FinishOnce
  NoStrandedTasks
  FailedStaysDead
  TasksInOrder
PROPERTIES
  HandlerReturns
