------------------------------ MODULE BuildTasks ------------------------------
(***************************************************************************)
(* LiteBuild runs one process at a time through ProcessEx.  An action of   *)
(* the build configuration is a command, or a chain of tasks that are      *)
(* actions themselves: extFinish takes the next task from the list kept    *)
(* in the process's user data.  The user stops the process, has it killed  *)
(* by a new action, or runs a command instead.                             *)
(*                                                                         *)
(* Stopping waits inside the handler, and ProcessEx reports from that wait *)
(* too: extFinish may start the next task of the chain that is being       *)
(* killed.  This is the build for Unix, where a stop begins with SIGINT.   *)
(* Saving the editors, which execAction does first, is left out.           *)
(***************************************************************************)
EXTENDS Integers, Sequences

CONSTANTS
  Actions,      \* the actions of a build configuration
  Tasks,        \* BuildAction::task, empty for an action with a command
  KillOld,      \* the actions with killold="true"
  Processless,  \* those with debug="true" or output="false": they do not run
                \* in m_process
  Command,      \* what the console and the file browser run
  Tool,         \* the Go tools of the folder menu, and gofmt
  Stop,         \* the Stop action
  NoRequest,
  MaxExecs      \* bound: the user asks for no more executions than this

Commands == {Command, Tool}

\* As in every configuration under deploy/litebuild: tasks have no tasks of
\* their own, and only the last of a chain may start no process.
ASSUME BuildAssumption ==
  /\ Tasks \in [Actions -> Seq(Actions)]
  /\ KillOld \subseteq Actions /\ Processless \subseteq Actions
  /\ \A a \in Actions : \A i \in 1..Len(Tasks[a]) :
       /\ Tasks[Tasks[a][i]] = <<>>
       /\ i < Len(Tasks[a]) => Tasks[a][i] \notin Processless
  /\ Actions \cap Commands = {} /\ Stop \notin Actions \cup Commands
  /\ NoRequest \notin Actions \cup Commands \cup {Stop}
  /\ MaxExecs \in Nat

VARIABLES
  proc,     \* m_process: its state, ProcessEx::m_suppressFinish, the item it
            \* was started for, whether it has reported its crash and not yet
            \* that it finished, and how often it has emitted extFinish
  tasks,    \* userData(ID_TASKLIST)
  handler,  \* the request whose handler waits for the process to end
  wait,     \* where it waits
  \* History variables.
  asked,    \* the executions asked for
  failed,   \* those in which something failed
  raced     \* a process succeeded although a handler was stopping it

vars == <<proc, tasks, handler, wait, asked, failed, raced>>

\* What an execution of a runs, in order.
Steps(a) == IF a \in Commands THEN <<a>> ELSE
            IF Tasks[a] = <<>> THEN <<a>> ELSE Tasks[a]
Item(n, a, i) == [exec |-> n, pos |-> i, act |-> Steps(a)[i]]
\* The items of execution n of a behind the first i.
Rest(n, a, i) == [j \in 1..(Len(Steps(a)) - i) |-> Item(n, a, i + j)]

Stopped == proc.state = "NotRunning"

-----------------------------------------------------------------------------
(* Starting.                                                               *)

\* Mutant of Launch: the last crash still suppresses.
LaunchSuppressed(p, item) ==
  [p EXCEPT !.state = "Starting", !.item = item, !.reports = 0]

\* Process::startEx; slotStateChanged sees Starting.
Launch(p, item) ==
  [p EXCEPT !.state = "Starting", !.suppress = FALSE, !.item = item, !.reports = 0]

ExecAction(p, item) ==
  IF p.state # "NotRunning" \/ item.act \in Processless THEN p ELSE Launch(p, item)

\* Mutant of BeginAction: the first task stays in the list.
BeginActionTwice(a) ==
  LET n == Len(asked) + 1 IN
  /\ n <= MaxExecs
  /\ asked' = Append(asked, a)
  /\ tasks' = IF Tasks[a] = <<>> THEN tasks ELSE Rest(n, a, 0)
  /\ proc' = ExecAction(proc, Item(n, a, 1))
  /\ UNCHANGED <<failed, raced>>

\* The end of execBuildAction, also when a task of the killed chain runs.
BeginAction(a) ==
  LET n == Len(asked) + 1 IN
  /\ n <= MaxExecs
  /\ asked' = Append(asked, a)
  /\ tasks' = IF Tasks[a] = <<>> THEN tasks ELSE Rest(n, a, 1)
  /\ proc' = ExecAction(proc, Item(n, a, 1))
  /\ UNCHANGED <<failed, raced>>

\* execCommand; a command does not touch the list of tasks.
BeginCommand(c) ==
  LET n == Len(asked) + 1 IN
  /\ n <= MaxExecs
  /\ Stopped
  /\ asked' = Append(asked, c)
  /\ proc' = Launch(proc, Item(n, c, 1))
  /\ UNCHANGED <<tasks, failed, raced>>

-----------------------------------------------------------------------------
(* The process reports.                                                    *)

\* Mutant of ExtFinish: the exit code of a task does not matter.
ExtFinishAnyCode(p, error, code) ==
  LET q   == [p EXCEPT !.reports = @ + 1]
      bad == error
  IN /\ IF bad THEN proc' = q /\ tasks' = <<>>
        ELSE IF tasks = <<>> THEN proc' = q /\ UNCHANGED tasks
        ELSE proc' = ExecAction(q, Head(tasks)) /\ tasks' = Tail(tasks)
     /\ failed' = IF error \/ code # 0 THEN failed \cup {q.item.exec} ELSE failed
     /\ raced' = (raced \/ (~bad /\ handler # NoRequest))

\* LiteBuild::extFinish, with the process as p.  The code of a
\* command does not make it a failure, that of a tool does.
ExtFinish(p, error, code) ==
  LET q   == [p EXCEPT !.reports = @ + 1]
      bad == error \/ (q.item.act # Command /\ code # 0)
  IN /\ IF bad THEN proc' = q /\ tasks' = <<>>
        ELSE IF tasks = <<>> THEN proc' = q /\ UNCHANGED tasks
        ELSE proc' = ExecAction(q, Head(tasks)) /\ tasks' = Tail(tasks)
     /\ failed' = IF bad THEN failed \cup {q.item.exec} ELSE failed
     /\ raced' = (raced \/ (~bad /\ handler # NoRequest))

\* waitForFinished returns to the handler.
WaitOver ==
  wait' = CASE wait = "rest" -> "begin" [] wait = "none" -> "none" [] OTHER -> "resume"

Started ==
  /\ proc.state = "Starting"
  /\ proc' = [proc EXCEPT !.state = "Running"]
  /\ UNCHANGED <<tasks, handler, wait, asked, failed, raced>>

\* errorOccurred(FailedToStart).  No finished follows, and waitForFinished
\* returns false: execBuildAction gives up.
FailsToStart ==
  /\ proc.state = "Starting"
  /\ ExtFinish([proc EXCEPT !.state = "NotRunning", !.suppress = TRUE], TRUE, -1)
  /\ IF wait = "rest" THEN wait' = "none" /\ handler' = NoRequest
                      ELSE WaitOver /\ UNCHANGED handler
  /\ UNCHANGED asked

\* errorOccurred(Crashed), emitted while the state is still Running.
Crashes ==
  /\ proc.state = "Running" /\ ~proc.dying
  /\ ExtFinish([proc EXCEPT !.suppress = TRUE, !.dying = TRUE], TRUE, -1)
  /\ UNCHANGED <<handler, wait, asked>>

\* Mutant of Finished: a crash is reported twice.
FinishedTwice(code) ==
  /\ proc.state = "Running"
  /\ ExtFinish([proc EXCEPT !.state = "NotRunning", !.dying = FALSE], FALSE, code)
  /\ WaitOver
  /\ UNCHANGED <<handler, asked>>

\* finished(code), after the state has become NotRunning.
Finished(code) ==
  LET gone == [proc EXCEPT !.state = "NotRunning", !.dying = FALSE] IN
  /\ proc.state = "Running"
  /\ IF proc.suppress THEN proc' = gone /\ UNCHANGED <<tasks, failed, raced>>
                      ELSE ExtFinish(gone, FALSE, code)
  /\ WaitOver
  /\ UNCHANGED <<handler, asked>>

-----------------------------------------------------------------------------
(* The user, while no handler waits.                                       *)

Free == handler = NoRequest /\ ~proc.dying

Waits(request) ==
  /\ ~Stopped
  /\ handler' = request /\ wait' = "interrupt"
  /\ UNCHANGED <<proc, tasks, asked, failed, raced>>

StopAction == Free /\ IF Stopped THEN UNCHANGED vars ELSE Waits(Stop)

ExecBuildAction(a) ==
  /\ Free
  /\ \/ Stopped /\ BeginAction(a) /\ UNCHANGED <<handler, wait>>
     \/ a \in KillOld /\ Len(asked) < MaxExecs /\ Waits(a)
     \/ ~Stopped /\ a \notin KillOld /\ UNCHANGED vars

ExecCommand ==
  /\ Free
  /\ \/ BeginCommand(Command) /\ UNCHANGED <<handler, wait>>
     \/ ~Stopped /\ UNCHANGED vars

\* fmctxGoTool, fmctxGofmt and fmctxExecuteFile: stopAction, then execCommand.
ExecTool(c) ==
  /\ Free /\ Len(asked) < MaxExecs
  /\ \/ Waits(c)
     \/ BeginCommand(c) /\ UNCHANGED <<handler, wait>>

-----------------------------------------------------------------------------
(* The handler that waits.                                                 *)

\* Mutant of TimesOut: execBuildAction waits for as long as it takes.
TimesOutNever ==
  /\ wait \in {"interrupt", "terminate"} /\ ~proc.dying
  /\ wait' = IF wait = "interrupt" THEN "terminate" ELSE "resume"
  /\ UNCHANGED <<proc, tasks, handler, asked, failed, raced>>

\* A wait times out: after SIGINT Process::stop terminates; it kills, and
\* returns at once; the last wait, of execBuildAction, gives up.
TimesOut ==
  /\ wait \in {"interrupt", "terminate", "rest"} /\ ~proc.dying
  /\ wait' = CASE wait = "interrupt" -> "terminate" [] wait = "terminate" -> "resume"
               [] OTHER -> "none"
  /\ handler' = IF wait = "rest" THEN NoRequest ELSE handler
  /\ UNCHANGED <<proc, tasks, asked, failed, raced>>

Returns == handler' = NoRequest /\ wait' = "none"

\* stopAction, or what stands for it in execBuildAction, is over.
Resume ==
  /\ wait = "resume"
  /\ \/ handler = Stop /\ Returns /\ UNCHANGED <<proc, tasks, asked, failed, raced>>
     \/ handler \in Commands /\ BeginCommand(handler) /\ Returns
     \/ handler \in Commands /\ ~Stopped /\ Returns
        /\ UNCHANGED <<proc, tasks, asked, failed, raced>>
     \/ handler \in Actions /\ Stopped /\ BeginAction(handler) /\ Returns
     \/ handler \in Actions /\ ~Stopped /\ wait' = "rest"
        /\ UNCHANGED <<proc, tasks, handler, asked, failed, raced>>

\* The last wait saw a process end; execBuildAction does not ask which.
ResumeLast == wait = "begin" /\ BeginAction(handler) /\ Returns

Idle == wait \notin {"resume", "begin"}

Init ==
  /\ proc = [state |-> "NotRunning", suppress |-> FALSE, dying |-> FALSE, reports |-> 1,
             item |-> [exec |-> 0, pos |-> 1, act |-> Command]]
  /\ tasks = <<>> /\ asked = <<>>
  /\ handler = NoRequest /\ wait = "none"
  /\ failed = {} /\ raced = FALSE

Next ==
  \/ Idle /\ (Started \/ FailsToStart \/ Crashes \/ \E code \in {0, 1} : Finished(code))
  \/ StopAction \/ ExecCommand \/ \E c \in Commands : ExecTool(c)
  \/ \E a \in Actions : ExecBuildAction(a)
  \/ TimesOut \/ Resume \/ ResumeLast

Spec == Init /\ [][Next]_vars

-----------------------------------------------------------------------------
(* Properties.                                                             *)

\* Every variable has its type.
TypeOK ==
  LET items == [exec : Nat, pos : Nat, act : Actions \cup Commands] IN
  /\ proc \in [state : {"NotRunning", "Starting", "Running"}, suppress : BOOLEAN,
               dying : BOOLEAN, reports : Nat, item : items]
  /\ tasks \in Seq(items)
  /\ handler \in Actions \cup Commands \cup {Stop, NoRequest}
  /\ wait \in {"none", "interrupt", "terminate", "resume", "rest", "begin"}
  /\ asked \in Seq(Actions \cup Commands)
  /\ failed \subseteq Nat /\ raced \in BOOLEAN

\* ProcessEx reports the end of every process once, whether it fails to start,
\* crashes, which Qt reports twice, or finishes: extFinish has come for a
\* process that is gone, and not yet for one that runs.
FinishOnce ==
  proc.reports = IF Stopped \/ proc.dying THEN 1 ELSE 0

\* The list of tasks belongs to a process that will take the next one or clear
\* it: when nothing runs it is empty, so that no unrelated action or command
\* that succeeds later goes on with a chain.
NoStrandedTasks == Stopped => tasks = <<>>

\* A chain stops at its first failure: once a task of an execution has failed,
\* crashed or not started, no task of that execution runs or is due, whatever
\* is killed, refused or started later.
FailedStaysDead ==
  /\ ~Stopped /\ ~proc.dying => proc.item.exec \notin failed
  /\ \A i \in 1..Len(tasks) : tasks[i].exec \notin failed

\* A chain runs in its order, nothing left out, repeated or mixed with another
\* chain: behind the task that runs the list holds the rest of its own
\* execution.  That needs that no process ever succeeded while a handler was
\* stopping it.
TasksInOrder ==
  ~raced /\ ~Stopped /\ ~proc.dying =>
    tasks = Rest(proc.item.exec, asked[proc.item.exec], proc.item.pos)

-----------------------------------------------------------------------------
(* Fairness: the waits of a handler time out, and it goes on.              *)

FairSpec == Spec /\ WF_vars(TimesOut) /\ WF_vars(Resume \/ ResumeLast)
                 /\ WF_vars(proc.dying /\ Finished(1))

\* A handler that stops a process comes back to the event loop, whatever the
\* process does and however many tasks of its chain start meanwhile.
HandlerReturns == handler # NoRequest ~> handler = NoRequest
=============================================================================
