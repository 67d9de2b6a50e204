--------------------------- MODULE DebugBreakpoints ---------------------------
(***************************************************************************)
(* A breakpoint lives in four places: as a mark in its editor, in          *)
(* LiteDebug::m_fileBpMap, in DlvRpcDebugger::m_locationBkMap, and in the  *)
(* debugger.  The last two are joined by the standard input of a delve     *)
(* client: a command is dropped when the answer to another one is          *)
(* outstanding, unless it is forced.                                       *)
(*                                                                         *)
(* Two processes make a session: the headless server, and the client that  *)
(* is started when the server has told its address.                        *)
(***************************************************************************)
EXTENDS EditorMarks

CONSTANTS
  Files,
  InWork,       \* the Go files in the directory of the program to debug
  MaxLine,      \* bound: editors number their lines from 0 to this
  MaxPipe,      \* bound on the commands delve has not yet read
  MaxSessions   \* bound on the sessions

ASSUME DebugAssumption ==
  /\ IsFiniteSet(Files) /\ InWork \subseteq Files
  /\ MaxLine \in Nat /\ MaxPipe \in Nat /\ MaxSessions \in Nat

Lines == 0..MaxLine

VARIABLES
  editor,     \* for each file, whether it is open in an editor, and the marks of
              \* that; for one that is closed, index is litedebug_bp/<file>
  fileBpMap,  \* LiteDebug::m_fileBpMap
  server,     \* m_headlessProcess
  client,     \* m_process
  dbg,        \* m_dlvInit, m_initBks, m_locationBkMap, m_writeDataBusy, and the
              \* commands written that delve has not read
  dlv,        \* the breakpoints delve has, and whether the program runs
  sessions,   \* how many were started
  lost,       \* history: places whose last command was not sent, and those
              \* delve refused to break at
  holes       \* history: places of which the editor's list may differ

vars == <<editor, fileBpMap, server, client, dbg, dlv, sessions, lost, holes>>

\* Delve counts lines from one, the editor from zero.
Location(f, line) == <<f, line + 1>>
Locations(f) == {Location(f, line) : line \in Lines}
NoLocation == <<>>

Open(f) == editor[f].open
IsRunning == server # "none"

-----------------------------------------------------------------------------
(* Commands.  s holds what command_helper and its callers change.          *)

Sending == [map |-> dbg.map, busy |-> dbg.busy, pipe |-> dbg.pipe, lost |-> lost]

Sent(s) ==
  /\ dbg' = [dbg EXCEPT !.map = s.map, !.busy = s.busy, !.pipe = s.pipe]
  /\ lost' = s.lost

\* What is written while the client does not run goes nowhere.
CommandHelper(s, op, loc, force) ==
  LET dropped == s.busy /\ ~force
      written == ~dropped /\ client = "running"
  IN [s EXCEPT !.busy = TRUE,
        !.pipe = IF written THEN Append(@, [op |-> op, loc |-> loc]) ELSE @,
        !.lost = IF written THEN @ \ {loc} ELSE @ \cup ({loc} \ {NoLocation})]

InsertBreakPointHelper(s, f, line, force) ==
  LET loc == Location(f, line) IN
  IF loc \in s.map THEN s
  ELSE CommandHelper([s EXCEPT !.map = @ \cup {loc}], "break", loc, force)

RemoveBreakPointHelper(s, f, line, force) ==
  LET loc == Location(f, line) IN
  IF loc \notin s.map THEN s
  ELSE CommandHelper([s EXCEPT !.map = @ \ {loc}], "clear", loc, force)

\* findBreakPoint does not count from one.
FindBreakPoint(s, f, line) == <<f, line>> \in s.map

Continue(s, force) == CommandHelper(s, "continue", NoLocation, force)

-----------------------------------------------------------------------------
(* The editors.                                                            *)

\* While the debugger starts it takes the breakpoints from a table made
\* before, whatever the user changes; and a mark that is not in the index is
\* never known to be set.
Unheard(f, lines) ==
  LET late   == IF dbg.init THEN {} ELSE lines
      ghosts == lines \cap (editor[f].nodes \ editor[f].index)
  IN holes' = IF IsRunning THEN holes \cup {Location(f, line) : line \in late \cup ghosts}
              ELSE holes

EditorCreated(f) ==
  /\ ~Open(f)
  /\ editor' = [editor EXCEPT ![f] = [@ EXCEPT !.open = TRUE, !.nodes = editor[f].index]]
  /\ fileBpMap' = [fileBpMap EXCEPT ![f] = editor[f].index]
  /\ UNCHANGED <<server, client, dbg, dlv, sessions, lost, holes>>

EditorAboutToClose(f) ==
  /\ Open(f)
  /\ editor' = [editor EXCEPT ![f] = [@ EXCEPT !.open = FALSE, !.nodes = {}]]
  /\ UNCHANGED <<fileBpMap, server, client, dbg, dlv, sessions, lost, holes>>

Marks(f) == [nodes |-> editor[f].nodes, index |-> editor[f].index]
Marked(f, m) == editor' = [editor EXCEPT ![f] = [@ EXCEPT !.nodes = m.nodes, !.index = m.index]]

\* The user edits: the marks move, the other three tables do not.
Edit(f, m) ==
  /\ Open(f)
  /\ m.nodes \subseteq Lines /\ m.nodes # editor[f].nodes
  /\ Marked(f, m)
  /\ holes' = IF IsRunning THEN holes \cup Locations(f) ELSE holes
  /\ UNCHANGED <<fileBpMap, server, client, dbg, dlv, sessions, lost>>

InsertsLine(f, line) == Edit(f, InsertLines(Marks(f), line, 1))
RemovesLine(f, line) == Edit(f, RemoveLines(Marks(f), line, 1))

\* Mutant: the debugger is not told that a mark was removed.
ToggleBreakPointSilent(f, line) ==
  LET set  == line \notin editor[f].index
      mark == IF set THEN AddMark(Marks(f), line) ELSE RemoveMark(Marks(f), line)
  IN
  /\ Open(f) /\ Len(dbg.pipe) < MaxPipe
  /\ Marked(f, mark)
  /\ fileBpMap' = [fileBpMap EXCEPT ![f] = IF set THEN @ \cup {line} ELSE @ \ {line}]
  /\ Sent(IF IsRunning /\ set THEN InsertBreakPointHelper(Sending, f, line, FALSE) ELSE Sending)
  /\ Unheard(f, {line})
  /\ UNCHANGED <<server, client, dlv, sessions>>

ToggleBreakPoint(f, line) ==
  LET set  == line \notin editor[f].index
      mark == IF set THEN AddMark(Marks(f), line) ELSE RemoveMark(Marks(f), line)
  IN
  /\ Open(f) /\ Len(dbg.pipe) < MaxPipe
  /\ Marked(f, mark)
  /\ fileBpMap' = [fileBpMap EXCEPT ![f] = IF set THEN @ \cup {line} ELSE @ \ {line}]
  /\ Sent(IF ~IsRunning THEN Sending
          ELSE IF set THEN InsertBreakPointHelper(Sending, f, line, FALSE)
          ELSE RemoveBreakPointHelper(Sending, f, line, FALSE))
  /\ Unheard(f, {line})
  /\ UNCHANGED <<server, client, dlv, sessions>>

\* removeBreakPoint of each line in turn: the first command makes the client
\* busy, so the others are dropped.
RemoveBreakPoints(s, f, lines) ==
  LET known == {line \in lines : Location(f, line) \in s.map}
      first == Min(known)
      rest  == {Location(f, line) : line \in known \ {first}}
      sent  == RemoveBreakPointHelper(s, f, first, FALSE)
  IN IF known = {} THEN s ELSE [sent EXCEPT !.map = @ \ rest, !.lost = @ \cup rest]

RemoveAllBreakPoints(f) ==
  LET listed == editor[f].index IN
  /\ Open(f) /\ Len(dbg.pipe) < MaxPipe
  /\ fileBpMap' = [fileBpMap EXCEPT ![f] = @ \ listed]
  /\ Sent(IF IsRunning THEN RemoveBreakPoints(Sending, f, listed) ELSE Sending)
  /\ Marked(f, [nodes |-> editor[f].nodes \ listed, index |-> {}])
  /\ Unheard(f, listed)
  /\ UNCHANGED <<server, client, dlv, sessions>>

-----------------------------------------------------------------------------
(* The session.                                                            *)

\* Mutant: m_locationBkMap outlives the session.
ClearKeepsMap(bks) == [dbg EXCEPT !.init = FALSE, !.bks = bks, !.busy = FALSE, !.pipe = <<>>]

\* clear.
Clear(bks) == [init |-> FALSE, bks |-> bks, map |-> {}, busy |-> FALSE, pipe |-> <<>>]

\* startDebug lists the breakpoints of the open editors anew; those of a
\* closed file of the directory it reads under a name nothing is saved under.
StartDebug ==
  LET bks == [f \in Files |-> IF Open(f) THEN editor[f].index
                              ELSE IF f \in InWork THEN {} ELSE fileBpMap[f]]
  IN
  /\ ~IsRunning /\ sessions < MaxSessions
  /\ sessions' = sessions + 1
  /\ fileBpMap' = bks
  /\ \/ server' = "starting" /\ dbg' = Clear(bks) /\ lost' = {}
        /\ holes' = UNION {Locations(f) : f \in {g \in Files : ~Open(g)}}
        /\ dlv' = [bps |-> {}, running |-> FALSE]
     \/ \* dlv is not found.
        dbg' = [dbg EXCEPT !.bks = bks] /\ UNCHANGED <<server, lost, holes, dlv>>
  /\ UNCHANGED <<editor, client>>

\* headlessReadStdOutput starts the client, unless an old one still runs.
ServerListens ==
  /\ server = "starting"
  /\ server' = "listening"
  /\ client' = IF client = "none" THEN "running" ELSE client
  /\ UNCHANGED <<editor, fileBpMap, dbg, dlv, sessions, lost, holes>>

\* insertBreakPointHelper of each breakpoint of the table, forced, so that none
\* is dropped; the break at main.main, if the user has chosen it; and continue.
InitDebug(s, main) ==
  LET known  == UNION {{Location(f, line) : line \in dbg.bks[f]} : f \in Files}
      order  == SetToSeq(known \ s.map)
      breaks == [i \in DOMAIN order |-> [op |-> "break", loc |-> order[i]]]
      sent   == IF client = "running"
                THEN [s EXCEPT !.pipe = @ \o breaks, !.lost = @ \ (known \ s.map)]
                ELSE [s EXCEPT !.lost = @ \cup (known \ s.map)]
      told   == [sent EXCEPT !.map = @ \cup known]
  IN Continue(IF main THEN CommandHelper(told, "break", NoLocation, TRUE) ELSE told, TRUE)

\* The first output of the client: readStdOutput calls initDebug, and takes
\* the output for an answer.
ClientGreets ==
  /\ client # "none" /\ ~dbg.init
  /\ \E main \in BOOLEAN :
       LET s == InitDebug(Sending, main) IN
       /\ dbg' = [dbg EXCEPT !.init = TRUE, !.map = s.map, !.pipe = s.pipe, !.busy = FALSE]
       /\ lost' = s.lost
  /\ UNCHANGED <<editor, fileBpMap, server, client, dlv, sessions, holes>>

\* Delve reads a command and answers; while the program runs it reads none.
\* It refuses to break where there is no code.  Any answer makes the client
\* ready, whatever else is outstanding.
Answers ==
  /\ client = "running" /\ server = "listening" /\ dbg.init
  /\ ~dlv.running /\ dbg.pipe # <<>>
  /\ LET c == Head(dbg.pipe) IN
     /\ \/ /\ dlv' = CASE c.op = "break" -> [dlv EXCEPT !.bps = @ \cup ({c.loc} \ {NoLocation})]
                       [] c.op = "clear" -> [dlv EXCEPT !.bps = @ \ {c.loc}]
                       [] c.op = "continue" -> [dlv EXCEPT !.running = TRUE]
           /\ UNCHANGED lost
        \/ /\ c.op = "break" /\ UNCHANGED dlv
           /\ lost' = lost \cup ({c.loc} \ {NoLocation})
     /\ dbg' = [dbg EXCEPT !.pipe = Tail(@), !.busy = IF c.op = "continue" THEN @ ELSE FALSE]
  /\ UNCHANGED <<editor, fileBpMap, server, client, sessions, holes>>

\* The program stops: at a breakpoint or after a step.
Stops ==
  /\ dlv.running
  /\ dlv' = [dlv EXCEPT !.running = FALSE]
  /\ dbg' = [dbg EXCEPT !.busy = FALSE]
  /\ UNCHANGED <<editor, fileBpMap, server, client, sessions, lost, holes>>

\* stop, with the processes as given: each goes, or is killed and goes later.
StopWith(s, c) ==
  /\ server' \in IF s = "none" THEN {"none"} ELSE {"none", "dying"}
  /\ client' \in IF c = "none" THEN {"none"} ELSE {"none", "dying"}
  /\ dbg' = [dbg EXCEPT !.pipe = <<>>]
  /\ dlv' = [bps |-> {}, running |-> FALSE]
  /\ lost' = {} /\ holes' = {}
  /\ UNCHANGED <<editor, fileBpMap, sessions>>

\* The user stops, or the client says that the program has exited.
StopDebug == IsRunning /\ server # "dying" /\ StopWith(server, client)

\* finished or errorOccurred: one process ends, and cleanup stops the other.
ProcessEnds ==
  \/ server # "none" /\ StopWith("none", client)
  \/ client # "none" /\ StopWith(server, "none")

\* continue, next, step and stepout.
ContinueRun ==
  /\ IsRunning /\ Len(dbg.pipe) < MaxPipe
  /\ Sent(Continue(Sending, FALSE))
  /\ UNCHANGED <<editor, fileBpMap, server, client, dlv, sessions, holes>>

\* A temporary breakpoint, put before continue and cleared behind it.  If the
\* user has one on the line, that one is cleared.
RunToLine(f, line) ==
  /\ Open(f) /\ IsRunning /\ Len(dbg.pipe) + 2 < MaxPipe
  /\ IF FindBreakPoint(Sending, f, line)
     THEN Sent(Continue(Sending, FALSE)) /\ UNCHANGED holes
     ELSE /\ Sent(RemoveBreakPointHelper(
                    Continue(InsertBreakPointHelper(Sending, f, line, TRUE), TRUE),
                    f, line, TRUE))
          /\ holes' = IF Location(f, line) \in dbg.map THEN holes \cup {Location(f, line)} ELSE holes
  /\ UNCHANGED <<editor, fileBpMap, server, client, dlv, sessions>>

Init ==
  /\ editor = [f \in Files |-> [open |-> FALSE, nodes |-> {}, index |-> {}]]
  /\ fileBpMap = [f \in Files |-> {}]
  /\ server = "none" /\ client = "none"
  /\ dbg = [init |-> FALSE, bks |-> [f \in Files |-> {}], map |-> {}, busy |-> FALSE, pipe |-> <<>>]
  /\ dlv = [bps |-> {}, running |-> FALSE]
  /\ sessions = 0 /\ lost = {} /\ holes = {}

Next ==
  \/ \E f \in Files : EditorCreated(f) \/ EditorAboutToClose(f) \/ RemoveAllBreakPoints(f)
  \/ \E f \in Files, line \in Lines :
       InsertsLine(f, line - 1) \/ RemovesLine(f, line) \/ ToggleBreakPoint(f, line)
       \/ RunToLine(f, line)
  \/ StartDebug \/ ServerListens \/ ClientGreets \/ Answers \/ Stops
  \/ StopDebug \/ ProcessEnds \/ ContinueRun

Spec == Init /\ [][Next]_vars

-----------------------------------------------------------------------------
(* Properties.                                                             *)

\* Every command has been read and answered.
Settled ==
  /\ client = "running" /\ server = "listening" /\ dbg.init
  /\ dbg.pipe = <<>> /\ ~dlv.running

\* The debugger has exactly the breakpoints m_locationBkMap names, but for the
\* places whose last command was dropped or refused: no session inherits one,
\* and a temporary one is gone when the program has stopped.
DebuggerAgrees ==
  Settled => \A f \in Files : \A loc \in Locations(f) \ lost :
               loc \in dlv.bps <=> loc \in dbg.map

\* The program stops where the editor says it does: at the lines the editor
\* lists, and at no other line of that file, but for lines toggled while the
\* debugger started, lines with a breakpoint that the user ran to, and files
\* edited or opened since the start.
StopsAtMarks ==
  Settled => \A f \in Files : Open(f) =>
               \A line \in Lines : Location(f, line) \notin holes \cup lost =>
                 (line \in editor[f].index <=> Location(f, line) \in dlv.bps)

\* The index never names a line without a mark: removing a breakpoint always
\* removes what the user sees, and a session stops at no line without one.
IndexWithinMarks == \A f \in Files : Open(f) => editor[f].index \subseteq editor[f].nodes

\* What makes them inductive, besides the types.  While a session starts or
\* runs, what delve will have when it has read what was written is what
\* m_locationBkMap names; and the index of an editor is, at the start, what was
\* listed, later what m_locationBkMap names.  Nothing is written to a client
\* that does not run, and one that runs has its server.
Places   == UNION {Locations(f) : f \in Files}
Commands == [op : {"break", "clear"}, loc : Places]
              \cup [op : {"break", "continue"}, loc : {NoLocation}]

DebugTypeOK ==
  /\ editor \in [Files -> [open : BOOLEAN, nodes : SUBSET Lines, index : SUBSET Lines]]
  /\ fileBpMap \in [Files -> SUBSET Lines]
  /\ server \in {"none", "starting", "listening", "dying"}
  /\ client \in {"none", "running", "dying"}
  /\ dbg \in [init : BOOLEAN, bks : [Files -> SUBSET Lines], map : SUBSET Places,
              busy : BOOLEAN, pipe : Seq(Commands)]
  /\ dlv \in [bps : SUBSET Places, running : BOOLEAN]
  /\ sessions \in 0..MaxSessions
  /\ lost \subseteq Places /\ holes \subseteq Places

Breaks(c, loc) == c.op = "break" /\ c.loc = loc
Clears(c, loc) == c.op = "clear" /\ c.loc = loc

\* Whether delve, which has bps, has one at loc when it has read the pipe.
WillHave(bps, pipe, loc) ==
  \/ \E i \in DOMAIN pipe : Breaks(pipe[i], loc)
                            /\ \A j \in DOMAIN pipe : j > i => ~Clears(pipe[j], loc)
  \/ loc \in bps /\ \A i \in DOMAIN pipe : ~Clears(pipe[i], loc)

InSession == server \in {"starting", "listening"}

WrittenToServed ==
  /\ client = "running" => server = "listening"
  /\ client # "running" => dbg.pipe = <<>>

PipeAgrees ==
  InSession => \A loc \in Places \ lost : WillHave(dlv.bps, dbg.pipe, loc) <=> loc \in dbg.map

Listed(f, line) ==
  IF dbg.init THEN Location(f, line) \in dbg.map ELSE line \in dbg.bks[f]

IndexAgrees ==
  InSession => \A f \in Files, line \in Lines : Location(f, line) \notin holes =>
                 /\ line \in editor[f].index <=> Listed(f, line)
                 /\ ~dbg.init => Location(f, line) \notin dbg.map

DebugInvariant ==
  /\ DebugTypeOK
  /\ IndexWithinMarks
  /\ WrittenToServed
  /\ PipeAgrees
  /\ IndexAgrees

\* Remove All BreakPoints of an editor, chosen while the program is stopped,
\* delve has answered every command and has every breakpoint the editor lists,
\* leaves it none of them once it has read what was written.
RemovesAll ==
  [][\A f \in Files :
       LET listed == {Location(f, line) : line \in editor[f].index} IN
       /\ Settled /\ ~dbg.busy /\ listed \subseteq dlv.bps \cap dbg.map
       /\ RemoveAllBreakPoints(f)
       => \A loc \in listed : ~WillHave(dlv'.bps, dbg'.pipe, loc)]_vars
=============================================================================
