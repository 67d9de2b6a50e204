----------------------------- MODULE GoplsRequests -----------------------------
(***************************************************************************)
(* The requests the gopls plugin makes of the server, and what it notes    *)
(* about each until the answer comes.  Each action is an action of         *)
(* GoplsSession with its effect on these notes, or a request or an answer. *)
(*                                                                         *)
(* The server may answer in any order.  An id is only ever compared for    *)
(* equality and never given twice, so a new request takes one that is not  *)
(* mentioned any more.  What a request tells the server about the document *)
(* first (changeDocument) is in GoplsDocuments: while the server is ready  *)
(* every open Go editor's document is open.                                *)
(***************************************************************************)
EXTENDS GoplsSession

CONSTANT MaxIds   \* bound: requests noted at one time

ASSUME RequestsAssumption == MaxIds \in Nat \ {0}

VARIABLES
  owed,     \* GoplsClient::m_requests: the ids the server has still to answer
  entries,  \* the tables from ids to editors: m_completionEditors,
            \* m_hintEditors, m_navigationEditors and m_editRequestEditors
  pending,  \* m_pendingCompletions and m_pendingHovers; 0: no entry
  crashed   \* a pointer to a closed editor has been followed to the end

noteVars == <<owed, entries, pending>>
reqVars     == <<sessionVars, noteVars, crashed>>

Ids     == 1..MaxIds
Methods == {"completion", "hover", "signatureHelp", "navigation", "location",
            "formatting", "edit", "executeCommand"}
Tables  == {"completion", "hint", "navigation", "edit"}
Kinds   == {"completion", "hover"}   \* of which an editor waits for the latest only

\* The table in which a request is noted; locations and commands are in none
\* that names an editor.  "edit" stands for rename and codeAction.
Table(method) ==
  CASE method = "completion" -> "completion"
    [] method \in {"hover", "signatureHelp"} -> "hint"
    [] method = "navigation" -> "navigation"
    [] method \in {"formatting", "edit"} -> "edit"
    [] OTHER -> "none"

Unmentioned == {i \in Ids : owed[i] = "none" /\ \A n \in entries : n.id # i}
NextId      == CHOOSE i \in Unmentioned : TRUE
IdAfter     == CHOOSE i \in Unmentioned \ {NextId} : TRUE

-----------------------------------------------------------------------------
(* The notes.                                                              *)

Notes(table, i) == {n \in entries : n.table = table /\ n.id = i}

\* GoplsClient::request; writeMessage loses it once stop has closed the pipe.
Asked(i, method) == [owed EXCEPT ![i] = IF running /\ ~stopping THEN method ELSE @]

Noted(i, method, e) ==
  IF Table(method) = "none" THEN {} ELSE {[id |-> i, table |-> Table(method), editor |-> e]}

\* A request of which any number may be under way.
Request(method, e) ==
  /\ Unmentioned # {}
  /\ owed' = Asked(NextId, method)
  /\ entries' = entries \cup Noted(NextId, method, e)
  /\ UNCHANGED pending

\* What is forgotten of the request before: the server is told to cancel it,
\* and will answer all the same.
Superseded(kind, e) == Notes(Table(kind), pending[kind][e])

\* A completion or a hover takes the place of the one before in its editor.
RequestLatest(kind, e) ==
  /\ Unmentioned # {}
  /\ owed' = Asked(NextId, kind)
  /\ entries' = (entries \ Superseded(kind, e)) \cup Noted(NextId, kind, e)
  /\ pending' = [pending EXCEPT ![kind][e] = NextId]

-----------------------------------------------------------------------------
(* The requests of the user.                                               *)

InGo == Idle /\ current \in open \cap GoEditors

\* completionRequested, a slot of the completers the plugin is connected to.
CompletionRequested ==
  /\ InGo /\ useFeatures /\ ready
  /\ current \in wiring.gopls
  /\ RequestLatest("completion", current)
  /\ UNCHANGED sessionVars

\* The tool tip of a word (eventFilter, hoverRequested).
HoverRequested ==
  /\ InGo /\ useFeatures /\ ready
  /\ RequestLatest("hover", current)
  /\ UNCHANGED sessionVars

\* requestHover where there is no word: the hover before is forgotten.
HoverNothing ==
  /\ InGo /\ useFeatures /\ ready
  /\ entries' = entries \ Superseded("hover", current)
  /\ pending' = [pending EXCEPT !.hover[current] = 0]
  /\ UNCHANGED <<sessionVars, owed>>

\* hoverRequested with the control key held: a hover and a definition.
NavigationRequested ==
  /\ InGo /\ useFeatures /\ ready
  /\ Unmentioned # {} /\ Unmentioned # {NextId}
  /\ owed' = [Asked(NextId, "hover") EXCEPT ![IdAfter] = Asked(IdAfter, "navigation")[IdAfter]]
  /\ entries' = (entries \ Superseded("hover", current))
                   \cup Noted(NextId, "hover", current)
                   \cup Noted(IdAfter, "navigation", current)
  /\ pending' = [pending EXCEPT !.hover[current] = NextId]
  /\ UNCHANGED sessionVars

\* editorContentsChanged after a parenthesis or a comma: requestSignatureHelp;
\* requestLocations; formatDocument; renameSymbol and organizeImports.  None
\* of them asks whether the features are on.
UserRequests ==
  /\ InGo /\ ready
  /\ \E method \in {"signatureHelp", "location", "formatting", "edit"} : Request(method, current)
  /\ UNCHANGED sessionVars

-----------------------------------------------------------------------------
(* The answers.                                                            *)

Answerable(i, methods) == Reads /\ ~initializing /\ owed[i] \in methods

Taken(i) == owed' = [owed EXCEPT ![i] = "none"]

\* The note is taken out of its table; if its editor is closed the pointer
\* is followed into freed memory, with or without consequence.
TakeNote(table, i) ==
  /\ entries' = entries \ Notes(table, i)
  /\ crashed' \in IF \E n \in Notes(table, i) : n.editor \notin open THEN BOOLEAN ELSE {FALSE}

Awaited(kind, i, e) == pending[kind][e] = i

\* Mutant of NoLonger: an answer that is of no use is still waited for.
NoLongerIfUsed(kind, i) ==
  [e \in Editors |-> IF e = current /\ Awaited(kind, i, e) THEN 0 ELSE pending[kind][e]]

\* The editors that waited for the answer wait no longer, whatever the answer.
NoLonger(kind, i) ==
  [e \in Editors |->
     IF Awaited(kind, i, e) /\ (\E n \in Notes(Table(kind), i) : n.editor = e)
       THEN 0 ELSE pending[kind][e]]

\* handleCompletionResponse: the list is shown if the editor is current and
\* the word is the same, which leaves the notes as they are.
CompletionAnswered(i) ==
  /\ Answerable(i, {"completion"}) /\ Taken(i)
  /\ entries' = entries \ Notes("completion", i)
  /\ pending' = [pending EXCEPT !.completion = NoLonger("completion", i)]
  /\ UNCHANGED <<sessionVars, crashed>>

\* handleHintResponse of a hover, which looks at the editor only if the hover
\* is the one waited for.
HoverAnswered(i) ==
  /\ Answerable(i, {"hover"}) /\ Taken(i)
  /\ entries' = entries \ Notes("hint", i)
  /\ pending' = [pending EXCEPT !.hover = NoLonger("hover", i)]
  /\ UNCHANGED <<sessionVars, crashed>>

\* handleHintResponse of a signature, handleLocationResponse of a link,
\* handleEditResponse of formatting: errors and empty results end before the
\* editor is looked at.
EditorAnswered(i) ==
  /\ Answerable(i, {"signatureHelp", "navigation", "formatting"}) /\ Taken(i)
  /\ TakeNote(Table(owed[i]), i)
  /\ UNCHANGED <<sessionVars, pending>>

\* handleEditResponse of rename and codeAction: the edits name files.  An
\* action may come as a command, which the server is asked to execute.
EditAnswered(i) ==
  /\ Answerable(i, {"edit"})
  /\ entries' = entries \ Notes("edit", i)
  /\ \/ Taken(i)
     \/ owed' = [owed EXCEPT ![i] = Asked(i, "executeCommand")[i]]
  /\ UNCHANGED <<sessionVars, pending, crashed>>

\* handleLocationResponse: a definition may be in another open editor.  The
\* jump that arrives while stop waits is left out.
LocationAnswered(i) ==
  /\ Answerable(i, {"location", "executeCommand"}) /\ Taken(i)
  /\ \/ UNCHANGED sessionVars
     \/ owed[i] = "location" /\ \E e \in Editors : ActivateEditor(e)
  /\ UNCHANGED <<entries, pending, crashed>>

Answered(i) ==
  \/ CompletionAnswered(i) \/ HoverAnswered(i) \/ EditorAnswered(i)
  \/ EditAnswered(i) \/ LocationAnswered(i)

-----------------------------------------------------------------------------
(* The actions of the session.                                             *)

\* Mutant of ClosedNotes: the completion of a closed editor stays noted.
ClosedNotesOfHover(e) == Superseded("hover", e)

\* What editorAboutToClose forgets with the editor.
ClosedNotes(e) == Superseded("completion", e) \cup Superseded("hover", e)

ReqCloseEditor(e, next) ==
  /\ CloseEditor(e, next)
  /\ entries' = entries \ ClosedNotes(e)
  /\ pending' = [kind \in Kinds |-> [pending[kind] EXCEPT ![e] = 0]]
  /\ UNCHANGED owed

\* Mutant of StoppedPending: the waits outlive the server.
StoppedPendingNot == pending

NothingPending == [kind \in Kinds |-> [e \in Editors |-> 0]]

StoppedPending == NothingPending

\* clientStopped forgets completions and links; hints and edits stay noted,
\* and are never asked for.
ReqProcessFinished(outcome) ==
  /\ ProcessFinished(outcome)
  /\ owed' = [i \in Ids |-> "none"]
  /\ entries' = {n \in entries : n.table \in {"hint", "edit"}}
  /\ pending' = StoppedPending

\* The other actions of the session leave the notes alone.  Save As, which is
\* a change of workspace as a switch of editors is, is left out, and gocode is
\* never found: neither touches the notes.
ReqOther ==
  /\ \/ \E e \in Editors : OpenEditor(e) \/ ActivateEditor(e)
     \/ \E outcome \in Outcomes : \/ AppLoaded(outcome) \/ EnableFeatures(outcome)
                                  \/ EnvironmentChanged(outcome, FALSE)
     \/ DisableFeatures
     \/ Initialized \/ InitializeFailed
  /\ UNCHANGED noteVars

ReqReturns == StopReturns(FALSE) /\ UNCHANGED noteVars

-----------------------------------------------------------------------------
ReqInit ==
  /\ Init
  /\ owed = [i \in Ids |-> "none"]
  /\ entries = {}
  /\ pending = NothingPending
  /\ crashed = FALSE

ReqNext ==
  /\ ~crashed
  /\ \/ \E i \in Ids : Answered(i)
     \/ /\ \/ CompletionRequested \/ HoverRequested \/ HoverNothing
           \/ NavigationRequested \/ UserRequests
           \/ \E e \in Editors, next \in Editors \cup {NoEditor} : ReqCloseEditor(e, next)
           \/ \E outcome \in Outcomes : ReqProcessFinished(outcome)
           \/ ReqOther \/ ReqReturns
        /\ UNCHANGED crashed

\* As in GoplsSession; and a server that runs answers what it is asked, also
\* what it is then told to cancel.
ReqKilledExits == ~crashed /\ stopping /\ \E outcome \in Outcomes : ReqProcessFinished(outcome)

ReqSpec == ReqInit /\ [][ReqNext]_reqVars

ReqFairSpec ==
  /\ ReqSpec
  /\ WF_reqVars(ReqKilledExits /\ UNCHANGED crashed)
  /\ WF_reqVars(~crashed /\ ReqReturns /\ UNCHANGED crashed)
  /\ \A i \in Ids : WF_reqVars(~crashed /\ Answered(i))

-----------------------------------------------------------------------------
(* Properties.                                                             *)

\* The tables that name each other agree and name open editors only, through
\* closings, later requests, late answers, stops and restarts: a completion
\* noted is the one its editor waits for, and what an editor waits for is
\* noted (completionRequested, requestHover, editorAboutToClose,
\* clientStopped and the two answers each change several of them).
TablesAgree ==
  /\ \A n \in entries : n.table = "completion" => pending.completion[n.editor] = n.id
  /\ \A kind \in Kinds, e \in Editors :
       pending[kind][e] # 0 =>
         e \in open /\ [id |-> pending[kind][e], table |-> Table(kind), editor |-> e] \in entries

\* An editor waits only for an answer that the server still owes: what was
\* asked of a server that is gone, or has been answered with an error, or has
\* not been used, is not waited for, and never cancelled a second time.
PendingIsOwed ==
  ~stopping =>
    \A kind \in Kinds, e \in Editors :
      pending[kind][e] # 0 => owed[pending[kind][e]] = kind

\* What makes the two inductive.  The types; a request is noted once, under
\* the method the server owes an answer to, if it was told; an editor waits
\* for a request of its own kind, and for none without a process.
Notings == [id : Ids, table : Tables, editor : Editors]

NotesTypeOK ==
  /\ owed \in [Ids -> Methods \cup {"none"}]
  /\ entries \subseteq Notings
  /\ pending \in [Kinds -> [Editors -> Ids \cup {0}]]

NotedOnce ==
  \A n \in entries :
    /\ owed[n.id] # "none" => Table(owed[n.id]) = n.table
    /\ \A m \in entries : m.id = n.id => m = n

PendingOfKind ==
  \A kind \in Kinds, e \in Editors :
    pending[kind][e] # 0 => running /\ owed[pending[kind][e]] \in {kind, "none"}

RequestsInvariant ==
  /\ SessionInvariant
  /\ NotesTypeOK
  /\ NotedOnce
  /\ PendingOfKind
  /\ TablesAgree
  /\ PendingIsOwed

\* Editor e waits for the answer to request i.
Waits(e, i) == \E kind \in Kinds : pending[kind][e] = i

\* No editor waits for ever: the answer comes, or a later request, or the end
\* of the server, whatever is opened, closed, stopped and restarted meanwhile.
NoneWaitsForEver ==
  \A e \in Editors, i \in Ids : Waits(e, i) ~> ~Waits(e, i) \/ crashed
=============================================================================
