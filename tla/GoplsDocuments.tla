---------------------------- MODULE GoplsDocuments ----------------------------
(***************************************************************************)
(* The documents the gopls plugin shows the server.  Each action is an     *)
(* action of GoplsSession with its effect on m_openDocuments,              *)
(* m_documentVersions and the messages written to the server, or a step    *)
(* that changes only a text.                                               *)
(*                                                                         *)
(* The pipe to the server is reliable and ordered, so `srv' is what the    *)
(* server knows once it has read everything written to it.                 *)
(***************************************************************************)
EXTENDS GoplsSession

CONSTANTS
  DialogEditors,   \* the editors in which the user calls Rename Symbol
  MaxEdits,        \* bound: edits of one text
  MaxVersion       \* bound: versions of each document

ASSUME DocumentsAssumption ==
  /\ DialogEditors \subseteq GoEditors
  /\ MaxEdits \in Nat
  /\ MaxVersion \in [Editors -> Nat \ {0}]

VARIABLES
  text,              \* the text of each editor, numbered by its edits
  openDocuments,     \* GoplsPlugin::m_openDocuments
  documentVersions,  \* GoplsPlugin::m_documentVersions; 0: no entry
  srv,               \* the server's documents; what it was told wrongly
  dialog,            \* the editor whose rename dialog is open
  strayed            \* history variable: while this process runs, or before
                     \* it was started, an editor was saved under another
                     \* name or the dialog was accepted without a server

documentVars == <<openDocuments, documentVersions, srv>>
docVars == <<sessionVars, text, documentVars, dialog, strayed>>

Closed == [version |-> 0, text |-> 0]
Fresh  == [docs |-> [p \in Paths |-> Closed], illegal |-> FALSE]

-----------------------------------------------------------------------------
(* The notifications.  GoplsClient::writeMessage drops them when no process*)
(* runs, QProcess once stop has closed the write channel.                  *)

Written(after) == IF running /\ ~stopping THEN after ELSE srv

\* The server, told by a notification that is in order or not, now sees
\* document p as doc.
Told(p, doc, inOrder) ==
  Written([docs    |-> [srv.docs EXCEPT ![p] = doc],
           illegal |-> srv.illegal \/ ~inOrder])

IsOpen(p)         == srv.docs[p] # Closed
DidOpen(p, doc)   == Told(p, doc, ~IsOpen(p))
DidChange(p, doc) == Told(p, IF IsOpen(p) THEN doc ELSE Closed, IsOpen(p))
DidClose(p)       == Told(p, Closed, IsOpen(p))

\* Mutant of NextVersion: a change does not count.
NextVersionSame(e, n) ==
  IF e \in openDocuments THEN documentVersions[e] ELSE n

\* The version after n calls of changeDocument, the first of which opens a
\* document that is not open.
NextVersion(e, n) ==
  IF e \in openDocuments THEN documentVersions[e] + n ELSE n

\* A document starts at version 1 whenever it is opened.
FirstVersion(e) == 1

\* GoplsPlugin::changeDocument, called n times in a row on editor e, whose
\* text is t; openDocument if the document is not open.
ChangeDocument(e, t, n) ==
  LET doc == [version |-> NextVersion(e, n), text |-> t]
      p   == IF e \in open THEN path[e] ELSE InitialPath[e]   \* being opened
  IN
  /\ doc.version <= MaxVersion[e]
  /\ openDocuments' = openDocuments \cup {e}
  /\ documentVersions' = [documentVersions EXCEPT ![e] = doc.version]
  /\ srv' = IF e \in openDocuments THEN DidChange(p, doc)
                                   ELSE DidOpen(p, doc)

\* GoplsPlugin::openDocument of every editor in the set.
OpenDocuments(editors) ==
  LET opened  == (editors \cap GoEditors) \ openDocuments
      At(p)   == {e \in opened : path[e] = p}
      Doc(p)  == IF At(p) = {} THEN srv.docs[p]
                 ELSE LET e == CHOOSE e \in At(p) : TRUE
                      IN  [version |-> FirstVersion(e), text |-> text[e]]
      InOrder == /\ \A e \in opened : ~IsOpen(path[e])
                 /\ \A e, f \in opened : path[e] = path[f] => e = f
  IN  /\ openDocuments' = openDocuments \cup opened
      /\ documentVersions' = [e \in Editors |->
                               IF e \in opened THEN FirstVersion(e)
                               ELSE documentVersions[e]]
      /\ srv' = Written([docs    |-> [p \in Paths |-> Doc(p)],
                         illegal |-> srv.illegal \/ ~InOrder])

-----------------------------------------------------------------------------
(* The actions of the session.                                             *)

UserFree == dialog = NoEditor   \* the rename dialog is modal

\* editorCreated.  The text of a new editor is the file's, number 0.
DocOpenEditor(e) ==
  /\ UserFree
  /\ OpenEditor(e)
  /\ IF ready /\ e \in GoEditors
       THEN ChangeDocument(e, 0, 1)
       ELSE UNCHANGED documentVars
  /\ UNCHANGED <<text, dialog>>

\* workspaceChanged clears m_openDocuments.
ForgetIfLeft ==
  openDocuments' = IF ready /\ ~ready' THEN {} ELSE openDocuments

DocActivateEditor(e) ==
  /\ UserFree
  /\ ActivateEditor(e)
  /\ ForgetIfLeft
  /\ UNCHANGED <<text, documentVersions, srv, dialog>>

\* Mutant of WithoutClosed: only the current editor is dropped.
WithoutClosedIfCurrent(e) ==
  IF e = current THEN openDocuments \ {e} ELSE openDocuments

WithoutClosed(e) == openDocuments \ {e}

\* editorAboutToClose, before the neighbour becomes current.
DocCloseEditor(e, next) ==
  /\ UserFree
  /\ CloseEditor(e, next)
  /\ openDocuments' = IF ready /\ ~ready' THEN {} ELSE WithoutClosed(e)
  /\ documentVersions' = [documentVersions EXCEPT ![e] = 0]
  /\ srv' = IF e \in openDocuments THEN DidClose(path[e]) ELSE srv
  /\ text' = [text EXCEPT ![e] = 0]
  /\ UNCHANGED dialog

\* Nothing tells the server that the document has moved.
DocSaveEditorAs(p) ==
  /\ UserFree
  /\ SaveEditorAs(p)
  /\ ForgetIfLeft
  /\ strayed' = TRUE
  /\ UNCHANGED <<text, documentVersions, srv, dialog>>

DocAppLoaded(outcome) ==
  /\ UserFree
  /\ AppLoaded(outcome)
  /\ UNCHANGED <<text, documentVars, dialog>>

DocApplyOption(outcome) ==
  /\ UserFree
  /\ EnableFeatures(outcome) \/ DisableFeatures
  /\ ForgetIfLeft
  /\ UNCHANGED <<text, documentVersions, srv, dialog>>

\* environmentChanged.  Whether gocode is found makes no difference here.
DocEnvironmentChanged(outcome) ==
  /\ UserFree
  /\ EnvironmentChanged(outcome, FALSE)
  /\ openDocuments' = IF appLoaded THEN {} ELSE openDocuments
  /\ UNCHANGED <<text, documentVersions, srv, dialog>>

\* clientInitialized opens every editor's document.
DocInitialized ==
  /\ Initialized
  /\ OpenDocuments(open)
  /\ UNCHANGED <<text, dialog>>

DocInitializeFailed ==
  /\ InitializeFailed
  /\ UNCHANGED <<text, documentVars, dialog>>

\* Mutant of ForgetDocuments: they stay open for the next server.
ForgetDocumentsNot == UNCHANGED openDocuments

ForgetDocuments == openDocuments' = {}

\* clientStopped clears m_openDocuments; the server's documents go with it.
\* Two editors saved under one name are a document too many for any server.
DocProcessFinished(outcome) ==
  /\ ProcessFinished(outcome)
  /\ ForgetDocuments
  /\ strayed' = (\E e, f \in open : e # f /\ path[e] = path[f])
  /\ srv' = Fresh
  /\ UNCHANGED <<text, documentVersions, dialog>>

DocStopReturns ==
  /\ StopReturns(FALSE)
  /\ UNCHANGED <<text, documentVars, dialog>>

-----------------------------------------------------------------------------
(* The steps that change texts or talk about them.                         *)

\* Mutant of Edited: the change is reported before it is made.
EditedLate(e, calls) ==
  /\ text' = [text EXCEPT ![e] = @ + 1]
  /\ IF calls = 0 THEN UNCHANGED documentVars
     ELSE ChangeDocument(e, text[e], calls)

\* The text of e changes, and changeDocument is called `calls' times.
Edited(e, calls) ==
  /\ text' = [text EXCEPT ![e] = @ + 1]
  /\ IF calls = 0 THEN UNCHANGED documentVars
     ELSE ChangeDocument(e, text'[e], calls)

\* editorContentsChanged, after the user typed.
Edit(e) ==
  /\ Idle /\ UserFree
  /\ e \in open /\ text[e] < MaxEdits
  /\ Edited(e, IF ready /\ e \in GoEditors THEN 1 ELSE 0)
  /\ UNCHANGED <<sessionVars, dialog>>

\* serverRequest(workspace/applyEdit): applyTextEdits changes the text, which
\* calls editorContentsChanged, and then calls changeDocument itself.
ServerEdit(e) ==
  /\ Reads /\ ~initializing
  /\ e \in open \cap GoEditors /\ text[e] < MaxEdits
  /\ Edited(e, IF ready THEN 2 ELSE IF e \in openDocuments THEN 1 ELSE 0)
  /\ UNCHANGED <<sessionVars, dialog>>

\* The requests for the current editor (completion, hover, locations,
\* formatting, imports) first bring its document up to date.
DocRequest ==
  /\ Idle /\ UserFree
  /\ ready /\ current \in GoEditors
  /\ ChangeDocument(current, text[current], 1)
  /\ UNCHANGED <<sessionVars, text, dialog>>

\* renameSymbol up to QInputDialog::getText, whose event loop serves the
\* process but not the user.
RenameSymbol ==
  /\ Idle /\ UserFree
  /\ ready /\ current \in DialogEditors
  /\ dialog' = current
  /\ UNCHANGED <<sessionVars, text, documentVars>>

\* renameSymbol after the dialog: m_ready is not looked at again.
RenameAccepted ==
  /\ ~UserFree
  /\ ChangeDocument(dialog, text[dialog], 1)
  /\ dialog' = NoEditor
  /\ strayed' = (strayed \/ ~ready)
  /\ UNCHANGED <<sessionVars, text>>

RenameRejected ==
  /\ ~UserFree
  /\ dialog' = NoEditor
  /\ UNCHANGED <<sessionVars, text, documentVars>>

-----------------------------------------------------------------------------
DocInit ==
  /\ Init
  /\ text = [e \in Editors |-> 0]
  /\ openDocuments = {}
  /\ documentVersions = [e \in Editors |-> 0]
  /\ srv = Fresh
  /\ dialog = NoEditor
  /\ strayed = FALSE

\* The actions that may lead astray or back.
Straying ==
  \/ \E p \in Paths : DocSaveEditorAs(p)
  \/ RenameAccepted
  \/ \E outcome \in Outcomes : DocProcessFinished(outcome)

DocNext ==
  \/ Straying
  \/ /\ \/ \E e \in Editors : \/ DocOpenEditor(e) \/ DocActivateEditor(e)
                              \/ Edit(e) \/ ServerEdit(e)
        \/ \E e \in Editors, next \in Editors \cup {NoEditor} : DocCloseEditor(e, next)
        \/ \E outcome \in Outcomes : \/ DocAppLoaded(outcome) \/ DocApplyOption(outcome)
                                     \/ DocEnvironmentChanged(outcome)
        \/ DocInitialized \/ DocInitializeFailed \/ DocStopReturns
        \/ DocRequest
        \/ RenameSymbol \/ RenameRejected
     /\ UNCHANGED strayed

DocSpec == DocInit /\ [][DocNext]_docVars

-----------------------------------------------------------------------------
(* Properties.                                                             *)

\* The document state the plugin owns: a ready server has open exactly the
\* documents of the open Go editors, at the plugin's versions and with the
\* editors' texts (gopls/README.md: the plugin "owns the persistent gopls
\* serve process and the LSP document state for Go editors").  A restart of
\* the server brings this about again after Save As and the dialog.
ServerMirrorsEditors ==
  ready /\ ~stopping /\ ~strayed =>
    srv.docs = [p \in Paths |->
      IF \E e \in open \cap GoEditors : path[e] = p
      THEN LET e == CHOOSE e \in open \cap GoEditors : path[e] = p
           IN  [version |-> documentVersions[e], text |-> text[e]]
      ELSE Closed]

\* The server is never told of a change or a closing of a document that is
\* not open, nor of an opening of one that is, whatever restarts, blocked
\* stops and dropped writes come between.
LegalTraffic == strayed \/ ~srv.illegal

\* m_openDocuments holds no pointer to an editor that has been closed, even
\* when the rename dialog has been accepted without a server.
DocumentsOfOpenEditors == openDocuments \subseteq open \cap GoEditors

\* What makes the invariants above inductive.  The types; the dialog belongs to
\* an open editor; a text starts at 0 (the file's).
DocTypeOK ==
  /\ text \in [Editors -> 0..MaxEdits]
  /\ openDocuments \subseteq Editors
  /\ documentVersions \in [Editors -> Nat]
  /\ srv \in [docs    : [Paths -> [version : Nat, text : 0..MaxEdits]],
              illegal : BOOLEAN]
  /\ dialog \in DialogEditors \cup {NoEditor}
  /\ strayed \in BOOLEAN

DialogIsOpen == dialog # NoEditor => dialog \in open

ClosedAreBlank == \A e \in Editors \ open : text[e] = 0

\* No two open editors have one file, but by Save As.
Apart == ~strayed => \A e, f \in open : path[e] = path[f] => e = f

\* A server that is not ready has been told nothing, unless it is being
\* stopped; initialize is answered once.
ToldWhenReady ==
  /\ ready => ~initializing
  /\ ~running => srv = Fresh
  /\ ~strayed /\ ~ready => openDocuments = {}
  /\ ~strayed /\ ~ready /\ ~stopping => srv = Fresh

\* A ready plugin takes the documents of all open Go editors to be open; if
\* the server listens, it has just these.
OpenWhenReady == ready /\ ~strayed => openDocuments = open \cap GoEditors

ShownAs(e) == [version |-> documentVersions[e], text |-> text[e]]

ServerAgrees ==
  ready /\ ~stopping /\ ~strayed =>
    /\ \A e \in open \cap GoEditors :
         documentVersions[e] > 0 /\ srv.docs[path[e]] = ShownAs(e)
    /\ \A p \in Paths : IsOpen(p) => \E e \in open \cap GoEditors : path[e] = p

DocumentsInvariant ==
  /\ SessionInvariant
  /\ DocTypeOK
  /\ DialogIsOpen
  /\ ClosedAreBlank
  /\ Apart
  /\ ToldWhenReady
  /\ OpenWhenReady
  /\ ServerAgrees
  /\ LegalTraffic
  /\ DocumentsOfOpenEditors

\* While nothing has led it astray the server sees what a TextSync client may
\* show it.
Sync ==
  INSTANCE TextSync WITH
    Uris <- Paths, Texts <- 0..MaxEdits,
    docs <- IF strayed THEN [p \in Paths |-> Closed] ELSE srv.docs
ImplementsTextSync == Sync!Spec
=============================================================================
