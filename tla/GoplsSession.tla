----------------------------- MODULE GoplsSession -----------------------------
(***************************************************************************)
(* The life of the `gopls serve' process under the gopls plugin, and how   *)
(* the gopls and golangcode plugins share the completers of the editors.   *)
(*                                                                         *)
(* Everything runs on the GUI thread: a handler is one step, the slots it  *)
(* calls included.  The exception is GoplsClient::stop, which blocks in    *)
(* QProcess::waitForFinished while the process still delivers output and   *)
(* finally `finished'.  `caller' names the handler blocked there; its      *)
(* remaining slots run in StopReturns.                                     *)
(*                                                                         *)
(* PluginManager loads gopls before golangcode (both have no dependents,   *)
(* and a rank's plugins are taken in reverse order of their ids), so the   *)
(* gopls slot of a shared signal runs first.                               *)
(***************************************************************************)
EXTENDS Naturals

CONSTANTS
  Editors,        \* the editors that may be opened; each owns one completer
  GoEditors,      \* those of type text/x-gosrc
  NoEditor,       \* the null editor or completer
  Paths,          \* file paths
  InitialPath,    \* [Editors -> Paths]: the file an editor is opened on
  SaveAsPaths,    \* the paths the user may choose in Save As
  Keys,           \* workspace keys: a go.work, a go.mod or a root directory
  Key,            \* [Paths -> Keys]: what workspaceKey finds above a file
  RootKey,        \* workspaceRoot() when no editor is current
  NoKey           \* m_workspaceKey before the first editor

ASSUME SessionAssumption ==
  /\ GoEditors \subseteq Editors
  /\ NoEditor \notin Editors
  /\ InitialPath \in [Editors -> Paths]
  /\ SaveAsPaths \subseteq Paths
  /\ Key \in [Paths -> Keys]
  /\ RootKey \in Keys
  /\ NoKey \notin Keys

VARIABLES
  open,             \* EditorManager: the editors in tabs
  current,          \* EditorManager::m_currentEditor
  path,             \* the file path of each editor
  running,          \* QProcess::state() # NotRunning
  stopping,         \* GoplsClient::m_stopping
  initializing,     \* the initialize request is unanswered
  appLoaded,        \* GoplsPlugin::m_appLoaded
  useFeatures,      \* GoplsPlugin::m_useFeatures
  ready,            \* GoplsPlugin::m_ready
  active,           \* the property liteideGoplsActive, which golangedit reads
  workspaceKey,     \* GoplsPlugin::m_workspaceKey
  restartClient,    \* GoplsPlugin::m_restartClient
  completer,        \* GoplsPlugin::m_completer, named by its editor
  gocodeEnabled,    \* GolangCode::m_gocodeEnabled
  gocodeFound,      \* GolangCode::m_gocodeCmd is not empty
  gocodeCompleter,  \* GolangCode::m_completer, named by its editor
  wiring,           \* the completers in external mode, and whom each signals
  caller            \* the handler blocked in GoplsClient::stop

editorVars == <<open, current, path>>
clientVars == <<running, stopping, initializing>>
optionVars == <<appLoaded, useFeatures>>
pluginVars == <<ready, active, workspaceKey, restartClient>>
gocodeVars == <<gocodeEnabled, gocodeFound, gocodeCompleter>>
sessionVars == <<editorVars, clientVars, optionVars, pluginVars, completer,
                 gocodeVars, wiring, caller>>

Callers  == {"none", "switch", "environment", "option"}
Outcomes == {"missing", "failed", "started"}

\* The event loop is free: no handler waits in GoplsClient::stop.
Idle == caller = "none"

(***************************************************************************)
(* workspaceKey(): the nearest go.work or go.mod above the current file.   *)
(***************************************************************************)
CurrentKey(editor, paths) ==
  IF editor = NoEditor THEN RootKey ELSE Key[paths[editor]]

-----------------------------------------------------------------------------
(* The completers.  Both plugins act on the completer of an editor.        *)

\* Mutant of SetCompleter: external mode outlives the connection.
SetCompleterStaysExternal(w, old, new, enabled) ==
  LET left == w.gocode \ {old} IN
  IF enabled /\ new # NoEditor
    THEN [w EXCEPT !.external = @ \cup {new}, !.gocode = left \cup {new}]
    ELSE [w EXCEPT !.gocode = left]

\* GolangCode::setCompleter, from completer `old' to `new'.
SetCompleter(w, old, new, enabled) ==
  LET left == w.gocode \ {old} IN
  IF new = NoEditor
    THEN [w EXCEPT !.gocode = left]
    ELSE [w EXCEPT
           !.external = IF enabled THEN @ \cup {new} ELSE @ \ {new},
           !.gocode   = IF enabled THEN left \cup {new} ELSE left]

\* Mutant of SetGocodeEnabled: the flag alone is set.
SetGocodeEnabledFlagOnly(w, enabled) == w

\* GolangCode::setGocodeEnabled.
SetGocodeEnabled(w, enabled) ==
  IF gocodeEnabled = enabled THEN w
    ELSE SetCompleter(w, gocodeCompleter, gocodeCompleter,
                      enabled /\ gocodeFound)

\* The completer GolangCode::currentEditorChanged passes to setCompleter.
GocodeTarget(editor) == IF editor \in GoEditors THEN editor ELSE NoEditor

\* GolangCode::currentEditorChanged.
GocodeEditorChanged(w, editor, found) ==
  /\ gocodeCompleter' = GocodeTarget(editor)
  /\ wiring' = SetCompleter(w, gocodeCompleter, GocodeTarget(editor),
                            gocodeEnabled /\ found)

\* GoplsPlugin::configureCompleter.
ConfigureCompleter(w, editor, enabled) ==
  [w EXCEPT !.external = IF enabled THEN @ \cup {editor} ELSE @ \ {editor},
            !.gopls    = IF enabled THEN @ \cup {editor} ELSE @ \ {editor}]

\* What GoplsPlugin::currentEditorChanged makes of the completers: it lets
\* go of the one it held and takes the current Go editor's, if it serves.
GoplsClaim(editor, serving) ==
  IF serving /\ editor \in GoEditors THEN editor ELSE NoEditor

\* Mutant of GoplsRewire: the first completer is not connected.
GoplsRewireOnlyMoves(w, held, editor, serving) ==
  IF held = NoEditor THEN w
  ELSE ConfigureCompleter(ConfigureCompleter(w, held, FALSE), editor, serving)

GoplsRewire(w, held, editor, serving) ==
  LET released == IF held = NoEditor THEN w
                  ELSE ConfigureCompleter(w, held, FALSE)
  IN  IF GoplsClaim(editor, serving) = NoEditor THEN released
      ELSE ConfigureCompleter(released, editor, TRUE)

-----------------------------------------------------------------------------
(* GoplsClient.                                                            *)

\* GoplsPlugin::appLoaded with no process running: the look-up of the
\* program, GoplsClient::start and the initialize request.
StartClient(outcome) ==
  /\ running'      = (outcome = "started")
  /\ initializing' = (outcome = "started")
  /\ stopping'     = (stopping /\ outcome = "missing")

\* Mutant of BeginStop: nothing asks the process to exit.
BeginStopOnlyWaits(handler) ==
  /\ caller' = handler
  /\ UNCHANGED stopping

\* GoplsClient::stop up to its first wait.
BeginStop(handler) ==
  /\ stopping' = TRUE
  /\ caller' = handler

-----------------------------------------------------------------------------
(* GoplsPlugin: a workspace change restarts the server.                    *)

\* Mutant of LeavesWorkspace: only looked at with the features on.
LeavesWorkspaceWithFeatures(editor, paths) ==
  useFeatures /\ appLoaded /\ ready /\ CurrentKey(editor, paths) # workspaceKey

\* The test in GoplsPlugin::currentEditorChanged.
LeavesWorkspace(editor, paths) ==
  appLoaded /\ ready /\ CurrentKey(editor, paths) # workspaceKey

\* GoplsPlugin::workspaceChanged while the process runs.
RestartForWorkspace(key, handler) ==
  /\ workspaceKey' = key
  /\ ready' = FALSE
  /\ restartClient' = TRUE
  /\ BeginStop(handler)
  /\ UNCHANGED <<running, initializing>>

\* GoplsPlugin::currentEditorChanged, its effect on the completers aside.
\* `held' is m_completer when it runs, `features' is m_useFeatures.
GoplsEditorChanged(editor, paths, held, features, handler) ==
  \/ /\ LeavesWorkspace(editor, paths)
     /\ RestartForWorkspace(CurrentKey(editor, paths), handler)
     /\ completer' = held
  \/ /\ ~LeavesWorkspace(editor, paths)
     /\ workspaceKey' = CurrentKey(editor, paths)
     /\ completer' = GoplsClaim(editor, features /\ ready)
     /\ UNCHANGED <<ready, restartClient, clientVars, caller>>

\* The signal EditorManager::currentEditorChanged(editor): the gopls slot,
\* then the golangcode slot, which waits if the first one blocks in stop.
EmitCurrentEditorChanged(editor, paths, held) ==
  /\ GoplsEditorChanged(editor, paths, held, useFeatures, "switch")
  /\ IF LeavesWorkspace(editor, paths)
       THEN UNCHANGED <<wiring, gocodeCompleter>>
       ELSE GocodeEditorChanged(
              GoplsRewire(wiring, held, editor, useFeatures /\ ready),
              editor, gocodeFound)
  /\ UNCHANGED active

-----------------------------------------------------------------------------
(* EditorManager.                                                          *)

\* EditorManager::findEditor: openEditor returns the editor that has the file.
FindEditor(p) == {e \in open : path[e] = p}

\* EditorManager::addEditor: a new editor comes with a fresh completer.
OpenEditor(e) ==
  /\ Idle
  /\ e \notin open /\ FindEditor(InitialPath[e]) = {}
  /\ open' = open \cup {e}
  /\ path' = [path EXCEPT ![e] = InitialPath[e]]
  /\ wiring' = [external |-> wiring.external \ {e},
                gocode   |-> wiring.gocode \ {e},
                gopls    |-> wiring.gopls \ {e}]
  /\ UNCHANGED <<current, clientVars, optionVars, pluginVars, completer,
                 gocodeVars, caller>>

\* EditorManager::setCurrentEditor.
ActivateEditor(e) ==
  /\ Idle
  /\ e \in open \ {current}
  /\ current' = e
  /\ EmitCurrentEditorChanged(e, path, completer)
  /\ UNCHANGED <<open, path, optionVars, gocodeEnabled, gocodeFound>>

\* EditorManager::closeEditor: editorAboutToClose, then the removal of the
\* tab, which makes a neighbour current if the closed editor was current.
CloseEditor(e, next) ==
  /\ Idle
  /\ e \in open
  /\ open' = open \ {e}
  /\ IF e # current
       THEN /\ next = current
            /\ UNCHANGED <<current, clientVars, pluginVars, completer,
                           gocodeVars, wiring, caller>>
       ELSE /\ \/ next \in open \ {e}
               \/ open = {e} /\ next = NoEditor
            /\ current' = next
            /\ EmitCurrentEditorChanged(next, path, NoEditor)
            /\ UNCHANGED <<gocodeEnabled, gocodeFound>>
  /\ UNCHANGED <<path, optionVars>>

\* EditorManager::saveEditorAs: the editor moves to another file, and
\* currentEditorChanged is emitted although the editor stays current.
SaveEditorAs(p) ==
  /\ Idle
  /\ current # NoEditor
  /\ p \in SaveAsPaths \ {path[current]}
  /\ path' = [path EXCEPT ![current] = p]
  /\ EmitCurrentEditorChanged(current, path', completer)
  /\ UNCHANGED <<open, current, optionVars, gocodeEnabled, gocodeFound>>

-----------------------------------------------------------------------------
(* The signals of the application, the options and the environment.        *)

\* IApplication::loaded.
AppLoaded(outcome) ==
  /\ Idle
  /\ ~appLoaded
  /\ appLoaded' = TRUE
  /\ IF running THEN UNCHANGED clientVars ELSE StartClient(outcome)
  /\ UNCHANGED <<editorVars, useFeatures, pluginVars, completer, gocodeVars,
                 wiring, caller>>

\* GoplsPlugin::applyOption when the user has switched the features on.
EnableFeatures(outcome) ==
  /\ Idle
  /\ ~useFeatures
  /\ useFeatures' = TRUE
  /\ IF running
       THEN /\ active' = TRUE
            /\ gocodeEnabled' = FALSE
            /\ GoplsEditorChanged(current, path, completer, TRUE, "option")
            /\ LET paused == SetGocodeEnabled(wiring, FALSE) IN
               wiring' = IF LeavesWorkspace(current, path) THEN paused
                         ELSE GoplsRewire(paused, completer, current, ready)
            /\ UNCHANGED appLoaded
       ELSE /\ appLoaded' = TRUE
            /\ StartClient(outcome)
            /\ UNCHANGED <<pluginVars, completer, gocodeEnabled, wiring, caller>>
  /\ UNCHANGED <<editorVars, gocodeFound, gocodeCompleter>>

\* GoplsPlugin::applyOption when the user has switched the features off.
DisableFeatures ==
  /\ Idle
  /\ useFeatures
  /\ useFeatures' = FALSE
  /\ IF running
       THEN /\ BeginStop("option")
            /\ UNCHANGED <<pluginVars, completer, gocodeEnabled, wiring>>
       ELSE /\ gocodeEnabled' = TRUE
            /\ GoplsEditorChanged(current, path, completer, FALSE, "option")
            /\ wiring' = GoplsRewire(SetGocodeEnabled(wiring, TRUE),
                                     completer, current, FALSE)
            /\ UNCHANGED active
  /\ UNCHANGED <<editorVars, running, initializing, appLoaded, gocodeFound,
                 gocodeCompleter>>

\* IEnvManager::currentEnvChanged: the gopls slot (environmentChanged, which
\* is workspaceChanged), then the golangcode slot, which looks gocode up anew.
EnvironmentChanged(outcome, found) ==
  /\ Idle
  /\ IF appLoaded /\ running
       THEN /\ RestartForWorkspace(CurrentKey(current, path), "environment")
            /\ UNCHANGED <<gocodeFound, gocodeCompleter, wiring>>
       ELSE /\ IF appLoaded
                 THEN /\ workspaceKey' = CurrentKey(current, path)
                      /\ ready' = FALSE
                      /\ StartClient(outcome)
                 ELSE UNCHANGED <<workspaceKey, ready, clientVars>>
            /\ gocodeFound' = found
            /\ GocodeEditorChanged(wiring, current, found)
            /\ UNCHANGED <<restartClient, caller>>
  /\ UNCHANGED <<editorVars, optionVars, active, completer, gocodeEnabled>>

-----------------------------------------------------------------------------
(* The signals of the process, delivered by the event loop or in a wait.   *)

\* Output of the process is read: nothing of a new process reaches the
\* handler whose wait ended with the old one.
Reads == running /\ (Idle \/ stopping)

\* setLegacyCompletionEnabled(false) in GoplsPlugin::clientInitialized.
PauseGocode == gocodeEnabled' = (gocodeEnabled /\ ~useFeatures)

\* GoplsPlugin::clientInitialized: the answer to initialize.
Initialized ==
  /\ Reads
  /\ initializing
  /\ initializing' = FALSE
  /\ ready' = TRUE
  /\ workspaceKey' = CurrentKey(current, path)
  /\ active' = useFeatures
  /\ PauseGocode
  /\ completer' = GoplsClaim(current, useFeatures)
  /\ wiring' = GoplsRewire(
       IF useFeatures THEN SetGocodeEnabled(wiring, FALSE) ELSE wiring,
       completer, current, useFeatures)
  /\ UNCHANGED <<editorVars, running, stopping, optionVars, restartClient,
                 gocodeFound, gocodeCompleter, caller>>

\* GoplsClient::dispatch: the server answers initialize with an error.
InitializeFailed ==
  /\ Reads
  /\ initializing
  /\ initializing' = FALSE
  /\ UNCHANGED <<editorVars, running, stopping, optionVars, pluginVars,
                 completer, gocodeVars, wiring, caller>>

\* Mutant of StoppedWiring: gocode is enabled but not reconnected.
StoppedWiringOnlyReleases ==
  IF current # NoEditor THEN ConfigureCompleter(wiring, current, FALSE)
  ELSE wiring

\* The completers after GoplsPlugin::clientStopped: it resets the completer
\* of the editor that is current now, whichever one it held.
StoppedWiring ==
  LET released == IF completer # NoEditor /\ current # NoEditor
                  THEN ConfigureCompleter(wiring, current, FALSE)
                  ELSE wiring
  IN  SetGocodeEnabled(released, TRUE)

\* Mutants of ForgetServer, each without one of the resets.
ForgetServerButActive ==
  /\ ready' = FALSE
  /\ completer' = NoEditor
  /\ gocodeEnabled' = TRUE
  /\ UNCHANGED active
ForgetServerButGocode ==
  /\ ready' = FALSE
  /\ active' = FALSE
  /\ completer' = NoEditor
  /\ UNCHANGED gocodeEnabled

\* What GoplsPlugin::clientStopped takes back.
ForgetServer ==
  /\ ready' = FALSE
  /\ active' = FALSE
  /\ completer' = NoEditor
  /\ gocodeEnabled' = TRUE

\* QProcess::finished: GoplsClient::processFinished and, through stopped,
\* GoplsPlugin::clientStopped.  The process may exit at any time.
ProcessFinished(outcome) ==
  /\ Reads
  /\ ForgetServer
  /\ wiring' = StoppedWiring
  /\ restartClient' = FALSE
  /\ IF restartClient
       THEN /\ appLoaded' = TRUE
            /\ StartClient(outcome)
       ELSE /\ running' = FALSE
            /\ initializing' = FALSE
            /\ UNCHANGED <<stopping, appLoaded>>
  /\ UNCHANGED <<editorVars, useFeatures, workspaceKey, gocodeFound,
                 gocodeCompleter, caller>>

\* GoplsClient::stop returns: the process has finished, or the three waits
\* have timed out and it still runs.  The slots behind it follow.
StopReturns(found) ==
  /\ ~Idle
  /\ caller' = "none"
  /\ gocodeFound' = IF caller = "environment" THEN found ELSE gocodeFound
  /\ IF caller = "option"
       THEN UNCHANGED <<gocodeCompleter, wiring>>
       ELSE GocodeEditorChanged(wiring, current, gocodeFound')
  /\ UNCHANGED <<editorVars, clientVars, optionVars, pluginVars, completer,
                 gocodeEnabled>>

-----------------------------------------------------------------------------
Init ==
  /\ open = {}
  /\ current = NoEditor
  /\ path = InitialPath
  /\ running = FALSE
  /\ stopping = FALSE
  /\ initializing = FALSE
  /\ appLoaded = FALSE
  /\ useFeatures \in BOOLEAN
  /\ ready = FALSE
  /\ active = FALSE
  /\ workspaceKey = NoKey
  /\ restartClient = FALSE
  /\ completer = NoEditor
  /\ gocodeEnabled = TRUE
  /\ gocodeFound = FALSE
  /\ gocodeCompleter = NoEditor
  /\ wiring = [external |-> {}, gocode |-> {}, gopls |-> {}]
  /\ caller = "none"

UserStep ==
  \/ \E e \in Editors : OpenEditor(e)
  \/ \E e \in Editors : ActivateEditor(e)
  \/ \E e \in Editors, next \in Editors \cup {NoEditor} : CloseEditor(e, next)
  \/ \E p \in Paths : SaveEditorAs(p)
  \/ \E outcome \in Outcomes : AppLoaded(outcome)
  \/ \E outcome \in Outcomes : EnableFeatures(outcome)
  \/ DisableFeatures
  \/ \E outcome \in Outcomes, found \in BOOLEAN : EnvironmentChanged(outcome, found)

ProcessStep ==
  \/ Initialized
  \/ InitializeFailed
  \/ \E outcome \in Outcomes : ProcessFinished(outcome)

Returns == \E found \in BOOLEAN : StopReturns(found)

Next == UserStep \/ ProcessStep \/ Returns

Spec == Init /\ [][Next]_sessionVars

\* A process that has been asked to stop exits (stop ends with kill), and
\* stop itself returns (each of its waits has a timeout).
KilledExits == stopping /\ \E outcome \in Outcomes : ProcessFinished(outcome)

FairSpec ==
  /\ Spec
  /\ WF_sessionVars(KilledExits)
  /\ WF_sessionVars(Returns)

-----------------------------------------------------------------------------
(* Properties.                                                             *)

\* No stop is in progress, and none has given up on a process that still runs.
Settled == Idle /\ ~(running /\ stopping)

\* The type invariant.
Wirings == [external : SUBSET Editors, gocode : SUBSET Editors,
            gopls : SUBSET Editors]

TypeOK ==
  /\ open \subseteq Editors
  /\ current \in open \cup {NoEditor}
  /\ path \in [Editors -> Paths]
  /\ running \in BOOLEAN /\ stopping \in BOOLEAN /\ initializing \in BOOLEAN
  /\ appLoaded \in BOOLEAN /\ useFeatures \in BOOLEAN
  /\ ready \in BOOLEAN /\ active \in BOOLEAN /\ restartClient \in BOOLEAN
  /\ workspaceKey \in Keys \cup {NoKey}
  /\ completer \in Editors \cup {NoEditor}
  /\ gocodeEnabled \in BOOLEAN /\ gocodeFound \in BOOLEAN
  /\ gocodeCompleter \in Editors \cup {NoEditor}
  /\ wiring \in Wirings
  /\ caller \in Callers

\* However the process ended and whatever was in progress, once it is gone
\* the plugin claims nothing: gocode is enabled again, golangedit is told
\* so, and no completer is held (gopls/README.md: "If gopls is unavailable
\* or exits unexpectedly, gocode completion is restored").
GocodeRestored ==
  ~running => gocodeEnabled /\ ~active /\ ~ready /\ completer = NoEditor

\* A ready server with the features on has gocode paused, and golangedit
\* sees it active (clientInitialized against applyOption and clientStopped).
GocodePaused ==
  ready /\ useFeatures => ~gocodeEnabled /\ active

\* gocode hears no completer while it is paused, and otherwise only the one
\* it holds: no completer is ever answered by both plugins.
GocodeAlone ==
  wiring.gocode \subseteq IF gocodeEnabled THEN {gocodeCompleter} ELSE {}

\* Completion has one owner: the two together.
OneOwner == GocodePaused /\ GocodeAlone

\* Restoring gocode reaches the completer the user types in: with gocode
\* enabled and found, the current Go editor's completer signals gocode and
\* leaves the word list alone (setCompleter against configureCompleter).
GocodeServes ==
  Idle /\ gocodeEnabled /\ gocodeFound /\ current \in GoEditors
    => current \in wiring.gocode \cap wiring.external

\* What makes the invariants above inductive: a held completer means that
\* gocode is paused, a ready server knows the workspace of the current file,
\* and golangcode follows the current editor unless its slot is still to run
\* behind a switch or an environment change that blocks in stop.
HeldMeansPaused == completer # NoEditor => ~gocodeEnabled

KnowsWorkspace ==
  /\ running => appLoaded
  /\ ready => appLoaded /\ workspaceKey = CurrentKey(current, path)

GocodeFollows ==
  caller \in {"none", "option"} =>
    /\ gocodeCompleter = GocodeTarget(current)
    /\ gocodeEnabled /\ gocodeFound /\ current \in GoEditors
         => current \in wiring.gocode \cap wiring.external

\* A completer held that is not the current editor's is left over from a stop
\* that gave up; a ready server is connected also while a stop waits; and a
\* silenced completer has somebody to answer unless golangcode's slot, which
\* sees to it, is still to run, or the process, whose end sees to it.
HoldsCurrent == completer \in {current, NoEditor} \/ (running /\ stopping)

ServesCurrent ==
  ready /\ useFeatures /\ current \in GoEditors
    => completer = current /\ current \in wiring.gopls

SilentIsHeard ==
  caller \in {"none", "option"} /\ current \in GoEditors \cap wiring.external
    => IF gocodeEnabled THEN current \in wiring.gocode
       ELSE \/ running /\ stopping
            \/ useFeatures /\ ready /\ current \in wiring.gopls

SessionInvariant ==
  /\ TypeOK
  /\ GocodeRestored
  /\ GocodePaused
  /\ GocodeAlone
  /\ HeldMeansPaused
  /\ KnowsWorkspace
  /\ GocodeFollows
  /\ HoldsCurrent
  /\ ServesCurrent
  /\ SilentIsHeard

\* The current Go editor's completer is in external mode, which silences its
\* own word list, only if a plugin that can answer hears it.
NeverDeaf ==
  Settled /\ current \in GoEditors \cap wiring.external
    => \/ gocodeEnabled /\ current \in wiring.gocode
       \/ useFeatures /\ ready /\ current \in wiring.gopls

\* A ready server with the features on hears the current Go editor, and the
\* plugin holds that editor's completer (completionRequested dereferences it);
\* it never holds another one's, unless a stop gave up and the process still
\* runs.
GoplsServes ==
  /\ Settled => completer \in {current, NoEditor}
  /\ Idle /\ ready /\ useFeatures /\ current \in GoEditors
       => completer = current /\ current \in wiring.gopls

\* A server is never taken from one workspace to another: when the current
\* file's go.mod changes, the server is no longer ready (currentEditorChanged
\* compares with the key that clientInitialized and every switch recorded).
ReadyInOneWorkspace ==
  [][ready /\ ready' => CurrentKey(current', path') = CurrentKey(current, path)
    ]_sessionVars

\* Switching the features off gives completion back to gocode, however long
\* the process takes to die.
DisableRestores == ~useFeatures ~> gocodeEnabled \/ useFeatures

\* A restart that was asked for is carried out.
RestartDone == restartClient ~> ~restartClient
=============================================================================
