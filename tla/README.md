# TLA+ models of LiteIDE

LiteIDE (`src/liteidex`) is a Go IDE in C++ and Qt: an application, `liteapp`,
and some forty plugins that talk through interfaces in `api` and Qt signals.
This directory holds TLA+ modules for the parts of it where the order of
events matters, TLC configurations that check them on small instances, and
theorems about them checked by TLAPS. Paths below are relative to
`src/liteidex/src`.

## 1. Inventory

Nearly everything runs on the GUI thread, one handler at a time. What makes
the program hard is therefore not threads, of which there is one (the search),
but

* **nested event loops**: `QProcess::waitForFinished` and modal dialogs run
  inside a handler and deliver other signals before it goes on;
* **processes** (gopls, gocode, gofmt, gotools, go, dlv, programs being built
  and run) that answer late, exit at any time, or do not exit when asked;
* **shared signals**: several plugins answer `currentEditorChanged`,
  `currentEnvChanged`, `applyOption`, in an order that follows from the order
  in which the plugins were loaded;
* **the outside**: other programs change the files that are open.

| Component | State | Operations | Hard behaviours | What makes it correct |
|---|---|---|---|---|
| gopls session (`plugins/gopls`, with `plugins/golangcode`) | the process, `m_ready`, `m_stopping`, `m_workspaceKey`, `m_restartClient`, `m_completer`, `m_gocodeEnabled`, which completer signals whom | start, initialize, answer, error, blocking stop, exit, restart; editor switch, Save As, options, environment | exits and answers inside a blocking stop; features switched while starting or stopping; a stop that gives up | completion has one owner, which can answer; gocode comes back whatever ends gopls; no server crosses workspaces |
| gopls documents (`plugins/gopls`) | `m_openDocuments`, `m_documentVersions` | didOpen, didChange, didClose; edits by the user and the server; requests | restarts clear the tables, stops drop messages, a dialog outlives the server | the server sees the editors' texts; notifications are legal |
| gopls requests (`plugins/gopls`) | `m_requests`, four tables from ids to editors, the pending completion and hover of each editor | completion, hover, signature, definition, locations, formatting, rename, code action | late answers, answers out of order, editors closed and servers gone meanwhile | what an editor waits for is owed by the server that runs, and comes |
| gocode completion (`plugins/golangcode`) | process, prefix, pre-word, write buffer | prefixChanged, started, finished | restart in a nested wait; answers after an editor switch | a popup answers the word being typed |
| tabs and navigation (`liteapp/editormanager.cpp`) | editors, current editor, `m_navigationHistory`, position | open, switch, close, eviction, cursor moves, Backward, Forward | full history, deleted files, eviction inside Backward | Forward undoes Backward; recent locations are kept |
| reloading (`liteapp/filemanager.cpp`) | `m_fileWatcher`, `m_fileStateMap`, `m_changedFiles`, timer, `m_checkBlockActivated` | fileChanged, checkForReload, editor created, saved, closed, idle saving | changes during questions, replaced files, checks that find another running | no change is lost, no unsaved text either |
| loading by diff (`utils/editorutil`, `plugins/liteeditor`) | the text document | reload, format | hunks at both ends, empty lines, texts without a final newline | the document is the new text afterwards |
| plugin loading (`liteapp/pluginmanager.cpp`) | index of each plugin, the list | initPlugins, loadPlugins | chains of dependencies, missing and disabled plugins | a plugin is loaded after what it needs |
| build tasks (`plugins/litebuild`, `utils/processex`) | process, `m_suppressFinish`, user data with the task list | actions, chains, commands, kill old, stop | the old chain's finish inside the wait that kills it; crash and failure to start report twice; left-over lists | a chain runs in order and stops at the first error; one report for each start |
| debugging (`plugins/litedebug`, `plugins/dlvdebugger`, `plugins/liteeditor`) | marks and their index, breakpoint tables in two places, command pipe, delve's own | toggle, insert and delete lines, remove all, run to line, start, stop | commands dropped while busy; marks that move; sessions one after the other | the tables agree, the program stops at the marks |
| formatting (`plugins/golangfmt`) | process, its user data, options | save, format, finish | output for an older text; a save while the process runs | a diff is applied to the text it was made for |
| Go outline (`plugins/golangast`) | timer, process, widgets | switch, save, close, finish | starts while running, output for another editor | the outline becomes that of the current file |
| find in files (`plugins/litefind`, `plugins/golangedit`, `plugins/gopls`) | worker thread, usages process, request to gopls, one panel | search, stop, results, replace, revert | stop before start, a thread that is terminated, queued results, three sources for one panel | results belong to one run and are complete; replacing changes what is marked |
| others | | | | sequential or presentation; each is listed with its reason in `PROJECT.json` |

The components interact so: `EditorManager` emits `editorCreated`,
`currentEditorChanged`, `editorAboutToClose`, `editorSaved`; `FileManager`,
gopls, golangcode, golangfmt and golangast answer. `FileManager::openEditor`
is how all of them open an editor. The gopls plugin pauses golangcode through
`setGocodeEnabled` and tells golangedit through the application property
`liteideGoplsActive`. `IEnvManager::currentEnvChanged` reaches gopls first and
golangcode second. Both reloading and formatting end in the same diff loader.
LiteBuild saves, builds and hands the program to LiteDebug, which owns the
marks in the editors and one debugger at a time.

## 2. Modules

| Module | Models |
|---|---|
| `GoplsSession` | the gopls process under the plugin, and who owns the editors' completers |
| `GoplsDocuments` | extends it with the documents shown to the server |
| `TextSync` | abstract: what a language server may rely on; implemented by `GoplsDocuments` |
| `GoplsRequests` | extends the session with requests, answers and the tables that note them |
| `Navigation` | tabs and the history behind Backward and Forward |
| `FileReload` | FileManager's watch over open files |
| `DiffLoading` | the diff of two texts and its loading into a document, as functions |
| `BuildTasks` | LiteBuild's process, its actions, chains and commands |
| `EditorMarks` | operators on the marks of an editor and their index of lines |
| `DebugBreakpoints` | breakpoints between editors, LiteDebug, the delve client and delve |
| `PluginLoading` | the order of the plugins and the loop that loads them |
| `SearchResults` | the searches, their panel, Replace and Revert |
| `SearchRuns` | abstract: what the panel promises about runs of the thread; implemented by `SearchResults` |
| `GoTools` | formatting and the outline, two processes beside the editors |
| `...Proofs` | theorems about the module they are named for; `GoplsPluginProofs` about the three modules of gopls, `ToolProcessesProofs` about `BuildTasks` and `GoTools` |
| `MC...` | the instances TLC checks |

### GoplsSession

A handler is one action, with all the slots its signals reach, in their order:
`ActivateEditor` is `EditorManager::setCurrentEditor`, then
`GoplsPlugin::currentEditorChanged`, then `GolangCode::currentEditorChanged`.
That order is the order in which the plugins are loaded; that gopls comes before
golangcode is computed from the source's dependencies by `PluginLoading`
(`GoplsComesFirst`). (golangcode is built by `plugins/plugins.pro`;
`plugins/CMakeLists.txt` comments it out. The model is the qmake build.)

The exception to one action per handler is `GoplsClient::stop`, which blocks.
`caller` names the handler blocked in it; while it is not `"none"` only the
process may act (`Initialized`, `InitializeFailed`, `ProcessFinished`), and
`StopReturns` runs the slots that were still to come. `stop` may return with
the process alive, after its three waits of 500 ms have timed out.

A completer is named by its editor. `wiring` records, for each, whether it is
in external mode (its word list is silent) and which plugins its signal
reaches; `SetCompleter`, `ConfigureCompleter` and `GoplsRewire` are the code
that connects and disconnects. `Key` maps a path to the `go.work` or `go.mod`
above it, so a workspace change is a change of key. A file that an editor shows
(`FindEditor`) is not opened a second time.

### GoplsDocuments and TextSync

Each action of the session is conjoined with what it does to
`m_openDocuments`, `m_documentVersions` and the messages written; there are
additional actions for edits by the user, edits by the server, requests, and
the rename dialog. A text is the number of edits made to it. The pipe to the
server keeps order and loses nothing while it is open, so `srv` is what the
server knows when it has read everything; notifications written after `stop`
has begun are dropped. `TextSync` says that a document is opened at a positive
version, changes to higher versions only, and is closed; `GoplsDocuments`
implements it with `docs <- srv.docs`. Save As moves an editor under the server
(the old document stays open there), and the rename dialog may be accepted
after the server has gone: the history variable `strayed` notes the editors to
which this has happened since the last start, and the claims are about the
others.

### GoplsRequests

Each action of the session with its effect on the requests, and the requests
and answers themselves, the server answering in any order. `owed` is what the
server has still to answer, `entries` the four tables that name editors,
`pending` the completion and the hover each editor waits for. An id is only
compared for equality and never given twice, so a new request takes the least
one that is mentioned nowhere. The tables keep raw pointers: what happens to the
one of a closed editor when its answer comes is `crashed`, set by the answers
the code does not guard.

### Navigation

`nav` is the history, the position in it, and whether Backward and Forward
are enabled. `Added` is `addNavigationHistory`, its trimming loop in closed
form (`Trimmed`; the assumption `TrimmedIsLoop` of `MCNavigation`, which TLC
evaluates, compares it with the loop as written, `TrimLoop`). `WithHere` is
`updateCurrentPositionInNavigationHistory`. Which moves of the cursor are worth
a location, and the place noted before the move (`m_tempNavigationState`),
are nondeterministic. Opening one editor too many closes the leftmost tab; tabs
can be dragged, so it may be any. `trail` is a history variable: the locations
that Backward has left and Forward has not returned to. `IsHistory` is the
shape of the history: past its end the position stands only where there is room
for the entry that `WithHere` appends.

### FileReload and DiffLoading

The disk is part of the model: other programs write into a file, put another
in its place (`Replace`, after which `QFileSystemWatcher` watches it no more) or
delete it, at any time, also while `checkForReload` waits in a question.
`changed` is `m_changedFiles`; `sched` holds the pending single shots of the
timer and the wait for a change of focus; `check` is the running
`checkForReload` with the copy of the set it took, the file it asks about and
the answers for all files. `Edit`, `SaveEditor`, `CloseEditor`, `SaveEditorAs`
happen only between checks, as the questions are modal; `AppIdle` saves also
during a question, as the code does, any of the modified editors, as each save may
fail; a save that fails changes nothing, and an editor closed with one is lost as if
the answer had been no. The history variable `answered` says of each
file what the user has answered about it, and whether its editor came to it by
Save As (`moved`): such a file is not watched, so `StaleIsPending` speaks of the
others (`Followed`). Four constants (`SavesAs`, `Backdates`,
`ReloadFails`, `IdleSaves`) say what the user and the outside do.

`DiffLoading` is the data behind one of these steps: `FindLongestMatch`,
the matching blocks, the op codes, their groups and the lines of the unified
diff are the functions of `difflib.h`, and
`LoadDiff` carries the diff out as `EditorUtil::loadDiff` does, with the
counts it reads from a hunk's head and the beginning of a line by which it
decides whether a block is replaced or inserted. A text is the sequence of its
lines, and two lines may be alike in their beginning (`Similar`).

### BuildTasks

`proc` is the one `ProcessEx`, `tasks` the list in its user data; `handler` and
`wait` say which request's handler waits for the old process, and where. While a
handler waits only the process acts, and its end may start the next task of the
chain that is being killed, as `extFinish` is reported from the wait too. The
history variables `asked`, `failed` and `raced` hold the executions asked for,
those in which something failed, and whether a process succeeded although a
handler was stopping it. The build configurations are constants; chains as in
`deploy/litebuild/gosrc.xml` are what the instance has.

### EditorMarks and DebugBreakpoints

`EditorMarks` has the marks as the text blocks have them (`nodes`) and the index
of lines beside them, updated one mark after the other (`UpdateInTurn`),
which is where two marks can lose an entry. `UpdateMarksLineNumber` is its closed
form, on which the modules and the proofs build, and `UpdatedIsInTurn` of the
instance compares the two for every set of marks, line and shift. `DebugBreakpoints` sends what the
user does to the marks through `m_fileBpMap`, `m_locationBkMap` and the command
pipe, whose commands are dropped while an answer is outstanding unless forced.
`InitDebug` writes the breaks of the table, the one at `main.main` if the user has
chosen it, and continue. Delve may refuse any break (`Answers`), as it does where
there is no code. `lost` and `holes` are history variables: the places whose last
command was dropped or whose break delve refused, and those for which an index may
have lost its entry.

### PluginLoading

`DependIndex`, `Listed` and `Precedes` are `PluginManager::loadPlugins`: each
plugin counts down for each one that names it, and a `QMultiMap` gives those of
one index back last-in first-out, in falling order of their ids. `InitPlugin` is a
step of `LiteApp::initPlugins` through that list.

### SearchResults and SearchRuns

The thread is the one place with real concurrency: it posts events the GUI
thread takes one at a time, reads and writes `finding` without a lock, and may be
terminated at any step after the 200 ms `stop` waits. `handler` is the handler that
waits in `stop` or in one of the questions before Replace (nothing but white space
to replace with, a file that cannot be written), which run an event loop;
`FindInFiles` with no term stops the thread and starts none. The
thread, the usages process and the references of gopls all put their rows into
the one `panel`; the process also gives the panel its title, from its first line
(`UsagesHead`) and its error output (`UsagesError`). A text is a sequence of
tokens, each one UTF-16 unit and one position of the cursor: surrogate pairs and
combining marks, at which `QTextCursor` and `QString` count differently, are outside
the model (section 5). In the file, which is UTF-8, the tokens of `Wide` take two
bytes. The columns of the process are bytes, and `UsagesRows` converts them as
`findUsagesOutput` does, the first and not the second, so that its rows may be too
long. `SearchRuns` says what must remain of all this: the panel
never shows two runs of the thread together. `SearchResults` implements it.

### GoTools

`fmt` and `ast` are the two processes with what they have read; `format` are
golangfmt's options; `timer` is the second golangast waits after the last reason
to update. `overtaken` and `ignored` are history variables that name the two
cases in which the code has no answer: another text of the file was saved while
its formatter ran, and an update that fell into a run was ignored.

## 3. Runs

| Run | Instance and size | Shows |
|---|---|---|
| `gopls_session` | three editors, two of them Go in different workspaces; 112 thousand states | completion has one owner, which can answer; a server serves one workspace; under fairness features switched off give completion back and a restart happens |
| `gopls_documents` | two Go editors, Save As, the rename dialog; 1.4 million | a ready server has exactly the open Go editors' documents, versions and texts; traffic is legal; no document outlives its editor; `TextSync` is implemented |
| `gopls_requests` | two Go editors, two ids; 179 thousand | what an editor waits for is noted, owed, and not waited for for ever |
| `navigation` | three files in two tabs, history of four; 94 thousand | Forward undoes Backward, a full history loses only what is far, Backward leaves the position where the user is |
| `file_reload` | two files; 497 thousand | no change of an open file is lost, unsaved text goes only by the user's word, unmodified editors follow, and what they then show is the file |
| `build_tasks` | single actions, two chains that kill and one that does not, three executions | one report for each start, no task left behind, failed chains stay dead, chains run in order, every handler returns |
| `debug_breakpoints` | one file, two sessions; 1.2 million | what is sent arrives as the tables have it; the program stops at the lines the editor lists |
| `debug_remove_all` | one file, one session | *Violation.* With the program stopped, every command answered and both listed breakpoints in delve, Remove All BreakPoints sends the removal of the first and drops the other, which delve keeps |
| `plugin_loading` | four plugins, any acyclic dependencies | plugins with complete lists, and those nobody names, find what they name |
| `search_results` | two lines, two runs of the thread, one other search, one change | the panel shows one run; it is complete unless it was cut; replacing rows of Find in Files changes what they mark; the panel stops searching |
| `search_references` | the same, one run | *Violation.* References are shown, opened and replaced one line above |
| `go_tools` | two Go files, one of which does not parse; 497 thousand | a diff reaches another text only if that was saved meanwhile; the outline becomes that of the current file |

Properties worth knowing: `OneOwner` (while gopls is ready and its features are on gocode is
paused, and gocode hears no completer while it is paused, otherwise only the one it
holds), `NeverDeaf` (a silenced word list has somebody else answering),
`GoplsServes` (the completer the user types in reaches gopls, and the raw
pointer `m_completer` is the current editor's), `PendingIsOwed` (no editor waits
for an answer of a server that has gone, or one that has come and was not used), `StaleIsPending` (an editor that is
older than its file has a notice, a check or a question on its way),
`FailedStaysDead` (nothing of a chain runs after a task of it failed, though the
process reports from inside the wait that kills it), `StopsAtMarks`,
`FormatsWhatItRead`.

### Bounds

* gopls: two Go editors and one text editor cover a switch within and across
  workspaces and to a file that is no Go file; two workspaces suffice as a key
  is only compared for equality. The theorems hold for any number. In the
  documents, one edit of each text (`MaxEdits`) and versions up to 3 and 1
  (`MaxVersion`): the code adds to a version or starts it again, and never
  compares two, and an edit by the server counts twice. Save As chooses one path.
  In the requests, two ids under way at a time: two are enough for an answer to
  overtake another and for a request to supersede one.
* navigation: `Limit` 4 and `Half` 2 stand for 100 and 50; the code uses only
  their order. Four are enough for a history trimmed at either end with the
  position on both sides of `Half`; three files in two tabs make eviction
  happen; one file with two places distinguishes moves within a file from
  moves between files. One file can be deleted and come back.
* reloading: two files, so that a list with one file asked about and another
  waiting occurs, and `MaxClock` 3: two writes after the initial one, which is
  what it takes to replace a file, reload it, and replace it again. `SavesAs` and
  `IdleSaves` are on; `Backdates` and `ReloadFails`, which break `StaleIsPending`
  (section 5), are on in the theorems only. The texts compared by `DiffsLoad` are all
  those of one to three lines that are empty, alike or unlike, and longer ones
  that differ at both ends: with `Context` 2 instead of 3 five common lines
  separate two hunks. Two is not too little: at two or more a hunk followed by
  another ends with full context, which is what keeps a count read as zero
  harmless.
* building: three executions: a chain, what is started into its wait, and one
  that finds what they left.
* debugging: one file with two lines, three commands in the pipe (a forced
  command behind an answered and a dropped one), two sessions. That the marks
  follow lines inserted and deleted is evaluated on six lines (`MarksFollowLines`).
* plugins: four are enough for a chain of three and one beside it, and the CMake
  build's own lists are one of the builds.
* searching: two lines, the second with two hits and a token of two bytes between
  them, so that a replacement moves a row on its own line and the loop goes on to
  a later block; replacements that are empty, and longer than the term with the term
  in them; one edit or replacement; two runs of the thread, the least for mixing two.
  What holds after a second replacement (Revert) is inductive, and proved.
* tools: two Go files, one with two texts, one that does not parse.

Deadlock is checked except where the system really ends: plugin loading ends;
the search reaches its bounds; in `gopls_requests` a followed dangling pointer is
the end of the program. No symmetry is used.

### Fairness

* `GoplsSession`: `KilledExits`, a process asked to stop exits, since `stop`
  ends with `kill`; `Returns`, a blocked `stop` returns, since each of its waits
  has a timeout. Nothing is assumed of the user or of a server that was not
  asked to stop. `ProcessFinished` may happen without the wait having ended, and
  the wait may end without it.
* `GoplsRequests`: the same, and a running server answers each request it owes,
  as the protocol asks of it.
* `FileReload`: the event loop runs (timers and pending notices are
  delivered), `checkForReload` goes on, the user answers the questions and closes
  her dialogs, and, strongly, a change of focus comes when no dialog is
  open: `onApplicationFocusChange` is called whenever a dialog gives the focus
  back to a window.
* `BuildTasks`: a wait times out, a handler goes on after it, a dying process
  dies. Nothing is assumed of a process nobody stops.
* `SearchResults`: the thread runs and ends, `stop` returns or terminates it,
  posted events are delivered, the usages process ends.
* `GoTools`: the two processes end, and the user lets the timer have its
  second.

## 4. Theorems

For every value of the constants allowed by their assumptions:

The invariant of each proof is inductive as a whole; it was checked by TLC on the
instance of its run before it was proved. A lemma says what each action does to
each part of it.

**GoplsPluginProofs**, about `GoplsSession` (from `SessionAssumption`: the null editor is no editor,
paths have keys). `SessionInvariantHolds` is the core. The invariants the run
checks are not inductive alone. `GocodeServes` speaks of an idle event loop, and
a blocked stop must keep enough for the slot behind it to establish it; so
`GocodeFollows` says that golangcode follows the current editor unless the
blocked handler is one whose golangcode slot is still to come. `GocodeRestored`
needs `HeldMeansPaused`, and `ReadyInOneWorkspace` needs `KnowsWorkspace`: a
ready server's recorded key is that of the current file. `SessionInvariant` is
their conjunction with the type invariant and three parts about external mode:
the completer held is the current editor's, if any, unless a process that is being
stopped still runs (`HoldsCurrent`), a ready server with
its features on holds and hears it unless the gopls slot is still to come
(`ServesCurrent`), and a word list is silent only where somebody else hears, or a
slot that will see to it is still to run (`SilentIsHeard`). The proof has a
lemma for each part (`TypeStep`, `ClaimsStep`, `AloneStep`, `HeldStep`, `KnowsStep`,
`FollowsStep`, `HearsStep`) with one step for each action; the connecting and
disconnecting of completers is in lemmas of its own. `TypeCorrect`,
`GocodeRestoredHolds`, `OneOwnerHolds`, `GocodeServesHolds`, `GoplsServesHolds`,
`NeverDeafHolds` and `ReadyInOneWorkspaceHolds` follow.

**GoplsPluginProofs**, about `GoplsDocuments`. `DocumentsRefineSession`: each action conjoins one of the
session's or leaves the session alone, so `SessionInvariant` carries over. That
the server's documents are the editors' is inductive only with what holds while
it does not yet: before initialize is answered nothing is open (`ToldWhenReady`,
`OpenWhenReady`), a closed editor has no text (`ClosedAreBlank`), two open editors
have different paths (`Apart`; that is `EditorManager::findEditor`, and Save As is
what `strayed` is for), the dialog
belongs to an open editor (`DialogIsOpen`), and a ready server that was not led
astray has the version and text of each open Go editor and no other document
(`ServerAgrees`). From `DocumentsInvariant` follow `ServerMirrorsEditorsHolds`,
`LegalTrafficHolds` and `DocumentsOfOpenEditorsHolds`, and the refinement
`ImplementsTextSyncHolds`: for each action the change of `srv.docs` is an opening, a
change to a higher version, a closing, a restart, or nothing.

**GoplsPluginProofs**, about `GoplsRequests` (`ReqSpec`, without its fairness). `RequestsRefineSession`
as above. `RequestsInvariantHolds`: an id is noted once, in the table of what the
server owes for it (`NotedOnce`); what is waited for was asked of a process that runs,
and is owed in its own kind or was never told (`PendingOfKind`). The two claims, `TablesAgreeHolds` and
`PendingIsOwedHolds`, are parts of it: each action changes several tables at
once, and the lemmas about noting, dropping and superseding an entry say that
they change together.

**NavigationProofs** (from `NavigationAssumption`: places for every file, `Half`
under `Limit`). The invariant is `NavTypeOK` with `TrailAhead`. What makes the bounds
inductive is the last conjunct of `IsHistory`: the position reaches the
end of the history only where the history is under its limit, so that
`WithHere` can append. `TrimmedIs` says what the loop of `addNavigationHistory`
leaves, in terms of how many entries it drops in front; from it `AddedIs`, that a
location is added behind the latest `Half - 1` others, and
`GrownTwiceKeeps`, that two are added behind the latest of those. So
`KeepsRecentHolds`. `GoBackStep` and `GoForwardStep` take the three outcomes of
each travel in turn: `WithHere` touches only the entry at the position, a step
back makes that the first one ahead, and an entry dropped lies behind all of the
trail. `NavTypesHold`, `TrailAheadHolds` and `BackIsAtPositionHolds` follow.
`TrimmedByLoop` is about the loop itself: a round shortens what the rounds before
it left to the closed form of one entry less, so by induction on the rounds the loop
and `Trimmed` are the same for every history. It is a lemma about the form of the
model, and no action of the program takes part in it.

**FileReloadProofs** (from `FileReloadAssumption`: finitely many files, a positive
bound on the clock; older files and failing reloads included).
`ReloadTypeCorrect` first, which includes that a file asked about is in the list
being checked. Then `ChangesScheduledHolds`: the timer is started only by the
change that makes the set non-empty, so the proof shows that every step which
leaves the set non-empty either found it so, and keeps what was scheduled, or
schedules; the step that could break it is the check that gives up because
another runs, and `CheckEnds` starts the timer. `UnsavedKeptHolds` goes through
the steps that write no file: outside a check only the user's own closing
removes unsaved text, inside one only an answer for that file or for all.
`ChangedAreOpenHolds` assumes no Save As, which is what breaks it, and needs
`AskedWhileActive`: a list of files and a question belong to a running check, so
the user cannot close the editor under it. `StaleIsPendingHolds` assumes no older
files and no failing reloads, and allows Save As and idle saving. Its invariant
(`FollowingInvariant`) says of each file: no time is later than the clock; an editor
whose file was not moved by Save As has its time noted, and a file that differs from
its editor is later than that; unless somebody is about to look at it, the file is
there, watched, and has the editor's text or the one the user refused; and while the
user is asked about reloading it, either it is there and watched or a notice of its
change has come since (`FileFollowed`). The check
is taken file by file (`ListInTurn`, `CheckFileFollowed`, `AnswerFollowed`),
with lemmas for a file other than the one a step is about (`OtherFollowed`).

**ToolProcessesProofs**, about `BuildTasks` (from `BuildAssumption`: tasks have no tasks of their own,
and only the last of a chain may start no process, as in every configuration that
is shipped). `BuildInvariantHolds` joins the type invariant with what the user
data of the process says: the list is empty once the process has stopped or is
dying, and otherwise, unless a process succeeded while it was being stopped, the
rest of the chain of the task that runs (`InOrder`). `ReportsOnce`, `NothingStranded`,
`FailedChainsStop` and `ChainsInOrder` follow from it.

**ToolProcessesProofs**, about `GoTools` (from `GoToolsAssumption`, for any files and
texts). That a difference is applied to the text it was made for is no matter of the
step that applies it alone: the invariant (`FormatsFile`) says that an unmodified
editor holds its file, and that until another text is saved (`overtaken`) the file
holds what the process that formats it has read. What `FmtFinish` finds unmodified
is then what was read. `FormatsFileHolds`, with the types, and
`FormatsWhatItReadHolds`, an action property, follow.

**DebugBreakpointsProofs** (from `DebugAssumption`: finitely many files, and bounds
that are numbers; neither is fixed). `DebugInvariantHolds`: beside the types and
`IndexWithinMarks`, a client that runs has its server and nothing is in the pipe of
one that does not (`WrittenToServed`); what delve will have when it has read the pipe
(`WillHave`) is what `m_locationBkMap` has, but for the places in `lost`
(`PipeAgrees`); and an editor's index has what the table of the start has until the
session is initialized and what `m_locationBkMap` has after that, but for those in
`holes` (`IndexAgrees`). `PipeAgrees` is what makes the claim inductive while commands
are on their way. `AppendedWillHave`, `BreaksWillBeHad` and `ReadWillHave` say what
writing one command, writing those of a whole table and delve's reading do to it;
`CommandSends` and `CommandKeepsOthers` what `command_helper` does, and `InsertTells`,
`RemoveTells`, `PlacelessTells`, `RemoveBreakPointsTells` and `InitTells` that each of
its callers tells delve of what it does to the map or records the place as lost. A
break that is refused leaves the pipe without it and its place in `lost`. Of
several removals in one handler the first alone can be sent, as the client is busy
for the others; `InitTells` is the loop that is forced, in whatever order the
files come. With the
pipe empty `PipeAgrees` is `DebuggerAgreesHolds`, and with `IndexAgrees` it gives
`StopsAtMarksHolds`.

**PluginLoadingProofs** (from `PluginAssumption`: finitely many plugins, each with
its own place). `LoadInvariantHolds`: what was passed in the list comes before
what is still to come, and is loaded unless it may stay out. A plugin whose list has everything its dependencies name is named
by fewer than they are, by a lemma on cardinalities, so `CompleteListsSuffice`;
one nobody names has the index zero, so `LeavesAreSafe`.

**SearchRunsProofs** (of the abstract specification). `PanelInvariantHolds`:
between two starts the thread posts the results of one
run (`PostedTogether`), which after the last start is the one it is at
(`PostedLast`), and until the next start is delivered what is shown is of the run
whose results come next (`ShownComes`, `ShownLast`). `PanelShowsOneRun`
follows.

**SearchResultsProofs** (from `SearchAssumption`: the text and the replacements are
made of the tokens, and the bounds are numbers). `SearchTypesHold` needs what
the recursive functions of the model return: `Selected` selects, `Replace` leaves a
row for each it was given. `ImplementsSearchRunsHolds` takes each action to the step of
`SearchRuns` it is, or shows that it changes none of what `SearchRuns` sees; with the
theorem of `SearchRuns` that gives `PanelOfOneRun`. `CompleteUnlessCutHolds` has an
invariant of two parts: a run that is waited for or killed was told to stop, and only
one that was told to stops before its last line (`StopsIfCut`); and when what has
been posted since the last start will have been delivered, the panel will show what
the thread has found so far, or everything if it has ended (`WillBeWhole`). The
lemmas behind it say how the rows of a text fall into those of its lines.
`ReplacesWhatIsMarkedHolds` is about the rows of Find in Files, and about texts in
which each UTF-16 unit is one position of the cursor. It has `RowsInv`: every such row
that is shown, posted or kept for a question before a replacement, and is not
older than the text, sits in the text where it says (`Sits`); the rows of one run are
in turn and do not overlap (`InTurn`); the thread has passed the lines of the rows it
has posted (`Passed`); and the file it reads is the text or older (`FilesKnown`).
Rows of the other two searches are only kept apart from these (`OthersStand`,
`UsagesKeepRows`).
That `ReplaceDocument::replace` then changes what is marked and nothing else is an
induction over the rows, with its loop invariant (`RowsDone`, `LineDone`): the offset
is by how much the line has grown so far, so that a row further right on the same
line is where the offset says, whether the replacement is empty, longer than what it
replaces, or contains it. The same invariant, with the rows that `replace` returns,
is what the next Replace or Revert starts from. The recursive functions are unfolded
by lemmas on the least row for which the claim would fail.

Only model-checked: the liveness properties, which are out of the prover's reach
(`DisableRestores`, `RestartDone`, `NoneWaitsForEver`, `HandlerReturns`,
`AutoFollows`, `Settles`, `OutlineFollows`), and `ReloadShowsTheFile`. That one is an
induction over data through four recursive functions one upon the other, the first of
them recursive in four bounds (`MatchBlocks`); the argument used for
`ReplaceDocument::replace` has not been carried over to it, and the run compares the
texts of `MCTexts` only.

## 5. What the models show of behaviour that no document claims

Found while modelling. The two violations above are of something the repository
says; the rest is written down because the models have it as the code does, and
the properties are worded around it.

* **gopls session**: `applyOption` pauses gocode as soon as a process runs,
  before gopls has initialized, and an error answer to initialize leaves it paused
  until the process exits (`goplsplugin.cpp:325`, `goplsclient.cpp:157`), while
  with the features off initializing does not pause it (`goplsplugin.cpp:264`);
  `plugins/gopls/README.md:9` and `:10` are shorter. golangcode's slot runs after
  that of gopls and resets external mode on every switch to a Go editor, although
  gopls serves it (`golangcode.cpp:545`). A `stop` that gives up leaves
  `m_completer` pointing at an editor that may be closed later, since
  `editorAboutToClose` clears it only for the current editor
  (`goplsplugin.cpp:489`). `clientInitialized` records the key of the editor that
  is current then, not of the one the server was started for (256).
  `clientStopped` resets the completer of the current editor, not of the one held
  (279).
* **gopls documents**: after Save As (`editormanager.cpp:537`) the server keeps the
  old document and never hears of the new; two editors saved under one name open
  one document twice. The rename dialog (`goplsplugin.cpp:1097`), accepted after the
  server exited, makes the next server blind to the document.
* **gopls requests**: pointers of closed editors stay in `m_hintEditors` (for
  signature help), `m_navigationEditors` and `m_editRequestEditors`, and are followed
  when the answer comes (`goplsplugin.cpp:612–756`); hints and edits stay noted after
  the server has gone (286–295). Edits are applied to whatever the text is then
  (1005). `m_navigationHoverText` is stored by any hover and taken by the next
  definition's answer (673, 742). A completion whose word has grown is dropped and
  not asked again (541, 771). A definition answered while `stop` waits would switch
  editors inside the wait.
* **gocode**: `finished` uses `m_completer`, which a switch to a file that is not
  Go has set to null (`golangcode.cpp:682`, `518–556`).
* **navigation**: Forward to a file that does not open returns early
  (`editormanager.cpp:863`): the position has moved to an entry where the user is
  not, and the actions keep their old state. Backward that opens one editor too
  many and evicts the current one adds a location at the position it has just
  moved to. The loop that closes tabs (704) does not end while the user answers
  Cancel for the leftmost one.
* **reloading**: after Save As the new file is not watched
  (`editormanager.cpp:546`). Idle saving overwrites the change the user is being
  asked about, and Yes then reloads nothing (`filemanager.cpp:736`). A file put in
  place with an older modification time is reported and ignored, as line 715 asks
  for a later time. A reload that fails is noted as done (737). A write between
  loading a text and reading its time (555) is taken for our own; the model opens in
  one step. Yes to closing the editor of a deleted file is followed by a second
  question, whether to save it (`editormanager.cpp:437`).
* **loading by diff**: a diff that takes out every line of a text (the two have no
  line in common, and the last of the old is not like the first of the new) leaves
  an empty line at the end, while the editor is set unmodified
  (`editorutil.cpp:371–382`, `liteeditor.cpp:891`). The place of the cursor that
  `loadDiff` computes is overwritten by `restoreState` (`liteeditor.cpp:1463–1475`):
  the cursor stays at its line number.
* **plugins**: a plugin that is named as a dependency and not installed is a null
  factory, which the loop over the list follows (`pluginmanager.cpp:90`). In the qmake build
  golangast is named by two plugins and so comes before quickopen, which it names
  itself (`golangastplugin.h:54`) and of which it looks for the manager while loading
  (`golangastplugin.cpp:46`): its symbols are not registered there
  (`QmakeOutOfOrder`); the CMake build, without golangcode, is in order
  (`CMakeInOrder`).
* **building**: the action Stop may let the next task of a chain start, since the
  end of the process it interrupts may be an end without error.
* **debugging**: `litedebug.cpp:413` reads breakpoints from a cookie nobody
  writes, while they are saved in the settings. Run to line sends a line off by
  one (`dlvrpcdebugger.cpp:505–510`). Marks moved onto one another's old line lose
  their entry in the index (`liteeditormark.cpp:205`). A break that delve refuses stays
  a mark in the editor and a place in `m_locationBkMap`. What `RemovesAll` finds of
  Remove All happens to any command while another is unanswered: a toggle made then is
  lost too (`dlvrpcdebugger.cpp:514`).
* **formatting and outline**: with the process (not the default) the diff of the
  text that was sent is applied to whatever unmodified text the editor then holds,
  and saved (`golangfmt.cpp:295–350`); a second file saved meanwhile is not formatted
  (194–241). An outline that is due while the process runs is lost
  (`golangast.cpp:378–396`), and its output is shown in the editor that is current
  then (442–458).
* **searching**: rows of the three sources mix (`filesearchmanager.cpp:123–127`).
  The panel's Cancel is connected to nothing. The filter and the text are written
  while a thread told to stop may still run (`filesearch.cpp:237`). A regular
  expression that matches the empty text does not end (117–130). Revert of a search
  without case loses the case. The questions of Replace run an event loop in which
  other results arrive. A row of Find Usages is too long behind text that is not
  ASCII: its first column is turned from bytes into characters, its second is not
  (`golangfilesearch.cpp:213–231`), and Replace eats what follows the name.
  `movePosition` counts positions of the cursor where the columns and lengths of a row
  count UTF-16 units (`replacedocument.cpp:78–82`), so that behind a surrogate pair or
  a combining mark Replace is off. `ReplacesWhatIsMarked` leaves both out. What gotools
  writes to its error channel becomes the text the panel searches for (165–170).

## 6. Not modelled

Widgets, layout, settings and menus; the framing of LSP messages; parsing of
tool output; vendored libraries. The end of the application:
plugins are destroyed, processes killed. Editors without a file. Two editors on
one file (EditorManager opens a file once; Save As onto a file open in another
editor is left out). Every write has a modification time of its own: a clock too
coarse to tell two writes apart is not modelled. `waitForStarted` timing out with
a process that starts all the same. The contents of completion lists, hints and
diagnostics. gocode completion: the code has no guard that ties an answer to the
editor and the word, so there is no property to state. The class view, which
repeats the outline for a folder. The gdb and the text-mode delve back ends, which
share LiteDebug and differ in the syntax of their commands. Searching in several
files and directories. `PROJECT.json` lists every component with its reason. The
greater part of the source by lines is presentation: widgets, models for views,
dialogs, a terminal, an editor widget, tables of types.

## 7. What is left

Models: gocode completion, should its answers be tied to what they answer; the
gdb back end as a second implementation of what LiteDebug expects of a debugger.
