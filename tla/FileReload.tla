------------------------------ MODULE FileReload ------------------------------
(***************************************************************************)
(* FileManager's watch over the files of open editors.  Other programs     *)
(* write, replace and delete the files; QFileSystemWatcher reports it;     *)
(* fileChanged collects the names and checkForReload, 200 ms later,        *)
(* reloads or closes the editors, asking the user where it must.           *)
(*                                                                         *)
(* A text is named by the write that made it.  What the user has typed     *)
(* since is only the flag `modified'.  Every write has a modification time *)
(* of its own; a missing file has time 0, as an invalid QDateTime comes    *)
(* before every other.  All pending single shots of checkForReload are     *)
(* one flag: one that finds nothing to do returns at once.                 *)
(***************************************************************************)
EXTENDS Integers, FiniteSets

CONSTANTS
  Files,       \* the files the user works on
  MaxClock,    \* bound: no more writes than this
  Nowhere,     \* no file is being asked about
  SavesAs,     \* may the user save an editor under another name?
  Backdates,   \* may another program put an older file in place?
  ReloadFails, \* may a file be there and not be readable?
  IdleSaves    \* m_isAutoIdleSaveDocuments

ASSUME FileReloadAssumption ==
  /\ IsFiniteSet(Files) /\ Nowhere \notin Files
  /\ MaxClock \in Nat \ {0}
  /\ {SavesAs, Backdates, ReloadFails, IdleSaves} \subseteq BOOLEAN

VARIABLES
  disk,     \* the files: whether each exists, its text and its time
  clock,    \* the number of writes
  notices,  \* what QFileSystemWatcher has seen and not yet reported
  watched,  \* m_fileWatcher->files()
  known,    \* m_fileStateMap
  changed,  \* m_changedFiles
  sched,    \* a check is due by timer, or at the next change of focus
  check,    \* the running checkForReload, if m_checkBlockActivated
  buffer,   \* the editors, by file: the text loaded or saved last, and
            \* whether it was modified since
  auto,     \* m_fileWatcherAutoReload
  modal,    \* another modal dialog is open
  answered  \* history variable: the text the user has refused to load, whether
            \* she has kept the editor of a deleted file, and whether the editor
            \* has moved to this file by Save As, of which FileManager is not told

watch == <<notices, watched, known, changed>>
vars  == <<disk, clock, watch, sched, check, buffer, auto, modal, answered>>

Texts   == 0..MaxClock
Unknown == -1
Closed  == [open |-> FALSE, base |-> 0, modified |-> FALSE]
Missing == [exists |-> FALSE, text |-> 0, time |-> 0]
NoAnswer == [refused |-> 0, kept |-> FALSE, moved |-> FALSE]
Resting  == [active |-> FALSE, queue |-> {}, file |-> Nowhere, about |-> "nothing",
             reloadAll |-> FALSE, closeAll |-> FALSE]

-----------------------------------------------------------------------------
(* Other programs, and QFileSystemWatcher.                                 *)

\* A watched file is reported; one that was removed or replaced is no longer
\* watched, and nothing more is seen of it.
Seen(f, what) ==
  notices' = IF f \in watched /\ notices[f] # "removed"
             THEN [notices EXCEPT ![f] = what] ELSE notices

\* Another program puts a new text at f, with time t.
Put(f, t) ==
  /\ clock < MaxClock
  /\ clock' = clock + 1
  /\ disk' = [disk EXCEPT ![f] = [exists |-> TRUE, text |-> clock + 1, time |-> t]]

\* It writes into the file, puts another in its place, or deletes it.
Write(f)   == disk[f].exists /\ Put(f, clock + 1) /\ Seen(f, "changed")
Replace(f) ==
  /\ \E t \in 1..(clock + 1) : (t <= clock => Backdates /\ t < disk[f].time) /\ Put(f, t)
  /\ Seen(f, "removed")
Remove(f) ==
  /\ disk[f].exists
  /\ disk' = [disk EXCEPT ![f] = Missing]
  /\ Seen(f, "removed")
  /\ UNCHANGED clock

Elsewhere ==
  /\ \E f \in Files : Write(f) \/ Replace(f) \/ Remove(f)
  /\ UNCHANGED <<watched, known, changed, sched, check, buffer, auto, modal, answered>>

\* QFileSystemWatcher::addPath fails for a file that does not exist.
AddPath(w, d, f) == IF d[f].exists THEN w \cup {f} ELSE w

-----------------------------------------------------------------------------
(* What happens to an editor.  These operators say what becomes of disk,   *)
(* clock, notices, watched, known, changed, buffer and answered.           *)

\* FileManager::editorAboutToClose.
Release(f) ==
  /\ known' = [known EXCEPT ![f] = Unknown]
  /\ watched' = watched \ {f}
  /\ changed' = changed \ {f}

Untouched == UNCHANGED <<disk, clock, notices, watched, known, changed, buffer, answered>>

\* EditorManager::saveEditor of the editors fs; FileManager::editorSaved
\* follows each.
Save(fs) ==
  /\ clock + Cardinality(fs) <= MaxClock
  /\ \E order \in [fs -> (clock + 1)..(clock + Cardinality(fs))] :
       /\ \A f, g \in fs : order[f] = order[g] => f = g
       /\ disk' = [f \in Files |-> IF f \in fs
                     THEN [exists |-> TRUE, text |-> order[f], time |-> order[f]]
                     ELSE disk[f]]
       /\ known' = [f \in Files |-> IF f \in fs THEN order[f] ELSE known[f]]
       /\ buffer' = [f \in Files |-> IF f \in fs
                       THEN [open |-> TRUE, base |-> order[f], modified |-> FALSE]
                       ELSE buffer[f]]
  /\ clock' = clock + Cardinality(fs)
  /\ notices' = [f \in Files |-> IF f \in fs \cap watched /\ notices[f] = "nothing"
                                 THEN "changed" ELSE notices[f]]
  /\ watched' = watched \cup fs
  /\ answered' = [f \in Files |-> IF f \in fs THEN NoAnswer ELSE answered[f]]
  /\ UNCHANGED changed

\* The editor of f is removed, and not saved before.
Discard(f) ==
  /\ buffer' = [buffer EXCEPT ![f] = Closed]
  /\ answered' = [answered EXCEPT ![f] = NoAnswer]
  /\ Release(f)
  /\ UNCHANGED <<disk, clock, notices>>

\* It is saved and removed.
SaveAndClose(f) ==
  /\ clock < MaxClock
  /\ clock' = clock + 1
  /\ disk' = [disk EXCEPT ![f] = [exists |-> TRUE, text |-> clock + 1, time |-> clock + 1]]
  /\ Seen(f, "changed")
  /\ buffer' = [buffer EXCEPT ![f] = Closed]
  /\ answered' = [answered EXCEPT ![f] = NoAnswer]
  /\ Release(f)

-----------------------------------------------------------------------------
(* checkForReload.                                                         *)

\* The event loop runs: no handler does, or one waits in a dialog.
EventLoop == ~check.active \/ check.file # Nowhere

\* Mutant of Due: m_changedFiles is not looked at before the insertion.
DueNot(before, after) == FALSE

\* fileChanged starts the timer when the first name comes in.
Due(before, after) == before = {} /\ after # {}

\* FileManager::fileChanged.
FileChanged(f) ==
  /\ EventLoop
  /\ notices[f] # "nothing"
  /\ notices' = [notices EXCEPT ![f] = "nothing"]
  /\ watched' = IF notices[f] = "removed" THEN watched \ {f} ELSE watched
  /\ changed' = IF known[f] # Unknown THEN changed \cup {f} ELSE changed
  /\ sched' = [sched EXCEPT !.timer = @ \/ Due(changed, changed')]
  /\ UNCHANGED <<disk, clock, known, check, buffer, auto, modal, answered>>

\* The beginning of checkForReload, with s left of what was due.
CheckForReload(s) ==
  /\ IF changed = {} \/ check.active
     THEN sched' = s /\ UNCHANGED <<changed, check>>
     ELSE IF modal
     THEN sched' = [s EXCEPT !.onFocus = TRUE] /\ UNCHANGED <<changed, check>>
     ELSE /\ check' = [Resting EXCEPT !.active = TRUE, !.queue = changed]
          /\ changed' = {}
          /\ sched' = s
  /\ UNCHANGED <<disk, clock, notices, watched, known, buffer, auto, modal, answered>>

TimerFires  == EventLoop /\ sched.timer /\ CheckForReload([sched EXCEPT !.timer = FALSE])
FocusChange == EventLoop /\ sched.onFocus /\ CheckForReload([sched EXCEPT !.onFocus = FALSE])

\* Mutant of MustAsk: the unsaved changes are not looked at.
MustAskNot(f, all) == ~all /\ ~auto

\* A question is due unless `all' were answered at once or the option is to
\* act without one, and nothing would be lost.
MustAsk(f, all) == ~all /\ (auto => buffer[f].modified)

Ask(f, about) == check' = [check EXCEPT !.file = f, !.about = about]

\* The loop goes on with the next file.
Handled(f) == check' = [check EXCEPT !.queue = @ \ {f}, !.file = Nowhere, !.about = "nothing"]

\* The answer for the remaining files is noted.
HandledAll(f, forReload, forClose) ==
  check' = [check EXCEPT !.queue = @ \ {f}, !.file = Nowhere, !.about = "nothing",
                         !.reloadAll = @ \/ forReload, !.closeAll = @ \/ forClose]

\* The editor is reloaded unless the time is the one known by now; the time
\* is noted whether or not the file could be read.
Reload(f) ==
  IF disk[f].time = known[f] THEN UNCHANGED <<known, buffer, answered>>
  ELSE /\ known' = [known EXCEPT ![f] = disk[f].time]
       /\ \/ /\ disk[f].exists
             /\ buffer' = [buffer EXCEPT ![f] =
                             [open |-> TRUE, base |-> disk[f].text, modified |-> FALSE]]
             /\ answered' = [answered EXCEPT ![f] = NoAnswer]
          \/ /\ disk[f].exists => ReloadFails
             /\ UNCHANGED <<buffer, answered>>

\* Mutant of Rewatched: a file that was replaced is not watched again.
RewatchedNot(f) == UNCHANGED watched

\* A file that exists is watched again, if it was replaced.
Rewatched(f) == watched' = AddPath(watched, disk, f)

\* One file of the list.
CheckMissing(f) ==
  /\ ~disk[f].exists
  /\ IF known[f] = Unknown \/ ~buffer[f].open THEN Handled(f) /\ Untouched
     ELSE IF MustAsk(f, check.closeAll) THEN Ask(f, "close") /\ Untouched
     ELSE IF buffer[f].modified THEN Ask(f, "save") /\ Untouched
     ELSE Handled(f) /\ Discard(f)

CheckPresent(f) ==
  /\ disk[f].exists
  /\ IF known[f] = Unknown \/ ~buffer[f].open THEN Handled(f) /\ Untouched
     ELSE /\ Rewatched(f)
          /\ IF disk[f].time <= known[f]
             THEN Handled(f) /\ UNCHANGED <<known, buffer, answered>>
             ELSE IF MustAsk(f, check.reloadAll)
             THEN Ask(f, "reload") /\ UNCHANGED <<known, buffer, answered>>
             ELSE Handled(f) /\ Reload(f)
          /\ UNCHANGED <<disk, clock, notices, changed>>

CheckFile(f) ==
  /\ check.file = Nowhere /\ f \in check.queue
  /\ CheckMissing(f) \/ CheckPresent(f)
  /\ UNCHANGED <<sched, auto, modal>>

CheckEnds ==
  /\ check.active /\ check.queue = {}
  /\ check' = Resting
  /\ sched' = [sched EXCEPT !.timer = TRUE]
  /\ Untouched /\ UNCHANGED <<auto, modal>>

\* The user answers the question whether to reload f.
ReloadYes(f, all) ==
  /\ check.file = f /\ check.about = "reload"
  /\ HandledAll(f, all, FALSE)
  /\ Reload(f)
  /\ UNCHANGED <<disk, clock, notices, watched, changed, sched, auto, modal>>

ReloadNo(f) ==
  /\ check.file = f /\ check.about = "reload"
  /\ Handled(f)
  /\ answered' = [answered EXCEPT ![f].refused = disk[f].text]
  /\ UNCHANGED <<disk, clock, watch, buffer, sched, auto, modal>>

\* The user answers the question whether to close the editor of f.
CloseYes(f, all) ==
  /\ check.file = f /\ check.about = "close"
  /\ IF buffer[f].modified
     THEN /\ check' = [check EXCEPT !.about = "save", !.closeAll = @ \/ all]
          /\ Untouched
     ELSE HandledAll(f, FALSE, all) /\ Discard(f)
  /\ UNCHANGED <<sched, auto, modal>>

\* The editor stays, also when the question to save is cancelled.
Keep(f) ==
  /\ check.file = f /\ check.about \in {"close", "save"}
  /\ Handled(f)
  /\ answered' = [answered EXCEPT ![f].kept = TRUE]
  /\ UNCHANGED <<disk, clock, watch, buffer, sched, auto, modal>>

\* EditorManager::closeEditor asks whether to save; the answer is yes or no.
\* The editor goes although the save fails, as if the answer were no.
CloseAnswered(f) ==
  /\ check.file = f /\ check.about = "save"
  /\ Handled(f)
  /\ SaveAndClose(f) \/ Discard(f)
  /\ UNCHANGED <<sched, auto, modal>>

Answer(f) ==
  \/ \E all \in BOOLEAN : ReloadYes(f, all) \/ CloseYes(f, all)
  \/ ReloadNo(f) \/ Keep(f) \/ CloseAnswered(f)

-----------------------------------------------------------------------------
(* The user, between the checks.                                           *)

Free == ~check.active /\ ~modal

\* A file is opened: its text is loaded, then its time noted.
OpenEditor(f) ==
  /\ Free /\ ~buffer[f].open /\ disk[f].exists
  /\ buffer' = [buffer EXCEPT ![f] = [open |-> TRUE, base |-> disk[f].text, modified |-> FALSE]]
  /\ known' = [known EXCEPT ![f] = disk[f].time]
  /\ watched' = AddPath(watched, disk, f)
  /\ UNCHANGED <<disk, clock, notices, changed, sched, check, auto, modal, answered>>

Edit(f) ==
  /\ Free /\ buffer[f].open
  /\ buffer' = [buffer EXCEPT ![f].modified = TRUE]
  /\ UNCHANGED <<disk, clock, watch, sched, check, auto, modal, answered>>

\* One that fails is logged and changes nothing.
SaveEditor(f) ==
  /\ Free /\ buffer[f].modified
  /\ Save({f})
  /\ UNCHANGED <<sched, check, auto, modal>>

CloseEditor(f) ==
  /\ Free /\ buffer[f].open
  /\ \/ Discard(f)
     \/ buffer[f].modified /\ SaveAndClose(f)
  /\ UNCHANGED <<sched, check, auto, modal>>

\* EditorManager::saveEditorAs; FileManager hears nothing of it.
SaveEditorAs(f, g) ==
  /\ SavesAs /\ Free /\ buffer[f].open /\ ~buffer[g].open
  /\ clock < MaxClock
  /\ clock' = clock + 1
  /\ disk' = [disk EXCEPT ![g] = [exists |-> TRUE, text |-> clock + 1, time |-> clock + 1]]
  /\ Seen(g, "changed")
  /\ buffer' = [buffer EXCEPT ![f] = Closed,
                              ![g] = [open |-> TRUE, base |-> clock + 1, modified |-> FALSE]]
  /\ answered' = [answered EXCEPT ![f] = NoAnswer, ![g] = [NoAnswer EXCEPT !.moved = TRUE]]
  /\ UNCHANGED <<watched, known, changed, sched, check, auto, modal>>

\* EditorManager::appIdle saves every modified editor, dialogs or not; some of
\* the saves may fail.
AppIdle ==
  /\ IdleSaves /\ EventLoop
  /\ \E fs \in SUBSET {f \in Files : buffer[f].modified} : fs # {} /\ Save(fs)
  /\ UNCHANGED <<sched, check, auto, modal>>

\* The options, or any other dialog.
OpenDialog ==
  /\ Free
  /\ modal' = TRUE
  /\ UNCHANGED <<disk, clock, watch, sched, check, buffer, auto, answered>>

CloseDialog ==
  /\ modal /\ ~check.active
  /\ modal' = FALSE
  /\ auto' \in BOOLEAN
  /\ UNCHANGED <<disk, clock, watch, sched, check, buffer, answered>>

-----------------------------------------------------------------------------
Init ==
  /\ disk = [f \in Files |-> [exists |-> TRUE, text |-> 1, time |-> 1]]
  /\ clock = 1
  /\ notices = [f \in Files |-> "nothing"]
  /\ watched = {}
  /\ known = [f \in Files |-> Unknown]
  /\ changed = {}
  /\ sched = [timer |-> FALSE, onFocus |-> FALSE]
  /\ check = Resting
  /\ buffer = [f \in Files |-> Closed]
  /\ auto \in BOOLEAN
  /\ modal = FALSE
  /\ answered = [f \in Files |-> NoAnswer]

UserActs ==
  \/ \E f \in Files : OpenEditor(f) \/ Edit(f) \/ SaveEditor(f) \/ CloseEditor(f)
  \/ \E f, g \in Files : SaveEditorAs(f, g)
  \/ OpenDialog \/ CloseDialog

Next ==
  \/ Elsewhere
  \/ UserActs
  \/ AppIdle
  \/ TimerFires \/ FocusChange \/ CheckEnds
  \/ \E f \in Files : FileChanged(f) \/ CheckFile(f) \/ Answer(f)

Spec == Init /\ [][Next]_vars

\* The event loop runs, handlers end, the user answers and closes her
\* dialogs, and focus comes back to a window before she opens the next.
FairSpec ==
  /\ Spec
  /\ WF_vars(TimerFires) /\ WF_vars(CheckEnds) /\ WF_vars(CloseDialog)
  /\ SF_vars(~modal /\ FocusChange)
  /\ \A f \in Files : WF_vars(FileChanged(f)) /\ WF_vars(CheckFile(f)) /\ WF_vars(Answer(f))

-----------------------------------------------------------------------------
(* Properties.                                                             *)

\* The type invariant.
ReloadTypeOK ==
  /\ disk \in [Files -> [exists : BOOLEAN, text : Texts, time : Texts]]
  /\ clock \in Texts
  /\ notices \in [Files -> {"nothing", "changed", "removed"}]
  /\ watched \subseteq Files /\ changed \subseteq Files
  /\ known \in [Files -> Texts \cup {Unknown}]
  /\ sched \in [timer : BOOLEAN, onFocus : BOOLEAN]
  /\ check \in [active : BOOLEAN, queue : SUBSET Files, file : Files \cup {Nowhere},
                about : {"nothing", "reload", "close", "save"},
                reloadAll : BOOLEAN, closeAll : BOOLEAN]
  /\ check.file # Nowhere => check.file \in check.queue
  /\ buffer \in [Files -> [open : BOOLEAN, base : Texts, modified : BOOLEAN]]
  /\ auto \in BOOLEAN /\ modal \in BOOLEAN
  /\ answered \in [Files -> [refused : Texts, kept : BOOLEAN, moved : BOOLEAN]]

\* The editor is FileManager's to follow: it has not moved to this file by
\* Save As, and the user has not kept it when the file was deleted.
Followed(f) == buffer[f].open /\ ~answered[f].moved /\ ~answered[f].kept

Differs(f) == disk[f].exists /\ buffer[f].base # disk[f].text

Stale(f) == Followed(f) /\ Differs(f) /\ answered[f].refused # disk[f].text

Pending(f) == notices[f] # "nothing" \/ f \in changed \cup check.queue

\* "Auto reload or close editor buffer, if underlying file is modified/
\* deleted" (liteappoption.ui): no change is lost.  An editor whose text is
\* not the file's is about to be looked at, unless the user has refused that
\* very text or kept the editor of a deleted file.
StaleIsPending == \A f \in Files : Stale(f) => Pending(f)

\* What makes it inductive.  No time is of a write to come; a followed editor is
\* known, and known to be older than a file that differs from it; one that is
\* not about to be looked at has its file, watched, with its text or the one
\* refused; while the user is asked whether to reload, the file is watched and
\* there, or what has become of it has been seen; and only a running check has
\* a list.
Seeing(f) == disk[f].exists /\ f \in watched

FileFollowed(f) ==
  /\ disk[f].time <= clock /\ known[f] <= clock
  /\ buffer[f].open /\ ~answered[f].moved => known[f] # Unknown
  /\ Followed(f) /\ Differs(f) => disk[f].time > known[f]
  /\ Followed(f) /\ ~Pending(f) => Seeing(f) /\ ~Stale(f)
  /\ check.file = f /\ check.about = "reload" =>
       known[f] # Unknown /\ (Seeing(f) \/ notices[f] # "nothing" \/ f \in changed)

AskedWhileActive == check.queue # {} \/ check.file # Nowhere => check.active

FollowingInvariant == AskedWhileActive /\ \A f \in Files : FileFollowed(f)

\* The changes collected are looked at: a check runs, is due by the timer, or
\* comes with the next change of focus (fileChanged, checkForReload).
ChangesScheduled ==
  changed # {} => sched.timer \/ sched.onFocus \/ check.active

\* Only files of open editors have their changes collected or are asked about:
\* checkForReload holds the editor it found across its questions, and a name
\* that closing left behind would be waited for in vain.
ChangedAreOpen ==
  /\ \A f \in Files : known[f] # Unknown => buffer[f].open
  /\ \A f \in changed : buffer[f].open
  /\ check.file # Nowhere => buffer[check.file].open

\* Unsaved changes go only by the user's word: her own closing of the editor,
\* her answer for this file, or one for all files in the same check
\* (checkForReload: "If the buffer is modified, ask the user").
Lost(f) ==
  /\ buffer[f].modified /\ ~buffer'[f].modified
  /\ clock' = clock
UnsavedKept ==
  [][\A f \in Files : Lost(f) =>
       ~check.active \/ check.file = f \/ check.reloadAll]_vars

\* With the option on, an editor without unsaved changes does not stay behind
\* its file: it is reloaded or closed, unless the user intervenes.
AutoFollows ==
  \A f \in Files :
    (auto /\ Stale(f) /\ ~buffer[f].modified)
      ~> (~auto \/ ~Stale(f) \/ buffer[f].modified)
=============================================================================
