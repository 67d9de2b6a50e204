------------------------------ MODULE Navigation ------------------------------
(***************************************************************************)
(* The navigation history of EditorManager: the locations the user has     *)
(* been at, and the Navigate Backward and Navigate Forward actions.        *)
(*                                                                         *)
(* An editor is named by its file.  A place stands for what saveState      *)
(* keeps of an editor (cursor, scroll bars, folding); it survives closing  *)
(* the editor in the settings.  Positions count from 0 as in the code: the *)
(* entry at position p is entries[p + 1].                                  *)
(***************************************************************************)
EXTENDS Integers, FiniteSets, SequencesExt

CONSTANTS
  Files,        \* the files the user works on
  NoFile,       \* no editor is current
  PlacesOf,     \* [Files -> set of places]
  Limit,        \* the history is kept shorter than this: 100
  Half,         \* how much of it is kept behind the position: 50
  MaxEditors,   \* m_maxEditorCount
  CanVanish     \* the files that may be deleted and created again

ASSUME NavigationAssumption ==
  /\ NoFile \notin Files
  /\ \A f \in Files : PlacesOf[f] # {}
  /\ Limit \in Nat /\ Half \in 1..(Limit - 1)
  /\ MaxEditors \in Nat \ {0}
  /\ CanVanish \subseteq Files

VARIABLES
  nav,       \* m_navigationHistory, m_currentNavigationHistoryPosition and
             \* whether the two actions are enabled
  open,      \* the editors in tabs
  current,   \* m_currentEditor
  place,     \* where each editor is, or was when it was closed
  readable,  \* the files that can be opened
  trail      \* history variable: the locations Backward has left and
             \* Forward has not returned to, since anything else was done

vars == <<nav, open, current, place, readable, trail>>

Locations == UNION {[file : {f}, place : PlacesOf[f]] : f \in Files}
Location(f) == [file |-> f, place |-> place[f]]
Here == Location(current)

-----------------------------------------------------------------------------
(* The history.                                                            *)

\* EditorManager::updateNavigatorActions.
Refreshed(n) ==
  [n EXCEPT !.back    = n.position > 0,
            !.forward = n.position < Len(n.entries) - 1]

\* The loop at the end of addNavigationHistory: entries are dropped until
\* fewer than Limit are left, the oldest ones while the position is past
\* Half, and then the newest.
Trimmed(n) ==
  LET excess == Len(n.entries) - (Limit - 1)
      first  == IF n.position <= Half THEN 0
                ELSE IF n.position - Half < excess THEN n.position - Half
                ELSE excess
  IN  IF excess <= 0 THEN n
      ELSE [n EXCEPT !.entries  = SubSeq(@, first + 1, first + Limit - 1),
                     !.position = @ - first]

\* The loop of addNavigationHistory as it is written, one entry at a time: a
\* round of it, which nothing follows once fewer than Limit entries are left.
TrimRound(n) ==
  IF Len(n.entries) < Limit THEN n
  ELSE IF n.position > Half
       THEN [n EXCEPT !.entries = Tail(@), !.position = @ - 1]
       ELSE [n EXCEPT !.entries = Front(@)]

TrimLoop(n) ==
  LET after[k \in 0..Len(n.entries)] == IF k = 0 THEN n ELSE TrimRound(after[k - 1])
  IN  after[Len(n.entries)]

\* As Trimmed, but the oldest entries go wherever the position is.
TrimmedOldest(n) ==
  LET excess == Len(n.entries) - (Limit - 1) IN
  IF excess <= 0 THEN n
  ELSE [n EXCEPT !.entries  = SubSeq(@, excess + 1, excess + Limit - 1),
                 !.position = IF @ > excess THEN @ - excess ELSE 0]

\* Mutant of Added, with that loop.
AddedOldest(n, location) ==
  IF n.position > 0 /\ n.entries[n.position] = location THEN n
  ELSE Refreshed(TrimmedOldest(
         [n EXCEPT !.entries  = InsertAt(@, n.position + 1, location),
                   !.position = @ + 1]))

\* EditorManager::addNavigationHistory of a location in the current editor.
Added(n, location) ==
  IF n.position > 0 /\ n.entries[n.position] = location THEN n
  ELSE Refreshed(Trimmed(
         [n EXCEPT !.entries  = InsertAt(@, n.position + 1, location),
                   !.position = @ + 1]))

\* Mutant of WithHere: Backward does not note where it leaves from.
WithHereNot(n) == n

\* EditorManager::updateCurrentPositionInNavigationHistory.
WithHere(n) ==
  IF current = NoFile THEN n
  ELSE IF n.position < Len(n.entries)
       THEN [n EXCEPT !.entries = ReplaceAt(@, n.position + 1, Here)]
       ELSE [n EXCEPT !.entries = Append(@, Here)]

\* EditorManager::setCurrentEditor, from editor `from' to editor `to'.
Switched(n, from, to, ignore) ==
  IF to \in {from, NoFile} \/ from = NoFile \/ ignore THEN n
  ELSE Added(n, Location(from))

-----------------------------------------------------------------------------
(* The editors.                                                            *)

\* EditorManager::openEditor: a tab more than MaxEditors closes the leftmost
\* one.  Tabs can be moved, so that is any `victim' among the old ones; if it
\* was current, its neighbour `heir' becomes current.
TabOpened(f, victim, heir) ==
  \/ /\ f \in open \/ Cardinality(open) < MaxEditors
     /\ victim = NoFile /\ heir = current
     /\ open' = open \cup {f}
  \/ /\ f \notin open /\ Cardinality(open) >= MaxEditors
     /\ victim \in open
     /\ open' = (open \cup {f}) \ {victim}
     /\ IF victim = current THEN heir \in open' ELSE heir = current

\* FileManager::openEditor, which also makes the editor current.
Opened(n, f, victim, heir, ignore) ==
  /\ TabOpened(f, victim, heir)
  /\ current' = f
  /\ nav' = Switched(Switched(n, current, heir, FALSE), heir, f, ignore)

Openable(f) == f \in open \cup readable

-----------------------------------------------------------------------------
(* The user works: locations are added.                                    *)

\* Locations ahead stay worth returning to until the history changes.
Interrupted == trail' = IF nav' = nav THEN trail ELSE <<>>

\* The user opens a file, from the file system or a list of results.
OpenFile(f, victim, heir) ==
  /\ Openable(f)
  /\ Opened(nav, f, victim, heir, FALSE)
  /\ Interrupted
  /\ UNCHANGED <<place, readable>>

\* A tab is chosen.
SwitchTab(f) ==
  /\ f \in open \ {current}
  /\ current' = f
  /\ nav' = Switched(nav, current, f, FALSE)
  /\ Interrupted
  /\ UNCHANGED <<open, place, readable>>

\* EditorManager::closeEditor.
CloseEditor(f, heir) ==
  /\ f \in open
  /\ open' = open \ {f}
  /\ \/ f # current /\ heir = current
     \/ f = current /\ heir \in open'
     \/ f = current /\ open' = {} /\ heir = NoFile
  /\ current' = heir
  /\ nav' = Switched(nav, current, heir, FALSE)
  /\ Interrupted
  /\ UNCHANGED <<place, readable>>

\* LiteEditorWidgetBase::slotCursorPositionChanged decides whether a move of
\* the cursor of editor f is `worth' a location, and passes on the place
\* `from' that it noted earlier; only the current editor's is added.
CursorMoved(n, f, from, worth) ==
  IF worth /\ f = current THEN Added(n, [file |-> f, place |-> from]) ELSE n

\* The cursor of editor f moves to place p.
MoveCursor(f, p, from, worth) ==
  /\ f \in open
  /\ {p, from} \subseteq PlacesOf[f]
  /\ p # place[f]
  /\ place' = [place EXCEPT ![f] = p]
  /\ nav' = CursorMoved(nav, f, from, worth)
  /\ Interrupted
  /\ UNCHANGED <<open, current, readable>>

\* LiteEditor::gotoLine, and the same in Quick Open.
GotoLine(p, from, worth) ==
  /\ current # NoFile
  /\ {p, from} \subseteq PlacesOf[current]
  /\ p # place[current]
  /\ nav' = CursorMoved(Added(nav, Here), current, from, worth)
  /\ place' = [place EXCEPT ![current] = p]
  /\ Interrupted
  /\ UNCHANGED <<open, current, readable>>

\* A file is deleted or comes back.
Vanish(f) ==
  /\ readable' = IF f \in readable THEN readable \ {f} ELSE readable \cup {f}
  /\ UNCHANGED <<nav, open, current, place, trail>>

-----------------------------------------------------------------------------
(* The user travels.                                                       *)

\* Mutant of Dropped: the entry after the one that cannot be opened goes.
DroppedNext(n) == [n EXCEPT !.entries = RemoveAt(@, n.position + 2)]

\* goBack removes the entry of a file that cannot be opened.
Dropped(n) == [n EXCEPT !.entries = RemoveAt(@, n.position + 1)]

\* The location at the position of n is restored in its editor.
Restored(n, victim, heir) ==
  LET target == n.entries[n.position + 1] IN
  /\ Opened(n, target.file, victim, heir, TRUE)
  /\ place' = [place EXCEPT ![target.file] = target.place]
  /\ UNCHANGED readable

Retraced(onTheWay) ==
  trail' = IF current = NoFile THEN <<>> ELSE onTheWay

\* EditorManager::goBack.
GoBack(victim, heir) ==
  LET left   == WithHere(nav)
      moved  == [left EXCEPT !.position = @ - 1]
      target == moved.entries[moved.position + 1]
  IN  \/ /\ left.position = 0
         /\ nav' = Refreshed(left)
         /\ UNCHANGED <<open, current, place, readable, trail>>
      \/ /\ left.position > 0 /\ Openable(target.file)
         /\ Restored(Refreshed(moved), victim, heir)
         /\ Retraced(IF heir = current THEN Append(trail, Here) ELSE <<>>)
      \/ /\ left.position > 0 /\ ~Openable(target.file)
         /\ nav' = Refreshed(Dropped(moved))
         /\ UNCHANGED <<open, current, place, readable, trail>>

\* EditorManager::goForward.  Its early returns leave the actions as they are.
GoForward(victim, heir) ==
  LET left   == WithHere(nav)
      moved  == [left EXCEPT !.position = @ + 1]
      target == moved.entries[moved.position + 1]
  IN  \/ /\ left.position >= Len(left.entries) - 1
         /\ nav' = left
         /\ UNCHANGED <<open, current, place, readable, trail>>
      \/ /\ left.position < Len(left.entries) - 1 /\ Openable(target.file)
         /\ Restored(Refreshed(moved), victim, heir)
         /\ Retraced(IF heir = current /\ trail # <<>> THEN Front(trail) ELSE <<>>)
      \/ /\ left.position < Len(left.entries) - 1 /\ ~Openable(target.file)
         /\ nav' = moved
         /\ trail' = <<>>
         /\ UNCHANGED <<open, current, place, readable>>

-----------------------------------------------------------------------------
Init ==
  /\ nav = [entries |-> <<>>, position |-> 0, back |-> FALSE, forward |-> FALSE]
  /\ open = {}
  /\ current = NoFile
  /\ place \in {p \in [Files -> UNION {PlacesOf[f] : f \in Files}] :
                  \A f \in Files : p[f] \in PlacesOf[f]}
  /\ readable = Files
  /\ trail = <<>>

Editors == Files \cup {NoFile}
Places  == UNION {PlacesOf[f] : f \in Files}

Work ==
  \/ \E f \in Files, victim, heir \in Editors : OpenFile(f, victim, heir)
  \/ \E f \in Files : SwitchTab(f)
  \/ \E f \in Files, heir \in Editors : CloseEditor(f, heir)
  \/ \E f \in Files, p, from \in Places, worth \in BOOLEAN : MoveCursor(f, p, from, worth)
  \/ \E p, from \in Places, worth \in BOOLEAN : GotoLine(p, from, worth)

Travel == \E victim, heir \in Editors : GoBack(victim, heir) \/ GoForward(victim, heir)

Next == Work \/ Travel \/ \E f \in CanVanish : Vanish(f)

Spec == Init /\ [][Next]_vars

-----------------------------------------------------------------------------
(* Properties.                                                             *)

\* A history of locations within the limit, and a position in it.  Only
\* updateCurrentPositionInNavigationHistory makes a history reach the limit,
\* and then its last entry is the location that the user has left: where the
\* position is past the end there is room for one more.
IsHistory(n) ==
  /\ n \in [entries : Seq(Locations), position : Nat, back : BOOLEAN, forward : BOOLEAN]
  /\ n.position <= Len(n.entries) /\ Len(n.entries) <= Limit
  /\ n.position = Len(n.entries) => Len(n.entries) < Limit

\* The type invariant: the position stays within the history, the history
\* within its limit and the tabs within theirs.
NavTypeOK ==
  /\ IsHistory(nav)
  /\ open \subseteq Files /\ IsFiniteSet(open) /\ Cardinality(open) <= MaxEditors
  /\ current \in open \cup {NoFile}
  /\ place \in [Files -> Places] /\ \A f \in Files : place[f] \in PlacesOf[f]
  /\ readable \subseteq Files
  /\ trail \in Seq(Locations)

\* Forward undoes Backward: however many steps back the user has gone, and
\* whatever files could not be opened on the way, the locations left are
\* ahead in the order that Forward returns to them (goBack notes where it
\* leaves from, in a history that nothing else has changed since).
TrailAhead ==
  \A i \in 1..Len(trail) :
    LET ahead == nav.position + 1 + i IN
    ahead <= Len(nav.entries) /\ nav.entries[ahead] = trail[Len(trail) + 1 - i]

\* What is behind the position afterwards ends with one or two new locations;
\* before them come the latest of those that were behind it, and at least
\* Half in all if there were as many.
RecentKept ==
  \E new \in 1..2 :
    LET kept == nav'.position - new IN
    /\ kept >= IF nav.position < Half - new THEN nav.position ELSE Half - new
    /\ kept \in 0..nav.position
    /\ SubSeq(nav'.entries, 1, kept)
         = SubSeq(nav.entries, nav.position - kept + 1, nav.position)
    /\ \A i \in (kept + 1)..nav'.position : nav'.entries[i].file \in open

\* Adding locations forgets old ones only, and not too many: when the history
\* is full, addNavigationHistory drops entries at the end that is farther from
\* the position (one action of the user can add two locations).
KeepsRecent == [][nav' = nav \/ RecentKept \/ ~Work]_vars

\* After Backward the entry at the position is where the user is, whether the
\* location was restored or its file could not be opened and its entry went:
\* the next Backward leaves from there.  Left out is a Backward that opens one
\* editor too many and closes the current one: it adds to the history.
BackIsAtPosition ==
  [][\A victim \in Editors :
       (/\ nav'.position < nav.position
        /\ current' # NoFile
        /\ GoBack(victim, current))
       => nav'.entries[nav'.position + 1] = [file |-> current', place |-> place'[current']]
    ]_vars
=============================================================================
