-------------------------------- MODULE GoTools --------------------------------
(***************************************************************************)
(* The tools that run when Go files are saved and switched to: golangfmt   *)
(* formats what is saved, at once or with a process of its own, and        *)
(* golangast shows the outline of the current editor, a second after the   *)
(* last reason to, with another.                                           *)
(*                                                                         *)
(* An editor is named by its file; Save As is left out.  A text is what    *)
(* the user has typed, counted, and what formatting has made of it.  The   *)
(* class view has a timer and a process as the outline has, for the files  *)
(* of the folder.                                                          *)
(***************************************************************************)
EXTENDS Naturals, FiniteSets

CONSTANTS
  Files, GoFiles,
  NoFile,         \* no editor is current
  MaxTexts,       \* bound: the texts typed into each file
  Broken          \* the texts that do not parse: [file, n]

ASSUME GoToolsAssumption ==
  /\ GoFiles \subseteq Files
  /\ NoFile \notin Files
  /\ MaxTexts \in [Files -> Nat]
  /\ Broken \subseteq [file : Files, n : Nat]

VARIABLES
  disk,       \* the files' texts
  buffer,     \* the editors
  current,    \* the current editor
  format,     \* m_autofmt and m_syncfmt
  fmt,        \* GolangFmt::m_process: its user data
  overtaken,  \* history variable: since fmt was started another text of the
              \* file has been saved
  timer,      \* m_timerFile is active
  ast,        \* m_processFile: the file it reads, the texts it may have read
  outline,    \* the AstWidget of each Go editor: which text of which file
  ignored     \* history variable: the last start of m_processFile was ignored

editors  == <<disk, buffer, current>>
fmtVars  == <<format, fmt, overtaken>>
astVars  == <<timer, ast, outline, ignored>>
toolVars == <<editors, fmtVars, astVars>>

Styles  == {"raw", "formatted", "mixed"}
Modes   == {"off", "sync", "async"}
Unread  == [n |-> 0, style |-> "formatted"]
Blank   == [file |-> NoFile, text |-> Unread]
NoRun   == [busy |-> FALSE, file |-> NoFile, seen |-> {}]
NoFmt   == [busy |-> FALSE, file |-> NoFile, sent |-> Unread]

Open         == {f \in Files : buffer[f].open}
Parses(f, t) == [file |-> f, n |-> t.n] \notin Broken
Formatted(t) == [t EXCEPT !.style = IF @ = "raw" THEN "formatted" ELSE @]

-----------------------------------------------------------------------------
(* What happens to an editor.                                              *)

\* LiteEditor::save of a text, as far as the tools that run may notice.
Saved(f, t) ==
  /\ disk' = [disk EXCEPT ![f] = t]
  /\ ast' = IF ast.busy /\ ast.file = f THEN [ast EXCEPT !.seen = @ \cup {t}] ELSE ast

Holds(f, t) == buffer' = [buffer EXCEPT ![f] = [open |-> TRUE, text |-> t, modified |-> FALSE]]
Gone(f)     == buffer' = [buffer EXCEPT ![f] = [open |-> FALSE, text |-> Unread, modified |-> FALSE]]

\* Mutant of EditorChanged: another editor is not a reason to update.
EditorChangedOnly(f) == UNCHANGED timer

\* GolangAst::editorChanged: the timer is started, for whatever file.
EditorChanged(f) == timer' = (timer \/ f # NoFile)

\* GolangAst::editorSaved.
EditorSaved(f) == timer' = (timer \/ f \in GoFiles)

\* gofmt of t in syncfmtEditor: it may take too long, and fails on what does
\* not parse.
SyncFormats(f, t) == IF Parses(f, t) THEN {t, Formatted(t)} ELSE {t}

\* The texts that saving f, with editorAboutToSave, may leave in editor and file.
Results(f, t) == IF format = "sync" /\ f \in GoFiles THEN SyncFormats(f, t) ELSE {t}

\* GolangFmt::fmtEditor runs unless the process does.
Starts(f) == format = "async" /\ f \in GoFiles /\ ~fmt.busy

\* Text t of f is saved, and formatting is begun or not.
Formats(f, t, begun) ==
  IF begun THEN /\ fmt' = [busy |-> TRUE, file |-> f, sent |-> t]
                /\ overtaken' = FALSE
           ELSE /\ overtaken' = (overtaken \/ (fmt.busy /\ fmt.file = f /\ t # fmt.sent))
                /\ UNCHANGED fmt

-----------------------------------------------------------------------------
(* The user.                                                               *)

OpenEditor(f) ==
  /\ ~buffer[f].open
  /\ Holds(f, disk[f])
  /\ current' = f
  /\ EditorChanged(f)
  /\ UNCHANGED <<disk, fmtVars, ast, outline, ignored>>

SwitchEditor(f) ==
  /\ buffer[f].open /\ f # current
  /\ current' = f
  /\ EditorChanged(f)
  /\ UNCHANGED <<disk, buffer, fmtVars, ast, outline, ignored>>

Type(f) ==
  /\ buffer[f].open /\ buffer[f].text.n < MaxTexts[f]
  /\ LET t == [n |-> buffer[f].text.n + 1, style |-> "raw"]
     IN  buffer' = [buffer EXCEPT ![f] = [open |-> TRUE, text |-> t, modified |-> TRUE]]
  /\ UNCHANGED <<disk, current, fmtVars, astVars>>

\* EditorManager::saveEditor with editorAboutToSave, which syncfmtEditor uses
\* to format and save, and fmtEditor to begin formatting what is saved.
SaveEditor(f) ==
  /\ buffer[f].modified
  /\ \E t \in Results(f, buffer[f].text) :
       /\ Saved(f, t) /\ Holds(f, t)
       /\ Formats(f, t, Starts(f))
  /\ EditorSaved(f)
  /\ UNCHANGED <<current, format, outline, ignored>>

\* EditorManager::saveEditor without it: appIdle, and the searches.
SavePlainly(f) ==
  /\ buffer[f].modified
  /\ Saved(f, buffer[f].text) /\ Holds(f, buffer[f].text)
  /\ Formats(f, buffer[f].text, FALSE)
  /\ EditorSaved(f)
  /\ UNCHANGED <<current, format, outline, ignored>>

\* GolangFmt::gofmt and goimports, of an editor that has been saved: what
\* they do before to one that has not is SavePlainly.
Gofmt ==
  /\ current \in GoFiles /\ ~buffer[current].modified
  /\ Parses(current, buffer[current].text)
  /\ LET t == Formatted(buffer[current].text) IN
       /\ t # buffer[current].text
       /\ buffer' = [buffer EXCEPT ![current].text = t, ![current].modified = TRUE]
  /\ UNCHANGED <<disk, current, fmtVars, astVars>>

\* EditorManager::closeEditor; a neighbour becomes current.
CloseEditor(f, next) ==
  /\ buffer[f].open
  /\ next \in IF f # current THEN {current}
              ELSE IF Open = {f} THEN {NoFile} ELSE Open \ {f}
  /\ Gone(f)
  /\ current' = next
  /\ \/ /\ buffer[f].modified
        /\ \E t \in Results(f, buffer[f].text) : Saved(f, t) /\ Formats(f, t, Starts(f))
        /\ timer' = (timer \/ f \in GoFiles \/ (f = current /\ next # NoFile))
     \/ /\ UNCHANGED <<disk, ast, fmt, overtaken>>
        /\ IF f = current THEN EditorChanged(next) ELSE UNCHANGED timer
  /\ outline' = [g \in GoFiles |-> IF g = f THEN Blank ELSE outline[g]]
  /\ UNCHANGED <<format, ignored>>

\* GolangAst::astFileEnable: the outline is shown.
ShowOutline ==
  /\ EditorChanged(current)
  /\ UNCHANGED <<editors, fmtVars, ast, outline, ignored>>

ApplyOption ==
  /\ format' \in Modes
  /\ UNCHANGED <<editors, fmt, overtaken, astVars>>

-----------------------------------------------------------------------------
(* The processes.                                                          *)

\* Mutant of Untouchable: unsaved changes are not looked at.
UntouchableClosed(f) == ~buffer[f].open

\* fmtFinish leaves alone an editor that was closed or has unsaved changes.
Untouchable(f) == ~buffer[f].open \/ buffer[f].modified

\* What the difference between a text and its formatting makes of another.
Patched(t, sent) ==
  IF Formatted(sent) = sent THEN t
  ELSE IF t = sent THEN Formatted(t) ELSE [t EXCEPT !.style = "mixed"]

\* GolangFmt::fmtFinish; the process may also have failed to start.
FmtFinish ==
  /\ fmt.busy
  /\ fmt' = NoFmt /\ overtaken' = FALSE
  /\ LET f == fmt.file
         t == Patched(buffer[f].text, fmt.sent)
     IN  \/ UNCHANGED <<editors, timer, ast>>
         \/ /\ ~Untouchable(f) /\ Parses(f, fmt.sent)
            /\ t # buffer[f].text
            /\ Saved(f, t) /\ Holds(f, t) /\ EditorSaved(f)
            /\ UNCHANGED current
  /\ UNCHANGED <<format, outline, ignored>>

\* GolangAst::updateAstNowFile.  QProcess::start does nothing while it runs.
UpdateAstNowFile ==
  /\ timer /\ timer' = FALSE
  /\ IF current \notin GoFiles THEN UNCHANGED <<ast, ignored>>
     ELSE /\ ignored' = ast.busy
          /\ ast' = IF ast.busy THEN ast
                    ELSE [busy |-> TRUE, file |-> current, seen |-> {disk[current]}]
  /\ UNCHANGED <<editors, fmtVars, outline>>

\* GolangAst::finishedProcessFile: the outline goes to the current editor.
FinishedProcessFile ==
  /\ ast.busy /\ ast' = NoRun
  /\ \E t \in ast.seen :
       outline' = IF Parses(ast.file, t) /\ current \in GoFiles
                  THEN [outline EXCEPT ![current] = [file |-> ast.file, text |-> t]]
                  ELSE outline
  /\ UNCHANGED <<editors, fmtVars, timer, ignored>>

-----------------------------------------------------------------------------
ToolsInit ==
  /\ disk = [f \in Files |-> Unread]
  /\ buffer = [f \in Files |-> [open |-> FALSE, text |-> Unread, modified |-> FALSE]]
  /\ current = NoFile
  /\ format \in Modes
  /\ fmt = NoFmt /\ overtaken = FALSE
  /\ timer = FALSE
  /\ ast = NoRun
  /\ outline = [f \in GoFiles |-> Blank]
  /\ ignored = FALSE

ToolsNext ==
  \/ \E f \in Files : \/ OpenEditor(f) \/ SwitchEditor(f) \/ Type(f)
                      \/ SaveEditor(f) \/ SavePlainly(f)
  \/ \E f \in Files, next \in Files \cup {NoFile} : CloseEditor(f, next)
  \/ Gofmt \/ ShowOutline \/ ApplyOption
  \/ FmtFinish \/ UpdateAstNowFile \/ FinishedProcessFile

\* The processes end, and the user leaves the timer its second.
ToolsFairSpec ==
  /\ ToolsInit /\ [][ToolsNext]_toolVars
  /\ WF_toolVars(FmtFinish) /\ WF_toolVars(UpdateAstNowFile) /\ WF_toolVars(FinishedProcessFile)

-----------------------------------------------------------------------------
(* Properties.                                                             *)

Texts == [n : Nat, style : Styles]

\* The type invariant; a process that formats does so for a Go file.
ToolsTypeOK ==
  /\ disk \in [Files -> Texts]
  /\ buffer \in [Files -> [open : BOOLEAN, text : Texts, modified : BOOLEAN]]
  /\ current \in Files \cup {NoFile}
  /\ format \in Modes
  /\ fmt \in [busy : BOOLEAN, file : Files \cup {NoFile}, sent : Texts]
  /\ fmt.busy => fmt.file \in GoFiles
  /\ overtaken \in BOOLEAN /\ timer \in BOOLEAN /\ ignored \in BOOLEAN
  /\ ast \in [busy : BOOLEAN, file : Files \cup {NoFile}, seen : SUBSET Texts]
  /\ outline \in [GoFiles -> [file : Files \cup {NoFile}, text : Texts]]

\* Formatting changes only what it was asked to: the difference that the
\* process computed for one text is applied to another only if that one was
\* saved while the process ran (fmtFinish looks at whether the editor is
\* modified, fmtEditor at whether the process runs).
FormatsWhatItRead ==
  [][\A f \in Open :
       (/\ buffer'[f].open
        /\ buffer'[f].text.style = "mixed" /\ buffer[f].text.style # "mixed")
       => overtaken /\ fmt.file = f /\ ~buffer[f].modified
    ]_toolVars

Shows(f) == outline[f] = [file |-> f, text |-> disk[f]]

\* The outline follows the file: whatever is saved, formatted, closed, opened
\* and switched to while the process runs for this or another file, the
\* outline of an editor that stays current comes to be that of its file,
\* unless the file does not parse, or an update fell into a run and was lost.
OutlineFollows ==
  \A f \in GoFiles :
    (current = f /\ ~Shows(f))
      ~> (Shows(f) \/ current # f \/ ~Parses(f, disk[f]) \/ ignored)
=============================================================================
