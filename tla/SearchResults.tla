----------------------------- MODULE SearchResults -----------------------------
(***************************************************************************)
(* Find in Files searches in a thread, Find Usages in a process, and Find  *)
(* All References asks gopls.  All three show what they find in the one    *)
(* panel of FileSearchManager, from which the user replaces and reverts.   *)
(*                                                                         *)
(* There is one file, open in an editor; saving it succeeds.  A line is a  *)
(* sequence of tokens, and a search is for one token, so that hits do not  *)
(* overlap.  A token is one UTF-16 unit, in which QString counts, and one  *)
(* position of the cursor, in which QTextCursor moves: there are no        *)
(* surrogate pairs and no combining marks.  In a file, which holds UTF-8,  *)
(* a token may take more than one byte.  Columns count from zero and lines *)
(* from one, as in FileSearchResult.                                       *)
(***************************************************************************)
EXTENDS Integers, Sequences, FiniteSets, SequencesExt

CONSTANTS
  Terms,         \* tokens that are searched for
  NoTerm,        \* none of them
  Lines,         \* the text of the file at the beginning
  Typed,         \* the token that edits type
  Wide,          \* tokens that take two bytes in the file, where others take one
  Spaces,        \* tokens that are white space
  Replacements,  \* what is replaced with: sequences of tokens
  MaxRuns,       \* bound: runs of the thread
  MaxOthers,     \* bound: searches of the other two kinds
  MaxChanges     \* bound: edits and replacements

ASSUME SearchAssumption ==
  /\ Lines \in Seq(Seq(Terms \cup {Typed})) /\ Replacements \subseteq Seq(Terms \cup {Typed})
  /\ {MaxRuns, MaxOthers, MaxChanges} \subseteq Nat

VARIABLES
  text, disk,    \* the file in its editor and on disk, each with a version
  thread,        \* m_thread, with the run it is at and what it searches
  finding,       \* FindThread::finding
  findText,      \* FindThread::findText
  events,        \* what the thread has posted to the user interface
  handler,       \* the handler that waits: in FindThread::stop, or in the
                 \* questions of doReplace; "none" in the event loop
  usages,        \* the process of GolangFileSearch
  references,    \* the request to gopls
  current,       \* m_currentSearch
  panel,         \* the search form or the results, and what they show
  others,        \* searches of the other two kinds so far
  cut            \* runs of the thread that were told to stop

vars == <<text, disk, thread, finding, findText, events, handler, usages,
          references, current, panel, others, cut>>

Empty     == [lines |-> <<>>, ver |-> 0]
NoSearch  == [run |-> 0, term |-> NoTerm, file |-> Empty]
NoHandler == [in |-> "none", term |-> NoTerm, items |-> <<>>, with |-> <<>>]

EventLoop == handler.in # "stop"       \* events are delivered
User      == handler.in = "none"       \* and the user can act

Tokens == Terms \cup {Typed}
Sought == Terms \cup {NoTerm}

-----------------------------------------------------------------------------
(* What a search finds, and what replacing does.                           *)

\* A result, with what it is good for in the properties: the search it is of
\* (and the run, of Find in Files), the tokens it marks, and the version of the
\* text they were found in.
Row(source, run, term, ver, line, col) ==
  [source |-> source, run |-> run, marks |-> <<term>>, ver |-> ver,
   line |-> line, col |-> col, len |-> 1]

\* The elements of s that are at the places in keep, in their order.
Selected(s, keep) ==
  LET selected[n \in 0..Len(s)] ==
        IF n = 0 THEN <<>>
        ELSE IF n \in keep THEN Append(selected[n - 1], s[n]) ELSE selected[n - 1]
  IN  selected[Len(s)]

\* The hits of a line, from left to right.
LineRows(source, run, term, file, l) ==
  LET line == file.lines[l] IN
  Selected([i \in DOMAIN line |-> Row(source, run, term, file.ver, l, i - 1)],
           {i \in DOMAIN line : line[i] = term})

AllRows(source, run, term, file) ==
  FlattenSeq([l \in DOMAIN file.lines |-> LineRows(source, run, term, file, l)])

\* A selection that runs past the end of its line, as only one of a row that
\* does not mark what it is of can, is cut there; in the editor it runs on into
\* the next line.
\* QTextCursor does not move by a negative number.
Put(line, col, len, with) ==
  LET from == Max({0, Min({col, Len(line)})}) IN
  SubSeq(line, 1, from) \o with \o SubSeq(line, from + len + 1, Len(line))

\* Mutant of ReplaceItem: what the replacements before it on the same line have
\* changed is not counted.
ReplaceItemNoOffset(done, item, with) ==
  LET block == IF item.line > done.block THEN item.line ELSE done.block IN
  [done EXCEPT
     !.lines[block] = Put(@, item.col, item.len, with), !.block = block,
     !.rows = Append(@, [item EXCEPT !.len = Len(with), !.marks = with])]

\* One round of ReplaceDocument::replace.  The block only moves forward, and
\* offset is by how much the replacements in it have lengthened it.
ReplaceItem(done, item, with) ==
  LET block  == IF item.line > done.block THEN item.line ELSE done.block
      offset == IF item.line > done.block THEN 0 ELSE done.offset
      col    == offset + item.col
  IN [lines  |-> [done.lines EXCEPT ![block] = Put(@, col, item.len, with)],
      block  |-> block,
      offset |-> offset + Len(with) - item.len,
      rows   |-> Append(done.rows, [item EXCEPT !.col = col, !.len = Len(with), !.marks = with])]

\* ReplaceDocument::replace.
Replace(lines, items, with) ==
  LET done[n \in 0..Len(items)] ==
        IF n = 0 THEN [lines |-> lines, block |-> 1, offset |-> 0, rows |-> <<>>]
        ELSE ReplaceItem(done[n - 1], items[n], with)
  IN  done[Len(items)]

-----------------------------------------------------------------------------
(* The panel.                                                              *)

\* Mutant of FindStarted: the results of the search before stay.
FindStartedKeeps(p, term, search) ==
  [p EXCEPT !.page = "results", !.term = term, !.busy = TRUE, !.canReplace = FALSE, !.of = search]

\* FileSearchManager::findStarted, SearchResultWidget::restart.
FindStarted(p, term, search) ==
  [page |-> "results", term |-> term, rows |-> <<>>, busy |-> TRUE, canReplace |-> FALSE,
   of |-> search]

\* Mutant of FindFinished: Cancel stays visible if nothing was found.
FindFinishedIfAny(p) == IF p.rows = <<>> THEN p ELSE [p EXCEPT !.busy = FALSE, !.canReplace = TRUE]

\* FileSearchManager::findFinished, SearchResultWidget::finishSearch.
FindFinished(p) == [p EXCEPT !.busy = FALSE, !.canReplace = p.rows # <<>>]

\* FileSearchManager::findResult.
FindResult(p, rows) == [p EXCEPT !.rows = @ \o rows]

Init ==
  /\ text = [lines |-> Lines, ver |-> 0] /\ disk = text
  /\ thread = [state |-> "idle", killed |-> FALSE, run |-> 0, term |-> NoTerm, file |-> Empty,
               line |-> 1]
  /\ finding \in BOOLEAN              \* not initialized
  /\ findText = NoTerm
  /\ events = <<>>
  /\ handler = NoHandler
  /\ usages = [state |-> "idle", run |-> 0, term |-> NoTerm, text |-> NoTerm, head |-> TRUE,
                file |-> Empty, line |-> 1]
  /\ references = [state |-> "idle", run |-> 0, term |-> NoTerm, file |-> Empty]
  /\ current = "file"
  /\ panel = [page |-> "search", term |-> <<>>, rows |-> <<>>, busy |-> FALSE,
              canReplace |-> FALSE, of |-> NoSearch]
  /\ others = 0 /\ cut = {}

-----------------------------------------------------------------------------
(* Find in Files.                                                          *)

\* FileSearchManager::newSearch.
NewSearch ==
  /\ User /\ panel.page = "results"
  /\ panel' = [panel EXCEPT !.page = "search"]
  /\ current' = "file"
  /\ UNCHANGED <<text, disk, thread, finding, findText, events, handler, usages, references, others, cut>>

\* The rest of FileSearch::findInFiles.  Without a term there is no search;
\* otherwise the editors are saved, and QThread::start does nothing if the
\* thread still runs.
StartThread(t, term) ==
  /\ IF term = NoTerm
     THEN thread' = t /\ UNCHANGED <<disk, findText>>
     ELSE /\ disk' = text
          /\ findText' = term
          /\ thread' = IF t.state = "idle"
                       THEN [t EXCEPT !.state = "starting", !.run = @ + 1, !.killed = FALSE]
                       ELSE t
  /\ handler' = NoHandler

\* FileSearch::findInFiles; a term that is empty stops the thread too.
FindInFiles(term) ==
  /\ User /\ panel.page = "search" /\ thread.run < MaxRuns
  /\ IF thread.state = "idle"
     THEN StartThread(thread, term) /\ UNCHANGED <<finding, cut>>
     ELSE /\ finding' = FALSE
          /\ handler' = [NoHandler EXCEPT !.in = "stop", !.term = term]
          /\ cut' = cut \cup {thread.run}
          /\ UNCHANGED <<disk, thread, findText>>
  /\ UNCHANGED <<text, events, usages, references, current, panel, others>>

\* FindThread::stop: the thread ended while it was waited for.
StopReturns ==
  /\ handler.in = "stop" /\ thread.state = "idle"
  /\ StartThread(thread, handler.term)
  /\ UNCHANGED <<text, finding, events, usages, references, current, panel, others, cut>>

Ended(t) == [t EXCEPT !.state = "idle", !.killed = FALSE, !.file = Empty, !.line = 1]

\* FindThread::stop: it did not within 200 ms.  QThread::terminate ends it at
\* once on Windows, and at its next system call elsewhere.
StopTerminates ==
  /\ handler.in = "stop" /\ thread.state # "idle"
  /\ \/ /\ events' = Append(events, [is |-> "finished"])
        /\ StartThread(Ended(thread), handler.term)
     \/ /\ StartThread([thread EXCEPT !.killed = TRUE], handler.term)
        /\ UNCHANGED events
  /\ UNCHANGED <<text, finding, usages, references, current, panel, others, cut>>

\* Mutant of RunBegins: finding is left as it was.
RunBeginsAsFound ==
  /\ thread.state = "starting"
  /\ thread' = [thread EXCEPT !.state = "running", !.term = findText, !.file = disk, !.line = 1]
  /\ events' = Append(events, [is |-> "started", of |-> [run |-> thread.run, term |-> findText, file |-> disk]])
  /\ UNCHANGED <<text, disk, finding, findText, handler, usages, references, current, panel, others, cut>>

\* FindThread::run: the thread reports that it has started, and takes what it
\* is to search for.
RunBegins ==
  /\ thread.state = "starting"
  /\ finding' = TRUE
  /\ thread' = [thread EXCEPT !.state = "running", !.term = findText, !.file = disk, !.line = 1]
  /\ events' = Append(events, [is |-> "started", of |-> [run |-> thread.run, term |-> findText, file |-> disk]])
  /\ UNCHANGED <<text, disk, findText, handler, usages, references, current, panel, others, cut>>

\* FindThread::findFile, one line.
SearchesLine ==
  /\ thread.state = "running" /\ thread.line <= Len(thread.file.lines)
  /\ LET rows == LineRows("file", thread.run, thread.term, thread.file, thread.line) IN
     events' = events \o [k \in DOMAIN rows |-> [is |-> "result", row |-> rows[k]]]
  /\ thread' = [thread EXCEPT !.line = IF finding THEN @ + 1 ELSE Len(thread.file.lines) + 1]
  /\ UNCHANGED <<text, disk, finding, findText, handler, usages, references, current, panel, others, cut>>

\* The end of FindThread::run.
RunEnds ==
  /\ thread.state = "running" /\ thread.line > Len(thread.file.lines)
  /\ finding' = FALSE
  /\ thread' = Ended(thread)
  /\ events' = Append(events, [is |-> "finished"])
  /\ UNCHANGED <<text, disk, findText, handler, usages, references, current, panel, others, cut>>

\* The thread reaches a system call after QThread::terminate.
Dies ==
  /\ thread.killed
  /\ thread' = Ended(thread)
  /\ events' = Append(events, [is |-> "finished"])
  /\ UNCHANGED <<text, disk, finding, findText, handler, usages, references, current, panel, others, cut>>

\* IFileSearch::searchText of m_currentSearch.
SearchText ==
  CASE current = "file"   -> findText
    [] current = "usages" -> usages.text
    [] OTHER              -> references.term

\* The event loop delivers what the thread has posted.
Delivers ==
  /\ EventLoop /\ events # <<>>
  /\ LET e == Head(events) IN
     panel' = CASE e.is = "started"  -> FindStarted(panel, <<SearchText>>, e.of)
                [] e.is = "result"   -> FindResult(panel, <<e.row>>)
                [] e.is = "finished" -> FindFinished(panel)
  /\ events' = Tail(events)
  /\ UNCHANGED <<text, disk, thread, finding, findText, handler, usages, references, current, others, cut>>

-----------------------------------------------------------------------------
(* Find Usages and Find All References.                                    *)

\* GolangFileSearch::findUsages.  The process of the search before is stopped,
\* by force if it must be.  The term is what the process looks for, the text
\* m_searchText.
FindUsages(term) ==
  /\ User /\ others < MaxOthers
  /\ disk' = text
  /\ usages' = [state |-> "running", run |-> 0, term |-> term, text |-> term, head |-> TRUE,
                file |-> text, line |-> 1]
  /\ current' = "usages"
  /\ panel' = FindStarted(panel, <<term>>, NoSearch)
  /\ others' = others + 1
  /\ UNCHANGED <<text, thread, finding, findText, events, handler, references, cut>>

\* GolangFileSearch::findUsagesOutput, the first line: if it names a package,
\* that is the text from now on (searchTextChanged).
UsagesHead ==
  /\ EventLoop /\ usages.state = "running" /\ usages.head
  /\ \E name \in Tokens :
       /\ usages' = [usages EXCEPT !.head = FALSE, !.text = name]
       /\ panel' = IF name = usages.text THEN panel ELSE [panel EXCEPT !.term = <<name>>]
  /\ UNCHANGED <<text, disk, thread, finding, findText, events, handler, references, current, others, cut>>

\* The same, on the error channel (findError): the message takes the place of
\* the text in the panel.
UsagesError ==
  /\ EventLoop /\ usages.state = "running"
  /\ panel' = [panel EXCEPT !.term = <<NoTerm>>]
  /\ UNCHANGED <<text, disk, thread, finding, findText, events, handler, usages, references, current, others, cut>>

\* The rows of a line of the file.  The process counts bytes.  The column where
\* a name begins is counted anew in characters, the one where it ends is not:
\* the row is longer by what the line up to there takes more bytes than
\* characters.  Without the second column it is as long as the text.
UsagesRows(ranged) ==
  LET line == usages.file.lines[usages.line]
      rows == LineRows("usages", 0, usages.term, usages.file, usages.line)
      more(col) == Cardinality({i \in DOMAIN line : i <= col + 1 /\ line[i] \in Wide})
  IN  [k \in DOMAIN rows |-> [rows[k] EXCEPT !.len = IF ranged THEN 1 + more(rows[k].col) ELSE 1]]

\* The same, a line of the file.
UsagesOutput ==
  /\ EventLoop /\ usages.state = "running" /\ ~usages.head
  /\ usages.line <= Len(usages.file.lines)
  /\ \E ranged \in BOOLEAN : panel' = FindResult(panel, UsagesRows(ranged))
  /\ usages' = [usages EXCEPT !.line = @ + 1]
  /\ UNCHANGED <<text, disk, thread, finding, findText, events, handler, references, current, others, cut>>

\* GolangFileSearch::findUsagesFinish; the process may fail before its time.
UsagesFinish ==
  /\ EventLoop /\ usages.state = "running"
  /\ panel' = FindFinished(panel)
  /\ usages' = [usages EXCEPT !.state = "idle", !.file = Empty, !.line = 1]
  /\ UNCHANGED <<text, disk, thread, finding, findText, events, handler, references, current, others, cut>>

\* GoplsPlugin::requestLocations, for the references of a name.
FindReferences(term) ==
  /\ User /\ others < MaxOthers /\ references.state = "idle"
  /\ disk' = text
  /\ references' = [state |-> "asked", run |-> 0, term |-> term, file |-> text]
  /\ others' = others + 1
  /\ UNCHANGED <<text, thread, finding, findText, events, handler, usages, current, panel, cut>>

\* GoplsSearchResults::showLocations.  The lines of the server count from zero.
ShowLocations ==
  LET rows == AllRows("references", 0, references.term, references.file) IN
  [k \in DOMAIN rows |-> [rows[k] EXCEPT !.line = @ - 1]]

\* GoplsPlugin::handleLocationResponse: an error is only logged.
ReferencesAnswer ==
  /\ EventLoop /\ references.state = "asked"
  /\ references' = [references EXCEPT !.state = "idle", !.file = Empty]
  /\ \/ UNCHANGED <<current, panel>>
     \/ /\ current' = "references"
        /\ panel' = FindFinished(FindResult(FindStarted(panel, <<references.term>>, NoSearch), ShowLocations))
  /\ UNCHANGED <<text, disk, thread, finding, findText, events, handler, usages, others, cut>>

-----------------------------------------------------------------------------
(* Editing and replacing.                                                  *)

\* The user types in front of a line.
Edit(l) ==
  /\ User /\ text.ver < MaxChanges
  /\ text' = [lines |-> [text.lines EXCEPT ![l] = <<Typed>> \o @], ver |-> text.ver + 1]
  /\ UNCHANGED <<disk, thread, finding, findText, events, handler, usages, references, current, panel, others, cut>>

OneSearch(rows) ==
  \A i, j \in DOMAIN rows : rows[i].source = rows[j].source /\ rows[i].run = rows[j].run

\* What FileSearchManager::doReplace does when nothing is left to ask.
DoReplace(with, items) ==
  LET done == Replace(text.lines, items, with) IN
  /\ text' = [lines |-> done.lines, ver |-> text.ver + 1]
  /\ disk' = text'
  /\ panel' = [panel EXCEPT !.rows = [i \in DOMAIN done.rows |->
                                        [done.rows[i] EXCEPT !.run = 0, !.ver = IF @ = text.ver THEN text'.ver ELSE @]],
                           !.term = with, !.of = NoSearch]

Question(in, with, items) ==
  /\ handler' = [in |-> in, term |-> NoTerm, items |-> items, with |-> with]
  /\ UNCHANGED <<text, disk, panel>>

NothingReplaced == handler' = NoHandler /\ UNCHANGED <<text, disk, panel>>

\* doReplace after its first question; a file that cannot be written is asked
\* about.
Replaces(with, items) ==
  IF with = panel.term \/ items = <<>> THEN NothingReplaced
  ELSE \/ DoReplace(with, items) /\ handler' = NoHandler
       \/ Question("readonly", with, items)

\* doReplace for the checked rows.  It asks if there is nothing, or nothing but
\* white space, to replace with.
PressReplace(with, checked) ==
  /\ User /\ panel.canReplace /\ text.ver < MaxChanges
  /\ OneSearch(panel.rows)          \* rows of two searches overlap; left out
  /\ LET items == Selected(panel.rows, checked) IN
     IF \A i \in DOMAIN with : with[i] \in Spaces
     THEN Question("blank", with, items)
     ELSE Replaces(with, items)
  /\ UNCHANGED <<thread, finding, findText, events, usages, references, current, others, cut>>

\* A question is answered.
Answers(yes) ==
  /\ \/ handler.in = "blank" /\ yes /\ Replaces(handler.with, handler.items)
     \/ handler.in = "readonly" /\ yes
        /\ DoReplace(handler.with, handler.items) /\ handler' = NoHandler
     \/ handler.in \in {"blank", "readonly"} /\ ~yes /\ NothingReplaced
  /\ UNCHANGED <<thread, finding, findText, events, usages, references, current, others, cut>>

Next ==
  \/ NewSearch \/ \E term \in Sought : FindInFiles(term)
  \/ StopReturns \/ StopTerminates
  \/ RunBegins \/ SearchesLine \/ RunEnds \/ Dies \/ Delivers
  \/ \E term \in Terms : FindUsages(term)
  \/ UsagesHead \/ UsagesError \/ UsagesOutput \/ UsagesFinish
  \/ \E term \in Terms : FindReferences(term)
  \/ ReferencesAnswer
  \/ \E l \in DOMAIN text.lines : Edit(l)
  \/ \E with \in Replacements, checked \in SUBSET DOMAIN panel.rows : PressReplace(with, checked)
  \/ \E yes \in BOOLEAN : Answers(yes)

Spec == Init /\ [][Next]_vars

-----------------------------------------------------------------------------
(* Properties.                                                             *)

Texts  == [lines : Seq(Seq(Tokens)), ver : Nat]
Searches == [run : Nat, term : Sought, file : Texts]
Rows ==
  [source : {"file", "usages", "references"}, run : Nat, marks : Seq(Tokens \cup Sought),
   ver : Nat, line : Int, col : Int, len : Nat]
Found == {row \in Rows : row.source = "file" /\ row.run # 0}
Events ==
  [is : {"started"}, of : Searches] \cup [is : {"result"}, row : Found] \cup [is : {"finished"}]

Threads ==
  [state : {"idle", "starting", "running"}, killed : BOOLEAN, run : Nat, term : Sought,
   file : Texts, line : Nat \ {0}]
Handlers ==
  [in : {"none", "stop", "blank", "readonly"}, term : Sought, items : Seq(Rows), with : Seq(Tokens)]
Processes ==
  [state : {"idle", "running"}, run : {0}, term : Sought, text : Tokens \cup Sought,
   head : BOOLEAN, file : Texts, line : Nat \ {0}]
Requests == [state : {"idle", "asked"}, run : {0}, term : Sought, file : Texts]
Panels ==
  [page : {"search", "results"}, term : Seq(Tokens \cup Sought), rows : Seq(Rows),
   busy : BOOLEAN, canReplace : BOOLEAN, of : Searches]

\* The type invariant; a thread that is not idle is at a run, and a thread that
\* is killed is not idle.
SearchTypeOK ==
  /\ text \in Texts /\ disk \in Texts
  /\ thread \in Threads
  /\ thread.state # "idle" => thread.run # 0
  /\ thread.killed => thread.state # "idle"
  /\ finding \in BOOLEAN /\ findText \in Sought
  /\ events \in Seq(Events)
  /\ handler \in Handlers
  /\ usages \in Processes
  /\ references \in Requests
  /\ current \in {"file", "usages", "references"}
  /\ panel \in Panels
  /\ others \in Nat /\ cut \subseteq Nat

\* What SearchRuns sees: the run that is searching, what it has posted, and the
\* runs of which results are shown; what was replaced is of no run.
Searching == IF thread.state = "running" THEN thread.run ELSE 0
PostOf(e) == [is |-> e.is, run |-> IF e.is = "result" THEN e.row.run ELSE 0]
Posted    == [i \in DOMAIN events |-> PostOf(events[i])]
Shown     == {panel.rows[i].run : i \in DOMAIN panel.rows} \ {0}

\* What Find in Files shows is of one run of its thread, however often it was
\* started, stopped and killed meanwhile: this is SearchRuns, in which that is a
\* theorem.
Runs == INSTANCE SearchRuns WITH searching <- Searching, posted <- Posted, shown <- Shown
ImplementsSearchRuns == Runs!Spec

\* A row marks in the text what it was found for, or what it was replaced with,
\* unless the text has changed since: what Replace and Revert go by.
Marks(row) ==
  row.ver = text.ver =>
    /\ row.line \in DOMAIN text.lines
    /\ SubSeq(text.lines[row.line], row.col + 1, row.col + row.len) = row.marks

\* A line in which what its rows mark stands replaced: the parts of the line
\* between what they mark, with the replacement in between.
Replaced(line, rows, with) ==
  LET end(n)   == IF n = 0 THEN 0 ELSE rows[n].col + rows[n].len
      upTo[n \in 0..Len(rows)] ==
        IF n = 0 THEN <<>>
        ELSE upTo[n - 1] \o SubSeq(line, end(n - 1) + 1, rows[n].col) \o with
  IN  upTo[Len(rows)] \o SubSeq(line, end(Len(rows)) + 1, Len(line))

RowsOf(rows, l) == Selected(rows, {i \in DOMAIN rows : rows[i].line = l})

\* Rows of Find in Files that are not older than the text mark what they are of,
\* and replacing, and replacing again to revert it, changes what they mark and
\* nothing else, however it moves the rows that follow on the same line.  Rows of
\* Find Usages may be too long (UsagesRows), and references are a line too high
\* (ReferencesMark).
ReplacesWhatIsMarked ==
  (/\ OneSearch(panel.rows)
   /\ \A i \in DOMAIN panel.rows : panel.rows[i].source = "file" /\ panel.rows[i].ver = text.ver) =>
    /\ \A i \in DOMAIN panel.rows : Marks(panel.rows[i])
    /\ \A with \in Replacements :
         Replace(text.lines, panel.rows, with).lines =
           [l \in DOMAIN text.lines |->
              Replaced(text.lines[l], RowsOf(panel.rows, l), with)]

FileRows(rows) == Selected(rows, {i \in DOMAIN rows : rows[i].source = "file"})

\* A search that nobody stopped has found everything when it has ended.
CompleteUnlessCut ==
  LET of == panel.of IN
  thread.state = "idle" /\ events = <<>> /\ of.run \notin cut \cup {0} =>
    FileRows(panel.rows) = AllRows("file", of.run, of.term, of.file)

\* The rows of the panel are those of one search.
PanelOfOneSearch == OneSearch(panel.rows)

\* A reference marks the name in the text too.
ReferencesMark ==
  \A i \in DOMAIN panel.rows : panel.rows[i].source = "references" => Marks(panel.rows[i])

-----------------------------------------------------------------------------
(* Fairness: the thread and the process come to an end, events are         *)
(* delivered, also while a question is open, and waits time out.           *)

FairSpec ==
  /\ Spec
  /\ WF_vars(RunBegins) /\ WF_vars(SearchesLine) /\ WF_vars(RunEnds)
  /\ WF_vars(StopReturns \/ StopTerminates)
  /\ WF_vars(Delivers) /\ WF_vars(UsagesFinish)

\* Whatever is searched for, the panel stops searching.
Settles == panel.busy ~> ~panel.busy
=============================================================================
