----------------------------- MODULE EditorMarks -----------------------------
(***************************************************************************)
(* LiteEditorMark: the marks of one type in one document.  The marks hang  *)
(* on the blocks of the text; m_typeLineMarkMap, an index of them by line, *)
(* answers every question about them.  When lines come or go the blocks    *)
(* take their marks along, and the index is brought up to date one mark    *)
(* after the other.                                                        *)
(***************************************************************************)
EXTENDS Integers, FiniteSetsExt, SequencesExt

\* A record of marks: nodes are the blocks with a mark, index the keys of
\* m_typeLineMarkMap.

\* addMarkList looks at the block, not at the index.
AddMark(m, line) ==
  IF line \in m.nodes THEN m
  ELSE [nodes |-> m.nodes \cup {line}, index |-> m.index \cup {line}]

\* Mutant of RemoveMark: the index keeps the line.
RemoveMarkKeeps(m, line) == [m EXCEPT !.nodes = @ \ {line}]

RemoveMark(m, line) ==
  IF line \notin m.nodes THEN m
  ELSE [nodes |-> m.nodes \ {line}, index |-> m.index \ {line}]

\* updateBlockNumber, for a mark whose block had number old.
UpdateBlockNumber(index, old, new) ==
  IF new = old THEN index ELSE (index \ {old}) \cup {new}

\* updateMarksLineNumber goes through the blocks from the first to the last;
\* those behind the given line have moved by d.
UpdateInTurn(m, line, d) ==
  LET To(l) == IF l > line THEN l + d ELSE l IN
  [nodes |-> {To(l) : l \in m.nodes},
   index |-> FoldLeft(LAMBDA index, l : UpdateBlockNumber(index, l, To(l)),
                      m.index, SetToSortSeq(m.nodes, <))]

\* What that leaves, for a d other than zero: the lines the marks come from are
\* taken out and those they go to are entered; on the way down the text, an
\* entry is taken out again where a later mark comes from.
UpdateMarksLineNumber(m, line, d) ==
  LET moved   == {l \in m.nodes : l > line}
      entered == {l + d : l \in moved}
  IN [nodes |-> (m.nodes \ moved) \cup entered,
      index |-> (m.index \ moved) \cup (IF d > 0 THEN entered \ moved ELSE entered)]

\* k lines are inserted behind the given one, -1 for the top of the text.
InsertLines(m, line, k) == UpdateMarksLineNumber(m, line, k)

\* The k lines behind the given one are joined to it; their marks go with
\* their blocks (removedFromEditor).
RemoveLines(m, line, k) ==
  LET gone == m.nodes \cap (line + 1)..(line + k)
      left == [nodes |-> m.nodes \ gone, index |-> m.index \ gone]
  IN UpdateMarksLineNumber(left, line, -k)
=============================================================================
