------------------------------ MODULE DiffLoading ------------------------------
(***************************************************************************)
(* How an editor takes in a text: LiteEditor::loadTextUseDiff, by which it *)
(* reloads its file.  difflib.h writes the difference between what the     *)
(* editor holds and the new text as a unified diff, and                    *)
(* EditorUtil::loadDiff carries the diff out in the document, one line     *)
(* after the other.                                                        *)
(*                                                                         *)
(* A text is the sequence of its lines, at least one; a document the       *)
(* sequence of its blocks.  Positions count from zero, as in the code: a   *)
(* range is <<i1, i2>>, the lines i1 to i2 - 1.  Left out: popular lines   *)
(* (texts of 200 lines and more), and the cursor, which restoreState puts  *)
(* back where it was after loadDiff has placed it.                         *)
(***************************************************************************)
EXTENDS Integers, Sequences

LOCAL INSTANCE SequencesExt

CONSTANTS
  Context,    \* the lines shown around a change
  EmptyLine,  \* "", with which every line begins
  Similar     \* pairs of lines that begin alike

ASSUME DiffAssumption == Context \in Nat

Part(s, i1, i2) == SubSeq(s, i1 + 1, i2)

Joined(ss) ==
  LET upto[n \in 0..Len(ss)] == IF n = 0 THEN <<>> ELSE upto[n - 1] \o ss[n]
  IN  upto[Len(ss)]

-----------------------------------------------------------------------------
(* The difference.                                                         *)

Longer(m, n) ==
  \/ m.size > n.size
  \/ m.size = n.size /\ (m.a < n.a \/ (m.a = n.a /\ m.b < n.b))

\* SequenceMatcher::findLongestMatch: of the longest, the first in a, in b.
FindLongestMatch(a, b, alo, ahi, blo, bhi) ==
  LET common == {m \in [a : alo..ahi - 1, b : blo..bhi - 1, size : 1..ahi - alo] :
                   /\ m.a + m.size <= ahi /\ m.b + m.size <= bhi
                   /\ Part(a, m.a, m.a + m.size) = Part(b, m.b, m.b + m.size)}
  IN  IF common = {} THEN [a |-> alo, b |-> blo, size |-> 0]
      ELSE CHOOSE m \in common : \A n \in common \ {m} : Longer(m, n)

\* Without junk lines no two of them are adjacent.
MatchBlocks(a, b) ==
  LET matched[alo \in 0..Len(a), ahi \in 0..Len(a), blo \in 0..Len(b), bhi \in 0..Len(b)] ==
        LET m == FindLongestMatch(a, b, alo, ahi, blo, bhi)
            i == m.a + m.size
            j == m.b + m.size
        IN  IF m.size = 0 THEN <<>>
            ELSE (IF alo < m.a /\ blo < m.b THEN matched[alo, m.a, blo, m.b] ELSE <<>>)
                 \o <<m>>
                 \o (IF i < ahi /\ j < bhi THEN matched[i, ahi, j, bhi] ELSE <<>>)
  IN  matched[0, Len(a), 0, Len(b)]

OpCode(tag, i1, i2, j1, j2) == [tag |-> tag, i1 |-> i1, i2 |-> i2, j1 |-> j1, j2 |-> j2]

GetMatchingBlocks(a, b) ==
  Append(MatchBlocks(a, b), [a |-> Len(a), b |-> Len(b), size |-> 0])

GetOpCodes(a, b) ==
  LET matching == <<[a |-> 0, b |-> 0, size |-> 0]>> \o GetMatchingBlocks(a, b)
      Between(m, n) == \* the change before a match, and the match
        LET i == m.a + m.size
            j == m.b + m.size
        IN  (IF i < n.a \/ j < n.b THEN <<OpCode("change", i, n.a, j, n.b)>> ELSE <<>>)
            \o (IF n.size > 0 THEN <<OpCode("equal", n.a, n.a + n.size, n.b, n.b + n.size)>>
                ELSE <<>>)
  IN  Joined([n \in 1..Len(matching) - 1 |-> Between(matching[n], matching[n + 1])])

\* The last, and the first, lines of an equal range.
LastOf(c, n)  == [c EXCEPT !.i1 = IF c.i2 - n > @ THEN c.i2 - n ELSE @,
                           !.j1 = IF c.j2 - n > @ THEN c.j2 - n ELSE @]
FirstOf(c, n) == [c EXCEPT !.i2 = IF c.i1 + n < @ THEN c.i1 + n ELSE @,
                           !.j2 = IF c.j1 + n < @ THEN c.j1 + n ELSE @]

IsEqual(c) == c.tag = "equal"

\* Changes with at most twice the context between them share a group.
GetGroupedOpCodes(codes) ==
  LET trimmed == [n \in DOMAIN codes |->
                    IF ~IsEqual(codes[n]) THEN codes[n]
                    ELSE IF n = 1 THEN LastOf(codes[n], Context)
                    ELSE IF n = Len(codes) THEN FirstOf(codes[n], Context) ELSE codes[n]]
      splits(c) == IsEqual(c) /\ c.i2 - c.i1 > 2 * Context
      upto[n \in 0..Len(codes)] ==
        IF n = 0 THEN [done |-> <<>>, group |-> <<>>]
        ELSE LET s == upto[n - 1]
                 c == trimmed[n]
             IN  IF splits(c)
                 THEN [done  |-> Append(s.done, Append(s.group, FirstOf(c, Context))),
                       group |-> <<LastOf(c, Context)>>]
                 ELSE [s EXCEPT !.group = Append(@, c)]
      end == upto[Len(codes)]
  IN  SelectSeq(Append(end.done, end.group), LAMBDA g : \E n \in DOMAIN g : ~IsEqual(g[n]))

Signed(sign, lines) == [n \in DOMAIN lines |-> [sign |-> sign, line |-> lines[n]]]

\* formatRangeUnified, and how loadDiff reads it: a count of one is not
\* written, and is read as zero.
Begins(i1, i2) == IF i2 = i1 THEN i1 ELSE i1 + 1
Count(i1, i2)  == IF i2 - i1 = 1 THEN 0 ELSE i2 - i1

\* GetUnifiedDiffStringList.
UnifiedDiff(a, b) ==
  LET Body(c) == IF IsEqual(c) THEN Signed(" ", Part(a, c.i1, c.i2))
                 ELSE Signed("-", Part(a, c.i1, c.i2)) \o Signed("+", Part(b, c.j1, c.j2))
      Hunk(g) ==
        <<[sign |-> "@", s1 |-> Begins(g[1].i1, Last(g).i2), s2 |-> Count(g[1].i1, Last(g).i2),
           n2 |-> Count(g[1].j1, Last(g).j2)]>>
        \o Joined([n \in DOMAIN g |-> Body(g[n])])
      groups == GetGroupedOpCodes(GetOpCodes(a, b))
  IN  Joined([n \in DOMAIN groups |-> Hunk(groups[n])])

-----------------------------------------------------------------------------
(* Carrying it out.                                                        *)

Alike(x, y) == EmptyLine \in {x, y} \/ <<x, y>> \in Similar \/ <<y, x>> \in Similar

\* A line put before block n, or behind the last one.
PutLine(doc, n, line) == IF n < Len(doc) THEN InsertAt(doc, n + 1, line) ELSE Append(doc, line)

\* Mutant of TakeLine: the break before the last block stays.
TakeLineKeepsBreak(doc, n) ==
  IF n + 1 = Len(doc) THEN [doc EXCEPT ![n + 1] = EmptyLine] ELSE RemoveAt(doc, n + 1)

\* Block n taken out; of the last one the break before it, if there is one.
TakeLine(doc, n) == IF Len(doc) = 1 THEN <<EmptyLine>> ELSE RemoveAt(doc, n + 1)

\* One line of the diff, after what the lines before it have left.
LoadLine(s, diff, n) ==
  LET d == diff[n]
      rewrites == /\ n < Len(diff) /\ diff[n + 1].sign = "+"
                  /\ Alike(diff[n + 1].line, s.doc[s.at + 1])
  IN  CASE s.skip       -> [s EXCEPT !.skip = FALSE]
        [] d.sign = "@" -> [s EXCEPT !.at = s.add + d.s1 - 1, !.add = @ + d.n2 - d.s2]
        [] d.sign = " " -> [s EXCEPT !.at = @ + 1]
        [] d.sign = "+" -> [s EXCEPT !.doc = PutLine(@, s.at, d.line), !.at = @ + 1]
        [] d.sign = "-" -> IF rewrites
                           THEN [s EXCEPT !.doc[s.at + 1] = diff[n + 1].line, !.at = @ + 1,
                                          !.skip = TRUE]
                           ELSE [s EXCEPT !.doc = TakeLine(@, s.at)]

LoadDiff(text, diff) ==
  LET upto[n \in 0..Len(diff)] ==
        IF n = 0 THEN [doc |-> text, at |-> 0, add |-> 0, skip |-> FALSE]
        ELSE LoadLine(upto[n - 1], diff, n)
  IN  upto[Len(diff)].doc

\* LiteEditor::loadTextUseDiff, of an editor that holds text a.
LoadTextUseDiff(a, b) == LoadDiff(a, UnifiedDiff(a, b))
=============================================================================
