------------------------- MODULE MCDebugBreakpoints -------------------------
(***************************************************************************)
(* Instances of DebugBreakpoints for TLC: one file, in the directory of    *)
(* the program or outside it.                                              *)
(***************************************************************************)
EXTENDS DebugBreakpoints

CONSTANT Main

MCFiles == {Main}

\* The marks of a text of six lines, where the state space has two.  Moving
\* marks never makes the index name a line without one; lines joined are
\* followed exactly, k new lines only if no two marks behind them are k lines
\* apart: the entry of the first is made where the second's is then removed.
ASSUME MarksFollowLines ==
  \A nodes \in SUBSET (0..5), line \in -1..5, k \in 1..3 :
    LET full  == [nodes |-> nodes, index |-> nodes]
        after == InsertLines(full, line, k)
        apart == \A l \in nodes : l > line => l + k \notin nodes
    IN /\ after.index \subseteq after.nodes
       /\ after.index = after.nodes <=> apart
       /\ LET joined == RemoveLines(full, line, k)
          IN joined.index = joined.nodes

\* What updateMarksLineNumber leaves in the index is what going from mark to
\* mark does, whatever the index was.
ASSUME UpdatedIsInTurn ==
  \A nodes, index \in SUBSET (0..4), line \in -1..4, d \in -3..3 \ {0} :
    LET m == [nodes |-> nodes, index |-> index]
    IN UpdateMarksLineNumber(m, line, d) = UpdateInTurn(m, line, d)
=============================================================================
