------------------------------- MODULE MCGoTools -------------------------------
(***************************************************************************)
(* An instance of GoTools for TLC: two Go files.  The first is typed into  *)
(* twice, so that a text may be saved while an earlier one is formatted;   *)
(* the text typed into the second does not parse.                          *)
(***************************************************************************)
EXTENDS GoTools, TLC

CONSTANTS f1, f2

MCFiles    == {f1, f2}
MCGoFiles  == {f1, f2}
MCMaxTexts == f1 :> 2 @@ f2 :> 1
MCBroken   == {[file |-> f2, n |-> 1]}
=============================================================================
