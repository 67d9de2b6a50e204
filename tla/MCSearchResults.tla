---------------------------- MODULE MCSearchResults ----------------------------
(***************************************************************************)
(* An instance of SearchResults for TLC: two lines, the second with two    *)
(* hits of a and a wide token between them, and replacements that are      *)
(* shorter, longer, and contain what was searched for.                     *)
(***************************************************************************)
EXTENDS SearchResults

CONSTANTS a, b

MCLines        == <<<<b>>, <<a, b, a>>>>
MCReplacements == {<<>>, <<a, a>>}
=============================================================================
