----------------------------- MODULE MCNavigation -----------------------------
(***************************************************************************)
(* An instance of Navigation for TLC: three files, the first with two      *)
(* places, in at most two tabs, and a history shorter than four.           *)
(***************************************************************************)
EXTENDS Navigation

CONSTANTS f1, f2, f3

MCFiles     == {f1, f2, f3}
MCPlacesOf  == [f \in MCFiles |-> IF f = f1 THEN {1, 2} ELSE {1}]
MCCanVanish == {f2}

\* What Trimmed leaves of a history is what the loop of addNavigationHistory
\* leaves, wherever the position is and by however many entries it is too long.
ASSUME TrimmedIsLoop ==
  \A length \in 0..(Limit + 2) : \A at \in 0..length :
    LET n == [entries  |-> [i \in 1..length |-> i], position |-> at,
              back     |-> FALSE, forward |-> FALSE]
    IN  Trimmed(n) = TrimLoop(n)
===============================================================================
