---------------------------- MODULE MCFileReload ----------------------------
(***************************************************************************)
(* An instance of FileReload for TLC, with two files; and the texts on     *)
(* which the way a reload takes in a file is compared with the file: short *)
(* ones of lines that are empty, alike and unlike, and longer ones that    *)
(* differ at both ends, so that the diff has two hunks.                    *)
(***************************************************************************)
EXTENDS FileReload, DiffLoading

CONSTANTS f1, f2, x, xy, z, l1, l2, l3, l4, l5

MCFiles == {f1, f2}

MCSimilar == {<<x, xy>>}
MCLong    == {head \o <<l1, l2, l3, l4, l5>> \o tail :
                head \in {<<>>, <<x>>, <<z>>}, tail \in {<<>>, <<x>>, <<z>>, <<EmptyLine>>}}
MCTexts   == MCLong \cup UNION {[1..n -> {EmptyLine, x, xy, z}] : n \in 1..3}

NothingStays(a, b) ==
  /\ \A i \in DOMAIN a, j \in DOMAIN b : a[i] # b[j]
  /\ ~Alike(Head(b), a[Len(a)])

DiffsLoad ==
  \A a \in MCTexts, b \in MCTexts : LoadTextUseDiff(a, b) = b \/ NothingStays(a, b)

Reloaded(f) ==
  buffer[f].open /\ buffer'[f].open /\ buffer'[f].base # buffer[f].base /\ disk' = disk

\* A reloaded editor, which is unmodified, shows its file: the diff of any two
\* texts, carried out line by line on the one, gives the other
\* (LiteEditor::reload by difflib.h and EditorUtil::loadDiff), unless it takes
\* out every line first, which leaves an empty one behind.
ReloadShowsTheFile == [][\A f \in Files : Reloaded(f) => DiffsLoad]_vars
=============================================================================
