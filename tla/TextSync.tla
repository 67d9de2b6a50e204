------------------------------- MODULE TextSync -------------------------------
(***************************************************************************)
(* What a language server may rely on: the text documents a client shows   *)
(* it are opened at a positive version and change only to higher versions  *)
(* until they are closed.                                                  *)
(* One handler of the client may act on several documents.                 *)
(***************************************************************************)
EXTENDS Naturals

CONSTANTS Uris, Texts

VARIABLE docs   \* [Uris -> [version, text]]; version 0: not open

Closed == [version |-> 0, text |-> 0]

Opens(u)   == /\ docs[u] = Closed
              /\ docs'[u].version > 0
              /\ docs'[u].text \in Texts
Changes(u) == /\ docs[u] # Closed
              /\ docs'[u].version > docs[u].version
              /\ docs'[u].text \in Texts
Closes(u)  == docs'[u] = Closed
Keeps(u)   == docs'[u] = docs[u]

Init == docs = [u \in Uris |-> Closed]

Next ==
  /\ DOMAIN docs' = Uris
  /\ \A u \in Uris : Opens(u) \/ Changes(u) \/ Closes(u) \/ Keeps(u)

Spec == Init /\ [][Next]_docs
=============================================================================
