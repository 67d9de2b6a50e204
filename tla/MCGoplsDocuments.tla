--------------------------- MODULE MCGoplsDocuments ---------------------------
(***************************************************************************)
(* An instance of GoplsDocuments for TLC: two Go editors of different      *)
(* workspaces, and a spare path in the first.  The second document has one *)
(* version: its text changes only while the server does not listen.        *)
(***************************************************************************)
EXTENDS GoplsDocuments, TLC

CONSTANTS a, b, pa, pb, pc, mod1, mod2

MCEditors     == {a, b}
MCPaths       == {pa, pb, pc}
MCInitialPath == a :> pa @@ b :> pb
MCKeys        == {mod1, mod2}
MCKey         == pa :> mod1 @@ pb :> mod2 @@ pc :> mod1
MCRootKey     == mod1
MCSpare       == {pc}
MCDialogs     == {a}
MCMaxVersion  == a :> 3 @@ b :> 1
=============================================================================
