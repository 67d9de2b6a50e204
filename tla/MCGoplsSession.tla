---------------------------- MODULE MCGoplsSession ----------------------------
(***************************************************************************)
(* An instance of GoplsSession for TLC: two Go editors of different        *)
(* workspaces and a text editor of the first, and a Save As path in the    *)
(* second workspace.                                                       *)
(***************************************************************************)
EXTENDS GoplsSession, TLC

CONSTANTS a, b, t, pa, pb, pt, mod1, mod2

MCEditors     == {a, b, t}
MCGoEditors   == {a, b}
MCPaths       == {pa, pb, pt}
MCInitialPath == a :> pa @@ b :> pb @@ t :> pt
MCSaveAsPaths == {pb}
MCKeys        == {mod1, mod2}
MCKey         == pa :> mod1 @@ pb :> mod2 @@ pt :> mod1
MCRootKey     == mod1
=============================================================================
