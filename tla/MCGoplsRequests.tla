---------------------------- MODULE MCGoplsRequests ----------------------------
(***************************************************************************)
(* An instance of GoplsRequests for TLC: two Go editors of one workspace,  *)
(* so that an answer may come after a switch; the environment, the options *)
(* and crashes restart the server.                                         *)
(***************************************************************************)
EXTENDS GoplsRequests, TLC

CONSTANTS a, b, pa, pb, mod1

MCEditors     == {a, b}
MCPaths       == {pa, pb}
MCInitialPath == a :> pa @@ b :> pb
MCNone        == {}
MCKeys        == {mod1}
MCKey         == [p \in MCPaths |-> mod1]
=============================================================================
