---------------------------- MODULE MCBuildTasks ----------------------------
(***************************************************************************)
(* Instances of BuildTasks for TLC.                                        *)
(***************************************************************************)
EXTENDS BuildTasks

CONSTANTS Build, Run, RunTerm, BuildAndRun, Debug, Cover

\* BuildAndRun is that of deploy/litebuild/gosrc.xml, Debug a chain that ends
\* without a process as the one there does, Cover a chain of three that does
\* not kill.
MCActions == {Build, Run, RunTerm, BuildAndRun, Debug, Cover}
MCTasks ==
  [a \in MCActions |-> CASE a = BuildAndRun -> <<Build, Run>>
                       [] a = Debug -> <<Build, RunTerm>>
                       [] a = Cover -> <<Build, Run, Build>>
                       [] OTHER -> <<>>]
MCKillOld == {BuildAndRun, Debug}
MCProcessless == {RunTerm}
=============================================================================
