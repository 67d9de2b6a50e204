---------------------------- MODULE MCPluginLoading ----------------------------
(***************************************************************************)
(* Instances of PluginLoading for TLC: four plugins with any dependencies  *)
(* that form no circle, of which one may be missing; and the plugins that  *)
(* plugins/plugins.pro and plugins/CMakeLists.txt build, with their        *)
(* dependencies, those that have none and that no other names left out.    *)
(***************************************************************************)
EXTENDS PluginLoading, Sequences, TLC

\* In alphabetical order.
Ids == <<"bookmarks", "golangast", "golangcode", "golangdoc", "golangedit",
  "golangfmt", "golangpackage", "golangplay", "gopls", "gopresent", "jsonedit",
  "litebuild", "litedebug", "liteeditor", "liteenv", "litefind", "markdown",
  "quickopen", "rustedit", "terminal">>

Shipped      == {Ids[i] : i \in DOMAIN Ids}
ShippedPlace == [p \in Shipped |-> CHOOSE i \in DOMAIN Ids : Ids[i] = p]
ShippedDepends ==
  "bookmarks" :> {"liteeditor"} @@ "golangast" :> {"quickopen", "liteenv"} @@
  "golangcode" :> {"golangast", "liteenv"} @@ "golangdoc" :> {"liteenv", "liteeditor"} @@
  "golangedit" :> {"liteenv", "liteeditor", "litefind"} @@ "golangfmt" :> {"liteenv"} @@
  "golangpackage" :> {"liteenv"} @@ "golangplay" :> {"liteeditor", "golangedit"} @@
  "gopls" :> {"liteenv", "golangast", "litefind"} @@ "gopresent" :> {"liteeditor"} @@
  "jsonedit" :> {"liteeditor"} @@ "litebuild" :> {"liteenv"} @@
  "litedebug" :> {"litebuild", "litefind"} @@ "markdown" :> {"liteeditor"} @@
  "rustedit" :> {"liteeditor"} @@ "terminal" :> {"liteenv"} @@
  [p \in {"liteeditor", "liteenv", "litefind", "quickopen"} |-> {}]

QmakeBuild == [found |-> Shipped, depends |-> ShippedDepends]
CMakeBuild == [found |-> Shipped \ {"golangcode", "golangpackage"}, depends |-> ShippedDepends]

\* Any circle-free dependencies among four of them, one of which may be missing.
Four == {"golangast", "golangcode", "liteenv", "quickopen"}
FourBuilds ==
  {[found |-> f, depends |-> d @@ [p \in Shipped |-> {}]] :
     f \in {Four} \cup {Four \ {p} : p \in Four},
     d \in {g \in [Four -> SUBSET Four] :
             \A S \in SUBSET Four \ {{}} : \E p \in S : g[p] \cap S = {}}}

SmallBuilds == FourBuilds \cup {CMakeBuild}
OneMay      == {"golangcode"}

\* The order in which GoplsSession lets the slots of the two plugins run.
ASSUME GoplsComesFirst == Precedes(QmakeBuild, "gopls", "golangcode")

\* In the build that leaves golangcode out every plugin comes after those it
\* names, although gopls and golangplay do not name the dependencies of theirs;
\* with golangcode, golangast is named twice and comes before quickopen.
ASSUME CMakeInOrder ==
  \A p \in CMakeBuild.found : \A q \in ShippedDepends[p] \ OneMay : Precedes(CMakeBuild, q, p)
ASSUME QmakeOutOfOrder ==
  {<<p, q>> \in Shipped \X Shipped : q \in ShippedDepends[p] /\ Precedes(QmakeBuild, p, q)}
    = {<<"golangast", "quickopen">>}
=============================================================================
