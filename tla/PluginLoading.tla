----------------------------- MODULE PluginLoading -----------------------------
(***************************************************************************)
(* PluginManager orders the plugins it finds by the plugins they name as   *)
(* their dependencies, and LiteApp loads them one after the other.  A      *)
(* plugin that looks for an object of another one while it loads finds it  *)
(* only if the other came first.                                           *)
(***************************************************************************)
EXTENDS Integers, FiniteSets

CONSTANTS
  Plugins,      \* the plugins' ids
  Place,        \* [Plugins -> Nat]: the place of an id in alphabetical order
  Builds,       \* what may be installed: the libraries found, and the
                \* dependList of each
  MayStayOut    \* those the user may disable, or whose load may fail

ASSUME PluginAssumption ==
  /\ IsFiniteSet(Plugins)
  /\ Place \in [Plugins -> Nat]
  /\ \A p, q \in Plugins : Place[p] = Place[q] => p = q
  /\ Builds \subseteq [found : SUBSET Plugins, depends : [Plugins -> SUBSET Plugins]]

VARIABLES
  build,        \* which build runs
  visited,      \* the entries of m_factoryList initPlugins has been through
  loaded,       \* LiteApp::m_pluginList
  crashed       \* initPlugins has met a null factory

vars == <<build, visited, loaded, crashed>>

\* idIndexMap: each plugin counts down for each one that names it.
DependIndex(b, p) == -Cardinality({q \in b.found : p \in b.depends[q]})

\* The keys of idIndexMap: a plugin that is named has an entry, found or not.
Listed(b) == b.found \cup UNION {b.depends[q] : q \in b.found}

\* m_factoryList goes by index, and by falling id where the index is the same.
Precedes(b, p, q) ==
  \/ DependIndex(b, p) < DependIndex(b, q)
  \/ DependIndex(b, p) = DependIndex(b, q) /\ Place[p] > Place[q]

\* Mutant of NextInList: the list is gone through from its end.
LastInList(p) ==
  /\ p \in Listed(build) \ visited
  /\ \A q \in Listed(build) \ (visited \cup {p}) : Precedes(build, q, p)

\* p is the first of the list that was not visited.
NextInList(p) ==
  /\ p \in Listed(build) \ visited
  /\ \A q \in Listed(build) \ (visited \cup {p}) : Precedes(build, p, q)

Init ==
  /\ build \in Builds
  /\ visited = {} /\ loaded = {} /\ crashed = FALSE

\* A step of LiteApp::initPlugins.
InitPlugin(p) ==
  /\ ~crashed /\ NextInList(p)
  /\ visited' = visited \cup {p}
  /\ crashed' = (p \notin build.found)
  /\ loaded' \in {loaded \cup ({p} \cap build.found)} \cup
                 (IF p \in MayStayOut THEN {loaded} ELSE {})
  /\ UNCHANGED build

Next == \E p \in Plugins : InitPlugin(p)

Spec == Init /\ [][Next]_vars

-----------------------------------------------------------------------------
(* Properties.                                                             *)

\* A plugin names the dependencies of its dependencies too, and not itself:
\* then no chain of dependencies comes back to where it started.
NamesAll(b) ==
  \A p \in b.found :
    /\ p \notin b.depends[p]
    /\ \A q \in b.depends[p] \cap b.found : b.depends[q] \subseteq b.depends[p]

\* What a plugin needs is loaded when the plugin loads, unless it stays out.
Finds(p, needs) == p \in loaded => needs \ MayStayOut \subseteq loaded

\* If every plugin names the dependencies of its dependencies, it finds all of
\* them when it loads, although loadPlugins follows no chain of dependencies.
CompleteListsLoadInOrder ==
  NamesAll(build) => \A p \in Plugins : Finds(p, build.depends[p])

\* A plugin that no other names finds everything that any plugin names:
\* loadPlugins may fail only a plugin that depends on one and is depended on.
LeavesComeLast ==
  \A p \in Plugins :
    (\A q \in build.found : p \notin build.depends[q]) =>
      \A q \in build.found : Finds(p, build.depends[q])
=============================================================================
