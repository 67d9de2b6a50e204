-------------------------- MODULE PluginLoadingProofs --------------------------
(***************************************************************************)
(* Proofs about PluginLoading, for any finite set of plugins with any      *)
(* dependencies, of which any may be missing, disabled or fail to load.    *)
(***************************************************************************)
EXTENDS PluginLoading, FiniteSetTheorems, TLAPS

BuildType == [found : SUBSET Plugins, depends : [Plugins -> SUBSET Plugins]]

\* Those that name p: what loadPlugins counts.
Namers(b, p) == {q \in b.found : p \in b.depends[q]}

-----------------------------------------------------------------------------
(* The order of the list.                                                  *)

LEMMA NamersCounted ==
  ASSUME PluginAssumption, NEW b \in BuildType, NEW p \in Plugins
  PROVE  /\ IsFiniteSet(Namers(b, p))
         /\ Cardinality(Namers(b, p)) \in Nat
         /\ DependIndex(b, p) = -Cardinality(Namers(b, p))
         /\ DependIndex(b, p) \in Int
<1>1. Namers(b, p) \in SUBSET Plugins
  BY DEF Namers, BuildType
<1>2. IsFiniteSet(Namers(b, p))
  BY <1>1, FS_Subset DEF PluginAssumption
<1>3. Cardinality(Namers(b, p)) \in Nat
  BY <1>2, FS_CardinalityType
<1> QED
  BY <1>2, <1>3 DEF DependIndex, Namers

LEMMA PrecedesIsAnOrder ==
  ASSUME PluginAssumption, NEW b \in BuildType, NEW p \in Plugins, NEW q \in Plugins,
         Precedes(b, p, q)
  PROVE  ~Precedes(b, q, p)
<1>1. DependIndex(b, p) \in Int /\ DependIndex(b, q) \in Int
  BY NamersCounted
<1>2. Place[p] \in Nat /\ Place[q] \in Nat
  BY DEF PluginAssumption
<1> QED
  BY <1>1, <1>2 DEF Precedes

\* Whoever names p also names what p names, and p itself does not name p: what
\* p names is named more often.
LEMMA NamedMoreOften ==
  ASSUME PluginAssumption, NEW b \in BuildType, NamesAll(b),
         NEW p \in b.found, NEW q \in b.depends[p]
  PROVE  Precedes(b, q, p)
<1>1. p \in Plugins /\ q \in Plugins
  BY DEF BuildType
<1>2. Namers(b, p) \in SUBSET Namers(b, q)
  BY DEF Namers, NamesAll
<1>3. p \in Namers(b, q) /\ p \notin Namers(b, p)
  BY DEF Namers, NamesAll
<1>4. /\ IsFiniteSet(Namers(b, q))
      /\ Cardinality(Namers(b, q)) \in Nat /\ Cardinality(Namers(b, p)) \in Nat
      /\ DependIndex(b, q) = -Cardinality(Namers(b, q))
      /\ DependIndex(b, p) = -Cardinality(Namers(b, p))
  BY <1>1, NamersCounted
<1>5. /\ Cardinality(Namers(b, p)) <= Cardinality(Namers(b, q))
      /\ Cardinality(Namers(b, q)) # Cardinality(Namers(b, p))
  BY <1>2, <1>3, <1>4, FS_Subset
<1>6. DependIndex(b, q) < DependIndex(b, p)
  BY <1>4, <1>5
<1> QED
  BY <1>6 DEF Precedes

\* What is named comes before what is not.
LEMMA UnnamedComeLast ==
  ASSUME PluginAssumption, NEW b \in BuildType, NEW p \in Plugins,
         \A r \in b.found : p \notin b.depends[r],
         NEW s \in b.found, NEW q \in b.depends[s]
  PROVE  Precedes(b, q, p)
<1>1. q \in Plugins
  BY DEF BuildType
<1>2. Namers(b, p) = {} /\ Namers(b, q) # {}
  BY DEF Namers
<1>3. /\ IsFiniteSet(Namers(b, q)) /\ Cardinality(Namers(b, q)) \in Nat
      /\ DependIndex(b, q) = -Cardinality(Namers(b, q))
      /\ DependIndex(b, p) = -Cardinality(Namers(b, p))
  BY <1>1, NamersCounted
<1>4. Cardinality(Namers(b, p)) = 0 /\ Cardinality(Namers(b, q)) # 0
  BY <1>2, <1>3, FS_EmptySet
<1>5. DependIndex(b, q) < DependIndex(b, p)
  BY <1>3, <1>4
<1> QED
  BY <1>5 DEF Precedes

-----------------------------------------------------------------------------
(* Loading follows the list.                                               *)

TypeOK ==
  /\ build \in BuildType
  /\ visited \subseteq Listed(build) /\ loaded \subseteq visited \cap build.found
  /\ crashed \in BOOLEAN

\* Until a null factory is met every entry was one of a plugin, and it was
\* loaded if it could be.
Passed == ~crashed => visited \subseteq build.found \cap (loaded \cup MayStayOut)

\* What precedes a loaded plugin in the list was loaded if it could be.
FollowsList ==
  \A p \in loaded, q \in Listed(build) :
    Precedes(build, q, p) => q \in loaded \cup MayStayOut

LoadInvariant == TypeOK /\ Passed /\ FollowsList

LEMMA ListedArePlugins ==
  ASSUME NEW b \in BuildType
  PROVE  Listed(b) \subseteq Plugins
BY DEF BuildType, Listed

LEMMA InitLoad == Init => LoadInvariant
BY PluginAssumption DEF PluginAssumption, Init, LoadInvariant, TypeOK, Passed, FollowsList, BuildType

LEMMA StepLoad ==
  ASSUME PluginAssumption, LoadInvariant, NEW x \in Plugins, InitPlugin(x)
  PROVE  LoadInvariant'
<1> USE DEF LoadInvariant
<1>0. build' = build /\ build \in BuildType /\ ~crashed
  BY DEF InitPlugin, TypeOK
<1>1. x \in Listed(build) \ visited
  BY DEF InitPlugin, NextInList
<1>2. visited' = visited \cup {x} /\ crashed' = (x \notin build.found)
  BY DEF InitPlugin
<1>3. \/ loaded' = loaded \cup ({x} \cap build.found)
      \/ x \in MayStayOut /\ loaded' = loaded
  BY DEF InitPlugin
<1>4. TypeOK'
  BY <1>0, <1>1, <1>2, <1>3 DEF TypeOK
<1>5. Passed'
  BY <1>0, <1>2, <1>3 DEF Passed
<1>6. FollowsList'
  <2> SUFFICES ASSUME NEW p \in loaded', NEW q \in Listed(build), Precedes(build, q, p)
               PROVE  q \in loaded' \cup MayStayOut
    BY <1>0 DEF FollowsList
  <2>1. CASE p \in loaded
    BY <1>3, <2>1 DEF FollowsList
  <2>2. CASE p \notin loaded
    <3>1. p = x
      BY <1>3, <2>2
    <3>2. p \in Plugins /\ q \in Plugins
      BY <1>0, <3>1, ListedArePlugins
    <3>3. ~Precedes(build, p, q)
      BY <1>0, <3>2, PrecedesIsAnOrder
    <3>4. q # p
      BY <3>3
    <3>5. q \in visited
      BY <3>1, <3>3, <3>4 DEF InitPlugin, NextInList
    <3> QED
      BY <1>0, <1>3, <3>5 DEF Passed
  <2> QED
    BY <2>1, <2>2
<1> QED
  BY <1>4, <1>5, <1>6

\* Of the list from its beginning, everything that could load has loaded: the
\* loop of initPlugins skips nothing, and stops at a null factory.
THEOREM LoadInvariantHolds == Spec => []LoadInvariant
<1>1. LoadInvariant /\ [Next]_vars => LoadInvariant'
  <2> SUFFICES ASSUME LoadInvariant, [Next]_vars
               PROVE  LoadInvariant'
    OBVIOUS
  <2>1. CASE Next
    BY <2>1, StepLoad, PluginAssumption DEF Next
  <2>2. CASE UNCHANGED vars
    BY <2>2 DEF vars, LoadInvariant, TypeOK, Passed, FollowsList
  <2> QED
    BY <2>1, <2>2
<1> QED
  BY <1>1, InitLoad, PTL DEF Spec

-----------------------------------------------------------------------------
(* The promises.                                                           *)

\* LiteApp::initPlugins gives a plugin what it names if every plugin names the
\* dependencies of its dependencies, whatever is missing or stays out.
THEOREM CompleteListsSuffice == Spec => []CompleteListsLoadInOrder
<1>1. LoadInvariant => CompleteListsLoadInOrder
  <2> SUFFICES ASSUME LoadInvariant, NamesAll(build),
                      NEW p \in loaded, NEW q \in build.depends[p] \ MayStayOut
               PROVE  q \in loaded
    BY DEF CompleteListsLoadInOrder, Finds
  <2>1. build \in BuildType /\ p \in build.found
    BY DEF LoadInvariant, TypeOK
  <2>2. q \in Listed(build)
    BY <2>1 DEF Listed
  <2>3. Precedes(build, q, p)
    BY <2>1, NamedMoreOften, PluginAssumption
  <2> QED
    BY <2>2, <2>3 DEF LoadInvariant, FollowsList
<1> QED
  BY <1>1, LoadInvariantHolds, PTL

\* LiteApp::initPlugins loads a plugin that no other names after everything
\* that any plugin names.
THEOREM LeavesAreSafe == Spec => []LeavesComeLast
<1>1. LoadInvariant => LeavesComeLast
  <2> SUFFICES ASSUME LoadInvariant, NEW p \in loaded,
                      \A r \in build.found : p \notin build.depends[r],
                      NEW s \in build.found, NEW q \in build.depends[s] \ MayStayOut
               PROVE  q \in loaded
    BY DEF LeavesComeLast, Finds
  <2>1. build \in BuildType /\ p \in Plugins
    BY DEF LoadInvariant, TypeOK, BuildType
  <2>2. q \in Listed(build)
    BY DEF Listed
  <2>3. Precedes(build, q, p)
    BY <2>1, UnnamedComeLast, PluginAssumption
  <2> QED
    BY <2>2, <2>3 DEF LoadInvariant, FollowsList
<1> QED
  BY <1>1, LoadInvariantHolds, PTL
=============================================================================
