--------------------------- MODULE GoplsPluginProofs ---------------------------
(***************************************************************************)
(* Proofs about the gopls plugin, for every set of editors, of Go editors, *)
(* of paths and of workspaces: first GoplsSession, then the two modules    *)
(* that extend it, GoplsDocuments for every bound on the edits and the     *)
(* versions, and GoplsRequests for every number of ids.                    *)
(***************************************************************************)
EXTENDS GoplsDocuments, GoplsRequests, TLAPS


-----------------------------------------------------------------------------
(* GoplsSession: the operators on the completers.                          *)

\* setCompleter touches the completer it connects, and no other.
LEMMA SetCompleterType ==
  ASSUME NEW w \in Wirings, NEW old, NEW new \in Editors \cup {NoEditor},
         NEW enabled \in BOOLEAN
  PROVE  SetCompleter(w, old, new, enabled) \in Wirings
BY DEF SetCompleter, Wirings

LEMMA ConfigureCompleterType ==
  ASSUME NEW w \in Wirings, NEW e \in Editors, NEW enabled \in BOOLEAN
  PROVE  ConfigureCompleter(w, e, enabled) \in Wirings
BY DEF ConfigureCompleter, Wirings

\* currentEditorChanged of gopls leaves golangcode's connections alone.
LEMMA GoplsRewireType ==
  ASSUME SessionAssumption,
         NEW w \in Wirings, NEW held \in Editors \cup {NoEditor},
         NEW e \in Editors \cup {NoEditor}, NEW serving \in BOOLEAN
  PROVE  /\ GoplsRewire(w, held, e, serving) \in Wirings
         /\ GoplsRewire(w, held, e, serving).gocode = w.gocode
<1> DEFINE released == IF held = NoEditor THEN w
                       ELSE ConfigureCompleter(w, held, FALSE)
<1>1. released \in Wirings
  BY ConfigureCompleterType
<1>2. released.gocode = w.gocode
  BY DEF ConfigureCompleter, Wirings
<1>3. CASE GoplsClaim(e, serving) = NoEditor
  BY <1>1, <1>2, <1>3 DEF GoplsRewire
<1>4. CASE GoplsClaim(e, serving) # NoEditor
  <2>1. e \in Editors
    BY <1>4 DEF GoplsClaim, SessionAssumption
  <2>2. GoplsRewire(w, held, e, serving) = ConfigureCompleter(released, e, TRUE)
    BY <1>4 DEF GoplsRewire
  <2>3. ConfigureCompleter(released, e, TRUE).gocode = released.gocode
    BY <1>1 DEF ConfigureCompleter, Wirings
  <2>4. ConfigureCompleter(released, e, TRUE) \in Wirings
    <3> HIDE DEF released
    <3> QED  BY <1>1, <2>1, ConfigureCompleterType
  <2> HIDE DEF released
  <2> QED
    BY <1>2, <2>2, <2>3, <2>4
<1> QED
  BY <1>3, <1>4

LEMMA SetGocodeEnabledType ==
  ASSUME TypeOK, NEW w \in Wirings, NEW enabled \in BOOLEAN
  PROVE  SetGocodeEnabled(w, enabled) \in Wirings
BY SetCompleterType DEF SetGocodeEnabled, TypeOK

LEMMA StoppedWiringType ==
  ASSUME TypeOK, SessionAssumption
  PROVE  StoppedWiring \in Wirings
<1>1. current # NoEditor => current \in Editors
  BY DEF TypeOK
<1> QED
  BY <1>1, ConfigureCompleterType, SetGocodeEnabledType DEF StoppedWiring, TypeOK

\* A workspace key is found for every editor.
LEMMA CurrentKeyType ==
  ASSUME SessionAssumption, NEW e \in Editors \cup {NoEditor},
         NEW paths \in [Editors -> Paths]
  PROVE  CurrentKey(e, paths) \in Keys
BY DEF CurrentKey, SessionAssumption

-----------------------------------------------------------------------------
(* Type correctness.                                                       *)

LEMMA InitType ==
  ASSUME SessionAssumption, Init
  PROVE  TypeOK
BY DEF SessionAssumption, Init, TypeOK, Wirings, Callers

\* The type of what the signal currentEditorChanged leaves behind.
EmitTyped ==
  /\ running' \in BOOLEAN /\ stopping' \in BOOLEAN /\ initializing' \in BOOLEAN
  /\ ready' \in BOOLEAN /\ active' \in BOOLEAN /\ restartClient' \in BOOLEAN
  /\ workspaceKey' \in Keys \cup {NoKey}
  /\ completer' \in Editors \cup {NoEditor}
  /\ gocodeCompleter' \in Editors \cup {NoEditor}
  /\ wiring' \in Wirings
  /\ caller' \in Callers

LEMMA GocodeEditorChangedType ==
  ASSUME SessionAssumption, TypeOK,
         NEW w \in Wirings, NEW e \in Editors \cup {NoEditor},
         NEW found \in BOOLEAN, GocodeEditorChanged(w, e, found)
  PROVE  /\ gocodeCompleter' \in Editors \cup {NoEditor}
         /\ wiring' \in Wirings
<1>1. GocodeTarget(e) \in Editors \cup {NoEditor}
  BY DEF GocodeTarget
<1>2. (gocodeEnabled /\ found) \in BOOLEAN
  OBVIOUS
<1> QED
  BY <1>1, <1>2, SetCompleterType DEF GocodeEditorChanged

LEMMA GoplsEditorChangedType ==
  ASSUME SessionAssumption, TypeOK,
         NEW e \in Editors \cup {NoEditor}, NEW paths \in [Editors -> Paths],
         NEW held \in Editors \cup {NoEditor}, NEW features \in BOOLEAN,
         NEW handler \in Callers,
         GoplsEditorChanged(e, paths, held, features, handler)
  PROVE  /\ running' \in BOOLEAN /\ stopping' \in BOOLEAN
         /\ initializing' \in BOOLEAN
         /\ ready' \in BOOLEAN /\ restartClient' \in BOOLEAN
         /\ workspaceKey' \in Keys \cup {NoKey}
         /\ completer' \in Editors \cup {NoEditor}
         /\ caller' \in Callers
<1>1. CurrentKey(e, paths) \in Keys
  BY CurrentKeyType
<1>2. CASE LeavesWorkspace(e, paths)
  BY <1>1, <1>2
  DEF GoplsEditorChanged, RestartForWorkspace, BeginStop, TypeOK
<1>3. CASE ~LeavesWorkspace(e, paths)
  BY <1>1, <1>3
  DEF GoplsEditorChanged, GoplsClaim, TypeOK, clientVars
<1> QED
  BY <1>2, <1>3

LEMMA EmitType ==
  ASSUME SessionAssumption, TypeOK,
         NEW e \in Editors \cup {NoEditor}, NEW paths \in [Editors -> Paths],
         NEW held \in Editors \cup {NoEditor},
         EmitCurrentEditorChanged(e, paths, held)
  PROVE  EmitTyped
<1>1. GoplsEditorChanged(e, paths, held, useFeatures, "switch")
  BY DEF EmitCurrentEditorChanged
<1>2. "switch" \in Callers /\ useFeatures \in BOOLEAN
  BY DEF Callers, TypeOK
<1>3. active' \in BOOLEAN
  BY DEF EmitCurrentEditorChanged, TypeOK
<1>4. gocodeCompleter' \in Editors \cup {NoEditor} /\ wiring' \in Wirings
  <2>1. CASE LeavesWorkspace(e, paths)
    BY <2>1 DEF EmitCurrentEditorChanged, TypeOK
  <2>2. CASE ~LeavesWorkspace(e, paths)
    <3>1. GoplsRewire(wiring, held, e, useFeatures /\ ready) \in Wirings
      BY GoplsRewireType DEF TypeOK
    <3>2. gocodeFound \in BOOLEAN
      BY DEF TypeOK
    <3>3. GocodeEditorChanged(
            GoplsRewire(wiring, held, e, useFeatures /\ ready), e, gocodeFound)
      BY <2>2 DEF EmitCurrentEditorChanged
    <3> QED
      BY <3>1, <3>2, <3>3, GocodeEditorChangedType
  <2> QED
    BY <2>1, <2>2
<1> QED
  BY <1>1, <1>2, <1>3, <1>4, GoplsEditorChangedType DEF EmitTyped

LEMMA TypeStep ==
  ASSUME SessionAssumption, TypeOK, [Next]_sessionVars
  PROVE  TypeOK'
<1> USE DEF editorVars, clientVars, optionVars, pluginVars, gocodeVars
<1>0. /\ current \in Editors \cup {NoEditor}
      /\ useFeatures \in BOOLEAN /\ ready \in BOOLEAN
      /\ completer \in Editors \cup {NoEditor}
      /\ path \in [Editors -> Paths] /\ wiring \in Wirings
      /\ gocodeFound \in BOOLEAN
      /\ CurrentKey(current, path) \in Keys
  BY CurrentKeyType DEF TypeOK
<1>1. ASSUME NEW e \in Editors, OpenEditor(e)
      PROVE  TypeOK'
  <2>1. path' \in [Editors -> Paths]
    BY <1>1 DEF OpenEditor, TypeOK, SessionAssumption
  <2>2. wiring' \in Wirings
    BY <1>1 DEF OpenEditor, TypeOK, Wirings
  <2> QED
    BY <1>1, <2>1, <2>2 DEF OpenEditor, TypeOK
<1>2. ASSUME NEW e \in Editors, ActivateEditor(e)
      PROVE  TypeOK'
  <2>1. EmitTyped
    BY <1>0, <1>2, EmitType DEF ActivateEditor
  <2> QED
    BY <1>2, <2>1 DEF ActivateEditor, EmitTyped, TypeOK
<1>3. ASSUME NEW e \in Editors, NEW next \in Editors \cup {NoEditor},
             CloseEditor(e, next)
      PROVE  TypeOK'
  <2>1. CASE e # current
    BY <1>3, <2>1 DEF CloseEditor, TypeOK
  <2>2. CASE e = current
    <3>1. EmitTyped
      BY <1>0, <1>3, <2>2, EmitType DEF CloseEditor
    <3> QED
      BY <1>3, <2>2, <3>1 DEF CloseEditor, EmitTyped, TypeOK
  <2> QED
    BY <2>1, <2>2
<1>4. ASSUME NEW p \in Paths, SaveEditorAs(p)
      PROVE  TypeOK'
  <2>1. path' \in [Editors -> Paths]
    BY <1>4 DEF SaveEditorAs, TypeOK
  <2>2. EmitTyped
    BY <1>0, <1>4, <2>1, EmitType DEF SaveEditorAs
  <2> QED
    BY <1>4, <2>1, <2>2 DEF SaveEditorAs, EmitTyped, TypeOK
<1>5. ASSUME NEW outcome \in Outcomes, AppLoaded(outcome)
      PROVE  TypeOK'
  <2>1. /\ running' \in BOOLEAN /\ stopping' \in BOOLEAN
        /\ initializing' \in BOOLEAN
    BY <1>5 DEF AppLoaded, StartClient, TypeOK
  <2> QED
    BY <1>5, <2>1 DEF AppLoaded, TypeOK
<1>6. ASSUME NEW outcome \in Outcomes, EnableFeatures(outcome)
      PROVE  TypeOK'
  <2>1. CASE running
    <3>1. "option" \in Callers /\ TRUE \in BOOLEAN
      BY DEF Callers
    <3>2. GoplsEditorChanged(current, path, completer, TRUE, "option")
      BY <1>6, <2>1 DEF EnableFeatures
    <3>3. SetGocodeEnabled(wiring, FALSE) \in Wirings
      BY <1>0, SetGocodeEnabledType
    <3>4. GoplsRewire(SetGocodeEnabled(wiring, FALSE), completer, current, ready)
            \in Wirings
      BY <1>0, <3>3, GoplsRewireType
    <3>5. wiring' \in Wirings
      BY <1>6, <2>1, <3>3, <3>4 DEF EnableFeatures
    <3> HIDE DEF clientVars
    <3>6. /\ running' \in BOOLEAN /\ stopping' \in BOOLEAN
          /\ initializing' \in BOOLEAN
          /\ ready' \in BOOLEAN /\ restartClient' \in BOOLEAN
          /\ workspaceKey' \in Keys \cup {NoKey}
          /\ completer' \in Editors \cup {NoEditor}
          /\ caller' \in Callers
      BY <1>0, <3>1, <3>2, GoplsEditorChangedType
    <3> QED
      BY <1>6, <2>1, <3>5, <3>6 DEF EnableFeatures, TypeOK
  <2>2. CASE ~running
    BY <1>6, <2>2 DEF EnableFeatures, StartClient, TypeOK
  <2> QED
    BY <2>1, <2>2
<1>7. ASSUME DisableFeatures
      PROVE  TypeOK'
  <2>1. CASE running
    BY <1>7, <2>1 DEF DisableFeatures, BeginStop, TypeOK, Callers
  <2>2. CASE ~running
    <3>1. "option" \in Callers /\ FALSE \in BOOLEAN
      BY DEF Callers
    <3>2. GoplsEditorChanged(current, path, completer, FALSE, "option")
      BY <1>7, <2>2 DEF DisableFeatures
    <3>3. SetGocodeEnabled(wiring, TRUE) \in Wirings
      BY <1>0, SetGocodeEnabledType
    <3>4. wiring' \in Wirings
      <4>1. wiring' = GoplsRewire(SetGocodeEnabled(wiring, TRUE), completer,
                                  current, FALSE)
        BY <1>7, <2>2 DEF DisableFeatures
      <4> QED
        BY <1>0, <3>1, <3>3, <4>1, GoplsRewireType
    <3>5. /\ running' \in BOOLEAN /\ stopping' \in BOOLEAN
          /\ initializing' \in BOOLEAN
          /\ ready' \in BOOLEAN /\ restartClient' \in BOOLEAN
          /\ workspaceKey' \in Keys \cup {NoKey}
          /\ completer' \in Editors \cup {NoEditor}
          /\ caller' \in Callers
      BY <1>0, <3>1, <3>2, GoplsEditorChangedType
    <3> QED
      BY <1>7, <2>2, <3>4, <3>5 DEF DisableFeatures, TypeOK
  <2> QED
    BY <2>1, <2>2
<1>8. ASSUME NEW outcome \in Outcomes, NEW found \in BOOLEAN,
             EnvironmentChanged(outcome, found)
      PROVE  TypeOK'
  <2>1. CASE appLoaded /\ running
    BY <1>0, <1>8, <2>1
    DEF EnvironmentChanged, RestartForWorkspace, BeginStop, TypeOK, Callers
  <2>2. CASE ~(appLoaded /\ running)
    <3>1. gocodeCompleter' \in Editors \cup {NoEditor} /\ wiring' \in Wirings
      BY <1>0, <1>8, <2>2, GocodeEditorChangedType DEF EnvironmentChanged
    <3>2. /\ running' \in BOOLEAN /\ stopping' \in BOOLEAN
          /\ initializing' \in BOOLEAN /\ ready' \in BOOLEAN
          /\ workspaceKey' \in Keys \cup {NoKey}
      BY <1>0, <1>8, <2>2 DEF EnvironmentChanged, StartClient, TypeOK
    <3> QED
      BY <1>8, <2>2, <3>1, <3>2 DEF EnvironmentChanged, TypeOK
  <2> QED
    BY <2>1, <2>2
<1>9. ASSUME Initialized
      PROVE  TypeOK'
  <2>1. (IF useFeatures THEN SetGocodeEnabled(wiring, FALSE) ELSE wiring)
          \in Wirings
    BY <1>0, SetGocodeEnabledType
  <2>2. wiring' \in Wirings
    BY <1>0, <1>9, <2>1, GoplsRewireType DEF Initialized
  <2>3. completer' \in Editors \cup {NoEditor}
    BY <1>0, <1>9 DEF Initialized, GoplsClaim
  <2>4. /\ gocodeEnabled' \in BOOLEAN /\ active' \in BOOLEAN
        /\ workspaceKey' \in Keys \cup {NoKey}
    BY <1>0, <1>9 DEF Initialized, PauseGocode, TypeOK
  <2> QED
    BY <1>9, <2>2, <2>3, <2>4 DEF Initialized, TypeOK
<1>10. ASSUME InitializeFailed
       PROVE  TypeOK'
  <2>1. initializing' \in BOOLEAN
    BY <1>10 DEF InitializeFailed
  <2> QED
    BY <1>10, <2>1 DEF InitializeFailed, TypeOK
<1>11. ASSUME NEW outcome \in Outcomes, ProcessFinished(outcome)
       PROVE  TypeOK'
  <2>1. wiring' \in Wirings
    BY <1>11, StoppedWiringType DEF ProcessFinished
  <2>2. /\ running' \in BOOLEAN /\ stopping' \in BOOLEAN
        /\ initializing' \in BOOLEAN /\ appLoaded' \in BOOLEAN
    BY <1>11 DEF ProcessFinished, StartClient, TypeOK
  <2> QED
    BY <1>11, <2>1, <2>2 DEF ProcessFinished, ForgetServer, TypeOK
<1>12. ASSUME NEW found \in BOOLEAN, StopReturns(found)
       PROVE  TypeOK'
  <2>1. gocodeFound' \in BOOLEAN /\ caller' \in Callers
    BY <1>0, <1>12 DEF StopReturns, Callers
  <2>2. gocodeCompleter' \in Editors \cup {NoEditor} /\ wiring' \in Wirings
    BY <1>0, <1>12, <2>1, GocodeEditorChangedType DEF StopReturns, TypeOK
  <2> QED
    BY <1>12, <2>1, <2>2 DEF StopReturns, TypeOK
<1>13. ASSUME UNCHANGED sessionVars
       PROVE  TypeOK'
  BY <1>13 DEF sessionVars, TypeOK
<1> QED
  BY <1>1, <1>2, <1>3, <1>4, <1>5, <1>6, <1>7, <1>8, <1>9, <1>10, <1>11, <1>12,
     <1>13
  DEF Next, UserStep, ProcessStep, Returns

\* The variables of the session keep their types, whatever the editors, the
\* files and the workspaces.
THEOREM TypeCorrect == Spec => []TypeOK
<1>1. Init => TypeOK
  BY InitType, SessionAssumption
<1>2. TypeOK /\ [Next]_sessionVars => TypeOK'
  BY TypeStep, SessionAssumption
<1> QED
  BY <1>1, <1>2, PTL DEF Spec

-----------------------------------------------------------------------------
(* What the plugin claims: GocodeRestored and GocodePaused.                *)

\* A server that was not ready is not made ready by a change of the current
\* editor, and then no completer is taken.
LEMMA GoplsEditorChangedClaims ==
  ASSUME NEW e, NEW paths, NEW held, NEW features, NEW handler,
         GoplsEditorChanged(e, paths, held, features, handler)
  PROVE  /\ running' = running
         /\ ready' => ready
         /\ ~ready => completer' = NoEditor
BY DEF GoplsEditorChanged, LeavesWorkspace, RestartForWorkspace, GoplsClaim,
       clientVars

LEMMA ClaimsStep ==
  ASSUME TypeOK, GocodeRestored, GocodePaused, [Next]_sessionVars
  PROVE  GocodeRestored' /\ GocodePaused'
<1> USE DEF GocodeRestored, GocodePaused
<1> DEFINE Switched(e, paths, held) ==
      /\ EmitCurrentEditorChanged(e, paths, held)
      /\ UNCHANGED <<useFeatures, gocodeEnabled>>
<1>0. ASSUME NEW e, NEW paths, NEW held, Switched(e, paths, held)
      PROVE  GocodeRestored' /\ GocodePaused'
  BY <1>0, GoplsEditorChangedClaims DEF EmitCurrentEditorChanged
<1>1. ASSUME NEW e \in Editors, OpenEditor(e)
      PROVE  GocodeRestored' /\ GocodePaused'
  BY <1>1 DEF OpenEditor, clientVars, optionVars, pluginVars, gocodeVars
<1>2. ASSUME NEW e \in Editors, ActivateEditor(e)
      PROVE  GocodeRestored' /\ GocodePaused'
  BY <1>0, <1>2 DEF ActivateEditor, optionVars
<1>3. ASSUME NEW e \in Editors, NEW next \in Editors \cup {NoEditor},
             CloseEditor(e, next)
      PROVE  GocodeRestored' /\ GocodePaused'
  <2>1. CASE e # current
    BY <1>3, <2>1
    DEF CloseEditor, clientVars, optionVars, pluginVars, gocodeVars
  <2>2. CASE e = current
    BY <1>0, <1>3, <2>2 DEF CloseEditor, optionVars
  <2> QED
    BY <2>1, <2>2
<1>4. ASSUME NEW p \in Paths, SaveEditorAs(p)
      PROVE  GocodeRestored' /\ GocodePaused'
  BY <1>0, <1>4 DEF SaveEditorAs, optionVars
<1>5. ASSUME NEW outcome \in Outcomes, AppLoaded(outcome)
      PROVE  GocodeRestored' /\ GocodePaused'
  BY <1>5 DEF AppLoaded, StartClient, clientVars, pluginVars, gocodeVars
<1>6. ASSUME NEW outcome \in Outcomes, EnableFeatures(outcome)
      PROVE  GocodeRestored' /\ GocodePaused'
  <2>1. CASE running
    BY <1>6, <2>1, GoplsEditorChangedClaims DEF EnableFeatures
  <2>2. CASE ~running
    BY <1>6, <2>2 DEF EnableFeatures, pluginVars
  <2> QED
    BY <2>1, <2>2
<1>7. ASSUME DisableFeatures
      PROVE  GocodeRestored' /\ GocodePaused'
  <2>1. CASE running
    BY <1>7, <2>1 DEF DisableFeatures, BeginStop
  <2>2. CASE ~running
    BY <1>7, <2>2, GoplsEditorChangedClaims DEF DisableFeatures
  <2> QED
    BY <2>1, <2>2
<1>8. ASSUME NEW outcome \in Outcomes, NEW found \in BOOLEAN,
             EnvironmentChanged(outcome, found)
      PROVE  GocodeRestored' /\ GocodePaused'
  <2>1. CASE appLoaded /\ running
    BY <1>8, <2>1 DEF EnvironmentChanged, RestartForWorkspace, optionVars
  <2>2. CASE ~(appLoaded /\ running)
    BY <1>8, <2>2
    DEF EnvironmentChanged, StartClient, optionVars, clientVars
  <2> QED
    BY <2>1, <2>2
<1>9. ASSUME Initialized
      PROVE  GocodeRestored' /\ GocodePaused'
  BY <1>9 DEF Initialized, Reads, PauseGocode, optionVars
<1>10. ASSUME InitializeFailed
       PROVE  GocodeRestored' /\ GocodePaused'
  BY <1>10 DEF InitializeFailed, Reads, optionVars, pluginVars, gocodeVars
<1>11. ASSUME NEW outcome \in Outcomes, ProcessFinished(outcome)
       PROVE  GocodeRestored' /\ GocodePaused'
  BY <1>11 DEF ProcessFinished, ForgetServer
<1>12. ASSUME NEW found \in BOOLEAN, StopReturns(found)
       PROVE  GocodeRestored' /\ GocodePaused'
  BY <1>12 DEF StopReturns, clientVars, optionVars, pluginVars
<1>13. ASSUME UNCHANGED sessionVars
       PROVE  GocodeRestored' /\ GocodePaused'
  BY <1>13 DEF sessionVars, clientVars, optionVars, pluginVars, gocodeVars
<1> QED
  BY <1>1, <1>2, <1>3, <1>4, <1>5, <1>6, <1>7, <1>8, <1>9, <1>10, <1>11, <1>12,
     <1>13
  DEF Next, UserStep, ProcessStep, Returns

-----------------------------------------------------------------------------
(* Who hears a completer: GocodeAlone.                                     *)

LEMMA SetCompleterAlone ==
  ASSUME NEW w \in Wirings, NEW old, NEW new, NEW enabled \in BOOLEAN,
         w.gocode \subseteq {old}
  PROVE  SetCompleter(w, old, new, enabled).gocode
           \subseteq IF enabled THEN {new} ELSE {}
BY DEF SetCompleter, Wirings

LEMMA SetGocodeEnabledAlone ==
  ASSUME TypeOK, GocodeAlone, NEW w \in Wirings, w.gocode = wiring.gocode,
         NEW enabled \in BOOLEAN
  PROVE  SetGocodeEnabled(w, enabled).gocode
           \subseteq IF enabled THEN {gocodeCompleter} ELSE {}
<1>1. w.gocode \subseteq {gocodeCompleter}
  BY DEF GocodeAlone
<1>2. CASE gocodeEnabled = enabled
  BY <1>2 DEF SetGocodeEnabled, GocodeAlone
<1>3. CASE gocodeEnabled # enabled
  <2>1. (enabled /\ gocodeFound) \in BOOLEAN
    OBVIOUS
  <2>2. SetGocodeEnabled(w, enabled)
          = SetCompleter(w, gocodeCompleter, gocodeCompleter,
                         enabled /\ gocodeFound)
    BY <1>3 DEF SetGocodeEnabled
  <2>3. SetGocodeEnabled(w, enabled).gocode
          \subseteq IF enabled /\ gocodeFound THEN {gocodeCompleter} ELSE {}
    BY <1>1, <2>1, <2>2, SetCompleterAlone
  <2> QED
    BY <2>3
<1> QED
  BY <1>2, <1>3

LEMMA GocodeEditorChangedAlone ==
  ASSUME TypeOK, GocodeAlone, NEW w \in Wirings, w.gocode = wiring.gocode,
         NEW e, NEW found \in BOOLEAN, GocodeEditorChanged(w, e, found)
  PROVE  wiring'.gocode
           \subseteq IF gocodeEnabled THEN {gocodeCompleter'} ELSE {}
<1>1. w.gocode \subseteq {gocodeCompleter}
  BY DEF GocodeAlone
<1>2. (gocodeEnabled /\ found) \in BOOLEAN
  OBVIOUS
<1>3. wiring'.gocode
        \subseteq IF gocodeEnabled /\ found THEN {GocodeTarget(e)} ELSE {}
  BY <1>1, <1>2, SetCompleterAlone DEF GocodeEditorChanged
<1> QED
  BY <1>3 DEF GocodeEditorChanged

LEMMA EmitAlone ==
  ASSUME SessionAssumption, TypeOK, GocodeAlone,
         NEW e \in Editors \cup {NoEditor}, NEW paths,
         NEW held \in Editors \cup {NoEditor},
         EmitCurrentEditorChanged(e, paths, held), gocodeEnabled' = gocodeEnabled
  PROVE  GocodeAlone'
<1>1. CASE LeavesWorkspace(e, paths)
  BY <1>1 DEF EmitCurrentEditorChanged, GocodeAlone
<1>2. CASE ~LeavesWorkspace(e, paths)
  <2>1. /\ GoplsRewire(wiring, held, e, useFeatures /\ ready) \in Wirings
        /\ GoplsRewire(wiring, held, e, useFeatures /\ ready).gocode
             = wiring.gocode
    BY GoplsRewireType DEF TypeOK
  <2>2. GocodeEditorChanged(
          GoplsRewire(wiring, held, e, useFeatures /\ ready), e, gocodeFound)
    BY <1>2 DEF EmitCurrentEditorChanged
  <2>3. gocodeFound \in BOOLEAN
    BY DEF TypeOK
  <2> QED
    BY <2>1, <2>2, <2>3, GocodeEditorChangedAlone DEF GocodeAlone
<1> QED
  BY <1>1, <1>2

LEMMA AloneStep ==
  ASSUME SessionAssumption, TypeOK, GocodeAlone, [Next]_sessionVars
  PROVE  GocodeAlone'
<1>0. /\ current \in Editors \cup {NoEditor}
      /\ completer \in Editors \cup {NoEditor}
      /\ useFeatures \in BOOLEAN /\ ready \in BOOLEAN
      /\ gocodeFound \in BOOLEAN /\ wiring \in Wirings
  BY DEF TypeOK
<1>1. ASSUME NEW e \in Editors, OpenEditor(e)
      PROVE  GocodeAlone'
  BY <1>1 DEF OpenEditor, GocodeAlone, gocodeVars
<1>2. ASSUME NEW e \in Editors, ActivateEditor(e)
      PROVE  GocodeAlone'
  BY <1>0, <1>2, EmitAlone DEF ActivateEditor
<1>3. ASSUME NEW e \in Editors, NEW next \in Editors \cup {NoEditor},
             CloseEditor(e, next)
      PROVE  GocodeAlone'
  <2>1. CASE e # current
    BY <1>3, <2>1 DEF CloseEditor, GocodeAlone, gocodeVars
  <2>2. CASE e = current
    BY <1>3, <2>2, EmitAlone DEF CloseEditor
  <2> QED
    BY <2>1, <2>2
<1>4. ASSUME NEW p \in Paths, SaveEditorAs(p)
      PROVE  GocodeAlone'
  BY <1>0, <1>4, EmitAlone DEF SaveEditorAs
<1>5. ASSUME NEW outcome \in Outcomes, AppLoaded(outcome)
      PROVE  GocodeAlone'
  BY <1>5 DEF AppLoaded, GocodeAlone, gocodeVars
<1>6. ASSUME NEW outcome \in Outcomes, EnableFeatures(outcome)
      PROVE  GocodeAlone'
  <2>1. CASE running
    <3> DEFINE paused == SetGocodeEnabled(wiring, FALSE)
    <3>1. paused \in Wirings
      BY <1>0, SetGocodeEnabledType
    <3>2. paused.gocode \subseteq {}
      BY <1>0, SetGocodeEnabledAlone
    <3> HIDE DEF paused
    <3>3. GoplsRewire(paused, completer, current, ready).gocode = paused.gocode
      BY <1>0, <3>1, GoplsRewireType
    <3>4. wiring'.gocode = paused.gocode
      BY <1>6, <2>1, <3>3 DEF EnableFeatures, paused
    <3> QED
      BY <3>2, <3>4 DEF GocodeAlone
  <2>2. CASE ~running
    BY <1>6, <2>2 DEF EnableFeatures, GocodeAlone
  <2> QED
    BY <2>1, <2>2
<1>7. ASSUME DisableFeatures
      PROVE  GocodeAlone'
  <2>1. CASE running
    BY <1>7, <2>1 DEF DisableFeatures, GocodeAlone
  <2>2. CASE ~running
    <3> DEFINE restored == SetGocodeEnabled(wiring, TRUE)
    <3>1. restored \in Wirings
      BY <1>0, SetGocodeEnabledType
    <3>2. restored.gocode \subseteq {gocodeCompleter}
      BY <1>0, SetGocodeEnabledAlone
    <3>3. wiring' = GoplsRewire(restored, completer, current, FALSE)
      BY <1>7, <2>2 DEF DisableFeatures
    <3> HIDE DEF restored
    <3>4. wiring'.gocode = restored.gocode
      BY <1>0, <3>1, <3>3, GoplsRewireType
    <3> QED
      BY <1>7, <2>2, <3>2, <3>4 DEF DisableFeatures, GocodeAlone
  <2> QED
    BY <2>1, <2>2
<1>8. ASSUME NEW outcome \in Outcomes, NEW found \in BOOLEAN,
             EnvironmentChanged(outcome, found)
      PROVE  GocodeAlone'
  <2>1. CASE appLoaded /\ running
    BY <1>8, <2>1 DEF EnvironmentChanged, GocodeAlone
  <2>2. CASE ~(appLoaded /\ running)
    BY <1>0, <1>8, <2>2, GocodeEditorChangedAlone
    DEF EnvironmentChanged, GocodeAlone
  <2> QED
    BY <2>1, <2>2
<1>9. ASSUME Initialized
      PROVE  GocodeAlone'
  <2> DEFINE paused == IF useFeatures THEN SetGocodeEnabled(wiring, FALSE)
                       ELSE wiring
  <2>1. paused \in Wirings
    BY <1>0, SetGocodeEnabledType
  <2>2. paused.gocode \subseteq IF gocodeEnabled /\ ~useFeatures
                                THEN {gocodeCompleter} ELSE {}
    <3>1. CASE useFeatures
      BY <1>0, <3>1, SetGocodeEnabledAlone
    <3>2. CASE ~useFeatures
      BY <3>2 DEF GocodeAlone
    <3> QED
      BY <3>1, <3>2
  <2>3. wiring' = GoplsRewire(paused, completer, current, useFeatures)
    BY <1>9 DEF Initialized
  <2> HIDE DEF paused
  <2>4. wiring'.gocode = paused.gocode
    BY <1>0, <2>1, <2>3, GoplsRewireType
  <2> QED
    BY <1>9, <2>2, <2>4 DEF Initialized, PauseGocode, GocodeAlone
<1>10. ASSUME InitializeFailed
       PROVE  GocodeAlone'
  BY <1>10 DEF InitializeFailed, GocodeAlone, gocodeVars
<1>11. ASSUME NEW outcome \in Outcomes, ProcessFinished(outcome)
       PROVE  GocodeAlone'
  <2> DEFINE released == IF completer # NoEditor /\ current # NoEditor
                         THEN ConfigureCompleter(wiring, current, FALSE)
                         ELSE wiring
  <2>1. released \in Wirings
    BY <1>0, ConfigureCompleterType
  <2>2. released.gocode = wiring.gocode
    BY <1>0 DEF ConfigureCompleter, Wirings
  <2>3. wiring' = SetGocodeEnabled(released, TRUE)
    BY <1>11 DEF ProcessFinished, StoppedWiring
  <2> HIDE DEF released
  <2>4. wiring'.gocode \subseteq {gocodeCompleter}
    BY <2>1, <2>2, <2>3, SetGocodeEnabledAlone
  <2> QED
    BY <1>11, <2>4 DEF ProcessFinished, ForgetServer, GocodeAlone
<1>12. ASSUME NEW found \in BOOLEAN, StopReturns(found)
       PROVE  GocodeAlone'
  <2>1. gocodeFound' \in BOOLEAN
    BY <1>0, <1>12 DEF StopReturns
  <2>2. CASE caller = "option"
    BY <1>12, <2>2 DEF StopReturns, GocodeAlone
  <2>3. CASE caller # "option"
    BY <1>0, <1>12, <2>1, <2>3, GocodeEditorChangedAlone
    DEF StopReturns, GocodeAlone
  <2> QED
    BY <2>2, <2>3
<1>13. ASSUME UNCHANGED sessionVars
       PROVE  GocodeAlone'
  BY <1>13 DEF sessionVars, gocodeVars, GocodeAlone
<1> QED
  BY <1>1, <1>2, <1>3, <1>4, <1>5, <1>6, <1>7, <1>8, <1>9, <1>10, <1>11, <1>12,
     <1>13
  DEF Next, UserStep, ProcessStep, Returns

-----------------------------------------------------------------------------
(* The workspace of the server: KnowsWorkspace.                            *)

\* After currentEditorChanged a server that is still ready serves the
\* workspace of the editor it was told of, which is the one it served.
LEMMA GoplsEditorChangedKnows ==
  ASSUME KnowsWorkspace, NEW e, NEW paths, NEW held, NEW features, NEW handler,
         GoplsEditorChanged(e, paths, held, features, handler)
  PROVE  /\ running' = running
         /\ ready' => /\ ready
                      /\ workspaceKey' = CurrentKey(e, paths)
                      /\ CurrentKey(e, paths) = CurrentKey(current, path)
BY DEF KnowsWorkspace, GoplsEditorChanged, LeavesWorkspace,
       RestartForWorkspace, clientVars

LEMMA KnowsStep ==
  ASSUME SessionAssumption, TypeOK, KnowsWorkspace, [Next]_sessionVars
  PROVE  /\ KnowsWorkspace'
         /\ ready /\ ready'
              => CurrentKey(current', path') = CurrentKey(current, path)
<1> DEFINE Kept ==
      /\ KnowsWorkspace'
      /\ ready /\ ready'
           => CurrentKey(current', path') = CurrentKey(current, path)
<1> USE DEF KnowsWorkspace
<1>0. ASSUME UNCHANGED <<current, path, ready, workspaceKey, appLoaded>>,
             running' => appLoaded
      PROVE  Kept
  BY <1>0
<1>a. ASSUME NEW held, EmitCurrentEditorChanged(current', path', held),
             UNCHANGED appLoaded
      PROVE  Kept
  BY <1>a, GoplsEditorChangedKnows DEF EmitCurrentEditorChanged
<1>1. ASSUME NEW e \in Editors, OpenEditor(e)
      PROVE  Kept
  <2>1. current # e \/ current = NoEditor
    BY <1>1 DEF OpenEditor, TypeOK
  <2>2. CurrentKey(current, path') = CurrentKey(current, path)
    BY <1>1, <2>1 DEF OpenEditor, CurrentKey, TypeOK, SessionAssumption
  <2> QED
    BY <1>1, <2>2 DEF OpenEditor, optionVars, pluginVars, clientVars
<1>2. ASSUME NEW e \in Editors, ActivateEditor(e)
      PROVE  Kept
  <2>1. EmitCurrentEditorChanged(current', path', completer)
    BY <1>2 DEF ActivateEditor
  <2> QED
    BY <1>a, <1>2, <2>1 DEF ActivateEditor, optionVars
<1>3. ASSUME NEW e \in Editors, NEW next \in Editors \cup {NoEditor},
             CloseEditor(e, next)
      PROVE  Kept
  <2>1. CASE e # current
    BY <1>0, <1>3, <2>1 DEF CloseEditor, optionVars, pluginVars, clientVars
  <2>2. CASE e = current
    <3>1. EmitCurrentEditorChanged(current', path', NoEditor)
      BY <1>3, <2>2 DEF CloseEditor
    <3> QED
      BY <1>a, <1>3, <3>1 DEF CloseEditor, optionVars
  <2> QED
    BY <2>1, <2>2
<1>4. ASSUME NEW p \in Paths, SaveEditorAs(p)
      PROVE  Kept
  <2>1. EmitCurrentEditorChanged(current', path', completer)
    BY <1>4 DEF SaveEditorAs
  <2> QED
    BY <1>a, <1>4, <2>1 DEF SaveEditorAs, optionVars
<1>5. ASSUME NEW outcome \in Outcomes, AppLoaded(outcome)
      PROVE  Kept
  BY <1>5 DEF AppLoaded, StartClient, editorVars, clientVars, pluginVars
<1>6. ASSUME NEW outcome \in Outcomes, EnableFeatures(outcome)
      PROVE  Kept
  <2>1. CASE running
    BY <1>6, <2>1, GoplsEditorChangedKnows DEF EnableFeatures, editorVars
  <2>2. CASE ~running
    BY <1>6, <2>2 DEF EnableFeatures, editorVars, pluginVars
  <2> QED
    BY <2>1, <2>2
<1>7. ASSUME DisableFeatures
      PROVE  Kept
  <2>1. CASE running
    BY <1>7, <2>1 DEF DisableFeatures, editorVars, pluginVars
  <2>2. CASE ~running
    BY <1>7, <2>2, GoplsEditorChangedKnows DEF DisableFeatures, editorVars
  <2> QED
    BY <2>1, <2>2
<1>8. ASSUME NEW outcome \in Outcomes, NEW found \in BOOLEAN,
             EnvironmentChanged(outcome, found)
      PROVE  Kept
  <2>1. CASE appLoaded /\ running
    BY <1>8, <2>1
    DEF EnvironmentChanged, RestartForWorkspace, editorVars, optionVars
  <2>2. CASE ~(appLoaded /\ running)
    BY <1>8, <2>2
    DEF EnvironmentChanged, editorVars, optionVars, clientVars
  <2> QED
    BY <2>1, <2>2
<1>9. ASSUME Initialized
      PROVE  Kept
  BY <1>9 DEF Initialized, Reads, editorVars, optionVars
<1>10. ASSUME InitializeFailed
       PROVE  Kept
  BY <1>10 DEF InitializeFailed, editorVars, optionVars, pluginVars
<1>11. ASSUME NEW outcome \in Outcomes, ProcessFinished(outcome)
       PROVE  Kept
  BY <1>11 DEF ProcessFinished, ForgetServer, editorVars
<1>12. ASSUME NEW found \in BOOLEAN, StopReturns(found)
       PROVE  Kept
  BY <1>12 DEF StopReturns, editorVars, clientVars, optionVars, pluginVars
<1>13. ASSUME UNCHANGED sessionVars
       PROVE  Kept
  BY <1>13 DEF sessionVars, editorVars, clientVars, optionVars, pluginVars
<1> QED
  BY <1>1, <1>2, <1>3, <1>4, <1>5, <1>6, <1>7, <1>8, <1>9, <1>10, <1>11, <1>12,
     <1>13
  DEF Next, UserStep, ProcessStep, Returns

-----------------------------------------------------------------------------
(* What golangcode holds: HeldMeansPaused and GocodeFollows.               *)

LEMMA HeldStep ==
  ASSUME TypeOK, GocodeRestored, GocodePaused, HeldMeansPaused,
         [Next]_sessionVars
  PROVE  HeldMeansPaused'
<1> USE DEF HeldMeansPaused
<1>0. ASSUME NEW e, NEW paths, NEW held \in {completer, NoEditor},
             EmitCurrentEditorChanged(e, paths, held),
             UNCHANGED gocodeEnabled
      PROVE  HeldMeansPaused'
  BY <1>0
  DEF EmitCurrentEditorChanged, GoplsEditorChanged, GoplsClaim, GocodePaused
<1>1. ASSUME NEW e \in Editors, OpenEditor(e)
      PROVE  HeldMeansPaused'
  BY <1>1 DEF OpenEditor, gocodeVars
<1>2. ASSUME NEW e \in Editors, ActivateEditor(e)
      PROVE  HeldMeansPaused'
  BY <1>0, <1>2 DEF ActivateEditor
<1>3. ASSUME NEW e \in Editors, NEW next \in Editors \cup {NoEditor},
             CloseEditor(e, next)
      PROVE  HeldMeansPaused'
  <2>1. CASE e # current
    BY <1>3, <2>1 DEF CloseEditor, gocodeVars
  <2>2. CASE e = current
    BY <1>0, <1>3, <2>2 DEF CloseEditor
  <2> QED
    BY <2>1, <2>2
<1>4. ASSUME NEW p \in Paths, SaveEditorAs(p)
      PROVE  HeldMeansPaused'
  BY <1>0, <1>4 DEF SaveEditorAs
<1>5. ASSUME NEW outcome \in Outcomes, AppLoaded(outcome)
      PROVE  HeldMeansPaused'
  BY <1>5 DEF AppLoaded, gocodeVars
<1>6. ASSUME NEW outcome \in Outcomes, EnableFeatures(outcome)
      PROVE  HeldMeansPaused'
  BY <1>6 DEF EnableFeatures
<1>7. ASSUME DisableFeatures
      PROVE  HeldMeansPaused'
  BY <1>7
  DEF DisableFeatures, GoplsEditorChanged, GoplsClaim, GocodeRestored
<1>8. ASSUME NEW outcome \in Outcomes, NEW found \in BOOLEAN,
             EnvironmentChanged(outcome, found)
      PROVE  HeldMeansPaused'
  BY <1>8 DEF EnvironmentChanged
<1>9. ASSUME Initialized
      PROVE  HeldMeansPaused'
  BY <1>9 DEF Initialized, PauseGocode, GoplsClaim
<1>10. ASSUME InitializeFailed
       PROVE  HeldMeansPaused'
  BY <1>10 DEF InitializeFailed, gocodeVars
<1>11. ASSUME NEW outcome \in Outcomes, ProcessFinished(outcome)
       PROVE  HeldMeansPaused'
  BY <1>11 DEF ProcessFinished, ForgetServer
<1>12. ASSUME NEW found \in BOOLEAN, StopReturns(found)
       PROVE  HeldMeansPaused'
  BY <1>12 DEF StopReturns
<1>13. ASSUME UNCHANGED sessionVars
       PROVE  HeldMeansPaused'
  BY <1>13 DEF sessionVars, gocodeVars
<1> QED
  BY <1>1, <1>2, <1>3, <1>4, <1>5, <1>6, <1>7, <1>8, <1>9, <1>10, <1>11, <1>12,
     <1>13
  DEF Next, UserStep, ProcessStep, Returns

LEMMA GocodeEditorChangedFollows ==
  ASSUME SessionAssumption, NEW w \in Wirings, NEW e, NEW found \in BOOLEAN,
         GocodeEditorChanged(w, e, found)
  PROVE  /\ gocodeCompleter' = GocodeTarget(e)
         /\ gocodeEnabled /\ found /\ e \in GoEditors
              => e \in wiring'.gocode \cap wiring'.external
BY DEF GocodeEditorChanged, GocodeTarget, SetCompleter, Wirings, SessionAssumption

\* With nothing held and nothing to claim gopls leaves the completers alone.
LEMMA GoplsRewireNothing ==
  ASSUME NEW w, NEW e
  PROVE  GoplsRewire(w, NoEditor, e, FALSE) = w
BY DEF GoplsRewire, GoplsClaim

LEMMA EmitFollows ==
  ASSUME SessionAssumption, TypeOK, Idle,
         NEW e \in Editors \cup {NoEditor}, NEW paths,
         NEW held \in Editors \cup {NoEditor}, current' = e,
         EmitCurrentEditorChanged(e, paths, held),
         UNCHANGED <<gocodeEnabled, gocodeFound>>
  PROVE  GocodeFollows'
<1>1. CASE LeavesWorkspace(e, paths)
  BY <1>1 DEF EmitCurrentEditorChanged, GoplsEditorChanged, RestartForWorkspace,
              BeginStop, GocodeFollows
<1>2. CASE ~LeavesWorkspace(e, paths)
  <2>1. GoplsRewire(wiring, held, e, useFeatures /\ ready) \in Wirings
    BY GoplsRewireType DEF TypeOK
  <2>2. GocodeEditorChanged(
          GoplsRewire(wiring, held, e, useFeatures /\ ready), e, gocodeFound)
    BY <1>2 DEF EmitCurrentEditorChanged
  <2>3. gocodeFound \in BOOLEAN
    BY DEF TypeOK
  <2> QED
    BY <2>1, <2>2, <2>3, GocodeEditorChangedFollows DEF GocodeFollows
<1> QED
  BY <1>1, <1>2

LEMMA FollowsStep ==
  ASSUME SessionAssumption, TypeOK, GocodeRestored, HeldMeansPaused,
         GocodeFollows, [Next]_sessionVars
  PROVE  GocodeFollows'
<1> USE DEF Idle
<1>0. /\ current \in Editors \cup {NoEditor}
      /\ completer \in Editors \cup {NoEditor}
      /\ gocodeFound \in BOOLEAN /\ gocodeEnabled \in BOOLEAN
      /\ wiring \in Wirings
  BY DEF TypeOK
<1>1. ASSUME NEW e \in Editors, OpenEditor(e)
      PROVE  GocodeFollows'
  <2>1. current # e \/ current = NoEditor
    BY <1>1 DEF OpenEditor, TypeOK
  <2> QED
    BY <1>1, <2>1
    DEF OpenEditor, GocodeFollows, gocodeVars, SessionAssumption, GocodeTarget
<1>2. ASSUME NEW e \in Editors, ActivateEditor(e)
      PROVE  GocodeFollows'
  BY <1>0, <1>2, EmitFollows DEF ActivateEditor
<1>3. ASSUME NEW e \in Editors, NEW next \in Editors \cup {NoEditor},
             CloseEditor(e, next)
      PROVE  GocodeFollows'
  <2>1. CASE e # current
    BY <1>3, <2>1 DEF CloseEditor, GocodeFollows, gocodeVars
  <2>2. CASE e = current
    BY <1>3, <2>2, EmitFollows DEF CloseEditor
  <2> QED
    BY <2>1, <2>2
<1>4. ASSUME NEW p \in Paths, SaveEditorAs(p)
      PROVE  GocodeFollows'
  BY <1>0, <1>4, EmitFollows DEF SaveEditorAs
<1>5. ASSUME NEW outcome \in Outcomes, AppLoaded(outcome)
      PROVE  GocodeFollows'
  BY <1>5 DEF AppLoaded, GocodeFollows, editorVars, gocodeVars
<1>6. ASSUME NEW outcome \in Outcomes, EnableFeatures(outcome)
      PROVE  GocodeFollows'
  <2>1. CASE running
    BY <1>6, <2>1 DEF EnableFeatures, GocodeFollows, editorVars
  <2>2. CASE ~running
    BY <1>6, <2>2 DEF EnableFeatures, GocodeFollows, editorVars
  <2> QED
    BY <2>1, <2>2
<1>7. ASSUME DisableFeatures
      PROVE  GocodeFollows'
  <2>1. CASE running
    BY <1>7, <2>1 DEF DisableFeatures, GocodeFollows, editorVars
  <2>2. CASE ~running
    <3>1. wiring' = GoplsRewire(wiring, NoEditor, current, FALSE)
      BY <1>7, <2>2
      DEF DisableFeatures, GocodeRestored, SetGocodeEnabled
    <3>2. wiring' = wiring
      BY <3>1, GoplsRewireNothing
    <3> QED
      BY <1>7, <2>2, <3>2
      DEF DisableFeatures, GocodeRestored, GocodeFollows, editorVars
  <2> QED
    BY <2>1, <2>2
<1>8. ASSUME NEW outcome \in Outcomes, NEW found \in BOOLEAN,
             EnvironmentChanged(outcome, found)
      PROVE  GocodeFollows'
  <2>1. CASE appLoaded /\ running
    BY <1>8, <2>1
    DEF EnvironmentChanged, RestartForWorkspace, BeginStop, GocodeFollows
  <2>2. CASE ~(appLoaded /\ running)
    BY <1>0, <1>8, <2>2, GocodeEditorChangedFollows
    DEF EnvironmentChanged, GocodeFollows, editorVars
  <2> QED
    BY <2>1, <2>2
<1>9. ASSUME Initialized
      PROVE  GocodeFollows'
  <2>1. CASE gocodeEnabled /\ ~useFeatures
    <3>0. completer = NoEditor /\ useFeatures = FALSE
      BY <2>1 DEF HeldMeansPaused, TypeOK
    <3>1. wiring' = GoplsRewire(wiring, NoEditor, current, FALSE)
      BY <1>9, <3>0 DEF Initialized
    <3>2. wiring' = wiring
      BY <3>1, GoplsRewireNothing
    <3>3. gocodeEnabled' = gocodeEnabled
      BY <1>0, <1>9, <2>1 DEF Initialized, PauseGocode
    <3> QED
      BY <1>9, <3>2, <3>3 DEF Initialized, GocodeFollows, editorVars
  <2>2. CASE ~(gocodeEnabled /\ ~useFeatures)
    BY <1>9, <2>2 DEF Initialized, PauseGocode, GocodeFollows, editorVars
  <2> QED
    BY <2>1, <2>2
<1>10. ASSUME InitializeFailed
       PROVE  GocodeFollows'
  BY <1>10 DEF InitializeFailed, GocodeFollows, editorVars, gocodeVars
<1>11. ASSUME NEW outcome \in Outcomes, ProcessFinished(outcome)
       PROVE  GocodeFollows'
  <2>1. /\ wiring' = StoppedWiring
        /\ UNCHANGED <<current, gocodeFound, gocodeCompleter, caller>>
    BY <1>11 DEF ProcessFinished, editorVars
  <2>2. CASE gocodeEnabled
    <3>1. wiring' = wiring
      BY <2>1, <2>2 DEF StoppedWiring, SetGocodeEnabled, HeldMeansPaused
    <3> QED
      BY <2>1, <2>2, <3>1 DEF GocodeFollows
  <2>3. CASE ~gocodeEnabled
    <3> DEFINE released == IF completer # NoEditor /\ current # NoEditor
                           THEN ConfigureCompleter(wiring, current, FALSE)
                           ELSE wiring
    <3>1. released \in Wirings
      BY <1>0, ConfigureCompleterType
    <3>2. wiring' = SetCompleter(released, gocodeCompleter, gocodeCompleter,
                                 gocodeFound)
      BY <1>0, <2>1, <2>3 DEF StoppedWiring, SetGocodeEnabled
    <3> HIDE DEF released
    <3>3. gocodeFound /\ gocodeCompleter # NoEditor
            => gocodeCompleter \in wiring'.gocode \cap wiring'.external
      BY <3>1, <3>2 DEF SetCompleter, Wirings
    <3> QED
      BY <2>1, <3>3 DEF GocodeFollows, GocodeTarget, SessionAssumption
  <2> QED
    BY <2>2, <2>3
<1>12. ASSUME NEW found \in BOOLEAN, StopReturns(found)
       PROVE  GocodeFollows'
  <2>1. gocodeFound' \in BOOLEAN
    BY <1>0, <1>12 DEF StopReturns
  <2>2. CASE caller = "option"
    BY <1>12, <2>2 DEF StopReturns, GocodeFollows, editorVars
  <2>3. CASE caller # "option"
    BY <1>0, <1>12, <2>1, <2>3, GocodeEditorChangedFollows
    DEF StopReturns, GocodeFollows, editorVars
  <2> QED
    BY <2>2, <2>3
<1>13. ASSUME UNCHANGED sessionVars
       PROVE  GocodeFollows'
  BY <1>13 DEF sessionVars, editorVars, gocodeVars, GocodeFollows
<1> QED
  BY <1>1, <1>2, <1>3, <1>4, <1>5, <1>6, <1>7, <1>8, <1>9, <1>10, <1>11, <1>12,
     <1>13
  DEF Next, UserStep, ProcessStep, Returns

-----------------------------------------------------------------------------
(* Whom the current editor reaches: HoldsCurrent, ServesCurrent and        *)
(* SilentIsHeard.                                                          *)

\* setCompleter decides anew whether its completer is silent, and leaves the
\* connections of gopls alone.
LEMMA SetCompleterHears ==
  ASSUME NEW w \in Wirings, NEW old, NEW new \in Editors \cup {NoEditor},
         NEW enabled \in BOOLEAN
  PROVE  /\ SetCompleter(w, old, new, enabled).gopls = w.gopls
         /\ new # NoEditor /\ enabled
              => new \in SetCompleter(w, old, new, enabled).gocode
         /\ new # NoEditor /\ ~enabled
              => new \notin SetCompleter(w, old, new, enabled).external
BY DEF SetCompleter, Wirings

LEMMA SetGocodeEnabledHears ==
  ASSUME TypeOK, NEW w \in Wirings, NEW enabled \in BOOLEAN
  PROVE  /\ SetGocodeEnabled(w, enabled).gopls = w.gopls
         /\ gocodeEnabled # enabled /\ gocodeCompleter # NoEditor =>
              IF enabled /\ gocodeFound
              THEN gocodeCompleter \in SetGocodeEnabled(w, enabled).gocode
              ELSE gocodeCompleter \notin SetGocodeEnabled(w, enabled).external
<1>1. gocodeCompleter \in Editors \cup {NoEditor} /\ (enabled /\ gocodeFound) \in BOOLEAN
  BY DEF TypeOK
<1>2. CASE gocodeEnabled = enabled
  BY <1>2 DEF SetGocodeEnabled
<1>3. CASE gocodeEnabled # enabled
  BY <1>1, <1>3, SetCompleterHears DEF SetGocodeEnabled
<1> QED
  BY <1>2, <1>3

\* gopls connects the completer it claims, and otherwise silences none.
LEMMA GoplsRewireHears ==
  ASSUME SessionAssumption,
         NEW w \in Wirings, NEW held \in Editors \cup {NoEditor},
         NEW e \in Editors \cup {NoEditor}, NEW serving \in BOOLEAN
  PROVE  /\ GoplsClaim(e, serving) # NoEditor
              => e \in GoplsRewire(w, held, e, serving).gopls
         /\ GoplsClaim(e, serving) = NoEditor
              => GoplsRewire(w, held, e, serving).external \subseteq w.external
<1> DEFINE released == IF held = NoEditor THEN w
                       ELSE ConfigureCompleter(w, held, FALSE)
<1>1. released \in Wirings
  BY ConfigureCompleterType
<1>2. released.external \subseteq w.external
  BY DEF ConfigureCompleter, Wirings
<1>3. CASE GoplsClaim(e, serving) = NoEditor
  BY <1>2, <1>3 DEF GoplsRewire
<1>4. CASE GoplsClaim(e, serving) # NoEditor
  <2>1. GoplsRewire(w, held, e, serving) = ConfigureCompleter(released, e, TRUE)
    BY <1>4 DEF GoplsRewire
  <2> HIDE DEF released
  <2>2. e \in ConfigureCompleter(released, e, TRUE).gopls
    BY <1>1 DEF ConfigureCompleter, Wirings
  <2> QED
    BY <1>4, <2>1, <2>2
<1> QED
  BY <1>3, <1>4

LEMMA GocodeEditorChangedHears ==
  ASSUME SessionAssumption, TypeOK, NEW w \in Wirings,
         NEW e \in Editors \cup {NoEditor}, NEW found \in BOOLEAN,
         GocodeEditorChanged(w, e, found)
  PROVE  /\ wiring'.gopls = w.gopls
         /\ e \in GoEditors \cap wiring'.external
              => gocodeEnabled /\ e \in wiring'.gocode
<1>1. GocodeTarget(e) \in Editors \cup {NoEditor} /\ (gocodeEnabled /\ found) \in BOOLEAN
  BY DEF GocodeTarget
<1>2. e \in GoEditors => GocodeTarget(e) = e /\ e # NoEditor
  BY DEF GocodeTarget, SessionAssumption
<1>3. gocodeEnabled \in BOOLEAN
  BY DEF TypeOK
<1> QED
  BY <1>1, <1>2, <1>3, SetCompleterHears DEF GocodeEditorChanged

\* After a change of the current editor the plugin holds what it serves, and
\* golangcode's slot leaves no completer silent that it does not hear.
LEMMA EmitHears ==
  ASSUME SessionAssumption, TypeOK, GocodeRestored,
         NEW e \in Editors \cup {NoEditor}, NEW paths,
         NEW held \in Editors \cup {NoEditor}, current' = e,
         EmitCurrentEditorChanged(e, paths, held),
         UNCHANGED <<useFeatures, gocodeEnabled>>
  PROVE  HoldsCurrent' /\ ServesCurrent' /\ SilentIsHeard'
<1>1. CASE LeavesWorkspace(e, paths)
  <2>1. RestartForWorkspace(CurrentKey(e, paths), "switch")
    BY <1>1 DEF EmitCurrentEditorChanged, GoplsEditorChanged
  <2>2. /\ ready' = FALSE /\ caller' = "switch"
        /\ stopping' = TRUE /\ running' = running
    BY <2>1 DEF RestartForWorkspace, BeginStop
  <2>3. running
    BY <1>1 DEF LeavesWorkspace, GocodeRestored
  <2> QED
    BY <2>2, <2>3 DEF HoldsCurrent, ServesCurrent, SilentIsHeard
<1>2. CASE ~LeavesWorkspace(e, paths)
  <2> DEFINE w == GoplsRewire(wiring, held, e, useFeatures /\ ready)
  <2>1. /\ ready' = ready
        /\ completer' = GoplsClaim(e, useFeatures /\ ready)
        /\ GocodeEditorChanged(w, e, gocodeFound)
    BY <1>2 DEF EmitCurrentEditorChanged, GoplsEditorChanged
  <2>2. /\ w \in Wirings
        /\ GoplsClaim(e, useFeatures /\ ready) # NoEditor => e \in w.gopls
    BY GoplsRewireType, GoplsRewireHears DEF TypeOK
  <2>3. gocodeFound \in BOOLEAN
    BY DEF TypeOK
  <2> HIDE DEF w
  <2>4. /\ wiring'.gopls = w.gopls
        /\ e \in GoEditors \cap wiring'.external => gocodeEnabled /\ e \in wiring'.gocode
    BY <2>1, <2>2, <2>3, GocodeEditorChangedHears
  <2>5. HoldsCurrent'
    BY <2>1 DEF HoldsCurrent, GoplsClaim
  <2>6. ServesCurrent'
    BY <2>1, <2>2, <2>4 DEF ServesCurrent, GoplsClaim, SessionAssumption
  <2>7. SilentIsHeard'
    BY <2>4 DEF SilentIsHeard
  <2> QED
    BY <2>5, <2>6, <2>7
<1> QED
  BY <1>1, <1>2

LEMMA HearsStep ==
  ASSUME SessionAssumption, TypeOK, GocodeRestored, GocodePaused, HeldMeansPaused,
         KnowsWorkspace, GocodeFollows, HoldsCurrent, ServesCurrent, SilentIsHeard,
         [Next]_sessionVars
  PROVE  HoldsCurrent' /\ ServesCurrent' /\ SilentIsHeard'
<1> DEFINE Hears == HoldsCurrent /\ ServesCurrent /\ SilentIsHeard
<1> USE DEF Idle
<1>0. /\ current \in Editors \cup {NoEditor}
      /\ completer \in Editors \cup {NoEditor}
      /\ useFeatures \in BOOLEAN /\ ready \in BOOLEAN
      /\ gocodeFound \in BOOLEAN /\ gocodeEnabled \in BOOLEAN
      /\ wiring \in Wirings
  BY DEF TypeOK
<1>a. current \in GoEditors => current # NoEditor
  BY DEF SessionAssumption
<1>b. caller \in {"none", "option"} /\ current \in GoEditors => gocodeCompleter = current
  BY DEF GocodeFollows, GocodeTarget
<1>1. ASSUME NEW e \in Editors, OpenEditor(e)
      PROVE  Hears'
  <2>1. current # e \/ current = NoEditor
    BY <1>1 DEF OpenEditor, TypeOK
  <2> QED
    BY <1>1, <1>a, <2>1
    DEF OpenEditor, HoldsCurrent, ServesCurrent, SilentIsHeard,
        clientVars, optionVars, pluginVars, gocodeVars
<1>2. ASSUME NEW e \in Editors, ActivateEditor(e)
      PROVE  Hears'
  BY <1>0, <1>2, EmitHears DEF ActivateEditor, optionVars
<1>3. ASSUME NEW e \in Editors, NEW next \in Editors \cup {NoEditor},
             CloseEditor(e, next)
      PROVE  Hears'
  <2>1. CASE e # current
    BY <1>3, <2>1
    DEF CloseEditor, HoldsCurrent, ServesCurrent, SilentIsHeard,
        clientVars, optionVars, pluginVars, gocodeVars
  <2>2. CASE e = current
    BY <1>3, <2>2, EmitHears DEF CloseEditor, optionVars
  <2> QED
    BY <2>1, <2>2
<1>4. ASSUME NEW p \in Paths, SaveEditorAs(p)
      PROVE  Hears'
  BY <1>0, <1>4, EmitHears DEF SaveEditorAs, optionVars
<1>5. ASSUME NEW outcome \in Outcomes, AppLoaded(outcome)
      PROVE  Hears'
  BY <1>5
  DEF AppLoaded, StartClient, GocodeRestored, HoldsCurrent, ServesCurrent, SilentIsHeard,
      editorVars, clientVars, pluginVars, gocodeVars
<1>6. ASSUME NEW outcome \in Outcomes, EnableFeatures(outcome)
      PROVE  Hears'
  <2>1. CASE running
    <3> DEFINE paused == SetGocodeEnabled(wiring, FALSE)
    <3>1. paused \in Wirings
      BY <1>0, SetGocodeEnabledType
    <3>2. /\ GoplsEditorChanged(current, path, completer, TRUE, "option")
          /\ gocodeEnabled' = FALSE /\ useFeatures' = TRUE
          /\ UNCHANGED current
          /\ wiring' = IF LeavesWorkspace(current, path) THEN paused
                       ELSE GoplsRewire(paused, completer, current, ready)
          /\ caller = "none" /\ ~useFeatures
      BY <1>6, <2>1 DEF EnableFeatures, editorVars
    <3>3. CASE LeavesWorkspace(current, path)
      BY <2>1, <3>2, <3>3
      DEF GoplsEditorChanged, RestartForWorkspace, BeginStop,
          HoldsCurrent, ServesCurrent, SilentIsHeard
    <3>4. CASE ~LeavesWorkspace(current, path)
      <4>1. /\ UNCHANGED <<ready, running, stopping, caller>>
            /\ completer' = GoplsClaim(current, ready)
            /\ wiring' = GoplsRewire(paused, completer, current, ready)
        <5>1. (TRUE /\ ready) = ready
          BY <1>0
        <5> HIDE DEF paused
        <5> QED
          BY <3>2, <3>4, <5>1 DEF GoplsEditorChanged, clientVars
      <4>2. current \in GoEditors \cap paused.external => running /\ stopping
        <5>1. CASE gocodeEnabled
          BY <1>0, <1>a, <1>b, <3>2, <5>1, SetGocodeEnabledHears
        <5>2. CASE ~gocodeEnabled
          BY <1>0, <3>2, <5>2 DEF SetGocodeEnabled, SilentIsHeard
        <5> QED
          BY <5>1, <5>2
      <4> HIDE DEF paused
      <4>3. /\ GoplsClaim(current, ready) # NoEditor => current \in wiring'.gopls
            /\ GoplsClaim(current, ready) = NoEditor
                 => wiring'.external \subseteq paused.external
        BY <1>0, <3>1, <4>1, GoplsRewireHears
      <4>4. HoldsCurrent'
        BY <3>2, <4>1 DEF HoldsCurrent, GoplsClaim
      <4>5. ServesCurrent'
        BY <1>a, <3>2, <4>1, <4>3 DEF ServesCurrent, GoplsClaim
      <4>6. SilentIsHeard'
        BY <1>a, <3>2, <4>1, <4>2, <4>3 DEF SilentIsHeard, GoplsClaim
      <4> QED
        BY <4>4, <4>5, <4>6
    <3> QED
      BY <3>3, <3>4
  <2>2. CASE ~running
    BY <1>6, <2>2
    DEF EnableFeatures, GocodeRestored, HoldsCurrent, ServesCurrent, SilentIsHeard,
        editorVars, pluginVars
  <2> QED
    BY <2>1, <2>2
<1>7. ASSUME DisableFeatures
      PROVE  Hears'
  <2>1. CASE running
    BY <1>7, <2>1
    DEF DisableFeatures, BeginStop, HoldsCurrent, ServesCurrent, SilentIsHeard,
        editorVars, pluginVars
  <2>2. CASE ~running
    <3>1. wiring' = GoplsRewire(wiring, NoEditor, current, FALSE)
      BY <1>7, <2>2
      DEF DisableFeatures, GocodeRestored, SetGocodeEnabled
    <3>2. wiring' = wiring
      BY <3>1, GoplsRewireNothing
    <3>3. completer' = NoEditor /\ ~ready' /\ UNCHANGED caller
      BY <1>7, <2>2
      DEF DisableFeatures, GocodeRestored, GoplsEditorChanged, LeavesWorkspace, GoplsClaim
    <3> QED
      BY <1>7, <2>2, <3>2, <3>3
      DEF DisableFeatures, GocodeRestored, HoldsCurrent, ServesCurrent, SilentIsHeard,
          editorVars
  <2> QED
    BY <2>1, <2>2
<1>8. ASSUME NEW outcome \in Outcomes, NEW found \in BOOLEAN,
             EnvironmentChanged(outcome, found)
      PROVE  Hears'
  <2>1. CASE appLoaded /\ running
    BY <1>8, <2>1
    DEF EnvironmentChanged, RestartForWorkspace, BeginStop,
        HoldsCurrent, ServesCurrent, SilentIsHeard, editorVars
  <2>2. CASE ~(appLoaded /\ running)
    <3>1. ~running /\ completer = NoEditor /\ ~ready
      BY <2>2 DEF KnowsWorkspace, GocodeRestored
    <3>2. current \in GoEditors \cap wiring'.external => gocodeEnabled /\ current \in wiring'.gocode
      BY <1>0, <1>8, <2>2, GocodeEditorChangedHears DEF EnvironmentChanged
    <3>3. completer' = NoEditor /\ ready' = FALSE /\ UNCHANGED <<current, gocodeEnabled>>
      BY <1>8, <2>2, <3>1 DEF EnvironmentChanged, editorVars
    <3> QED
      BY <3>2, <3>3 DEF HoldsCurrent, ServesCurrent, SilentIsHeard
  <2> QED
    BY <2>1, <2>2
<1>9. ASSUME Initialized
      PROVE  Hears'
  <2> DEFINE paused == IF useFeatures THEN SetGocodeEnabled(wiring, FALSE)
                       ELSE wiring
  <2>1. paused \in Wirings
    BY <1>0, SetGocodeEnabledType
  <2>2. /\ wiring' = GoplsRewire(paused, completer, current, useFeatures)
        /\ completer' = GoplsClaim(current, useFeatures)
        /\ ready' = TRUE /\ gocodeEnabled' = (gocodeEnabled /\ ~useFeatures)
        /\ UNCHANGED <<current, useFeatures, running, stopping, caller>>
    BY <1>9 DEF Initialized, PauseGocode, editorVars, optionVars
  <2>3. /\ GoplsClaim(current, useFeatures) # NoEditor => current \in wiring'.gopls
        /\ GoplsClaim(current, useFeatures) = NoEditor
             => wiring'.external \subseteq paused.external
    <3> HIDE DEF paused
    <3> QED
      BY <1>0, <2>1, <2>2, GoplsRewireHears
  <2>4. HoldsCurrent' /\ ServesCurrent'
    BY <1>a, <2>2, <2>3 DEF HoldsCurrent, ServesCurrent, GoplsClaim
  <2>5. CASE useFeatures
    BY <1>a, <2>2, <2>3, <2>4, <2>5 DEF SilentIsHeard, GoplsClaim
  <2>6. CASE ~useFeatures /\ gocodeEnabled
    <3>1. completer = NoEditor /\ useFeatures = FALSE
      BY <1>0, <2>6 DEF HeldMeansPaused
    <3>2. wiring' = wiring
      BY <2>2, <3>1, GoplsRewireNothing
    <3> QED
      BY <2>2, <2>4, <2>6, <3>2 DEF SilentIsHeard
  <2>7. CASE ~useFeatures /\ ~gocodeEnabled
    <3>1. wiring'.external \subseteq wiring.external
      BY <2>3, <2>7 DEF GoplsClaim
    <3> QED
      BY <2>2, <2>4, <2>7, <3>1 DEF SilentIsHeard
  <2> QED
    BY <1>0, <2>5, <2>6, <2>7
<1>10. ASSUME InitializeFailed
       PROVE  Hears'
  BY <1>10
  DEF InitializeFailed, HoldsCurrent, ServesCurrent, SilentIsHeard,
      editorVars, optionVars, pluginVars, gocodeVars
<1>11. ASSUME NEW outcome \in Outcomes, ProcessFinished(outcome)
       PROVE  Hears'
  <2>1. /\ wiring' = StoppedWiring /\ completer' = NoEditor
        /\ ready' = FALSE /\ gocodeEnabled' = TRUE
        /\ UNCHANGED <<current, caller>>
    BY <1>11 DEF ProcessFinished, ForgetServer, editorVars
  <2>2. ASSUME caller \in {"none", "option"}, current \in GoEditors \cap wiring'.external
        PROVE  current \in wiring'.gocode
    <3>1. CASE gocodeEnabled
      <4>1. wiring' = wiring
        BY <2>1, <3>1 DEF StoppedWiring, SetGocodeEnabled, HeldMeansPaused
      <4> QED
        BY <2>2, <3>1, <4>1 DEF SilentIsHeard
    <3>2. CASE ~gocodeEnabled
      <4> DEFINE released == IF completer # NoEditor /\ current # NoEditor
                             THEN ConfigureCompleter(wiring, current, FALSE)
                             ELSE wiring
      <4>1. released \in Wirings
        BY <1>0, ConfigureCompleterType
      <4>2. wiring' = SetGocodeEnabled(released, TRUE)
        BY <2>1 DEF StoppedWiring
      <4> HIDE DEF released
      <4> QED
        BY <1>0, <1>a, <1>b, <2>2, <3>2, <4>1, <4>2, SetGocodeEnabledHears
    <3> QED
      BY <3>1, <3>2
  <2> QED
    BY <2>1, <2>2 DEF HoldsCurrent, ServesCurrent, SilentIsHeard
<1>12. ASSUME NEW found \in BOOLEAN, StopReturns(found)
       PROVE  Hears'
  <2>1. gocodeFound' \in BOOLEAN
    BY <1>0, <1>12 DEF StopReturns
  <2>2. CASE caller = "option"
    BY <1>12, <2>2
    DEF StopReturns, HoldsCurrent, ServesCurrent, SilentIsHeard,
        editorVars, clientVars, optionVars, pluginVars
  <2>3. CASE caller # "option"
    <3>1. /\ wiring'.gopls = wiring.gopls
          /\ current \in GoEditors \cap wiring'.external
               => gocodeEnabled /\ current \in wiring'.gocode
      BY <1>0, <1>12, <2>1, <2>3, GocodeEditorChangedHears DEF StopReturns
    <3> QED
      BY <1>12, <3>1
      DEF StopReturns, HoldsCurrent, ServesCurrent, SilentIsHeard,
          editorVars, clientVars, optionVars, pluginVars
  <2> QED
    BY <2>2, <2>3
<1>13. ASSUME UNCHANGED sessionVars
       PROVE  Hears'
  BY <1>13
  DEF sessionVars, HoldsCurrent, ServesCurrent, SilentIsHeard,
      editorVars, clientVars, optionVars, pluginVars, gocodeVars
<1> QED
  BY <1>1, <1>2, <1>3, <1>4, <1>5, <1>6, <1>7, <1>8, <1>9, <1>10, <1>11, <1>12,
     <1>13
  DEF Next, UserStep, ProcessStep, Returns

-----------------------------------------------------------------------------
(* The theorems.                                                           *)

LEMMA SessionInvariantInit ==
  ASSUME SessionAssumption, Init
  PROVE  SessionInvariant
<1>1. TypeOK
  BY InitType
<1>2. GocodeRestored /\ GocodePaused /\ HeldMeansPaused /\ KnowsWorkspace
  BY DEF Init, GocodeRestored, GocodePaused, HeldMeansPaused, KnowsWorkspace
<1>3. GocodeAlone
  BY DEF Init, GocodeAlone
<1>4. GocodeFollows
  BY DEF Init, GocodeFollows, GocodeTarget, SessionAssumption
<1>5. HoldsCurrent /\ ServesCurrent /\ SilentIsHeard
  BY DEF Init, HoldsCurrent, ServesCurrent, SilentIsHeard
<1> QED
  BY <1>1, <1>2, <1>3, <1>4, <1>5 DEF SessionInvariant

LEMMA SessionInvariantStep ==
  ASSUME SessionAssumption, SessionInvariant, [Next]_sessionVars
  PROVE  SessionInvariant'
BY TypeStep, ClaimsStep, AloneStep, HeldStep, KnowsStep, FollowsStep, HearsStep
DEF SessionInvariant

\* The inductive invariant of the session.
THEOREM SessionInvariantHolds == Spec => []SessionInvariant
<1>1. Init => SessionInvariant
  BY SessionInvariantInit, SessionAssumption
<1>2. SessionInvariant /\ [Next]_sessionVars => SessionInvariant'
  BY SessionInvariantStep, SessionAssumption
<1> QED
  BY <1>1, <1>2, PTL DEF Spec

\* Whatever ends the server, gocode completion is enabled again and the
\* plugin claims nothing.
THEOREM GocodeRestoredHolds == Spec => []GocodeRestored
BY SessionInvariantHolds, PTL DEF SessionInvariant

\* A ready server with the features on has gocode paused, and gocode never
\* hears a completer while it is paused, nor one it let go of.
THEOREM OneOwnerHolds == Spec => []OneOwner
<1>1. SessionInvariant => OneOwner
  BY DEF SessionInvariant, OneOwner
<1> QED
  BY <1>1, SessionInvariantHolds, PTL

\* Enabled gocode serves the Go editor the user types in.
THEOREM GocodeServesHolds == Spec => []GocodeServes
<1>1. SessionInvariant => GocodeServes
  BY DEF SessionInvariant, GocodeFollows, GocodeServes, Idle
<1> QED
  BY <1>1, SessionInvariantHolds, PTL

\* A ready server with the features on hears the Go editor the user types in,
\* and the plugin holds that editor's completer.
THEOREM GoplsServesHolds == Spec => []GoplsServes
<1>1. SessionInvariant => GoplsServes
  BY DEF SessionInvariant, HoldsCurrent, ServesCurrent, GoplsServes, Settled, Idle
<1> QED
  BY <1>1, SessionInvariantHolds, PTL

\* A silenced word list has somebody to answer in its place.
THEOREM NeverDeafHolds == Spec => []NeverDeaf
<1>1. SessionInvariant => NeverDeaf
  BY DEF SessionInvariant, TypeOK, SilentIsHeard, NeverDeaf, Settled, Idle
<1> QED
  BY <1>1, SessionInvariantHolds, PTL

\* No server is carried from one workspace into another.
THEOREM ReadyInOneWorkspaceHolds == Spec => ReadyInOneWorkspace
<1>1. SessionInvariant /\ [Next]_sessionVars
        => [ready /\ ready'
              => CurrentKey(current', path') = CurrentKey(current, path)
           ]_sessionVars
  BY SessionAssumption, KnowsStep DEF SessionInvariant
<1> QED
  BY <1>1, SessionInvariantHolds, PTL DEF Spec, ReadyInOneWorkspace


-----------------------------------------------------------------------------
(* GoplsDocuments: the session under the documents.                        *)

\* Every step on the documents is a step of the session, or leaves it alone.
LEMMA DocStepIsSessionStep ==
  ASSUME [DocNext]_docVars
  PROVE  [Next]_sessionVars
<1>1. CASE \E p \in Paths : DocSaveEditorAs(p)
  BY <1>1 DEF DocSaveEditorAs, Next, UserStep
<1>2. CASE RenameAccepted \/ RenameSymbol \/ RenameRejected \/ DocRequest
  BY <1>2 DEF RenameAccepted, RenameSymbol, RenameRejected, DocRequest
<1>3. CASE \E outcome \in Outcomes : DocProcessFinished(outcome)
  BY <1>3 DEF DocProcessFinished, Next, ProcessStep
<1>4. CASE \E e \in Editors : DocOpenEditor(e) \/ DocActivateEditor(e)
  BY <1>4 DEF DocOpenEditor, DocActivateEditor, Next, UserStep
<1>5. CASE \E e \in Editors : Edit(e) \/ ServerEdit(e)
  BY <1>5 DEF Edit, ServerEdit
<1>6. CASE \E e \in Editors, next \in Editors \cup {NoEditor} : DocCloseEditor(e, next)
  BY <1>6 DEF DocCloseEditor, Next, UserStep
<1>7. CASE \E outcome \in Outcomes : DocAppLoaded(outcome) \/ DocApplyOption(outcome)
  BY <1>7 DEF DocAppLoaded, DocApplyOption, Next, UserStep
<1>8. CASE \E outcome \in Outcomes : DocEnvironmentChanged(outcome)
  BY <1>8 DEF DocEnvironmentChanged, Next, UserStep
<1>9. CASE DocInitialized \/ DocInitializeFailed \/ DocStopReturns
  BY <1>9 DEF DocInitialized, DocInitializeFailed, DocStopReturns, Next, ProcessStep,
              Returns
<1>10. CASE UNCHANGED docVars
  BY <1>10 DEF docVars
<1> QED
  BY <1>1, <1>2, <1>3, <1>4, <1>5, <1>6, <1>7, <1>8, <1>9, <1>10 DEF DocNext, Straying

\* What a step may do to the client while it leaves the server's documents
\* alone: nothing or an error in answer to initialize; a stop; a start.
ClientStep ==
  \/ UNCHANGED <<ready, stopping, running>> /\ (initializing' => initializing)
  \/ /\ UNCHANGED <<running, initializing>>
     /\ stopping' /\ (ready' => ready)
  \/ ~running /\ ~ready /\ ~ready'

LEMMA GoplsEditorChangedClient ==
  ASSUME NEW e, NEW paths, NEW held, NEW features, NEW handler,
         GoplsEditorChanged(e, paths, held, features, handler)
  PROVE  ClientStep /\ UNCHANGED <<running, initializing>>
BY DEF GoplsEditorChanged, RestartForWorkspace, BeginStop, LeavesWorkspace, clientVars,
       ClientStep

\* No such step makes a server listen.
LEMMA ClientStepListens ==
  ASSUME ready \in BOOLEAN, ready' \in BOOLEAN,
         stopping \in BOOLEAN, stopping' \in BOOLEAN, ClientStep
  PROVE  ready' /\ ~stopping' => ready /\ ~stopping
BY DEF ClientStep

-----------------------------------------------------------------------------
(* The notifications.                                                      *)

\* The invariant on the documents.
Documents ==
  /\ DocTypeOK
  /\ DialogIsOpen
  /\ ClosedAreBlank
  /\ Apart
  /\ ToldWhenReady
  /\ OpenWhenReady
  /\ ServerAgrees
  /\ LegalTraffic
  /\ DocumentsOfOpenEditors

\* The abstract step, where neither state is astray: each document stays,
\* is closed, or comes at a higher version (0 is no document).
Shown ==
  ~strayed /\ ~strayed' => \A p \in Paths :
    \/ srv'.docs[p] \in {srv.docs[p], Closed}
    \/ srv'.docs[p].version > srv.docs[p].version /\ srv'.docs[p].text \in 0..MaxEdits

Documented == [version : Nat, text : 0..MaxEdits]

LEMMA ClosedType ==
  ASSUME DocumentsAssumption
  PROVE  Closed \in Documented /\ Fresh \in [docs : [Paths -> Documented], illegal : BOOLEAN]
BY DEF DocumentsAssumption, Closed, Fresh, Documented

\* A notification reaches the named document only, and only a listening server.
LEMMA ToldWhat ==
  ASSUME DocTypeOK, NEW p \in Paths, NEW doc \in Documented, NEW inOrder \in BOOLEAN
  PROVE  /\ Told(p, doc, inOrder) \in [docs : [Paths -> Documented], illegal : BOOLEAN]
         /\ ~(running /\ ~stopping) => Told(p, doc, inOrder) = srv
         /\ running /\ ~stopping =>
              /\ Told(p, doc, inOrder).docs = [srv.docs EXCEPT ![p] = doc]
              /\ inOrder => Told(p, doc, inOrder).illegal = srv.illegal
BY DEF Told, Written, DocTypeOK, Documented

-----------------------------------------------------------------------------
(* Steps that tell the server nothing.                                     *)

\* The plugin forgets its documents when the server is no longer ready; the
\* dialog may open on an open editor or close.
Quiet ==
  /\ ClientStep
  /\ UNCHANGED <<open, path, text, documentVersions, srv, strayed>>
  /\ \/ UNCHANGED <<ready, openDocuments>>
     \/ ~ready' /\ openDocuments' = {}
  /\ \/ dialog' \in {dialog, NoEditor}
     \/ dialog' \in DialogEditors \cap open

LEMMA DocQuietStep ==
  ASSUME SessionInvariant, SessionInvariant', Documents, Quiet
  PROVE  Documents' /\ Shown
<1> USE DEF Documents, Quiet
<1>1. /\ ready \in BOOLEAN /\ ready' \in BOOLEAN
      /\ stopping \in BOOLEAN /\ running \in BOOLEAN
      /\ initializing \in BOOLEAN /\ initializing' \in BOOLEAN
  BY DEF SessionInvariant, TypeOK
<1>2. DocTypeOK' /\ DialogIsOpen'
  BY DEF DocTypeOK, DialogIsOpen
<1>3. ClosedAreBlank' /\ Apart' /\ LegalTraffic'
  BY DEF ClosedAreBlank, Apart, LegalTraffic
<1>4. DocumentsOfOpenEditors'
  BY DEF DocumentsOfOpenEditors
<1>5. ToldWhenReady'
  BY <1>1 DEF ToldWhenReady, ClientStep
<1>6. OpenWhenReady'
  BY <1>1 DEF OpenWhenReady, ClientStep
<1>7. ServerAgrees'
  BY <1>1 DEF ServerAgrees, ClientStep, IsOpen, ShownAs
<1>8. Shown
  BY DEF Shown
<1> QED
  BY <1>2, <1>3, <1>4, <1>5, <1>6, <1>7, <1>8

-----------------------------------------------------------------------------
(* Steps that tell the server of one document.                             *)

\* The file of an editor that changeDocument is called for.
FileOf(e) == IF e \in open THEN path[e] ELSE InitialPath[e]

\* What changeDocument does: the version rises, and if plugin and server agree
\* that the document is open, or is not, nothing but this document changes.
Reported(e, p, t, doc) ==
  /\ doc.version > 0 /\ doc.text = t
  /\ e \in openDocuments => doc.version > documentVersions[e]
  /\ p \in Paths
  /\ openDocuments' = openDocuments \cup {e}
  /\ documentVersions' = [documentVersions EXCEPT ![e] = doc.version]
  /\ srv' \in [docs : [Paths -> Documented], illegal : BOOLEAN]
  /\ ~(running /\ ~stopping) => srv' = srv
  /\ running /\ ~stopping /\ (e \in openDocuments <=> IsOpen(p)) =>
       /\ srv'.docs = [srv.docs EXCEPT ![p] = doc]
       /\ srv'.illegal = srv.illegal

LEMMA ChangeWhat ==
  ASSUME SessionAssumption, DocumentsAssumption, TypeOK, DocTypeOK,
         NEW e \in Editors, NEW t \in 0..MaxEdits, NEW n \in {1, 2},
         ChangeDocument(e, t, n)
  PROVE  \E doc \in Documented : Reported(e, FileOf(e), t, doc)
<1> DEFINE doc == [version |-> NextVersion(e, n), text |-> t]
           p   == FileOf(e)
<1>1. /\ NextVersion(e, n) \in Nat \ {0}
      /\ e \in openDocuments => NextVersion(e, n) > documentVersions[e]
  <2>1. documentVersions[e] \in Nat
    BY DEF DocTypeOK
  <2> QED
    BY <2>1 DEF NextVersion
<1>2. doc \in Documented /\ doc.version > 0 /\ doc.text = t
  BY <1>1 DEF Documented
<1>3. p \in Paths
  BY DEF FileOf, TypeOK, SessionAssumption
<1>4. /\ openDocuments' = openDocuments \cup {e}
      /\ documentVersions' = [documentVersions EXCEPT ![e] = doc.version]
      /\ srv' = IF e \in openDocuments THEN DidChange(p, doc) ELSE DidOpen(p, doc)
  BY DEF ChangeDocument, FileOf
<1>5. e \in openDocuments => doc.version > documentVersions[e]
  BY <1>1
<1> HIDE DEF doc, p
<1>6. IsOpen(p) \in BOOLEAN /\ (~IsOpen(p)) \in BOOLEAN
  BY DEF IsOpen
<1>7. Closed \in Documented
  BY ClosedType
<1>8. ASSUME NEW shown \in Documented, NEW inOrder \in BOOLEAN,
             srv' = Told(p, shown, inOrder)
      PROVE  /\ srv' \in [docs : [Paths -> Documented], illegal : BOOLEAN]
             /\ ~(running /\ ~stopping) => srv' = srv
             /\ running /\ ~stopping /\ inOrder =>
                  /\ srv'.docs = [srv.docs EXCEPT ![p] = shown]
                  /\ srv'.illegal = srv.illegal
  <2>1. srv.illegal \in BOOLEAN
    BY DEF DocTypeOK
  <2> QED
    BY <1>3, <1>8, <2>1, ToldWhat
<1>9. CASE e \in openDocuments /\ IsOpen(p)
  <2>1. srv' = Told(p, doc, TRUE)
    BY <1>4, <1>6, <1>9 DEF DidChange, Told
  <2> QED
    BY <1>2, <1>3, <1>4, <1>5, <1>8, <1>9, <2>1 DEF p, Reported
<1>10. CASE e \in openDocuments /\ ~IsOpen(p)
  <2>1. srv' = Told(p, Closed, FALSE)
    BY <1>4, <1>6, <1>10 DEF DidChange, Told
  <2> QED
    BY <1>2, <1>3, <1>4, <1>5, <1>7, <1>8, <1>10, <2>1 DEF p, Reported
<1>11. CASE e \notin openDocuments /\ IsOpen(p)
  <2>1. srv' = Told(p, doc, FALSE)
    BY <1>4, <1>6, <1>11 DEF DidOpen, Told
  <2> QED
    BY <1>2, <1>3, <1>4, <1>5, <1>8, <1>11, <2>1 DEF p, Reported
<1>12. CASE e \notin openDocuments /\ ~IsOpen(p)
  <2>1. srv' = Told(p, doc, TRUE)
    BY <1>4, <1>6, <1>12 DEF DidOpen, Told
  <2> QED
    BY <1>2, <1>3, <1>4, <1>5, <1>8, <1>12, <2>1 DEF p, Reported
<1> QED
  BY <1>9, <1>10, <1>11, <1>12

\* An editor's document is brought up to date: after an edit, before a
\* request, or when the rename dialog is accepted.
Talks(e, t, n) ==
  /\ ChangeDocument(e, t, n)
  /\ text' = [text EXCEPT ![e] = t]
  /\ UNCHANGED sessionVars
  /\ strayed' = (strayed \/ ~ready)
  /\ dialog' \in {dialog, NoEditor}

LEMMA TalkStep ==
  ASSUME SessionAssumption, DocumentsAssumption, SessionInvariant, Documents,
         NEW e \in open \cap GoEditors, NEW t \in 0..MaxEdits, NEW n \in {1, 2},
         Talks(e, t, n)
  PROVE  Documents' /\ Shown
<1> USE DEF Documents
<1>1. /\ TypeOK /\ DocTypeOK /\ e \in Editors
      /\ ready \in BOOLEAN /\ strayed \in BOOLEAN
      /\ ready => running
  BY DEF SessionInvariant, SessionAssumption, TypeOK, DocTypeOK, GocodeRestored
<1>2. UNCHANGED <<open, path, running, stopping, initializing, ready>>
  BY DEF Talks, sessionVars, editorVars, clientVars, pluginVars
<1>3. FileOf(e) = path[e]
  BY DEF FileOf
<1>4. PICK doc \in Documented : Reported(e, path[e], t, doc)
  <2>1. ChangeDocument(e, t, n)
    BY DEF Talks
  <2> QED
    BY <1>1, <1>3, <2>1, ChangeWhat
<1> USE DEF Reported
<1>5. ~strayed' => ~strayed /\ ready /\ e \in openDocuments
  BY <1>1 DEF Talks, OpenWhenReady
<1>6. ASSUME ~strayed', ~stopping
      PROVE  /\ srv'.docs = [srv.docs EXCEPT ![path[e]] = doc]
             /\ srv'.illegal = srv.illegal
             /\ srv.docs[path[e]] = ShownAs(e)
  <2>1. /\ documentVersions[e] > 0 /\ srv.docs[path[e]] = ShownAs(e)
        /\ documentVersions[e] \in Nat
    BY <1>1, <1>5, <1>6 DEF ServerAgrees, DocTypeOK
  <2>2. IsOpen(path[e])
    BY <2>1 DEF IsOpen, ShownAs, Closed
  <2> QED
    BY <1>1, <1>4, <1>5, <1>6, <2>1, <2>2
<1>7. DocTypeOK'
  <2>1. /\ doc.version \in Nat /\ documentVersions' \in [Editors -> Nat]
        /\ text' \in [Editors -> 0..MaxEdits]
    BY <1>1, <1>4 DEF DocTypeOK, Documented, Talks
  <2>2. openDocuments' \subseteq Editors /\ strayed' \in BOOLEAN
    BY <1>1, <1>4 DEF DocTypeOK, Talks
  <2>3. dialog' \in DialogEditors \cup {NoEditor}
    BY DEF DocTypeOK, Talks
  <2> QED
    BY <1>4, <2>1, <2>2, <2>3 DEF DocTypeOK, Documented
<1>8. DialogIsOpen' /\ ClosedAreBlank' /\ Apart'
  <2>1. DialogIsOpen' /\ Apart'
    BY <1>1, <1>2 DEF Talks, DialogIsOpen, Apart
  <2>2. ClosedAreBlank'
    BY <1>1, <1>2 DEF Talks, ClosedAreBlank, DocTypeOK
  <2> QED
    BY <2>1, <2>2
<1>9. ToldWhenReady'
  BY <1>1, <1>2, <1>4, <1>5 DEF ToldWhenReady, Talks
<1>10. OpenWhenReady' /\ DocumentsOfOpenEditors'
  BY <1>2, <1>4, <1>5 DEF OpenWhenReady, DocumentsOfOpenEditors
<1>11. LegalTraffic'
  BY <1>4, <1>5, <1>6 DEF LegalTraffic
<1>12. ServerAgrees'
  <2> SUFFICES ASSUME ~strayed', ~stopping, ready
               PROVE  /\ \A f \in open \cap GoEditors :
                           /\ documentVersions'[f] > 0
                           /\ srv'.docs[path[f]] = ShownAs(f)'
                      /\ \A p \in Paths : IsOpen(p)' =>
                           \E f \in open \cap GoEditors : path[f] = p
    BY <1>2 DEF ServerAgrees
  <2>1. /\ srv'.docs = [srv.docs EXCEPT ![path[e]] = doc]
        /\ text' = [text EXCEPT ![e] = t]
        /\ srv.docs \in [Paths -> Documented]
        /\ path \in [Editors -> Paths] /\ open \subseteq Editors
        /\ documentVersions \in [Editors -> Nat] /\ text \in [Editors -> 0..MaxEdits]
    BY <1>1, <1>6 DEF Talks, DocTypeOK, Documented, TypeOK
  <2>2. ASSUME NEW f \in open \cap GoEditors
        PROVE  documentVersions'[f] > 0 /\ srv'.docs[path[f]] = ShownAs(f)'
    <3>1. CASE f = e
      <4>1. documentVersions'[e] = doc.version /\ text'[e] = t
        BY <1>1, <1>4, <2>1
      <4>2. srv'.docs[path[e]] = doc
        BY <1>4, <2>1
      <4>3. doc = [version |-> doc.version, text |-> t]
        BY <1>4 DEF Documented
      <4> QED
        BY <1>4, <3>1, <4>1, <4>2, <4>3 DEF ShownAs
    <3>2. CASE f # e
      <4>1. path[f] # path[e]
        BY <1>5, <2>2, <3>2 DEF Apart
      <4>2. documentVersions[f] > 0 /\ srv.docs[path[f]] = ShownAs(f)
        BY <1>5, <2>2 DEF ServerAgrees
      <4>3. path[f] \in Paths /\ f \in Editors
        BY <2>1, <2>2
      <4>4. srv'.docs[path[f]] = srv.docs[path[f]]
        BY <2>1, <4>1, <4>3
      <4>5. documentVersions'[f] = documentVersions[f] /\ text'[f] = text[f]
        BY <1>4, <2>1, <3>2, <4>3
      <4> QED
        BY <4>2, <4>4, <4>5 DEF ShownAs
    <3> QED
      BY <3>1, <3>2
  <2>3. ASSUME NEW p \in Paths, IsOpen(p)'
        PROVE  \E f \in open \cap GoEditors : path[f] = p
    <3>1. CASE p = path[e]
      BY <3>1
    <3>2. CASE p # path[e]
      <4>1. IsOpen(p)
        BY <2>1, <2>3, <3>2 DEF IsOpen
      <4> QED
        BY <1>5, <4>1 DEF ServerAgrees
    <3> QED
      BY <3>1, <3>2
  <2> QED
    BY <2>2, <2>3
<1>13. Shown
  <2> SUFFICES ASSUME ~strayed', NEW p \in Paths, srv'.docs[p] # srv.docs[p]
               PROVE  /\ srv'.docs[p].version > srv.docs[p].version
                      /\ srv'.docs[p].text \in 0..MaxEdits
    BY DEF Shown
  <2>1. ~stopping
    BY <1>4
  <2>2. /\ srv'.docs = [srv.docs EXCEPT ![path[e]] = doc]
        /\ srv.docs[path[e]] = ShownAs(e)
        /\ srv.docs \in [Paths -> Documented]
    BY <1>1, <1>6, <2>1 DEF DocTypeOK, Documented
  <2>3. p = path[e] /\ srv'.docs[p] = doc
    BY <1>4, <2>2
  <2> QED
    BY <1>4, <1>5, <2>2, <2>3 DEF ShownAs
<1> QED
  BY <1>7, <1>8, <1>9, <1>10, <1>11, <1>12, <1>13

\* A text that the server does not hear of changes.
LEMMA SilentEditStep ==
  ASSUME SessionInvariant, Documents, NEW e \in open, NEW t \in 0..MaxEdits,
         ~(ready /\ e \in GoEditors),
         text' = [text EXCEPT ![e] = t],
         UNCHANGED <<sessionVars, documentVars, dialog, strayed>>
  PROVE  Documents' /\ Shown
<1> USE DEF Documents, documentVars
<1>1. /\ open \subseteq Editors /\ e \in Editors
      /\ text \in [Editors -> 0..MaxEdits]
  BY DEF SessionInvariant, TypeOK, DocTypeOK
<1>2. UNCHANGED <<open, path, running, stopping, initializing, ready>>
  BY DEF sessionVars, editorVars, clientVars, pluginVars
<1>3. DocTypeOK'
  BY <1>1 DEF DocTypeOK
<1>4. ClosedAreBlank'
  BY <1>1, <1>2 DEF ClosedAreBlank
<1>5. DialogIsOpen' /\ Apart' /\ ToldWhenReady' /\ OpenWhenReady' /\ LegalTraffic'
  BY <1>2 DEF DialogIsOpen, Apart, ToldWhenReady, OpenWhenReady, LegalTraffic
<1>6. DocumentsOfOpenEditors'
  BY <1>2 DEF DocumentsOfOpenEditors
<1>7. ServerAgrees'
  <2>1. \A f \in open \cap GoEditors : ready => text'[f] = text[f]
    BY <1>1
  <2> QED
    BY <1>2, <2>1 DEF ServerAgrees, ShownAs, IsOpen
<1>8. Shown
  BY DEF Shown
<1> QED
  BY <1>3, <1>4, <1>5, <1>6, <1>7, <1>8

-----------------------------------------------------------------------------
(* Editors that come, go and move.                                         *)

LEMMA DocOpenEditorStep ==
  ASSUME SessionAssumption, DocumentsAssumption, SessionInvariant, Documents,
         NEW e \in Editors, DocOpenEditor(e), UNCHANGED strayed
  PROVE  Documents' /\ Shown
<1> USE DEF Documents
<1>1. /\ TypeOK /\ DocTypeOK
      /\ ready \in BOOLEAN /\ strayed \in BOOLEAN
      /\ ready => running
      /\ open \subseteq Editors /\ path \in [Editors -> Paths]
      /\ text \in [Editors -> 0..MaxEdits]
  BY DEF SessionInvariant, TypeOK, DocTypeOK, GocodeRestored
<1>2. /\ e \notin open /\ open' = open \cup {e}
      /\ path' = [path EXCEPT ![e] = InitialPath[e]]
      /\ UNCHANGED <<running, stopping, initializing, ready, text, dialog>>
      /\ dialog = NoEditor
  BY DEF DocOpenEditor, OpenEditor, UserFree, clientVars, pluginVars
<1>3. /\ \A f \in open : path[f] # InitialPath[e] /\ path'[f] = path[f] /\ f # e
      /\ path'[e] = InitialPath[e]
      /\ text[e] = 0
  BY <1>1, <1>2 DEF DocOpenEditor, OpenEditor, FindEditor, ClosedAreBlank
<1>4. e \notin openDocuments
  BY <1>2 DEF DocumentsOfOpenEditors
<1>5. DialogIsOpen' /\ ClosedAreBlank'
  BY <1>1, <1>2 DEF DialogIsOpen, ClosedAreBlank
<1>6. Apart'
  BY <1>2, <1>3 DEF Apart
<1>7. CASE ready /\ e \in GoEditors
  <2>1. ChangeDocument(e, 0, 1)
    BY <1>7 DEF DocOpenEditor
  <2>2. FileOf(e) = InitialPath[e] /\ 0 \in 0..MaxEdits
    BY <1>2 DEF FileOf, DocumentsAssumption
  <2>3. PICK doc \in Documented : Reported(e, InitialPath[e], 0, doc)
    BY <1>1, <2>1, <2>2, ChangeWhat
  <2> USE DEF Reported
  <2>4. ~strayed => openDocuments = open \cap GoEditors
    BY <1>7 DEF OpenWhenReady
  <2>5. DocTypeOK'
    <3>1. doc.version \in Nat /\ documentVersions' \in [Editors -> Nat]
      BY <1>1, <2>3 DEF DocTypeOK, Documented
    <3>2. openDocuments' \subseteq Editors
      BY <1>1, <2>3 DEF DocTypeOK
    <3> QED
      BY <1>1, <1>2, <2>3, <3>1, <3>2 DEF DocTypeOK, Documented
  <2>6. ToldWhenReady' /\ OpenWhenReady' /\ DocumentsOfOpenEditors'
    BY <1>1, <1>2, <1>7, <2>3, <2>4
    DEF ToldWhenReady, OpenWhenReady, DocumentsOfOpenEditors
  <2>7. ASSUME ~strayed, ~stopping
        PROVE  /\ srv'.docs = [srv.docs EXCEPT ![InitialPath[e]] = doc]
               /\ srv'.illegal = srv.illegal
               /\ ~IsOpen(InitialPath[e])
    <3>1. ~IsOpen(InitialPath[e])
      BY <1>3, <1>7, <2>3, <2>7 DEF ServerAgrees
    <3> QED
      BY <1>1, <1>4, <1>7, <2>3, <2>7, <3>1
  <2>8. LegalTraffic'
    BY <2>3, <2>7 DEF LegalTraffic
  <2>9. ServerAgrees'
    <3> SUFFICES ASSUME ~strayed, ~stopping
                 PROVE  /\ \A f \in open' \cap GoEditors :
                             /\ documentVersions'[f] > 0
                             /\ srv'.docs[path'[f]] = ShownAs(f)'
                        /\ \A p \in Paths : IsOpen(p)' =>
                             \E f \in open' \cap GoEditors : path'[f] = p
      BY <1>2 DEF ServerAgrees
    <3>1. /\ srv'.docs = [srv.docs EXCEPT ![InitialPath[e]] = doc]
          /\ srv.docs \in [Paths -> Documented]
          /\ documentVersions \in [Editors -> Nat]
      BY <1>1, <2>7 DEF DocTypeOK, Documented
    <3>2. documentVersions'[e] > 0 /\ srv'.docs[path'[e]] = ShownAs(e)'
      <4>1. documentVersions'[e] = doc.version /\ text'[e] = 0
        BY <1>2, <1>3, <2>3, <3>1
      <4>2. srv'.docs[path'[e]] = doc
        BY <1>3, <2>3, <3>1
      <4>3. doc = [version |-> doc.version, text |-> 0]
        BY <2>3 DEF Documented
      <4> QED
        BY <2>3, <4>1, <4>2, <4>3 DEF ShownAs
    <3>3. ASSUME NEW f \in open \cap GoEditors
          PROVE  documentVersions'[f] > 0 /\ srv'.docs[path'[f]] = ShownAs(f)'
      <4>1. f \in Editors /\ path[f] \in Paths /\ f # e /\ path'[f] = path[f]
            /\ path[f] # InitialPath[e]
        BY <1>1, <1>3
      <4>2. documentVersions[f] > 0 /\ srv.docs[path[f]] = ShownAs(f)
        BY <1>7 DEF ServerAgrees
      <4>3. documentVersions'[f] = documentVersions[f] /\ text'[f] = text[f]
        BY <1>2, <2>3, <3>1, <4>1
      <4>4. srv'.docs[path'[f]] = srv.docs[path[f]]
        BY <3>1, <4>1
      <4> QED
        BY <4>2, <4>3, <4>4 DEF ShownAs
    <3>4. ASSUME NEW p \in Paths, IsOpen(p)'
          PROVE  \E f \in open' \cap GoEditors : path'[f] = p
      <4>1. CASE p = InitialPath[e]
        BY <1>2, <1>3, <1>7, <4>1
      <4>2. CASE p # InitialPath[e]
        <5>1. IsOpen(p)
          BY <3>1, <3>4, <4>2 DEF IsOpen
        <5>2. PICK f \in open \cap GoEditors : path[f] = p
          BY <1>7, <5>1 DEF ServerAgrees
        <5> QED
          BY <1>2, <1>3, <5>2
      <4> QED
        BY <4>1, <4>2
    <3> QED
      BY <1>2, <3>2, <3>3, <3>4
  <2>10. Shown
    <3> SUFFICES ASSUME ~strayed, NEW p \in Paths, srv'.docs[p] # srv.docs[p]
                 PROVE  /\ srv'.docs[p].version > srv.docs[p].version
                        /\ srv'.docs[p].text \in 0..MaxEdits
      BY DEF Shown
    <3>1. ~stopping
      BY <2>3
    <3>2. /\ srv'.docs = [srv.docs EXCEPT ![InitialPath[e]] = doc]
          /\ srv.docs[InitialPath[e]] = Closed
          /\ srv.docs \in [Paths -> Documented]
      BY <1>1, <2>7, <3>1 DEF DocTypeOK, Documented, IsOpen
    <3>3. p = InitialPath[e] /\ srv'.docs[p] = doc
      BY <2>3, <3>2
    <3> QED
      BY <2>2, <2>3, <3>2, <3>3 DEF Closed
  <2> QED
    BY <1>5, <1>6, <2>5, <2>6, <2>8, <2>9, <2>10
<1>8. CASE ~(ready /\ e \in GoEditors)
  <2>1. UNCHANGED <<openDocuments, documentVersions, srv>>
    BY <1>8 DEF DocOpenEditor, documentVars
  <2>2. DocTypeOK' /\ LegalTraffic' /\ DocumentsOfOpenEditors'
    BY <1>2, <2>1 DEF DocTypeOK, LegalTraffic, DocumentsOfOpenEditors
  <2>3. ToldWhenReady' /\ OpenWhenReady'
    BY <1>2, <1>8, <2>1 DEF ToldWhenReady, OpenWhenReady
  <2>4. ServerAgrees'
    BY <1>2, <1>3, <1>8, <2>1 DEF ServerAgrees, ShownAs, IsOpen
  <2>5. Shown
    BY <2>1 DEF Shown
  <2> QED
    BY <1>5, <1>6, <2>2, <2>3, <2>4, <2>5
<1> QED
  BY <1>7, <1>8

LEMMA DocCloseEditorStep ==
  ASSUME SessionAssumption, DocumentsAssumption, SessionInvariant, SessionInvariant',
         Documents,
         NEW e \in Editors, NEW next \in Editors \cup {NoEditor},
         DocCloseEditor(e, next), UNCHANGED strayed
  PROVE  Documents' /\ Shown
<1> USE DEF Documents
<1>1. /\ DocTypeOK
      /\ ready \in BOOLEAN /\ strayed \in BOOLEAN /\ stopping \in BOOLEAN
      /\ ready' \in BOOLEAN /\ running \in BOOLEAN /\ stopping' \in BOOLEAN
      /\ ready => running
      /\ open \subseteq Editors /\ path \in [Editors -> Paths]
  BY DEF SessionInvariant, TypeOK, DocTypeOK, GocodeRestored
<1>2. /\ e \in open /\ open' = open \ {e}
      /\ UNCHANGED path
      /\ ClientStep /\ UNCHANGED <<running, initializing>>
  BY GoplsEditorChangedClient
  DEF DocCloseEditor, CloseEditor, EmitCurrentEditorChanged, ClientStep, clientVars,
      pluginVars
<1>3. /\ openDocuments' = IF ready /\ ~ready' THEN {} ELSE openDocuments \ {e}
      /\ documentVersions' = [documentVersions EXCEPT ![e] = 0]
      /\ text' = [text EXCEPT ![e] = 0]
      /\ srv' = IF e \in openDocuments THEN DidClose(path[e]) ELSE srv
      /\ dialog = NoEditor /\ dialog' = NoEditor
  BY DEF DocCloseEditor, WithoutClosed, UserFree
<1>4. path[e] \in Paths
  BY <1>1
<1>5. /\ srv' \in [docs : [Paths -> Documented], illegal : BOOLEAN]
      /\ ~(running /\ ~stopping) => srv' = srv
      /\ running /\ ~stopping /\ e \in openDocuments =>
           /\ srv'.docs = [srv.docs EXCEPT ![path[e]] = Closed]
           /\ IsOpen(path[e]) => srv'.illegal = srv.illegal
  <2>1. CASE e \in openDocuments /\ IsOpen(path[e])
    <3>1. srv' = Told(path[e], Closed, TRUE)
      BY <1>3, <2>1 DEF DidClose, Told
    <3>2. srv.illegal \in BOOLEAN /\ Closed \in Documented
      BY <1>1, ClosedType DEF DocTypeOK
    <3> QED
      BY <1>1, <1>4, <2>1, <3>1, <3>2, ToldWhat
  <2>2. CASE e \in openDocuments /\ ~IsOpen(path[e])
    <3>1. srv' = Told(path[e], Closed, FALSE)
      BY <1>3, <2>2 DEF DidClose, Told
    <3> QED
      BY <1>1, <1>4, <2>2, <3>1, ClosedType, ToldWhat
  <2>3. CASE e \notin openDocuments
    BY <1>1, <1>3, <2>3 DEF DocTypeOK, Documented
  <2> QED
    BY <2>1, <2>2, <2>3
<1>6. DocTypeOK'
  <2>1. text' \in [Editors -> 0..MaxEdits] /\ documentVersions' \in [Editors -> Nat]
    BY <1>1, <1>3 DEF DocTypeOK, DocumentsAssumption
  <2>2. openDocuments' \subseteq Editors
    BY <1>1, <1>3 DEF DocTypeOK
  <2> QED
    BY <1>1, <1>3, <1>5, <2>1, <2>2 DEF DocTypeOK, Documented
<1>7. DialogIsOpen' /\ ClosedAreBlank' /\ Apart' /\ DocumentsOfOpenEditors'
  BY <1>1, <1>2, <1>3
  DEF DialogIsOpen, ClosedAreBlank, Apart, DocumentsOfOpenEditors, DocTypeOK
<1>8. ToldWhenReady'
  <2>1. ~strayed /\ ~ready => openDocuments = {} /\ srv' = srv
    BY <1>3 DEF ToldWhenReady
  <2>2. ~running => srv' = Fresh
    BY <1>5 DEF ToldWhenReady
  <2> QED
    BY <1>1, <1>2, <1>3, <2>1, <2>2 DEF ToldWhenReady, ClientStep
<1>9. OpenWhenReady'
  BY <1>1, <1>2, <1>3 DEF OpenWhenReady, ClientStep
<1>10. ASSUME ~strayed, ~stopping, ready, e \in openDocuments
       PROVE  /\ srv'.docs = [srv.docs EXCEPT ![path[e]] = Closed]
              /\ srv'.illegal = srv.illegal
  <2>1. e \in open \cap GoEditors
    BY <1>10 DEF DocumentsOfOpenEditors
  <2>2. srv.docs[path[e]] = ShownAs(e) /\ documentVersions[e] > 0
    BY <1>10, <2>1 DEF ServerAgrees
  <2>3. IsOpen(path[e])
    BY <2>2 DEF IsOpen, ShownAs, Closed
  <2> QED
    BY <1>1, <1>5, <1>10, <2>3
<1>11. LegalTraffic'
  <2>1. CASE srv' = srv
    BY <2>1 DEF LegalTraffic
  <2>2. CASE srv' # srv
    BY <1>1, <1>3, <1>5, <1>10, <2>2 DEF LegalTraffic, ToldWhenReady
  <2> QED
    BY <2>1, <2>2
<1>12. ServerAgrees'
  <2> SUFFICES ASSUME ~strayed, ready', ~stopping'
               PROVE  /\ \A f \in open' \cap GoEditors :
                           /\ documentVersions'[f] > 0
                           /\ srv'.docs[path[f]] = ShownAs(f)'
                      /\ \A p \in Paths : IsOpen(p)' =>
                           \E f \in open' \cap GoEditors : path[f] = p
    BY <1>2 DEF ServerAgrees
  <2>1. ready /\ ~stopping
    BY <1>1, <1>2, ClientStepListens
  <2>2. /\ srv.docs \in [Paths -> Documented]
        /\ documentVersions \in [Editors -> Nat] /\ text \in [Editors -> 0..MaxEdits]
    BY <1>1 DEF DocTypeOK, Documented
  <2>3. e \in openDocuments <=> e \in GoEditors
    BY <1>2, <2>1 DEF OpenWhenReady
  <2>4. ASSUME NEW f \in open' \cap GoEditors
        PROVE  documentVersions'[f] > 0 /\ srv'.docs[path[f]] = ShownAs(f)'
    <3>1. f \in open \cap GoEditors /\ f # e /\ f \in Editors /\ path[f] \in Paths
      BY <1>1, <1>2
    <3>2. documentVersions[f] > 0 /\ srv.docs[path[f]] = ShownAs(f)
      BY <2>1, <3>1 DEF ServerAgrees
    <3>3. documentVersions'[f] = documentVersions[f] /\ text'[f] = text[f]
      BY <1>3, <2>2, <3>1
    <3>4. path[f] # path[e]
      BY <1>2, <3>1 DEF Apart
    <3>5. srv'.docs[path[f]] = srv.docs[path[f]]
      <4>1. CASE e \in openDocuments
        BY <1>10, <2>1, <2>2, <3>1, <3>4, <4>1
      <4>2. CASE e \notin openDocuments
        BY <1>3, <4>2
      <4> QED
        BY <4>1, <4>2
    <3> QED
      BY <3>2, <3>3, <3>5 DEF ShownAs
  <2>5. ASSUME NEW p \in Paths, IsOpen(p)'
        PROVE  \E f \in open' \cap GoEditors : path[f] = p
    <3>1. IsOpen(p) /\ (e \in openDocuments => p # path[e])
      <4>1. CASE e \in openDocuments
        BY <1>10, <2>1, <2>2, <2>5, <4>1 DEF IsOpen
      <4>2. CASE e \notin openDocuments
        BY <1>3, <2>5, <4>2 DEF IsOpen
      <4> QED
        BY <4>1, <4>2
    <3>2. PICK f \in open \cap GoEditors : path[f] = p
      BY <2>1, <3>1 DEF ServerAgrees
    <3>3. f # e
      BY <2>3, <3>1, <3>2
    <3> QED
      BY <1>2, <3>2, <3>3
  <2> QED
    BY <2>4, <2>5
<1>13. Shown
  <2> SUFFICES ASSUME ~strayed, NEW p \in Paths
               PROVE  srv'.docs[p] \in {srv.docs[p], Closed}
    BY DEF Shown
  <2>1. CASE srv' = srv
    BY <2>1
  <2>2. CASE srv' # srv
    <3>1. srv'.docs = [srv.docs EXCEPT ![path[e]] = Closed]
      BY <1>1, <1>3, <1>5, <2>2
    <3> QED
      BY <1>1, <3>1 DEF DocTypeOK
  <2> QED
    BY <2>1, <2>2
<1> QED
  BY <1>6, <1>7, <1>8, <1>9, <1>11, <1>12, <1>13

\* Save As leads astray, and the server hears nothing.
LEMMA DocSaveEditorAsStep ==
  ASSUME SessionInvariant, SessionInvariant', Documents,
         NEW p \in Paths, DocSaveEditorAs(p)
  PROVE  Documents' /\ Shown
<1> USE DEF Documents
<1>1. /\ strayed' = TRUE /\ UNCHANGED <<open, text, documentVersions, srv, dialog>>
      /\ openDocuments' = IF ready /\ ~ready' THEN {} ELSE openDocuments
      /\ ClientStep /\ UNCHANGED <<running, initializing>>
  BY GoplsEditorChangedClient
  DEF DocSaveEditorAs, SaveEditorAs, EmitCurrentEditorChanged, ForgetIfLeft
<1>2. DocTypeOK' /\ DocumentsOfOpenEditors'
  BY <1>1 DEF DocTypeOK, DocumentsOfOpenEditors
<1>3. DialogIsOpen' /\ ClosedAreBlank'
  BY <1>1 DEF DialogIsOpen, ClosedAreBlank
<1>4. ToldWhenReady'
  BY <1>1 DEF ToldWhenReady, ClientStep
<1>5. Apart' /\ OpenWhenReady' /\ ServerAgrees' /\ LegalTraffic' /\ Shown
  BY <1>1 DEF Apart, OpenWhenReady, ServerAgrees, LegalTraffic, Shown
<1> QED
  BY <1>2, <1>3, <1>4, <1>5

-----------------------------------------------------------------------------
(* A server that answers, and one that ends.                               *)

\* openDocument of every open Go editor, none of which is taken to be open:
\* the documents of different editors do not meet, for their files differ.
LEMMA OpenDocumentsWhat ==
  ASSUME SessionAssumption, DocumentsAssumption, SessionInvariant, Documents,
         ~ready, OpenDocuments(open)
  PROVE  /\ openDocuments' \subseteq Editors
         /\ openDocuments' \subseteq open \cap GoEditors
         /\ documentVersions' \in [Editors -> Nat]
         /\ srv' \in [docs : [Paths -> Documented], illegal : BOOLEAN]
         /\ ~(running /\ ~stopping) => srv' = srv
         /\ ~strayed => openDocuments' = open \cap GoEditors
         /\ ~strayed /\ running /\ ~stopping =>
              /\ srv'.illegal = FALSE
              /\ \A e \in open \cap GoEditors :
                   documentVersions'[e] = 1
                     /\ srv'.docs[path[e]] = [version |-> 1, text |-> text[e]]
              /\ \A p \in Paths : srv'.docs[p] # Closed =>
                   \E e \in open \cap GoEditors : path[e] = p
<1> USE DEF Documents
<1> DEFINE opened  == (open \cap GoEditors) \ openDocuments
           At(p)   == {e \in opened : path[e] = p}
           Doc(p)  == IF At(p) = {} THEN srv.docs[p]
                      ELSE LET e == CHOOSE e \in At(p) : TRUE
                           IN  [version |-> FirstVersion(e), text |-> text[e]]
           InOrder == /\ \A e \in opened : ~IsOpen(path[e])
                      /\ \A e, f \in opened : path[e] = path[f] => e = f
           after   == [docs    |-> [p \in Paths |-> Doc(p)],
                       illegal |-> srv.illegal \/ ~InOrder]
<1>1. /\ openDocuments' = openDocuments \cup opened
      /\ documentVersions' = [e \in Editors |-> IF e \in opened THEN FirstVersion(e)
                                                ELSE documentVersions[e]]
      /\ srv' = IF running /\ ~stopping THEN after ELSE srv
  BY DEF OpenDocuments, Written
<1>2. /\ open \subseteq Editors /\ path \in [Editors -> Paths]
      /\ text \in [Editors -> 0..MaxEdits]
      /\ documentVersions \in [Editors -> Nat]
      /\ srv.docs \in [Paths -> Documented]
      /\ srv \in [docs : [Paths -> Documented], illegal : BOOLEAN]
      /\ openDocuments \subseteq open \cap GoEditors
  BY DEF SessionInvariant, TypeOK, DocTypeOK, Documented, DocumentsOfOpenEditors
<1>3. \A e \in Editors : FirstVersion(e) = 1
  BY DEF FirstVersion
<1>4. ASSUME NEW p \in Paths, At(p) # {}
      PROVE  \E e \in At(p) : Doc(p) = [version |-> 1, text |-> text[e]]
  <2>1. (CHOOSE e \in At(p) : TRUE) \in At(p)
    BY <1>4
  <2> QED
    BY <1>2, <1>3, <1>4, <2>1
<1>5. ASSUME NEW p \in Paths
      PROVE  Doc(p) \in Documented
  <2>1. CASE At(p) = {}
    BY <1>2, <2>1
  <2>2. CASE At(p) # {}
    <3>1. PICK e \in At(p) : Doc(p) = [version |-> 1, text |-> text[e]]
      BY <1>4, <2>2
    <3>2. text[e] \in 0..MaxEdits
      BY <1>2, <3>1
    <3> HIDE DEF Doc, At
    <3> QED
      BY <3>1, <3>2 DEF Documented
  <2> QED
    BY <2>1, <2>2
<1>6. after \in [docs : [Paths -> Documented], illegal : BOOLEAN]
  <2> HIDE DEF Doc, InOrder
  <2>1. (srv.illegal \/ ~InOrder) \in BOOLEAN
    OBVIOUS
  <2> QED
    BY <1>5, <2>1
<1>7. documentVersions' \in [Editors -> Nat]
  BY <1>1, <1>2, <1>3
<1>8. ~strayed => openDocuments' = open \cap GoEditors
  BY <1>1 DEF ToldWhenReady
<1>9. ASSUME ~strayed, running, ~stopping
      PROVE  /\ srv'.illegal = FALSE
             /\ \A e \in open \cap GoEditors :
                  documentVersions'[e] = 1
                    /\ srv'.docs[path[e]] = [version |-> 1, text |-> text[e]]
             /\ \A p \in Paths : srv'.docs[p] # Closed =>
                  \E e \in open \cap GoEditors : path[e] = p
  <2>1. openDocuments = {} /\ srv = Fresh /\ opened = open \cap GoEditors
    BY <1>9 DEF ToldWhenReady
  <2>2. \A p \in Paths : srv.docs[p] = Closed
    BY <2>1 DEF Fresh
  <2>3. InOrder
    BY <1>2, <1>9, <2>1, <2>2 DEF IsOpen, Apart
  <2>4. srv'.illegal = FALSE
    <3> HIDE DEF InOrder, Doc
    <3> QED
      BY <1>1, <1>9, <2>1, <2>3 DEF Fresh
  <2>5. \A p \in Paths : srv'.docs[p] = Doc(p)
    <3> HIDE DEF InOrder, Doc
    <3> QED
      BY <1>1, <1>9
  <2>6. ASSUME NEW e \in open \cap GoEditors
        PROVE  /\ documentVersions'[e] = 1
               /\ srv'.docs[path[e]] = [version |-> 1, text |-> text[e]]
    <3>1. e \in Editors /\ path[e] \in Paths /\ e \in At(path[e])
      BY <1>2, <2>1
    <3>2. PICK f \in At(path[e]) :
            Doc(path[e]) = [version |-> 1, text |-> text[f]]
      <4> HIDE DEF Doc, At
      <4> QED
        BY <1>4, <3>1
    <3>3. f = e
      BY <1>9, <2>1, <3>2 DEF Apart
    <3>4. documentVersions'[e] = 1
      BY <1>1, <1>3, <2>1, <3>1
    <3> HIDE DEF Doc
    <3> QED
      BY <2>5, <3>1, <3>2, <3>3, <3>4
  <2>7. ASSUME NEW p \in Paths, srv'.docs[p] # Closed
        PROVE  \E e \in open \cap GoEditors : path[e] = p
    <3>1. At(p) # {}
      BY <2>2, <2>5, <2>7
    <3> QED
      BY <2>1, <3>1
  <2> QED
    BY <2>4, <2>6, <2>7
<1>10. openDocuments' \subseteq Editors /\ openDocuments' \subseteq open \cap GoEditors
  BY <1>1, <1>2
<1> HIDE DEF after, opened
<1> QED
  BY <1>1, <1>2, <1>6, <1>7, <1>8, <1>9, <1>10

LEMMA DocInitializedStep ==
  ASSUME SessionAssumption, DocumentsAssumption, SessionInvariant, Documents,
         DocInitialized, UNCHANGED strayed
  PROVE  Documents' /\ Shown
<1> USE DEF Documents
<1>1. /\ ready' = TRUE /\ initializing' = FALSE /\ running
      /\ UNCHANGED <<open, path, running, stopping, text, dialog>>
      /\ OpenDocuments(open)
  BY DEF DocInitialized, Initialized, Reads, editorVars
<1>2. ~ready
  BY DEF DocInitialized, Initialized, ToldWhenReady
<1>3. /\ openDocuments' \subseteq Editors
      /\ openDocuments' \subseteq open \cap GoEditors
      /\ documentVersions' \in [Editors -> Nat]
      /\ srv' \in [docs : [Paths -> Documented], illegal : BOOLEAN]
      /\ ~(running /\ ~stopping) => srv' = srv
      /\ ~strayed => openDocuments' = open \cap GoEditors
      /\ ~strayed /\ running /\ ~stopping =>
           /\ srv'.illegal = FALSE
           /\ \A e \in open \cap GoEditors :
                documentVersions'[e] = 1
                  /\ srv'.docs[path[e]] = [version |-> 1, text |-> text[e]]
           /\ \A p \in Paths : srv'.docs[p] # Closed =>
                \E e \in open \cap GoEditors : path[e] = p
  BY <1>1, <1>2, OpenDocumentsWhat
<1>4. DocTypeOK'
  BY <1>1, <1>3 DEF DocTypeOK, Documented
<1>5. DialogIsOpen' /\ ClosedAreBlank' /\ Apart'
  BY <1>1 DEF DialogIsOpen, ClosedAreBlank, Apart
<1>6. ToldWhenReady'
  BY <1>1 DEF ToldWhenReady
<1>7. OpenWhenReady' /\ DocumentsOfOpenEditors'
  BY <1>1, <1>3 DEF OpenWhenReady, DocumentsOfOpenEditors
<1>8. LegalTraffic'
  BY <1>1, <1>3 DEF LegalTraffic
<1>9. ServerAgrees'
  <2> SUFFICES ASSUME ~strayed, ~stopping
               PROVE  /\ \A e \in open \cap GoEditors :
                           /\ documentVersions'[e] > 0
                           /\ srv'.docs[path[e]] = ShownAs(e)'
                      /\ \A p \in Paths : IsOpen(p)' =>
                           \E e \in open \cap GoEditors : path[e] = p
    BY <1>1 DEF ServerAgrees
  <2>1. \A e \in open \cap GoEditors : documentVersions'[e] = 1
                                         /\ srv'.docs[path[e]] = ShownAs(e)'
    BY <1>1, <1>3 DEF ShownAs
  <2> QED
    BY <1>1, <1>3, <2>1 DEF IsOpen
<1>10. Shown
  <2> SUFFICES ASSUME ~strayed, NEW p \in Paths, srv' # srv
               PROVE  \/ srv'.docs[p] = Closed
                      \/ /\ srv'.docs[p].version > srv.docs[p].version
                         /\ srv'.docs[p].text \in 0..MaxEdits
    BY DEF Shown
  <2>1. ~stopping /\ srv.docs[p] = Closed
    BY <1>1, <1>2, <1>3 DEF ToldWhenReady, Fresh
  <2>2. CASE srv'.docs[p] # Closed
    <3>1. PICK e \in open \cap GoEditors : path[e] = p
      BY <1>1, <1>3, <2>1, <2>2
    <3>2. srv'.docs[p] = [version |-> 1, text |-> text[e]]
      BY <1>1, <1>3, <2>1, <3>1
    <3>3. srv'.docs[p] \in Documented
      BY <1>3
    <3> QED
      BY <2>1, <3>2, <3>3 DEF Closed, Documented
  <2> QED
    BY <2>2
<1> QED
  BY <1>4, <1>5, <1>6, <1>7, <1>8, <1>9, <1>10

\* The next server knows nothing, and all that was astray is forgotten, but
\* for two editors that have one file.
LEMMA DocProcessFinishedStep ==
  ASSUME DocumentsAssumption, SessionInvariant, Documents,
         NEW outcome \in Outcomes, DocProcessFinished(outcome)
  PROVE  Documents' /\ Shown
<1> USE DEF Documents
<1>1. /\ ready' = FALSE /\ openDocuments' = {} /\ srv' = Fresh
      /\ strayed' = (\E e, f \in open : e # f /\ path[e] = path[f])
      /\ UNCHANGED <<open, path, text, documentVersions, dialog>>
  BY DEF DocProcessFinished, ProcessFinished, ForgetServer, ForgetDocuments, editorVars
<1>2. DocTypeOK'
  <2>1. srv' \in [docs : [Paths -> Documented], illegal : BOOLEAN]
    BY <1>1, ClosedType
  <2>2. strayed' \in BOOLEAN
    BY <1>1
  <2> QED
    BY <1>1, <2>1, <2>2 DEF DocTypeOK, Documented
<1>3. DialogIsOpen' /\ ClosedAreBlank' /\ Apart'
  BY <1>1 DEF DialogIsOpen, ClosedAreBlank, Apart
<1>4. ToldWhenReady' /\ OpenWhenReady' /\ ServerAgrees'
  BY <1>1 DEF ToldWhenReady, OpenWhenReady, ServerAgrees
<1>5. LegalTraffic' /\ DocumentsOfOpenEditors'
  <2>1. srv'.illegal = FALSE
    BY <1>1 DEF Fresh
  <2> QED
    BY <1>1, <2>1 DEF LegalTraffic, DocumentsOfOpenEditors
<1>6. Shown
  BY <1>1 DEF Shown, Fresh
<1> QED
  BY <1>2, <1>3, <1>4, <1>5, <1>6

-----------------------------------------------------------------------------
(* The other steps tell the server nothing, or of one document.            *)

LEMMA DocQuietActions ==
  ASSUME SessionAssumption, DocumentsAssumption, SessionInvariant, SessionInvariant',
         Documents, UNCHANGED strayed,
         \/ \E e \in Editors : DocActivateEditor(e)
         \/ \E outcome \in Outcomes :
              \/ DocAppLoaded(outcome) \/ DocApplyOption(outcome)
              \/ DocEnvironmentChanged(outcome)
         \/ DocInitializeFailed \/ DocStopReturns
         \/ RenameSymbol \/ RenameRejected
  PROVE  Documents' /\ Shown
<1> USE DEF editorVars, clientVars, optionVars, pluginVars, documentVars
<1>1. /\ ready \in BOOLEAN /\ ready' \in BOOLEAN
      /\ ~running => ~ready
      /\ ~appLoaded => ~running
      /\ current \in open \cup {NoEditor} /\ NoEditor \notin DialogEditors
  BY DEF SessionInvariant, TypeOK, GocodeRestored, KnowsWorkspace, SessionAssumption,
         DocumentsAssumption
<1>2. SUFFICES Quiet
  BY DocQuietStep
<1>3. CASE \E e \in Editors : DocActivateEditor(e)
  <2>1. PICK e \in Editors : DocActivateEditor(e)
    BY <1>3
  <2>2. ClientStep
    BY <2>1, GoplsEditorChangedClient
    DEF DocActivateEditor, ActivateEditor, EmitCurrentEditorChanged
  <2>3. UNCHANGED ready \/ (ready /\ ~ready')
    BY <2>1
    DEF DocActivateEditor, ActivateEditor, EmitCurrentEditorChanged, GoplsEditorChanged,
        LeavesWorkspace, RestartForWorkspace
  <2>4. UNCHANGED <<ready, openDocuments>> \/ (~ready' /\ openDocuments' = {})
    BY <2>1, <2>3 DEF DocActivateEditor, ForgetIfLeft
  <2> QED
    BY <2>1, <2>2, <2>4 DEF DocActivateEditor, ActivateEditor, Quiet
<1>4. CASE \E outcome \in Outcomes : DocAppLoaded(outcome)
  BY <1>1, <1>4 DEF DocAppLoaded, AppLoaded, Quiet, ClientStep
<1>5. CASE \E outcome \in Outcomes : DocApplyOption(outcome)
  <2>1. PICK outcome \in Outcomes : DocApplyOption(outcome)
    BY <1>5
  <2>2. ClientStep /\ (UNCHANGED ready \/ (ready /\ ~ready'))
    <3>1. CASE EnableFeatures(outcome) /\ running
      <4>1. GoplsEditorChanged(current, path, completer, TRUE, "option")
        BY <3>1 DEF EnableFeatures
      <4> QED
        BY <4>1, GoplsEditorChangedClient
        DEF GoplsEditorChanged, LeavesWorkspace, RestartForWorkspace
    <3>2. CASE EnableFeatures(outcome) /\ ~running
      BY <1>1, <3>2 DEF EnableFeatures, ClientStep
    <3>3. CASE DisableFeatures /\ running
      BY <3>3 DEF DisableFeatures, BeginStop, ClientStep
    <3>4. CASE DisableFeatures /\ ~running
      <4>1. GoplsEditorChanged(current, path, completer, FALSE, "option")
        BY <3>4 DEF DisableFeatures
      <4> QED
        BY <4>1, GoplsEditorChangedClient
        DEF GoplsEditorChanged, LeavesWorkspace, RestartForWorkspace
    <3> QED
      BY <2>1, <3>1, <3>2, <3>3, <3>4 DEF DocApplyOption
  <2>3. UNCHANGED <<ready, openDocuments>> \/ (~ready' /\ openDocuments' = {})
    BY <2>1, <2>2 DEF DocApplyOption, ForgetIfLeft
  <2> QED
    BY <2>1, <2>2, <2>3 DEF DocApplyOption, EnableFeatures, DisableFeatures, Quiet
<1>6. CASE \E outcome \in Outcomes : DocEnvironmentChanged(outcome)
  <2>1. PICK outcome \in Outcomes : DocEnvironmentChanged(outcome)
    BY <1>6
  <2>2. CASE appLoaded /\ running
    BY <2>1, <2>2
    DEF DocEnvironmentChanged, EnvironmentChanged, RestartForWorkspace, BeginStop,
        Quiet, ClientStep
  <2>3. CASE appLoaded /\ ~running
    BY <1>1, <2>1, <2>3
    DEF DocEnvironmentChanged, EnvironmentChanged, Quiet, ClientStep
  <2>4. CASE ~appLoaded
    BY <1>1, <2>1, <2>4
    DEF DocEnvironmentChanged, EnvironmentChanged, Quiet, ClientStep
  <2> QED
    BY <2>2, <2>3, <2>4
<1>7. CASE DocInitializeFailed
  BY <1>7 DEF DocInitializeFailed, InitializeFailed, Quiet, ClientStep
<1>8. CASE DocStopReturns
  BY <1>8 DEF DocStopReturns, StopReturns, Quiet, ClientStep
<1>9. CASE RenameSymbol
  BY <1>1, <1>9 DEF RenameSymbol, sessionVars, Quiet, ClientStep
<1>10. CASE RenameRejected
  BY <1>10 DEF RenameRejected, sessionVars, Quiet, ClientStep
<1> QED
  BY <1>3, <1>4, <1>5, <1>6, <1>7, <1>8, <1>9, <1>10

\* Edits, requests and the dialog that is accepted.
LEMMA TalkingActions ==
  ASSUME SessionAssumption, DocumentsAssumption, SessionInvariant, Documents,
         \/ RenameAccepted
         \/ UNCHANGED strayed /\ \/ \E e \in Editors : Edit(e) \/ ServerEdit(e)
                                 \/ DocRequest
  PROVE  Documents' /\ Shown
<1>1. /\ MaxEdits \in Nat /\ text \in [Editors -> 0..MaxEdits]
      /\ open \subseteq Editors /\ strayed \in BOOLEAN /\ ready \in BOOLEAN
  BY DEF Documents, DocTypeOK, SessionInvariant, TypeOK, DocumentsAssumption
<1>2. CASE \E e \in Editors : Edit(e)
  <2>1. PICK e \in Editors : Edit(e)
    BY <1>2
  <2>2. /\ e \in open /\ text[e] + 1 \in 0..MaxEdits
        /\ text' = [text EXCEPT ![e] = text[e] + 1] /\ text'[e] = text[e] + 1
    BY <1>1, <2>1 DEF Edit, Edited
  <2>3. UNCHANGED <<sessionVars, dialog, strayed>>
    BY <1>2, <2>1 DEF Edit, RenameAccepted
  <2>4. CASE ready /\ e \in GoEditors
    <3>1. ChangeDocument(e, text[e] + 1, 1)
      BY <2>1, <2>2, <2>4 DEF Edit, Edited
    <3>2. Talks(e, text[e] + 1, 1)
      BY <1>1, <2>2, <2>3, <2>4, <3>1 DEF Talks
    <3> QED
      BY <2>2, <2>4, <3>2, TalkStep
  <2>5. CASE ~(ready /\ e \in GoEditors)
    <3>1. UNCHANGED documentVars
      BY <2>1, <2>5 DEF Edit, Edited
    <3> QED
      BY <2>2, <2>3, <2>5, <3>1, SilentEditStep
  <2> QED
    BY <2>4, <2>5
<1>3. CASE \E e \in Editors : ServerEdit(e)
  <2>1. PICK e \in Editors : ServerEdit(e)
    BY <1>3
  <2>2. /\ e \in open \cap GoEditors /\ text[e] + 1 \in 0..MaxEdits
        /\ text' = [text EXCEPT ![e] = text[e] + 1] /\ text'[e] = text[e] + 1
    BY <1>1, <2>1 DEF ServerEdit, Edited
  <2>3. UNCHANGED <<sessionVars, dialog, strayed>>
    BY <1>3, <2>1 DEF ServerEdit, RenameAccepted, UserFree
  <2>4. CASE ready \/ e \in openDocuments
    <3>1. PICK n \in {1, 2} : ChangeDocument(e, text[e] + 1, n)
      BY <2>1, <2>2, <2>4 DEF ServerEdit, Edited
    <3>2. strayed' = (strayed \/ ~ready)
      BY <1>1, <2>3, <2>4 DEF Documents, ToldWhenReady
    <3>3. Talks(e, text[e] + 1, n)
      BY <2>2, <2>3, <3>1, <3>2 DEF Talks
    <3> QED
      BY <2>2, <3>3, TalkStep
  <2>5. CASE ~ready /\ e \notin openDocuments
    <3>1. UNCHANGED documentVars
      BY <2>1, <2>5 DEF ServerEdit, Edited
    <3> QED
      BY <2>2, <2>3, <2>5, <3>1, SilentEditStep
  <2> QED
    BY <2>4, <2>5
<1>4. CASE DocRequest
  <2>1. /\ current \in open \cap GoEditors /\ current \in Editors
    BY <1>4 DEF DocRequest, SessionInvariant, TypeOK, SessionAssumption
  <2>2. text[current] \in 0..MaxEdits /\ text = [text EXCEPT ![current] = text[current]]
    BY <1>1, <2>1
  <2>3. UNCHANGED strayed
    BY <1>4 DEF DocRequest, RenameAccepted
  <2>4. Talks(current, text[current], 1)
    BY <1>1, <1>4, <2>2, <2>3 DEF DocRequest, Talks
  <2> QED
    BY <2>1, <2>2, <2>4, TalkStep
<1>5. CASE RenameAccepted
  <2>1. dialog \in open \cap GoEditors /\ dialog \in Editors
    BY <1>1, <1>5
    DEF RenameAccepted, UserFree, Documents, DialogIsOpen, DocTypeOK, DocumentsAssumption
  <2>2. text[dialog] \in 0..MaxEdits /\ text = [text EXCEPT ![dialog] = text[dialog]]
    BY <1>1, <2>1
  <2>3. Talks(dialog, text[dialog], 1)
    BY <1>1, <1>5, <2>2 DEF RenameAccepted, Talks
  <2> QED
    BY <2>1, <2>2, <2>3, TalkStep
<1> QED
  BY <1>2, <1>3, <1>4, <1>5

LEMMA DocumentsStep ==
  ASSUME SessionAssumption, DocumentsAssumption, DocumentsInvariant, [DocNext]_docVars
  PROVE  DocumentsInvariant' /\ Shown
<1>1. SessionInvariant /\ SessionInvariant' /\ Documents
  BY DocStepIsSessionStep, SessionInvariantStep DEF DocumentsInvariant, Documents
<1>2. SUFFICES Documents' /\ Shown
  BY <1>1 DEF DocumentsInvariant, Documents
<1>3. CASE \E p \in Paths : DocSaveEditorAs(p)
  BY <1>1, <1>3, DocSaveEditorAsStep
<1>4. CASE RenameAccepted
  BY <1>1, <1>4, TalkingActions
<1>5. CASE \E outcome \in Outcomes : DocProcessFinished(outcome)
  BY <1>1, <1>5, DocProcessFinishedStep
<1>6. CASE UNCHANGED strayed /\ \E e \in Editors : DocOpenEditor(e)
  BY <1>1, <1>6, DocOpenEditorStep
<1>7. CASE /\ UNCHANGED strayed
           /\ \/ \E e \in Editors : DocActivateEditor(e)
              \/ \E outcome \in Outcomes :
                   \/ DocAppLoaded(outcome) \/ DocApplyOption(outcome)
                   \/ DocEnvironmentChanged(outcome)
              \/ DocInitializeFailed \/ DocStopReturns
              \/ RenameSymbol \/ RenameRejected
  BY <1>1, <1>7, DocQuietActions
<1>8. CASE /\ UNCHANGED strayed
           /\ \/ \E e \in Editors : Edit(e) \/ ServerEdit(e)
              \/ DocRequest
  BY <1>1, <1>8, TalkingActions
<1>9. CASE /\ UNCHANGED strayed
           /\ \E e \in Editors, next \in Editors \cup {NoEditor} : DocCloseEditor(e, next)
  BY <1>1, <1>9, DocCloseEditorStep
<1>10. CASE UNCHANGED strayed /\ DocInitialized
  BY <1>1, <1>10, DocInitializedStep
<1>11. CASE UNCHANGED docVars
  <2>1. Quiet
    BY <1>11
    DEF docVars, sessionVars, editorVars, clientVars, pluginVars, documentVars, Quiet,
        ClientStep
  <2> QED
    BY <1>1, <2>1, DocQuietStep
<1> QED
  BY <1>3, <1>4, <1>5, <1>6, <1>7, <1>8, <1>9, <1>10, <1>11 DEF DocNext, Straying

LEMMA DocumentsInit ==
  ASSUME SessionAssumption, DocumentsAssumption, DocInit
  PROVE  DocumentsInvariant
<1>1. SessionInvariant
  BY SessionInvariantInit DEF DocInit
<1>2. DocTypeOK
  <2>1. srv \in [docs : [Paths -> Documented], illegal : BOOLEAN]
    BY ClosedType DEF DocInit
  <2>2. text \in [Editors -> 0..MaxEdits]
    BY DEF DocInit, DocumentsAssumption
  <2> QED
    BY <2>1, <2>2 DEF DocInit, DocTypeOK, Documented
<1>3. DialogIsOpen /\ ClosedAreBlank /\ Apart /\ DocumentsOfOpenEditors
  BY DEF DocInit, Init, DialogIsOpen, ClosedAreBlank, Apart, DocumentsOfOpenEditors
<1>4. ToldWhenReady /\ OpenWhenReady /\ ServerAgrees
  BY DEF DocInit, Init, ToldWhenReady, OpenWhenReady, ServerAgrees
<1>5. LegalTraffic
  BY DEF DocInit, LegalTraffic, Fresh
<1> QED
  BY <1>1, <1>2, <1>3, <1>4, <1>5 DEF DocumentsInvariant

-----------------------------------------------------------------------------
(* The theorems.                                                           *)

\* The inductive invariant of the documents.
THEOREM DocumentsInvariantHolds == DocSpec => []DocumentsInvariant
<1>1. DocInit => DocumentsInvariant
  BY DocumentsInit, SessionAssumption, DocumentsAssumption
<1>2. DocumentsInvariant /\ [DocNext]_docVars => DocumentsInvariant'
  BY DocumentsStep, SessionAssumption, DocumentsAssumption
<1> QED
  BY <1>1, <1>2, PTL DEF DocSpec

\* The documents are a part that the session does not notice: a history of
\* DocSpec is one of GoplsSession, and has what is proved of it.
THEOREM DocumentsRefineSession == DocSpec => Spec
<1>1. DocInit => Init
  BY DEF DocInit
<1>2. [DocNext]_docVars => [Next]_sessionVars
  BY DocStepIsSessionStep
<1> QED
  BY <1>1, <1>2, PTL DEF DocSpec, Spec

\* A server that is ready and not being stopped has exactly the documents of
\* the open Go editors, at the plugin's versions and with their texts, unless
\* a Save As or a dialog has come between since it was started.
THEOREM ServerMirrorsEditorsHolds == DocSpec => []ServerMirrorsEditors
<1>1. DocumentsInvariant => ServerMirrorsEditors
  <2> SUFFICES ASSUME DocumentsInvariant, ready, ~stopping, ~strayed
               PROVE  srv.docs = [p \in Paths |->
                        IF \E e \in open \cap GoEditors : path[e] = p
                        THEN LET e == CHOOSE e \in open \cap GoEditors : path[e] = p
                             IN  [version |-> documentVersions[e], text |-> text[e]]
                        ELSE Closed]
    BY DEF ServerMirrorsEditors
  <2> DEFINE At(p) == CHOOSE e \in open \cap GoEditors : path[e] = p
  <2>1. /\ srv.docs \in [Paths -> Documented]
        /\ \A e \in open \cap GoEditors : srv.docs[path[e]] = ShownAs(e)
        /\ \A p \in Paths : IsOpen(p) => \E e \in open \cap GoEditors : path[e] = p
    BY DEF DocumentsInvariant, DocTypeOK, Documented, ServerAgrees
  <2>2. ASSUME NEW p \in Paths
        PROVE  srv.docs[p] = IF \E e \in open \cap GoEditors : path[e] = p
                             THEN ShownAs(At(p)) ELSE Closed
    <3>1. CASE \E e \in open \cap GoEditors : path[e] = p
      <4>1. At(p) \in open \cap GoEditors /\ path[At(p)] = p
        BY <3>1
      <4> HIDE DEF At
      <4> QED
        BY <2>1, <3>1, <4>1
    <3>2. CASE ~\E e \in open \cap GoEditors : path[e] = p
      BY <2>1, <3>2 DEF IsOpen
    <3> QED
      BY <3>1, <3>2
  <2> QED
    BY <2>1, <2>2 DEF ShownAs
<1> QED
  BY <1>1, DocumentsInvariantHolds, PTL

\* The server is told nothing that is out of order.
THEOREM LegalTrafficHolds == DocSpec => []LegalTraffic
<1>1. DocumentsInvariant => LegalTraffic
  BY DEF DocumentsInvariant
<1> QED
  BY <1>1, DocumentsInvariantHolds, PTL

\* m_openDocuments holds no pointer to an editor that has been closed.
THEOREM DocumentsOfOpenEditorsHolds == DocSpec => []DocumentsOfOpenEditors
<1>1. DocumentsInvariant => DocumentsOfOpenEditors
  BY DEF DocumentsInvariant
<1> QED
  BY <1>1, DocumentsInvariantHolds, PTL

\* The documents of the server implement TextSync: each is opened at a
\* positive version and changes to higher versions until it is closed.
THEOREM ImplementsTextSyncHolds == DocSpec => ImplementsTextSync
<1> DEFINE shown == IF strayed THEN [p \in Paths |-> Closed] ELSE srv.docs
<1>1. DocInit => Sync!Init
  BY DEF DocInit, Fresh, Closed, Sync!Init, Sync!Closed
<1>2. ASSUME DocumentsInvariant, [DocNext]_docVars
      PROVE  [Sync!Next]_shown
  <2>1. Shown /\ DocumentsInvariant'
    BY <1>2, DocumentsStep, SessionAssumption, DocumentsAssumption
  <2>2. /\ srv.docs \in [Paths -> Documented] /\ srv'.docs \in [Paths -> Documented]
    BY <1>2, <2>1 DEF DocumentsInvariant, DocTypeOK, Documented
  <2>3. DOMAIN shown' = Paths
    BY <2>2
  <2>4. \A p \in Paths : \/ shown'[p] \in {shown[p], Closed}
                         \/ /\ shown'[p].version > shown[p].version
                            /\ shown'[p].text \in 0..MaxEdits
    <3>1. CASE strayed'
      BY <3>1
    <3>2. CASE ~strayed' /\ strayed
      <4>1. PICK outcome \in Outcomes : DocProcessFinished(outcome)
        BY <1>2, <3>2 DEF DocNext, Straying, DocSaveEditorAs, RenameAccepted, docVars
      <4> QED
        BY <3>2, <4>1 DEF DocProcessFinished, Fresh
    <3>3. CASE ~strayed' /\ ~strayed
      BY <2>1, <3>3 DEF Shown
    <3> QED
      BY <3>1, <3>2, <3>3
  <2>5. ASSUME NEW p \in Paths
        PROVE  Sync!Opens(p) \/ Sync!Changes(p) \/ Sync!Closes(p) \/ Sync!Keeps(p)
    <3>1. shown[p].version \in Nat /\ Sync!Closed = Closed
      BY <2>2 DEF Documented, Closed, Sync!Closed
    <3>2. shown[p] = Closed => shown[p].version = 0
      BY DEF Closed
    <3> HIDE DEF shown
    <3>3. CASE shown'[p] = shown[p]
      BY <3>3 DEF Sync!Keeps, shown
    <3>4. CASE shown'[p] = Closed
      BY <3>1, <3>4 DEF Sync!Closes, shown
    <3>5. CASE shown'[p].version > shown[p].version /\ shown'[p].text \in 0..MaxEdits
      <4>1. CASE shown[p] = Closed
        BY <3>1, <3>2, <3>5, <4>1 DEF Sync!Opens, shown
      <4>2. CASE shown[p] # Closed
        BY <3>1, <3>5, <4>2 DEF Sync!Changes, shown
      <4> QED
        BY <4>1, <4>2
    <3> QED
      BY <2>4, <3>3, <3>4, <3>5
  <2> QED
    BY <2>3, <2>5 DEF Sync!Next
<1> QED
  BY <1>1, <1>2, DocumentsInvariantHolds, PTL DEF DocSpec, ImplementsTextSync, Sync!Spec

-----------------------------------------------------------------------------
(* GoplsRequests: the ids and the tables.                                  *)

\* The invariant on the notes.
NotesInvariant ==
  /\ NotesTypeOK
  /\ NotedOnce
  /\ PendingOfKind
  /\ TablesAgree
  /\ PendingIsOwed

LEMMA IdsAreNotZero ==
  ASSUME RequestsAssumption
  PROVE  Ids \subseteq Nat /\ 0 \notin Ids
BY DEF RequestsAssumption, Ids

LEMMA TablesOfMethods ==
  /\ Table("completion") = "completion" /\ Table("hover") = "hint"
  /\ Table("signatureHelp") = "hint" /\ Table("navigation") = "navigation"
  /\ Table("formatting") = "edit" /\ Table("edit") = "edit"
  /\ Table("location") = "none" /\ Table("executeCommand") = "none"
BY DEF Table

\* A new request's id is in no table, and the server owes it nothing.
LEMMA NextIdIsNew ==
  ASSUME Unmentioned # {}
  PROVE  NextId \in Unmentioned
BY DEF NextId

LEMMA IdAfterIsNew ==
  ASSUME Unmentioned # {}, Unmentioned # {NextId}
  PROVE  IdAfter \in Unmentioned \ {NextId}
<1>1. Unmentioned \ {NextId} # {}
  BY NextIdIsNew
<1> QED
  BY <1>1 DEF IdAfter

\* What an editor waits for is noted once, for that editor.
LEMMA PendingNote ==
  ASSUME RequestsAssumption, NotesInvariant,
         NEW kind \in Kinds, NEW e \in Editors, pending[kind][e] # 0
  PROVE  /\ e \in open /\ running /\ pending[kind][e] \in Ids
         /\ [id |-> pending[kind][e], table |-> Table(kind), editor |-> e] \in entries
         /\ \A n \in entries : n.id = pending[kind][e] => n.editor = e /\ n.table = Table(kind)
<1>1. /\ pending[kind][e] \in Ids
      /\ e \in open /\ running
      /\ [id |-> pending[kind][e], table |-> Table(kind), editor |-> e] \in entries
  BY DEF NotesInvariant, NotesTypeOK, TablesAgree, PendingOfKind
<1>2. \A n, m \in entries : m.id = n.id => m = n
  BY DEF NotesInvariant, NotedOnce
<1>3. ASSUME NEW n \in entries, n.id = pending[kind][e]
      PROVE  n.editor = e /\ n.table = Table(kind)
  <2>1. n = [id |-> pending[kind][e], table |-> Table(kind), editor |-> e]
    BY <1>1, <1>2, <1>3
  <2> QED
    BY <2>1
<1> QED
  BY <1>1, <1>3

-----------------------------------------------------------------------------
(* Steps that leave the notes alone.                                       *)

\* The process stays as it is, or is told to stop; or none runs.
ProcessLives == ~running \/ (running' /\ (stopping => stopping'))

LEMMA GoplsEditorChangedProcess ==
  ASSUME running \in BOOLEAN, NEW e, NEW paths, NEW held, NEW features, NEW handler,
         GoplsEditorChanged(e, paths, held, features, handler)
  PROVE  ProcessLives
BY DEF GoplsEditorChanged, RestartForWorkspace, BeginStop, clientVars, ProcessLives

LEMMA ReqQuietStep ==
  ASSUME NotesInvariant, open \subseteq open', ProcessLives, UNCHANGED noteVars
  PROVE  NotesInvariant'
<1> USE DEF noteVars, NotesInvariant
<1>1. NotesTypeOK' /\ NotedOnce'
  BY DEF NotesTypeOK, NotedOnce
<1>2. PendingOfKind'
  BY DEF PendingOfKind, ProcessLives
<1>3. TablesAgree'
  BY DEF TablesAgree
<1>4. PendingIsOwed'
  BY DEF PendingIsOwed, PendingOfKind, ProcessLives
<1> QED
  BY <1>1, <1>2, <1>3, <1>4

LEMMA ReqQuietActions ==
  ASSUME SessionInvariant, NotesInvariant, ReqOther \/ ReqReturns
  PROVE  NotesInvariant'
<1> USE DEF editorVars, clientVars, optionVars, pluginVars
<1>1. running \in BOOLEAN /\ (~appLoaded => ~running)
  BY DEF SessionInvariant, TypeOK, KnowsWorkspace
<1>2. UNCHANGED noteVars
  BY DEF ReqOther, ReqReturns
<1>3. SUFFICES open \subseteq open' /\ ProcessLives
  BY <1>2, ReqQuietStep
<1>4. CASE \E e \in Editors : OpenEditor(e)
  BY <1>4 DEF OpenEditor, ProcessLives
<1>5. CASE \E e \in Editors : ActivateEditor(e)
  BY <1>1, <1>5, GoplsEditorChangedProcess DEF ActivateEditor, EmitCurrentEditorChanged
<1>6. CASE \E outcome \in Outcomes : AppLoaded(outcome)
  BY <1>6 DEF AppLoaded, ProcessLives
<1>7. CASE \E outcome \in Outcomes : EnableFeatures(outcome)
  <2>1. PICK outcome \in Outcomes : EnableFeatures(outcome)
    BY <1>7
  <2>2. CASE running
    <3>1. GoplsEditorChanged(current, path, completer, TRUE, "option") /\ UNCHANGED open
      BY <2>1, <2>2 DEF EnableFeatures
    <3> QED
      BY <1>1, <3>1, GoplsEditorChangedProcess
  <2>3. CASE ~running
    BY <2>1, <2>3 DEF EnableFeatures, ProcessLives
  <2> QED
    BY <2>2, <2>3
<1>8. CASE \E outcome \in Outcomes : EnvironmentChanged(outcome, FALSE)
  BY <1>1, <1>8
  DEF EnvironmentChanged, RestartForWorkspace, BeginStop, ProcessLives
<1>9. CASE DisableFeatures
  BY <1>9 DEF DisableFeatures, BeginStop, ProcessLives
<1>10. CASE Initialized \/ InitializeFailed
  <2>1. UNCHANGED <<open, running, stopping>>
    BY <1>10 DEF Initialized, InitializeFailed
  <2> QED
    BY <2>1 DEF ProcessLives
<1>11. CASE ReqReturns
  BY <1>11 DEF ReqReturns, StopReturns, ProcessLives
<1> QED
  BY <1>4, <1>5, <1>6, <1>7, <1>8, <1>9, <1>10, <1>11 DEF ReqOther

-----------------------------------------------------------------------------
(* Requests.                                                               *)

\* What the client notes of a request: a method, if it is told the server.
LEMMA AskedWhat ==
  ASSUME NotesTypeOK, NEW i \in Ids, NEW method \in Methods
  PROVE  /\ Asked(i, method) \in [Ids -> Methods \cup {"none"}]
         /\ \A k \in Ids \ {i} : Asked(i, method)[k] = owed[k]
         /\ running /\ ~stopping => Asked(i, method)[i] = method
         /\ ~(running /\ ~stopping) => Asked(i, method) = owed
BY DEF NotesTypeOK, Asked

\* Requests that no editor waits for are noted under new ids.
LEMMA RequestStep ==
  ASSUME NotesInvariant, UNCHANGED <<open, running, stopping, pending>>,
         NEW more \in SUBSET Notings, \A m, n \in more : m = n,
         owed' \in [Ids -> Methods \cup {"none"}],
         entries' = entries \cup more,
         \A n \in more : /\ n.id \in Unmentioned /\ n.table # "completion"
                         /\ owed'[n.id] # "none" => Table(owed'[n.id]) = n.table,
         \A k \in Ids : k \in Unmentioned \/ owed'[k] = owed[k]
  PROVE  NotesInvariant'
<1> USE DEF NotesInvariant
<1>1. \A n \in entries : n.id \in Ids /\ n.id \notin Unmentioned
  BY DEF Unmentioned, NotesTypeOK, Notings
<1>2. ASSUME NEW kind \in Kinds, NEW e \in Editors, pending[kind][e] # 0
      PROVE  /\ pending[kind][e] \in Ids
             /\ owed'[pending[kind][e]] = owed[pending[kind][e]]
  <2>1. /\ pending[kind][e] \in Ids
        /\ [id |-> pending[kind][e], table |-> Table(kind), editor |-> e] \in entries
    BY <1>2 DEF NotesTypeOK, TablesAgree
  <2> QED
    BY <1>1, <2>1
<1>3. NotesTypeOK'
  BY DEF NotesTypeOK, Notings
<1>4. NotedOnce'
  BY <1>1 DEF NotedOnce
<1>5. PendingOfKind' /\ PendingIsOwed'
  BY <1>2 DEF PendingOfKind, PendingIsOwed
<1>6. TablesAgree'
  BY DEF TablesAgree
<1> QED
  BY <1>3, <1>4, <1>5, <1>6

\* A request takes the place of the one its editor waited for.
LEMMA LatestStep ==
  ASSUME RequestsAssumption, NotesInvariant, running,
         UNCHANGED <<open, running, stopping>>,
         NEW kind \in Kinds, NEW e \in Editors, e \in open,
         NEW i \in Unmentioned,
         NEW more \in SUBSET Notings, \A m, n \in more : m = n,
         \A n \in more : n.id \in Unmentioned \ {i} /\ n.table = "navigation",
         owed' \in [Ids -> Methods \cup {"none"}],
         entries' = (entries \ Superseded(kind, e)) \cup Noted(i, kind, e) \cup more,
         pending' = [pending EXCEPT ![kind][e] = i],
         owed'[i] \in {kind, "none"},
         ~stopping => owed'[i] = kind,
         \A n \in more : owed'[n.id] \in {"navigation", "none"},
         \A k \in Ids : k \in Unmentioned \/ owed'[k] = owed[k]
  PROVE  NotesInvariant'
<1> USE DEF NotesInvariant
<1> DEFINE new == [id |-> i, table |-> Table(kind), editor |-> e]
           old == pending[kind][e]
<1>0. old # 0 => \A n \in entries : n.id = old => n.editor = e /\ n.table = Table(kind)
  BY PendingNote
<1>1. \A n \in entries : n.id \in Ids /\ n.id \notin Unmentioned
  BY DEF Unmentioned, NotesTypeOK, Notings
<1>2. /\ Table(kind) \in Tables \ {"none", "navigation"} /\ i \in Ids /\ i # 0
      /\ Kinds = {"completion", "hover"} /\ kind \in Methods
      /\ Table("navigation") = "navigation"
  BY TablesOfMethods, IdsAreNotZero DEF Kinds, Tables, Methods, Unmentioned
<1>3. Noted(i, kind, e) = {new} /\ new \in Notings
  BY <1>2 DEF Noted, Notings
<1>4. /\ pending'[kind][e] = i
      /\ \A k \in Kinds, f \in Editors : k # kind \/ f # e => pending'[k][f] = pending[k][f]
      /\ pending' \in [Kinds -> [Editors -> Ids \cup {0}]]
  BY <1>2 DEF NotesTypeOK
<1>5. entries' = (entries \ Superseded(kind, e)) \cup {new} \cup more
  BY <1>3
<1>6. \A n \in entries : n \in Superseded(kind, e) <=> n.id = old /\ n.table = Table(kind)
  BY DEF Superseded, Notes
<1>7. new.id = i /\ new.table = Table(kind) /\ new.editor = e
  OBVIOUS
<1> HIDE DEF new, old
<1>8. ASSUME NEW k \in Kinds, NEW f \in Editors, pending'[k][f] # 0, k # kind \/ f # e
      PROVE  /\ f \in open
             /\ [id |-> pending'[k][f], table |-> Table(k), editor |-> f] \in entries'
             /\ owed'[pending'[k][f]] = owed[pending[k][f]]
  <2> DEFINE n == [id |-> pending[k][f], table |-> Table(k), editor |-> f]
  <2>1. /\ pending'[k][f] = pending[k][f] /\ pending[k][f] # 0
        /\ f \in open /\ n \in entries /\ pending[k][f] \in Ids
    BY <1>4, <1>8, PendingNote
  <2>2. n \notin Superseded(kind, e)
    <3>1. n.id = pending[k][f] /\ n.table = Table(k) /\ n.editor = f
      OBVIOUS
    <3> HIDE DEF n
    <3>2. ASSUME n.id = old, n.table = Table(kind)
          PROVE  FALSE
      <4>1. old # 0
        BY <2>1, <3>1, <3>2
      <4>2. n.editor = e /\ n.table = Table(kind)
        BY <1>0, <2>1, <3>2, <4>1
      <4>3. k # kind
        BY <1>8, <3>1, <4>2
      <4>4. Table(k) # Table(kind)
        BY <1>2, <4>3, TablesOfMethods
      <4> QED
        BY <3>1, <4>2, <4>4
    <3> QED
      BY <1>6, <2>1, <3>2
  <2>3. n.id = pending[k][f]
    OBVIOUS
  <2> HIDE DEF n
  <2>4. pending[k][f] \notin Unmentioned
    BY <1>1, <2>1, <2>3
  <2> QED
    BY <1>5, <2>1, <2>2, <2>4 DEF n
<1>9. NotesTypeOK'
  BY <1>3, <1>4, <1>5 DEF NotesTypeOK
<1>10. NotedOnce'
  <2>1. \A n \in entries' : n \in entries \/ n = new \/ n \in more
    BY <1>5
  <2>2. ASSUME NEW n \in entries'
        PROVE  owed'[n.id] # "none" => Table(owed'[n.id]) = n.table
    <3>1. CASE n \in entries
      BY <1>1, <3>1 DEF NotedOnce
    <3>2. CASE n = new
      BY <1>7, <3>2
    <3>3. CASE n \in more
      BY <1>2, <3>3
    <3> QED
      BY <2>1, <3>1, <3>2, <3>3
  <2>3. ASSUME NEW n \in entries', NEW m \in entries', m.id = n.id
        PROVE  m = n
    <3>1. CASE n \in entries
      BY <1>1, <1>7, <2>1, <2>3, <3>1 DEF NotedOnce
    <3>2. CASE n = new
      BY <1>1, <1>7, <2>1, <2>3, <3>2
    <3>3. CASE n \in more
      BY <1>1, <1>7, <2>1, <2>3, <3>3
    <3> QED
      BY <2>1, <3>1, <3>2, <3>3
  <2> QED
    BY <2>2, <2>3 DEF NotedOnce
<1>11. PendingOfKind' /\ PendingIsOwed'
  <2> SUFFICES ASSUME NEW k \in Kinds, NEW f \in Editors, pending'[k][f] # 0
               PROVE  /\ owed'[pending'[k][f]] \in {k, "none"}
                      /\ ~stopping => owed'[pending'[k][f]] = k
    BY DEF PendingOfKind, PendingIsOwed
  <2>1. CASE k = kind /\ f = e
    BY <1>4, <2>1
  <2>2. CASE k # kind \/ f # e
    <3>1. pending[k][f] # 0
      BY <1>4, <2>2
    <3> QED
      <4>1. owed'[pending'[k][f]] = owed[pending[k][f]]
        BY <1>8, <2>2
      <4>2. /\ owed[pending[k][f]] \in {k, "none"}
            /\ ~stopping => owed[pending[k][f]] = k
        BY <3>1 DEF PendingOfKind, PendingIsOwed
      <4> QED
        BY <4>1, <4>2
  <2> QED
    BY <2>1, <2>2
<1>12. TablesAgree'
  <2>1. ASSUME NEW n \in entries', n.table = "completion"
        PROVE  pending'["completion"][n.editor] = n.id
    <3>1. CASE n = new
      <4>1. kind = "completion"
        BY <1>2, <1>7, <2>1, <3>1, TablesOfMethods
      <4> QED
        BY <1>4, <1>7, <3>1, <4>1
    <3>2. CASE n # new
      <4>1. n \in entries /\ n \notin Superseded(kind, e)
        BY <1>5, <2>1, <3>2
      <4>2. pending["completion"][n.editor] = n.id /\ n.editor \in Editors
        BY <2>1, <4>1 DEF TablesAgree, NotesTypeOK, Notings
      <4>3. ~(kind = "completion" /\ n.editor = e)
        BY <1>6, <2>1, <4>1, <4>2, TablesOfMethods DEF old
      <4> QED
        BY <1>2, <1>4, <4>2, <4>3
    <3> QED
      BY <3>1, <3>2
  <2>2. ASSUME NEW k \in Kinds, NEW f \in Editors, pending'[k][f] # 0
        PROVE  /\ f \in open'
               /\ [id |-> pending'[k][f], table |-> Table(k), editor |-> f] \in entries'
    <3>1. CASE k = kind /\ f = e
      BY <1>4, <1>5, <3>1 DEF new
    <3>2. CASE k # kind \/ f # e
      BY <1>8, <2>2, <3>2
    <3> QED
      BY <3>1, <3>2
  <2> QED
    BY <2>1, <2>2 DEF TablesAgree
<1> QED
  BY <1>9, <1>10, <1>11, <1>12

-----------------------------------------------------------------------------
(* Answers and closings.                                                   *)

\* Notes and waits are taken back together.
LEMMA ForgetStep ==
  ASSUME NotesInvariant, ProcessLives,
         entries' \subseteq entries,
         owed' \in [Ids -> Methods \cup {"none"}],
         pending' \in [Kinds -> [Editors -> Ids \cup {0}]],
         \A n \in entries' : owed'[n.id] \in {owed[n.id], "none"},
         \A n \in entries' : n.table = "completion" =>
           pending'["completion"][n.editor] = pending["completion"][n.editor],
         \A k \in Kinds, f \in Editors : pending'[k][f] # 0 =>
           /\ pending'[k][f] = pending[k][f] /\ f \in open'
           /\ [id |-> pending[k][f], table |-> Table(k), editor |-> f] \in entries'
           /\ owed'[pending[k][f]] = owed[pending[k][f]]
  PROVE  NotesInvariant'
<1> USE DEF NotesInvariant
<1>1. NotesTypeOK'
  BY DEF NotesTypeOK
<1>2. NotedOnce'
  BY DEF NotedOnce
<1>3. TablesAgree'
  BY DEF TablesAgree
<1>4. ASSUME NEW k \in Kinds, NEW f \in Editors, pending'[k][f] # 0
      PROVE  /\ running' /\ owed'[pending'[k][f]] \in {k, "none"}
             /\ ~stopping' => owed'[pending'[k][f]] = k
  <2>1. /\ pending'[k][f] = pending[k][f] /\ pending[k][f] # 0
        /\ owed'[pending[k][f]] = owed[pending[k][f]]
    BY <1>4
  <2>2. /\ running /\ owed[pending[k][f]] \in {k, "none"}
        /\ ~stopping => owed[pending[k][f]] = k
    BY <2>1 DEF PendingOfKind, PendingIsOwed
  <2> QED
    BY <2>1, <2>2 DEF ProcessLives
<1>5. PendingOfKind' /\ PendingIsOwed'
  BY <1>4 DEF PendingOfKind, PendingIsOwed
<1> QED
  BY <1>1, <1>2, <1>3, <1>5

\* An answer that an editor may wait for.
LEMMA LatestAnsweredStep ==
  ASSUME RequestsAssumption, NotesInvariant, UNCHANGED <<open, running, stopping>>,
         NEW i \in Ids, NEW kind \in Kinds, owed[i] = kind, Taken(i),
         entries' = entries \ Notes(Table(kind), i),
         pending' = [pending EXCEPT ![kind] = NoLonger(kind, i)]
  PROVE  NotesInvariant'
<1>1. ProcessLives
  BY DEF ProcessLives
<1>2. /\ owed \in [Ids -> Methods \cup {"none"}] /\ entries \subseteq Notings
      /\ pending \in [Kinds -> [Editors -> Ids \cup {0}]]
      /\ Kinds = {"completion", "hover"}
      /\ Table("completion") # Table("hover") /\ Table("completion") = "completion"
  BY TablesOfMethods DEF NotesInvariant, NotesTypeOK, Kinds
<1>3. /\ owed' \in [Ids -> Methods \cup {"none"}]
      /\ \A k \in Ids : owed'[k] = IF k = i THEN "none" ELSE owed[k]
  BY <1>2 DEF Taken
<1>4. /\ pending' \in [Kinds -> [Editors -> Ids \cup {0}]]
      /\ \A k \in Kinds : k # kind => pending'[k] = pending[k]
      /\ \A f \in Editors : pending'[kind][f] =
           IF pending[kind][f] = i /\ \E n \in Notes(Table(kind), i) : n.editor = f
           THEN 0 ELSE pending[kind][f]
  <2>1. NoLonger(kind, i) \in [Editors -> Ids \cup {0}]
    BY <1>2 DEF NoLonger
  <2> QED
    BY <1>2, <2>1 DEF NoLonger, Awaited
<1>5. ASSUME NEW k \in Kinds, NEW f \in Editors, pending'[k][f] # 0
      PROVE  /\ pending'[k][f] = pending[k][f] /\ f \in open'
             /\ [id |-> pending[k][f], table |-> Table(k), editor |-> f] \in entries'
             /\ owed'[pending[k][f]] = owed[pending[k][f]]
  <2> DEFINE n == [id |-> pending[k][f], table |-> Table(k), editor |-> f]
  <2>1. pending'[k][f] = pending[k][f] /\ pending[k][f] # 0
    BY <1>4, <1>5
  <2>2. f \in open /\ n \in entries /\ pending[k][f] \in Ids
    BY <2>1, PendingNote
  <2>3. n.id = pending[k][f] /\ n.table = Table(k) /\ n.editor = f
    OBVIOUS
  <2> HIDE DEF n
  <2>4. pending[k][f] # i
    <3>1. CASE k = kind
      <4>1. pending[kind][f] = i => n \in Notes(Table(kind), i)
        BY <2>2, <2>3, <3>1 DEF Notes
      <4> QED
        BY <1>4, <1>5, <2>1, <2>3, <3>1, <4>1, IdsAreNotZero
    <3>2. CASE k # kind
      <4>1. owed[pending[k][f]] \in {k, "none"}
        BY <2>1 DEF NotesInvariant, PendingOfKind
      <4> QED
        BY <1>2, <3>2, <4>1
    <3> QED
      BY <3>1, <3>2
  <2>5. n \in entries'
    BY <2>2, <2>3, <2>4 DEF Notes
  <2> QED
    BY <1>3, <2>1, <2>2, <2>4, <2>5 DEF n
<1>6. ASSUME NEW n \in entries', n.table = "completion"
      PROVE  pending'["completion"][n.editor] = pending["completion"][n.editor]
  <2>1. n \in entries /\ n.editor \in Editors
    BY <1>2 DEF Notings
  <2>2. pending["completion"][n.editor] = n.id
    BY <1>6, <2>1 DEF NotesInvariant, TablesAgree
  <2>3. kind = "completion" => n.id # i
    BY <1>2, <1>6, <2>1 DEF Notes
  <2> QED
    BY <1>2, <1>4, <2>1, <2>2, <2>3
<1>7. \A n \in entries' : owed'[n.id] \in {owed[n.id], "none"}
  BY <1>2, <1>3 DEF Notings
<1> QED
  BY <1>1, <1>3, <1>4, <1>5, <1>6, <1>7, ForgetStep

\* An answer that no editor waits for: the note of its request goes, or the
\* server is asked something else under its id.
LEMMA OtherAnsweredStep ==
  ASSUME RequestsAssumption, NotesInvariant, open' = open, ProcessLives,
         NEW i \in Ids, owed[i] \notin Kinds \cup {"none"},
         NEW method \in Methods \cup {"none"}, owed' = [owed EXCEPT ![i] = method],
         entries' = entries \ Notes(Table(owed[i]), i), UNCHANGED pending
  PROVE  NotesInvariant'
<1>1. /\ owed \in [Ids -> Methods \cup {"none"}] /\ entries \subseteq Notings
      /\ pending \in [Kinds -> [Editors -> Ids \cup {0}]]
  BY DEF NotesInvariant, NotesTypeOK
<1>2. /\ owed' \in [Ids -> Methods \cup {"none"}]
      /\ \A k \in Ids \ {i} : owed'[k] = owed[k]
  BY <1>1
<1>3. ASSUME NEW k \in Kinds, NEW f \in Editors, pending[k][f] # 0
      PROVE  /\ f \in open'
             /\ [id |-> pending[k][f], table |-> Table(k), editor |-> f] \in entries'
             /\ owed'[pending[k][f]] = owed[pending[k][f]]
  <2> DEFINE n == [id |-> pending[k][f], table |-> Table(k), editor |-> f]
  <2>1. f \in open /\ n \in entries /\ pending[k][f] \in Ids
    BY <1>3, PendingNote
  <2>2. n.id = pending[k][f]
    OBVIOUS
  <2> HIDE DEF n
  <2>3. owed[pending[k][f]] \in {k, "none"}
    BY <1>3 DEF NotesInvariant, PendingOfKind
  <2>4. pending[k][f] # i
    BY <2>3
  <2>5. n \in entries'
    BY <2>1, <2>2, <2>4 DEF Notes
  <2> QED
    BY <1>2, <2>1, <2>4, <2>5 DEF n
<1>4. ASSUME NEW n \in entries'
      PROVE  n.id # i /\ n.id \in Ids /\ owed'[n.id] = owed[n.id]
  <2>1. n \in entries /\ n.id \in Ids
    BY <1>1 DEF Notings
  <2>2. n.id # i
    BY <2>1 DEF NotesInvariant, NotedOnce, Notes
  <2> QED
    BY <1>2, <2>1, <2>2
<1> QED
  BY <1>1, <1>2, <1>3, <1>4, ForgetStep

LEMMA AnsweredStep ==
  ASSUME RequestsAssumption, SessionInvariant, NotesInvariant,
         NEW i \in Ids, Answered(i)
  PROVE  NotesInvariant'
<1> USE DEF sessionVars, editorVars, clientVars
<1>1. /\ owed \in [Ids -> Methods \cup {"none"}] /\ running \in BOOLEAN
      /\ entries \subseteq Notings
  BY DEF NotesInvariant, NotesTypeOK, SessionInvariant, TypeOK
<1>2. CASE CompletionAnswered(i)
  <2>1. /\ owed[i] = "completion" /\ "completion" \in Kinds /\ Taken(i)
        /\ entries' = entries \ Notes(Table("completion"), i)
        /\ pending' = [pending EXCEPT !["completion"] = NoLonger("completion", i)]
        /\ UNCHANGED <<open, running, stopping>>
    BY <1>2, TablesOfMethods DEF CompletionAnswered, Answerable, Kinds
  <2> QED
    BY <2>1, LatestAnsweredStep
<1>3. CASE HoverAnswered(i)
  <2>1. /\ owed[i] = "hover" /\ "hover" \in Kinds /\ Taken(i)
        /\ entries' = entries \ Notes(Table("hover"), i)
        /\ pending' = [pending EXCEPT !["hover"] = NoLonger("hover", i)]
        /\ UNCHANGED <<open, running, stopping>>
    BY <1>3, TablesOfMethods DEF HoverAnswered, Answerable, Kinds
  <2> QED
    BY <2>1, LatestAnsweredStep
<1>4. CASE EditorAnswered(i)
  <2>1. /\ owed[i] \notin Kinds \cup {"none"} /\ owed' = [owed EXCEPT ![i] = "none"]
        /\ entries' = entries \ Notes(Table(owed[i]), i)
        /\ UNCHANGED <<open, running, stopping, pending>>
    BY <1>4 DEF EditorAnswered, Answerable, Taken, TakeNote, Kinds
  <2>2. ProcessLives
    BY <2>1 DEF ProcessLives
  <2> QED
    BY <2>1, <2>2, OtherAnsweredStep
<1>5. CASE EditAnswered(i)
  <2>1. /\ owed[i] = "edit" /\ owed[i] \notin Kinds \cup {"none"}
        /\ entries' = entries \ Notes(Table(owed[i]), i)
        /\ UNCHANGED <<open, running, stopping, pending>>
    BY <1>5, TablesOfMethods DEF EditAnswered, Answerable, Kinds
  <2>2. ProcessLives
    BY <2>1 DEF ProcessLives
  <2>3. \E method \in Methods \cup {"none"} : owed' = [owed EXCEPT ![i] = method]
    <3>1. Asked(i, "executeCommand")[i] \in Methods \cup {"none"}
      BY <1>1 DEF Asked, Methods
    <3> QED
      BY <1>5, <3>1 DEF EditAnswered, Taken
  <2> QED
    BY <2>1, <2>2, <2>3, OtherAnsweredStep
<1>6. CASE LocationAnswered(i)
  <2>1. /\ owed[i] \in {"location", "executeCommand"}
        /\ owed[i] \notin Kinds \cup {"none"} /\ owed' = [owed EXCEPT ![i] = "none"]
        /\ UNCHANGED <<entries, pending>>
    BY <1>6 DEF LocationAnswered, Answerable, Taken, Kinds
  <2>2. entries' = entries \ Notes(Table(owed[i]), i)
    <3>1. Table(owed[i]) = "none"
      BY <2>1, TablesOfMethods
    <3> QED
      BY <1>1, <2>1, <3>1 DEF Notes, Notings, Tables
  <2>3. ProcessLives /\ open' = open
    <3>1. CASE UNCHANGED sessionVars
      BY <3>1 DEF ProcessLives
    <3>2. CASE \E e \in Editors : ActivateEditor(e)
      BY <1>1, <3>2, GoplsEditorChangedProcess
      DEF ActivateEditor, EmitCurrentEditorChanged
    <3> QED
      BY <1>6, <3>1, <3>2 DEF LocationAnswered
  <2> QED
    BY <2>1, <2>2, <2>3, OtherAnsweredStep
<1> QED
  BY <1>2, <1>3, <1>4, <1>5, <1>6 DEF Answered

LEMMA RequestingActions ==
  ASSUME SessionAssumption, RequestsAssumption, SessionInvariant, NotesInvariant,
         \/ CompletionRequested \/ HoverRequested
         \/ NavigationRequested \/ UserRequests
  PROVE  NotesInvariant'
<1> USE DEF sessionVars, editorVars, clientVars
<1>1. /\ current \in open /\ current \in Editors /\ running /\ Unmentioned # {}
      /\ UNCHANGED <<open, running, stopping>>
  BY DEF CompletionRequested, HoverRequested, NavigationRequested, UserRequests, InGo,
         SessionAssumption, SessionInvariant, GocodeRestored, Request, RequestLatest
<1>2. NextId \in Unmentioned /\ Unmentioned \subseteq Ids /\ NextId \in Ids
  BY <1>1, NextIdIsNew DEF Unmentioned
<1>3. Kinds = {"completion", "hover"} /\ Kinds \subseteq Methods /\ NotesTypeOK
  BY DEF Kinds, Methods, NotesInvariant
<1>4. ASSUME NEW kind \in Kinds, RequestLatest(kind, current)
      PROVE  NotesInvariant'
  <2>1. /\ owed' = Asked(NextId, kind)
        /\ entries' = (entries \ Superseded(kind, current)) \cup Noted(NextId, kind, current)
        /\ pending' = [pending EXCEPT ![kind][current] = NextId]
    BY <1>4 DEF RequestLatest
  <2>2. /\ owed' \in [Ids -> Methods \cup {"none"}]
        /\ owed'[NextId] \in {kind, "none"}
        /\ ~stopping => owed'[NextId] = kind
        /\ \A k \in Ids : k \in Unmentioned \/ owed'[k] = owed[k]
    BY <1>1, <1>2, <1>3, <2>1, AskedWhat DEF Unmentioned
  <2> DEFINE more == {}
  <2>3. /\ more \in SUBSET Notings /\ (\A m, n \in more : m = n)
        /\ \A n \in more : n.id \in Unmentioned \ {NextId} /\ n.table = "navigation"
        /\ \A n \in more : owed'[n.id] \in {"navigation", "none"}
    OBVIOUS
  <2>4. entries' = (entries \ Superseded(kind, current)) \cup Noted(NextId, kind, current) \cup more
    BY <2>1
  <2> HIDE DEF more
  <2> QED
    BY <1>1, <1>2, <2>1, <2>2, <2>3, <2>4, LatestStep
<1>5. CASE CompletionRequested
  BY <1>3, <1>4, <1>5 DEF CompletionRequested
<1>6. CASE HoverRequested
  BY <1>3, <1>4, <1>6 DEF HoverRequested
<1>7. CASE NavigationRequested
  <2>1. IdAfter \in Unmentioned \ {NextId}
    BY <1>7, IdAfterIsNew DEF NavigationRequested
  <2> DEFINE linked == [id |-> IdAfter, table |-> "navigation", editor |-> current]
  <2>2. Noted(IdAfter, "navigation", current) = {linked} /\ linked \in Notings
    BY <1>1, <1>2, <2>1, TablesOfMethods DEF Noted, Notings, Tables
  <2>3. linked.id = IdAfter /\ linked.table = "navigation"
    OBVIOUS
  <2> HIDE DEF linked
  <2>4. /\ "hover" \in Kinds /\ {linked} \in SUBSET Notings
        /\ entries' = (entries \ Superseded("hover", current))
                        \cup Noted(NextId, "hover", current) \cup {linked}
        /\ pending' = [pending EXCEPT !["hover"][current] = NextId]
    BY <1>3, <1>7, <2>2 DEF NavigationRequested
  <2>5. /\ owed' \in [Ids -> Methods \cup {"none"}]
        /\ owed'[NextId] = Asked(NextId, "hover")[NextId]
        /\ owed'[IdAfter] = Asked(IdAfter, "navigation")[IdAfter]
        /\ \A k \in Ids \ {NextId, IdAfter} : owed'[k] = owed[k]
    <3>1. /\ Asked(NextId, "hover") \in [Ids -> Methods \cup {"none"}]
          /\ Asked(IdAfter, "navigation") \in [Ids -> Methods \cup {"none"}]
          /\ \A k \in Ids \ {NextId} : Asked(NextId, "hover")[k] = owed[k]
      BY <1>2, <1>3, <2>1, AskedWhat DEF Methods
    <3>2. owed' = [Asked(NextId, "hover") EXCEPT ![IdAfter] = Asked(IdAfter, "navigation")[IdAfter]]
      BY <1>7 DEF NavigationRequested
    <3> QED
      BY <1>2, <2>1, <3>1, <3>2
  <2>6. /\ owed'[NextId] \in {"hover", "none"} /\ (~stopping => owed'[NextId] = "hover")
        /\ owed'[IdAfter] \in {"navigation", "none"}
    <3>1. owed[NextId] = "none" /\ owed[IdAfter] = "none" /\ IdAfter \in Ids
      BY <1>2, <2>1 DEF Unmentioned
    <3> QED
      BY <1>1, <1>2, <1>3, <2>5, <3>1 DEF Asked, NotesTypeOK
  <2>7. \A k \in Ids : k \in Unmentioned \/ owed'[k] = owed[k]
    BY <1>2, <2>1, <2>5
  <2> DEFINE more == {linked}
  <2>8. /\ more \in SUBSET Notings /\ (\A m, n \in more : m = n)
        /\ \A n \in more : n.id \in Unmentioned \ {NextId} /\ n.table = "navigation"
        /\ \A n \in more : owed'[n.id] \in {"navigation", "none"}
    BY <2>1, <2>3, <2>4, <2>6
  <2>9. entries' = (entries \ Superseded("hover", current)) \cup Noted(NextId, "hover", current) \cup more
    BY <2>4
  <2> HIDE DEF more
  <2> QED
    BY <1>1, <1>2, <2>4, <2>5, <2>6, <2>7, <2>8, <2>9, LatestStep
<1>8. CASE UserRequests
  <2>1. PICK method \in {"signatureHelp", "location", "formatting", "edit"} :
          Request(method, current)
    BY <1>8 DEF UserRequests
  <2> DEFINE more == Noted(NextId, method, current)
  <2>2. /\ owed' = Asked(NextId, method) /\ entries' = entries \cup more /\ pending' = pending
        /\ method \in Methods
    BY <2>1 DEF Request, Methods
  <2>3. /\ owed' \in [Ids -> Methods \cup {"none"}]
        /\ owed'[NextId] \in {method, "none"}
        /\ \A k \in Ids : k \in Unmentioned \/ owed'[k] = owed[k]
    BY <1>2, <1>3, <2>2, AskedWhat DEF Unmentioned
  <2>4. /\ more \in SUBSET Notings /\ (\A m, n \in more : m = n)
        /\ \A n \in more : /\ n.id = NextId /\ n.table # "completion"
                           /\ n.table = Table(method)
    BY <1>1, <1>2, TablesOfMethods DEF Noted, Notings, Tables
  <2> HIDE DEF more
  <2>5. \A n \in more : /\ n.id \in Unmentioned /\ n.table # "completion"
                        /\ owed'[n.id] # "none" => Table(owed'[n.id]) = n.table
    BY <1>2, <2>3, <2>4
  <2> QED
    BY <1>1, <2>2, <2>3, <2>4, <2>5, RequestStep
<1> QED
  BY <1>5, <1>6, <1>7, <1>8

\* An editor waits no longer, or is closed.
LEMMA ForgetEditorStep ==
  ASSUME RequestsAssumption, NotesInvariant, ProcessLives,
         NEW e \in Editors, NEW kinds \in SUBSET Kinds,
         open \ {e} \subseteq open', e \in open => e \in open' \/ kinds = Kinds,
         UNCHANGED owed,
         entries' = {n \in entries : \A k \in kinds : n \notin Superseded(k, e)},
         pending' \in [Kinds -> [Editors -> Ids \cup {0}]],
         \A k \in Kinds, f \in Editors :
           pending'[k][f] = IF k \in kinds /\ f = e THEN 0 ELSE pending[k][f]
  PROVE  NotesInvariant'
<1>1. /\ owed \in [Ids -> Methods \cup {"none"}] /\ entries \subseteq Notings
  BY DEF NotesInvariant, NotesTypeOK
<1>2. ASSUME NEW k \in Kinds, NEW f \in Editors, pending'[k][f] # 0
      PROVE  /\ pending'[k][f] = pending[k][f] /\ f \in open'
             /\ [id |-> pending[k][f], table |-> Table(k), editor |-> f] \in entries'
  <2> DEFINE n == [id |-> pending[k][f], table |-> Table(k), editor |-> f]
  <2>1. /\ pending'[k][f] = pending[k][f] /\ pending[k][f] # 0
        /\ ~(k \in kinds /\ f = e)
    BY <1>2
  <2>2. f \in open /\ n \in entries /\ pending[k][f] \in Ids
    BY <2>1, PendingNote
  <2>3. n.id = pending[k][f] /\ n.table = Table(k) /\ n.editor = f
    OBVIOUS
  <2> HIDE DEF n
  <2>4. ASSUME NEW l \in kinds
        PROVE  n \notin Superseded(l, e)
    <3>1. SUFFICES ASSUME n.id = pending[l][e], n.table = Table(l)
                   PROVE  FALSE
      BY DEF Superseded, Notes
    <3>2. pending[l][e] # 0
      BY <2>1, <2>3, <3>1
    <3>3. f = e /\ Table(k) = Table(l)
      BY <2>2, <2>3, <3>1, <3>2, PendingNote
    <3>4. k = l
      BY <3>3, TablesOfMethods DEF Kinds
    <3> QED
      BY <2>1, <3>3, <3>4
  <2> QED
    BY <2>1, <2>2, <2>4 DEF n
<1>3. ASSUME NEW n \in entries', n.table = "completion"
      PROVE  pending'["completion"][n.editor] = pending["completion"][n.editor]
  <2>1. n \in entries /\ n.editor \in Editors /\ "completion" \in Kinds
    BY <1>1 DEF Notings, Kinds
  <2>2. pending["completion"][n.editor] = n.id
    BY <1>3, <2>1 DEF NotesInvariant, TablesAgree
  <2>3. ~("completion" \in kinds /\ n.editor = e)
    BY <1>3, <2>1, <2>2, TablesOfMethods DEF Superseded, Notes
  <2> QED
    BY <2>1, <2>3
<1> QED
  BY <1>1, <1>2, <1>3, ForgetStep

LEMMA ForgettingActions ==
  ASSUME SessionAssumption, RequestsAssumption, SessionInvariant, NotesInvariant,
         \/ HoverNothing
         \/ \E e \in Editors, next \in Editors \cup {NoEditor} : ReqCloseEditor(e, next)
  PROVE  NotesInvariant'
<1> USE DEF sessionVars, editorVars, clientVars
<1>1. /\ running \in BOOLEAN /\ Kinds = {"completion", "hover"}
      /\ pending \in [Kinds -> [Editors -> Ids \cup {0}]]
  BY DEF NotesInvariant, NotesTypeOK, SessionInvariant, TypeOK, Kinds
<1>2. CASE HoverNothing
  <2> DEFINE kinds == {"hover"}
  <2>1. /\ kinds \in SUBSET Kinds /\ current \in Editors
        /\ entries' = {n \in entries : \A k \in kinds : n \notin Superseded(k, current)}
        /\ UNCHANGED <<open, owed, running, stopping>>
    BY <1>1, <1>2 DEF HoverNothing, InGo, SessionAssumption
  <2>2. /\ pending' \in [Kinds -> [Editors -> Ids \cup {0}]]
        /\ \A k \in Kinds, f \in Editors :
             pending'[k][f] = IF k \in kinds /\ f = current THEN 0 ELSE pending[k][f]
    BY <1>1, <1>2, <2>1 DEF HoverNothing
  <2>3. ProcessLives
    BY <2>1 DEF ProcessLives
  <2> HIDE DEF kinds
  <2> QED
    BY <2>1, <2>2, <2>3, ForgetEditorStep
<1>3. ASSUME NEW e \in Editors, NEW next \in Editors \cup {NoEditor}, ReqCloseEditor(e, next)
      PROVE  NotesInvariant'
  <2>1. /\ open' = open \ {e} /\ UNCHANGED owed
        /\ entries' = {n \in entries : \A k \in Kinds : n \notin Superseded(k, e)}
        /\ pending' \in [Kinds -> [Editors -> Ids \cup {0}]]
        /\ \A k \in Kinds, f \in Editors :
             pending'[k][f] = IF k \in Kinds /\ f = e THEN 0 ELSE pending[k][f]
    BY <1>1, <1>3 DEF ReqCloseEditor, CloseEditor, ClosedNotes
  <2>2. ProcessLives
    <3>1. CASE e # current
      BY <1>3, <3>1 DEF ReqCloseEditor, CloseEditor, ProcessLives
    <3>2. CASE e = current
      BY <1>1, <1>3, <3>2, GoplsEditorChangedProcess
      DEF ReqCloseEditor, CloseEditor, EmitCurrentEditorChanged
    <3> QED
      BY <3>1, <3>2
  <2> QED
    BY <2>1, <2>2, ForgetEditorStep
<1> QED
  BY <1>2, <1>3

\* The end of the server: nothing is owed and nobody waits.
LEMMA FinishedStep ==
  ASSUME NotesInvariant, NEW outcome \in Outcomes, ReqProcessFinished(outcome)
  PROVE  NotesInvariant'
<1>1. /\ owed' = [i \in Ids |-> "none"] /\ entries' \subseteq entries
      /\ \A n \in entries' : n.table # "completion"
      /\ pending' = [kind \in Kinds |-> [e \in Editors |-> 0]]
  BY DEF ReqProcessFinished, StoppedPending, NothingPending
<1>2. NotesTypeOK'
  BY <1>1 DEF NotesInvariant, NotesTypeOK
<1>3. NotedOnce'
  <2>1. \A n \in entries' : n.id \in Ids
    BY <1>1 DEF NotesInvariant, NotesTypeOK, Notings
  <2> QED
    BY <1>1, <2>1 DEF NotesInvariant, NotedOnce
<1>4. PendingOfKind' /\ PendingIsOwed'
  BY <1>1 DEF PendingOfKind, PendingIsOwed
<1>5. TablesAgree'
  BY <1>1 DEF TablesAgree
<1> QED
  BY <1>2, <1>3, <1>4, <1>5 DEF NotesInvariant

-----------------------------------------------------------------------------
(* The theorems.                                                           *)

LEMMA NotesStep ==
  ASSUME SessionAssumption, RequestsAssumption, SessionInvariant, NotesInvariant,
         [ReqNext]_reqVars
  PROVE  NotesInvariant'
<1>1. CASE UNCHANGED reqVars
  BY <1>1, ReqQuietStep
  DEF reqVars, noteVars, sessionVars, editorVars, clientVars, ProcessLives
<1>2. CASE ReqNext
  BY <1>2, AnsweredStep, RequestingActions, ForgettingActions, FinishedStep, ReqQuietActions
  DEF ReqNext
<1> QED
  BY <1>1, <1>2

\* The requests are a part that the session does not notice.
LEMMA ReqStepIsSessionStep ==
  ASSUME [ReqNext]_reqVars
  PROVE  [Next]_sessionVars
<1> USE DEF Next
<1>1. CASE UNCHANGED reqVars
  BY <1>1 DEF reqVars
<1>2. ASSUME NEW i \in Ids, Answered(i)
      PROVE  [Next]_sessionVars
  BY <1>2
  DEF Answered, CompletionAnswered, HoverAnswered, EditorAnswered, EditAnswered,
      LocationAnswered, UserStep
<1>3. CASE CompletionRequested \/ HoverRequested \/ HoverNothing \/ NavigationRequested
           \/ UserRequests
  BY <1>3
  DEF CompletionRequested, HoverRequested, HoverNothing, NavigationRequested, UserRequests
<1>4. CASE \E e \in Editors, next \in Editors \cup {NoEditor} : ReqCloseEditor(e, next)
  BY <1>4 DEF ReqCloseEditor, UserStep
<1>5. CASE \E outcome \in Outcomes : ReqProcessFinished(outcome)
  BY <1>5 DEF ReqProcessFinished, ProcessStep
<1>6. CASE ReqOther
  BY <1>6 DEF ReqOther, UserStep, ProcessStep
<1>7. CASE ReqReturns
  BY <1>7 DEF ReqReturns, Returns
<1> QED
  BY <1>1, <1>2, <1>3, <1>4, <1>5, <1>6, <1>7 DEF ReqNext

LEMMA NotesInit ==
  ASSUME ReqInit
  PROVE  NotesInvariant
<1>1. /\ owed = [i \in Ids |-> "none"] /\ entries = {}
      /\ pending = [kind \in Kinds |-> [e \in Editors |-> 0]]
  BY DEF ReqInit, NothingPending
<1> QED
  BY <1>1
  DEF NotesInvariant, NotesTypeOK, NotedOnce, PendingOfKind, TablesAgree, PendingIsOwed

\* A history of the requests is one of the session, and has what is proved of it.
THEOREM RequestsRefineSession == ReqSpec => Spec
<1>1. ReqInit => Init
  BY DEF ReqInit
<1>2. [ReqNext]_reqVars => [Next]_sessionVars
  BY ReqStepIsSessionStep
<1> QED
  BY <1>1, <1>2, PTL DEF ReqSpec, Spec

\* The inductive invariant of the requests.
THEOREM RequestsInvariantHolds == ReqSpec => []RequestsInvariant
<1>1. ReqInit => NotesInvariant
  BY NotesInit
<1>2. SessionInvariant /\ NotesInvariant /\ [ReqNext]_reqVars => NotesInvariant'
  BY NotesStep, SessionAssumption, RequestsAssumption
<1>3. SessionInvariant /\ NotesInvariant => RequestsInvariant
  BY DEF RequestsInvariant, NotesInvariant
<1> QED
  BY <1>1, <1>2, <1>3, RequestsRefineSession, SessionInvariantHolds, PTL DEF ReqSpec

\* A completion noted is the one its editor waits for, and what an editor
\* waits for is noted and belongs to an editor that is open.
THEOREM TablesAgreeHolds == ReqSpec => []TablesAgree
<1>1. RequestsInvariant => TablesAgree
  BY DEF RequestsInvariant
<1> QED
  BY <1>1, RequestsInvariantHolds, PTL

\* While no stop is under way an editor waits only for an answer the server owes.
THEOREM PendingIsOwedHolds == ReqSpec => []PendingIsOwed
<1>1. RequestsInvariant => PendingIsOwed
  BY DEF RequestsInvariant
<1> QED
  BY <1>1, RequestsInvariantHolds, PTL
===============================================================================
