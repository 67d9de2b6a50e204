--------------------------- MODULE FileReloadProofs ---------------------------
(***************************************************************************)
(* Proofs about FileReload, for every finite set of files and every bound  *)
(* on the writes.                                                          *)
(***************************************************************************)
EXTENDS FileReload, FiniteSetTheorems, TLAPS

-----------------------------------------------------------------------------
(* Type correctness.                                                       *)

BufferType == [Files -> [open : BOOLEAN, base : Texts, modified : BOOLEAN]]
AnswerType == [Files -> [refused : Texts, kept : BOOLEAN, moved : BOOLEAN]]

\* The type invariant in three parts.
DataTypeOK ==
  /\ disk \in [Files -> [exists : BOOLEAN, text : Texts, time : Texts]]
  /\ clock \in Texts
  /\ notices \in [Files -> {"nothing", "changed", "removed"}]
  /\ watched \subseteq Files /\ changed \subseteq Files
  /\ known \in [Files -> Texts \cup {Unknown}]
  /\ buffer \in BufferType
  /\ answered \in AnswerType

CheckTypeOK ==
  /\ check \in [active : BOOLEAN, queue : SUBSET Files, file : Files \cup {Nowhere},
                about : {"nothing", "reload", "close", "save"},
                reloadAll : BOOLEAN, closeAll : BOOLEAN]
  /\ check.file # Nowhere => check.file \in check.queue

RestTypeOK ==
  sched \in [timer : BOOLEAN, onFocus : BOOLEAN] /\ auto \in BOOLEAN /\ modal \in BOOLEAN

LEMMA TypeParts ==
  /\ ReloadTypeOK <=> DataTypeOK /\ CheckTypeOK /\ RestTypeOK
  /\ ReloadTypeOK' <=> DataTypeOK' /\ CheckTypeOK' /\ RestTypeOK'
BY DEF ReloadTypeOK, DataTypeOK, CheckTypeOK, RestTypeOK, BufferType, AnswerType

LEMMA InitType ==
  ASSUME FileReloadAssumption, Init
  PROVE  ReloadTypeOK
<1>1. 0 \in Texts /\ 1 \in Texts
  BY DEF FileReloadAssumption, Texts
<1>2. /\ disk \in [Files -> [exists : BOOLEAN, text : Texts, time : Texts]]
      /\ buffer \in BufferType
      /\ answered \in AnswerType
  BY <1>1 DEF Init, Closed, NoAnswer, BufferType, AnswerType
<1>3. /\ notices \in [Files -> {"nothing", "changed", "removed"}]
      /\ known \in [Files -> Texts \cup {Unknown}]
      /\ watched \subseteq Files /\ changed \subseteq Files
  BY DEF Init
<1>4. check = Resting /\ sched = [timer |-> FALSE, onFocus |-> FALSE]
  BY DEF Init
<1>5. /\ check \in [active : BOOLEAN, queue : SUBSET Files, file : Files \cup {Nowhere},
                    about : {"nothing", "reload", "close", "save"},
                    reloadAll : BOOLEAN, closeAll : BOOLEAN]
      /\ check.file # Nowhere => check.file \in check.queue
      /\ sched \in [timer : BOOLEAN, onFocus : BOOLEAN]
  BY <1>4 DEF Resting
<1>6. clock \in Texts /\ auto \in BOOLEAN /\ modal \in BOOLEAN
  BY <1>1 DEF Init
<1> QED
  BY <1>2, <1>3, <1>5, <1>6 DEF ReloadTypeOK, BufferType, AnswerType

\* The writes of a save are numbered within the bound.
LEMMA SaveType ==
  ASSUME FileReloadAssumption, ReloadTypeOK, NEW fs \in SUBSET Files, Save(fs)
  PROVE  DataTypeOK'
<1>1. Cardinality(fs) \in Nat
  BY FS_Subset, FS_CardinalityType DEF FileReloadAssumption
<1>2. PICK order \in [fs -> (clock + 1)..(clock + Cardinality(fs))] :
        /\ disk' = [f \in Files |-> IF f \in fs
                      THEN [exists |-> TRUE, text |-> order[f], time |-> order[f]]
                      ELSE disk[f]]
        /\ known' = [f \in Files |-> IF f \in fs THEN order[f] ELSE known[f]]
        /\ buffer' = [f \in Files |-> IF f \in fs
                        THEN [open |-> TRUE, base |-> order[f], modified |-> FALSE]
                        ELSE buffer[f]]
  BY DEF Save
<1>3. clock \in Nat /\ MaxClock \in Nat /\ clock + Cardinality(fs) <= MaxClock
  BY DEF FileReloadAssumption, ReloadTypeOK, Texts, Save, BufferType, AnswerType
<1>4. \A f \in fs : order[f] \in Texts
  BY <1>1, <1>3 DEF Texts
<1>5. clock' \in Texts
  BY <1>1, <1>3 DEF Save, Texts
<1>6. disk' \in [Files -> [exists : BOOLEAN, text : Texts, time : Texts]]
  BY <1>2, <1>4 DEF ReloadTypeOK, BufferType, AnswerType
<1>7. /\ known' \in [Files -> Texts \cup {Unknown}]
      /\ buffer' \in BufferType
  BY <1>2, <1>4 DEF ReloadTypeOK, BufferType, AnswerType
<1>8. /\ notices' \in [Files -> {"nothing", "changed", "removed"}]
      /\ watched' \subseteq Files /\ changed' \subseteq Files
  BY DEF Save, ReloadTypeOK, BufferType, AnswerType
<1>9. answered' \in AnswerType
  BY DEF Save, ReloadTypeOK, NoAnswer, Texts, FileReloadAssumption, BufferType, AnswerType
<1> QED
  BY <1>5, <1>6, <1>7, <1>8, <1>9 DEF DataTypeOK, BufferType, AnswerType

LEMMA NextClock ==
  ASSUME FileReloadAssumption, ReloadTypeOK, clock < MaxClock
  PROVE  clock + 1 \in Texts /\ 0 \in Texts
BY DEF FileReloadAssumption, ReloadTypeOK, Texts, BufferType, AnswerType

LEMMA SaveAndCloseType ==
  ASSUME FileReloadAssumption, ReloadTypeOK, NEW f \in Files, SaveAndClose(f)
  PROVE  DataTypeOK'
<1>1. clock + 1 \in Texts /\ 0 \in Texts
  BY NextClock DEF SaveAndClose
<1>2. disk' \in [Files -> [exists : BOOLEAN, text : Texts, time : Texts]]
  BY <1>1 DEF SaveAndClose, ReloadTypeOK, BufferType, AnswerType
<1>3. notices' \in [Files -> {"nothing", "changed", "removed"}]
  BY DEF SaveAndClose, Seen, ReloadTypeOK, BufferType, AnswerType
<1>4. /\ watched' \subseteq Files /\ changed' \subseteq Files
      /\ known' \in [Files -> Texts \cup {Unknown}]
  BY DEF SaveAndClose, Release, ReloadTypeOK, BufferType, AnswerType
<1>5. /\ buffer' \in BufferType
      /\ answered' \in AnswerType
  BY <1>1 DEF SaveAndClose, Closed, NoAnswer, ReloadTypeOK, BufferType, AnswerType
<1> QED
  BY <1>1, <1>2, <1>3, <1>4, <1>5 DEF SaveAndClose, DataTypeOK, BufferType, AnswerType

LEMMA DiscardType ==
  ASSUME FileReloadAssumption, ReloadTypeOK, NEW f \in Files, Discard(f)
  PROVE  DataTypeOK'
<1>1. 0 \in Texts
  BY DEF FileReloadAssumption, Texts
<1>2. /\ watched' \subseteq Files /\ changed' \subseteq Files
      /\ known' \in [Files -> Texts \cup {Unknown}]
  BY DEF Discard, Release, ReloadTypeOK, BufferType, AnswerType
<1>3. /\ buffer' \in BufferType
      /\ answered' \in AnswerType
  BY <1>1 DEF Discard, Closed, NoAnswer, ReloadTypeOK, BufferType, AnswerType
<1> QED
  BY <1>2, <1>3 DEF Discard, ReloadTypeOK, DataTypeOK, BufferType, AnswerType

LEMMA ReloadType ==
  ASSUME FileReloadAssumption, ReloadTypeOK, NEW f \in Files, Reload(f)
  PROVE  /\ known' \in [Files -> Texts \cup {Unknown}]
         /\ buffer' \in BufferType
         /\ answered' \in AnswerType
<1>1. disk[f].time \in Texts /\ disk[f].text \in Texts /\ 0 \in Texts
  BY DEF ReloadTypeOK, FileReloadAssumption, Texts, BufferType, AnswerType
<1>2. known' \in [Files -> Texts \cup {Unknown}]
  BY <1>1 DEF Reload, ReloadTypeOK, BufferType, AnswerType
<1>3. /\ buffer' \in BufferType
      /\ answered' \in AnswerType
  <2>1. CASE UNCHANGED <<buffer, answered>>
    BY <2>1 DEF ReloadTypeOK, BufferType, AnswerType
  <2>2. CASE ~UNCHANGED <<buffer, answered>>
    <3>1. /\ buffer' = [buffer EXCEPT ![f] =
                          [open |-> TRUE, base |-> disk[f].text, modified |-> FALSE]]
          /\ answered' = [answered EXCEPT ![f] = NoAnswer]
      BY <2>2 DEF Reload
    <3>2. buffer' \in BufferType
      BY <1>1, <3>1 DEF ReloadTypeOK, BufferType, AnswerType
    <3>3. answered' \in AnswerType
      BY <1>1, <3>1 DEF ReloadTypeOK, NoAnswer, BufferType, AnswerType
    <3> QED  BY <3>2, <3>3
  <2> QED  BY <2>1, <2>2
<1> QED
  BY <1>2, <1>3

LEMMA UntouchedType ==
  ASSUME ReloadTypeOK, Untouched
  PROVE  DataTypeOK'
BY DEF ReloadTypeOK, DataTypeOK, Untouched, BufferType, AnswerType

\* The running check, when it asks and when it goes on.
LEMMA AskType ==
  ASSUME ReloadTypeOK, NEW f \in check.queue, f \in Files,
         NEW about \in {"reload", "close", "save"}, Ask(f, about)
  PROVE  CheckTypeOK'
BY DEF ReloadTypeOK, CheckTypeOK, Ask

LEMMA HandledAllType ==
  ASSUME FileReloadAssumption, ReloadTypeOK, NEW f \in Files,
         NEW r \in BOOLEAN, NEW c \in BOOLEAN, HandledAll(f, r, c)
  PROVE  CheckTypeOK'
<1>1. /\ check'.file = Nowhere
      /\ check' \in [active : BOOLEAN, queue : SUBSET Files, file : Files \cup {Nowhere},
                     about : {"nothing", "reload", "close", "save"},
                     reloadAll : BOOLEAN, closeAll : BOOLEAN]
  BY DEF ReloadTypeOK, HandledAll
<1> QED
  BY <1>1 DEF CheckTypeOK

LEMMA HandledType ==
  ASSUME FileReloadAssumption, ReloadTypeOK, NEW f \in Files, Handled(f)
  PROVE  CheckTypeOK'
<1>1. /\ check'.file = Nowhere
      /\ check' \in [active : BOOLEAN, queue : SUBSET Files, file : Files \cup {Nowhere},
                     about : {"nothing", "reload", "close", "save"},
                     reloadAll : BOOLEAN, closeAll : BOOLEAN]
  BY DEF ReloadTypeOK, Handled
<1> QED
  BY <1>1 DEF CheckTypeOK

\* Other programs.
LEMMA ElsewhereType ==
  ASSUME FileReloadAssumption, ReloadTypeOK, Elsewhere
  PROVE  ReloadTypeOK'
<1>1. PICK f \in Files : Write(f) \/ Replace(f) \/ Remove(f)
  BY DEF Elsewhere
<1>2. notices' \in [Files -> {"nothing", "changed", "removed"}]
  BY <1>1 DEF Write, Replace, Remove, Seen, ReloadTypeOK
<1>3. /\ disk' \in [Files -> [exists : BOOLEAN, text : Texts, time : Texts]]
      /\ clock' \in Texts
  <2>1. CASE Remove(f)
    <3>1. 0 \in Texts
      BY DEF FileReloadAssumption, Texts
    <3> QED
      BY <2>1, <3>1 DEF Remove, Missing, ReloadTypeOK
  <2>2. ASSUME NEW t \in 1..(clock + 1), Put(f, t)
        PROVE  /\ disk' \in [Files -> [exists : BOOLEAN, text : Texts, time : Texts]]
               /\ clock' \in Texts
    <3>1. clock + 1 \in Texts
      BY <2>2, NextClock DEF Put
    <3>2. t \in Texts
      BY <3>1 DEF Texts, ReloadTypeOK, FileReloadAssumption
    <3> QED
      BY <2>2, <3>1, <3>2 DEF Put, ReloadTypeOK
  <2>3. CASE Write(f)
    <3>1. clock + 1 \in 1..(clock + 1)
      BY DEF ReloadTypeOK, Texts, FileReloadAssumption
    <3> QED
      BY <2>2, <2>3, <3>1 DEF Write
  <2>4. CASE Replace(f)
    BY <2>2, <2>4 DEF Replace
  <2> QED  BY <1>1, <2>1, <2>3, <2>4
<1>4. DataTypeOK' /\ CheckTypeOK' /\ RestTypeOK'
  BY <1>2, <1>3, TypeParts DEF Elsewhere, DataTypeOK, CheckTypeOK, RestTypeOK
<1> QED
  BY <1>4, TypeParts

\* checkForReload and what leads to it.
LEMMA FileChangedType ==
  ASSUME ReloadTypeOK, NEW f \in Files, FileChanged(f)
  PROVE  ReloadTypeOK'
<1>1. DataTypeOK'
  BY DEF FileChanged, DataTypeOK, ReloadTypeOK, BufferType, AnswerType
<1>2. CheckTypeOK' /\ RestTypeOK'
  BY DEF FileChanged, CheckTypeOK, RestTypeOK, ReloadTypeOK, Due
<1> QED
  BY <1>1, <1>2, TypeParts

LEMMA CheckForReloadType ==
  ASSUME FileReloadAssumption, ReloadTypeOK,
         NEW s \in [timer : BOOLEAN, onFocus : BOOLEAN], CheckForReload(s)
  PROVE  ReloadTypeOK'
<1>1. DataTypeOK'
  BY DEF CheckForReload, DataTypeOK, ReloadTypeOK, BufferType, AnswerType
<1>2. CheckTypeOK'
  BY DEF CheckForReload, CheckTypeOK, ReloadTypeOK, Resting
<1>3. RestTypeOK'
  BY DEF CheckForReload, RestTypeOK, ReloadTypeOK
<1> QED
  BY <1>1, <1>2, <1>3, TypeParts

LEMMA CheckFileType ==
  ASSUME FileReloadAssumption, ReloadTypeOK, NEW f \in Files, CheckFile(f)
  PROVE  ReloadTypeOK'
<1>1. RestTypeOK'
  BY DEF CheckFile, RestTypeOK, ReloadTypeOK
<1>2. CheckTypeOK'
  BY AskType, HandledType DEF CheckFile, CheckMissing, CheckPresent
<1>3. DataTypeOK'
  <2>1. CASE CheckMissing(f)
    BY <2>1, UntouchedType, DiscardType DEF CheckMissing
  <2>2. CASE CheckPresent(f)
    <3>1. CASE known[f] = Unknown \/ ~buffer[f].open
      BY <2>2, <3>1, UntouchedType DEF CheckPresent
    <3>2. CASE ~(known[f] = Unknown \/ ~buffer[f].open)
      <4>1. watched' \subseteq Files
        BY <2>2, <3>2 DEF CheckPresent, Rewatched, AddPath, ReloadTypeOK
      <4>2. /\ known' \in [Files -> Texts \cup {Unknown}]
            /\ buffer' \in BufferType /\ answered' \in AnswerType
        BY <2>2, <3>2, ReloadType DEF CheckPresent, ReloadTypeOK, BufferType, AnswerType
      <4> QED
        BY <2>2, <3>2, <4>1, <4>2 DEF CheckPresent, DataTypeOK, ReloadTypeOK
    <3> QED  BY <3>1, <3>2
  <2> QED  BY <2>1, <2>2 DEF CheckFile
<1> QED
  BY <1>1, <1>2, <1>3, TypeParts

LEMMA AnswerFileType ==
  ASSUME FileReloadAssumption, ReloadTypeOK, NEW f \in Files, Answer(f)
  PROVE  ReloadTypeOK'
<1>1. CASE \E all \in BOOLEAN : ReloadYes(f, all)
  <2>1. PICK all \in BOOLEAN : ReloadYes(f, all)
    BY <1>1
  <2>2. CheckTypeOK'
    BY <2>1, HandledAllType DEF ReloadYes
  <2>3. DataTypeOK' /\ RestTypeOK'
    BY <2>1, ReloadType DEF ReloadYes, DataTypeOK, RestTypeOK, ReloadTypeOK
  <2> QED  BY <2>2, <2>3, TypeParts
<1>2. CASE \E all \in BOOLEAN : CloseYes(f, all)
  <2>1. PICK all \in BOOLEAN : CloseYes(f, all)
    BY <1>2
  <2>2. CheckTypeOK'
    <3>1. CASE buffer[f].modified
      BY <2>1, <3>1 DEF CloseYes, CheckTypeOK, ReloadTypeOK
    <3>2. CASE ~buffer[f].modified
      BY <2>1, <3>2, HandledAllType DEF CloseYes
    <3> QED  BY <3>1, <3>2
  <2>3. DataTypeOK'
    BY <2>1, UntouchedType, DiscardType DEF CloseYes
  <2>4. RestTypeOK'
    BY <2>1 DEF CloseYes, RestTypeOK, ReloadTypeOK
  <2> QED  BY <2>2, <2>3, <2>4, TypeParts
<1>3. CASE ReloadNo(f) \/ Keep(f)
  <2>1. CheckTypeOK'
    BY <1>3, HandledType DEF ReloadNo, Keep
  <2>2. answered' \in AnswerType
    <3>1. /\ answered \in AnswerType
          /\ disk[f].text \in Texts
      BY DEF ReloadTypeOK, AnswerType
    <3>2. CASE ReloadNo(f)
      BY <3>1, <3>2 DEF ReloadNo, AnswerType
    <3>3. CASE Keep(f)
      BY <3>1, <3>3 DEF Keep, AnswerType
    <3> QED  BY <1>3, <3>2, <3>3
  <2>3. DataTypeOK' /\ RestTypeOK'
    BY <1>3, <2>2 DEF ReloadNo, Keep, DataTypeOK, RestTypeOK, ReloadTypeOK, watch, BufferType
  <2> QED  BY <2>1, <2>3, TypeParts
<1>4. CASE CloseAnswered(f)
  <2>1. CheckTypeOK'
    BY <1>4, HandledType DEF CloseAnswered
  <2>2. DataTypeOK'
    BY <1>4, SaveAndCloseType, DiscardType DEF CloseAnswered
  <2>3. RestTypeOK'
    BY <1>4 DEF CloseAnswered, RestTypeOK, ReloadTypeOK
  <2> QED  BY <2>1, <2>2, <2>3, TypeParts
<1> QED
  BY <1>1, <1>2, <1>3, <1>4 DEF Answer

\* The user, and the idle timer.
LEMMA UserType ==
  ASSUME FileReloadAssumption, ReloadTypeOK, UserActs \/ AppIdle
  PROVE  ReloadTypeOK'
<1>1. ASSUME NEW f \in Files, OpenEditor(f)
      PROVE  ReloadTypeOK'
  <2>1. disk[f].text \in Texts /\ disk[f].time \in Texts
    BY DEF ReloadTypeOK
  <2>2. buffer' \in BufferType /\ known' \in [Files -> Texts \cup {Unknown}]
    BY <1>1, <2>1 DEF OpenEditor, ReloadTypeOK, BufferType
  <2>3. watched' \subseteq Files
    BY <1>1 DEF OpenEditor, AddPath, ReloadTypeOK
  <2> QED
    BY <1>1, <2>2, <2>3 DEF OpenEditor, ReloadTypeOK, BufferType
<1>2. ASSUME NEW f \in Files, Edit(f)
      PROVE  ReloadTypeOK'
  <2>1. buffer' \in BufferType
    <3>1. buffer \in BufferType
      BY DEF ReloadTypeOK, BufferType
    <3> QED
      BY <1>2, <3>1 DEF Edit, BufferType
  <2> QED
    BY <1>2, <2>1 DEF Edit, ReloadTypeOK, watch, BufferType
<1>3. ASSUME NEW f \in Files, SaveEditor(f)
      PROVE  ReloadTypeOK'
  <2>1. DataTypeOK'
    BY <1>3, SaveType DEF SaveEditor
  <2> QED
    BY <1>3, <2>1, TypeParts DEF SaveEditor, CheckTypeOK, RestTypeOK
<1>4. ASSUME NEW f \in Files, CloseEditor(f)
      PROVE  ReloadTypeOK'
  <2>1. DataTypeOK'
    BY <1>4, DiscardType, SaveAndCloseType DEF CloseEditor
  <2> QED
    BY <1>4, <2>1, TypeParts DEF CloseEditor, CheckTypeOK, RestTypeOK
<1>5. ASSUME NEW f \in Files, NEW g \in Files, SaveEditorAs(f, g)
      PROVE  ReloadTypeOK'
  <2>1. clock + 1 \in Texts /\ 0 \in Texts
    BY <1>5, NextClock DEF SaveEditorAs
  <2>2. disk' \in [Files -> [exists : BOOLEAN, text : Texts, time : Texts]]
    BY <1>5, <2>1 DEF SaveEditorAs, ReloadTypeOK
  <2>3. buffer' \in BufferType
    <3> DEFINE saved == [open |-> TRUE, base |-> clock + 1, modified |-> FALSE]
               Buffer == [open : BOOLEAN, base : Texts, modified : BOOLEAN]
    <3>1. saved \in Buffer /\ Closed \in Buffer
      BY <2>1 DEF Closed
    <3>2. buffer \in [Files -> Buffer]
      BY DEF ReloadTypeOK
    <3>3. buffer' = [buffer EXCEPT ![f] = Closed, ![g] = saved]
      BY <1>5 DEF SaveEditorAs
    <3> HIDE DEF saved, Buffer
    <3>4. buffer' \in [Files -> Buffer]
      BY <3>1, <3>2, <3>3
    <3> QED
      BY <3>4 DEF BufferType, Buffer
  <2>4. answered' \in AnswerType
    BY <1>5, <2>1 DEF SaveEditorAs, ReloadTypeOK, AnswerType, NoAnswer
  <2>5. notices' \in [Files -> {"nothing", "changed", "removed"}]
    BY <1>5 DEF SaveEditorAs, Seen, ReloadTypeOK
  <2> QED
    BY <1>5, <2>1, <2>2, <2>3, <2>4, <2>5
    DEF SaveEditorAs, ReloadTypeOK, BufferType, AnswerType
<1>6. CASE AppIdle
  <2>1. PICK fs \in SUBSET Files : fs # {} /\ Save(fs)
    BY <1>6 DEF AppIdle
  <2>2. DataTypeOK'
    BY <2>1, SaveType
  <2> QED
    BY <1>6, <2>2, TypeParts DEF AppIdle, CheckTypeOK, RestTypeOK
<1>7. CASE OpenDialog \/ CloseDialog
  BY <1>7 DEF OpenDialog, CloseDialog, ReloadTypeOK, watch
<1> QED
  BY <1>1, <1>2, <1>3, <1>4, <1>5, <1>6, <1>7 DEF UserActs

LEMMA NextType ==
  ASSUME FileReloadAssumption, ReloadTypeOK, [Next]_vars
  PROVE  ReloadTypeOK'
<1>1. CASE TimerFires \/ FocusChange
  <2>1. /\ [sched EXCEPT !.timer = FALSE] \in [timer : BOOLEAN, onFocus : BOOLEAN]
        /\ [sched EXCEPT !.onFocus = FALSE] \in [timer : BOOLEAN, onFocus : BOOLEAN]
    BY DEF ReloadTypeOK
  <2> QED
    BY <1>1, <2>1, CheckForReloadType DEF TimerFires, FocusChange
<1>2. CASE CheckEnds
  <2>1. CheckTypeOK' /\ RestTypeOK'
    BY <1>2 DEF CheckEnds, Resting, CheckTypeOK, RestTypeOK, ReloadTypeOK
  <2>2. DataTypeOK'
    BY <1>2, UntouchedType DEF CheckEnds
  <2> QED  BY <2>1, <2>2, TypeParts
<1>3. CASE UNCHANGED vars
  BY <1>3 DEF vars, watch, ReloadTypeOK
<1> QED
  BY <1>1, <1>2, <1>3, ElsewhereType, UserType, FileChangedType, CheckFileType,
     AnswerFileType DEF Next

\* The variables of FileManager and of the editors keep their types.
THEOREM ReloadTypeCorrect == Spec => []ReloadTypeOK
<1>1. Init => ReloadTypeOK
  BY InitType, FileReloadAssumption
<1>2. ReloadTypeOK /\ [Next]_vars => ReloadTypeOK'
  BY NextType, FileReloadAssumption
<1> QED
  BY <1>1, <1>2, PTL DEF Spec

-----------------------------------------------------------------------------
(* The changes collected are looked at.                                    *)

\* Closing an editor, with or without saving it, only takes names away.
LEMMA NoneAdded ==
  ASSUME NEW f, Release(f) \/ UNCHANGED changed
  PROVE  changed' \subseteq changed
BY DEF Release

\* A step that adds no name and takes no check away leaves them scheduled.
LEMMA StillScheduled ==
  ASSUME ChangesScheduled, changed' \subseteq changed, UNCHANGED sched,
         check'.active = check.active
  PROVE  ChangesScheduled'
BY DEF ChangesScheduled

LEMMA ScheduledStep ==
  ASSUME FileReloadAssumption, ReloadTypeOK, ChangesScheduled, [Next]_vars
  PROVE  ChangesScheduled'
<1>1. ASSUME NEW f \in Files, FileChanged(f)
      PROVE  ChangesScheduled'
  BY <1>1 DEF FileChanged, Due, ChangesScheduled, ReloadTypeOK
<1>2. CASE TimerFires \/ FocusChange
  <2>1. PICK s \in [timer : BOOLEAN, onFocus : BOOLEAN] : CheckForReload(s)
    <3>1. /\ [sched EXCEPT !.timer = FALSE] \in [timer : BOOLEAN, onFocus : BOOLEAN]
          /\ [sched EXCEPT !.onFocus = FALSE] \in [timer : BOOLEAN, onFocus : BOOLEAN]
      BY DEF ReloadTypeOK
    <3> QED
      BY <1>2, <3>1 DEF TimerFires, FocusChange
  <2>2. CASE changed = {}
    BY <2>1, <2>2 DEF CheckForReload, ChangesScheduled
  <2>3. CASE changed # {} /\ check.active
    BY <2>1, <2>3 DEF CheckForReload, ChangesScheduled
  <2>4. CASE changed # {} /\ ~check.active /\ modal
    BY <2>1, <2>4 DEF CheckForReload, ChangesScheduled
  <2>5. CASE changed # {} /\ ~check.active /\ ~modal
    BY <2>1, <2>5 DEF CheckForReload, ChangesScheduled
  <2> QED  BY <2>2, <2>3, <2>4, <2>5
<1>3. CASE CheckEnds
  BY <1>3 DEF CheckEnds, ChangesScheduled, ReloadTypeOK
<1>4. ASSUME NEW f \in Files, CheckFile(f)
      PROVE  ChangesScheduled'
  <2>1. check'.active = check.active
    <3>1. Handled(f) \/ \E about \in {"reload", "close", "save"} : Ask(f, about)
      BY <1>4 DEF CheckFile, CheckMissing, CheckPresent
    <3> QED
      BY <3>1 DEF Handled, Ask, ReloadTypeOK
  <2>2. changed' \subseteq changed
    BY <1>4, NoneAdded DEF CheckFile, CheckMissing, CheckPresent, Untouched, Discard
  <2> QED
    BY <1>4, <2>1, <2>2, StillScheduled DEF CheckFile
<1>5. ASSUME NEW f \in Files, Answer(f)
      PROVE  ChangesScheduled'
  <2>1. check'.active = check.active
    <3>1. ASSUME NEW all \in BOOLEAN, ReloadYes(f, all) \/ CloseYes(f, all)
          PROVE  check'.active = check.active
      BY <3>1 DEF ReloadYes, CloseYes, HandledAll, Untouched, ReloadTypeOK
    <3>2. CASE ReloadNo(f) \/ Keep(f) \/ CloseAnswered(f)
      BY <3>2 DEF ReloadNo, Keep, CloseAnswered, Handled, ReloadTypeOK
    <3> QED  BY <1>5, <3>1, <3>2 DEF Answer
  <2>2. changed' \subseteq changed
    BY <1>5, NoneAdded DEF Answer, ReloadYes, ReloadNo, CloseYes, Keep, CloseAnswered,
       watch, Untouched, Discard, SaveAndClose
  <2>3. UNCHANGED sched
    BY <1>5 DEF Answer, ReloadYes, ReloadNo, CloseYes, Keep, CloseAnswered
  <2> QED
    BY <2>1, <2>2, <2>3, StillScheduled
<1>6. CASE UserActs \/ AppIdle \/ Elsewhere \/ UNCHANGED vars
  <2>1. UNCHANGED <<sched, check>>
    BY <1>6 DEF UserActs, OpenEditor, Edit, SaveEditor, CloseEditor, SaveEditorAs,
       OpenDialog, CloseDialog, AppIdle, Elsewhere, vars
  <2>2. changed' \subseteq changed
    BY <1>6, NoneAdded DEF UserActs, OpenEditor, Edit, SaveEditor, CloseEditor,
       SaveEditorAs, OpenDialog, CloseDialog, AppIdle, Elsewhere, vars, watch,
       Save, Discard, SaveAndClose
  <2> QED
    BY <2>1, <2>2, StillScheduled
<1> QED
  BY <1>1, <1>2, <1>3, <1>4, <1>5, <1>6 DEF Next

\* fileChanged starts the timer for the first name only, and checkForReload
\* returns early twice; still no collected change is left without a check.
THEOREM ChangesScheduledHolds == Spec => []ChangesScheduled
<1>1. Init => ChangesScheduled
  BY DEF Init, ChangesScheduled
<1>2. ReloadTypeOK /\ ChangesScheduled /\ [Next]_vars => ChangesScheduled'
  BY ScheduledStep, FileReloadAssumption
<1> QED
  BY <1>1, <1>2, ReloadTypeCorrect, PTL DEF Spec

-----------------------------------------------------------------------------
(* Unsaved changes.                                                        *)

\* A save of some editors is a write.
LEMMA SaveWrites ==
  ASSUME FileReloadAssumption, ReloadTypeOK, NEW fs \in SUBSET Files, fs # {}, Save(fs)
  PROVE  clock' # clock
<1>1. IsFiniteSet(fs) /\ Cardinality(fs) \in Nat
  BY FS_Subset, FS_CardinalityType DEF FileReloadAssumption
<1>2. Cardinality(fs) # 0
  BY <1>1, FS_EmptySet
<1>3. clock \in Nat
  BY DEF ReloadTypeOK, Texts, FileReloadAssumption
<1> QED
  BY <1>1, <1>2, <1>3 DEF Save

\* What the user may lose in a step.
Spoken == \A f \in Files : Lost(f) => ~check.active \/ check.file = f \/ check.reloadAll

LEMMA SpokenStep ==
  ASSUME FileReloadAssumption, ReloadTypeOK, [Next]_vars
  PROVE  Spoken
<1> SUFFICES ASSUME NEW g \in Files, Lost(g), check.active
             PROVE  check.file = g \/ check.reloadAll
  BY DEF Spoken
<1>1. ~UNCHANGED buffer /\ clock' = clock
  BY DEF Lost
<1>2. ASSUME NEW f \in Files, CheckFile(f)
      PROVE  check.reloadAll
  <2>1. CASE CheckMissing(f)
    <3>1. Discard(f) /\ ~buffer[f].modified
      BY <1>1, <2>1 DEF CheckMissing, Untouched
    <3> QED
      BY <3>1 DEF Discard, Lost, ReloadTypeOK
  <2>2. CASE CheckPresent(f)
    <3>1. Reload(f) /\ ~MustAsk(f, check.reloadAll)
      BY <1>1, <2>2 DEF CheckPresent, Untouched
    <3>2. f = g
      BY <3>1 DEF Reload, Lost, ReloadTypeOK
    <3>3. buffer[f].modified
      BY <3>2 DEF Lost
    <3> QED
      BY <3>1, <3>3 DEF MustAsk, ReloadTypeOK
  <2> QED  BY <1>2, <2>1, <2>2 DEF CheckFile
<1>3. ASSUME NEW f \in Files, Answer(f)
      PROVE  check.file = g
  <2>1. check.file = f
    BY <1>3 DEF Answer, ReloadYes, ReloadNo, CloseYes, Keep, CloseAnswered
  <2>2. \A h \in Files \ {f} : buffer'[h] = buffer[h]
    BY <1>3 DEF Answer, ReloadYes, ReloadNo, CloseYes, Keep, CloseAnswered,
       Reload, Untouched, Discard, SaveAndClose, ReloadTypeOK
  <2> QED
    BY <2>1, <2>2 DEF Lost
<1>4. ~AppIdle
  BY <1>1, SaveWrites DEF AppIdle
<1>5. ~UserActs
  BY <1>1 DEF UserActs, OpenEditor, Edit, SaveEditor, CloseEditor, SaveEditorAs,
     OpenDialog, CloseDialog, Free
<1>6. ~Elsewhere /\ ~TimerFires /\ ~FocusChange /\ ~CheckEnds /\ ~UNCHANGED vars
  BY <1>1 DEF Elsewhere, TimerFires, FocusChange, CheckForReload, CheckEnds, Untouched, vars
<1>7. ASSUME NEW f \in Files, FileChanged(f)
      PROVE  FALSE
  BY <1>1, <1>7 DEF FileChanged
<1> QED
  BY <1>2, <1>3, <1>4, <1>5, <1>6, <1>7 DEF Next

\* checkForReload overwrites or closes an editor with unsaved changes only
\* after an answer for it, or one for all files in the same check.
THEOREM UnsavedKeptHolds == Spec => UnsavedKept
<1>1. ReloadTypeOK /\ [Next]_vars => [Spoken]_vars
  BY SpokenStep, FileReloadAssumption
<1>2. [][Spoken]_vars <=> UnsavedKept
  BY DEF Spoken, UnsavedKept
<1> QED
  BY <1>1, <1>2, ReloadTypeCorrect, PTL DEF Spec

-----------------------------------------------------------------------------
(* Only open editors are known, collected and asked about.                 *)

\* ChangedAreOpen is inductive with AskedWhileActive: a list of files and a
\* question belong to a running check, so that the user does not close the
\* editor under it.
OpenInvariant == ChangedAreOpen /\ AskedWhileActive

\* Removing an editor that is not asked about takes its name away with it.
LEMMA RemovedStaysOpen ==
  ASSUME ReloadTypeOK, ChangedAreOpen, NEW f \in Files, Release(f),
         buffer' = [buffer EXCEPT ![f] = Closed], check'.file = Nowhere
  PROVE  ChangedAreOpen'
<1>1. \A g \in Files : known'[g] # Unknown => buffer'[g].open
  BY DEF Release, ChangedAreOpen, ReloadTypeOK
<1>2. \A g \in changed' : buffer'[g].open
  BY DEF Release, ChangedAreOpen, ReloadTypeOK
<1> QED
  BY <1>1, <1>2 DEF ChangedAreOpen

\* A step that only opens editors, makes only open ones known and adds no name.
LEMMA GrowsOpen ==
  ASSUME ReloadTypeOK, ChangedAreOpen, changed' \subseteq changed,
         \A g \in Files : buffer[g].open => buffer'[g].open,
         \A g \in Files : known'[g] # known[g] => buffer'[g].open,
         check'.file \in {check.file, Nowhere}
  PROVE  ChangedAreOpen'
<1>1. check.file # Nowhere => check.file \in Files
  BY DEF ReloadTypeOK
<1> QED
  BY <1>1 DEF ChangedAreOpen, ReloadTypeOK

\* A reload leaves the editor open.
LEMMA ReloadOpen ==
  ASSUME ReloadTypeOK, NEW f \in Files, buffer[f].open, Reload(f)
  PROVE  /\ \A g \in Files : buffer[g].open => buffer'[g].open
         /\ \A g \in Files : known'[g] # known[g] => buffer'[g].open
<1>1. \A g \in Files \ {f} : buffer'[g] = buffer[g] /\ known'[g] = known[g]
  BY DEF Reload, ReloadTypeOK
<1>2. buffer'[f].open
  BY DEF Reload, ReloadTypeOK
<1> QED
  BY <1>1, <1>2

\* The loop goes on, or asks about the file at hand.
LEMMA CheckAt ==
  ASSUME ReloadTypeOK, NEW f \in Files, CheckFile(f)
  PROVE  /\ check'.active = check.active
         /\ check'.file \in {f, Nowhere}
<1>1. Handled(f) \/ \E about \in {"reload", "close", "save"} : Ask(f, about)
  BY DEF CheckFile, CheckMissing, CheckPresent
<1> QED
  BY <1>1 DEF Handled, Ask, ReloadTypeOK

LEMMA CheckFileOpen ==
  ASSUME FileReloadAssumption, ReloadTypeOK, OpenInvariant, NEW f \in Files, CheckFile(f)
  PROVE  ChangedAreOpen'
<1>1. CASE ~check'.file = f
  <2>1. check'.file = Nowhere
    BY <1>1, CheckAt
  <2>2. CASE Discard(f)
    BY <2>1, <2>2, RemovedStaysOpen DEF Discard, OpenInvariant
  <2>3. CASE buffer[f].open /\ Reload(f) /\ UNCHANGED changed
    BY <2>1, <2>3, ReloadOpen, GrowsOpen DEF OpenInvariant
  <2>4. CASE UNCHANGED <<known, changed, buffer>>
    BY <2>1, <2>4, GrowsOpen DEF OpenInvariant
  <2>5. ~Ask(f, "reload") /\ ~Ask(f, "close") /\ ~Ask(f, "save")
    BY <1>1 DEF Ask, ReloadTypeOK
  <2> QED
    BY <2>2, <2>3, <2>4, <2>5 DEF CheckFile, CheckMissing, CheckPresent, Untouched
<1>2. CASE check'.file = f
  <2>1. ~Handled(f)
    BY <1>2 DEF Handled, ReloadTypeOK, FileReloadAssumption
  <2>2. buffer[f].open /\ UNCHANGED <<known, changed, buffer>>
    BY <2>1 DEF CheckFile, CheckMissing, CheckPresent, Untouched
  <2> QED
    BY <1>2, <2>2 DEF OpenInvariant, ChangedAreOpen
<1> QED
  BY <1>1, <1>2

LEMMA AnswerOpen ==
  ASSUME FileReloadAssumption, ReloadTypeOK, OpenInvariant, NEW f \in Files, Answer(f)
  PROVE  ChangedAreOpen' /\ check'.active = check.active
<1>1. check.file = f /\ buffer[f].open
  BY DEF Answer, ReloadYes, ReloadNo, CloseYes, Keep, CloseAnswered, OpenInvariant,
     ChangedAreOpen, FileReloadAssumption
<1>2. ASSUME NEW all \in BOOLEAN, ReloadYes(f, all)
      PROVE  ChangedAreOpen' /\ check'.active = check.active
  <2>1. check'.file = Nowhere /\ check'.active = check.active
    BY <1>2 DEF ReloadYes, HandledAll, ReloadTypeOK
  <2>2. Reload(f) /\ UNCHANGED changed
    BY <1>2 DEF ReloadYes
  <2> QED
    BY <1>1, <2>1, <2>2, ReloadOpen, GrowsOpen DEF OpenInvariant
<1>3. ASSUME NEW all \in BOOLEAN, CloseYes(f, all)
      PROVE  ChangedAreOpen' /\ check'.active = check.active
  <2>1. CASE buffer[f].modified
    <3>1. check'.file = check.file /\ check'.active = check.active
      BY <1>3, <2>1 DEF CloseYes, ReloadTypeOK
    <3>2. UNCHANGED <<known, changed, buffer>>
      BY <1>3, <2>1 DEF CloseYes, Untouched
    <3> QED
      BY <3>1, <3>2, GrowsOpen DEF OpenInvariant
  <2>2. CASE ~buffer[f].modified
    <3>1. check'.file = Nowhere /\ check'.active = check.active
      BY <1>3, <2>2 DEF CloseYes, HandledAll, ReloadTypeOK
    <3>2. Discard(f)
      BY <1>3, <2>2 DEF CloseYes
    <3> QED
      BY <3>1, <3>2, RemovedStaysOpen DEF Discard, OpenInvariant
  <2> QED  BY <2>1, <2>2
<1>4. CASE ReloadNo(f) \/ Keep(f)
  <2>1. check'.file = Nowhere /\ check'.active = check.active
    BY <1>4 DEF ReloadNo, Keep, Handled, ReloadTypeOK
  <2>2. UNCHANGED <<known, changed, buffer>>
    BY <1>4 DEF ReloadNo, Keep, watch
  <2> QED
    BY <2>1, <2>2, GrowsOpen DEF OpenInvariant
<1>5. CASE CloseAnswered(f)
  <2>1. check'.file = Nowhere /\ check'.active = check.active
    BY <1>5 DEF CloseAnswered, Handled, ReloadTypeOK
  <2>2. Release(f) /\ buffer' = [buffer EXCEPT ![f] = Closed]
    BY <1>5 DEF CloseAnswered, SaveAndClose, Discard
  <2> QED
    BY <2>1, <2>2, RemovedStaysOpen DEF OpenInvariant
<1> QED
  BY <1>2, <1>3, <1>4, <1>5 DEF Answer

\* The user closes editors between the checks only, and idle saving closes none.
LEMMA UserOpen ==
  ASSUME FileReloadAssumption, ReloadTypeOK, OpenInvariant, ~SavesAs, UserActs \/ AppIdle
  PROVE  ChangedAreOpen' /\ UNCHANGED check
<1>1. UNCHANGED check
  BY DEF UserActs, OpenEditor, Edit, SaveEditor, CloseEditor, SaveEditorAs,
     OpenDialog, CloseDialog, AppIdle
<1>2. ASSUME NEW f \in Files, CloseEditor(f)
      PROVE  ChangedAreOpen'
  <2>1. check'.file = Nowhere
    BY <1>1, <1>2 DEF CloseEditor, Free, OpenInvariant, AskedWhileActive
  <2>2. Release(f) /\ buffer' = [buffer EXCEPT ![f] = Closed]
    BY <1>2 DEF CloseEditor, SaveAndClose, Discard
  <2> QED
    BY <2>1, <2>2, RemovedStaysOpen DEF OpenInvariant
<1>3. ASSUME NEW fs \in SUBSET Files, Save(fs)
      PROVE  ChangedAreOpen'
  <2>1. /\ \A g \in Files : buffer[g].open => buffer'[g].open
        /\ \A g \in Files : known'[g] # known[g] => buffer'[g].open
    BY <1>3 DEF Save, ReloadTypeOK
  <2>2. UNCHANGED changed
    BY <1>3 DEF Save
  <2> QED
    BY <1>1, <2>1, <2>2, GrowsOpen DEF OpenInvariant
<1>4. ASSUME NEW f \in Files, OpenEditor(f) \/ Edit(f)
      PROVE  ChangedAreOpen'
  <2>1. /\ \A g \in Files : buffer[g].open => buffer'[g].open
        /\ \A g \in Files : known'[g] # known[g] => buffer'[g].open
    <3>1. CASE OpenEditor(f)
      BY <3>1 DEF OpenEditor, ReloadTypeOK
    <3>2. CASE Edit(f)
      <4>1. \A g \in Files : buffer'[g].open = buffer[g].open
        BY <3>2 DEF Edit, ReloadTypeOK
      <4> QED
        BY <3>2, <4>1 DEF Edit, watch
    <3> QED  BY <1>4, <3>1, <3>2
  <2>2. UNCHANGED changed
    BY <1>4 DEF OpenEditor, Edit, watch
  <2> QED
    BY <1>1, <2>1, <2>2, GrowsOpen DEF OpenInvariant
<1>5. CASE OpenDialog \/ CloseDialog
  <2>1. UNCHANGED <<known, changed, buffer>>
    BY <1>5 DEF OpenDialog, CloseDialog, watch
  <2> QED
    BY <1>1, <2>1, GrowsOpen DEF OpenInvariant
<1>6. ASSUME NEW f \in Files, NEW g \in Files, SaveEditorAs(f, g)
      PROVE  FALSE
  BY <1>6 DEF SaveEditorAs
<1> QED
  BY <1>1, <1>2, <1>3, <1>4, <1>5, <1>6 DEF UserActs, SaveEditor, AppIdle

LEMMA OpenStep ==
  ASSUME FileReloadAssumption, ReloadTypeOK, OpenInvariant, ~SavesAs, [Next]_vars
  PROVE  OpenInvariant'
<1>1. CASE UserActs \/ AppIdle
  BY <1>1, UserOpen DEF OpenInvariant, AskedWhileActive
<1>2. ASSUME NEW f \in Files, Answer(f)
      PROVE  OpenInvariant'
  <2>1. check.file = f /\ check.active
    BY <1>2 DEF Answer, ReloadYes, ReloadNo, CloseYes, Keep, CloseAnswered,
       OpenInvariant, AskedWhileActive, FileReloadAssumption
  <2> QED
    BY <1>2, <2>1, AnswerOpen DEF OpenInvariant, AskedWhileActive
<1>3. ASSUME NEW f \in Files, CheckFile(f)
      PROVE  OpenInvariant'
  <2>1. check.active
    BY <1>3 DEF CheckFile, OpenInvariant, AskedWhileActive
  <2>2. check'.active
    BY <1>3, <2>1, CheckAt
  <2> QED
    BY <1>3, <2>2, CheckFileOpen, FileReloadAssumption
       DEF OpenInvariant, AskedWhileActive
<1>4. ASSUME NEW f \in Files, FileChanged(f)
      PROVE  OpenInvariant'
  BY <1>4 DEF FileChanged, OpenInvariant, ChangedAreOpen, AskedWhileActive, ReloadTypeOK
<1>5. ASSUME NEW s, CheckForReload(s)
      PROVE  OpenInvariant'
  <2>1. UNCHANGED <<known, buffer>> /\ changed' \subseteq changed
    BY <1>5 DEF CheckForReload
  <2>2. check' = check \/ (check'.file = Nowhere /\ check'.active)
    BY <1>5 DEF CheckForReload, Resting
  <2> QED
    BY <2>1, <2>2, GrowsOpen DEF OpenInvariant, AskedWhileActive
<1>6. CASE CheckEnds
  <2>1. UNCHANGED <<known, changed, buffer>> /\ check'.file = Nowhere /\ check'.queue = {}
    BY <1>6 DEF CheckEnds, Untouched, Resting
  <2> QED
    BY <2>1, GrowsOpen DEF OpenInvariant, AskedWhileActive
<1>7. CASE Elsewhere \/ UNCHANGED vars
  BY <1>7 DEF Elsewhere, vars, watch, OpenInvariant, ChangedAreOpen, AskedWhileActive
<1> QED
  BY <1>1, <1>2, <1>3, <1>4, <1>5, <1>6, <1>7 DEF Next, TimerFires, FocusChange

\* Where editors keep their names, checkForReload asks about open editors
\* only, and no name of a closed one waits among the changes.
THEOREM ChangedAreOpenHolds ==
  ASSUME ~SavesAs
  PROVE  Spec => []ChangedAreOpen
<1>1. Init => OpenInvariant
  BY FileReloadAssumption
  DEF Init, OpenInvariant, ChangedAreOpen, AskedWhileActive, Resting, Closed
<1>2. ReloadTypeOK /\ OpenInvariant /\ [Next]_vars => OpenInvariant'
  BY OpenStep, FileReloadAssumption
<1>3. OpenInvariant => ChangedAreOpen
  BY DEF OpenInvariant
<1> QED
  BY <1>1, <1>2, <1>3, ReloadTypeCorrect, PTL DEF Spec

-----------------------------------------------------------------------------
(* No change is lost.                                                      *)

LEMMA Times ==
  ASSUME FileReloadAssumption, ReloadTypeOK, NEW f \in Files
  PROVE  /\ clock \in Nat /\ disk[f].time \in Nat /\ disk[f].exists \in BOOLEAN
         /\ known[f] \in Nat \cup {Unknown} /\ Unknown \in Int /\ Unknown < 0
BY DEF FileReloadAssumption, ReloadTypeOK, Texts, Unknown

\* A step that does nothing to a file, and loses sight of nothing that has
\* been seen of it.
LEMMA OtherFollowed ==
  ASSUME FileReloadAssumption, ReloadTypeOK, NEW g \in Files, FileFollowed(g),
         clock' \in Nat, clock <= clock',
         disk'[g] = disk[g], known'[g] = known[g], answered'[g] = answered[g],
         buffer'[g].open = buffer[g].open, buffer'[g].base = buffer[g].base,
         g \in watched => g \in watched', Pending(g) => Pending(g)',
         check'.file = g /\ check'.about = "reload" =>
           /\ check.file = g /\ check.about = "reload"
           /\ notices[g] # "nothing" \/ g \in changed
                => notices'[g] # "nothing" \/ g \in changed'
  PROVE  FileFollowed(g)'
<1>1. /\ clock \in Nat /\ disk[g].time \in Nat /\ known[g] \in Nat \cup {Unknown}
      /\ Unknown \in Int
  BY Times
<1> QED
  BY <1>1 DEF FileFollowed, Followed, Differs, Stale, Seeing

\* A file that is put in place is newer than its editor knows, and seen.
LEMMA PutFollowed ==
  ASSUME FileReloadAssumption, ReloadTypeOK, NEW f \in Files, FileFollowed(f),
         Put(f, clock + 1), NEW what \in {"changed", "removed"}, Seen(f, what),
         UNCHANGED <<watched, known, changed, check, buffer, answered>>
  PROVE  FileFollowed(f)'
<1>1. /\ clock \in Nat /\ known[f] \in Nat \cup {Unknown} /\ Unknown \in Int
  BY Times
<1>2. clock' = clock + 1 /\ disk'[f] = [exists |-> TRUE, text |-> clock + 1, time |-> clock + 1]
  BY DEF Put, ReloadTypeOK
<1>3. /\ notices[f] # "nothing" => notices'[f] # "nothing"
      /\ f \in watched => notices'[f] # "nothing"
  BY DEF Seen, ReloadTypeOK
<1> QED
  BY <1>1, <1>2, <1>3 DEF FileFollowed, Followed, Differs, Stale, Seeing, Pending

LEMMA RemoveFollowed ==
  ASSUME FileReloadAssumption, ReloadTypeOK, NEW f \in Files, FileFollowed(f), Remove(f),
         UNCHANGED <<watched, known, changed, check, buffer, answered>>
  PROVE  FileFollowed(f)'
<1>1. /\ clock \in Nat /\ known[f] \in Nat \cup {Unknown} /\ Unknown \in Int
  BY Times
<1>2. clock' = clock /\ disk'[f] = Missing
  BY DEF Remove, ReloadTypeOK
<1>3. /\ notices[f] # "nothing" => notices'[f] # "nothing"
      /\ f \in watched => notices'[f] # "nothing"
  BY DEF Remove, Seen, ReloadTypeOK
<1> QED
  BY <1>1, <1>2, <1>3 DEF FileFollowed, Followed, Differs, Stale, Seeing, Pending, Missing

LEMMA ElsewhereFollowed ==
  ASSUME FileReloadAssumption, ~Backdates, ReloadTypeOK, FollowingInvariant, Elsewhere
  PROVE  \A g \in Files : FileFollowed(g)'
<1>1. PICK f \in Files : Write(f) \/ Replace(f) \/ Remove(f)
  BY DEF Elsewhere
<1>2. UNCHANGED <<watched, known, changed, check, buffer, answered>>
  BY DEF Elsewhere
<1>3. clock \in Nat
  BY DEF ReloadTypeOK, Texts, FileReloadAssumption
<1>4. \/ /\ Put(f, clock + 1)
         /\ Seen(f, "changed") \/ Seen(f, "removed")
      \/ Remove(f)
  <2>1. CASE Replace(f)
    <3>1. PICK t \in 1..(clock + 1) : (t <= clock => Backdates) /\ Put(f, t)
      BY <2>1 DEF Replace
    <3>2. t = clock + 1
      BY <1>3, <3>1
    <3> QED
      BY <2>1, <3>1, <3>2 DEF Replace
  <2> QED
    BY <1>1, <2>1 DEF Write
<1>5. FileFollowed(f)'
  BY <1>2, <1>4, PutFollowed, RemoveFollowed DEF FollowingInvariant
<1>6. ASSUME NEW g \in Files, g # f
      PROVE  FileFollowed(g)'
  <2>1. clock' \in Nat /\ clock <= clock'
    BY <1>3, <1>4 DEF Put, Remove
  <2>2. disk'[g] = disk[g] /\ notices'[g] = notices[g]
    BY <1>4, <1>6 DEF Put, Remove, Seen, ReloadTypeOK
  <2>3. Pending(g)' <=> Pending(g)
    BY <1>2, <2>2 DEF Pending
  <2> QED
    BY <1>2, <2>1, <2>2, <2>3, OtherFollowed DEF FollowingInvariant
<1> QED
  BY <1>5, <1>6

\* What the watcher reports is collected.
LEMMA FileChangedFollowed ==
  ASSUME FileReloadAssumption, ReloadTypeOK, FollowingInvariant,
         NEW f \in Files, FileChanged(f)
  PROVE  \A g \in Files : FileFollowed(g)'
<1>1. /\ UNCHANGED <<disk, clock, known, check, buffer, answered>>
      /\ changed' = IF known[f] # Unknown THEN changed \cup {f} ELSE changed
      /\ \A g \in Files \ {f} : notices'[g] = notices[g] /\ (g \in watched' <=> g \in watched)
  BY DEF FileChanged, ReloadTypeOK
<1>2. FileFollowed(f)'
  <2>1. known[f] # Unknown => f \in changed'
    BY <1>1
  <2>2. FileFollowed(f)
    BY DEF FollowingInvariant
  <2> QED
    BY <1>1, <2>1, <2>2 DEF FileFollowed, Followed, Differs, Stale, Seeing, Pending
<1>3. ASSUME NEW g \in Files, g # f
      PROVE  FileFollowed(g)'
  <2>1. clock' \in Nat /\ clock <= clock'
    BY <1>1 DEF ReloadTypeOK, Texts, FileReloadAssumption
  <2>2. Pending(g)' <=> Pending(g)
    BY <1>1, <1>3 DEF Pending
  <2> QED
    BY <1>1, <1>3, <2>1, <2>2, OtherFollowed DEF FollowingInvariant
<1> QED
  BY <1>2, <1>3

\* What is collected becomes the list of the check.
LEMMA CheckForReloadFollowed ==
  ASSUME FileReloadAssumption, ReloadTypeOK, FollowingInvariant,
         (\E s : CheckForReload(s)) \/ CheckEnds
  PROVE  \A g \in Files : FileFollowed(g)'
<1>1. UNCHANGED <<disk, clock, notices, watched, known, buffer, answered>>
  BY DEF CheckForReload, CheckEnds, Untouched
<1>2. \/ UNCHANGED <<changed, check>>
      \/ /\ check'.file = Nowhere
         /\ changed \cup check.queue \subseteq changed' \cup check'.queue
  <2>1. CASE CheckEnds
    BY <2>1 DEF CheckEnds, Untouched, Resting
  <2>2. ASSUME NEW s, CheckForReload(s)
        PROVE  \/ UNCHANGED <<changed, check>>
               \/ ~check.active /\ check'.queue = changed /\ check'.file = Nowhere
    BY <2>2 DEF CheckForReload, Resting
  <2>3. ~check.active => check.queue = {}
    BY DEF FollowingInvariant, AskedWhileActive
  <2> QED
    BY <2>1, <2>2, <2>3
<1>3. clock' \in Nat /\ clock <= clock'
  BY <1>1 DEF ReloadTypeOK, Texts, FileReloadAssumption
<1>4. ASSUME NEW g \in Files
      PROVE  FileFollowed(g)'
  <2>1. Pending(g) => Pending(g)'
    BY <1>1, <1>2 DEF Pending
  <2>2. check'.file = g => UNCHANGED <<changed, check>>
    BY <1>2 DEF FileReloadAssumption
  <2> QED
    BY <1>1, <1>3, <2>1, <2>2, OtherFollowed DEF FollowingInvariant
<1> QED
  BY <1>4

\* An editor that is closed, and not asked about.
LEMMA ClosedFollowed ==
  ASSUME NEW f \in Files, ~buffer'[f].open, check'.file # f,
         disk'[f].time <= clock', known'[f] <= clock'
  PROVE  FileFollowed(f)'
BY DEF FileFollowed, Followed

\* An editor that shows its file.
LEMMA FreshFollowed ==
  ASSUME NEW f \in Files, disk'[f].exists, disk'[f].text = buffer'[f].base,
         disk'[f].time = known'[f], known'[f] \in Nat, clock' \in Nat, known'[f] <= clock',
         f \in watched' \/ notices'[f] # "nothing" \/ f \in changed'
  PROVE  FileFollowed(f)'
<1>1. known'[f] # Unknown
  BY DEF Unknown
<1> QED
  BY <1>1 DEF FileFollowed, Followed, Differs, Stale, Seeing, Pending

\* The list of the check loses the file in turn, if any.
LEMMA ListInTurn ==
  ASSUME FileReloadAssumption, ReloadTypeOK, NEW f \in Files, NEW g \in Files, g # f,
         \/ Handled(f)
         \/ \E r, c \in BOOLEAN : HandledAll(f, r, c)
         \/ \E about \in {"reload", "close", "save"} : Ask(f, about)
  PROVE  (g \in check'.queue <=> g \in check.queue) /\ check'.file # g
<1>1. Nowhere # g /\ f # g
  BY DEF FileReloadAssumption
<1>2. CASE Handled(f)
  BY <1>1, <1>2 DEF Handled, ReloadTypeOK
<1>3. ASSUME NEW r \in BOOLEAN, NEW c \in BOOLEAN, HandledAll(f, r, c)
      PROVE  (g \in check'.queue <=> g \in check.queue) /\ check'.file # g
  BY <1>1, <1>3 DEF HandledAll, ReloadTypeOK
<1>4. ASSUME NEW about \in {"reload", "close", "save"}, Ask(f, about)
      PROVE  (g \in check'.queue <=> g \in check.queue) /\ check'.file # g
  BY <1>1, <1>4 DEF Ask, ReloadTypeOK
<1> QED
  BY <1>2, <1>3, <1>4

\* What the check and its questions do to the file in turn, they do to no other.
LEMMA InTurn ==
  ASSUME FileReloadAssumption, ReloadTypeOK, NEW f \in Files,
         CheckFile(f) \/ Answer(f), NEW g \in Files, g # f
  PROVE  /\ UNCHANGED <<disk[g], notices[g], known[g], buffer[g], answered[g]>>
         /\ g \in watched' <=> g \in watched
         /\ g \in changed' <=> g \in changed
         /\ g \in check'.queue <=> g \in check.queue
         /\ check'.file # g
<1> DEFINE Same == /\ UNCHANGED <<disk[g], notices[g], known[g], buffer[g], answered[g]>>
                   /\ g \in watched' <=> g \in watched
                   /\ g \in changed' <=> g \in changed
<1>1. ASSUME Untouched
      PROVE  Same
  BY <1>1 DEF Untouched
<1>2. ASSUME Discard(f) \/ SaveAndClose(f)
      PROVE  Same
  BY <1>2 DEF Discard, SaveAndClose, Seen, Release, ReloadTypeOK
<1>3. ASSUME Rewatched(f) \/ UNCHANGED watched,
             UNCHANGED <<disk, clock, notices, changed>>,
             UNCHANGED <<known, buffer, answered>> \/ Reload(f)
      PROVE  Same
  BY <1>3 DEF Rewatched, AddPath, Reload, ReloadTypeOK
<1>4. ASSUME ReloadNo(f) \/ Keep(f)
      PROVE  Same
  BY <1>4 DEF ReloadNo, Keep, watch, ReloadTypeOK
<1>5. Same
  BY <1>1, <1>2, <1>3, <1>4
  DEF CheckFile, CheckMissing, CheckPresent, Answer, ReloadYes, CloseYes, CloseAnswered
<1>6. CASE \E all \in BOOLEAN : CloseYes(f, all) /\ buffer[f].modified
  <2>1. check.file # g
    BY <1>6 DEF CloseYes
  <2> QED
    BY <1>5, <1>6, <2>1 DEF CloseYes, ReloadTypeOK
<1>7. CASE \/ Handled(f)
           \/ \E r, c \in BOOLEAN : HandledAll(f, r, c)
           \/ \E about \in {"reload", "close", "save"} : Ask(f, about)
  BY <1>5, <1>7, ListInTurn
<1> QED
  BY <1>6, <1>7
  DEF CheckFile, CheckMissing, CheckPresent, Answer, ReloadYes, CloseYes, ReloadNo, Keep,
      CloseAnswered

\* An editor that is closed is not asked about any more.
LEMMA RemovedFollowed ==
  ASSUME FileReloadAssumption, ReloadTypeOK, FollowingInvariant, NEW f \in Files,
         Discard(f) \/ SaveAndClose(f), check'.file # f
  PROVE  FileFollowed(f)' /\ clock' \in Nat /\ clock <= clock'
<1>1. clock \in Nat /\ disk[f].time \in Nat /\ disk[f].time <= clock
  BY Times DEF FollowingInvariant, FileFollowed
<1>2. ~buffer'[f].open /\ known'[f] = Unknown
  BY DEF Discard, SaveAndClose, Release, Closed, ReloadTypeOK
<1>3. clock' \in Nat /\ clock <= clock' /\ disk'[f].time <= clock'
  BY <1>1 DEF Discard, SaveAndClose, ReloadTypeOK
<1> QED
  BY <1>2, <1>3, ClosedFollowed DEF Unknown

LEMMA CheckFileFollowed ==
  ASSUME FileReloadAssumption, ~ReloadFails, ReloadTypeOK, FollowingInvariant,
         NEW f \in Files, CheckFile(f)
  PROVE  FileFollowed(f)' /\ clock' \in Nat /\ clock <= clock'
<1>1. /\ clock \in Nat /\ disk[f].time \in Nat /\ known[f] \in Nat \cup {Unknown}
      /\ Unknown \in Int /\ FileFollowed(f) /\ f \in check.queue
  BY Times DEF FollowingInvariant, CheckFile
<1>2. Handled(f) => check'.file = Nowhere /\ check'.file # f
  BY DEF Handled, ReloadTypeOK, FileReloadAssumption
<1>3. ASSUME NEW about \in {"reload", "close", "save"}, Ask(f, about)
      PROVE  f \in check'.queue /\ check'.about = about
  BY <1>1, <1>3 DEF Ask, ReloadTypeOK
<1>4. CASE Handled(f) /\ Untouched /\ (known[f] = Unknown \/ ~buffer[f].open)
  BY <1>1, <1>2, <1>4 DEF Untouched, FileFollowed, Followed, Differs, Stale, Seeing, Pending
<1>5. CASE (Ask(f, "close") \/ Ask(f, "save")) /\ Untouched
  BY <1>1, <1>3, <1>5 DEF Untouched, FileFollowed, Followed, Differs, Stale, Seeing, Pending
<1>6. CASE Handled(f) /\ Discard(f)
  BY <1>2, <1>6, RemovedFollowed
<1>7. CASE disk[f].exists /\ CheckPresent(f) /\ ~(known[f] = Unknown \/ ~buffer[f].open)
  <2>1. /\ f \in watched' /\ UNCHANGED <<disk, clock, notices, changed>>
        /\ known[f] # Unknown
    BY <1>7 DEF CheckPresent, Rewatched, AddPath
  <2>2. CASE disk[f].time <= known[f]
    <3>1. Handled(f) /\ UNCHANGED <<known, buffer, answered>>
      BY <1>7, <2>2 DEF CheckPresent
    <3>2. ~(Followed(f) /\ Differs(f))
      BY <1>1, <2>1, <2>2 DEF FileFollowed
    <3> QED
      BY <1>1, <1>2, <1>7, <2>1, <3>1, <3>2
      DEF FileFollowed, Followed, Differs, Stale, Seeing, Pending
  <2>3. CASE Ask(f, "reload") /\ UNCHANGED <<known, buffer, answered>>
    BY <1>1, <1>3, <1>7, <2>1, <2>3
    DEF FileFollowed, Followed, Differs, Stale, Seeing, Pending
  <2>4. CASE Handled(f) /\ Reload(f) /\ ~(disk[f].time <= known[f])
    <3>1. known'[f] = disk[f].time /\ buffer'[f].base = disk[f].text
      BY <1>1, <1>7, <2>4 DEF Reload, ReloadTypeOK
    <3> QED
      BY <1>1, <1>7, <2>1, <3>1, FreshFollowed DEF FileFollowed
  <2> QED
    BY <1>7, <2>2, <2>3, <2>4 DEF CheckPresent
<1> QED
  BY <1>4, <1>5, <1>6, <1>7 DEF CheckFile, CheckMissing, CheckPresent

LEMMA AnswerFollowed ==
  ASSUME FileReloadAssumption, ~ReloadFails, ReloadTypeOK, FollowingInvariant,
         NEW f \in Files, Answer(f)
  PROVE  FileFollowed(f)' /\ clock' \in Nat /\ clock <= clock'
<1>1. /\ clock \in Nat /\ disk[f].time \in Nat /\ known[f] \in Nat \cup {Unknown}
      /\ Unknown \in Int /\ FileFollowed(f) /\ f # Nowhere
  BY Times DEF FollowingInvariant, FileReloadAssumption
<1>2. /\ Handled(f) => check'.file # f
      /\ \A r, c \in BOOLEAN : HandledAll(f, r, c) => check'.file # f
  BY <1>1 DEF Handled, HandledAll, ReloadTypeOK
<1>3. ASSUME NEW all \in BOOLEAN, ReloadYes(f, all)
      PROVE  FileFollowed(f)' /\ clock' \in Nat /\ clock <= clock'
  <2>1. /\ UNCHANGED <<disk, clock, notices, watched, changed>> /\ Reload(f)
        /\ check'.file # f
        /\ known[f] # Unknown /\ (Seeing(f) \/ notices[f] # "nothing" \/ f \in changed)
    BY <1>1, <1>2, <1>3 DEF ReloadYes, FileFollowed
  <2>2. CASE disk[f].time = known[f]
    <3>1. UNCHANGED <<known, buffer, answered>> /\ ~(Followed(f) /\ Differs(f))
      BY <1>1, <2>1, <2>2 DEF Reload, FileFollowed
    <3> QED
      BY <1>1, <2>1, <3>1 DEF FileFollowed, Followed, Differs, Stale, Seeing, Pending
  <2>3. CASE disk[f].time # known[f] /\ disk[f].exists
    <3>1. known'[f] = disk[f].time /\ buffer'[f].base = disk[f].text
      BY <1>1, <2>1, <2>3 DEF Reload, ReloadTypeOK
    <3> QED
      BY <1>1, <2>1, <2>3, <3>1, FreshFollowed DEF FileFollowed, Seeing
  <2>4. CASE disk[f].time # known[f] /\ ~disk[f].exists
    <3>1. /\ known'[f] = disk[f].time /\ known'[f] \in Nat /\ known'[f] # Unknown
          /\ UNCHANGED <<buffer, answered>>
      BY <1>1, <2>1, <2>4 DEF Reload, ReloadTypeOK, Unknown
    <3> QED
      BY <1>1, <2>1, <2>4, <3>1
      DEF FileFollowed, Followed, Differs, Stale, Seeing, Pending
  <2> QED
    BY <2>2, <2>3, <2>4
<1>4. CASE ReloadNo(f)
  <2>1. /\ UNCHANGED <<disk, clock, notices, watched, known, changed, buffer>>
        /\ check'.file # f /\ answered'[f] = [answered[f] EXCEPT !.refused = disk[f].text]
        /\ answered'[f].refused = disk[f].text
        /\ known[f] # Unknown /\ (Seeing(f) \/ notices[f] # "nothing" \/ f \in changed)
    BY <1>1, <1>2, <1>4 DEF ReloadNo, FileFollowed, watch, ReloadTypeOK
  <2>2. answered'[f].moved = answered[f].moved /\ answered'[f].kept = answered[f].kept
    BY <2>1 DEF ReloadTypeOK
  <2> QED
    BY <1>1, <2>1, <2>2 DEF FileFollowed, Followed, Differs, Stale, Seeing, Pending
<1>5. CASE Keep(f)
  <2>1. /\ UNCHANGED <<disk, clock, notices, watched, known, changed, buffer>>
        /\ check'.file # f /\ answered'[f].kept
        /\ answered'[f].moved = answered[f].moved
    BY <1>2, <1>5 DEF Keep, watch, ReloadTypeOK
  <2> QED
    BY <1>1, <2>1 DEF FileFollowed, Followed
<1>6. CASE CloseAnswered(f)
  BY <1>2, <1>6, RemovedFollowed DEF CloseAnswered
<1>7. ASSUME NEW all \in BOOLEAN, CloseYes(f, all)
      PROVE  FileFollowed(f)' /\ clock' \in Nat /\ clock <= clock'
  <2>1. CASE buffer[f].modified
    <3>1. Untouched /\ check'.about = "save" /\ check'.queue = check.queue
      BY <1>7, <2>1 DEF CloseYes, ReloadTypeOK
    <3> QED
      BY <1>1, <3>1
      DEF Untouched, FileFollowed, Followed, Differs, Stale, Seeing, Pending
  <2>2. CASE ~buffer[f].modified
    BY <1>2, <1>7, <2>2, RemovedFollowed DEF CloseYes
  <2> QED
    BY <2>1, <2>2
<1> QED
  BY <1>3, <1>4, <1>5, <1>6, <1>7 DEF Answer

\* The check and its questions.
LEMMA TurnFollowed ==
  ASSUME FileReloadAssumption, ~ReloadFails, ReloadTypeOK, FollowingInvariant,
         NEW f \in Files, CheckFile(f) \/ Answer(f)
  PROVE  \A g \in Files : FileFollowed(g)'
<1>1. FileFollowed(f)' /\ clock' \in Nat /\ clock <= clock'
  BY CheckFileFollowed, AnswerFollowed
<1>2. ASSUME NEW g \in Files, g # f
      PROVE  FileFollowed(g)'
  <2>1. /\ UNCHANGED <<disk[g], notices[g], known[g], buffer[g], answered[g]>>
        /\ g \in watched' <=> g \in watched
        /\ g \in changed' <=> g \in changed
        /\ g \in check'.queue <=> g \in check.queue
        /\ check'.file # g
    BY <1>2, InTurn
  <2>2. Pending(g) => Pending(g)'
    BY <2>1 DEF Pending
  <2> QED
    BY <1>1, <2>1, <2>2, OtherFollowed DEF FollowingInvariant
<1> QED
  BY <1>1, <1>2

\* Files saved are new to the watcher and known to the manager.
LEMMA SaveFollowed ==
  ASSUME FileReloadAssumption, ReloadTypeOK, FollowingInvariant,
         NEW fs \in SUBSET Files, Save(fs), UNCHANGED check
  PROVE  \A g \in Files : FileFollowed(g)'
<1>1. clock \in Nat /\ Cardinality(fs) \in Nat
  BY FS_Subset, FS_CardinalityType DEF FileReloadAssumption, ReloadTypeOK, Texts
<1>2. PICK order \in [fs -> (clock + 1)..(clock + Cardinality(fs))] :
        /\ disk' = [f \in Files |-> IF f \in fs
                      THEN [exists |-> TRUE, text |-> order[f], time |-> order[f]]
                      ELSE disk[f]]
        /\ known' = [f \in Files |-> IF f \in fs THEN order[f] ELSE known[f]]
        /\ buffer' = [f \in Files |-> IF f \in fs
                        THEN [open |-> TRUE, base |-> order[f], modified |-> FALSE]
                        ELSE buffer[f]]
  BY DEF Save
<1>3. clock' = clock + Cardinality(fs) /\ clock' \in Nat /\ clock <= clock'
  BY <1>1 DEF Save
<1>4. /\ watched' = watched \cup fs /\ UNCHANGED changed
      /\ \A g \in Files : notices[g] # "nothing" => notices'[g] # "nothing"
      /\ \A g \in Files \ fs : notices'[g] = notices[g] /\ answered'[g] = answered[g]
  BY DEF Save, ReloadTypeOK
<1>5. ASSUME NEW g \in fs
      PROVE  FileFollowed(g)'
  <2>1. order[g] \in Nat /\ order[g] <= clock'
    BY <1>1, <1>2, <1>3
  <2>2. /\ disk'[g].exists /\ disk'[g].text = order[g] /\ disk'[g].time = order[g]
        /\ known'[g] = order[g] /\ buffer'[g].base = order[g]
    BY <1>2
  <2> QED
    BY <1>3, <1>4, <2>1, <2>2, FreshFollowed
<1>6. ASSUME NEW g \in Files \ fs
      PROVE  FileFollowed(g)'
  <2>1. disk'[g] = disk[g] /\ known'[g] = known[g] /\ buffer'[g] = buffer[g]
    BY <1>2, <1>6
  <2>2. Pending(g) => Pending(g)'
    BY <1>4, <1>6 DEF Pending
  <2> QED
    BY <1>3, <1>4, <1>6, <2>1, <2>2, OtherFollowed DEF FollowingInvariant
<1> QED
  BY <1>5, <1>6

\* An editor that takes another name leaves its file and is not followed to the new one.
LEMMA SaveEditorAsFollowed ==
  ASSUME FileReloadAssumption, ReloadTypeOK, FollowingInvariant,
         NEW f \in Files, NEW g \in Files, SaveEditorAs(f, g)
  PROVE  \A h \in Files : FileFollowed(h)'
<1>1. /\ clock \in Nat /\ clock' = clock + 1 /\ f # g /\ check.file = Nowhere
      /\ UNCHANGED <<watched, known, changed, check>>
  BY DEF SaveEditorAs, Free, FollowingInvariant, AskedWhileActive,
         ReloadTypeOK, FileReloadAssumption, Texts
<1>2. \A h \in Files : /\ disk[h].time \in Nat /\ known[h] \in Nat \cup {Unknown}
                       /\ disk[h].time <= clock /\ known[h] <= clock
                       /\ check'.file # h
  BY <1>1, Times DEF FollowingInvariant, FileFollowed, FileReloadAssumption
<1>3. FileFollowed(f)'
  <2>1. ~buffer'[f].open /\ disk'[f] = disk[f]
    BY <1>1 DEF SaveEditorAs, Closed, ReloadTypeOK
  <2>2. disk'[f].time <= clock' /\ known'[f] <= clock'
    BY <1>1, <1>2, <2>1 DEF Unknown
  <2> QED
    BY <1>2, <2>1, <2>2, ClosedFollowed
<1>4. FileFollowed(g)'
  <2>1. answered'[g].moved /\ disk'[g].time = clock + 1
    BY <1>1 DEF SaveEditorAs, NoAnswer, ReloadTypeOK
  <2>2. disk'[g].time <= clock' /\ known'[g] <= clock'
    BY <1>1, <1>2, <2>1 DEF Unknown
  <2> QED
    BY <1>2, <2>1, <2>2 DEF FileFollowed, Followed
<1>5. ASSUME NEW h \in Files, h # f, h # g
      PROVE  FileFollowed(h)'
  <2>1. /\ disk'[h] = disk[h] /\ buffer'[h] = buffer[h] /\ answered'[h] = answered[h]
        /\ notices'[h] = notices[h]
    BY <1>5 DEF SaveEditorAs, Seen, ReloadTypeOK
  <2>2. Pending(h) => Pending(h)'
    BY <1>1, <2>1 DEF Pending
  <2>3. clock' \in Nat /\ clock <= clock'
    BY <1>1
  <2> QED
    BY <1>1, <1>2, <2>1, <2>2, <2>3, OtherFollowed DEF FollowingInvariant
<1> QED
  BY <1>3, <1>4, <1>5

LEMMA UserFollowed ==
  ASSUME FileReloadAssumption, ReloadTypeOK, FollowingInvariant, UserActs \/ AppIdle
  PROVE  \A g \in Files : FileFollowed(g)'
<1>0. UNCHANGED check
  BY DEF UserActs, OpenEditor, Edit, SaveEditor, CloseEditor, SaveEditorAs,
     OpenDialog, CloseDialog, AppIdle
<1>1. clock \in Nat /\ UNCHANGED check
  BY <1>0 DEF ReloadTypeOK, FileReloadAssumption, Texts
<1>2. Free => \A g \in Files : check'.file # g
  BY <1>1 DEF Free, FollowingInvariant, AskedWhileActive, FileReloadAssumption
<1>3. ASSUME NEW f \in Files,
             clock' \in Nat, clock <= clock', FileFollowed(f)',
             \A g \in Files \ {f} :
               /\ UNCHANGED <<disk[g], notices[g], known[g], buffer[g], answered[g]>>
               /\ g \in watched => g \in watched'
               /\ g \in changed' <=> g \in changed
      PROVE  \A g \in Files : FileFollowed(g)'
  <2>1. ASSUME NEW g \in Files \ {f}
        PROVE  FileFollowed(g)'
    <3>1. Pending(g) => Pending(g)'
      BY <1>1, <1>3 DEF Pending
    <3> QED
      BY <1>1, <1>3, <3>1, OtherFollowed DEF FollowingInvariant
  <2> QED
    BY <1>3, <2>1
<1>4. ASSUME NEW f \in Files, OpenEditor(f)
      PROVE  \A g \in Files : FileFollowed(g)'
  <2>1. /\ UNCHANGED <<disk, clock, notices, changed, answered>> /\ disk[f].exists
        /\ watched' = watched \cup {f} /\ known'[f] = disk[f].time
        /\ buffer'[f].base = disk[f].text
        /\ \A g \in Files \ {f} : known'[g] = known[g] /\ buffer'[g] = buffer[g]
    BY <1>4 DEF OpenEditor, AddPath, ReloadTypeOK
  <2>2. disk[f].time \in Nat /\ disk[f].time <= clock
    BY Times DEF FollowingInvariant, FileFollowed
  <2>3. FileFollowed(f)'
    BY <1>1, <2>1, <2>2, FreshFollowed
  <2> QED
    BY <1>1, <1>3, <2>1, <2>3
<1>5. ASSUME NEW f \in Files, Edit(f)
      PROVE  \A g \in Files : FileFollowed(g)'
  <2>1. /\ UNCHANGED <<disk, clock, notices, watched, known, changed, answered>>
        /\ \A g \in Files : /\ buffer'[g].open = buffer[g].open
                            /\ buffer'[g].base = buffer[g].base
    BY <1>5 DEF Edit, watch, ReloadTypeOK
  <2>2. \A g \in Files : Pending(g) => Pending(g)'
    BY <1>1, <2>1 DEF Pending
  <2> QED
    BY <1>1, <2>1, <2>2, OtherFollowed DEF FollowingInvariant
<1>6. ASSUME NEW f \in Files, CloseEditor(f)
      PROVE  \A g \in Files : FileFollowed(g)'
  <2>1. (Discard(f) \/ SaveAndClose(f)) /\ check'.file # f
    BY <1>2, <1>6 DEF CloseEditor
  <2>2. \A g \in Files \ {f} :
          /\ UNCHANGED <<disk[g], notices[g], known[g], buffer[g], answered[g]>>
          /\ g \in watched => g \in watched'
          /\ g \in changed' <=> g \in changed
    BY <2>1 DEF Discard, SaveAndClose, Seen, Release, ReloadTypeOK
  <2> QED
    BY <1>3, <2>1, <2>2, RemovedFollowed
<1>7. CASE OpenDialog \/ CloseDialog
  <2>1. UNCHANGED <<disk, clock, notices, watched, known, changed, buffer, answered>>
    BY <1>7 DEF OpenDialog, CloseDialog, watch
  <2>2. \A g \in Files : Pending(g) => Pending(g)'
    BY <1>1, <2>1 DEF Pending
  <2> QED
    BY <1>1, <2>1, <2>2, OtherFollowed DEF FollowingInvariant
<1>8. ASSUME NEW f \in Files, SaveEditor(f)
      PROVE  \A g \in Files : FileFollowed(g)'
  BY <1>1, <1>8, SaveFollowed DEF SaveEditor
<1>9. CASE AppIdle
  BY <1>1, <1>9, SaveFollowed DEF AppIdle
<1> QED
  BY <1>4, <1>5, <1>6, <1>7, <1>8, <1>9, SaveEditorAsFollowed DEF UserActs

\* A list and a question belong to a running check.
LEMMA ActiveStep ==
  ASSUME FileReloadAssumption, ReloadTypeOK, AskedWhileActive, [Next]_vars
  PROVE  AskedWhileActive'
<1>1. ASSUME NEW f \in Files, Answer(f)
      PROVE  AskedWhileActive'
  <2>1. check.active
    BY <1>1 DEF Answer, ReloadYes, ReloadNo, CloseYes, Keep, CloseAnswered,
       AskedWhileActive, FileReloadAssumption
  <2>2. check'.active = check.active
    <3>1. ASSUME NEW all \in BOOLEAN, ReloadYes(f, all) \/ CloseYes(f, all)
          PROVE  check'.active = check.active
      BY <3>1 DEF ReloadYes, CloseYes, HandledAll, Untouched, ReloadTypeOK
    <3>2. CASE ReloadNo(f) \/ Keep(f) \/ CloseAnswered(f)
      BY <3>2 DEF ReloadNo, Keep, CloseAnswered, Handled, ReloadTypeOK
    <3> QED
      BY <1>1, <3>1, <3>2 DEF Answer
  <2> QED
    BY <2>1, <2>2 DEF AskedWhileActive
<1>2. ASSUME NEW f \in Files, CheckFile(f)
      PROVE  AskedWhileActive'
  <2>1. check.active
    BY <1>2 DEF CheckFile, AskedWhileActive
  <2> QED
    BY <1>2, <2>1, CheckAt DEF AskedWhileActive
<1>3. ASSUME NEW s, CheckForReload(s)
      PROVE  AskedWhileActive'
  BY <1>3 DEF CheckForReload, Resting, AskedWhileActive
<1>4. CASE CheckEnds
  BY <1>4 DEF CheckEnds, Resting, AskedWhileActive
<1>5. CASE UserActs \/ AppIdle \/ Elsewhere \/ UNCHANGED vars
  <2>1. UNCHANGED check
    BY <1>5 DEF UserActs, OpenEditor, Edit, SaveEditor, CloseEditor, SaveEditorAs,
       OpenDialog, CloseDialog, AppIdle, Elsewhere, vars
  <2> QED
    BY <2>1 DEF AskedWhileActive
<1>6. ASSUME NEW f \in Files, FileChanged(f)
      PROVE  AskedWhileActive'
  BY <1>6 DEF FileChanged, AskedWhileActive
<1> QED
  BY <1>1, <1>2, <1>3, <1>4, <1>5, <1>6 DEF Next, TimerFires, FocusChange

LEMMA FollowingStep ==
  ASSUME FileReloadAssumption, ~Backdates, ~ReloadFails,
         ReloadTypeOK, FollowingInvariant, [Next]_vars
  PROVE  FollowingInvariant'
<1>1. AskedWhileActive'
  BY ActiveStep DEF FollowingInvariant
<1>2. CASE UNCHANGED vars
  <2>1. UNCHANGED <<disk, clock, notices, watched, known, changed, check, buffer, answered>>
    BY <1>2 DEF vars, watch
  <2>2. \A g \in Files : FileFollowed(g)'
    BY <2>1 DEF FollowingInvariant, FileFollowed, Followed, Differs, Stale, Seeing, Pending
  <2> QED
    BY <1>1, <2>2 DEF FollowingInvariant
<1>3. CASE Next
  <2>1. \A g \in Files : FileFollowed(g)'
    BY <1>3, ElsewhereFollowed, UserFollowed, FileChangedFollowed, CheckForReloadFollowed,
       TurnFollowed DEF Next, TimerFires, FocusChange
  <2> QED
    BY <1>1, <2>1 DEF FollowingInvariant
<1> QED
  BY <1>2, <1>3

\* No change is lost where no file goes back in time and every file can be
\* read: an editor that is behind its file is about to be looked at, unless the
\* user has refused that text, kept the editor of a deleted file, or moved the
\* editor to the file by Save As.
THEOREM StaleIsPendingHolds ==
  ASSUME ~Backdates, ~ReloadFails
  PROVE  Spec => []StaleIsPending
<1>1. Init => FollowingInvariant
  <2> SUFFICES ASSUME Init
               PROVE  FollowingInvariant
    OBVIOUS
  <2>1. \A f \in Files : /\ disk[f].time = 1 /\ known[f] = Unknown /\ ~buffer[f].open
                         /\ check.file # f
    BY FileReloadAssumption DEF Init, Resting, Closed, FileReloadAssumption
  <2>2. clock = 1 /\ Unknown <= 1
    BY DEF Init, Unknown
  <2> QED
    BY <2>1, <2>2
    DEF FollowingInvariant, FileFollowed, Followed, AskedWhileActive, Init, Resting
<1>2. ReloadTypeOK /\ FollowingInvariant /\ [Next]_vars => FollowingInvariant'
  BY FollowingStep, FileReloadAssumption
<1>3. FollowingInvariant => StaleIsPending
  BY DEF FollowingInvariant, FileFollowed, StaleIsPending, Stale
<1> QED
  BY <1>1, <1>2, <1>3, ReloadTypeCorrect, PTL DEF Spec
=============================================================================
