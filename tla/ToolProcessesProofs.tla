-------------------------- MODULE ToolProcessesProofs --------------------------
(***************************************************************************)
(* Proofs about the two components that run the Go tools in processes:     *)
(* about BuildTasks, for every configuration of actions that               *)
(* BuildAssumption allows and any number of executions, and about GoTools, *)
(* for any files and texts that GoToolsAssumption allows.                  *)
(***************************************************************************)
EXTENDS BuildTasks, GoTools, SequenceTheorems, TLAPS

ItemType == [exec : Nat, pos : Nat, act : Actions \cup Commands]
ProcType == [state : {"NotRunning", "Starting", "Running"}, suppress : BOOLEAN,
             dying : BOOLEAN, reports : Nat, item : ItemType]

-----------------------------------------------------------------------------
(* The items of an execution.                                              *)

LEMMA StepsType ==
  ASSUME BuildAssumption, NEW a \in Actions \cup Commands
  PROVE  Steps(a) \in Seq(Actions \cup Commands) /\ Len(Steps(a)) \in Nat \ {0}
<1>1. CASE a \in Commands
  BY <1>1 DEF Steps
<1>2. CASE a \notin Commands /\ Tasks[a] = <<>>
  BY <1>2 DEF Steps
<1>3. CASE a \notin Commands /\ Tasks[a] # <<>>
  <2>1. Steps(a) = Tasks[a] /\ Tasks[a] \in Seq(Actions)
    BY <1>3 DEF Steps, BuildAssumption
  <2> QED
    BY <1>3, <2>1
<1> QED
  BY <1>1, <1>2, <1>3

\* Every task but the last of an execution runs in the process.
LEMMA OnlyLastProcessless ==
  ASSUME BuildAssumption, NEW a \in Actions \cup Commands,
         NEW i \in 1..Len(Steps(a)), i < Len(Steps(a))
  PROVE  Steps(a)[i] \notin Processless
<1>1. a \notin Commands /\ Tasks[a] # <<>>
  BY DEF Steps
<1>2. Steps(a) = Tasks[a]
  BY <1>1 DEF Steps
<1> QED
  BY <1>1, <1>2 DEF BuildAssumption

LEMMA ItemTyped ==
  ASSUME BuildAssumption, NEW a \in Actions \cup Commands, NEW n \in Nat,
         NEW i \in 1..Len(Steps(a))
  PROVE  Item(n, a, i) \in ItemType
BY StepsType DEF Item, ItemType

\* The rest of an execution is a sequence of items.
LEMMA RestTyped ==
  ASSUME BuildAssumption, NEW a \in Actions \cup Commands, NEW n \in Nat,
         NEW i \in Nat, i <= Len(Steps(a))
  PROVE  /\ Rest(n, a, i) \in Seq(ItemType)
         /\ Len(Rest(n, a, i)) = Len(Steps(a)) - i
         /\ \A j \in 1..Len(Rest(n, a, i)) : Rest(n, a, i)[j] = Item(n, a, i + j)
<1> DEFINE len == Len(Steps(a)) - i
           r == Rest(n, a, i)
<1>1. Len(Steps(a)) \in Nat \ {0} /\ len \in Nat
  BY StepsType
<1>2. r = [j \in 1..len |-> Item(n, a, i + j)]
  BY DEF Rest
<1>3. \A j \in 1..len : Item(n, a, i + j) \in ItemType
  <2> TAKE j \in 1..len
  <2>1. i + j \in 1..Len(Steps(a))
    BY <1>1
  <2> QED
    BY <2>1, ItemTyped
<1>4. r \in Seq(ItemType) /\ Len(r) = len
  BY <1>1, <1>2, <1>3
<1> QED
  BY <1>2, <1>4

LEMMA RestEmpty ==
  ASSUME BuildAssumption, NEW a \in Actions \cup Commands, NEW n \in Nat,
         NEW i \in Nat, i <= Len(Steps(a))
  PROVE  Rest(n, a, i) = <<>> <=> i = Len(Steps(a))
<1>1. Len(Steps(a)) \in Nat \ {0}
  BY StepsType
<1> QED
  BY <1>1, RestTyped

\* What is left behind the first task, of which only the last may be without a
\* process.
LEMMA RestOfFirst ==
  ASSUME BuildAssumption, NEW a \in Actions \cup Commands, NEW n \in Nat
  PROVE  /\ Rest(n, a, 1) \in Seq(ItemType) /\ Len(Rest(n, a, 1)) = Len(Steps(a)) - 1
         /\ \A j \in 1..Len(Rest(n, a, 1)) :
              /\ Rest(n, a, 1)[j].exec = n
              /\ j < Len(Rest(n, a, 1)) => Rest(n, a, 1)[j].act \notin Processless
         /\ Rest(n, a, 1) = <<>> <=> Len(Steps(a)) = 1
<1> DEFINE k == 1
           rest == Rest(n, a, k)
<1>1. Len(Steps(a)) \in Nat \ {0}
  BY StepsType
<1>2. k \in Nat /\ k <= Len(Steps(a))
  BY <1>1
<1> HIDE DEF k
<1>3. /\ Rest(n, a, k) \in Seq(ItemType) /\ Len(Rest(n, a, k)) = Len(Steps(a)) - k
      /\ \A j \in 1..Len(Rest(n, a, k)) : Rest(n, a, k)[j] = Item(n, a, k + j)
  BY <1>2, RestTyped
<1>4. rest = <<>> <=> k = Len(Steps(a))
  BY <1>2, RestEmpty
<1>5. ASSUME NEW j \in 1..Len(rest)
      PROVE  rest[j].exec = n /\ (j < Len(rest) => rest[j].act \notin Processless)
  <2> DEFINE m == k + j
  <2>1. m \in 1..Len(Steps(a)) /\ (j < Len(rest) => m < Len(Steps(a)))
    BY <1>1, <1>2, <1>3
  <2>2. rest[j].exec = n /\ rest[j].act = Steps(a)[m]
    BY <1>3 DEF Item
  <2> HIDE DEF m
  <2>3. m < Len(Steps(a)) => Steps(a)[m] \notin Processless
    BY <2>1, OnlyLastProcessless
  <2> QED
    BY <2>1, <2>2, <2>3
<1> QED
  BY <1>3, <1>4, <1>5 DEF k

\* Its head is the next item, its tail the rest behind that.
LEMMA RestHeadTail ==
  ASSUME BuildAssumption, NEW a \in Actions \cup Commands, NEW n \in Nat,
         NEW i \in Nat, i <= Len(Steps(a)), Rest(n, a, i) # <<>>
  PROVE  /\ i + 1 <= Len(Steps(a))
         /\ Head(Rest(n, a, i)) = Item(n, a, i + 1)
         /\ Tail(Rest(n, a, i)) = Rest(n, a, i + 1)
<1> DEFINE r == Rest(n, a, i)
           t == Rest(n, a, i + 1)
<1>1. Len(Steps(a)) \in Nat /\ i + 1 \in Nat
  BY StepsType
<1>2. /\ r \in Seq(ItemType) /\ Len(r) = Len(Steps(a)) - i
      /\ \A j \in 1..Len(r) : r[j] = Item(n, a, i + j)
  BY RestTyped
<1>3. i + 1 <= Len(Steps(a))
  BY <1>1, RestEmpty
<1>4. /\ t \in Seq(ItemType) /\ Len(t) = Len(Steps(a)) - (i + 1)
      /\ \A j \in 1..Len(t) : t[j] = Item(n, a, (i + 1) + j)
  <2> DEFINE k == i + 1
  <2>1. k \in Nat /\ k <= Len(Steps(a))
    BY <1>1, <1>3
  <2> HIDE DEF k
  <2>2. /\ Rest(n, a, k) \in Seq(ItemType) /\ Len(Rest(n, a, k)) = Len(Steps(a)) - k
        /\ \A j \in 1..Len(Rest(n, a, k)) : Rest(n, a, k)[j] = Item(n, a, k + j)
    BY <2>1, RestTyped
  <2> QED
    BY <2>2 DEF k
<1> HIDE DEF r, t
<1>5. Head(r) = Item(n, a, i + 1)
  BY <1>1, <1>2, <1>3
<1>6. r # <<>>
  BY DEF r
<1>7. /\ Tail(r) \in Seq(ItemType) /\ Len(Tail(r)) = Len(r) - 1
      /\ \A j \in 1..Len(Tail(r)) : Tail(r)[j] = r[j + 1]
  BY <1>2, <1>6, HeadTailProperties
<1>8. Len(Tail(r)) = Len(t)
  BY <1>1, <1>2, <1>4, <1>7
<1>9. \A j \in 1..Len(Tail(r)) : Tail(r)[j] = t[j]
  <2> TAKE j \in 1..Len(Tail(r))
  <2>1. j + 1 \in 1..Len(r) /\ j \in 1..Len(t)
    BY <1>2, <1>7, <1>8
  <2>2. Tail(r)[j] = Item(n, a, i + (j + 1)) /\ t[j] = Item(n, a, (i + 1) + j)
    BY <1>2, <1>4, <1>7, <2>1
  <2>3. i + (j + 1) = (i + 1) + j
    BY <2>1
  <2> QED
    BY <2>2, <2>3
<1>10. Tail(r) = t
  BY <1>4, <1>7, <1>8, <1>9, SeqEqual
<1> QED
  BY <1>3, <1>5, <1>10 DEF r, t
-----------------------------------------------------------------------------
(* The invariant, in named parts.                                          *)

\* Suppression lasts from a crash to finished, and is over at the next start.
ProcFacts ==
  /\ proc.dying => proc.state = "Running" /\ proc.suppress
  /\ proc.suppress => proc.state # "Starting" /\ (proc.state = "Running" => proc.dying)

\* The last wait of execBuildAction ends with a process only if that process
\* is a task of the chain being killed, which succeeded.
HandlerFacts ==
  /\ wait = "none" <=> handler = NoRequest
  /\ proc.dying => wait \notin {"resume", "begin"}
  /\ wait \in {"rest", "begin"} => handler \in Actions
  /\ wait = "begin" /\ ~Stopped => raced

ExecFacts ==
  /\ failed \subseteq 1..Len(asked)
  /\ ~Stopped => proc.item.exec \in 1..Len(asked)
  /\ \A i \in 1..Len(tasks) : tasks[i].exec \in 1..Len(asked)

\* Of the listed tasks only the last may start no process.
ListFacts ==
  /\ \A i \in 1..Len(tasks) : i < Len(tasks) => tasks[i].act \notin Processless
  /\ Stopped \/ proc.dying => tasks = <<>>

InOrder ==
  ~raced /\ ~Stopped /\ ~proc.dying =>
    /\ proc.item.pos <= Len(Steps(asked[proc.item.exec]))
    /\ tasks = Rest(proc.item.exec, asked[proc.item.exec], proc.item.pos)

DataTypeOK ==
  /\ proc \in ProcType /\ tasks \in Seq(ItemType)
  /\ asked \in Seq(Actions \cup Commands)
  /\ failed \subseteq Nat /\ raced \in BOOLEAN

FlowTypeOK ==
  /\ handler \in Actions \cup Commands \cup {Stop, NoRequest}
  /\ wait \in {"none", "interrupt", "terminate", "resume", "rest", "begin"}

DataInvariant ==
  /\ DataTypeOK /\ ProcFacts /\ ExecFacts /\ ListFacts
  /\ FinishOnce /\ FailedStaysDead /\ InOrder

BuildInvariant == DataInvariant /\ FlowTypeOK /\ HandlerFacts

LEMMA InitInvariant ==
  ASSUME BuildAssumption, Init
  PROVE  BuildInvariant
<1>1. DataTypeOK /\ FlowTypeOK
  <2>1. proc \in ProcType
    BY DEF Init, ProcType, ItemType, Commands
  <2>2. tasks \in Seq(ItemType) /\ asked \in Seq(Actions \cup Commands)
    BY DEF Init
  <2> QED
    BY <2>1, <2>2 DEF Init, DataTypeOK, FlowTypeOK
<1>2. ProcFacts /\ HandlerFacts /\ FinishOnce
  BY DEF BuildAssumption, Init, ProcFacts, HandlerFacts, FinishOnce, Stopped
<1>3. ExecFacts /\ ListFacts /\ FailedStaysDead /\ InOrder
  BY DEF Init, ExecFacts, ListFacts, FailedStaysDead, InOrder, Stopped
<1> QED
  BY <1>1, <1>2, <1>3 DEF BuildInvariant, DataInvariant

-----------------------------------------------------------------------------
(* Starting.                                                               *)

LEMMA LaunchFacts ==
  ASSUME NEW p \in ProcType, NEW item \in ItemType
  PROVE  /\ Launch(p, item) \in ProcType
         /\ Launch(p, item).state = "Starting" /\ ~Launch(p, item).suppress
         /\ Launch(p, item).dying = p.dying
         /\ Launch(p, item).item = item /\ Launch(p, item).reports = 0
BY DEF Launch, ProcType

LEMMA AskedAppend ==
  ASSUME DataTypeOK, NEW a \in Actions \cup Commands, asked' = Append(asked, a)
  PROVE  /\ asked' \in Seq(Actions \cup Commands)
         /\ Len(asked) \in Nat /\ Len(asked') = Len(asked) + 1
         /\ asked'[Len(asked) + 1] = a
         /\ \A n \in 1..Len(asked) : asked'[n] = asked[n]
BY DEF DataTypeOK

\* execBuildAction starts its action.  If something runs then, a task of the
\* chain it was to kill has succeeded.
LEMMA BeginActionStep ==
  ASSUME BuildAssumption, DataInvariant, ~proc.dying, ~Stopped => raced,
         NEW a \in Actions, BeginAction(a)
  PROVE  DataInvariant'
<1> DEFINE n == Len(asked) + 1
           item == Item(n, a, 1)
           rest == Rest(n, a, 1)
<1>1. /\ asked' = Append(asked, a) /\ UNCHANGED <<failed, raced>>
      /\ tasks' = IF Tasks[a] = <<>> THEN tasks ELSE rest
      /\ proc' = ExecAction(proc, item)
  BY DEF BeginAction
<1>2. /\ asked' \in Seq(Actions \cup Commands) /\ n \in Nat /\ Len(asked') = n
      /\ asked'[n] = a /\ \A k \in 1..Len(asked) : asked'[k] = asked[k]
  BY <1>1, AskedAppend DEF DataInvariant
<1>3. Len(Steps(a)) \in Nat \ {0} /\ (Tasks[a] = <<>> => Len(Steps(a)) = 1)
  BY StepsType DEF Steps, BuildAssumption
<1>4. item \in ItemType /\ item.exec = n /\ item.pos = 1 /\ item.act = Steps(a)[1]
  BY <1>2, <1>3, ItemTyped DEF Item
<1>5. /\ rest \in Seq(ItemType) /\ Len(rest) = Len(Steps(a)) - 1
      /\ rest = <<>> <=> Len(Steps(a)) = 1
  BY <1>2, RestOfFirst
<1>6. \A j \in 1..Len(rest) : rest[j].exec = n
                              /\ (j < Len(rest) => rest[j].act \notin Processless)
  BY <1>2, RestOfFirst
<1>7. item.act \in Processless => rest = <<>>
  <2>1. 1 < Len(Steps(a)) => Steps(a)[1] \notin Processless
    BY <1>3, OnlyLastProcessless
  <2> QED
    BY <1>3, <1>4, <1>5, <2>1
<1>8. failed \subseteq 1..Len(asked) /\ n \notin failed
  BY <1>2 DEF DataInvariant, ExecFacts
<1> HIDE DEF n, item, rest
<1>9. CASE Stopped /\ item.act \notin Processless
  <2>1. proc' = Launch(proc, item)
    BY <1>1, <1>9 DEF ExecAction, Stopped
  <2>2. /\ proc' \in ProcType /\ proc'.state = "Starting" /\ ~proc'.suppress /\ ~proc'.dying
        /\ proc'.item = item /\ proc'.reports = 0
    BY <2>1, <1>4, LaunchFacts DEF DataInvariant, DataTypeOK
  <2>3. tasks' = rest
    BY <1>1, <1>3, <1>5, <1>9 DEF DataInvariant, ListFacts
  <2>4. DataTypeOK'
    BY <1>1, <1>2, <1>5, <2>2, <2>3 DEF DataInvariant, DataTypeOK
  <2>5. ProcFacts' /\ FinishOnce'
    BY <2>2 DEF ProcFacts, FinishOnce, Stopped
  <2>6. ExecFacts'
    BY <1>1, <1>2, <1>4, <1>6, <1>8, <2>2, <2>3 DEF ExecFacts, DataInvariant, n
  <2>7. ListFacts'
    BY <1>6, <2>2, <2>3 DEF ListFacts, Stopped
  <2>8. FailedStaysDead'
    BY <1>1, <1>4, <1>6, <1>8, <2>2, <2>3 DEF FailedStaysDead
  <2>9. InOrder'
    BY <1>2, <1>3, <1>4, <2>2, <2>3 DEF InOrder, rest
  <2> QED
    BY <2>4, <2>5, <2>6, <2>7, <2>8, <2>9 DEF DataInvariant
<1>10. CASE ~(Stopped /\ item.act \notin Processless)
  <2>1. proc' = proc
    BY <1>1, <1>10 DEF ExecAction, Stopped
  <2>2. DataTypeOK'
    BY <1>1, <1>2, <1>5, <2>1 DEF DataInvariant, DataTypeOK
  <2>3. ProcFacts' /\ FinishOnce'
    BY <2>1 DEF DataInvariant, ProcFacts, FinishOnce, Stopped
  <2>4. ExecFacts'
    <3>1. Len(asked) \in Nat /\ n = Len(asked) + 1 /\ Len(asked') = n
      BY <1>2 DEF DataInvariant, DataTypeOK, n
    <3>2. \A i \in 1..Len(tasks') : tasks'[i].exec \in 1..n
      <4>1. CASE tasks' = tasks
        BY <3>1, <4>1 DEF ExecFacts, DataInvariant
      <4>2. CASE tasks' = rest
        BY <1>6, <3>1, <4>2
      <4> QED
        BY <1>1, <4>1, <4>2
    <3>3. failed' \subseteq 1..n
      BY <1>1, <1>8, <3>1
    <3>4. ~Stopped' => proc'.item.exec \in 1..n
      BY <2>1, <3>1 DEF ExecFacts, DataInvariant, Stopped
    <3> QED
      BY <3>1, <3>2, <3>3, <3>4 DEF ExecFacts
  <2>5. ListFacts'
    <3>1. Stopped => tasks' = <<>>
      BY <1>1, <1>7, <1>10 DEF DataInvariant, ListFacts
    <3>2. \A i \in 1..Len(tasks') : i < Len(tasks') => tasks'[i].act \notin Processless
      BY <1>1, <1>6 DEF DataInvariant, ListFacts
    <3> QED
      BY <2>1, <3>1, <3>2 DEF ListFacts, Stopped
  <2>6. FailedStaysDead'
    BY <1>1, <1>6, <1>8, <2>1 DEF DataInvariant, FailedStaysDead, Stopped
  <2>7. InOrder'
    BY <1>1, <2>1 DEF InOrder, Stopped
  <2> QED
    BY <2>2, <2>3, <2>4, <2>5, <2>6, <2>7 DEF DataInvariant
<1> QED
  BY <1>9, <1>10

LEMMA BeginCommandStep ==
  ASSUME BuildAssumption, DataInvariant, ~proc.dying,
         NEW c \in Commands, BeginCommand(c)
  PROVE  DataInvariant'
<1> DEFINE n == Len(asked) + 1
           item == Item(n, c, 1)
<1>1. /\ asked' = Append(asked, c) /\ UNCHANGED <<tasks, failed, raced>>
      /\ proc' = Launch(proc, item) /\ Stopped
  BY DEF BeginCommand
<1>2. /\ asked' \in Seq(Actions \cup Commands) /\ n \in Nat /\ Len(asked') = n
      /\ asked'[n] = c
  BY <1>1, AskedAppend DEF DataInvariant
<1>3. Len(Steps(c)) = 1
  BY DEF Steps
<1>4. item \in ItemType /\ item.exec = n /\ item.pos = 1
  BY <1>2, <1>3, ItemTyped DEF Item
<1>5. tasks' = <<>> /\ Rest(n, c, 1) = <<>>
  <2> HIDE DEF n
  <2>1. n \in Nat /\ 1 <= Len(Steps(c))
    BY <1>2, <1>3
  <2>2. Rest(n, c, 1) = <<>>
    BY <1>3, <2>1, RestEmpty
  <2> QED
    BY <1>1, <2>2 DEF DataInvariant, ListFacts
<1>6. failed \subseteq 1..Len(asked) /\ n \notin failed
  BY <1>2 DEF DataInvariant, ExecFacts
<1> HIDE DEF item
<1>7. /\ proc' \in ProcType /\ proc'.state = "Starting" /\ ~proc'.suppress /\ ~proc'.dying
      /\ proc'.item = item /\ proc'.reports = 0
  BY <1>1, <1>4, LaunchFacts DEF DataInvariant, DataTypeOK
<1>8. DataTypeOK'
  BY <1>1, <1>2, <1>7 DEF DataInvariant, DataTypeOK
<1>9. ProcFacts' /\ FinishOnce'
  BY <1>7 DEF ProcFacts, FinishOnce, Stopped
<1>10. ExecFacts' /\ ListFacts' /\ FailedStaysDead'
  BY <1>1, <1>2, <1>4, <1>5, <1>6, <1>7 DEF ExecFacts, ListFacts, FailedStaysDead, Stopped
<1>11. InOrder'
  <2>1. /\ proc'.item.exec = n /\ proc'.item.pos = 1 /\ asked'[n] = c
        /\ tasks' = Rest(n, c, 1)
    BY <1>2, <1>4, <1>5, <1>7
  <2> HIDE DEF n
  <2>2. proc'.item.pos <= Len(Steps(asked'[proc'.item.exec]))
    <3>1. asked'[proc'.item.exec] = c
      BY <2>1
    <3>2. 1 <= Len(Steps(c))
      BY <1>3
    <3> QED
      BY <2>1, <3>1, <3>2, Zenon
  <2>3. tasks' = Rest(proc'.item.exec, asked'[proc'.item.exec], proc'.item.pos)
    BY <2>1
  <2> QED
    BY <2>2, <2>3 DEF InOrder
<1> QED
  BY <1>8, <1>9, <1>10, <1>11 DEF DataInvariant

-----------------------------------------------------------------------------
(* Reports.                                                                *)

LEMMA TailFacts ==
  ASSUME DataTypeOK, tasks # <<>>
  PROVE  /\ Len(tasks) \in Nat \ {0} /\ Head(tasks) = tasks[1] /\ Head(tasks) \in ItemType
         /\ Tail(tasks) \in Seq(ItemType) /\ Len(Tail(tasks)) = Len(tasks) - 1
         /\ \A i \in 1..Len(Tail(tasks)) : Tail(tasks)[i] = tasks[i + 1]
         /\ Len(tasks) = 1 => Tail(tasks) = <<>>
<1>1. tasks \in Seq(ItemType)
  BY DEF DataTypeOK
<1>2. /\ Head(tasks) \in ItemType
      /\ Tail(tasks) \in Seq(ItemType) /\ Len(Tail(tasks)) = Len(tasks) - 1
      /\ \A i \in 1..Len(Tail(tasks)) : Tail(tasks)[i] = tasks[i + 1]
  BY <1>1, HeadTailProperties
<1>3. Len(tasks) \in Nat \ {0} /\ Head(tasks) = tasks[1]
  BY <1>1
<1>4. Len(tasks) = 1 => Tail(tasks) = <<>>
  <2> DEFINE t == Tail(tasks)
  <2>1. t \in Seq(ItemType) /\ (Len(tasks) = 1 => Len(t) = 0)
    BY <1>2, <1>3
  <2> HIDE DEF t
  <2>2. Len(t) = 0 => t = <<>>
    BY <2>1
  <2> QED
    BY <2>1, <2>2 DEF t
<1> QED
  BY <1>2, <1>3, <1>4

\* The list, when the next task is taken from it.
LEMMA TakeFacts ==
  ASSUME DataInvariant, tasks # <<>>
  PROVE  /\ Head(tasks) = tasks[1] /\ tasks[1] \in ItemType
         /\ tasks[1].exec \in 1..Len(asked) /\ tasks[1].exec \notin failed
         /\ tasks[1].act \in Processless => Tail(tasks) = <<>>
         /\ Tail(tasks) \in Seq(ItemType)
         /\ \A i \in 1..Len(Tail(tasks)) :
              /\ Tail(tasks)[i].exec \in 1..Len(asked) /\ Tail(tasks)[i].exec \notin failed
              /\ i < Len(Tail(tasks)) => Tail(tasks)[i].act \notin Processless
<1>1. /\ Len(tasks) \in Nat \ {0} /\ Head(tasks) = tasks[1] /\ Head(tasks) \in ItemType
      /\ Tail(tasks) \in Seq(ItemType) /\ Len(Tail(tasks)) = Len(tasks) - 1
      /\ \A i \in 1..Len(Tail(tasks)) : Tail(tasks)[i] = tasks[i + 1]
      /\ Len(tasks) = 1 => Tail(tasks) = <<>>
  BY TailFacts DEF DataInvariant
<1>2. \A i \in 1..Len(tasks) :
        /\ tasks[i].exec \in 1..Len(asked) /\ tasks[i].exec \notin failed
        /\ i < Len(tasks) => tasks[i].act \notin Processless
  BY DEF DataInvariant, ExecFacts, FailedStaysDead, ListFacts
<1>3. 1 \in 1..Len(tasks)
  BY <1>1
<1>4. \A i \in 1..Len(Tail(tasks)) :
        i + 1 \in 1..Len(tasks) /\ (i < Len(Tail(tasks)) => i + 1 < Len(tasks))
  BY <1>1
<1> QED
  BY <1>1, <1>2, <1>3, <1>4

\* The process finishes and extFinish has no error to report: the next task of
\* the list is taken, if there is one.
LEMMA SuccessStep ==
  ASSUME BuildAssumption, DataInvariant, UNCHANGED asked,
         proc.state = "Running", ~proc.suppress,
         NEW q \in ProcType,
         q.state = "NotRunning", ~q.dying, q.reports = 1, ~q.suppress, q.item = proc.item,
         UNCHANGED failed, raced' \in BOOLEAN, ~raced' => ~raced,
         \/ tasks = <<>> /\ proc' = q /\ UNCHANGED tasks
         \/ tasks # <<>> /\ proc' = ExecAction(q, Head(tasks)) /\ tasks' = Tail(tasks)
  PROVE  DataInvariant' /\ (~Stopped' => ~proc'.dying)
<1>1. /\ q.state = "NotRunning" /\ ~q.dying /\ q.reports = 1 /\ ~q.suppress
      /\ q.item = proc.item
  OBVIOUS
<1>2. ~proc.dying
  BY DEF DataInvariant, ProcFacts
<1>3. CASE tasks = <<>>
  <2>1. proc' = q /\ tasks' = <<>>
    BY <1>3
  <2>2. DataTypeOK'
    BY <2>1 DEF DataInvariant, DataTypeOK
  <2>3. ProcFacts' /\ FinishOnce' /\ ListFacts' /\ InOrder' /\ FailedStaysDead' /\ ExecFacts'
    BY <1>1, <2>1
    DEF DataInvariant, ProcFacts, FinishOnce, ListFacts, InOrder, FailedStaysDead, ExecFacts,
        Stopped
  <2> QED
    BY <1>1, <2>1, <2>2, <2>3 DEF DataInvariant
<1>4. CASE tasks # <<>> /\ Head(tasks).act \in Processless
  <2>1. Tail(tasks) = <<>>
    BY <1>4, TakeFacts
  <2>2. proc' = q /\ tasks' = <<>>
    BY <1>4, <2>1 DEF ExecAction
  <2>3. DataTypeOK'
    BY <2>2 DEF DataInvariant, DataTypeOK
  <2>4. ProcFacts' /\ FinishOnce' /\ ListFacts' /\ InOrder' /\ FailedStaysDead' /\ ExecFacts'
    BY <1>1, <2>2
    DEF DataInvariant, ProcFacts, FinishOnce, ListFacts, InOrder, FailedStaysDead, ExecFacts,
        Stopped
  <2> QED
    BY <1>1, <2>2, <2>3, <2>4 DEF DataInvariant
<1>5. CASE tasks # <<>> /\ Head(tasks).act \notin Processless
  <2>1. proc' = Launch(q, Head(tasks)) /\ tasks' = Tail(tasks)
    BY <1>1, <1>5 DEF ExecAction
  <2>2. /\ Head(tasks) = tasks[1] /\ Head(tasks) \in ItemType
        /\ tasks[1].exec \in 1..Len(asked) /\ tasks[1].exec \notin failed
        /\ tasks' \in Seq(ItemType)
        /\ \A i \in 1..Len(tasks') :
             /\ tasks'[i].exec \in 1..Len(asked) /\ tasks'[i].exec \notin failed
             /\ i < Len(tasks') => tasks'[i].act \notin Processless
    BY <1>5, <2>1, TakeFacts
  <2>3. /\ proc' \in ProcType /\ proc'.state = "Starting" /\ ~proc'.suppress /\ ~proc'.dying
        /\ proc'.item = tasks[1] /\ proc'.reports = 0
    <3> DEFINE item == Head(tasks)
    <3>1. item \in ItemType /\ item = tasks[1]
      BY <2>2
    <3> HIDE DEF item
    <3>2. /\ Launch(q, item) \in ProcType
          /\ Launch(q, item).state = "Starting" /\ ~Launch(q, item).suppress
          /\ Launch(q, item).dying = q.dying
          /\ Launch(q, item).item = item /\ Launch(q, item).reports = 0
      BY <3>1, LaunchFacts
    <3> QED
      BY <1>1, <2>1, <3>1, <3>2 DEF item
  <2>4. DataTypeOK'
    BY <2>2, <2>3 DEF DataInvariant, DataTypeOK
  <2>5. ProcFacts' /\ FinishOnce'
    BY <2>3 DEF ProcFacts, FinishOnce, Stopped
  <2>6. ExecFacts' /\ ListFacts' /\ FailedStaysDead'
    BY <2>2, <2>3 DEF DataInvariant, ExecFacts, ListFacts, FailedStaysDead, Stopped
  <2>7. InOrder'
    <3> SUFFICES ASSUME ~raced
                 PROVE  /\ proc'.item.pos <= Len(Steps(asked'[proc'.item.exec]))
                        /\ tasks' = Rest(proc'.item.exec, asked'[proc'.item.exec],
                                         proc'.item.pos)
      BY DEF InOrder
    <3> DEFINE e == proc.item.exec
               a == asked[e]
               i == proc.item.pos
    <3>1. e \in 1..Len(asked) /\ a \in Actions \cup Commands /\ e \in Nat /\ i \in Nat
      BY DEF DataInvariant, ExecFacts, DataTypeOK, ProcType, ItemType, Stopped
    <3>2. i <= Len(Steps(a)) /\ tasks = Rest(e, a, i)
      BY <1>2 DEF DataInvariant, InOrder, Stopped
    <3> HIDE DEF e, a, i
    <3>3. /\ i + 1 <= Len(Steps(a))
          /\ Head(tasks) = Item(e, a, i + 1)
          /\ Tail(tasks) = Rest(e, a, i + 1)
      BY <1>5, <3>1, <3>2, RestHeadTail
    <3>4. proc'.item.exec = e /\ proc'.item.pos = i + 1
      BY <2>2, <2>3, <3>3 DEF Item
    <3> QED
      BY <2>1, <3>3, <3>4 DEF a
  <2> QED
    BY <2>3, <2>4, <2>5, <2>6, <2>7 DEF DataInvariant
<1> QED
  BY <1>3, <1>4, <1>5

LEMMA OneReport ==
  ASSUME NEW p \in ProcType, p.reports = 0
  PROVE  /\ [p EXCEPT !.reports = @ + 1] \in ProcType
         /\ [p EXCEPT !.reports = @ + 1].state = p.state
         /\ [p EXCEPT !.reports = @ + 1].suppress = p.suppress
         /\ [p EXCEPT !.reports = @ + 1].dying = p.dying
         /\ [p EXCEPT !.reports = @ + 1].item = p.item
         /\ [p EXCEPT !.reports = @ + 1].reports = 1
BY DEF ProcType

\* extFinish reports an error.
LEMMA ErrorStep ==
  ASSUME BuildAssumption, DataInvariant, UNCHANGED asked, ~Stopped,
         NEW q \in ProcType, proc' = q, q.item = proc.item, q.reports = 1,
         \/ q.state = "NotRunning" /\ ~q.dying
         \/ q.state = "Running" /\ q.dying /\ q.suppress,
         tasks' = <<>>, failed' = failed \cup {proc.item.exec}, raced' \in BOOLEAN
  PROVE  DataInvariant'
<1>1. proc.item.exec \in 1..Len(asked) /\ Len(asked) \in Nat
  BY DEF DataInvariant, ExecFacts, DataTypeOK
<1>2. DataTypeOK'
  <2>1. tasks' \in Seq(ItemType)
    OBVIOUS
  <2>2. proc.item.exec \in Nat
    BY <1>1
  <2>3. failed' \subseteq Nat
    BY <2>2 DEF DataInvariant, DataTypeOK
  <2> QED
    BY <2>1, <2>3 DEF DataInvariant, DataTypeOK
<1>3. ProcFacts' /\ FinishOnce'
  BY DEF ProcFacts, FinishOnce, Stopped
<1>4. ListFacts' /\ FailedStaysDead' /\ InOrder'
  BY DEF ListFacts, FailedStaysDead, InOrder, Stopped
<1>5. ExecFacts'
  <2>1. failed' \subseteq 1..Len(asked')
    BY <1>1 DEF DataInvariant, ExecFacts
  <2>2. proc'.item.exec \in 1..Len(asked')
    BY <1>1
  <2>3. \A i \in 1..Len(tasks') : tasks'[i].exec \in 1..Len(asked')
    OBVIOUS
  <2> QED
    BY <2>1, <2>2, <2>3 DEF ExecFacts
<1> QED
  BY <1>2, <1>3, <1>4, <1>5 DEF DataInvariant

LEMMA DataUnchanged ==
  ASSUME DataInvariant, UNCHANGED <<proc, tasks, asked, failed, raced>>
  PROVE  DataInvariant'
BY DEF DataInvariant, DataTypeOK, ProcFacts, ExecFacts, ListFacts, FinishOnce,
       FailedStaysDead, InOrder, Stopped

LEMMA StartedStep ==
  ASSUME DataInvariant, Started
  PROVE  DataInvariant'
<1>1. /\ proc \in ProcType /\ proc.state = "Starting" /\ ~proc.suppress /\ ~proc.dying
      /\ proc' = [proc EXCEPT !.state = "Running"] /\ UNCHANGED <<tasks, asked, failed, raced>>
  BY DEF DataInvariant, DataTypeOK, ProcFacts, Started
<1>2. /\ proc' \in ProcType /\ proc'.state = "Running" /\ ~proc'.suppress /\ ~proc'.dying
      /\ proc'.item = proc.item /\ proc'.reports = proc.reports
  BY <1>1 DEF ProcType
<1>3. DataTypeOK' /\ ProcFacts'
  BY <1>1, <1>2 DEF DataInvariant, DataTypeOK, ProcFacts
<1>4. ExecFacts' /\ ListFacts' /\ FinishOnce' /\ FailedStaysDead' /\ InOrder'
  BY <1>1, <1>2
  DEF DataInvariant, ExecFacts, ListFacts, FinishOnce, FailedStaysDead, InOrder, Stopped
<1> QED
  BY <1>3, <1>4 DEF DataInvariant

LEMMA FailsToStartStep ==
  ASSUME BuildAssumption, DataInvariant, FailsToStart
  PROVE  DataInvariant' /\ Stopped'
<1>1. /\ proc \in ProcType /\ proc.state = "Starting" /\ ~proc.dying /\ proc.reports = 0
  BY DEF DataInvariant, DataTypeOK, ProcFacts, FailsToStart, FinishOnce, Stopped
<1> DEFINE p == [proc EXCEPT !.state = "NotRunning", !.suppress = TRUE]
           q == [p EXCEPT !.reports = @ + 1]
<1>2. /\ q \in ProcType /\ q.state = "NotRunning" /\ ~q.dying /\ q.reports = 1
      /\ q.item = proc.item
  <2>1. /\ p \in ProcType /\ p.state = "NotRunning" /\ ~p.dying /\ p.reports = 0
        /\ p.item = proc.item
    BY <1>1 DEF ProcType
  <2> HIDE DEF p
  <2> QED
    BY <2>1, OneReport
<1>4. /\ proc' = q /\ tasks' = <<>> /\ failed' = failed \cup {proc.item.exec}
      /\ raced' = raced /\ UNCHANGED asked
  BY <1>2 DEF FailsToStart, ExtFinish, DataInvariant, DataTypeOK
<1> HIDE DEF q
<1>5. raced' \in BOOLEAN
  BY <1>4 DEF DataInvariant, DataTypeOK
<1> QED
  BY <1>1, <1>2, <1>4, <1>5, ErrorStep DEF Stopped

LEMMA CrashesStep ==
  ASSUME BuildAssumption, DataInvariant, Crashes
  PROVE  DataInvariant' /\ ~Stopped' /\ raced' = raced
<1>1. /\ proc \in ProcType /\ proc.state = "Running" /\ ~proc.dying /\ proc.reports = 0
  BY DEF DataInvariant, DataTypeOK, Crashes, FinishOnce, Stopped
<1> DEFINE p == [proc EXCEPT !.suppress = TRUE, !.dying = TRUE]
           q == [p EXCEPT !.reports = @ + 1]
<1>2. /\ q \in ProcType /\ q.state = "Running" /\ q.dying /\ q.suppress /\ q.reports = 1
      /\ q.item = proc.item
  <2>1. /\ p \in ProcType /\ p.state = "Running" /\ p.dying /\ p.suppress
        /\ p.reports = 0 /\ p.item = proc.item
    BY <1>1 DEF ProcType
  <2> HIDE DEF p
  <2> QED
    BY <2>1, OneReport
<1>4. /\ proc' = q /\ tasks' = <<>> /\ failed' = failed \cup {proc.item.exec}
      /\ raced' = raced /\ UNCHANGED asked
  BY <1>2 DEF Crashes, ExtFinish, DataInvariant, DataTypeOK
<1> HIDE DEF q
<1>5. raced' \in BOOLEAN
  BY <1>4 DEF DataInvariant, DataTypeOK
<1> QED
  BY <1>1, <1>2, <1>4, <1>5, ErrorStep DEF Stopped

\* What runs after a process has finished is a task started while the handler,
\* if there is one, was stopping its predecessor.
LEMMA FinishedStep ==
  ASSUME BuildAssumption, DataInvariant, NEW code \in {0, 1}, Finished(code)
  PROVE  /\ DataInvariant' /\ ~proc'.dying
         /\ ~Stopped' /\ handler # NoRequest => raced'
<1>1. proc \in ProcType /\ proc.state = "Running" /\ UNCHANGED asked
  BY DEF DataInvariant, DataTypeOK, Finished
<1> DEFINE gone == [proc EXCEPT !.state = "NotRunning", !.dying = FALSE]
<1>2. CASE proc.suppress
  <2>1. proc.dying /\ proc.reports = 1 /\ tasks = <<>>
    BY <1>1, <1>2 DEF DataInvariant, ProcFacts, FinishOnce, ListFacts, Stopped
  <2>2. proc' = gone /\ UNCHANGED <<tasks, failed, raced>>
    BY <1>2 DEF Finished
  <2>3. /\ proc' \in ProcType /\ proc'.state = "NotRunning" /\ ~proc'.dying
        /\ proc'.reports = 1 /\ proc'.item = proc.item
    BY <1>1, <2>1, <2>2 DEF ProcType
  <2>4. DataTypeOK' /\ ProcFacts'
    BY <1>1, <2>2, <2>3 DEF DataInvariant, DataTypeOK, ProcFacts
  <2>5. ExecFacts' /\ ListFacts' /\ FinishOnce' /\ FailedStaysDead' /\ InOrder'
    BY <1>1, <2>1, <2>2, <2>3
    DEF DataInvariant, ExecFacts, ListFacts, FinishOnce, FailedStaysDead, InOrder, Stopped
  <2> QED
    BY <2>3, <2>4, <2>5 DEF DataInvariant, Stopped
<1>3. CASE ~proc.suppress
  <2>1. ~proc.dying /\ proc.reports = 0
    BY <1>1, <1>3 DEF DataInvariant, ProcFacts, FinishOnce, Stopped
  <2> DEFINE q == [gone EXCEPT !.reports = @ + 1]
  <2>2. /\ q \in ProcType /\ q.state = "NotRunning" /\ ~q.dying /\ q.reports = 1
        /\ q.item = proc.item /\ ~q.suppress
    <3>1. /\ gone \in ProcType /\ gone.state = "NotRunning" /\ ~gone.dying
          /\ gone.reports = 0 /\ gone.item = proc.item /\ ~gone.suppress
      BY <1>1, <1>3, <2>1 DEF ProcType
    <3> HIDE DEF gone
    <3> QED
      BY <3>1, OneReport
  <2>4. ExtFinish(gone, FALSE, code)
    BY <1>3 DEF Finished
  <2> DEFINE bad == q.item.act # Command /\ code # 0
  <2>5. /\ IF bad THEN proc' = q /\ tasks' = <<>>
            ELSE IF tasks = <<>> THEN proc' = q /\ UNCHANGED tasks
            ELSE proc' = ExecAction(q, Head(tasks)) /\ tasks' = Tail(tasks)
        /\ failed' = IF bad THEN failed \cup {q.item.exec} ELSE failed
        /\ raced' = (raced \/ (~bad /\ handler # NoRequest))
    BY <2>4 DEF ExtFinish
  <2>7. raced' \in BOOLEAN /\ (~raced' => ~raced)
    BY <2>5 DEF DataInvariant, DataTypeOK
  <2>8. CASE bad
    <3>1. proc' = q /\ tasks' = <<>> /\ failed' = failed \cup {proc.item.exec}
      BY <2>2, <2>5, <2>8
    <3> HIDE DEF q, bad
    <3>2. DataInvariant'
      BY <1>1, <2>2, <2>7, <3>1, ErrorStep DEF Stopped
    <3> QED
      BY <2>2, <3>1, <3>2 DEF Stopped
  <2>9. CASE ~bad
    <3>1. /\ UNCHANGED failed
          /\ \/ tasks = <<>> /\ proc' = q /\ UNCHANGED tasks
             \/ tasks # <<>> /\ proc' = ExecAction(q, Head(tasks)) /\ tasks' = Tail(tasks)
      BY <2>5, <2>9
    <3>2. handler # NoRequest => raced'
      BY <2>5, <2>9
    <3>3. DataInvariant' /\ (~Stopped' => ~proc'.dying)
      <4> HIDE DEF q, bad
      <4> QED
        BY <1>1, <1>3, <2>2, <2>7, <3>1, SuccessStep
    <3> QED
      BY <3>2, <3>3 DEF DataInvariant, ProcFacts, Stopped
  <2> QED
    BY <2>8, <2>9
<1> QED
  BY <1>2, <1>3

-----------------------------------------------------------------------------
(* Every step.                                                             *)

LEMMA FlowUnchanged ==
  ASSUME FlowTypeOK, HandlerFacts, UNCHANGED vars
  PROVE  FlowTypeOK' /\ HandlerFacts'
BY DEF FlowTypeOK, HandlerFacts, Stopped, vars

LEMMA ReportStep ==
  ASSUME BuildAssumption, BuildInvariant, Idle,
         Started \/ FailsToStart \/ Crashes \/ \E code \in {0, 1} : Finished(code)
  PROVE  BuildInvariant'
<1> USE DEF BuildInvariant
<1>1. wait \in {"none", "interrupt", "terminate", "rest"}
  BY DEF Idle, FlowTypeOK
<1>2. CASE Started
  <2>1. DataInvariant'
    BY <1>2, StartedStep
  <2>2. UNCHANGED <<handler, wait>> /\ proc'.dying = proc.dying
    BY <1>2 DEF Started, DataInvariant, DataTypeOK, ProcType
  <2>3. FlowTypeOK' /\ HandlerFacts'
    BY <1>1, <2>2 DEF FlowTypeOK, HandlerFacts
  <2> QED
    BY <2>1, <2>3
<1>3. CASE FailsToStart
  <2>1. DataInvariant' /\ Stopped'
    BY <1>3, FailsToStartStep
  <2>2. ~proc'.dying
    BY <2>1 DEF DataInvariant, ProcFacts, Stopped
  <2>3. IF wait = "rest" THEN wait' = "none" /\ handler' = NoRequest
                         ELSE WaitOver /\ UNCHANGED handler
    BY <1>3 DEF FailsToStart
  <2>4. FlowTypeOK' /\ HandlerFacts'
    BY <1>1, <2>1, <2>2, <2>3 DEF FlowTypeOK, HandlerFacts, WaitOver
  <2> QED
    BY <2>1, <2>4
<1>4. CASE Crashes
  <2>1. DataInvariant'
    BY <1>4, CrashesStep
  <2>2. UNCHANGED <<handler, wait>>
    BY <1>4 DEF Crashes
  <2>3. FlowTypeOK' /\ HandlerFacts'
    BY <1>1, <2>2 DEF FlowTypeOK, HandlerFacts
  <2> QED
    BY <2>1, <2>3
<1>5. ASSUME NEW code \in {0, 1}, Finished(code)
      PROVE  BuildInvariant'
  <2>1. /\ DataInvariant' /\ ~proc'.dying
        /\ ~Stopped' /\ handler # NoRequest => raced'
    BY <1>5, FinishedStep
  <2>2. WaitOver /\ UNCHANGED handler
    BY <1>5 DEF Finished
  <2>3. FlowTypeOK'
    BY <1>1, <2>2 DEF FlowTypeOK, WaitOver
  <2>4. wait' = "begin" => wait = "rest"
    BY <1>1, <2>2 DEF WaitOver
  <2>5. wait = "rest" => handler \in Actions /\ handler # NoRequest
    BY DEF HandlerFacts
  <2>6. HandlerFacts'
    BY <1>1, <2>1, <2>2, <2>4, <2>5 DEF HandlerFacts, WaitOver
  <2> QED
    BY <2>1, <2>3, <2>6
<1> QED
  BY <1>2, <1>3, <1>4, <1>5

LEMMA RequestStep ==
  ASSUME BuildAssumption, BuildInvariant,
         StopAction \/ ExecCommand \/ (\E c \in Commands : ExecTool(c)) \/ \E a \in Actions : ExecBuildAction(a)
  PROVE  BuildInvariant'
<1> USE DEF BuildInvariant
<1>1. Free
  BY DEF StopAction, ExecCommand, ExecTool, ExecBuildAction
<1>2. handler = NoRequest /\ ~proc.dying /\ wait = "none"
  BY <1>1 DEF Free, HandlerFacts
<1>3. ASSUME NEW request \in Actions \cup Commands \cup {Stop}, Waits(request)
      PROVE  BuildInvariant'
  <2>1. DataInvariant' /\ UNCHANGED <<proc, raced>> /\ handler' = request /\ wait' = "interrupt"
    BY <1>3, DataUnchanged DEF Waits
  <2>2. request # NoRequest
    BY DEF BuildAssumption
  <2>3. FlowTypeOK' /\ HandlerFacts'
    BY <1>2, <2>1, <2>2 DEF FlowTypeOK, HandlerFacts
  <2> QED
    BY <2>1, <2>3
<1>4. CASE UNCHANGED vars
  BY <1>4, DataUnchanged, FlowUnchanged DEF vars
<1>5. ASSUME DataInvariant', UNCHANGED <<handler, wait>>
      PROVE  BuildInvariant'
  <2>1. FlowTypeOK' /\ HandlerFacts'
    BY <1>2, <1>5 DEF FlowTypeOK, HandlerFacts
  <2> QED
    BY <1>5, <2>1
<1>6. ASSUME NEW a \in Actions, ExecBuildAction(a)
      PROVE  BuildInvariant'
  <2>1. CASE Stopped /\ BeginAction(a) /\ UNCHANGED <<handler, wait>>
    BY <1>2, <1>5, <2>1, BeginActionStep
  <2>2. CASE Waits(a)
    BY <1>3, <2>2
  <2> QED
    BY <1>4, <1>6, <2>1, <2>2 DEF ExecBuildAction
<1>7. CASE ExecCommand
  <2>1. CASE BeginCommand(Command) /\ UNCHANGED <<handler, wait>>
    BY <1>2, <1>5, <2>1, BeginCommandStep DEF Commands
  <2> QED
    BY <1>4, <1>7, <2>1 DEF ExecCommand
<1>8. CASE StopAction
  BY <1>3, <1>4, <1>8 DEF StopAction
<1>9. ASSUME NEW c \in Commands, ExecTool(c)
      PROVE  BuildInvariant'
  <2>1. CASE Waits(c)
    BY <1>3, <2>1
  <2>2. CASE BeginCommand(c) /\ UNCHANGED <<handler, wait>>
    BY <1>2, <1>5, <2>2, BeginCommandStep
  <2> QED
    BY <1>9, <2>1, <2>2 DEF ExecTool
<1> QED
  BY <1>6, <1>7, <1>8, <1>9

LEMMA HandlerStep ==
  ASSUME BuildAssumption, BuildInvariant, TimesOut \/ Resume \/ ResumeLast
  PROVE  BuildInvariant'
<1> USE DEF BuildInvariant
<1>1. ~proc.dying
  BY DEF TimesOut, Resume, ResumeLast, HandlerFacts
<1>2. NoRequest \notin Actions \cup Commands \cup {Stop}
  BY DEF BuildAssumption
<1>3. ASSUME DataInvariant', Returns
      PROVE  BuildInvariant'
  <2>1. FlowTypeOK' /\ HandlerFacts'
    BY <1>2, <1>3 DEF FlowTypeOK, HandlerFacts, Returns
  <2> QED
    BY <1>3, <2>1
<1>4. CASE TimesOut
  <2>1. DataInvariant' /\ UNCHANGED <<proc, raced>>
    BY <1>4, DataUnchanged DEF TimesOut
  <2>2. FlowTypeOK' /\ HandlerFacts'
    BY <1>1, <1>2, <1>4, <2>1 DEF FlowTypeOK, HandlerFacts, TimesOut
  <2> QED
    BY <2>1, <2>2
<1>5. CASE Resume
  <2>1. CASE Returns /\ UNCHANGED <<proc, tasks, asked, failed, raced>>
    BY <1>3, <2>1, DataUnchanged
  <2>2. CASE handler \in Commands /\ BeginCommand(handler) /\ Returns
    BY <1>1, <1>3, <2>2, BeginCommandStep
  <2>3. CASE handler \in Actions /\ Stopped /\ BeginAction(handler) /\ Returns
    BY <1>1, <1>3, <2>3, BeginActionStep
  <2>4. CASE handler \in Actions /\ wait' = "rest"
             /\ UNCHANGED <<proc, tasks, handler, asked, failed, raced>>
    <3>1. DataInvariant'
      BY <2>4, DataUnchanged
    <3>2. FlowTypeOK' /\ HandlerFacts'
      BY <1>1, <1>2, <2>4 DEF FlowTypeOK, HandlerFacts
    <3> QED
      BY <3>1, <3>2
  <2> QED
    BY <1>5, <2>1, <2>2, <2>3, <2>4 DEF Resume
<1>6. CASE ResumeLast
  <2>1. handler \in Actions /\ (~Stopped => raced) /\ BeginAction(handler) /\ Returns
    BY <1>6 DEF ResumeLast, HandlerFacts
  <2> QED
    BY <1>1, <1>3, <2>1, BeginActionStep
<1> QED
  BY <1>4, <1>5, <1>6

\* The invariant holds in every reachable state.
THEOREM BuildInvariantHolds == Spec => []BuildInvariant
<1>1. Init => BuildInvariant
  BY BuildAssumption, InitInvariant
<1>2. BuildInvariant /\ [Next]_vars => BuildInvariant'
  <2> SUFFICES ASSUME BuildInvariant, [Next]_vars
               PROVE  BuildInvariant'
    OBVIOUS
  <2>1. CASE Idle /\ (Started \/ FailsToStart \/ Crashes \/ \E code \in {0, 1} : Finished(code))
    BY <2>1, BuildAssumption, ReportStep
  <2>2. CASE StopAction \/ ExecCommand \/ (\E c \in Commands : ExecTool(c)) \/ \E a \in Actions : ExecBuildAction(a)
    BY <2>2, BuildAssumption, RequestStep
  <2>3. CASE TimesOut \/ Resume \/ ResumeLast
    BY <2>3, BuildAssumption, HandlerStep
  <2>4. CASE UNCHANGED vars
    BY <2>4, DataUnchanged, FlowUnchanged DEF vars, BuildInvariant
  <2> QED
    BY <2>1, <2>2, <2>3, <2>4 DEF Next
<1> QED
  BY <1>1, <1>2, PTL DEF Spec

\* Every variable keeps its type.
THEOREM TypeCorrect == Spec => []TypeOK
<1>1. BuildInvariant => TypeOK
  BY DEF BuildInvariant, DataInvariant, DataTypeOK, FlowTypeOK, TypeOK, ProcType, ItemType
<1> QED
  BY <1>1, BuildInvariantHolds, PTL

\* For any configuration in which tasks have no tasks and only the last of a
\* chain may start no process, ProcessEx reports the end of every process
\* exactly once.
THEOREM ReportsOnce == Spec => []FinishOnce
<1>1. BuildInvariant => FinishOnce
  BY DEF BuildInvariant, DataInvariant
<1> QED
  BY <1>1, BuildInvariantHolds, PTL

\* And no task stays in the list when nothing runs.
THEOREM NothingStranded == Spec => []NoStrandedTasks
<1>1. BuildInvariant => NoStrandedTasks
  BY DEF BuildInvariant, DataInvariant, ListFacts, NoStrandedTasks
<1> QED
  BY <1>1, BuildInvariantHolds, PTL

\* And a chain in which a task failed never goes on.
THEOREM FailedChainsStop == Spec => []FailedStaysDead
<1>1. BuildInvariant => FailedStaysDead
  BY DEF BuildInvariant, DataInvariant
<1> QED
  BY <1>1, BuildInvariantHolds, PTL

\* And unless a process succeeded while a handler was stopping it, the list
\* is the rest of the chain of the task that runs.
THEOREM ChainsInOrder == Spec => []TasksInOrder
<1>1. BuildInvariant => TasksInOrder
  BY DEF BuildInvariant, DataInvariant, InOrder, TasksInOrder
<1> QED
  BY <1>1, BuildInvariantHolds, PTL

-----------------------------------------------------------------------------
(* Formatting what was read.                                               *)

\* An editor without unsaved changes holds its file, and until another text is
\* saved, the file holds what the process that formats it has read.
FormatsFile ==
  /\ \A f \in Files : buffer[f].open /\ ~buffer[f].modified => buffer[f].text = disk[f]
  /\ fmt.busy /\ ~overtaken => disk[fmt.file] = fmt.sent

Editors == [open : BOOLEAN, text : Texts, modified : BOOLEAN]

\* Formatting makes a text of a text, and mixes nothing.
LEMMA FormattedType ==
  ASSUME NEW t \in Texts
  PROVE  /\ Formatted(t) \in Texts
         /\ Formatted(t).style = "mixed" => t.style = "mixed"
BY DEF Formatted, Texts, Styles

LEMMA ResultsType ==
  ASSUME NEW f \in Files, NEW t \in Texts, NEW r \in Results(f, t)
  PROVE  r \in Texts /\ (r.style = "mixed" => t.style = "mixed")
BY FormattedType DEF Results, SyncFormats

LEMMA PatchedType ==
  ASSUME NEW t \in Texts, NEW sent \in Texts
  PROVE  /\ Patched(t, sent) \in Texts
         /\ t = sent => Patched(t, sent) = Formatted(t)
<1>1. [t EXCEPT !.style = "mixed"] \in Texts
  BY DEF Texts, Styles
<1>2. t = sent => (IF Formatted(sent) = sent THEN t ELSE Formatted(t)) = Formatted(t)
  OBVIOUS
<1> QED
  BY <1>1, <1>2, FormattedType DEF Patched

\* What saving, and formatting what is saved, make of the variables.
LEMMA SavedType ==
  ASSUME ToolsTypeOK, NEW f \in Files, NEW t \in Texts, Saved(f, t)
  PROVE  /\ disk' \in [Files -> Texts] /\ disk'[f] = t
         /\ \A g \in Files \ {f} : disk'[g] = disk[g]
         /\ ast' \in [busy : BOOLEAN, file : Files \cup {NoFile}, seen : SUBSET Texts]
<1>1. ast' \in [busy : BOOLEAN, file : Files \cup {NoFile}, seen : SUBSET Texts]
  <2> HIDE DEF Texts
  <2>1. ast \in [busy : BOOLEAN, file : Files \cup {NoFile}, seen : SUBSET Texts]
    BY DEF ToolsTypeOK
  <2>2. ast.seen \cup {t} \in SUBSET Texts
    BY <2>1
  <2>3. ast' = ast \/ ast' = [ast EXCEPT !.seen = ast.seen \cup {t}]
    BY <2>1 DEF Saved
  <2> QED
    BY <2>1, <2>2, <2>3
<1>2. disk \in [Files -> Texts] /\ disk' = [disk EXCEPT ![f] = t]
  BY DEF Saved, ToolsTypeOK
<1> QED
  BY <1>1, <1>2

LEMMA HoldsType ==
  ASSUME ToolsTypeOK, NEW f \in Files, NEW t \in Texts, Holds(f, t) \/ Gone(f)
  PROVE  /\ buffer' \in [Files -> Editors]
         /\ \A g \in Files \ {f} : buffer'[g] = buffer[g]
         /\ Holds(f, t) => buffer'[f] = [open |-> TRUE, text |-> t, modified |-> FALSE]
         /\ Gone(f) => ~buffer'[f].open
<1>1. Unread \in Texts
  BY DEF Unread, Texts, Styles
<1>2. buffer \in [Files -> Editors]
  BY DEF ToolsTypeOK, Editors
<1>3. CASE Holds(f, t)
  <2>1. [open |-> TRUE, text |-> t, modified |-> FALSE] \in Editors
    BY DEF Editors
  <2>2. buffer'[f] = [open |-> TRUE, text |-> t, modified |-> FALSE]
    BY <1>2, <1>3 DEF Holds
  <2>3. buffer' \in [Files -> Editors] /\ \A g \in Files \ {f} : buffer'[g] = buffer[g]
    BY <1>2, <1>3, <2>1 DEF Holds
  <2>4. Gone(f) => ~buffer'[f].open
    BY <1>2 DEF Gone
  <2> QED
    BY <2>2, <2>3, <2>4
<1>4. CASE Gone(f)
  <2>1. [open |-> FALSE, text |-> Unread, modified |-> FALSE] \in Editors
    BY <1>1 DEF Editors
  <2>2. Holds(f, t) => buffer'[f] = [open |-> TRUE, text |-> t, modified |-> FALSE]
    BY <1>2 DEF Holds
  <2>3. buffer'[f] = [open |-> FALSE, text |-> Unread, modified |-> FALSE]
    BY <1>2, <1>4 DEF Gone
  <2>4. buffer' \in [Files -> Editors] /\ \A g \in Files \ {f} : buffer'[g] = buffer[g]
    BY <1>2, <1>4, <2>1 DEF Gone
  <2> QED
    BY <2>2, <2>3, <2>4
<1> QED
  BY <1>3, <1>4

LEMMA FormatsType ==
  ASSUME ToolsTypeOK, FormatsFile, NEW f \in Files, NEW t \in Texts, NEW begun \in BOOLEAN,
         begun => f \in GoFiles, Formats(f, t, begun), Saved(f, t)
  PROVE  /\ fmt' \in [busy : BOOLEAN, file : Files \cup {NoFile}, sent : Texts]
         /\ fmt'.busy => fmt'.file \in GoFiles
         /\ overtaken' \in BOOLEAN
         /\ fmt'.busy /\ ~overtaken' => disk'[fmt'.file] = fmt'.sent
<1>0. /\ fmt \in [busy : BOOLEAN, file : Files \cup {NoFile}, sent : Texts]
      /\ fmt.busy => fmt.file \in GoFiles /\ fmt.file \in Files
      /\ overtaken \in BOOLEAN
  BY GoToolsAssumption DEF ToolsTypeOK
<1>1. disk'[f] = t /\ \A g \in Files \ {f} : disk'[g] = disk[g]
  BY SavedType
<1>2. CASE begun
  <2>1. fmt' = [busy |-> TRUE, file |-> f, sent |-> t] /\ overtaken' = FALSE
    BY <1>2 DEF Formats
  <2> QED
    BY <1>1, <1>2, <2>1
<1>3. CASE ~begun
  <2>1. /\ fmt' = fmt
        /\ overtaken' = (overtaken \/ (fmt.busy /\ fmt.file = f /\ t # fmt.sent))
    BY <1>3 DEF Formats
  <2>2. ASSUME fmt.busy, ~overtaken' PROVE disk'[fmt.file] = fmt.sent
    <3>1. ~overtaken /\ (fmt.file = f => t = fmt.sent)
      BY <2>1, <2>2
    <3>2. disk[fmt.file] = fmt.sent
      BY <2>2, <3>1 DEF FormatsFile
    <3> QED
      BY <1>0, <1>1, <2>2, <3>1, <3>2
  <2>3. overtaken' \in BOOLEAN
    BY <2>1
  <2> QED
    BY <1>0, <2>1, <2>2, <2>3
<1> QED
  BY <1>2, <1>3

\* Saving an editor, and going on with it or closing it.
LEMMA SavingKeeps ==
  ASSUME ToolsTypeOK, FormatsFile, NEW f \in Files, NEW t \in Texts, NEW begun \in BOOLEAN,
         begun => f \in GoFiles, Formats(f, t, begun), Saved(f, t), Holds(f, t) \/ Gone(f),
         current' \in Files \cup {NoFile}, timer' \in BOOLEAN,
         outline' \in [GoFiles -> [file : Files \cup {NoFile}, text : Texts]],
         UNCHANGED <<format, ignored>>
  PROVE  (ToolsTypeOK /\ FormatsFile)'
<1>1. /\ disk' \in [Files -> Texts] /\ disk'[f] = t
      /\ \A g \in Files \ {f} : disk'[g] = disk[g]
      /\ ast' \in [busy : BOOLEAN, file : Files \cup {NoFile}, seen : SUBSET Texts]
  BY SavedType
<1>2. /\ buffer' \in [Files -> Editors]
      /\ \A g \in Files \ {f} : buffer'[g] = buffer[g]
      /\ buffer'[f].open => buffer'[f].text = t
  <2>1. CASE Holds(f, t)
    <3>1. buffer'[f] = [open |-> TRUE, text |-> t, modified |-> FALSE]
      BY <2>1, HoldsType
    <3>2. buffer' \in [Files -> Editors] /\ \A g \in Files \ {f} : buffer'[g] = buffer[g]
      BY <2>1, HoldsType
    <3> QED
      BY <3>1, <3>2
  <2>2. CASE Gone(f)
    BY <2>2, HoldsType
  <2> QED
    BY <2>1, <2>2
<1>3. /\ fmt' \in [busy : BOOLEAN, file : Files \cup {NoFile}, sent : Texts]
      /\ fmt'.busy => fmt'.file \in GoFiles
      /\ overtaken' \in BOOLEAN
      /\ fmt'.busy /\ ~overtaken' => disk'[fmt'.file] = fmt'.sent
  BY FormatsType
<1>4. \A g \in Files : buffer'[g].open /\ ~buffer'[g].modified => buffer'[g].text = disk'[g]
  BY <1>1, <1>2 DEF FormatsFile
<1> HIDE DEF Texts, Saved, Holds, Gone, Formats
<1> QED
  BY <1>1, <1>2, <1>3, <1>4 DEF ToolsTypeOK, FormatsFile, Editors

LEMMA UserKeeps ==
  ASSUME ToolsTypeOK, FormatsFile,
         \/ \E f \in Files : \/ OpenEditor(f) \/ SwitchEditor(f) \/ Type(f)
                             \/ SaveEditor(f) \/ SavePlainly(f)
         \/ \E f \in Files, next \in Files \cup {NoFile} : CloseEditor(f, next)
         \/ Gofmt \/ ShowOutline \/ ApplyOption
  PROVE  (ToolsTypeOK /\ FormatsFile)'
<1>0. /\ buffer \in [Files -> Editors] /\ disk \in [Files -> Texts]
      /\ timer \in BOOLEAN /\ ignored \in BOOLEAN /\ current \in Files \cup {NoFile}
      /\ outline \in [GoFiles -> [file : Files \cup {NoFile}, text : Texts]]
  BY DEF ToolsTypeOK, Editors
<1>1. ASSUME NEW f \in Files, OpenEditor(f) PROVE (ToolsTypeOK /\ FormatsFile)'
  <2>1. /\ buffer' \in [Files -> Editors]
        /\ \A g \in Files \ {f} : buffer'[g] = buffer[g]
        /\ buffer'[f] = [open |-> TRUE, text |-> disk[f], modified |-> FALSE]
    BY <1>0, <1>1, HoldsType DEF OpenEditor
  <2>2. disk' = disk /\ timer' \in BOOLEAN /\ current' = f /\ UNCHANGED <<fmtVars, ast, outline, ignored>>
    BY <1>0, <1>1 DEF OpenEditor, EditorChanged
  <2>3. \A g \in Files : buffer'[g].open /\ ~buffer'[g].modified => buffer'[g].text = disk'[g]
    BY <2>1, <2>2 DEF FormatsFile
  <2> QED
    BY <2>1, <2>2, <2>3 DEF ToolsTypeOK, FormatsFile, fmtVars, Editors
<1>2. ASSUME NEW f \in Files, SwitchEditor(f) PROVE (ToolsTypeOK /\ FormatsFile)'
  BY <1>0, <1>2 DEF SwitchEditor, EditorChanged, ToolsTypeOK, FormatsFile, fmtVars
<1>3. ASSUME NEW f \in Files, Type(f) PROVE (ToolsTypeOK /\ FormatsFile)'
  <2>1. /\ buffer' \in [Files -> Editors] /\ buffer'[f].modified
        /\ \A g \in Files \ {f} : buffer'[g] = buffer[g]
    <3>1. [n |-> buffer[f].text.n + 1, style |-> "raw"] \in Texts
      BY <1>0 DEF Editors, Texts, Styles
    <3> DEFINE e == [open |-> TRUE, text |-> [n |-> buffer[f].text.n + 1, style |-> "raw"],
                     modified |-> TRUE]
    <3>2. e \in Editors /\ e.modified
      BY <3>1 DEF Editors
    <3>3. buffer' = [buffer EXCEPT ![f] = e]
      BY <1>0, <1>3 DEF Type
    <3> HIDE DEF e
    <3> QED
      BY <1>0, <3>2, <3>3
  <2>2. UNCHANGED <<disk, current, fmtVars, astVars>>
    BY <1>3 DEF Type
  <2>3. \A g \in Files : buffer'[g].open /\ ~buffer'[g].modified => buffer'[g].text = disk'[g]
    BY <2>1, <2>2 DEF FormatsFile
  <2> QED
    BY <2>1, <2>2, <2>3 DEF ToolsTypeOK, FormatsFile, fmtVars, astVars, Editors
<1>4. ASSUME NEW f \in Files, SaveEditor(f) PROVE (ToolsTypeOK /\ FormatsFile)'
  <2>1. PICK t \in Results(f, buffer[f].text) : Saved(f, t) /\ Holds(f, t) /\ Formats(f, t, Starts(f))
    BY <1>4 DEF SaveEditor
  <2>2. t \in Texts
    BY <1>0, <2>1, ResultsType DEF Editors
  <2>3. Starts(f) \in BOOLEAN /\ (Starts(f) => f \in GoFiles)
    BY DEF Starts
  <2>4. timer' \in BOOLEAN /\ UNCHANGED <<current, format, outline, ignored>>
    BY <1>0, <1>4 DEF SaveEditor, EditorSaved
  <2> QED
    BY <1>0, <2>1, <2>2, <2>3, <2>4, SavingKeeps
<1>5. ASSUME NEW f \in Files, SavePlainly(f) PROVE (ToolsTypeOK /\ FormatsFile)'
  <2>1. buffer[f].text \in Texts
    BY <1>0 DEF Editors
  <2>2. timer' \in BOOLEAN /\ UNCHANGED <<current, format, outline, ignored>>
    BY <1>0, <1>5 DEF SavePlainly, EditorSaved
  <2> QED
    BY <1>0, <1>5, <2>1, <2>2, SavingKeeps DEF SavePlainly
<1>6. ASSUME NEW f \in Files, NEW next \in Files \cup {NoFile}, CloseEditor(f, next)
      PROVE  (ToolsTypeOK /\ FormatsFile)'
  <2>1. /\ outline' \in [GoFiles -> [file : Files \cup {NoFile}, text : Texts]]
        /\ timer' \in BOOLEAN /\ current' = next /\ Gone(f) /\ UNCHANGED <<format, ignored>>
    <3>1. Blank \in [file : Files \cup {NoFile}, text : Texts]
      BY DEF Blank, Unread, Texts, Styles
    <3> QED
      BY <1>0, <1>6, <3>1 DEF CloseEditor, EditorChanged
  <2>2. CASE \E t \in Results(f, buffer[f].text) : Saved(f, t) /\ Formats(f, t, Starts(f))
    <3>1. PICK t \in Results(f, buffer[f].text) : Saved(f, t) /\ Formats(f, t, Starts(f))
      BY <2>2
    <3>2. t \in Texts
      BY <1>0, <3>1, ResultsType DEF Editors
    <3>3. Starts(f) \in BOOLEAN /\ (Starts(f) => f \in GoFiles)
      BY DEF Starts
    <3> QED
      BY <2>1, <3>1, <3>2, <3>3, SavingKeeps
  <2>3. CASE UNCHANGED <<disk, ast, fmt, overtaken>>
    <3>1. buffer' \in [Files -> Editors] /\ ~buffer'[f].open /\ \A g \in Files \ {f} : buffer'[g] = buffer[g]
      <4>1. Unread \in Texts
        BY DEF Unread, Texts, Styles
      <4> QED
        BY <2>1, <4>1, HoldsType
    <3>2. \A g \in Files : buffer'[g].open /\ ~buffer'[g].modified => buffer'[g].text = disk'[g]
      BY <2>3, <3>1 DEF FormatsFile
    <3> QED
      BY <2>1, <2>3, <3>1, <3>2 DEF ToolsTypeOK, FormatsFile, Editors
  <2> QED
    BY <1>6, <2>2, <2>3 DEF CloseEditor
<1>7. CASE Gofmt
  <2>0. current \in Files
    BY <1>7, GoToolsAssumption DEF Gofmt
  <2>1. /\ buffer' \in [Files -> Editors] /\ buffer'[current].modified
        /\ \A g \in Files \ {current} : buffer'[g] = buffer[g]
    <3>1. Formatted(buffer[current].text) \in Texts
      BY <1>0, <2>0, FormattedType DEF Editors
    <3>2. buffer' = [buffer EXCEPT ![current] = [open |-> buffer[current].open,
                                                text |-> Formatted(buffer[current].text),
                                                modified |-> TRUE]]
      BY <1>0, <1>7, <2>0 DEF Gofmt, Editors
    <3> QED
      BY <1>0, <2>0, <3>1, <3>2 DEF Editors
  <2>2. UNCHANGED <<disk, current, fmtVars, astVars>>
    BY <1>7 DEF Gofmt
  <2>3. \A g \in Files : buffer'[g].open /\ ~buffer'[g].modified => buffer'[g].text = disk'[g]
    BY <2>1, <2>2 DEF FormatsFile
  <2> QED
    BY <2>1, <2>2, <2>3 DEF ToolsTypeOK, FormatsFile, fmtVars, astVars, Editors
<1>8. CASE ShowOutline
  BY <1>0, <1>8 DEF ShowOutline, EditorChanged, ToolsTypeOK, FormatsFile, editors, fmtVars
<1>9. CASE ApplyOption
  BY <1>9 DEF ApplyOption, ToolsTypeOK, FormatsFile, editors, astVars
<1> QED
  BY <1>1, <1>2, <1>3, <1>4, <1>5, <1>6, <1>7, <1>8, <1>9

LEMMA ProcessesKeep ==
  ASSUME ToolsTypeOK, FormatsFile, FmtFinish \/ UpdateAstNowFile \/ FinishedProcessFile
  PROVE  (ToolsTypeOK /\ FormatsFile)'
<1>0. /\ buffer \in [Files -> Editors] /\ disk \in [Files -> Texts]
      /\ timer \in BOOLEAN /\ ignored \in BOOLEAN /\ current \in Files \cup {NoFile}
      /\ fmt \in [busy : BOOLEAN, file : Files \cup {NoFile}, sent : Texts]
      /\ ast \in [busy : BOOLEAN, file : Files \cup {NoFile}, seen : SUBSET Texts]
  BY DEF ToolsTypeOK, Editors
<1>1. CASE FmtFinish
  <2> DEFINE f == fmt.file
             t == Patched(buffer[f].text, fmt.sent)
  <2>0. f \in Files /\ t \in Texts
    BY <1>0, <1>1, PatchedType, GoToolsAssumption DEF FmtFinish, Editors, ToolsTypeOK
  <2>1. /\ fmt' \in [busy : BOOLEAN, file : Files \cup {NoFile}, sent : Texts] /\ ~fmt'.busy
        /\ overtaken' = FALSE /\ UNCHANGED <<format, outline, ignored>>
    BY <1>1 DEF FmtFinish, NoFmt, Unread, Texts, Styles
  <2>2. CASE UNCHANGED <<editors, timer, ast>>
    BY <2>1, <2>2 DEF ToolsTypeOK, FormatsFile, editors
  <2>3. CASE Saved(f, t) /\ Holds(f, t) /\ EditorSaved(f) /\ UNCHANGED current
    <3> HIDE DEF f, t
    <3>1. /\ disk' \in [Files -> Texts] /\ disk'[f] = t
          /\ \A g \in Files \ {f} : disk'[g] = disk[g]
          /\ ast' \in [busy : BOOLEAN, file : Files \cup {NoFile}, seen : SUBSET Texts]
      BY <2>0, <2>3, SavedType
    <3>2. /\ buffer' \in [Files -> Editors] /\ buffer'[f].text = t
          /\ \A g \in Files \ {f} : buffer'[g] = buffer[g]
      <4>1. buffer'[f] = [open |-> TRUE, text |-> t, modified |-> FALSE]
        BY <2>0, <2>3, HoldsType
      <4>2. buffer' \in [Files -> Editors] /\ \A g \in Files \ {f} : buffer'[g] = buffer[g]
        BY <2>0, <2>3, HoldsType
      <4> QED
        BY <4>1, <4>2
    <3>3. timer' \in BOOLEAN
      BY <1>0, <2>3 DEF EditorSaved
    <3>4. \A g \in Files : buffer'[g].open /\ ~buffer'[g].modified => buffer'[g].text = disk'[g]
      BY <3>1, <3>2 DEF FormatsFile
    <3> QED
      BY <2>1, <2>3, <3>1, <3>2, <3>3, <3>4 DEF ToolsTypeOK, FormatsFile, Editors
  <2> QED
    BY <1>1, <2>2, <2>3 DEF FmtFinish
<1>2. CASE UpdateAstNowFile
  <2>1. /\ ast' \in [busy : BOOLEAN, file : Files \cup {NoFile}, seen : SUBSET Texts]
        /\ timer' = FALSE /\ ignored' \in BOOLEAN /\ UNCHANGED <<editors, fmtVars, outline>>
    <3>1. CASE current \notin GoFiles
      BY <1>0, <1>2, <3>1 DEF UpdateAstNowFile
    <3>2. CASE current \in GoFiles
      <4>1. current \in Files
        BY <3>2, GoToolsAssumption
      <4>2. disk[current] \in Texts
        BY <1>0, <4>1
      <4>3. [busy |-> TRUE, file |-> current, seen |-> {disk[current]}]
              \in [busy : BOOLEAN, file : Files \cup {NoFile}, seen : SUBSET Texts]
        BY <4>1, <4>2
      <4> QED
        BY <1>0, <1>2, <3>2, <4>3 DEF UpdateAstNowFile
    <3> QED
      BY <3>1, <3>2
  <2> QED
    BY <2>1 DEF ToolsTypeOK, FormatsFile, editors, fmtVars
<1>3. CASE FinishedProcessFile
  <2>1. outline' \in [GoFiles -> [file : Files \cup {NoFile}, text : Texts]]
    <3>1. PICK t \in ast.seen :
            outline' = IF Parses(ast.file, t) /\ current \in GoFiles
                       THEN [outline EXCEPT ![current] = [file |-> ast.file, text |-> t]]
                       ELSE outline
      BY <1>3 DEF FinishedProcessFile
    <3>2. [file |-> ast.file, text |-> t] \in [file : Files \cup {NoFile}, text : Texts]
      BY <1>0, <3>1
    <3> QED
      BY <3>1, <3>2 DEF ToolsTypeOK
  <2>2. ast' \in [busy : BOOLEAN, file : Files \cup {NoFile}, seen : SUBSET Texts]
    BY <1>3 DEF FinishedProcessFile, NoRun
  <2> QED
    BY <1>3, <2>1, <2>2 DEF FinishedProcessFile, ToolsTypeOK, FormatsFile, editors, fmtVars
<1> QED
  BY <1>1, <1>2, <1>3

LEMMA ToolsStep ==
  ToolsTypeOK /\ FormatsFile /\ [ToolsNext]_toolVars => (ToolsTypeOK /\ FormatsFile)'
<1> SUFFICES ASSUME ToolsTypeOK, FormatsFile, [ToolsNext]_toolVars PROVE (ToolsTypeOK /\ FormatsFile)'
  OBVIOUS
<1>1. CASE UNCHANGED toolVars
  BY <1>1 DEF toolVars, editors, fmtVars, astVars, ToolsTypeOK, FormatsFile
<1>2. CASE ToolsNext
  BY <1>2, UserKeeps, ProcessesKeep DEF ToolsNext
<1> QED
  BY <1>1, <1>2

LEMMA ToolsStart == ToolsInit => ToolsTypeOK /\ FormatsFile
<1> SUFFICES ASSUME ToolsInit PROVE ToolsTypeOK /\ FormatsFile
  OBVIOUS
<1>1. Unread \in Texts
  BY DEF Unread, Texts, Styles
<1>2. ToolsTypeOK
  BY <1>1 DEF ToolsInit, ToolsTypeOK, NoFmt, NoRun, Blank, Styles
<1> QED
  BY <1>2 DEF ToolsInit, FormatsFile, NoFmt

\* Every variable has its type; until another text is saved, the file still holds
\* what the process that formats it has read.
THEOREM FormatsFileHolds == ToolsFairSpec => [](ToolsTypeOK /\ FormatsFile)
<1>1. ToolsInit => ToolsTypeOK /\ FormatsFile
  BY ToolsStart
<1>2. ToolsTypeOK /\ FormatsFile /\ [ToolsNext]_toolVars => (ToolsTypeOK /\ FormatsFile)'
  BY ToolsStep
<1> QED
  BY <1>1, <1>2, PTL DEF ToolsFairSpec

\* Only the end of the process mixes texts.
LEMMA MixesOvertaken ==
  ASSUME ToolsTypeOK, FormatsFile, [ToolsNext]_toolVars, NEW f \in Open, buffer'[f].open,
         buffer'[f].text.style = "mixed", buffer[f].text.style # "mixed"
  PROVE  overtaken /\ fmt.file = f /\ ~buffer[f].modified
<1>0. /\ buffer \in [Files -> Editors] /\ disk \in [Files -> Texts] /\ f \in Files /\ buffer[f].open
      /\ buffer[f].text \in Texts
  BY DEF ToolsTypeOK, Editors, Open
<1>1. CASE UNCHANGED buffer
  BY <1>1
<1>2. ASSUME NEW g \in Files, OpenEditor(g) PROVE FALSE
  <2>1. g # f
    BY <1>0, <1>2 DEF OpenEditor
  <2>2. buffer'[f] = buffer[f]
    BY <1>0, <1>2, <2>1 DEF OpenEditor, Holds
  <2> QED
    BY <2>2
<1>3. ASSUME NEW g \in Files, Type(g) PROVE FALSE
  <2>1. buffer'[f].text = buffer[f].text \/ buffer'[f].text.style = "raw"
    BY <1>0, <1>3 DEF Type, Editors
  <2> QED
    BY <2>1
<1>4. ASSUME NEW g \in Files, SaveEditor(g) \/ SavePlainly(g) PROVE FALSE
  <2>1. PICK t \in Texts : Holds(g, t) /\ (t.style = "mixed" => buffer[g].text.style = "mixed")
    <3>1. buffer[g].text \in Texts
      BY <1>0 DEF Editors
    <3> QED
      BY <1>4, <3>1, ResultsType DEF SaveEditor, SavePlainly
  <2>2. /\ buffer'[g] = [open |-> TRUE, text |-> t, modified |-> FALSE]
        /\ \A h \in Files \ {g} : buffer'[h] = buffer[h]
    BY <2>1, HoldsType
  <2> QED
    BY <1>0, <2>1, <2>2
<1>5. ASSUME NEW g \in Files, NEW next \in Files \cup {NoFile}, CloseEditor(g, next) PROVE FALSE
  <2>1. g # f => buffer'[f] = buffer[f]
    BY <1>0, <1>5 DEF CloseEditor, Gone
  <2>2. g = f => ~buffer'[f].open
    BY <1>0, <1>5 DEF CloseEditor, Gone
  <2> QED
    BY <2>1, <2>2
<1>6. CASE Gofmt
  <2>1. buffer'[f].text = buffer[f].text \/ buffer'[f].text = Formatted(buffer[f].text)
    BY <1>0, <1>6 DEF Gofmt, Editors
  <2> QED
    BY <1>0, <2>1, FormattedType
<1>7. CASE FmtFinish
  <2> DEFINE t == Patched(buffer[fmt.file].text, fmt.sent)
  <2>0. fmt.busy /\ fmt.file \in Files /\ fmt.sent \in Texts
    BY <1>7, GoToolsAssumption DEF FmtFinish, ToolsTypeOK
  <2>1. CASE UNCHANGED editors
    BY <1>1, <2>1 DEF editors
  <2>2. CASE ~Untouchable(fmt.file) /\ Holds(fmt.file, t)
    <3>1. fmt.file = f /\ buffer'[f].text = t
      BY <1>0, <2>0, <2>2 DEF Holds
    <3>2. ~buffer[f].modified /\ buffer[f].text = disk[f]
      BY <1>0, <2>2, <3>1 DEF Untouchable, FormatsFile
    <3>3. buffer[f].text # fmt.sent
      <4> SUFFICES ASSUME buffer[f].text = fmt.sent PROVE FALSE
        OBVIOUS
      <4>1. t = Formatted(buffer[f].text)
        BY <1>0, <2>0, <3>1, PatchedType
      <4> QED
        BY <1>0, <3>1, <4>1, FormattedType
    <3>4. overtaken
      BY <2>0, <3>1, <3>2, <3>3 DEF FormatsFile
    <3> QED
      BY <3>1, <3>2, <3>4
  <2> QED
    BY <1>7, <2>1, <2>2 DEF FmtFinish
<1>8. ASSUME UNCHANGED toolVars \/ (\E g \in Files : SwitchEditor(g)) \/ ShowOutline \/ ApplyOption
             \/ UpdateAstNowFile \/ FinishedProcessFile
      PROVE  UNCHANGED buffer
  BY <1>8 DEF toolVars, editors, SwitchEditor, ShowOutline, ApplyOption, UpdateAstNowFile,
              FinishedProcessFile
<1> QED
  BY <1>1, <1>2, <1>3, <1>4, <1>5, <1>6, <1>7, <1>8 DEF ToolsNext

\* The difference that was computed for one text is applied to another only if
\* that one was saved meanwhile, for however many files and texts.
THEOREM FormatsWhatItReadHolds == ToolsFairSpec => FormatsWhatItRead
<1>1. ToolsTypeOK /\ FormatsFile /\ [ToolsNext]_toolVars =>
        [\A f \in Open :
           (/\ buffer'[f].open
            /\ buffer'[f].text.style = "mixed" /\ buffer[f].text.style # "mixed")
           => overtaken /\ fmt.file = f /\ ~buffer[f].modified
        ]_toolVars
  BY MixesOvertaken
<1> QED
  BY <1>1, FormatsFileHolds, PTL DEF ToolsFairSpec, FormatsWhatItRead
=============================================================================
