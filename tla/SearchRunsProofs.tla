---------------------------- MODULE SearchRunsProofs ----------------------------
(***************************************************************************)
(* The panel never shows the results of two runs of Find in Files: proofs  *)
(* about SearchRuns, for any number of runs and any number of results.     *)
(***************************************************************************)
EXTENDS SearchRuns, TLAPS

IsStart(i)  == posted[i].is = "started"
IsResult(i) == posted[i].is = "result"

TypeOK ==
  /\ searching \in Nat
  /\ posted \in Seq([is : {"started", "finished", "result"}, run : Nat])
  /\ shown \subseteq Nat

\* Between two starts the thread posts the results of one run,
PostedTogether ==
  \A i, j \in DOMAIN posted :
    i < j /\ IsResult(i) /\ IsResult(j) /\ (\A k \in DOMAIN posted : i < k /\ k < j => ~IsStart(k)) =>
      posted[i].run = posted[j].run

\* which after the last of them is the one it is at;
PostedLast ==
  searching # 0 =>
    \A i \in DOMAIN posted :
      IsResult(i) /\ (\A k \in DOMAIN posted : i < k => ~IsStart(k)) => posted[i].run = searching

\* and until the next start is delivered, what is shown is of the run whose
\* results come next,
ShownComes ==
  \A j \in DOMAIN posted :
    IsResult(j) /\ (\A k \in DOMAIN posted : k < j => ~IsStart(k)) => shown \subseteq {posted[j].run}

\* which if nothing more has started is the one the thread is at.
ShownLast ==
  searching # 0 /\ (\A k \in DOMAIN posted : ~IsStart(k)) => shown \subseteq {searching}

PanelInvariant == TypeOK /\ PostedTogether /\ PostedLast /\ ShownComes /\ ShownLast /\ OneRun

-----------------------------------------------------------------------------

Signals == [is : {"started", "finished", "result"}, run : Nat]

\* What is posted next leaves what was posted where it is.
LEMMA AppendIs ==
  ASSUME NEW s \in Seq(Signals), NEW e \in Signals
  PROVE  /\ Append(s, e) \in Seq(Signals)
         /\ DOMAIN s = 1..Len(s) /\ Len(s) \in Nat
         /\ DOMAIN Append(s, e) = 1..(Len(s) + 1)
         /\ \A i \in DOMAIN s : Append(s, e)[i] = s[i]
         /\ Append(s, e)[Len(s) + 1] = e
OBVIOUS

LEMMA PostedIs ==
  ASSUME NEW s \in Seq(Signals), NEW t \in Seq(Signals)
  PROVE  /\ s \o t \in Seq(Signals)
         /\ DOMAIN s = 1..Len(s) /\ Len(s) \in Nat
         /\ DOMAIN t = 1..Len(t) /\ Len(t) \in Nat
         /\ DOMAIN (s \o t) = 1..(Len(s) + Len(t))
         /\ \A i \in DOMAIN s : (s \o t)[i] = s[i]
         /\ \A i \in (Len(s) + 1)..(Len(s) + Len(t)) : (s \o t)[i] = t[i - Len(s)]
OBVIOUS

LEMMA TailIs ==
  ASSUME NEW s \in Seq(Signals), s # <<>>
  PROVE  /\ Tail(s) \in Seq(Signals) /\ Head(s) \in Signals /\ Head(s) = s[1]
         /\ DOMAIN s = 1..Len(s) /\ Len(s) \in Nat \ {0}
         /\ DOMAIN Tail(s) = 1..(Len(s) - 1)
         /\ \A i \in DOMAIN Tail(s) : i + 1 \in DOMAIN s /\ Tail(s)[i] = s[i + 1]
OBVIOUS

\* Finds appends results of the run the thread is at, and nothing else.
LEMMA FindsPosts ==
  ASSUME TypeOK, Finds
  PROVE  \E t \in Seq(Signals) :
           /\ posted' = posted \o t
           /\ \A i \in DOMAIN t : t[i] = Result(searching)
<1> DEFINE n == Len(posted') - Len(posted)
           t == [i \in 1..n |-> Result(searching)]
<1>1. n \in Nat /\ posted' = posted \o t
  BY DEF Finds
<1>2. Result(searching) \in Signals
  BY DEF TypeOK, Result, Signals
<1>3. t \in Seq(Signals)
  BY <1>1, <1>2
<1>4. \A i \in DOMAIN t : t[i] = Result(searching)
  OBVIOUS
<1> QED
  BY <1>1, <1>3, <1>4

LEMMA TypeInductive == TypeOK /\ [Next]_vars => TypeOK'
<1> SUFFICES ASSUME TypeOK, [Next]_vars PROVE TypeOK'
  OBVIOUS
<1>0. posted \in Seq(Signals)
  BY DEF TypeOK, Signals
<1>1. CASE Begins
  <2>1. Started \in Signals
    BY DEF Started, Signals
  <2> QED
    BY <1>0, <1>1, <2>1, AppendIs DEF Begins, TypeOK, Runs, Signals
<1>2. CASE Finds
  <2>1. posted' \in Seq(Signals)
    BY <1>0, <1>2, FindsPosts, PostedIs
  <2> QED
    BY <1>2, <2>1 DEF Finds, TypeOK, Signals
<1>3. CASE Ends
  <2>1. Finished \in Signals
    BY DEF Finished, Signals
  <2> QED
    BY <1>0, <1>3, <2>1, AppendIs DEF Ends, TypeOK, Signals
<1>4. CASE Delivered
  <2>1. posted' \in Seq(Signals) /\ Head(posted) \in Signals
    BY <1>0, <1>4, TailIs DEF Delivered
  <2>2. shown' \subseteq Nat
    BY <1>4, <2>1 DEF Delivered, TypeOK, Signals
  <2> QED
    BY <1>4, <2>1, <2>2 DEF Delivered, TypeOK, Signals
<1>5. CASE Forgets
  BY <1>5 DEF Forgets, TypeOK
<1>6. CASE UNCHANGED vars
  BY <1>6 DEF vars, TypeOK
<1> QED
  BY <1>1, <1>2, <1>3, <1>4, <1>5, <1>6 DEF Next

-----------------------------------------------------------------------------

\* A start or an end that is posted tells nothing of results.
LEMMA AppendKeeps ==
  ASSUME PanelInvariant, NEW e \in Signals, e.is # "result", posted' = Append(posted, e),
         UNCHANGED shown, searching' = 0 \/ e.is = "started"
  PROVE  PostedTogether' /\ PostedLast' /\ ShownComes' /\ ShownLast'
<1> DEFINE last == Len(posted) + 1
<1>0. posted \in Seq(Signals)
  BY DEF PanelInvariant, TypeOK, Signals
<1>1. /\ DOMAIN posted = 1..Len(posted) /\ Len(posted) \in Nat
      /\ DOMAIN posted' = 1..last
      /\ \A i \in DOMAIN posted : posted'[i] = posted[i]
      /\ posted'[last] = e
  BY <1>0, AppendIs
<1>2. \A i \in DOMAIN posted : (IsStart(i)' <=> IsStart(i)) /\ (IsResult(i)' <=> IsResult(i))
  BY <1>1 DEF IsStart, IsResult
<1>3. \A i \in DOMAIN posted' : IsResult(i)' => i \in DOMAIN posted /\ i < last
  BY <1>1 DEF IsResult
<1>4. PostedTogether'
  BY <1>1, <1>2, <1>3 DEF PostedTogether, PanelInvariant
<1>5. PostedLast'
  BY <1>1, <1>2, <1>3 DEF PostedLast, IsStart
<1>6. ShownComes'
  BY <1>1, <1>2, <1>3 DEF ShownComes, PanelInvariant
<1>7. ShownLast'
  BY <1>1 DEF ShownLast, IsStart
<1> QED
  BY <1>4, <1>5, <1>6, <1>7

LEMMA FindsKeeps ==
  ASSUME PanelInvariant, Finds
  PROVE  PostedTogether' /\ PostedLast' /\ ShownComes' /\ ShownLast'
<1>0. posted \in Seq(Signals) /\ searching # 0 /\ searching' = searching /\ shown' = shown
  BY DEF PanelInvariant, TypeOK, Signals, Finds
<1>1. PICK t \in Seq(Signals) :
         posted' = posted \o t /\ \A i \in DOMAIN t : t[i] = Result(searching)
  BY FindsPosts DEF PanelInvariant
<1>a. /\ DOMAIN posted = 1..Len(posted) /\ Len(posted) \in Nat
      /\ DOMAIN t = 1..Len(t) /\ Len(t) \in Nat
      /\ DOMAIN posted' = 1..(Len(posted) + Len(t))
      /\ \A i \in DOMAIN posted : posted'[i] = posted[i]
      /\ \A i \in (Len(posted) + 1)..(Len(posted) + Len(t)) : posted'[i] = t[i - Len(posted)]
  BY <1>0, <1>1, PostedIs
<1>b. ASSUME NEW i \in DOMAIN posted', i \notin DOMAIN posted
      PROVE  posted'[i] = Result(searching)
  <2>1. i \in (Len(posted) + 1)..(Len(posted) + Len(t)) /\ i - Len(posted) \in DOMAIN t
    BY <1>a, <1>b
  <2> QED
    BY <1>1, <1>a, <2>1
<1>2. /\ DOMAIN posted = 1..Len(posted) /\ Len(posted) \in Nat /\ Len(t) \in Nat
      /\ DOMAIN posted' = 1..(Len(posted) + Len(t))
      /\ \A i \in DOMAIN posted : posted'[i] = posted[i]
      /\ \A i \in DOMAIN posted' : i \notin DOMAIN posted => posted'[i] = Result(searching)
  BY <1>a, <1>b
<1>3. \A i \in DOMAIN posted : (IsStart(i)' <=> IsStart(i)) /\ (IsResult(i)' <=> IsResult(i))
  BY <1>2 DEF IsStart, IsResult
<1>4. \A i \in DOMAIN posted' : i \notin DOMAIN posted =>
        i > Len(posted) /\ ~IsStart(i)' /\ IsResult(i)' /\ posted'[i].run = searching
  BY <1>2 DEF IsStart, IsResult, Result
<1>5. \A i \in DOMAIN posted : i \in DOMAIN posted' /\ i \in Nat
  BY <1>2
<1>6. PostedLast'
  BY <1>0, <1>2, <1>3, <1>4, <1>5 DEF PostedLast, PanelInvariant
<1>7. PostedTogether'
  <2> SUFFICES ASSUME NEW i \in DOMAIN posted', NEW j \in DOMAIN posted', i < j,
                      IsResult(i)', IsResult(j)',
                      \A k \in DOMAIN posted' : i < k /\ k < j => ~IsStart(k)'
               PROVE  posted'[i].run = posted'[j].run
    BY DEF PostedTogether
  <2>1. CASE j \in DOMAIN posted
    <3>1. i \in DOMAIN posted
      BY <1>2, <2>1
    <3> QED
      BY <1>2, <1>3, <1>5, <2>1, <3>1 DEF PostedTogether, PanelInvariant
  <2>2. CASE j \notin DOMAIN posted /\ i \in DOMAIN posted
    <3>1. \A k \in DOMAIN posted : i < k => ~IsStart(k)
      BY <1>2, <1>3, <1>4, <1>5, <2>2
    <3>2. posted[i].run = searching
      BY <1>0, <1>3, <2>2, <3>1 DEF PostedLast, PanelInvariant
    <3> QED
      BY <1>2, <1>4, <2>2, <3>2
  <2>3. CASE j \notin DOMAIN posted /\ i \notin DOMAIN posted
    BY <1>4, <2>3
  <2> QED
    BY <2>1, <2>2, <2>3
<1>8. ShownComes'
  <2> SUFFICES ASSUME NEW j \in DOMAIN posted', IsResult(j)',
                      \A k \in DOMAIN posted' : k < j => ~IsStart(k)'
               PROVE  shown \subseteq {posted'[j].run}
    BY <1>0 DEF ShownComes
  <2>1. CASE j \in DOMAIN posted
    BY <1>2, <1>3, <1>5, <2>1 DEF ShownComes, PanelInvariant
  <2>2. CASE j \notin DOMAIN posted
    <3>1. \A k \in DOMAIN posted : ~IsStart(k)
      BY <1>2, <1>3, <1>4, <1>5, <2>2
    <3> QED
      BY <1>0, <1>4, <2>2, <3>1 DEF ShownLast, PanelInvariant
  <2> QED
    BY <2>1, <2>2
<1>9. ShownLast'
  BY <1>0, <1>3, <1>5 DEF ShownLast, PanelInvariant
<1> QED
  BY <1>6, <1>7, <1>8, <1>9

LEMMA DeliveredKeeps ==
  ASSUME PanelInvariant, Delivered
  PROVE  PostedTogether' /\ PostedLast' /\ ShownComes' /\ ShownLast' /\ OneRun'
<1>0. posted \in Seq(Signals) /\ posted # <<>> /\ posted' = Tail(posted) /\ searching' = searching
  BY DEF PanelInvariant, TypeOK, Signals, Delivered
<1>1. /\ Head(posted) \in Signals /\ Head(posted) = posted[1]
      /\ DOMAIN posted = 1..Len(posted) /\ Len(posted) \in Nat \ {0}
      /\ DOMAIN posted' = 1..(Len(posted) - 1)
      /\ \A i \in DOMAIN posted' : i + 1 \in DOMAIN posted /\ posted'[i] = posted[i + 1]
  BY <1>0, TailIs
<1>2. \A i \in DOMAIN posted' : (IsStart(i)' <=> IsStart(i + 1)) /\ (IsResult(i)' <=> IsResult(i + 1))
  BY <1>1 DEF IsStart, IsResult
<1>3. \A k \in DOMAIN posted : k = 1 \/ (k - 1 \in DOMAIN posted' /\ (IsStart(k - 1)' <=> IsStart(k)))
  BY <1>1, <1>2
<1>4. PostedTogether'
  <2> SUFFICES ASSUME NEW i \in DOMAIN posted', NEW j \in DOMAIN posted', i < j,
                      IsResult(i)', IsResult(j)',
                      \A k \in DOMAIN posted' : i < k /\ k < j => ~IsStart(k)'
               PROVE  posted'[i].run = posted'[j].run
    BY DEF PostedTogether
  <2>1. ASSUME NEW k \in DOMAIN posted, i + 1 < k, k < j + 1
        PROVE  ~IsStart(k)
    <3>1. i \in Nat /\ j \in Nat /\ k \in Nat /\ k # 1
      BY <1>1, <2>1
    <3>2. k - 1 \in DOMAIN posted' /\ (IsStart(k - 1)' <=> IsStart(k))
      BY <1>3, <3>1
    <3>3. i < k - 1 /\ k - 1 < j
      BY <2>1, <3>1
    <3> QED
      BY <3>2, <3>3
  <2> QED
    BY <1>1, <1>2, <2>1 DEF PostedTogether, PanelInvariant
<1>5. PostedLast'
  <2> SUFFICES ASSUME searching # 0, NEW i \in DOMAIN posted', IsResult(i)',
                      \A k \in DOMAIN posted' : i < k => ~IsStart(k)'
               PROVE  posted'[i].run = searching
    BY <1>0 DEF PostedLast
  <2>1. \A k \in DOMAIN posted : i + 1 < k => ~IsStart(k)
    BY <1>1, <1>3
  <2> QED
    BY <1>1, <1>2, <2>1 DEF PostedLast, PanelInvariant
<1>6. CASE IsStart(1)
  <2>1. shown' = {}
    BY <1>1, <1>6 DEF IsStart, Delivered
  <2> QED
    BY <1>4, <1>5, <2>1 DEF ShownComes, ShownLast, OneRun
<1>7. CASE IsResult(1)
  <2>1. shown' = shown \cup {posted[1].run}
    BY <1>1, <1>7 DEF IsResult, Delivered
  <2>2. 1 \in DOMAIN posted /\ \A k \in DOMAIN posted : ~(k < 1)
    BY <1>1
  <2>3. shown \subseteq {posted[1].run}
    BY <1>7, <2>2 DEF ShownComes, PanelInvariant
  <2>4. shown' = {posted[1].run}
    BY <2>1, <2>3
  <2>5. ~IsStart(1)
    BY <1>7 DEF IsStart, IsResult
  <2>6. ShownComes'
    <3> SUFFICES ASSUME NEW j \in DOMAIN posted', IsResult(j)',
                        \A k \in DOMAIN posted' : k < j => ~IsStart(k)'
                 PROVE  posted[1].run = posted'[j].run
      BY <2>4 DEF ShownComes
    <3>1. \A k \in DOMAIN posted : 1 < k /\ k < j + 1 => ~IsStart(k)
      BY <1>1, <1>3
    <3> QED
      BY <1>1, <1>2, <1>7, <2>2, <3>1 DEF PostedTogether, PanelInvariant
  <2>7. ShownLast'
    <3> SUFFICES ASSUME searching # 0, \A k \in DOMAIN posted' : ~IsStart(k)'
                 PROVE  posted[1].run = searching
      BY <1>0, <2>4 DEF ShownLast
    <3>1. \A k \in DOMAIN posted : 1 < k => ~IsStart(k)
      BY <1>1, <1>3
    <3> QED
      BY <1>7, <2>2, <3>1 DEF PostedLast, PanelInvariant
  <2> QED
    BY <1>4, <1>5, <2>4, <2>6, <2>7 DEF OneRun
<1>8. CASE ~IsStart(1) /\ ~IsResult(1)
  <2>1. shown' = shown
    BY <1>1, <1>8 DEF IsStart, IsResult, Delivered, Signals
  <2>2. ShownComes'
    <3> SUFFICES ASSUME NEW j \in DOMAIN posted', IsResult(j)',
                        \A k \in DOMAIN posted' : k < j => ~IsStart(k)'
                 PROVE  shown \subseteq {posted'[j].run}
      BY <2>1 DEF ShownComes
    <3>1. \A k \in DOMAIN posted : k < j + 1 => ~IsStart(k)
      BY <1>1, <1>3, <1>8
    <3> QED
      BY <1>1, <1>2, <3>1 DEF ShownComes, PanelInvariant
  <2>3. ShownLast'
    <3>1. (\A k \in DOMAIN posted' : ~IsStart(k)') => \A k \in DOMAIN posted : ~IsStart(k)
      BY <1>1, <1>3, <1>8
    <3> QED
      BY <1>0, <2>1, <3>1 DEF ShownLast, PanelInvariant
  <2> QED
    BY <1>4, <1>5, <2>1, <2>2, <2>3 DEF OneRun, PanelInvariant
<1> QED
  BY <1>6, <1>7, <1>8

LEMMA PanelInductive == PanelInvariant /\ [Next]_vars => PanelInvariant'
<1> SUFFICES ASSUME PanelInvariant, [Next]_vars PROVE PanelInvariant'
  OBVIOUS
<1>1. TypeOK'
  BY TypeInductive DEF PanelInvariant
<1>2. CASE Begins
  <2>1. Started \in Signals /\ Started.is = "started"
    BY DEF Started, Signals
  <2> QED
    BY <1>1, <1>2, <2>1, AppendKeeps DEF Begins, PanelInvariant, OneRun
<1>3. CASE Finds
  BY <1>1, <1>3, FindsKeeps DEF Finds, PanelInvariant, OneRun
<1>4. CASE Ends
  <2>1. Finished \in Signals /\ Finished.is = "finished"
    BY DEF Finished, Signals
  <2> QED
    BY <1>1, <1>4, <2>1, AppendKeeps DEF Ends, PanelInvariant, OneRun
<1>5. CASE Delivered
  BY <1>1, <1>5, DeliveredKeeps DEF PanelInvariant
<1>6. CASE Forgets
  BY <1>1, <1>6 DEF Forgets, PanelInvariant, PostedTogether, PostedLast, ShownComes, ShownLast,
                    OneRun, IsStart, IsResult
<1>7. CASE UNCHANGED vars
  BY <1>7 DEF vars, PanelInvariant, TypeOK, PostedTogether, PostedLast, ShownComes, ShownLast,
              OneRun, IsStart, IsResult
<1> QED
  BY <1>2, <1>3, <1>4, <1>5, <1>6, <1>7 DEF Next

\* The invariant holds whatever the thread posts and however late it arrives.
THEOREM PanelInvariantHolds == Spec => []PanelInvariant
<1>1. Init => PanelInvariant
  BY DEF Init, PanelInvariant, TypeOK, PostedTogether, PostedLast, ShownComes, ShownLast, OneRun,
         IsStart, IsResult
<1> QED
  BY <1>1, PanelInductive, PTL DEF Spec

\* FileSearchManager never shows results of two runs of FindThread together,
\* for any number of runs, of results, and of runs killed before their time.
THEOREM PanelShowsOneRun == Spec => []OneRun
<1>1. PanelInvariant => OneRun
  BY DEF PanelInvariant
<1> QED
  BY <1>1, PanelInvariantHolds, PTL
=============================================================================
