--------------------------- MODULE NavigationProofs ---------------------------
(***************************************************************************)
(* Proofs about Navigation, for every set of files and places, every limit *)
(* of the history and every number of tabs.                                *)
(***************************************************************************)
EXTENDS Navigation, SequenceTheorems, FiniteSetTheorems, WellFoundedInduction, TLAPS

-----------------------------------------------------------------------------
(* What the operators on sequences return.                                 *)

\* InsertAt moves what comes after by one.
LEMMA InsertAtIs ==
  ASSUME NEW S, NEW s \in Seq(S), NEW i \in 1..(Len(s) + 1), NEW e \in S
  PROVE  /\ InsertAt(s, i, e) \in Seq(S)
         /\ Len(InsertAt(s, i, e)) = Len(s) + 1
         /\ \A j \in 1..(Len(s) + 1) :
              InsertAt(s, i, e)[j] = IF j < i THEN s[j] ELSE IF j = i THEN e ELSE s[j - 1]
<1> DEFINE before == SubSeq(s, 1, i - 1)
           after  == SubSeq(s, i, Len(s))
           upto   == before \o <<e>>
<1>1. /\ before \in Seq(S) /\ Len(before) = i - 1
      /\ \A j \in 1..(i - 1) : before[j] = s[j]
  <2>1. \A j \in 1..(i - 1) : s[j] \in S
    BY ElementOfSeq
  <2> QED
    BY <2>1, SubSeqProperties
<1>2. /\ after \in Seq(S) /\ Len(after) = Len(s) - i + 1
      /\ \A j \in 1..(Len(s) - i + 1) : after[j] = s[i + j - 1]
  <2>1. \A j \in i..Len(s) : s[j] \in S
    BY ElementOfSeq
  <2>2. i \in Int /\ Len(s) \in Int
    OBVIOUS
  <2> QED
    BY <2>1, <2>2, SubSeqProperties
<1>3. <<e>> \in Seq(S) /\ Len(<<e>>) = 1 /\ <<e>>[1] = e
  OBVIOUS
<1> HIDE DEF before, after
<1>4. /\ upto \in Seq(S) /\ Len(upto) = i
      /\ \A j \in 1..i : upto[j] = IF j < i THEN s[j] ELSE e
  BY <1>1, <1>3, ConcatProperties
<1> HIDE DEF upto
<1>5. /\ upto \o after \in Seq(S) /\ Len(upto \o after) = Len(s) + 1
      /\ \A j \in 1..(Len(s) + 1) :
           (upto \o after)[j] = IF j <= i THEN upto[j] ELSE after[j - i]
  BY <1>2, <1>4, ConcatProperties
<1>6. InsertAt(s, i, e) = upto \o after
  BY DEF InsertAt, upto, before, after
<1> QED
  BY <1>2, <1>4, <1>5, <1>6

\* RemoveAt moves what comes after the other way.
LEMMA RemoveAtIs ==
  ASSUME NEW S, NEW s \in Seq(S), NEW i \in 1..Len(s)
  PROVE  /\ RemoveAt(s, i) \in Seq(S)
         /\ Len(RemoveAt(s, i)) = Len(s) - 1
         /\ \A j \in 1..(Len(s) - 1) :
              RemoveAt(s, i)[j] = IF j < i THEN s[j] ELSE s[j + 1]
<1> DEFINE before == SubSeq(s, 1, i - 1)
           after  == SubSeq(s, i + 1, Len(s))
<1>1. /\ before \in Seq(S) /\ Len(before) = i - 1
      /\ \A j \in 1..(i - 1) : before[j] = s[j]
  <2>1. \A j \in 1..(i - 1) : s[j] \in S
    BY ElementOfSeq
  <2> QED
    BY <2>1, SubSeqProperties
<1>2. /\ after \in Seq(S) /\ Len(after) = Len(s) - i
      /\ \A j \in 1..(Len(s) - i) : after[j] = s[i + j]
  <2>1. \A j \in (i + 1)..Len(s) : s[j] \in S
    BY ElementOfSeq
  <2>2. i + 1 \in Int /\ Len(s) \in Int
    OBVIOUS
  <2> QED
    BY <2>1, <2>2, SubSeqProperties
<1> HIDE DEF before, after
<1>3. /\ before \o after \in Seq(S) /\ Len(before \o after) = Len(s) - 1
      /\ \A j \in 1..(Len(s) - 1) :
           (before \o after)[j] = IF j <= i - 1 THEN before[j] ELSE after[j - (i - 1)]
  <2>1. /\ before \o after \in Seq(S)
        /\ Len(before \o after) = Len(before) + Len(after)
        /\ \A j \in 1..(Len(before) + Len(after)) :
             (before \o after)[j] = IF j <= Len(before) THEN before[j]
                                    ELSE after[j - Len(before)]
    BY <1>1, <1>2, ConcatProperties
  <2>2. Len(before) = i - 1 /\ Len(after) = Len(s) - i /\ Len(s) \in Nat
    BY <1>1, <1>2
  <2>3. Len(before) + Len(after) = Len(s) - 1
    BY <2>2
  <2> QED
    BY <2>1, <2>2, <2>3
<1>4. RemoveAt(s, i) = before \o after
  BY DEF RemoveAt, before, after
<1>5. ASSUME NEW j \in 1..(Len(s) - 1)
      PROVE  RemoveAt(s, i)[j] = IF j < i THEN s[j] ELSE s[j + 1]
  <2>1. CASE j < i
    <3>1. j \in 1..(i - 1)
      BY <2>1
    <3> QED
      BY <1>1, <1>3, <1>4, <2>1, <3>1
  <2>2. CASE ~(j < i)
    <3>1. j - (i - 1) \in 1..(Len(s) - i)
      BY <2>2
    <3>2. i + (j - (i - 1)) = j + 1
      OBVIOUS
    <3> QED
      BY <1>2, <1>3, <1>4, <2>2, <3>1, <3>2
  <2> QED
    BY <2>1, <2>2
<1> QED
  BY <1>3, <1>4, <1>5

\* Front leaves the last element out.
LEMMA FrontIs ==
  ASSUME NEW S, NEW s \in Seq(S), s # <<>>
  PROVE  /\ Front(s) \in Seq(S)
         /\ Len(Front(s)) = Len(s) - 1
         /\ \A j \in 1..(Len(s) - 1) : Front(s)[j] = s[j]
<1> DEFINE n     == Len(s) - 1
           front == SubSeq(s, 1, n)
<1>1. n \in Nat /\ 1 \in Int
  OBVIOUS
<1>2. \A j \in 1..n : s[j] \in S
  BY ElementOfSeq
<1> HIDE DEF n
<1>3. /\ front \in Seq(S)
      /\ Len(front) = IF 1 <= n THEN n - 1 + 1 ELSE 0
      /\ \A j \in 1..(n - 1 + 1) : front[j] = s[1 + j - 1]
  BY <1>1, <1>2, SubSeqProperties
<1> HIDE DEF front
<1>4. Len(front) = n
  BY <1>1, <1>3
<1>5. \A j \in 1..n : front[j] = s[j]
  BY <1>1, <1>3
<1>6. Front(s) = front
  BY DEF Front, front, n
<1> QED
  BY <1>3, <1>4, <1>5, <1>6 DEF n

-----------------------------------------------------------------------------
(* What the operations on the history return.                              *)

HistoryType ==
  [entries : Seq(Locations), position : Nat, back : BOOLEAN, forward : BOOLEAN]

\* A location is a file and one of its places.
LEMMA LocationIs ==
  /\ \A f \in Files : \A p \in PlacesOf[f] : [file |-> f, place |-> p] \in Locations
  /\ \A l \in Locations : /\ l.file \in Files /\ l.place \in PlacesOf[l.file]
                          /\ l = [file |-> l.file, place |-> l.place]
<1>1. ASSUME NEW f \in Files, NEW p \in PlacesOf[f]
      PROVE  [file |-> f, place |-> p] \in Locations
  <2>1. [file |-> f, place |-> p] \in [file : {f}, place : PlacesOf[f]]
    OBVIOUS
  <2> QED
    BY <2>1 DEF Locations
<1>2. ASSUME NEW l \in Locations
      PROVE  /\ l.file \in Files /\ l.place \in PlacesOf[l.file]
             /\ l = [file |-> l.file, place |-> l.place]
  <2>1. PICK f \in Files : l \in [file : {f}, place : PlacesOf[f]]
    BY DEF Locations
  <2> QED
    BY <2>1
<1> QED
  BY <1>1, <1>2

\* The history n with other entries and another position.
With(n, e, p) == [n EXCEPT !.entries = e, !.position = p]

LEMMA WithIs ==
  ASSUME NEW n \in HistoryType, NEW e \in Seq(Locations), NEW p \in Nat
  PROVE  /\ With(n, e, p) \in HistoryType
         /\ With(n, e, p).entries = e
         /\ With(n, e, p).position = p
BY DEF With, HistoryType

\* updateNavigatorActions changes only whether the actions are enabled.
LEMMA RefreshedIs ==
  ASSUME NEW n \in HistoryType
  PROVE  /\ Refreshed(n) \in HistoryType
         /\ Refreshed(n).entries = n.entries
         /\ Refreshed(n).position = n.position
<1> DEFINE back    == n.position > 0
           forward == n.position < Len(n.entries) - 1
<1>1. Refreshed(n) = [n EXCEPT !.back = back, !.forward = forward]
  BY DEF Refreshed
<1>2. back \in BOOLEAN /\ forward \in BOOLEAN
  OBVIOUS
<1> HIDE DEF back, forward
<1>3. /\ Refreshed(n).entries = n.entries /\ Refreshed(n).position = n.position
      /\ Refreshed(n).back = back /\ Refreshed(n).forward = forward
  BY <1>1 DEF HistoryType
<1>4. Refreshed(n) \in HistoryType
  BY <1>1, <1>2 DEF HistoryType
<1> QED
  BY <1>3, <1>4

\* The loop of addNavigationHistory leaves fewer than Limit entries.  It drops
\* `first' of them at the start, and only what is more than Half behind the
\* position; the rest goes at the end.
LEMMA TrimmedIs ==
  ASSUME NEW n \in HistoryType,
         n.position <= Len(n.entries), Len(n.entries) <= Limit + 1
  PROVE  /\ Trimmed(n) \in HistoryType
         /\ Len(Trimmed(n).entries) < Limit
         /\ Trimmed(n).position <= Len(Trimmed(n).entries)
         /\ \E first \in 0..n.position :
              /\ first = 0 \/ n.position - first >= Half
              /\ Trimmed(n).position = n.position - first
              /\ \A i \in 1..(n.position - first) :
                   Trimmed(n).entries[i] = n.entries[i + first]
<1> DEFINE excess == Len(n.entries) - (Limit - 1)
           first  == IF n.position <= Half THEN 0
                     ELSE IF n.position - Half < excess THEN n.position - Half
                     ELSE excess
           some   == SubSeq(n.entries, first + 1, first + Limit - 1)
<1>1. /\ n.entries \in Seq(Locations) /\ Len(n.entries) \in Nat /\ n.position \in Nat
      /\ n.back \in BOOLEAN /\ n.forward \in BOOLEAN
      /\ Limit \in Nat /\ Half \in Nat /\ 1 <= Half /\ Half <= Limit - 1
  BY NavigationAssumption DEF HistoryType
<1>2. CASE excess <= 0
  <2>1. Trimmed(n) = n
    BY <1>2 DEF Trimmed
  <2>2. Len(n.entries) < Limit
    BY <1>1, <1>2
  <2>3. 0 \in 0..n.position /\ n.position - 0 = n.position
        /\ \A i \in 1..n.position : i + 0 = i
    BY <1>1
  <2> QED
    BY <2>1, <2>2, <2>3
<1>3. CASE ~(excess <= 0)
  <2>1. Trimmed(n) = [n EXCEPT !.entries = some, !.position = n.position - first]
    BY <1>3 DEF Trimmed
  <2>2. /\ first \in 0..n.position /\ first <= excess
        /\ first = 0 \/ n.position - first >= Half
        /\ n.position - first <= Limit - 1
    <3>1. excess \in Nat /\ excess <= 2
      BY <1>1, <1>3
    <3> HIDE DEF excess
    <3>2. CASE n.position <= Half
      BY <1>1, <3>1, <3>2
    <3>3. CASE n.position > Half /\ n.position - Half < excess
      <4>1. first = n.position - Half
        BY <1>1, <3>3
      <4> QED
        BY <1>1, <3>1, <3>3, <4>1
    <3>4. CASE n.position > Half /\ n.position - Half >= excess
      <4>1. first = excess
        BY <1>1, <3>1, <3>4
      <4>2. n.position - excess <= Limit - 1
        BY <1>1 DEF excess
      <4> QED
        BY <1>1, <3>1, <3>4, <4>1, <4>2
    <3> QED
      BY <1>1, <3>1, <3>2, <3>3, <3>4
  <2>3. first + Limit - 1 <= Len(n.entries)
    BY <1>1, <2>2
  <2>4. \A i \in (first + 1)..(first + Limit - 1) : n.entries[i] \in Locations
    BY <1>1, <2>2, <2>3, ElementOfSeq, SMTT(30)
  <2> HIDE DEF first, excess
  <2>5. first + 1 \in Int /\ first + Limit - 1 \in Int
    BY <1>1, <2>2
  <2>6. /\ some \in Seq(Locations)
        /\ Len(some) = IF first + 1 <= first + Limit - 1
                       THEN (first + Limit - 1) - (first + 1) + 1 ELSE 0
        /\ \A i \in 1..((first + Limit - 1) - (first + 1) + 1) :
             some[i] = n.entries[(first + 1) + i - 1]
    BY <2>4, <2>5, SubSeqProperties
  <2> HIDE DEF some
  <2>7. Len(some) = Limit - 1 /\ \A i \in 1..(Limit - 1) : some[i] = n.entries[i + first]
    BY <1>1, <2>2, <2>6
  <2>8. /\ Trimmed(n).entries = some /\ Trimmed(n).position = n.position - first
        /\ Trimmed(n).back = n.back /\ Trimmed(n).forward = n.forward
        /\ Trimmed(n) = [entries |-> some, position |-> n.position - first,
                         back |-> n.back, forward |-> n.forward]
    BY <2>1 DEF HistoryType
  <2>9. n.position - first \in Nat
    BY <1>1, <2>2
  <2>10. Trimmed(n) \in HistoryType
    BY <1>1, <2>6, <2>8, <2>9 DEF HistoryType
  <2>11. \A i \in 1..(n.position - first) : i \in 1..(Limit - 1)
    BY <1>1, <2>2
  <2>12. /\ Len(Trimmed(n).entries) < Limit
         /\ Trimmed(n).position <= Len(Trimmed(n).entries)
    BY <1>1, <2>2, <2>7, <2>8
  <2> QED
    BY <2>2, <2>7, <2>8, <2>10, <2>11, <2>12
<1> QED
  BY <1>2, <1>3

-----------------------------------------------------------------------------
(* Trimmed is the loop.                                                    *)

\* A set of numbers that is not empty has a first one.
LEMMA FirstIsOne ==
  ASSUME NEW numbers \in SUBSET Nat, numbers # {}
  PROVE  \E first \in numbers : \A n \in numbers : first <= n
<1> DEFINE below == {p \in Nat \X Nat : p[1] < p[2]}
<1>1. IsWellFoundedOn(below, Nat)
  BY NatLessThanWellFounded DEF OpToRel
<1>2. \A m, n \in Nat : m < n => <<m, n>> \in below
  OBVIOUS
<1> HIDE DEF below
<1>3. \E first \in numbers : \A n \in numbers : <<n, first>> \notin below
  BY <1>1, WFMin
<1>4. \A m, n \in Nat : ~(m < n) => n <= m
  OBVIOUS
<1> QED
  BY <1>2, <1>3, <1>4

\* What holds of 0, and of n + 1 if it holds of n, holds up to N.
LEMMA UpTo ==
  ASSUME NEW N \in Nat, NEW holds, 0 \in holds,
         \A n \in 0..(N - 1) : n \in holds => n + 1 \in holds
  PROVE  0..N \subseteq holds
<1> DEFINE missing == (0..N) \ holds
<1> SUFFICES ASSUME missing # {} PROVE FALSE
  OBVIOUS
<1>0. missing \in SUBSET Nat
  OBVIOUS
<1>1. PICK n \in missing : \A m \in missing : n <= m
  <2> HIDE DEF missing
  <2> QED
    BY <1>0, FirstIsOne
<1>2. n \in 1..N /\ n - 1 \in 0..(N - 1) /\ n - 1 \notin missing
  BY <1>1
<1> QED
  BY <1>1, <1>2

\* A part of a sequence, and the part without its last element.
LEMMA PartIs ==
  ASSUME NEW S, NEW s \in Seq(S), NEW i \in 1..(Len(s) + 1), NEW j \in (i - 1)..Len(s)
  PROVE  /\ SubSeq(s, i, j) \in Seq(S)
         /\ Len(SubSeq(s, i, j)) = j - i + 1
         /\ \A k \in 1..(j - i + 1) : SubSeq(s, i, j)[k] = s[i + k - 1]
<1>1. i \in Int /\ j \in Int /\ i - 1 <= j /\ Len(s) \in Nat
  OBVIOUS
<1>2. \A k \in i..j : s[k] \in S
  BY <1>1, ElementOfSeq
<1>3. /\ SubSeq(s, i, j) \in Seq(S)
      /\ Len(SubSeq(s, i, j)) = IF i <= j THEN j - i + 1 ELSE 0
      /\ \A k \in 1..(j - i + 1) : SubSeq(s, i, j)[k] = s[i + k - 1]
  BY <1>1, <1>2, SubSeqProperties
<1> QED
  BY <1>1, <1>3

LEMMA FrontOfPart ==
  ASSUME NEW S, NEW s \in Seq(S), NEW i \in 1..Len(s), NEW j \in i..Len(s)
  PROVE  Front(SubSeq(s, i, j)) = SubSeq(s, i, j - 1)
<1> DEFINE part == SubSeq(s, i, j)
           less == SubSeq(s, i, j - 1)
<1>1. /\ i \in 1..(Len(s) + 1) /\ j \in (i - 1)..Len(s) /\ j - 1 \in (i - 1)..Len(s)
      /\ j - i + 1 \in Nat /\ j - i + 1 # 0 /\ (j - 1) - i + 1 = j - i
  OBVIOUS
<1>2. /\ part \in Seq(S) /\ Len(part) = j - i + 1
      /\ \A k \in 1..(j - i + 1) : part[k] = s[i + k - 1]
  BY <1>1, PartIs
<1>3. /\ less \in Seq(S) /\ Len(less) = j - i
      /\ \A k \in 1..(j - i) : less[k] = s[i + k - 1]
  BY <1>1, PartIs
<1> HIDE DEF part, less
<1>4. part # <<>>
  BY <1>1, <1>2
<1>5. /\ Front(part) \in Seq(S) /\ Len(Front(part)) = j - i
      /\ \A k \in 1..(j - i) : Front(part)[k] = part[k]
  <2>1. part \in Seq(S)
    BY <1>2
  <2>2. /\ Front(part) \in Seq(S) /\ Len(Front(part)) = Len(part) - 1
        /\ \A k \in 1..(Len(part) - 1) : Front(part)[k] = part[k]
    BY <2>1, <1>4, FrontIs
  <2>3. Len(part) = j - i + 1
    BY <1>2
  <2>4. Len(part) - 1 = j - i
    BY <2>3
  <2> QED
    BY <2>2, <2>4
<1>6. \A k \in 1..(j - i) : Front(part)[k] = less[k]
  <2> TAKE k \in 1..(j - i)
  <2>1. k \in 1..(j - i + 1)
    OBVIOUS
  <2>2. Front(part)[k] = part[k]
    BY <1>5
  <2>3. part[k] = s[i + k - 1]
    BY <1>2, <2>1
  <2>4. less[k] = s[i + k - 1]
    BY <1>3
  <2> QED
    BY <2>2, <2>3, <2>4
<1>7. Front(part) = less
  BY <1>3, <1>5, <1>6, SeqEqual
<1> QED
  BY <1>7 DEF part, less

\* How many of d dropped entries are the oldest ones.
Oldest(n, d) ==
  IF n.position <= Half THEN 0
  ELSE IF n.position - Half < d THEN n.position - Half ELSE d

\* The history n after d entries have been dropped.
Shortened(n, d) ==
  [entries  |-> SubSeq(n.entries, Oldest(n, d) + 1, Oldest(n, d) + Len(n.entries) - d),
   position |-> n.position - Oldest(n, d), back |-> n.back, forward |-> n.forward]

Excess(n) == IF Len(n.entries) < Limit THEN 0 ELSE Len(n.entries) - (Limit - 1)

LEMMA HistoryFacts ==
  ASSUME NEW n \in HistoryType
  PROVE  /\ n = [entries |-> n.entries, position |-> n.position, back |-> n.back, forward |-> n.forward]
         /\ n.entries \in Seq(Locations) /\ Len(n.entries) \in Nat /\ n.position \in Nat
         /\ Limit \in Nat /\ Half \in Nat /\ 1 <= Half /\ Half <= Limit - 1
         /\ Excess(n) \in 0..Len(n.entries)
         /\ \A d \in 0..Len(n.entries) : Oldest(n, d) \in 0..d /\ Oldest(n, d) \in Nat
<1>1. /\ n = [entries |-> n.entries, position |-> n.position, back |-> n.back, forward |-> n.forward]
      /\ n.entries \in Seq(Locations) /\ n.position \in Nat
  BY DEF HistoryType
<1>2. Limit \in Nat /\ Half \in Nat /\ 1 <= Half /\ Half <= Limit - 1
  BY NavigationAssumption
<1>3. Len(n.entries) \in Nat
  BY <1>1
<1>4. Excess(n) \in 0..Len(n.entries)
  BY <1>2, <1>3 DEF Excess
<1>5. \A d \in 0..Len(n.entries) : Oldest(n, d) \in 0..d /\ Oldest(n, d) \in Nat
  BY <1>1, <1>2, <1>3 DEF Oldest
<1> QED
  BY <1>1, <1>2, <1>3, <1>4, <1>5

LEMMA ShortenedType ==
  ASSUME NEW n \in HistoryType, NEW d \in 0..Len(n.entries)
  PROVE  /\ Shortened(n, d).entries \in Seq(Locations)
         /\ Len(Shortened(n, d).entries) = Len(n.entries) - d
         /\ Shortened(n, d).position = n.position - Oldest(n, d)
<1> DEFINE o == Oldest(n, d)
           L == Len(n.entries)
<1>1. n.entries \in Seq(Locations) /\ L \in Nat /\ o \in Nat /\ o <= d /\ d <= L /\ d \in Nat
  BY HistoryFacts
<1>2. /\ Shortened(n, d).entries = SubSeq(n.entries, o + 1, o + L - d)
      /\ Shortened(n, d).position = n.position - o
  BY DEF Shortened
<1> HIDE DEF o
<1>3. o + 1 \in 1..(L + 1) /\ o + L - d \in ((o + 1) - 1)..L /\ (o + L - d) - (o + 1) + 1 = L - d
  BY <1>1
<1>4. /\ SubSeq(n.entries, o + 1, o + L - d) \in Seq(Locations)
      /\ Len(SubSeq(n.entries, o + 1, o + L - d)) = (o + L - d) - (o + 1) + 1
  BY <1>1, <1>3, PartIs
<1> QED
  BY <1>2, <1>3, <1>4 DEF o

\* A round of the loop drops one entry more.
LEMMA RoundShortens ==
  ASSUME NEW n \in HistoryType, NEW d \in Nat, d < Excess(n)
  PROVE  TrimRound(Shortened(n, d)) = Shortened(n, d + 1)
<1> DEFINE o == Oldest(n, d)
           L == Len(n.entries)
           h == Shortened(n, d)
<1>1. /\ n.entries \in Seq(Locations) /\ L \in Nat /\ n.position \in Nat
      /\ Limit \in Nat /\ Half \in Nat /\ 1 <= Half /\ Half <= Limit - 1
      /\ d + 1 <= L - (Limit - 1)
  BY HistoryFacts DEF Excess
<1>2. d \in 0..L /\ d + 1 \in 0..L /\ o \in 0..d /\ o \in Nat
  BY <1>1, HistoryFacts
<1>3. h.entries = SubSeq(n.entries, o + 1, o + L - d) /\ h.position = n.position - o
  BY DEF Shortened
<1>4. /\ h = [entries |-> SubSeq(n.entries, o + 1, o + L - d),
              position |-> n.position - o, back |-> n.back, forward |-> n.forward]
      /\ Len(h.entries) = L - d /\ ~(L - d < Limit)
  <2>1. Len(h.entries) = L - d
    BY <1>2, ShortenedType
  <2> QED
    BY <1>1, <1>2, <2>1 DEF Shortened
<1>5. o + 1 \in 1..L /\ o + L - d \in (o + 1)..L
  <2> HIDE DEF o, L
  <2>1. d + 1 <= L
    BY <1>1
  <2>2. o \in Nat /\ o <= d
    BY <1>2
  <2> QED
    BY <1>1, <2>1, <2>2
<1> HIDE DEF h
<1>6. CASE n.position - o > Half
  <2>1. Oldest(n, d + 1) = o + 1 /\ o = d
    BY <1>1, <1>2, <1>6 DEF Oldest
  <2>2. Tail(SubSeq(n.entries, o + 1, o + L - d)) = SubSeq(n.entries, (o + 1) + 1, o + L - d)
    BY <1>1, <1>5, HeadTailOfSubSeq
  <2>3. TrimRound(h) = [h EXCEPT !.entries = Tail(h.entries), !.position = h.position - 1]
    BY <1>4, <1>3, <1>6 DEF TrimRound
  <2>4. TrimRound(h) = [entries |-> Tail(SubSeq(n.entries, o + 1, o + L - d)),
                        position |-> n.position - o - 1, back |-> n.back, forward |-> n.forward]
    BY <1>4, <1>3, <2>3
  <2>5. Shortened(n, d + 1)
          = [entries |-> SubSeq(n.entries, (o + 1) + 1, (o + 1) + L - (d + 1)),
             position |-> n.position - (o + 1), back |-> n.back, forward |-> n.forward]
    BY <2>1 DEF Shortened
  <2>6. (o + 1) + L - (d + 1) = o + L - d /\ n.position - (o + 1) = n.position - o - 1
    BY <1>1, <1>2
  <2> QED
    BY <2>2, <2>4, <2>5, <2>6 DEF h
<1>7. CASE ~(n.position - o > Half)
  <2>1. Oldest(n, d + 1) = o
    BY <1>1, <1>2, <1>7 DEF Oldest
  <2>2. Front(SubSeq(n.entries, o + 1, o + L - d)) = SubSeq(n.entries, o + 1, (o + L - d) - 1)
    BY <1>1, <1>5, FrontOfPart
  <2>3. TrimRound(h) = [h EXCEPT !.entries = Front(h.entries)]
    BY <1>4, <1>3, <1>7 DEF TrimRound
  <2>4. TrimRound(h) = [entries |-> Front(SubSeq(n.entries, o + 1, o + L - d)),
                        position |-> n.position - o, back |-> n.back, forward |-> n.forward]
    BY <1>4, <1>3, <2>3
  <2>5. Shortened(n, d + 1)
          = [entries |-> SubSeq(n.entries, o + 1, o + L - (d + 1)),
             position |-> n.position - o, back |-> n.back, forward |-> n.forward]
    BY <2>1 DEF Shortened
  <2>6. o + L - (d + 1) = (o + L - d) - 1
    BY <1>1, <1>2
  <2> QED
    BY <2>2, <2>4, <2>5, <2>6 DEF h
<1> QED
  BY <1>6, <1>7

LEMMA ShortenedEnds ==
  ASSUME NEW n \in HistoryType
  PROVE  /\ Shortened(n, 0) = n
         /\ Shortened(n, Excess(n)) = Trimmed(n)
         /\ Len(Shortened(n, Excess(n)).entries) < Limit
<1> DEFINE L == Len(n.entries)
<1>1. /\ n = [entries |-> n.entries, position |-> n.position, back |-> n.back, forward |-> n.forward]
      /\ n.entries \in Seq(Locations) /\ L \in Nat /\ n.position \in Nat
      /\ Limit \in Nat /\ Half \in Nat /\ 1 <= Half /\ Half <= Limit - 1
      /\ Excess(n) \in 0..L
  BY HistoryFacts
<1>2. Shortened(n, 0) = n
  <2>1. Oldest(n, 0) = 0
    BY <1>1 DEF Oldest
  <2>2. Shortened(n, 0) = [entries |-> SubSeq(n.entries, 0 + 1, 0 + L - 0),
                           position |-> n.position - 0, back |-> n.back, forward |-> n.forward]
    BY <2>1 DEF Shortened
  <2>3. 0 + 1 = 1 /\ 0 + L - 0 = L /\ n.position - 0 = n.position
    BY <1>1
  <2>4. SubSeq(n.entries, 1, L) = n.entries
    BY <1>1, SubSeqFull
  <2> QED
    BY <1>1, <2>2, <2>3, <2>4
<1>3. Len(Shortened(n, Excess(n)).entries) < Limit
  <2>1. Len(Shortened(n, Excess(n)).entries) = L - Excess(n)
    BY <1>1, ShortenedType
  <2> QED
    BY <1>1, <2>1 DEF Excess
<1>4. Shortened(n, Excess(n)) = Trimmed(n)
  <2>1. CASE L < Limit
    <3>1. Excess(n) = 0 /\ L - (Limit - 1) <= 0
      BY <1>1, <2>1 DEF Excess
    <3>2. Trimmed(n) = n
      BY <3>1 DEF Trimmed
    <3> QED
      BY <1>2, <3>1, <3>2
  <2>2. CASE ~(L < Limit)
    <3> DEFINE excess == L - (Limit - 1)
               o == Oldest(n, excess)
    <3>1. Excess(n) = excess /\ excess \in Nat /\ ~(excess <= 0)
      BY <1>1, <2>2 DEF Excess
    <3>2. o \in Nat
      BY <1>1, <3>1, HistoryFacts
    <3>3. Trimmed(n) = [n EXCEPT !.entries  = SubSeq(n.entries, o + 1, o + Limit - 1),
                                 !.position = n.position - o]
      BY <3>1 DEF Trimmed, Oldest
    <3>4. o + L - excess = o + Limit - 1
      <4> HIDE DEF o
      <4> QED
        BY <1>1, <3>2
    <3>5. Shortened(n, excess)
            = [entries |-> SubSeq(n.entries, o + 1, o + L - excess),
               position |-> n.position - o, back |-> n.back, forward |-> n.forward]
      BY DEF Shortened
    <3> HIDE DEF o, excess
    <3>6. Trimmed(n) = [entries |-> SubSeq(n.entries, o + 1, o + Limit - 1),
                        position |-> n.position - o, back |-> n.back, forward |-> n.forward]
      BY <1>1, <3>3
    <3> QED
      BY <3>1, <3>4, <3>5, <3>6
  <2> QED
    BY <2>1, <2>2
<1> QED
  BY <1>2, <1>3, <1>4

\* What is left after each round, and the loop comes to no other end: Trimmed is
\* what the loop of addNavigationHistory leaves of any history.
LEMMA TrimmedByLoop ==
  ASSUME NEW n \in HistoryType
  PROVE  Trimmed(n) = TrimLoop(n)
<1> DEFINE L == Len(n.entries)
           E == Excess(n)
           dropped(k) == IF k < E THEN k ELSE E
           f == [k \in 0..L |-> Shortened(n, dropped(k))]
           Loop(g) == g = [k \in 0..L |-> IF k = 0 THEN n ELSE TrimRound(g[k - 1])]
           g == CHOOSE g : Loop(g)
<1>1. L \in Nat /\ E \in Nat /\ E <= L
  BY HistoryFacts
<1>2. TrimLoop(n) = g[L]
  BY DEF TrimLoop
<1>3. \A k \in 1..L : f[k] = TrimRound(f[k - 1])
  <2> SUFFICES ASSUME NEW k \in 1..L PROVE f[k] = TrimRound(f[k - 1])
    OBVIOUS
  <2> HIDE DEF E, L
  <2>1. k - 1 \in 0..L /\ k \in 0..L /\ k - 1 \in Nat /\ (k - 1) + 1 = k
    BY <1>1
  <2>2. CASE k - 1 < E
    <3>1. dropped(k - 1) = k - 1 /\ dropped(k) = k
      BY <1>1, <2>1, <2>2
    <3>2. TrimRound(Shortened(n, k - 1)) = Shortened(n, (k - 1) + 1)
      BY <2>1, <2>2, RoundShortens DEF E
    <3> QED
      BY <2>1, <3>1, <3>2
  <2>3. CASE ~(k - 1 < E)
    <3>1. dropped(k - 1) = E /\ dropped(k) = E
      BY <1>1, <2>1, <2>3
    <3>2. TrimRound(Shortened(n, E)) = Shortened(n, E)
      BY ShortenedEnds DEF TrimRound, E
    <3> QED
      BY <2>1, <3>1, <3>2
  <2> QED
    BY <2>2, <2>3
<1>4. f[0] = n /\ f[L] = Trimmed(n)
  <2>1. dropped(0) = 0 /\ dropped(L) = E /\ 0 \in 0..L /\ L \in 0..L
    BY <1>1
  <2>2. f[0] = Shortened(n, 0) /\ f[L] = Shortened(n, E)
    <3> HIDE DEF E, L
    <3> QED
      BY <2>1
  <2> QED
    BY <2>2, ShortenedEnds
<1>5. Loop(f)
  <2>1. f = [k \in 0..L |-> f[k]]
    OBVIOUS
  <2> HIDE DEF f
  <2>2. \A k \in 0..L : f[k] = IF k = 0 THEN n ELSE TrimRound(f[k - 1])
    BY <1>1, <1>3, <1>4
  <2> QED
    BY <2>1, <2>2
<1> HIDE DEF f, E
<1>6. Loop(g)
  <2> HIDE DEF g
  <2> QED
    BY <1>5 DEF g
<1> HIDE DEF g
<1>7. g[0] = n /\ \A k \in 1..L : g[k] = TrimRound(g[k - 1])
  <2>1. 0 \in 0..L /\ \A k \in 1..L : k \in 0..L /\ k # 0
    BY <1>1
  <2> QED
    BY <1>6, <2>1
<1> DEFINE same == {k \in 0..L : f[k] = g[k]}
<1>8. 0 \in same
  BY <1>1, <1>4, <1>7
<1>9. ASSUME NEW k \in 0..(L - 1), k \in same PROVE k + 1 \in same
  <2>1. k + 1 \in 1..L /\ (k + 1) - 1 = k /\ k + 1 \in 0..L
    BY <1>1
  <2>2. f[k] = g[k]
    BY <1>9
  <2>3. f[k + 1] = TrimRound(f[k]) /\ g[k + 1] = TrimRound(g[k])
    BY <1>3, <1>7, <2>1
  <2> QED
    BY <2>1, <2>2, <2>3
<1> HIDE DEF same
<1>10. 0..L \subseteq same
  BY <1>1, <1>8, <1>9, UpTo
<1>11. f[L] = g[L]
  BY <1>1, <1>10 DEF same
<1> QED
  BY <1>2, <1>4, <1>11

-----------------------------------------------------------------------------
(* Adding a location.                                                      *)

\* History a is history n after the location l has been added: behind its
\* position it ends with l, and before l are the latest of those behind the
\* position of n, all of them or Half - 1 at least.
KeptOne(n, a, l) ==
  LET kept == a.position - 1 IN
  /\ kept \in 0..n.position
  /\ kept = n.position \/ kept >= Half - 1
  /\ \A i \in 1..kept : a.entries[i] = n.entries[i + (n.position - kept)]
  /\ a.entries[a.position] = l

LEMMA AddedIs ==
  ASSUME NEW n, IsHistory(n), NEW l \in Locations
  PROVE  /\ IsHistory(Added(n, l))
         /\ Added(n, l) = n \/ KeptOne(n, Added(n, l), l)
<1> DEFINE es == n.entries
           at == n.position
<1>1. /\ n \in HistoryType /\ es \in Seq(Locations) /\ Len(es) \in Nat
      /\ at \in Nat /\ at <= Len(es) /\ Len(es) <= Limit
      /\ Limit \in Nat /\ Half \in Nat /\ 1 <= Half /\ Half <= Limit - 1
  BY NavigationAssumption DEF IsHistory, HistoryType
<1>2. CASE at > 0 /\ es[at] = l
  BY <1>2 DEF Added
<1>3. CASE ~(at > 0 /\ es[at] = l)
  <2> DEFINE more  == InsertAt(es, at + 1, l)
             next  == at + 1
             grown == With(n, more, next)
             a     == Added(n, l)
             p     == a.position
  <2>1. a = Refreshed(Trimmed(grown))
    BY <1>3 DEF Added, With
  <2> HIDE DEF es, at
  <2>2. /\ more \in Seq(Locations) /\ Len(more) = Len(es) + 1
        /\ \A j \in 1..at : more[j] = es[j]
        /\ more[at + 1] = l
    <3>1. at + 1 \in 1..(Len(es) + 1)
      BY <1>1
    <3>2. /\ more \in Seq(Locations) /\ Len(more) = Len(es) + 1
          /\ \A j \in 1..(Len(es) + 1) :
               more[j] = IF j < at + 1 THEN es[j] ELSE IF j = at + 1 THEN l ELSE es[j - 1]
      BY <1>1, <3>1, InsertAtIs
    <3> HIDE DEF more
    <3> QED
      BY <1>1, <3>1, <3>2
  <2> HIDE DEF more
  <2>3. /\ grown \in HistoryType
        /\ grown.entries = more /\ grown.position = at + 1
    <3>1. next \in Nat
      BY <1>1
    <3> HIDE DEF next
    <3>2. n \in HistoryType /\ more \in Seq(Locations)
      BY <1>1, <2>2
    <3>3. /\ grown \in HistoryType
          /\ grown.entries = more /\ grown.position = next
      BY <3>1, <3>2, WithIs
    <3> QED
      BY <3>3 DEF next
  <2> HIDE DEF grown
  <2>4. grown.position <= Len(grown.entries) /\ Len(grown.entries) <= Limit + 1
    BY <1>1, <2>2, <2>3
  <2>5. /\ Trimmed(grown) \in HistoryType
        /\ Len(Trimmed(grown).entries) < Limit
        /\ Trimmed(grown).position <= Len(Trimmed(grown).entries)
        /\ \E first \in 0..grown.position :
             /\ first = 0 \/ grown.position - first >= Half
             /\ Trimmed(grown).position = grown.position - first
             /\ \A i \in 1..(grown.position - first) :
                  Trimmed(grown).entries[i] = grown.entries[i + first]
    BY <2>3, <2>4, TrimmedIs
  <2>6. /\ a \in HistoryType /\ a.entries = Trimmed(grown).entries
        /\ p = Trimmed(grown).position
    BY <2>1, <2>5, RefreshedIs
  <2>7. PICK first \in 0..(at + 1) :
          /\ first = 0 \/ at + 1 - first >= Half
          /\ p = at + 1 - first
          /\ \A i \in 1..p : a.entries[i] = more[i + first]
    <3>1. PICK first \in 0..grown.position :
            /\ first = 0 \/ grown.position - first >= Half
            /\ Trimmed(grown).position = grown.position - first
            /\ \A i \in 1..(grown.position - first) :
                 Trimmed(grown).entries[i] = grown.entries[i + first]
      BY <2>5
    <3> HIDE DEF a
    <3>2. p = at + 1 - first /\ first \in 0..(at + 1)
      BY <1>1, <2>3, <2>6, <3>1
    <3>3. \A i \in 1..p : a.entries[i] = more[i + first]
      BY <2>3, <2>6, <3>1
    <3>4. first = 0 \/ at + 1 - first >= Half
      BY <1>1, <2>3, <3>1
    <3> QED
      BY <3>2, <3>3, <3>4
  <2> HIDE DEF a
  <2>8. IsHistory(a)
    <3>1. Len(a.entries) \in Nat
      BY <2>6 DEF HistoryType
    <3> QED
      BY <1>1, <2>5, <2>6, <3>1 DEF IsHistory, HistoryType
  <2> HIDE DEF p
  <2>9. KeptOne(n, a, l)
    <3>1. p \in Nat /\ p >= 1 /\ p - 1 = at - first /\ first \in 0..at
      BY <1>1, <2>7
    <3>2. ASSUME NEW i \in 1..(p - 1)
          PROVE  a.entries[i] = es[i + (at - (p - 1))]
      <4>1. i \in 1..p /\ at - (p - 1) = first /\ i + first \in 1..at
        BY <1>1, <3>1
      <4>2. a.entries[i] = more[i + first]
        BY <2>7, <4>1
      <4> QED
        BY <2>2, <4>1, <4>2, <1>1
    <3>3. a.entries[p] = l
      <4>1. p \in 1..p /\ p + first = at + 1
        BY <1>1, <2>7, <3>1
      <4>2. a.entries[p] = more[p + first]
        BY <2>7, <4>1
      <4> QED
        BY <2>2, <4>1, <4>2
    <3>4. p - 1 = at \/ p - 1 >= Half - 1
      BY <1>1, <2>7, <3>1
    <3>5. p - 1 \in 0..at
      BY <1>1, <3>1
    <3> QED
      BY <3>2, <3>3, <3>4, <3>5 DEF KeptOne, p, es, at
  <2> QED
    BY <2>8, <2>9 DEF a
<1> QED
  BY <1>2, <1>3 DEF es, at

\* History m is n, or n with the location of an open editor added.
Grown(n, m) ==
  m = n \/ \E l \in Locations : l.file \in open /\ KeptOne(n, m, l)

\* The location of an editor, open or closed.
LEMMA LocationOf ==
  ASSUME NavTypeOK, NEW f \in Files
  PROVE  Location(f) \in Locations /\ Location(f).file = f
<1>1. place[f] \in PlacesOf[f]
  BY DEF NavTypeOK
<1> QED
  BY <1>1, LocationIs DEF Location

\* setCurrentEditor adds the location of the editor that is left, or nothing.
LEMMA SwitchedIs ==
  ASSUME NavTypeOK, NEW n, IsHistory(n), NEW from, NEW to, NEW ignore \in BOOLEAN,
         from \in open \cup {to, NoFile}
  PROVE  IsHistory(Switched(n, from, to, ignore)) /\ Grown(n, Switched(n, from, to, ignore))
<1>1. CASE to \in {from, NoFile} \/ from = NoFile \/ ignore
  BY <1>1 DEF Switched, Grown
<1>2. CASE ~(to \in {from, NoFile} \/ from = NoFile \/ ignore)
  <2>1. from \in open /\ from \in Files
    BY <1>2 DEF NavTypeOK
  <2>2. Location(from) \in Locations /\ Location(from).file = from
    BY <2>1, LocationOf
  <2>3. Switched(n, from, to, ignore) = Added(n, Location(from))
    BY <1>2 DEF Switched
  <2> QED
    BY <2>1, <2>2, <2>3, AddedIs DEF Grown
<1> QED
  BY <1>1, <1>2

-----------------------------------------------------------------------------
(* Noting the location that is left, and the steps of Backward and Forward.*)

\* updateCurrentPositionInNavigationHistory changes nothing but the entry at
\* the position, which becomes the location of the current editor.
LEMMA WithHereIs ==
  ASSUME IsHistory(nav), current # NoFile => Here \in Locations
  PROVE  LET left == WithHere(nav) IN
         /\ left \in HistoryType
         /\ left.position = nav.position
         /\ Len(left.entries) <= Limit
         /\ Len(nav.entries) <= Len(left.entries)
         /\ \A i \in 1..Len(nav.entries) :
              i # nav.position + 1 => left.entries[i] = nav.entries[i]
         /\ current = NoFile => left = nav
         /\ current # NoFile => /\ nav.position < Len(left.entries)
                                /\ left.entries[nav.position + 1] = Here
<1> DEFINE es == nav.entries
           at == nav.position
           next == at + 1
<1>1. /\ nav \in HistoryType /\ es \in Seq(Locations) /\ Len(es) \in Nat
      /\ at \in Nat /\ at <= Len(es) /\ Len(es) <= Limit
      /\ at = Len(es) => Len(es) < Limit
      /\ Limit \in Nat
  BY NavigationAssumption DEF IsHistory, HistoryType
<1>2. CASE current = NoFile
  BY <1>1, <1>2 DEF WithHere
<1>3. CASE current # NoFile /\ at < Len(es)
  <2> DEFINE more == [es EXCEPT ![next] = Here]
  <2>1. WithHere(nav) = With(nav, more, at)
    <3>1. WithHere(nav) = [nav EXCEPT !.entries = more]
      BY <1>3 DEF WithHere, ReplaceAt
    <3> HIDE DEF more, at
    <3>2. [nav EXCEPT !.entries = more] = With(nav, more, nav.position)
      BY <1>1 DEF With, HistoryType
    <3> QED
      BY <3>1, <3>2 DEF at
  <2>2. es \in Seq(Locations) /\ next \in 1..Len(es) /\ Here \in Locations
    BY <1>1, <1>3
  <2> HIDE DEF next, es
  <2>3. /\ more \in Seq(Locations) /\ Len(more) = Len(es)
        /\ \A j \in 1..Len(es) : more[j] = IF j = next THEN Here ELSE es[j]
    BY <2>2, ExceptSeq
  <2> HIDE DEF more, at
  <2>4. nav \in HistoryType /\ more \in Seq(Locations) /\ at \in Nat
    BY <1>1, <2>3
  <2>5. /\ WithHere(nav) \in HistoryType
        /\ WithHere(nav).entries = more /\ WithHere(nav).position = at
    BY <2>1, <2>4, WithIs
  <2>6. more[next] = Here
    BY <2>2, <2>3
  <2> QED
    BY <1>1, <1>3, <2>3, <2>5, <2>6 DEF next, es, at
<1>4. CASE current # NoFile /\ at = Len(es)
  <2> DEFINE more == Append(es, Here)
  <2>1. WithHere(nav) = With(nav, more, at)
    <3>1. WithHere(nav) = [nav EXCEPT !.entries = more]
      BY <1>4 DEF WithHere
    <3> HIDE DEF more, at
    <3>2. [nav EXCEPT !.entries = more] = With(nav, more, nav.position)
      BY <1>1 DEF With, HistoryType
    <3> QED
      BY <3>1, <3>2 DEF at
  <2> HIDE DEF es
  <2>2. /\ more \in Seq(Locations) /\ Len(more) = Len(es) + 1
        /\ \A j \in 1..Len(es) : more[j] = es[j]
        /\ more[Len(es) + 1] = Here
    BY <1>1, <1>4
  <2> HIDE DEF more, at
  <2>3. nav \in HistoryType /\ more \in Seq(Locations) /\ at \in Nat
    BY <1>1, <2>2
  <2>4. /\ WithHere(nav) \in HistoryType
        /\ WithHere(nav).entries = more /\ WithHere(nav).position = at
    BY <2>1, <2>3, WithIs
  <2> QED
    BY <1>1, <1>4, <2>2, <2>4 DEF es, at
<1> QED
  BY <1>1, <1>2, <1>3, <1>4

\* A step back, from the location noted.
LEMMA BackIs ==
  ASSUME NEW left \in HistoryType, left.position > 0
  PROVE  LET moved == [left EXCEPT !.position = @ - 1] IN
         /\ moved \in HistoryType
         /\ moved.entries = left.entries
         /\ moved.position = left.position - 1
<1> DEFINE before == left.position - 1
<1>1. before \in Nat /\ left.entries \in Seq(Locations)
  BY DEF HistoryType
<1> HIDE DEF before
<1>2. [left EXCEPT !.position = before] = With(left, left.entries, before)
  BY DEF With, HistoryType
<1> QED
  BY <1>1, <1>2, WithIs DEF before

\* A step forward.
LEMMA ForwardIs ==
  ASSUME NEW left \in HistoryType
  PROVE  LET moved == [left EXCEPT !.position = @ + 1] IN
         /\ moved \in HistoryType
         /\ moved.entries = left.entries
         /\ moved.position = left.position + 1
<1> DEFINE after == left.position + 1
<1>1. after \in Nat /\ left.entries \in Seq(Locations)
  BY DEF HistoryType
<1> HIDE DEF after
<1>2. [left EXCEPT !.position = after] = With(left, left.entries, after)
  BY DEF With, HistoryType
<1> QED
  BY <1>1, <1>2, WithIs DEF after

\* goBack removes the entry at the position.
LEMMA DroppedIs ==
  ASSUME NEW n \in HistoryType, n.position < Len(n.entries)
  PROVE  /\ Dropped(n) \in HistoryType
         /\ Dropped(n).position = n.position
         /\ Len(Dropped(n).entries) = Len(n.entries) - 1
         /\ \A i \in 1..(Len(n.entries) - 1) :
              i > n.position => Dropped(n).entries[i] = n.entries[i + 1]
<1> DEFINE next == n.position + 1
           less == RemoveAt(n.entries, next)
<1>1. /\ n.entries \in Seq(Locations) /\ n.position \in Nat /\ Len(n.entries) \in Nat
      /\ next \in 1..Len(n.entries)
  BY DEF HistoryType
<1>2. Dropped(n) = [n EXCEPT !.entries = less]
  BY DEF Dropped
<1> HIDE DEF next
<1>3. /\ less \in Seq(Locations) /\ Len(less) = Len(n.entries) - 1
      /\ \A j \in 1..(Len(n.entries) - 1) :
           less[j] = IF j < next THEN n.entries[j] ELSE n.entries[j + 1]
  <2>1. n.entries \in Seq(Locations) /\ next \in 1..Len(n.entries)
    BY <1>1
  <2> QED
    BY <2>1, RemoveAtIs
<1> HIDE DEF less
<1>4. [n EXCEPT !.entries = less] = With(n, less, n.position)
  BY DEF With, HistoryType
<1>5. less \in Seq(Locations) /\ n.position \in Nat
  BY <1>1, <1>3
<1>6. /\ Dropped(n) \in HistoryType
      /\ Dropped(n).entries = less /\ Dropped(n).position = n.position
  BY <1>2, <1>4, <1>5, WithIs
<1>7. \A j \in 1..(Len(n.entries) - 1) : j > n.position => less[j] = n.entries[j + 1]
  BY <1>1, <1>3 DEF next
<1> QED
  BY <1>3, <1>6, <1>7

-----------------------------------------------------------------------------
(* The tabs.                                                               *)

\* The tabs after an action stay within their number.
TabsOK ==
  /\ open' \subseteq Files /\ IsFiniteSet(open') /\ Cardinality(open') <= MaxEditors
  /\ current' \in open' \cup {NoFile}

\* openEditor closes a tab when there is one too many.
LEMMA TabOpenedIs ==
  ASSUME NavTypeOK, NEW f \in Files, NEW victim, NEW heir, TabOpened(f, victim, heir)
  PROVE  /\ open' \subseteq Files /\ IsFiniteSet(open')
         /\ Cardinality(open') <= MaxEditors
         /\ f \in open'
         /\ heir \in open \cup {f, NoFile}
<1>1. /\ open \subseteq Files /\ IsFiniteSet(open) /\ Cardinality(open) \in Nat
      /\ Cardinality(open) <= MaxEditors /\ MaxEditors \in Nat
      /\ current \in open \cup {NoFile}
  BY FS_CardinalityType, NavigationAssumption DEF NavTypeOK
<1>2. /\ IsFiniteSet(open \cup {f})
      /\ Cardinality(open \cup {f})
           = IF f \in open THEN Cardinality(open) ELSE Cardinality(open) + 1
  BY <1>1, FS_AddElement
<1>3. CASE /\ f \in open \/ Cardinality(open) < MaxEditors
           /\ victim = NoFile /\ heir = current
           /\ open' = open \cup {f}
  BY <1>1, <1>2, <1>3
<1>4. CASE /\ f \notin open /\ Cardinality(open) >= MaxEditors
           /\ victim \in open
           /\ open' = (open \cup {f}) \ {victim}
           /\ IF victim = current THEN heir \in open' ELSE heir = current
  <2>1. /\ IsFiniteSet(open')
        /\ Cardinality(open') = Cardinality(open \cup {f}) - 1
    BY <1>2, <1>4, FS_RemoveElement
  <2> QED
    BY <1>1, <1>2, <1>4, <2>1
<1> QED
  BY <1>3, <1>4 DEF TabOpened

\* History k is n with up to two locations added.
GrownTwice(n, k) == \E m : IsHistory(m) /\ Grown(n, m) /\ Grown(m, k)

\* FileManager::openEditor makes an editor current and adds at most the
\* location of the editor that was current and, where that one was closed, of
\* its heir.
LEMMA OpenedIs ==
  ASSUME NavTypeOK, NEW n, IsHistory(n), NEW f \in Files, NEW victim, NEW heir,
         NEW ignore \in BOOLEAN, Opened(n, f, victim, heir, ignore)
  PROVE  /\ TabsOK /\ current' = f
         /\ IsHistory(nav') /\ GrownTwice(n, nav')
         /\ heir = current /\ ignore => nav' = n
<1> DEFINE m == Switched(n, current, heir, FALSE)
<1>1. /\ TabOpened(f, victim, heir) /\ current' = f
      /\ nav' = Switched(m, heir, f, ignore)
  BY DEF Opened
<1>2. /\ TabsOK
      /\ heir \in open \cup {f, NoFile}
  BY <1>1, TabOpenedIs DEF TabsOK
<1>3. IsHistory(m) /\ Grown(n, m)
  <2>1. current \in open \cup {heir, NoFile}
    BY DEF NavTypeOK
  <2> QED
    BY <2>1, SwitchedIs
<1>4. heir = current /\ ignore => m = n /\ nav' = m
  BY <1>1 DEF Switched
<1> HIDE DEF m
<1>5. IsHistory(nav') /\ Grown(m, nav')
  BY <1>1, <1>2, <1>3, SwitchedIs
<1> QED
  BY <1>1, <1>2, <1>3, <1>4, <1>5 DEF GrownTwice

-----------------------------------------------------------------------------
(* What adding up to two locations keeps.                                  *)

\* RecentKept, entry by entry.
LEMMA EntriesKept ==
  ASSUME IsHistory(nav), IsHistory(nav'), NEW new \in 1..2, NEW kept \in 0..nav.position,
         kept = nav'.position - new,
         kept = nav.position \/ kept >= Half - new,
         \A i \in 1..kept : nav'.entries[i] = nav.entries[i + (nav.position - kept)],
         \A i \in (kept + 1)..nav'.position : nav'.entries[i].file \in open
  PROVE  RecentKept
<1> DEFINE at   == nav.position
           from == at - kept + 1
           old  == SubSeq(nav.entries, from, at)
           now  == SubSeq(nav'.entries, 1, kept)
<1>1. /\ nav.entries \in Seq(Locations) /\ nav'.entries \in Seq(Locations)
      /\ Len(nav.entries) \in Nat /\ Len(nav'.entries) \in Nat
      /\ at \in Nat /\ at <= Len(nav.entries)
      /\ nav'.position \in Nat /\ nav'.position <= Len(nav'.entries)
      /\ kept \in Nat /\ kept <= at /\ kept <= nav'.position
      /\ Half \in Nat
  BY NavigationAssumption DEF IsHistory
<1>2. now \in Seq(Locations) /\ Len(now) = kept /\ \A i \in 1..kept : now[i] = nav'.entries[i]
  <2>1. \A i \in 1..kept : nav'.entries[i] \in Locations
    BY <1>1, ElementOfSeq
  <2>2. kept \in Int /\ 1 \in Int
    BY <1>1
  <2>3. /\ now \in Seq(Locations) /\ Len(now) = IF 1 <= kept THEN kept - 1 + 1 ELSE 0
        /\ \A i \in 1..(kept - 1 + 1) : now[i] = nav'.entries[1 + i - 1]
    BY <2>1, <2>2, SubSeqProperties
  <2>4. kept \in Nat /\ kept - 1 + 1 = kept /\ \A i \in 1..kept : 1 + i - 1 = i
    BY <1>1
  <2> HIDE DEF now
  <2>5. Len(now) = kept
    BY <2>3, <2>4
  <2>6. ASSUME NEW i \in 1..kept
        PROVE  now[i] = nav'.entries[i]
    BY <2>3, <2>4
  <2> QED
    BY <2>3, <2>5, <2>6
<1>3. /\ old \in Seq(Locations) /\ Len(old) = kept
      /\ \A i \in 1..kept : old[i] = nav.entries[i + (at - kept)]
  <2>1. from \in Int /\ at \in Int /\ from >= 1
    BY <1>1
  <2>2. \A i \in from..at : nav.entries[i] \in Locations
    BY <1>1, <2>1, ElementOfSeq
  <2>3. at - from + 1 = kept /\ \A i \in 1..kept : from + i - 1 = i + (at - kept)
    BY <1>1
  <2>4. from <= at <=> kept >= 1
    BY <1>1, SMTT(30)
  <2> HIDE DEF from
  <2>5. /\ old \in Seq(Locations) /\ Len(old) = IF from <= at THEN at - from + 1 ELSE 0
        /\ \A i \in 1..(at - from + 1) : old[i] = nav.entries[from + i - 1]
    BY <2>1, <2>2, SubSeqProperties
  <2> HIDE DEF old
  <2>6. kept \in Nat
    BY <1>1
  <2>7. Len(old) = kept
    BY <2>3, <2>4, <2>5, <2>6
  <2>8. ASSUME NEW i \in 1..kept
        PROVE  old[i] = nav.entries[i + (at - kept)]
    BY <2>3, <2>5
  <2> QED
    BY <2>5, <2>7, <2>8
<1> HIDE DEF now, old
<1>4. now = old
  BY <1>2, <1>3, SeqEqual
<1>5. kept >= IF nav.position < Half - new THEN nav.position ELSE Half - new
  BY <1>1
<1> QED
  BY <1>4, <1>5 DEF RecentKept, now, old, from, at

\* One location added.
LEMMA GrownKeeps ==
  ASSUME IsHistory(nav), IsHistory(nav'), Grown(nav, nav')
  PROVE  nav' = nav \/ RecentKept
<1>1. CASE nav' = nav
  BY <1>1
<1>2. ASSUME NEW l \in Locations, l.file \in open, KeptOne(nav, nav', l)
      PROVE  RecentKept
  <2> DEFINE kept == nav'.position - 1
  <2>1. /\ kept \in 0..nav.position
        /\ kept = nav.position \/ kept >= Half - 1
        /\ \A i \in 1..kept : nav'.entries[i] = nav.entries[i + (nav.position - kept)]
        /\ nav'.entries[nav'.position] = l
    BY <1>2 DEF KeptOne
  <2>2. nav'.position \in Nat
    BY DEF IsHistory
  <2>3. \A i \in (kept + 1)..nav'.position : nav'.entries[i].file \in open
    BY <1>2, <2>1, <2>2
  <2>4. 1 \in 1..2
    OBVIOUS
  <2>5. kept = nav'.position - 1
    OBVIOUS
  <2> HIDE DEF kept
  <2> QED
    BY <2>1, <2>3, <2>4, <2>5, EntriesKept
<1> QED
  BY <1>1, <1>2 DEF Grown

\* Two locations added: the latest of those behind the position of nav are
\* kept by the first, and the latest of these by the second.
LEMMA GrownTwiceKeeps ==
  ASSUME IsHistory(nav), IsHistory(nav'), GrownTwice(nav, nav')
  PROVE  nav' = nav \/ RecentKept
<1>1. PICK m : IsHistory(m) /\ Grown(nav, m) /\ Grown(m, nav')
  BY DEF GrownTwice
<1>2. CASE m = nav \/ nav' = m
  BY <1>1, <1>2, GrownKeeps
<1>3. ASSUME NEW l1 \in Locations, l1.file \in open, KeptOne(nav, m, l1),
             NEW l2 \in Locations, l2.file \in open, KeptOne(m, nav', l2)
      PROVE  RecentKept
  <2> DEFINE at    == nav.position
             mid   == m.position
             last  == nav'.position
  <2>1. /\ mid - 1 \in 0..at
        /\ mid - 1 = at \/ mid - 1 >= Half - 1
        /\ \A i \in 1..(mid - 1) : m.entries[i] = nav.entries[i + (at - (mid - 1))]
        /\ m.entries[mid] = l1
    BY <1>3 DEF KeptOne
  <2>2. /\ last - 1 \in 0..mid
        /\ last - 1 = mid \/ last - 1 >= Half - 1
        /\ \A i \in 1..(last - 1) : nav'.entries[i] = m.entries[i + (mid - (last - 1))]
        /\ nav'.entries[last] = l2
    BY <1>3 DEF KeptOne
  <2>3. at \in Nat /\ mid \in Nat /\ last \in Nat /\ Half \in Nat /\ 1 <= Half
    BY <1>1, NavigationAssumption DEF IsHistory
  <2> HIDE DEF at, mid, last
  <2>4. CASE last = 1
    <3> DEFINE kept == 0
    <3>1. kept \in 0..at /\ kept = last - 1
      BY <2>3, <2>4
    <3>2. kept = at \/ kept >= Half - 1
      BY <2>1, <2>2, <2>3, <2>4
    <3>3. \A i \in 1..kept : nav'.entries[i] = nav.entries[i + (at - kept)]
      OBVIOUS
    <3>4. \A i \in (kept + 1)..last : nav'.entries[i].file \in open
      BY <1>3, <2>2, <2>4
    <3>5. 1 \in 1..2
      OBVIOUS
    <3> HIDE DEF kept
    <3> QED
      BY <3>1, <3>2, <3>3, <3>4, <3>5, EntriesKept DEF at, last
  <2>5. CASE last # 1
    <3> DEFINE kept == last - 2
    <3>1. kept \in 0..at /\ kept = last - 2
      BY <2>1, <2>2, <2>3, <2>5
    <3>2. kept = at \/ kept >= Half - 2
      BY <2>1, <2>2, <2>3
    <3>3. ASSUME NEW i \in 1..kept
          PROVE  nav'.entries[i] = nav.entries[i + (at - kept)]
      <4> DEFINE j == i + (mid - (last - 1))
      <4>1. i \in 1..(last - 1) /\ j \in 1..(mid - 1)
        BY <2>1, <2>2, <2>3
      <4>2. j + (at - (mid - 1)) = i + (at - kept)
        BY <2>3
      <4>3. nav'.entries[i] = m.entries[j]
        BY <2>2, <4>1
      <4> HIDE DEF j
      <4>4. m.entries[j] = nav.entries[j + (at - (mid - 1))]
        BY <2>1, <4>1
      <4> QED
        BY <4>2, <4>3, <4>4
    <3>4. ASSUME NEW i \in (kept + 1)..last
          PROVE  nav'.entries[i].file \in open
      <4>1. CASE i = last
        BY <1>3, <2>2, <4>1
      <4>2. CASE i # last
        <5>1. i = last - 1 /\ i \in 1..(last - 1)
          BY <2>3, <2>5, <3>1, <4>2
        <5>2. i + (mid - (last - 1)) = mid
          BY <2>3, <5>1
        <5>3. nav'.entries[i] = l1
          BY <2>1, <2>2, <5>1, <5>2
        <5> QED
          BY <1>3, <5>3
      <4> QED
        BY <4>1, <4>2
    <3>5. 2 \in 1..2
      OBVIOUS
    <3> HIDE DEF kept
    <3> QED
      BY <3>1, <3>2, <3>3, <3>4, <3>5, EntriesKept DEF at, last
  <2> QED
    BY <2>4, <2>5
<1> QED
  BY <1>1, <1>2, <1>3 DEF Grown

-----------------------------------------------------------------------------
(* The user works.                                                         *)

\* Every editor is at one of its places.
PlacesOK == place \in [Files -> Places] /\ \A f \in Files : place[f] \in PlacesOf[f]

\* An editor is moved to one of its places.
LEMMA PlaceMoved ==
  ASSUME PlacesOK, NEW f \in Files, NEW p \in PlacesOf[f], place' = [place EXCEPT ![f] = p]
  PROVE  PlacesOK'
<1>1. p \in Places
  BY DEF Places
<1> QED
  BY <1>1 DEF PlacesOK

\* The parts of the type invariant after a step.
LEMMA TypeAfter ==
  ASSUME IsHistory(nav'), TabsOK, PlacesOK', readable' \subseteq Files,
         trail' \in Seq(Locations)
  PROVE  NavTypeOK'
BY DEF TabsOK, PlacesOK, NavTypeOK, IsHistory, Locations, Places

\* One location added, or none, is a case of up to two.
LEMMA GrownOnce ==
  ASSUME NEW n, IsHistory(n), NEW m, Grown(n, m), IsHistory(m)
  PROVE  GrownTwice(n, m)
BY DEF Grown, GrownTwice

\* A move of the cursor adds the place noted in the current editor, or nothing.
LEMMA CursorMovedIs ==
  ASSUME NavTypeOK, NEW n, IsHistory(n), NEW f \in Files, NEW from \in PlacesOf[f],
         NEW worth \in BOOLEAN
  PROVE  /\ IsHistory(CursorMoved(n, f, from, worth))
         /\ Grown(n, CursorMoved(n, f, from, worth))
<1> DEFINE l == [file |-> f, place |-> from]
<1>1. CASE ~(worth /\ f = current)
  BY <1>1 DEF CursorMoved, Grown
<1>2. CASE worth /\ f = current
  <2>1. l \in Locations /\ l.file = f
    BY LocationIs
  <2>2. f \in open
    BY <1>2, NavigationAssumption DEF NavTypeOK
  <2>3. CursorMoved(n, f, from, worth) = Added(n, l)
    BY <1>2 DEF CursorMoved
  <2> HIDE DEF l
  <2> QED
    BY <2>1, <2>2, <2>3, AddedIs DEF Grown
<1> QED
  BY <1>1, <1>2

\* Whatever the user does that adds locations keeps the types, adds at most
\* two, and interrupts the trail if it changes the history.
LEMMA WorkStep ==
  ASSUME NavTypeOK, Work
  PROVE  /\ NavTypeOK'
         /\ GrownTwice(nav, nav')
         /\ (nav' = nav /\ trail' = trail) \/ trail' = <<>>
<1> DEFINE Goal == NavTypeOK' /\ GrownTwice(nav, nav')
                   /\ ((nav' = nav /\ trail' = trail) \/ trail' = <<>>)
<1> USE DEF Editors
<1>1. /\ IsHistory(nav) /\ PlacesOK /\ readable \subseteq Files
      /\ trail \in Seq(Locations)
      /\ open \subseteq Files /\ IsFiniteSet(open) /\ Cardinality(open) <= MaxEditors
      /\ current \in open \cup {NoFile}
      /\ MaxEditors \in Nat /\ Cardinality(open) \in Nat
  BY NavigationAssumption, FS_CardinalityType DEF NavTypeOK, PlacesOK
<1>2. SUFFICES ASSUME Interrupted PROVE Goal
  BY DEF Work, OpenFile, SwitchTab, CloseEditor, MoveCursor, GotoLine
<1>3. /\ (nav' = nav /\ trail' = trail) \/ trail' = <<>>
      /\ trail' \in Seq(Locations)
  BY <1>1, <1>2 DEF Interrupted
<1>4. ASSUME TabsOK, PlacesOK', readable' = readable, IsHistory(nav'), GrownTwice(nav, nav')
      PROVE  Goal
  BY <1>1, <1>3, <1>4, TypeAfter
<1>5. ASSUME UNCHANGED place PROVE PlacesOK'
  BY <1>1, <1>5 DEF PlacesOK
<1>6. ASSUME UNCHANGED <<open, current>> PROVE TabsOK
  BY <1>1, <1>6 DEF TabsOK
<1> HIDE DEF Goal
<1>7. ASSUME NEW f \in Files, NEW victim \in Editors, NEW heir \in Editors,
             OpenFile(f, victim, heir)
      PROVE  Goal
  <2>1. Opened(nav, f, victim, heir, FALSE) /\ UNCHANGED <<place, readable>>
    BY <1>7 DEF OpenFile
  <2>2. TabsOK /\ IsHistory(nav') /\ GrownTwice(nav, nav')
    BY <1>1, <2>1, OpenedIs
  <2> QED
    BY <1>4, <1>5, <2>1, <2>2
<1>8. ASSUME NEW f \in Files, SwitchTab(f)
      PROVE  Goal
  <2>1. /\ f \in open /\ current' = f /\ open' = open
        /\ nav' = Switched(nav, current, f, FALSE)
        /\ UNCHANGED <<place, readable>>
    BY <1>8 DEF SwitchTab
  <2>2. IsHistory(nav') /\ Grown(nav, nav')
    BY <1>1, <2>1, SwitchedIs
  <2>3. TabsOK
    BY <1>1, <2>1 DEF TabsOK
  <2> QED
    BY <1>1, <1>4, <1>5, <2>1, <2>2, <2>3, GrownOnce
<1>9. ASSUME NEW f \in Files, NEW heir \in Editors, CloseEditor(f, heir)
      PROVE  Goal
  <2>1. /\ f \in open /\ open' = open \ {f} /\ current' = heir
        /\ nav' = Switched(nav, current, heir, FALSE)
        /\ UNCHANGED <<place, readable>>
        /\ heir \in (open \ {f}) \cup {NoFile}
    <3>1. NoFile \notin open
      BY <1>1, NavigationAssumption
    <3> QED
      BY <1>1, <1>9, <3>1 DEF CloseEditor
  <2>2. IsHistory(nav') /\ Grown(nav, nav')
    BY <1>1, <2>1, SwitchedIs
  <2>3. TabsOK
    <3>1. IsFiniteSet(open') /\ Cardinality(open') = Cardinality(open) - 1
      BY <1>1, <2>1, FS_RemoveElement
    <3> QED
      BY <1>1, <2>1, <3>1 DEF TabsOK
  <2> QED
    BY <1>1, <1>4, <1>5, <2>1, <2>2, <2>3, GrownOnce
<1>10. ASSUME NEW f \in Files, NEW p \in Places, NEW from \in Places, NEW worth \in BOOLEAN,
              MoveCursor(f, p, from, worth)
       PROVE  Goal
  <2>1. /\ p \in PlacesOf[f] /\ from \in PlacesOf[f]
        /\ place' = [place EXCEPT ![f] = p]
        /\ nav' = CursorMoved(nav, f, from, worth)
        /\ UNCHANGED <<open, current, readable>>
    BY <1>10 DEF MoveCursor
  <2>2. IsHistory(nav') /\ Grown(nav, nav')
    BY <1>1, <2>1, CursorMovedIs
  <2>3. PlacesOK'
    BY <1>1, <2>1, PlaceMoved
  <2> QED
    BY <1>1, <1>4, <1>6, <2>1, <2>2, <2>3, GrownOnce
<1>11. ASSUME NEW p \in Places, NEW from \in Places, NEW worth \in BOOLEAN,
              GotoLine(p, from, worth)
       PROVE  Goal
  <2> DEFINE m == Added(nav, Here)
  <2>1. /\ current # NoFile
        /\ p \in PlacesOf[current] /\ from \in PlacesOf[current]
        /\ place' = [place EXCEPT ![current] = p]
        /\ nav' = CursorMoved(m, current, from, worth)
        /\ UNCHANGED <<open, current, readable>>
    BY <1>11 DEF GotoLine
  <2>2. current \in open /\ current \in Files
    BY <1>1, <2>1
  <2>3. IsHistory(m) /\ Grown(nav, m)
    <3>1. Here \in Locations /\ Here.file = current
      BY <2>2, LocationOf DEF Here
    <3> QED
      BY <1>1, <2>2, <3>1, AddedIs DEF Grown
  <2> HIDE DEF m
  <2>4. IsHistory(nav') /\ Grown(m, nav')
    BY <2>1, <2>2, <2>3, CursorMovedIs
  <2>5. GrownTwice(nav, nav')
    BY <2>3, <2>4 DEF GrownTwice
  <2>6. PlacesOK'
    BY <1>1, <2>1, <2>2, PlaceMoved
  <2> QED
    BY <1>4, <1>6, <2>1, <2>4, <2>5, <2>6
<1> QED
  BY <1>7, <1>8, <1>9, <1>10, <1>11 DEF Work

-----------------------------------------------------------------------------
(* The user travels.                                                       *)

\* The locations of trail t are ahead of the position of n, the last first.
Ahead(t, n) ==
  \A i \in 1..Len(t) :
    LET at == n.position + 1 + i IN
    at <= Len(n.entries) /\ n.entries[at] = t[Len(t) + 1 - i]

\* The history after the location that is left has been noted.
LEMMA LeftIs ==
  ASSUME NavTypeOK, TrailAhead
  PROVE  LET left == WithHere(nav) IN
         /\ IsHistory(left) /\ left.position = nav.position
         /\ current = NoFile => left = nav
         /\ current # NoFile => /\ nav.position < Len(left.entries)
                                /\ left.entries[nav.position + 1] = Here
                                /\ Here \in Locations
         /\ Ahead(trail, left)
<1> DEFINE left == WithHere(nav)
<1>1. current # NoFile => Here \in Locations
  BY LocationOf DEF NavTypeOK, Here
<1>2. /\ IsHistory(nav) /\ nav.position \in Nat /\ Len(nav.entries) \in Nat
      /\ trail \in Seq(Locations)
  BY DEF NavTypeOK, IsHistory
<1>3. /\ left \in HistoryType
      /\ left.position = nav.position
      /\ Len(left.entries) <= Limit
      /\ Len(nav.entries) <= Len(left.entries)
      /\ \A i \in 1..Len(nav.entries) :
           i # nav.position + 1 => left.entries[i] = nav.entries[i]
      /\ current = NoFile => left = nav
      /\ current # NoFile => /\ nav.position < Len(left.entries)
                             /\ left.entries[nav.position + 1] = Here
  BY <1>1, <1>2, WithHereIs
<1> HIDE DEF left
<1>4. IsHistory(left)
  <2>1. CASE current = NoFile
    BY <1>2, <1>3, <2>1
  <2>2. CASE current # NoFile
    <3>1. left.position < Len(left.entries) /\ Len(left.entries) \in Nat
      BY <1>3, <2>2 DEF HistoryType
    <3> QED
      BY <1>2, <1>3, <3>1 DEF IsHistory, HistoryType
  <2> QED
    BY <2>1, <2>2
<1>5. ASSUME NEW i \in 1..Len(trail)
      PROVE  LET at == left.position + 1 + i IN
             at <= Len(left.entries) /\ left.entries[at] = trail[Len(trail) + 1 - i]
  <2> DEFINE at == nav.position + 1 + i
  <2>1. at <= Len(nav.entries) /\ nav.entries[at] = trail[Len(trail) + 1 - i]
    BY DEF TrailAhead
  <2>2. at \in 1..Len(nav.entries) /\ at # nav.position + 1
    BY <1>2, <2>1
  <2>3. at <= Len(left.entries)
    <3>1. Len(left.entries) \in Nat
      BY <1>3 DEF HistoryType
    <3> QED
      BY <1>2, <1>3, <2>2, <3>1
  <2> HIDE DEF at
  <2>4. left.entries[at] = nav.entries[at]
    BY <1>3, <2>2
  <2> QED
    BY <1>3, <2>1, <2>3, <2>4 DEF at
<1> QED
  BY <1>1, <1>3, <1>4, <1>5 DEF Ahead, left

\* Restoring the location at the position of n makes its editor current and
\* leaves the history as it is, unless a tab had to be closed for it.
LEMMA RestoredIs ==
  ASSUME NavTypeOK, NEW n, IsHistory(n), n.position < Len(n.entries),
         NEW victim, NEW heir, Restored(n, victim, heir)
  PROVE  LET target == n.entries[n.position + 1] IN
         /\ TabsOK /\ PlacesOK' /\ readable' = readable
         /\ IsHistory(nav')
         /\ heir = current => nav' = n
         /\ target = [file |-> current', place |-> place'[current']]
<1> DEFINE target == n.entries[n.position + 1]
<1>1. target \in Locations
  <2> DEFINE at == n.position + 1
  <2>1. n.entries \in Seq(Locations) /\ at \in 1..Len(n.entries)
    BY DEF IsHistory
  <2> HIDE DEF at
  <2>2. n.entries[at] \in Locations
    BY <2>1, ElementOfSeq
  <2> QED
    BY <2>2 DEF at
<1>2. /\ Opened(n, target.file, victim, heir, TRUE)
      /\ place' = [place EXCEPT ![target.file] = target.place]
      /\ readable' = readable
  BY DEF Restored
<1> HIDE DEF target
<1>3. /\ target.file \in Files /\ target.place \in PlacesOf[target.file]
      /\ target = [file |-> target.file, place |-> target.place]
  BY <1>1, LocationIs
<1>4. /\ TabsOK /\ current' = target.file
      /\ IsHistory(nav')
      /\ heir = current => nav' = n
  BY <1>2, <1>3, OpenedIs
<1>5. PlacesOK
  BY DEF NavTypeOK, PlacesOK
<1>6. PlacesOK'
  BY <1>2, <1>3, <1>5, PlaceMoved
<1>7. place'[target.file] = target.place
  BY <1>2, <1>3, <1>5 DEF PlacesOK
<1> QED
  BY <1>2, <1>3, <1>4, <1>6, <1>7 DEF target

\* The entry where the user is, after a step.
AtPosition ==
  nav'.entries[nav'.position + 1] = [file |-> current', place |-> place'[current']]

\* Backward puts the location it leaves ahead of the position: it notes it
\* there before it moves.
LEMMA GoBackStep ==
  ASSUME NavTypeOK, TrailAhead, NEW victim, NEW heir, GoBack(victim, heir)
  PROVE  /\ NavTypeOK' /\ TrailAhead'
         /\ nav'.position < nav.position /\ current' # NoFile /\ heir = current
              => AtPosition
<1> DEFINE left   == WithHere(nav)
           moved  == [left EXCEPT !.position = @ - 1]
           target == moved.entries[moved.position + 1]
           at     == nav.position
           Goal   == /\ NavTypeOK' /\ Ahead(trail', nav')
                     /\ nav'.position < nav.position /\ current' # NoFile /\ heir = current
                          => AtPosition
<1>1. /\ left \in HistoryType /\ IsHistory(left) /\ left.position = at
      /\ current = NoFile => left = nav
      /\ current # NoFile => /\ at < Len(left.entries)
                             /\ left.entries[at + 1] = Here
                             /\ Here \in Locations
      /\ Ahead(trail, left)
      /\ at \in Nat /\ Len(left.entries) \in Nat /\ at <= Len(left.entries)
  <2>1. left \in HistoryType /\ Len(left.entries) \in Nat /\ left.position <= Len(left.entries)
    BY LeftIs DEF IsHistory, HistoryType
  <2>2. at \in Nat
    BY DEF NavTypeOK, IsHistory
  <2> QED
    BY <2>1, <2>2, LeftIs
<1>2. /\ trail \in Seq(Locations) /\ Len(trail) \in Nat
      /\ PlacesOK /\ readable \subseteq Files
      /\ open \subseteq Files /\ IsFiniteSet(open) /\ Cardinality(open) <= MaxEditors
      /\ current \in open \cup {NoFile}
  BY DEF NavTypeOK, PlacesOK
<1>3. SUFFICES Goal
  BY DEF TrailAhead, Ahead
<1>4. CASE /\ left.position = 0
           /\ nav' = Refreshed(left)
           /\ UNCHANGED <<open, current, place, readable, trail>>
  <2> HIDE DEF left
  <2>1. nav' \in HistoryType /\ nav'.entries = left.entries /\ nav'.position = at
    BY <1>1, <1>4, RefreshedIs
  <2>2. IsHistory(nav')
    BY <1>1, <2>1 DEF IsHistory, HistoryType
  <2>3. TabsOK /\ PlacesOK' /\ readable' \subseteq Files /\ trail' \in Seq(Locations)
    BY <1>2, <1>4 DEF TabsOK, PlacesOK
  <2>4. Ahead(trail', nav')
    BY <1>1, <1>4, <2>1 DEF Ahead
  <2> QED
    BY <1>1, <2>1, <2>2, <2>3, <2>4, TypeAfter
<1>5. ASSUME left.position > 0
      PROVE  /\ moved \in HistoryType /\ moved.entries = left.entries
             /\ moved.position = at - 1
  <2> HIDE DEF left
  <2> QED
    BY <1>1, <1>5, BackIs
<1>6. CASE /\ left.position > 0 /\ Openable(target.file)
           /\ Restored(Refreshed(moved), victim, heir)
           /\ Retraced(IF heir = current THEN Append(trail, Here) ELSE <<>>)
  <2> DEFINE n == Refreshed(moved)
  <2> HIDE DEF left, moved
  <2>1. n \in HistoryType /\ n.entries = left.entries /\ n.position = at - 1
    BY <1>5, <1>6, RefreshedIs
  <2>2. IsHistory(n) /\ n.position < Len(n.entries)
    BY <1>1, <1>6, <2>1 DEF IsHistory, HistoryType
  <2>3. Restored(n, victim, heir)
    BY <1>6
  <2>4. /\ TabsOK /\ PlacesOK' /\ readable' = readable
        /\ IsHistory(nav')
        /\ heir = current => nav' = n
        /\ n.entries[n.position + 1] = [file |-> current', place |-> place'[current']]
    BY <2>2, <2>3, RestoredIs
  <2> HIDE DEF n
  <2>5. CASE heir = current /\ current # NoFile
    <3>1. trail' = Append(trail, Here) /\ Here \in Locations
      BY <1>1, <1>6, <2>5 DEF Retraced
    <3>2. /\ trail' \in Seq(Locations) /\ Len(trail') = Len(trail) + 1
          /\ trail'[Len(trail) + 1] = Here
          /\ \A j \in 1..Len(trail) : trail'[j] = trail[j]
      BY <1>2, <3>1
    <3>3. ASSUME NEW i \in 1..Len(trail')
          PROVE  LET next == nav'.position + 1 + i IN
                 /\ next <= Len(nav'.entries)
                 /\ nav'.entries[next] = trail'[Len(trail') + 1 - i]
      <4>1. nav'.entries = left.entries /\ nav'.position = at - 1
        BY <2>1, <2>4, <2>5
      <4>2. CASE i = 1
        <5>1. (at - 1) + 1 + i = at + 1 /\ Len(trail') + 1 - i = Len(trail) + 1
          BY <1>1, <1>2, <3>2, <4>2
        <5>2. at + 1 <= Len(left.entries) /\ left.entries[at + 1] = Here
          BY <1>1, <2>5
        <5> QED
          BY <3>2, <4>1, <5>1, <5>2
      <4>3. CASE i # 1
        <5> DEFINE k == i - 1
        <5>1. k \in 1..Len(trail) /\ at + 1 + k = (at - 1) + 1 + i
              /\ Len(trail') + 1 - i = Len(trail) + 1 - k
              /\ Len(trail) + 1 - k \in 1..Len(trail)
          <6>1. at \in Nat /\ Len(trail) \in Nat /\ Len(trail') = Len(trail) + 1
            BY <1>1, <1>2, <3>2
          <6>2. i \in 1..(Len(trail) + 1) /\ i # 1
            BY <4>3, <6>1
          <6> QED
            BY <6>1, <6>2
        <5> HIDE DEF k
        <5>2. /\ at + 1 + k <= Len(left.entries)
              /\ left.entries[at + 1 + k] = trail[Len(trail) + 1 - k]
          BY <1>1, <5>1 DEF Ahead
        <5> QED
          BY <3>2, <4>1, <5>1, <5>2
      <4> QED
        BY <4>2, <4>3
    <3>4. Ahead(trail', nav')
      BY <3>3 DEF Ahead
    <3>5. AtPosition
      BY <2>4, <2>5 DEF AtPosition
    <3> QED
      BY <1>2, <2>4, <3>2, <3>4, <3>5, TypeAfter
  <2>6. CASE ~(heir = current /\ current # NoFile)
    <3>1. trail' = <<>>
      BY <1>6, <2>6 DEF Retraced
    <3>2. trail' \in Seq(Locations) /\ Ahead(trail', nav')
      BY <3>1 DEF Ahead
    <3>3. heir = current => AtPosition
      BY <2>4 DEF AtPosition
    <3> QED
      BY <1>2, <2>4, <3>2, <3>3, TypeAfter
  <2> QED
    BY <2>5, <2>6
<1>7. CASE /\ left.position > 0 /\ ~Openable(target.file)
           /\ nav' = Refreshed(Dropped(moved))
           /\ UNCHANGED <<open, current, place, readable, trail>>
  <2> HIDE DEF left, moved
  <2>1. moved \in HistoryType /\ moved.entries = left.entries /\ moved.position = at - 1
        /\ moved.position < Len(moved.entries) /\ at >= 1
    BY <1>1, <1>5, <1>7
  <2>2. /\ Dropped(moved) \in HistoryType
        /\ Dropped(moved).position = at - 1
        /\ Len(Dropped(moved).entries) = Len(left.entries) - 1
        /\ \A i \in 1..(Len(left.entries) - 1) :
             i > at - 1 => Dropped(moved).entries[i] = left.entries[i + 1]
    BY <2>1, DroppedIs
  <2>3. /\ nav' \in HistoryType /\ nav'.position = at - 1
        /\ Len(nav'.entries) = Len(left.entries) - 1
        /\ \A i \in 1..(Len(left.entries) - 1) :
             i > at - 1 => nav'.entries[i] = left.entries[i + 1]
    BY <1>7, <2>2, RefreshedIs
  <2>4. IsHistory(nav')
    <3>1. Limit \in Nat /\ Len(left.entries) <= Limit
      BY <1>1, NavigationAssumption DEF IsHistory
    <3> QED
      BY <1>1, <2>1, <2>3, <3>1 DEF IsHistory, HistoryType
  <2>5. TabsOK /\ PlacesOK' /\ readable' \subseteq Files /\ trail' \in Seq(Locations)
    BY <1>2, <1>7 DEF TabsOK, PlacesOK
  <2>6. ASSUME NEW i \in 1..Len(trail')
        PROVE  LET next == nav'.position + 1 + i IN
               /\ next <= Len(nav'.entries)
               /\ nav'.entries[next] = trail'[Len(trail') + 1 - i]
    <3> DEFINE next == at + i
    <3>1. trail' = trail /\ i \in 1..Len(trail)
      BY <1>7
    <3>2. /\ at + 1 + i <= Len(left.entries)
          /\ left.entries[at + 1 + i] = trail[Len(trail) + 1 - i]
      BY <1>1, <3>1 DEF Ahead
    <3>3. /\ next \in 1..(Len(left.entries) - 1) /\ next > at - 1
          /\ next + 1 = at + 1 + i /\ nav'.position + 1 + i = next
      BY <1>1, <1>2, <2>1, <2>3, <3>1, <3>2, SMTT(30)
    <3> HIDE DEF next
    <3>4. nav'.entries[next] = left.entries[next + 1]
      BY <2>3, <3>3
    <3>5. next <= Len(nav'.entries)
      BY <1>1, <2>3, <3>3
    <3> QED
      BY <3>1, <3>2, <3>3, <3>4, <3>5
  <2>7. Ahead(trail', nav')
    BY <2>6 DEF Ahead
  <2>8. ASSUME current' # NoFile PROVE AtPosition
    <3>1. current # NoFile /\ current' = current /\ place' = place
      BY <1>7, <2>8
    <3>2. at \in 1..(Len(left.entries) - 1) /\ at > at - 1 /\ nav'.position + 1 = at
      BY <1>1, <2>1, <2>3, <3>1
    <3>3. nav'.entries[at] = left.entries[at + 1]
      BY <2>3, <3>2
    <3>4. left.entries[at + 1] = Here
      BY <1>1, <3>1
    <3> QED
      BY <3>1, <3>2, <3>3, <3>4 DEF AtPosition, Here, Location
  <2> QED
    BY <2>4, <2>5, <2>7, <2>8, TypeAfter
<1> QED
  BY <1>4, <1>6, <1>7 DEF GoBack

\* Forward takes the location it returns to off the trail.
LEMMA GoForwardStep ==
  ASSUME NavTypeOK, TrailAhead, NEW victim, NEW heir, GoForward(victim, heir)
  PROVE  NavTypeOK' /\ TrailAhead'
<1> DEFINE left   == WithHere(nav)
           moved  == [left EXCEPT !.position = @ + 1]
           target == moved.entries[moved.position + 1]
           at     == nav.position
           Goal   == NavTypeOK' /\ Ahead(trail', nav')
<1>1. /\ left \in HistoryType /\ IsHistory(left) /\ left.position = at
      /\ Ahead(trail, left)
      /\ at \in Nat /\ Len(left.entries) \in Nat /\ at <= Len(left.entries)
  <2>1. left \in HistoryType /\ Len(left.entries) \in Nat /\ left.position <= Len(left.entries)
    BY LeftIs DEF IsHistory, HistoryType
  <2>2. at \in Nat
    BY DEF NavTypeOK, IsHistory
  <2> QED
    BY <2>1, <2>2, LeftIs
<1>2. /\ trail \in Seq(Locations) /\ Len(trail) \in Nat
      /\ PlacesOK /\ readable \subseteq Files
      /\ open \subseteq Files /\ IsFiniteSet(open) /\ Cardinality(open) <= MaxEditors
      /\ current \in open \cup {NoFile}
  BY DEF NavTypeOK, PlacesOK
<1>3. SUFFICES Goal
  BY DEF TrailAhead, Ahead
<1>4. CASE /\ left.position >= Len(left.entries) - 1
           /\ nav' = left
           /\ UNCHANGED <<open, current, place, readable, trail>>
  <2> HIDE DEF left
  <2>1. TabsOK /\ PlacesOK' /\ readable' \subseteq Files /\ trail' \in Seq(Locations)
    BY <1>2, <1>4 DEF TabsOK, PlacesOK
  <2>2. IsHistory(nav') /\ Ahead(trail', nav')
    BY <1>1, <1>4
  <2> QED
    BY <2>1, <2>2, TypeAfter
<1>5. ASSUME left.position < Len(left.entries) - 1
      PROVE  /\ moved \in HistoryType /\ moved.entries = left.entries
             /\ moved.position = at + 1 /\ IsHistory(moved)
             /\ moved.position < Len(moved.entries)
  <2> HIDE DEF left
  <2>1. /\ moved \in HistoryType /\ moved.entries = left.entries
        /\ moved.position = at + 1
    BY <1>1, ForwardIs
  <2> HIDE DEF moved
  <2> QED
    BY <1>1, <1>5, <2>1 DEF IsHistory, HistoryType
<1>6. CASE /\ left.position < Len(left.entries) - 1 /\ Openable(target.file)
           /\ Restored(Refreshed(moved), victim, heir)
           /\ Retraced(IF heir = current /\ trail # <<>> THEN Front(trail) ELSE <<>>)
  <2> DEFINE n == Refreshed(moved)
  <2> HIDE DEF left, moved
  <2>1. n \in HistoryType /\ n.entries = left.entries /\ n.position = at + 1
    BY <1>5, <1>6, RefreshedIs
  <2>2. IsHistory(n) /\ n.position < Len(n.entries)
    BY <1>5, <1>6, <2>1 DEF IsHistory, HistoryType
  <2>3. Restored(n, victim, heir)
    BY <1>6
  <2>4. /\ TabsOK /\ PlacesOK' /\ readable' = readable
        /\ IsHistory(nav')
        /\ heir = current => nav' = n
    BY <2>2, <2>3, RestoredIs
  <2> HIDE DEF n
  <2>5. CASE heir = current /\ current # NoFile /\ trail # <<>>
    <3>1. trail' = Front(trail)
      BY <1>6, <2>5 DEF Retraced
    <3>2. /\ trail' \in Seq(Locations) /\ Len(trail') = Len(trail) - 1
          /\ \A j \in 1..(Len(trail) - 1) : trail'[j] = trail[j]
      BY <1>2, <2>5, <3>1, FrontIs
    <3>3. ASSUME NEW i \in 1..Len(trail')
          PROVE  LET next == nav'.position + 1 + i IN
                 /\ next <= Len(nav'.entries)
                 /\ nav'.entries[next] = trail'[Len(trail') + 1 - i]
      <4> DEFINE k == i + 1
      <4>1. nav'.entries = left.entries /\ nav'.position = at + 1
        BY <2>1, <2>4, <2>5
      <4>2. k \in 1..Len(trail) /\ at + 1 + k = (at + 1) + 1 + i
            /\ Len(trail') + 1 - i = Len(trail) + 1 - k
            /\ Len(trail) + 1 - k \in 1..(Len(trail) - 1)
        <5>1. at \in Nat /\ Len(trail) \in Nat /\ Len(trail') = Len(trail) - 1
          BY <1>1, <1>2, <3>2
        <5>2. i \in 1..(Len(trail) - 1)
          BY <5>1
        <5> QED
          BY <5>1, <5>2
      <4> HIDE DEF k
      <4>3. /\ at + 1 + k <= Len(left.entries)
            /\ left.entries[at + 1 + k] = trail[Len(trail) + 1 - k]
        BY <1>1, <4>2 DEF Ahead
      <4> QED
        BY <3>2, <4>1, <4>2, <4>3
    <3>4. Ahead(trail', nav')
      BY <3>3 DEF Ahead
    <3> QED
      BY <1>2, <2>4, <3>2, <3>4, TypeAfter
  <2>6. CASE ~(heir = current /\ current # NoFile /\ trail # <<>>)
    <3>1. trail' = <<>>
      BY <1>6, <2>6 DEF Retraced
    <3>2. trail' \in Seq(Locations) /\ Ahead(trail', nav')
      BY <3>1 DEF Ahead
    <3> QED
      BY <1>2, <2>4, <3>2, TypeAfter
  <2> QED
    BY <2>5, <2>6
<1>7. CASE /\ left.position < Len(left.entries) - 1 /\ ~Openable(target.file)
           /\ nav' = moved
           /\ trail' = <<>>
           /\ UNCHANGED <<open, current, place, readable>>
  <2>1. TabsOK /\ PlacesOK' /\ readable' \subseteq Files
    BY <1>2, <1>7 DEF TabsOK, PlacesOK
  <2>2. IsHistory(nav')
    BY <1>5, <1>7
  <2>3. trail' \in Seq(Locations) /\ Ahead(trail', nav')
    BY <1>7 DEF Ahead
  <2> QED
    BY <2>1, <2>2, <2>3, TypeAfter
<1> QED
  BY <1>4, <1>6, <1>7 DEF GoForward

-----------------------------------------------------------------------------
(* The theorems.                                                           *)

\* The inductive invariant: the types, with the bounds of the history and of
\* the tabs, and the trail.
NavInvariant == NavTypeOK /\ TrailAhead

LEMMA NavInvariantInit == Init => NavInvariant
<1> SUFFICES ASSUME Init PROVE NavInvariant
  OBVIOUS
<1>1. Limit \in Nat /\ 1 <= Limit /\ MaxEditors \in Nat
  BY NavigationAssumption
<1>2. <<>> \in Seq(Locations) /\ Len(<<>>) = 0
  BY EmptySeq
<1>3. IsHistory(nav)
  BY <1>1, <1>2 DEF Init, IsHistory
<1>4. open \subseteq Files /\ IsFiniteSet(open) /\ Cardinality(open) <= MaxEditors
  BY <1>1, FS_EmptySet DEF Init
<1>5. place \in [Files -> Places] /\ \A f \in Files : place[f] \in PlacesOf[f]
  BY DEF Init, Places
<1>6. TrailAhead
  BY <1>2 DEF Init, TrailAhead
<1> QED
  BY <1>2, <1>3, <1>4, <1>5, <1>6 DEF Init, NavInvariant, NavTypeOK

LEMMA NavInvariantStep == NavInvariant /\ [Next]_vars => NavInvariant'
<1> SUFFICES ASSUME NavInvariant, [Next]_vars PROVE NavInvariant'
  OBVIOUS
<1>1. NavTypeOK /\ TrailAhead
  BY DEF NavInvariant
<1>2. ASSUME Work PROVE NavInvariant'
  <2>1. NavTypeOK' /\ ((nav' = nav /\ trail' = trail) \/ trail' = <<>>)
    BY <1>1, <1>2, WorkStep
  <2>2. CASE nav' = nav /\ trail' = trail
    BY <1>1, <2>1, <2>2 DEF NavInvariant, TrailAhead
  <2>3. CASE trail' = <<>>
    BY <2>1, <2>3 DEF NavInvariant, TrailAhead
  <2> QED
    BY <2>1, <2>2, <2>3
<1>3. ASSUME NEW victim \in Editors, NEW heir \in Editors,
             GoBack(victim, heir) \/ GoForward(victim, heir)
      PROVE  NavInvariant'
  BY <1>1, <1>3, GoBackStep, GoForwardStep DEF NavInvariant
<1>4. ASSUME NEW f \in CanVanish, Vanish(f)
      PROVE  NavInvariant'
  <2>1. f \in Files
    BY NavigationAssumption
  <2> QED
    BY <1>1, <1>4, <2>1
    DEF Vanish, NavInvariant, NavTypeOK, TrailAhead, IsHistory, Locations, Places
<1>5. ASSUME UNCHANGED vars PROVE NavInvariant'
  BY <1>1, <1>5 DEF vars, NavInvariant, NavTypeOK, TrailAhead, IsHistory, Locations, Places
<1> QED
  BY <1>2, <1>3, <1>4, <1>5 DEF Next, Travel

\* The history and the position in it keep their bounds (addNavigationHistory,
\* updateCurrentPositionInNavigationHistory, goBack and goForward), and the
\* tabs theirs (openEditor).
THEOREM NavTypesHold == Spec => []NavTypeOK
<1>1. NavInvariant => NavTypeOK
  BY DEF NavInvariant
<1> QED
  BY <1>1, NavInvariantInit, NavInvariantStep, PTL DEF Spec

\* Forward undoes Backward: the locations that Backward left stay ahead of the
\* position in the order in which Forward returns to them, whatever files
\* could not be opened on the way.
THEOREM TrailAheadHolds == Spec => []TrailAhead
<1>1. NavInvariant => TrailAhead
  BY DEF NavInvariant
<1> QED
  BY <1>1, NavInvariantInit, NavInvariantStep, PTL DEF Spec

\* However long the history, adding locations forgets no location of the Half
\* latest behind the position (the loop of addNavigationHistory).
THEOREM KeepsRecentHolds == Spec => KeepsRecent
<1>1. NavInvariant /\ [Next]_vars => [nav' = nav \/ RecentKept \/ ~Work]_vars
  <2> SUFFICES ASSUME NavInvariant, Work
               PROVE  nav' = nav \/ RecentKept
    OBVIOUS
  <2>1. NavTypeOK' /\ GrownTwice(nav, nav') /\ IsHistory(nav)
    BY WorkStep DEF NavInvariant, NavTypeOK
  <2>2. IsHistory(nav')
    BY <2>1 DEF NavTypeOK, IsHistory, Locations
  <2> QED
    BY <2>1, <2>2, GrownTwiceKeeps
<1> QED
  BY <1>1, NavInvariantInit, NavInvariantStep, PTL DEF Spec, KeepsRecent

\* After Backward the entry at the position is the location where the user is
\* (goBack, with a file restored or an entry dropped).
THEOREM BackIsAtPositionHolds == Spec => BackIsAtPosition
<1> DEFINE Back == \A victim \in Editors :
                     (/\ nav'.position < nav.position
                      /\ current' # NoFile
                      /\ GoBack(victim, current))
                     => nav'.entries[nav'.position + 1]
                          = [file |-> current', place |-> place'[current']]
<1>1. NavInvariant /\ [Next]_vars => [Back]_vars
  <2> SUFFICES ASSUME NavInvariant, NEW victim \in Editors,
                      nav'.position < nav.position, current' # NoFile,
                      GoBack(victim, current)
               PROVE  AtPosition
    BY DEF AtPosition
  <2> QED
    BY GoBackStep DEF NavInvariant
<1>2. Spec => [][Back]_vars
  BY <1>1, NavInvariantInit, NavInvariantStep, PTL DEF Spec
<1> QED
  BY <1>2 DEF BackIsAtPosition
=============================================================================
