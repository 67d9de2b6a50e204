-------------------------- MODULE SearchResultsProofs --------------------------
(***************************************************************************)
(* Proofs about SearchResults, for every text, every set of terms and of   *)
(* replacements, and any number of runs, searches and changes.             *)
(***************************************************************************)
EXTENDS SearchResults, FiniteSetTheorems, SequenceTheorems, WellFoundedInduction, TLAPS

-----------------------------------------------------------------------------
(* Functions that are defined by recursion over a sequence.                *)

\* A set of numbers that is not empty has a first one.
LEMMA FirstIsOne ==
  ASSUME NEW numbers \in SUBSET Nat, numbers # {}
  PROVE  \E first \in numbers : \A n \in numbers : first <= n
<1> DEFINE below == {p \in Nat \X Nat : p[1] < p[2]}
<1>1. IsWellFoundedOn(below, Nat)
  BY NatLessThanWellFounded DEF OpToRel
<1>2. \A m, n \in Nat : m < n => <<m, n>> \in below
  OBVIOUS
<1> HIDE DEF below
<1>3. \E first \in numbers : \A n \in numbers : <<n, first>> \notin below
  BY <1>1, WFMin
<1>4. \A m, n \in Nat : ~(m < n) => n <= m
  OBVIOUS
<1> QED
  BY <1>2, <1>3, <1>4

\* The rounds of a loop, each of which makes a value of A of one.
Rounds(N, A) == [1..N -> [A -> A]]

HasValues(N, A, base, round) ==
  \E f \in [0..N -> A] : f[0] = base /\ \A n \in 1..N : f[n] = round[n][f[n - 1]]

\* A loop of N rounds, each of which makes a value of A of one, has a history.
LEMMA LoopHasValues ==
  ASSUME NEW N \in Nat, NEW A, NEW base \in A, NEW round \in Rounds(N, A)
  PROVE  HasValues(N, A, base, round)
<1> USE DEF Rounds
<1> DEFINE Goes(n, f) == f[0] = base /\ \A m \in 1..n : f[m] = round[m][f[m - 1]]
           stuck == {n \in 0..N : ~\E f \in [0..n -> A] : Goes(n, f)}
<1>1. stuck = {}
  <2> SUFFICES ASSUME stuck # {} PROVE FALSE
    OBVIOUS
  <2>0. stuck \in SUBSET Nat
    OBVIOUS
  <2>1. PICK n \in stuck : \A m \in stuck : n <= m
    <3> HIDE DEF stuck
    <3> QED
      BY <2>0, FirstIsOne
  <2>2. n # 0
    <3> DEFINE first == [m \in 0..0 |-> base]
    <3>1. first \in [0..0 -> A] /\ Goes(0, first)
      OBVIOUS
    <3> QED
      BY <3>1
  <2>3. n \in 1..N /\ n - 1 \in 0..N /\ n - 1 \notin stuck
    <3>1. n \in 1..N /\ n - 1 \in 0..N
      BY <2>2
    <3>2. n - 1 \notin stuck
      <4> HIDE DEF stuck
      <4> QED
        BY <2>1, <3>1
    <3> QED
      BY <3>1, <3>2
  <2>4. PICK f \in [0..(n - 1) -> A] : Goes(n - 1, f)
    BY <2>3
  <2> DEFINE longer == [m \in 0..n |-> IF m = n THEN round[n][f[n - 1]] ELSE f[m]]
  <2>5. longer \in [0..n -> A]
    BY <2>3, <2>4
  <2>6. Goes(n, longer)
    <3>1. longer[0] = base
      BY <2>3, <2>4
    <3>2. ASSUME NEW m \in 1..n PROVE longer[m] = round[m][longer[m - 1]]
      <4>1. CASE m = n
        <5>1. longer[n] = round[n][f[n - 1]] /\ longer[n - 1] = f[n - 1]
          BY <2>3
        <5> QED
          BY <4>1, <5>1
      <4>2. CASE m # n
        BY <2>3, <2>4, <4>2
      <4> QED
        BY <4>1, <4>2
    <3> QED
      BY <3>1, <3>2
  <2> QED
    BY <2>1, <2>5, <2>6
<1>2. N \notin stuck => \E f \in [0..N -> A] : Goes(N, f)
  <2> HIDE DEF Goes
  <2> QED
    OBVIOUS
<1>3. N \notin stuck
  <2> HIDE DEF stuck
  <2> QED
    BY <1>1
<1> QED
  BY <1>2, <1>3 DEF HasValues

\* What holds of 0, and of n + 1 if it holds of n, holds up to N.
LEMMA UpTo ==
  ASSUME NEW N \in Nat, NEW holds, 0 \in holds,
         \A n \in 0..(N - 1) : n \in holds => n + 1 \in holds
  PROVE  0..N \subseteq holds
<1> DEFINE missing == (0..N) \ holds
<1> SUFFICES ASSUME missing # {} PROVE FALSE
  OBVIOUS
<1>0. missing \in SUBSET Nat
  OBVIOUS
<1>1. PICK n \in missing : \A m \in missing : n <= m
  <2> HIDE DEF missing
  <2> QED
    BY <1>0, FirstIsOne
<1>2. n \in 1..N /\ n - 1 \in 0..(N - 1) /\ n - 1 \notin missing
  BY <1>1
<1> QED
  BY <1>1, <1>2

\* Whatever goes through its rounds has values of A.
LEMMA LoopIsTyped ==
  ASSUME NEW N \in Nat, NEW A, NEW round \in Rounds(N, A), NEW f, f[0] \in A,
         \A n \in 1..N : f[n - 1] \in A => f[n] = round[n][f[n - 1]]
  PROVE  \A n \in 0..N : f[n] \in A
<1> DEFINE typed == {n \in 0..N : f[n] \in A}
<1> USE DEF Rounds
<1>1. 0 \in typed
  OBVIOUS
<1>2. ASSUME NEW n \in 0..(N - 1), n \in typed PROVE n + 1 \in typed
  <2>1. n + 1 \in 1..N /\ (n + 1) - 1 = n
    OBVIOUS
  <2> QED
    BY <1>2, <2>1
<1> HIDE DEF typed
<1>3. 0..N \subseteq typed
  BY <1>1, <1>2, UpTo
<1> QED
  BY <1>3 DEF typed

-----------------------------------------------------------------------------
(* What is selected of a sequence, and sequences one after the other.      *)

\* f[n] is what is selected of the first n.
Selects(S, s, keep, f) ==
  /\ f \in [0..Len(s) -> Seq(S)]
  /\ f[0] = <<>>
  /\ \A n \in 1..Len(s) : f[n] = IF n \in keep THEN Append(f[n - 1], s[n]) ELSE f[n - 1]
  /\ Selected(s, keep) = f[Len(s)]

LEMMA SelectedIsLoop ==
  ASSUME NEW S, NEW s \in Seq(S), NEW keep
  PROVE  \E f : Selects(S, s, keep, f)
<1> DEFINE N == Len(s)
           A == Seq(S)
           round == [n \in 1..N |-> [t \in A |-> IF n \in keep THEN Append(t, s[n]) ELSE t]]
           Loop(f) == f = [n \in 0..N |-> IF n = 0 THEN <<>>
                                          ELSE IF n \in keep THEN Append(f[n - 1], s[n]) ELSE f[n - 1]]
<1>1. N \in Nat /\ <<>> \in A /\ round \in Rounds(N, A)
  BY DEF Rounds
<1>2. \A n \in 1..N, t \in A : round[n][t] = IF n \in keep THEN Append(t, s[n]) ELSE t
  OBVIOUS
<1> HIDE DEF N, A, round
<1>3. PICK f \in [0..N -> A] : f[0] = <<>> /\ \A n \in 1..N : f[n] = round[n][f[n - 1]]
  <2>1. HasValues(N, A, <<>>, round)
    BY <1>1, LoopHasValues
  <2> QED
    BY <2>1 DEF HasValues
<1>4. Loop(f)
  <2>1. \A n \in 0..N : n # 0 => n \in 1..N /\ f[n - 1] \in A
    BY <1>1
  <2>2. f = [n \in 0..N |-> f[n]]
    BY <1>3
  <2>3. \A n \in 0..N : f[n] = IF n = 0 THEN <<>>
                               ELSE IF n \in keep THEN Append(f[n - 1], s[n]) ELSE f[n - 1]
    BY <1>2, <1>3, <2>1
  <2> QED
    BY <2>2, <2>3
<1> DEFINE g == CHOOSE g : Loop(g)
<1>5. Loop(g)
  BY <1>4
<1>6. Selected(s, keep) = g[N]
  BY DEF Selected, N
<1> HIDE DEF g
<1>7. /\ g = [n \in 0..N |-> g[n]] /\ g[0] = <<>>
      /\ \A n \in 1..N : g[n] = IF n \in keep THEN Append(g[n - 1], s[n]) ELSE g[n - 1]
  <2>1. 0 \in 0..N /\ \A n \in 1..N : n \in 0..N /\ n # 0
    BY <1>1
  <2> QED
    BY <1>5, <2>1
<1>8. \A n \in 0..N : g[n] \in A
  <2>1. g[0] \in A /\ \A n \in 1..N : g[n - 1] \in A => g[n] = round[n][g[n - 1]]
    BY <1>1, <1>2, <1>7
  <2> QED
    BY <1>1, <2>1, LoopIsTyped
<1>9. g \in [0..N -> A]
  BY <1>7, <1>8
<1> QED
  BY <1>6, <1>7, <1>9 DEF N, A, Selects

\* Only what is in the sequence matters.
LEMMA SelectedSame ==
  ASSUME NEW S, NEW s \in Seq(S), NEW keep, NEW more, \A i \in DOMAIN s : i \in keep <=> i \in more
  PROVE  Selected(s, keep) = Selected(s, more)
<1>1. PICK f : Selects(S, s, keep, f)
  BY SelectedIsLoop
<1>2. PICK g : Selects(S, s, more, g)
  BY SelectedIsLoop
<1> DEFINE same == {n \in 0..Len(s) : f[n] = g[n]}
<1>3. 0 \in same /\ Len(s) \in Nat
  BY <1>1, <1>2 DEF Selects
<1>4. ASSUME NEW n \in 0..(Len(s) - 1), n \in same PROVE n + 1 \in same
  <2>1. n + 1 \in 1..Len(s) /\ n + 1 \in DOMAIN s /\ (n + 1) - 1 = n
    BY <1>3
  <2>2. /\ f[n + 1] = IF n + 1 \in keep THEN Append(f[n], s[n + 1]) ELSE f[n]
        /\ g[n + 1] = IF n + 1 \in more THEN Append(g[n], s[n + 1]) ELSE g[n]
    BY <1>1, <1>2, <2>1 DEF Selects
  <2>3. f[n + 1] = g[n + 1]
    BY <1>4, <2>1, <2>2
  <2> QED
    BY <2>1, <2>3
<1> HIDE DEF same
<1>5. 0..Len(s) \subseteq same
  BY <1>3, <1>4, UpTo
<1>6. f[Len(s)] = g[Len(s)]
  BY <1>3, <1>5 DEF same
<1> QED
  BY <1>1, <1>2, <1>6 DEF Selects

\* What is appended is selected or not, and nothing else changes.
LEMMA SelectedAppend ==
  ASSUME NEW S, NEW s \in Seq(S), NEW e \in S, NEW keep
  PROVE  Selected(Append(s, e), keep) = IF Len(s) + 1 \in keep THEN Append(Selected(s, keep), e)
                                        ELSE Selected(s, keep)
<1> DEFINE N == Len(s)
           t == Append(s, e)
<1>1. /\ N \in Nat /\ t \in Seq(S) /\ Len(t) = N + 1 /\ t[N + 1] = e
      /\ DOMAIN s = 1..N /\ \A n \in 1..N : t[n] = s[n]
  OBVIOUS
<1>a. PICK f : Selects(S, s, keep, f)
  BY SelectedIsLoop
<1>2. /\ f \in [0..N -> Seq(S)] /\ f[0] = <<>>
      /\ \A n \in 1..N : f[n] = IF n \in keep THEN Append(f[n - 1], s[n]) ELSE f[n - 1]
      /\ Selected(s, keep) = f[N]
  BY <1>a DEF Selects
<1> HIDE DEF t
<1>b. PICK g : Selects(S, t, keep, g)
  BY <1>1, SelectedIsLoop
<1>3. /\ g \in [0..(N + 1) -> Seq(S)] /\ g[0] = <<>>
      /\ \A n \in 1..(N + 1) : g[n] = IF n \in keep THEN Append(g[n - 1], t[n]) ELSE g[n - 1]
      /\ Selected(t, keep) = g[N + 1]
  BY <1>1, <1>b DEF Selects
<1> HIDE DEF N
<1> DEFINE same == {n \in 0..N : f[n] = g[n]}
<1>4. 0 \in same
  BY <1>1, <1>2, <1>3
<1>5. ASSUME NEW n \in 0..(N - 1), n \in same PROVE n + 1 \in same
  <2>1. n + 1 \in 1..N /\ n + 1 \in 1..(N + 1) /\ (n + 1) - 1 = n
    BY <1>1
  <2>2. f[n + 1] = IF n + 1 \in keep THEN Append(f[n], s[n + 1]) ELSE f[n]
    BY <1>2, <2>1
  <2>3. g[n + 1] = IF n + 1 \in keep THEN Append(g[n], t[n + 1]) ELSE g[n]
    BY <1>3, <2>1
  <2>4. f[n] = g[n] /\ t[n + 1] = s[n + 1]
    BY <1>1, <1>5, <2>1
  <2>5. f[n + 1] = g[n + 1]
    BY <2>2, <2>3, <2>4
  <2> QED
    BY <2>1, <2>5
<1> HIDE DEF same
<1>6. 0..N \subseteq same
  BY <1>1, <1>4, <1>5, UpTo
<1>7. g[N] = f[N] /\ f[N] \in Seq(S)
  BY <1>1, <1>2, <1>6 DEF same
<1>8. g[N + 1] = IF N + 1 \in keep THEN Append(g[N], e) ELSE g[N]
  BY <1>1, <1>3
<1>9. Selected(t, keep) = IF N + 1 \in keep THEN Append(Selected(s, keep), e) ELSE Selected(s, keep)
  BY <1>2, <1>3, <1>7, <1>8
<1> QED
  BY <1>9 DEF N, t

LEMMA SelectedEmpty == \A keep : Selected(<<>>, keep) = <<>>
<1> SUFFICES ASSUME NEW keep PROVE Selected(<<>>, keep) = <<>>
  OBVIOUS
<1>1. <<>> \in Seq({}) /\ Len(<<>>) = 0
  OBVIOUS
<1>2. PICK f : Selects({}, <<>>, keep, f)
  BY <1>1, SelectedIsLoop
<1> QED
  BY <1>1, <1>2 DEF Selects

\* What is selected is of the type of the sequence.
LEMMA SelectedType ==
  ASSUME NEW S, NEW s \in Seq(S), NEW keep
  PROVE  Selected(s, keep) \in Seq(S)
<1>1. Len(s) \in 0..Len(s)
  OBVIOUS
<1>2. PICK f : Selects(S, s, keep, f)
  BY SelectedIsLoop
<1> QED
  BY <1>1, <1>2 DEF Selects

\* FlattenSeq is a loop that appends one sequence after the other.
Flattens(S, ss, f) ==
  /\ f \in [0..Len(ss) -> Seq(S)]
  /\ f[0] = <<>>
  /\ \A n \in 1..Len(ss) : f[n] = f[n - 1] \o ss[n]
  /\ FlattenSeq(ss) = f[Len(ss)]

LEMMA FlattenSeqIsLoop ==
  ASSUME NEW S, NEW ss \in Seq(Seq(S))
  PROVE  \E f : Flattens(S, ss, f)
<1> DEFINE N == Len(ss)
           A == Seq(S)
           round == [n \in 1..N |-> [t \in A |-> t \o ss[n]]]
           Loop(f) == f = [n \in 1..N |-> IF n = 1 THEN ss[n] ELSE f[n - 1] \o ss[n]]
<1>1. N \in Nat /\ <<>> \in A /\ round \in Rounds(N, A)
  BY DEF Rounds
<1>2. \A n \in 1..N : ss[n] \in A /\ <<>> \o ss[n] = ss[n] /\ \A t \in A : round[n][t] = t \o ss[n]
  OBVIOUS
<1>3. N = 0 => ss = <<>>
  OBVIOUS
<1>4. FlattenSeq(ss) = IF N = 0 THEN ss ELSE (CHOOSE g : Loop(g))[N]
  BY DEF FlattenSeq
<1> HIDE DEF N, A, round
<1>5. PICK f \in [0..N -> A] : f[0] = <<>> /\ \A n \in 1..N : f[n] = round[n][f[n - 1]]
  <2>1. HasValues(N, A, <<>>, round)
    BY <1>1, LoopHasValues
  <2> QED
    BY <2>1 DEF HasValues
<1>6. \A n \in 1..N : f[n] = f[n - 1] \o ss[n] /\ f[n] \in A /\ n - 1 \in 0..N
  <2>1. \A n \in 1..N : n - 1 \in 0..N /\ n \in 0..N
    BY <1>1
  <2> QED
    BY <1>2, <1>5, <2>1
<1>7. CASE N = 0
  BY <1>1, <1>3, <1>4, <1>5, <1>6, <1>7 DEF N, A, Flattens
<1>8. CASE N # 0
  <2> DEFINE h == [n \in 1..N |-> f[n]]
             g == CHOOSE g : Loop(g)
  <2>1. Loop(h)
    <3>1. ASSUME NEW n \in 1..N PROVE h[n] = IF n = 1 THEN ss[n] ELSE h[n - 1] \o ss[n]
      <4>1. CASE n = 1
        <5>1. f[1] = f[0] \o ss[1] /\ <<>> \o ss[1] = ss[1]
          <6>1. 1 \in 1..N /\ 1 - 1 = 0
            BY <4>1
          <6>2. f[1] = f[1 - 1] \o ss[1]
            BY <1>6, <6>1
          <6> QED
            BY <1>2, <6>1, <6>2
        <5>2. h[n] = f[1]
          BY <4>1
        <5> QED
          BY <1>5, <4>1, <5>1, <5>2
      <4>2. CASE n # 1
        <5>1. n - 1 \in 1..N
          BY <1>1, <4>2
        <5> QED
          BY <1>6, <4>2, <5>1
      <4> QED
        BY <4>1, <4>2
    <3> QED
      BY <3>1
  <2>2. Loop(g)
    <3> HIDE DEF h
    <3> QED
      BY <2>1
  <2> HIDE DEF g
  <2> DEFINE k == [n \in 0..N |-> IF n = 0 THEN <<>> ELSE g[n]]
  <2>3. k[0] = <<>>
    BY <1>1
  <2>4. \A n \in 1..N : k[n - 1] \in A => k[n] = k[n - 1] \o ss[n]
    <3> SUFFICES ASSUME NEW n \in 1..N PROVE k[n] = k[n - 1] \o ss[n]
      OBVIOUS
    <3>1. n \in 0..N /\ n - 1 \in 0..N /\ n # 0
      BY <1>1
    <3>2. g[n] = IF n = 1 THEN ss[n] ELSE g[n - 1] \o ss[n]
      BY <2>2
    <3>3. CASE n = 1
      <4>1. k[n] = ss[n] /\ k[n - 1] = <<>> /\ <<>> \o ss[n] = ss[n]
        BY <1>2, <3>1, <3>2, <3>3
      <4> QED
        BY <4>1
    <3>4. CASE n # 1
      <4>1. k[n] = g[n - 1] \o ss[n] /\ k[n - 1] = g[n - 1]
        <5>1. n - 1 # 0
          BY <1>1, <3>4
        <5> QED
          BY <3>1, <3>2, <3>4, <5>1
      <4> QED
        BY <4>1
    <3> QED
      BY <3>3, <3>4
  <2>5. k = [n \in 0..N |-> k[n]]
    OBVIOUS
  <2>6. k[N] = g[N]
    BY <1>1, <1>8
  <2> HIDE DEF k
  <2>7. \A n \in 0..N : k[n] \in A
    <3>1. \A n \in 1..N : k[n - 1] \in A => k[n] = round[n][k[n - 1]]
      BY <1>2, <2>4
    <3> QED
      BY <1>1, <2>3, <3>1, LoopIsTyped
  <2>8. k \in [0..N -> A]
    BY <2>5, <2>7
  <2>9. \A n \in 1..N : k[n] = k[n - 1] \o ss[n]
    <3>1. \A n \in 1..N : n - 1 \in 0..N
      BY <1>1
    <3> QED
      BY <2>4, <2>7, <3>1
  <2>10. FlattenSeq(ss) = k[N]
    BY <1>4, <1>8, <2>6 DEF g
  <2> QED
    BY <2>3, <2>8, <2>9, <2>10 DEF N, A, Flattens
<1> QED
  BY <1>7, <1>8

\* A sequence that is appended comes last.
LEMMA FlattenSeqAppend ==
  ASSUME NEW S, NEW ss \in Seq(Seq(S)), NEW t \in Seq(S)
  PROVE  /\ FlattenSeq(ss) \in Seq(S)
         /\ FlattenSeq(Append(ss, t)) = FlattenSeq(ss) \o t
<1> DEFINE N == Len(ss)
           tt == Append(ss, t)
<1>1. /\ N \in Nat /\ tt \in Seq(Seq(S)) /\ Len(tt) = N + 1 /\ tt[N + 1] = t
      /\ \A n \in 1..N : tt[n] = ss[n]
  OBVIOUS
<1>2. PICK f : Flattens(S, ss, f)
  BY FlattenSeqIsLoop
<1>3. /\ f \in [0..N -> Seq(S)] /\ f[0] = <<>> /\ \A n \in 1..N : f[n] = f[n - 1] \o ss[n]
      /\ FlattenSeq(ss) = f[N]
  BY <1>2 DEF Flattens
<1> HIDE DEF tt
<1>4. PICK g : Flattens(S, tt, g)
  BY <1>1, FlattenSeqIsLoop
<1>5. /\ g \in [0..(N + 1) -> Seq(S)] /\ g[0] = <<>>
      /\ \A n \in 1..(N + 1) : g[n] = g[n - 1] \o tt[n]
      /\ FlattenSeq(tt) = g[N + 1]
  BY <1>1, <1>4 DEF Flattens
<1> HIDE DEF N
<1> DEFINE same == {n \in 0..N : f[n] = g[n]}
<1>6. 0 \in same
  BY <1>1, <1>3, <1>5
<1>7. ASSUME NEW n \in 0..(N - 1), n \in same PROVE n + 1 \in same
  <2>1. n + 1 \in 1..N /\ n + 1 \in 1..(N + 1) /\ (n + 1) - 1 = n
    BY <1>1
  <2>2. f[n + 1] = f[n] \o ss[n + 1] /\ g[n + 1] = g[n] \o tt[n + 1]
    BY <1>3, <1>5, <2>1
  <2>3. f[n + 1] = g[n + 1]
    BY <1>1, <1>7, <2>1, <2>2
  <2> QED
    BY <2>1, <2>3
<1> HIDE DEF same
<1>8. 0..N \subseteq same
  BY <1>1, <1>6, <1>7, UpTo
<1>9. g[N] = f[N] /\ f[N] \in Seq(S)
  BY <1>1, <1>3, <1>8 DEF same
<1>10. g[N + 1] = g[N] \o t
  <2>1. N + 1 \in 1..(N + 1) /\ (N + 1) - 1 = N
    BY <1>1
  <2> QED
    BY <1>1, <1>5, <2>1
<1> QED
  BY <1>3, <1>5, <1>9, <1>10 DEF tt

\* What is selected of two sequences, one after the other, if all of the second is,
\* and if none of it is.
LEMMA SelectedConcat ==
  ASSUME NEW S, NEW s \in Seq(S), NEW t \in Seq(S), NEW keep
  PROVE  /\ (\A j \in 1..Len(t) : Len(s) + j \in keep) =>
              Selected(s \o t, keep) = Selected(s, keep) \o t
         /\ (\A j \in 1..Len(t) : Len(s) + j \notin keep) =>
              Selected(s \o t, keep) = Selected(s, keep)
<1> DEFINE N == Len(t)
           first(n) == SubSeq(t, 1, n)
           taken == {n \in 0..N : Selected(s \o first(n), keep) = Selected(s, keep) \o first(n)}
           left == {n \in 0..N : Selected(s \o first(n), keep) = Selected(s, keep)}
<1>0. N \in Nat /\ first(N) = t /\ first(0) = <<>> /\ 0 \in 0..N /\ N \in 0..N /\ \A u \in Seq(S) : u \o <<>> = u
  OBVIOUS
<1>1. Selected(s, keep) \in Seq(S)
  BY SelectedType
<1>3. ASSUME NEW n \in 0..(N - 1)
      PROVE  /\ s \o first(n + 1) = Append(s \o first(n), t[n + 1])
             /\ s \o first(n) \in Seq(S) /\ t[n + 1] \in S /\ Len(s \o first(n)) = Len(s) + n
             /\ \A u \in Seq(S) : u \o first(n + 1) = Append(u \o first(n), t[n + 1])
  <2> DEFINE e == t[n + 1]
             part == first(n)
  <2>1. part \in Seq(S) /\ Len(part) = n /\ e \in S
    OBVIOUS
  <2>2. first(n + 1) = Append(part, e)
    OBVIOUS
  <2> HIDE DEF e, part, first
  <2>3. \A u \in Seq(S) : u \o Append(part, e) = Append(u \o part, e)
    BY <2>1
  <2>4. s \o part \in Seq(S) /\ Len(s \o part) = Len(s) + n
    BY <2>1
  <2> QED
    BY <2>1, <2>2, <2>3, <2>4 DEF e, part
<1>4. ASSUME NEW n \in 0..(N - 1)
      PROVE  Selected(s \o first(n + 1), keep) =
               IF Len(s) + n + 1 \in keep THEN Append(Selected(s \o first(n), keep), t[n + 1])
               ELSE Selected(s \o first(n), keep)
  <2> DEFINE u == s \o first(n)
  <2>1. u \in Seq(S) /\ t[n + 1] \in S /\ Len(u) = Len(s) + n /\ s \o first(n + 1) = Append(u, t[n + 1])
    BY <1>3
  <2> HIDE DEF u
  <2>2. Selected(Append(u, t[n + 1]), keep) =
          IF Len(u) + 1 \in keep THEN Append(Selected(u, keep), t[n + 1]) ELSE Selected(u, keep)
    BY <2>1, SelectedAppend
  <2> QED
    BY <2>1, <2>2 DEF u
<1> HIDE DEF first
<1>5. ASSUME \A j \in 1..N : Len(s) + j \in keep
      PROVE  Selected(s \o t, keep) = Selected(s, keep) \o t
  <2>1. 0 \in taken
    <3>1. s \o first(0) = s /\ Selected(s, keep) \o first(0) = Selected(s, keep)
      BY <1>0, <1>1
    <3> QED
      BY <1>0, <3>1
  <2>2. ASSUME NEW n \in 0..(N - 1), n \in taken PROVE n + 1 \in taken
    <3>1. n + 1 \in 0..N /\ Len(s) + n + 1 \in keep
      BY <1>0, <1>5
    <3>2. Selected(s \o first(n + 1), keep) = Append(Selected(s, keep) \o first(n), t[n + 1])
      BY <1>4, <2>2, <3>1
    <3> QED
      BY <1>1, <1>3, <3>1, <3>2
  <2> HIDE DEF taken
  <2>3. 0..N \subseteq taken
    BY <1>0, <2>1, <2>2, UpTo
  <2> QED
    <3>1. Selected(s \o first(N), keep) = Selected(s, keep) \o first(N)
      BY <1>0, <2>3 DEF taken
    <3> QED
      BY <1>0, <3>1
<1>6. ASSUME \A j \in 1..N : Len(s) + j \notin keep
      PROVE  Selected(s \o t, keep) = Selected(s, keep)
  <2>1. 0 \in left
    <3>1. s \o first(0) = s
      BY <1>0
    <3> QED
      BY <1>0, <3>1
  <2>2. ASSUME NEW n \in 0..(N - 1), n \in left PROVE n + 1 \in left
    <3>1. n + 1 \in 0..N /\ Len(s) + n + 1 \notin keep
      BY <1>0, <1>6
    <3> QED
      BY <1>4, <2>2, <3>1
  <2> HIDE DEF left
  <2>3. 0..N \subseteq left
    BY <1>0, <2>1, <2>2, UpTo
  <2> QED
    <3>1. Selected(s \o first(N), keep) = Selected(s, keep)
      BY <1>0, <2>3 DEF left
    <3> QED
      BY <1>0, <3>1
<1> QED
  BY <1>5, <1>6

-----------------------------------------------------------------------------
(* Rows.                                                                   *)

LEMMA FlattenSeqType ==
  ASSUME NEW S, NEW ss \in Seq(Seq(S))
  PROVE  FlattenSeq(ss) \in Seq(S)
<1>1. <<>> \in Seq(S)
  OBVIOUS
<1> QED
  BY <1>1, FlattenSeqAppend

RowsOfRun(source, run) == {row \in Rows : row.source = source /\ row.run = run}

Sources == {"file", "usages", "references"}

LEMMA LineRowsType ==
  ASSUME NEW source \in Sources, NEW run \in Nat, NEW term \in Sought, NEW file \in Texts,
         NEW l \in DOMAIN file.lines
  PROVE  LineRows(source, run, term, file, l) \in Seq(RowsOfRun(source, run))
<1> DEFINE line == file.lines[l]
           rows == [i \in DOMAIN line |-> Row(source, run, term, file.ver, l, i - 1)]
<1>1. line \in Seq(Tokens) /\ file.ver \in Nat /\ l \in Int
  BY DEF Texts
<1>2. DOMAIN line = 1..Len(line) /\ Len(line) \in Nat
  BY <1>1
<1>3. ASSUME NEW i \in DOMAIN line
      PROVE  Row(source, run, term, file.ver, l, i - 1) \in RowsOfRun(source, run)
  <2>1. i - 1 \in Int /\ <<term>> \in Seq(Tokens \cup Sought)
    BY <1>2
  <2> QED
    BY <1>1, <2>1 DEF Row, Rows, RowsOfRun, Sources
<1>4. rows \in Seq(RowsOfRun(source, run))
  BY <1>2, <1>3
<1>5. LineRows(source, run, term, file, l) = Selected(rows, {i \in DOMAIN line : line[i] = term})
  BY DEF LineRows
<1> HIDE DEF rows
<1> QED
  BY <1>4, <1>5, SelectedType

LEMMA AllRowsType ==
  ASSUME NEW source \in Sources, NEW run \in Nat, NEW term \in Sought, NEW file \in Texts
  PROVE  AllRows(source, run, term, file) \in Seq(RowsOfRun(source, run))
<1> DEFINE S == RowsOfRun(source, run)
           each == [l \in DOMAIN file.lines |-> LineRows(source, run, term, file, l)]
<1>1. DOMAIN file.lines = 1..Len(file.lines) /\ Len(file.lines) \in Nat
  BY DEF Texts
<1>2. each \in Seq(Seq(S))
  BY <1>1, LineRowsType
<1> HIDE DEF S
<1> QED
  BY <1>2, FlattenSeqType DEF AllRows, S

LEMMA Clipped ==
  ASSUME NEW col \in Int, NEW n \in Nat
  PROVE  Max({0, Min({col, n})}) = IF col < 0 THEN 0 ELSE IF col > n THEN n ELSE col
<1>1. Min({col, n}) = IF col > n THEN n ELSE col
  BY DEF Min
<1>2. \A m \in Int : Max({0, m}) = IF m < 0 THEN 0 ELSE m
  BY DEF Max
<1> QED
  BY <1>1, <1>2

LEMMA PutType ==
  ASSUME NEW line \in Seq(Tokens), NEW col \in Int, NEW len \in Nat, NEW with \in Seq(Tokens)
  PROVE  Put(line, col, len, with) \in Seq(Tokens)
<1> DEFINE from == Max({0, Min({col, Len(line)})})
<1>1. from \in 0..Len(line) /\ Len(line) \in Nat
  <2>1. Len(line) \in Nat
    OBVIOUS
  <2>2. from = IF col < 0 THEN 0 ELSE IF col > Len(line) THEN Len(line) ELSE col
    BY <2>1, Clipped
  <2> HIDE DEF from
  <2> QED
    BY <2>1, <2>2
<1> HIDE DEF from
<1>2. SubSeq(line, 1, from) \in Seq(Tokens) /\ SubSeq(line, from + len + 1, Len(line)) \in Seq(Tokens)
  BY <1>1
<1>3. Put(line, col, len, with) =
        SubSeq(line, 1, from) \o with \o SubSeq(line, from + len + 1, Len(line))
  BY DEF Put, from
<1> QED
  BY <1>2, <1>3

-----------------------------------------------------------------------------
(* Replacing.                                                              *)

Doing == [lines : Seq(Seq(Tokens)), block : Int, offset : Int, rows : Seq(Rows)]

LEMMA IsSeq ==
  ASSUME NEW S, NEW n \in Nat, NEW u \in [1..n -> S]
  PROVE  u \in Seq(S) /\ Len(u) = n
OBVIOUS

LEMMA ReplaceItemType ==
  ASSUME NEW done \in Doing, NEW item \in Rows, NEW with \in Seq(Tokens)
  PROVE  /\ ReplaceItem(done, item, with) \in Doing
         /\ Len(ReplaceItem(done, item, with).lines) = Len(done.lines)
<1> DEFINE block == IF item.line > done.block THEN item.line ELSE done.block
           offset == IF item.line > done.block THEN 0 ELSE done.offset
           col == offset + item.col
           put == Put(done.lines[block], col, item.len, with)
           lines == [done.lines EXCEPT ![block] = put]
           row == [item EXCEPT !.col = col, !.len = Len(with), !.marks = with]
<1>1. block \in Int /\ offset \in Int /\ col \in Int /\ item.len \in Nat /\ Len(with) \in Nat
  BY DEF Doing, Rows
<1>2. lines \in Seq(Seq(Tokens)) /\ Len(lines) = Len(done.lines)
  <2>1. done.lines \in Seq(Seq(Tokens))
    BY DEF Doing
  <2> HIDE DEF block, col
  <2>2. ASSUME block \in DOMAIN done.lines PROVE put \in Seq(Tokens)
    <3>1. done.lines[block] \in Seq(Tokens)
      BY <2>1, <2>2
    <3> QED
      BY <1>1, <3>1, PutType
  <2>3. lines = [done.lines EXCEPT ![block] = put]
    OBVIOUS
  <2> DEFINE T == Seq(Tokens)
             was == done.lines
             n == Len(was)
  <2>4. n \in Nat /\ was \in [1..n -> T] /\ (block \in 1..n => put \in T)
    BY <2>1, <2>2
  <2> HIDE DEF put, lines, T, n
  <2>5. lines \in [1..n -> T]
    BY <2>3, <2>4
  <2>6. lines \in Seq(T) /\ Len(lines) = n
    BY <2>4, <2>5, IsSeq
  <2> QED
    BY <2>6 DEF T, n
<1>3. row \in Rows
  <2>1. with \in Seq(Tokens \cup Sought)
    OBVIOUS
  <2> HIDE DEF col
  <2> QED
    BY <1>1, <2>1 DEF Rows
<1>4. ReplaceItem(done, item, with) =
        [lines |-> lines, block |-> block, offset |-> offset + Len(with) - item.len,
         rows |-> Append(done.rows, row)]
  BY DEF ReplaceItem
<1>5. Append(done.rows, row) \in Seq(Rows)
  <2> HIDE DEF row
  <2> QED
    BY <1>3 DEF Doing
<1> HIDE DEF block, offset, lines, row
<1> QED
  BY <1>1, <1>2, <1>4, <1>5 DEF Doing

Undone(lines) == [lines |-> lines, block |-> 1, offset |-> 0, rows |-> <<>>]

\* f[n] is what the first n items have done.
ReplaceLoop(lines, items, with, f) ==
  /\ f \in [0..Len(items) -> Doing]
  /\ f[0] = Undone(lines)
  /\ \A n \in 1..Len(items) : f[n] = ReplaceItem(f[n - 1], items[n], with)
  /\ Replace(lines, items, with) = f[Len(items)]

LEMMA ReplaceIsLoop ==
  ASSUME NEW lines \in Seq(Seq(Tokens)), NEW items \in Seq(Rows), NEW with \in Seq(Tokens)
  PROVE  \E f : ReplaceLoop(lines, items, with, f)
<1> DEFINE N == Len(items)
           A == Doing
           base == Undone(lines)
           round == [n \in 1..N |-> [d \in A |-> ReplaceItem(d, items[n], with)]]
           Loop(f) == f = [n \in 0..N |-> IF n = 0
                             THEN [lines |-> lines, block |-> 1, offset |-> 0, rows |-> <<>>]
                             ELSE ReplaceItem(f[n - 1], items[n], with)]
<1>1. N \in Nat /\ base \in A
  BY DEF Undone, Doing
<1>2. \A n \in 1..N, d \in A : ReplaceItem(d, items[n], with) \in A
  <2>1. \A n \in 1..N : items[n] \in Rows
    OBVIOUS
  <2> QED
    BY <2>1, ReplaceItemType
<1>3. round \in Rounds(N, A) /\ \A n \in 1..N, d \in A : round[n][d] = ReplaceItem(d, items[n], with)
  <2> HIDE DEF N, A
  <2> QED
    BY <1>2 DEF Rounds
<1>4. \A f : Loop(f) <=> f = [n \in 0..N |-> IF n = 0 THEN base ELSE ReplaceItem(f[n - 1], items[n], with)]
  BY DEF Undone
<1>5. Replace(lines, items, with) = (CHOOSE g : Loop(g))[N]
  BY DEF Replace
<1> DEFINE g == CHOOSE g : Loop(g)
<1> HIDE DEF N, A, round, base, Loop
<1>6. PICK f \in [0..N -> A] : f[0] = base /\ \A n \in 1..N : f[n] = round[n][f[n - 1]]
  <2>1. HasValues(N, A, base, round)
    BY <1>1, <1>3, LoopHasValues
  <2> QED
    BY <2>1 DEF HasValues
<1>7. Loop(f)
  <2>1. \A n \in 0..N : n # 0 => n \in 1..N /\ f[n - 1] \in A
    BY <1>1
  <2>2. f = [n \in 0..N |-> f[n]]
    BY <1>6
  <2>3. \A n \in 0..N : f[n] = IF n = 0 THEN base ELSE ReplaceItem(f[n - 1], items[n], with)
    BY <1>3, <1>6, <2>1
  <2> QED
    BY <1>4, <2>2, <2>3
<1>8. g = [n \in 0..N |-> IF n = 0 THEN base ELSE ReplaceItem(g[n - 1], items[n], with)]
  BY <1>4, <1>7
<1> HIDE DEF g
<1>9. /\ g = [n \in 0..N |-> g[n]] /\ g[0] = base
      /\ \A n \in 1..N : g[n] = ReplaceItem(g[n - 1], items[n], with)
  <2>1. 0 \in 0..N /\ \A n \in 1..N : n \in 0..N /\ n # 0
    BY <1>1
  <2> QED
    BY <1>8, <2>1
<1>10. \A n \in 0..N : g[n] \in A
  <2>1. g[0] \in A /\ \A n \in 1..N : g[n - 1] \in A => g[n] = round[n][g[n - 1]]
    BY <1>1, <1>3, <1>9
  <2> QED
    BY <1>1, <1>3, <2>1, LoopIsTyped
<1>11. g \in [0..N -> A]
  BY <1>9, <1>10
<1> QED
  BY <1>5, <1>9, <1>11 DEF N, A, base, g, ReplaceLoop

\* The text stays a text of as many lines, and the rows stay rows.
LEMMA ReplaceType ==
  ASSUME NEW lines \in Seq(Seq(Tokens)), NEW items \in Seq(Rows), NEW with \in Seq(Tokens)
  PROVE  Replace(lines, items, with) \in Doing
<1>1. Len(items) \in 0..Len(items)
  OBVIOUS
<1>2. PICK f : ReplaceLoop(lines, items, with, f)
  BY ReplaceIsLoop
<1> QED
  BY <1>1, <1>2 DEF ReplaceLoop

-----------------------------------------------------------------------------
(* Types.                                                                  *)

\* What a step makes of a variable that is a record.
LEMMA EmptyIsText ==
  /\ Empty \in Texts /\ NoSearch \in Searches /\ NoHandler \in Handlers /\ Terms \subseteq Sought
BY DEF Empty, NoSearch, NoHandler, Texts, Searches, Handlers, Sought

LEMMA ThreadFields ==
  ASSUME NEW t \in Threads
  PROVE  /\ t.run \in Nat /\ t.term \in Sought /\ t.file \in Texts /\ t.line \in Nat \ {0}
         /\ t.killed \in BOOLEAN /\ t.state \in {"idle", "starting", "running"}
BY DEF Threads

LEMMA EndedType ==
  ASSUME NEW t \in Threads
  PROVE  /\ Ended(t) \in Threads /\ Ended(t).state = "idle" /\ ~Ended(t).killed
         /\ Ended(t).run = t.run
<1>1. Ended(t) = [t EXCEPT !.state = "idle", !.killed = FALSE, !.file = Empty, !.line = 1]
  BY DEF Ended
<1>2. Empty \in Texts
  BY EmptyIsText
<1>3. Ended(t) = [state |-> "idle", killed |-> FALSE, run |-> t.run, term |-> t.term,
                 file |-> Empty, line |-> 1]
  BY <1>1 DEF Threads
<1> QED
  BY <1>2, <1>3, ThreadFields DEF Threads

\* A thread that is to start, or still runs.
LEMMA StartThreadType ==
  ASSUME NEW t \in Threads, t.state # "idle" => t.run # 0, t.killed => t.state # "idle",
         NEW term \in Sought, text \in Texts, disk \in Texts, findText \in Sought,
         StartThread(t, term)
  PROVE  /\ thread' \in Threads /\ (thread'.state # "idle" => thread'.run # 0)
         /\ (thread'.killed => thread'.state # "idle")
         /\ disk' \in Texts /\ findText' \in Sought /\ handler' \in Handlers
<1>0. CASE term = NoTerm
  BY <1>0, EmptyIsText DEF StartThread
<1>1. CASE term # NoTerm /\ t.state = "idle"
  <2>1. thread' = [t EXCEPT !.state = "starting", !.run = @ + 1, !.killed = FALSE]
    BY <1>1 DEF StartThread
  <2>2. thread' \in Threads /\ thread'.state = "starting" /\ thread'.run = t.run + 1 /\ t.run \in Nat
    <3>1. thread' = [state |-> "starting", killed |-> FALSE, run |-> t.run + 1, term |-> t.term,
                     file |-> t.file, line |-> t.line]
      BY <2>1 DEF Threads
    <3>2. t.run + 1 \in Nat
      BY ThreadFields
    <3> QED
      BY <3>1, <3>2, ThreadFields DEF Threads
  <2>3. disk' = text /\ findText' = term /\ handler' = NoHandler
    BY <1>1 DEF StartThread
  <2>4. NoHandler \in Handlers
    BY EmptyIsText
  <2>5. thread'.state # "idle" /\ thread'.run # 0
    BY <2>2
  <2> QED
    BY <2>2, <2>3, <2>4, <2>5
<1>2. CASE term # NoTerm /\ t.state # "idle"
  BY <1>2, EmptyIsText DEF StartThread
<1> QED
  BY <1>0, <1>1, <1>2

LEMMA SearchTypeInit == Init => SearchTypeOK
<1> SUFFICES ASSUME Init PROVE SearchTypeOK
  OBVIOUS
<1>1. [lines |-> Lines, ver |-> 0] \in Texts
  BY SearchAssumption DEF Texts, Tokens
<1>2. NoTerm \in Sought
  BY DEF Sought
<1>3. thread \in Threads /\ usages \in Processes /\ references \in Requests
  BY <1>2, EmptyIsText DEF Init, Threads, Processes, Requests
<1>4. panel \in Panels
  BY EmptyIsText DEF Init, Panels
<1> QED
  BY <1>1, <1>2, <1>3, <1>4, EmptyIsText DEF Init, SearchTypeOK

LEMMA ThreadType ==
  ASSUME SearchTypeOK,
         StopReturns \/ StopTerminates \/ RunBegins \/ RunEnds \/ Dies
         \/ \E term \in Sought : FindInFiles(term)
  PROVE  SearchTypeOK'
<1>0. /\ handler.term \in Sought /\ events \in Seq(Events) /\ thread \in Threads /\ text \in Texts
      /\ thread.state # "idle" => thread.run # 0
      /\ thread.killed => thread.state # "idle"
      /\ disk \in Texts /\ findText \in Sought
  BY DEF SearchTypeOK, Handlers
<1>1. [is |-> "finished"] \in Events /\ \A e \in Events : Append(events, e) \in Seq(Events)
  BY <1>0 DEF Events
<1>2. CASE StopReturns
  BY <1>0, <1>2, StartThreadType DEF StopReturns, SearchTypeOK
<1>3. CASE StopTerminates
  <2>1. CASE events' = Append(events, [is |-> "finished"]) /\ StartThread(Ended(thread), handler.term)
    BY <1>0, <1>1, <1>3, <2>1, StartThreadType, EndedType DEF StopTerminates, SearchTypeOK
  <2>2. CASE StartThread([thread EXCEPT !.killed = TRUE], handler.term) /\ UNCHANGED events
    <3>1. [thread EXCEPT !.killed = TRUE] \in Threads
          /\ [thread EXCEPT !.killed = TRUE].run = thread.run
          /\ [thread EXCEPT !.killed = TRUE].state = thread.state
      BY <1>0 DEF Threads
    <3>2. thread.state # "idle"
      BY <1>3 DEF StopTerminates
    <3> HIDE DEF StartThread
    <3> QED
      BY <1>0, <1>3, <2>2, <3>1, <3>2, StartThreadType DEF StopTerminates, SearchTypeOK
  <2> QED
    BY <1>3, <2>1, <2>2 DEF StopTerminates
<1>4. CASE RunBegins
  <2>1. [run |-> thread.run, term |-> findText, file |-> disk] \in Searches
    BY <1>0, ThreadFields DEF SearchTypeOK, Searches
  <2>2. [is |-> "started", of |-> [run |-> thread.run, term |-> findText, file |-> disk]] \in Events
    BY <2>1 DEF Events
  <2>3. /\ thread' \in Threads /\ thread'.run = thread.run
        /\ thread'.state = "running" /\ thread.state = "starting"
    <3>1. disk \in Texts /\ findText \in Sought
      BY DEF SearchTypeOK
    <3>2. thread' = [state |-> "running", killed |-> thread.killed, run |-> thread.run,
                     term |-> findText, file |-> disk, line |-> 1]
      BY <1>0, <1>4 DEF RunBegins, Threads
    <3> QED
      BY <1>0, <1>4, <3>1, <3>2, ThreadFields DEF RunBegins, Threads
  <2>4. events' \in Seq(Events) /\ finding' \in BOOLEAN
    BY <1>1, <1>4, <2>2 DEF RunBegins
  <2>5. thread'.state # "idle" /\ thread'.run # 0
    BY <1>0, <2>3
  <2> QED
    BY <1>4, <2>3, <2>4, <2>5 DEF RunBegins, SearchTypeOK
<1>5. CASE RunEnds
  BY <1>0, <1>1, <1>5, EndedType DEF RunEnds, SearchTypeOK
<1>6. CASE Dies
  BY <1>0, <1>1, <1>6, EndedType DEF Dies, SearchTypeOK
<1>7. ASSUME NEW term \in Sought, FindInFiles(term) PROVE SearchTypeOK'
  <2>1. CASE thread.state = "idle"
    BY <1>0, <1>7, <2>1, StartThreadType DEF FindInFiles, SearchTypeOK
  <2>2. CASE thread.state # "idle"
    <3>1. [NoHandler EXCEPT !.in = "stop", !.term = term] \in Handlers
      BY EmptyIsText DEF Handlers
    <3>2. cut \cup {thread.run} \subseteq Nat
      BY <1>0, ThreadFields DEF SearchTypeOK
    <3> QED
      BY <1>7, <2>2, <3>1, <3>2 DEF FindInFiles, SearchTypeOK
  <2> QED
    BY <2>1, <2>2
<1> QED
  BY <1>2, <1>3, <1>4, <1>5, <1>6, <1>7

\* The rows of a line as the thread posts them.
Posts(rows) == [k \in DOMAIN rows |-> [is |-> "result", row |-> rows[k]]]

LEMMA PostsType ==
  ASSUME NEW rows \in Seq(Found)
  PROVE  Posts(rows) \in Seq([is : {"result"}, row : Found]) /\ Posts(rows) \in Seq(Events)
         /\ Len(Posts(rows)) = Len(rows)
<1>1. Len(rows) \in Nat /\ DOMAIN rows = 1..Len(rows) /\ \A k \in DOMAIN rows : rows[k] \in Found
  OBVIOUS
<1>2. Posts(rows) \in [1..Len(rows) -> [is : {"result"}, row : Found]]
  BY <1>1 DEF Posts
<1>3. [is : {"result"}, row : Found] \subseteq Events
  BY DEF Events
<1> DEFINE R == [is : {"result"}, row : Found]
           n == Len(rows)
<1> HIDE DEF R, n
<1>4. n \in Nat /\ Posts(rows) \in [1..n -> R] /\ R \subseteq Events
  BY <1>1, <1>2, <1>3 DEF R, n
<1>5. Posts(rows) \in Seq(R) /\ Len(Posts(rows)) = n
  BY <1>4, IsSeq
<1>6. Posts(rows) \in Seq(Events)
  BY <1>4, <1>5
<1> QED
  BY <1>5, <1>6 DEF R, n

LEMMA LineFound ==
  ASSUME SearchTypeOK, thread.state = "running", thread.line <= Len(thread.file.lines)
  PROVE  /\ thread.line \in DOMAIN thread.file.lines
         /\ LineRows("file", thread.run, thread.term, thread.file, thread.line) \in Seq(Found)
         /\ LineRows("file", thread.run, thread.term, thread.file, thread.line)
              \in Seq(RowsOfRun("file", thread.run))
<1>0. /\ thread.run \in Nat \ {0} /\ thread.term \in Sought /\ thread.file \in Texts
      /\ thread.line \in Nat \ {0}
  BY ThreadFields DEF SearchTypeOK
<1>1. thread.line \in DOMAIN thread.file.lines
  BY <1>0 DEF Texts
<1>2. LineRows("file", thread.run, thread.term, thread.file, thread.line) \in Seq(RowsOfRun("file", thread.run))
  BY <1>0, <1>1, LineRowsType DEF Sources
<1>3. RowsOfRun("file", thread.run) \subseteq Found
  BY <1>0 DEF RowsOfRun, Found
<1> QED
  BY <1>1, <1>2, <1>3

LEMMA SearchesLineType ==
  ASSUME SearchTypeOK, SearchesLine
  PROVE  SearchTypeOK'
<1> DEFINE rows == LineRows("file", thread.run, thread.term, thread.file, thread.line)
<1>1. rows \in Seq(Found)
  BY LineFound DEF SearchesLine
<1>2. events' = events \o Posts(rows)
  BY DEF SearchesLine, Posts
<1> HIDE DEF rows
<1>3. events' \in Seq(Events)
  <2>1. Posts(rows) \in Seq(Events) /\ events \in Seq(Events)
    BY <1>1, PostsType DEF SearchTypeOK
  <2> QED
    BY <1>2, <2>1
<1>4. Len(thread.file.lines) + 1 \in Nat \ {0} /\ thread.line + 1 \in Nat \ {0} /\ thread \in Threads
  BY ThreadFields DEF SearchTypeOK, Texts
<1>5. \A n \in Nat \ {0} : /\ [thread EXCEPT !.line = n] \in Threads
                           /\ [thread EXCEPT !.line = n].state = thread.state
                           /\ [thread EXCEPT !.line = n].run = thread.run
                           /\ [thread EXCEPT !.line = n].killed = thread.killed
  BY <1>4 DEF Threads
<1>6. \E n \in Nat \ {0} : thread' = [thread EXCEPT !.line = n]
  <2>1. thread' = [thread EXCEPT !.line = IF finding THEN thread.line + 1 ELSE Len(thread.file.lines) + 1]
    BY <1>4 DEF SearchesLine, Threads
  <2> QED
    BY <1>4, <2>1
<1> QED
  BY <1>3, <1>5, <1>6 DEF SearchesLine, SearchTypeOK

LEMMA PanelOperators ==
  ASSUME NEW p \in Panels
  PROVE  /\ FindFinished(p) \in Panels
         /\ \A rows \in Seq(Rows) : FindResult(p, rows) \in Panels
         /\ \A term \in Tokens \cup Sought, of \in Searches : FindStarted(p, <<term>>, of) \in Panels
<1>1. \A term \in Tokens \cup Sought : <<term>> \in Seq(Tokens \cup Sought)
  OBVIOUS
<1>2. <<>> \in Seq(Rows) /\ \A rows \in Seq(Rows) : p.rows \o rows \in Seq(Rows)
  BY DEF Panels
<1> QED
  BY <1>1, <1>2 DEF FindFinished, FindResult, FindStarted, Panels

LEMMA DeliversType ==
  ASSUME SearchTypeOK, Delivers
  PROVE  SearchTypeOK'
<1>0. panel \in Panels
  BY DEF SearchTypeOK
<1>1. Head(events) \in Events /\ Tail(events) \in Seq(Events)
  BY DEF Delivers, SearchTypeOK
<1>2. panel' \in Panels
  <2> DEFINE e == Head(events)
  <2>1. SearchText \in Tokens \cup Sought
    BY DEF SearchText, SearchTypeOK, Processes, Requests
  <2>2. CASE e.is = "started"
    <3>1. e.of \in Searches
      BY <1>1, <2>2 DEF Events
    <3> QED
      BY <1>0, <2>1, <2>2, <3>1, PanelOperators DEF Delivers
  <2>3. CASE e.is = "result"
    <3>1. e.row \in Rows
      BY <1>1, <2>3 DEF Events, Found
    <3>2. <<e.row>> \in Seq(Rows)
      BY <3>1
    <3> QED
      BY <1>0, <2>3, <3>2, PanelOperators DEF Delivers
  <2>4. CASE e.is = "finished"
    BY <1>0, <2>4, PanelOperators DEF Delivers
  <2> QED
    BY <1>1, <2>2, <2>3, <2>4 DEF Events
<1> QED
  BY <1>1, <1>2 DEF Delivers, SearchTypeOK

LEMMA ShownLocations ==
  ASSUME SearchTypeOK
  PROVE  ShowLocations \in Seq(RowsOfRun("references", 0))
<1>1. references.term \in Sought /\ references.file \in Texts
  BY DEF SearchTypeOK, Requests
<1> DEFINE rows == AllRows("references", 0, references.term, references.file)
           R == RowsOfRun("references", 0)
<1>2. rows \in Seq(R)
  BY <1>1, AllRowsType DEF Sources
<1>3. ShowLocations = [k \in DOMAIN rows |-> [rows[k] EXCEPT !.line = @ - 1]]
  BY DEF ShowLocations
<1>4. \A row \in R : [row EXCEPT !.line = @ - 1] \in R
  BY DEF RowsOfRun, Rows
<1> HIDE DEF rows, R
<1>5. Len(rows) \in Nat /\ DOMAIN rows = 1..Len(rows) /\ \A k \in DOMAIN rows : rows[k] \in R
  BY <1>2
<1>6. ShowLocations \in [1..Len(rows) -> R]
  BY <1>3, <1>4, <1>5
<1>7. ShowLocations \in Seq(R)
  BY <1>5, <1>6, IsSeq
<1> QED
  BY <1>7 DEF R

LEMMA RunsAreRows == \A source, run : Seq(RowsOfRun(source, run)) \subseteq Seq(Rows)
<1>1. \A source, run : RowsOfRun(source, run) \subseteq Rows
  BY DEF RowsOfRun
<1>2. \A R : R \subseteq Rows => Seq(R) \subseteq Seq(Rows)
  OBVIOUS
<1> QED
  BY <1>1, <1>2

\* Counting in bytes makes a row no shorter.
LEMMA UsagesRowsType ==
  ASSUME SearchTypeOK, usages.line \in DOMAIN usages.file.lines, NEW ranged \in BOOLEAN
  PROVE  UsagesRows(ranged) \in Seq(RowsOfRun("usages", 0))
<1> DEFINE line == usages.file.lines[usages.line]
           rows == LineRows("usages", 0, usages.term, usages.file, usages.line)
           more(col) == Cardinality({i \in DOMAIN line : i <= col + 1 /\ line[i] \in Wide})
           R == RowsOfRun("usages", 0)
           row(k) == [rows[k] EXCEPT !.len = IF ranged THEN 1 + more(rows[k].col) ELSE 1]
<1>1. usages.term \in Sought /\ usages.file \in Texts
  BY DEF SearchTypeOK, Processes
<1>2. rows \in Seq(R)
  BY <1>1, LineRowsType DEF Sources
<1>3. \A col : more(col) \in Nat
  <2>1. Len(line) \in Nat /\ DOMAIN line = 1..Len(line)
    BY <1>1 DEF Texts
  <2>2. IsFiniteSet(1..Len(line))
    BY <2>1, FS_Interval
  <2> QED
    BY <2>1, <2>2, FS_Subset, FS_CardinalityType
<1>4. UsagesRows(ranged) = [k \in DOMAIN rows |-> row(k)]
  BY DEF UsagesRows
<1>5. \A r \in R, n \in Nat : [r EXCEPT !.len = n] \in R
  BY DEF RowsOfRun, Rows
<1> HIDE DEF rows, R, more
<1>6. Len(rows) \in Nat /\ DOMAIN rows = 1..Len(rows) /\ \A k \in DOMAIN rows : rows[k] \in R
  BY <1>2
<1>7. ASSUME NEW k \in DOMAIN rows PROVE row(k) \in R
  <2> DEFINE n == IF ranged THEN 1 + more(rows[k].col) ELSE 1
  <2>1. n \in Nat
    BY <1>3
  <2> HIDE DEF n
  <2>2. [rows[k] EXCEPT !.len = n] \in R
    BY <1>5, <1>6, <2>1
  <2> QED
    BY <2>2 DEF n
<1> HIDE DEF row
<1>8. UsagesRows(ranged) \in [1..Len(rows) -> R]
  BY <1>4, <1>6, <1>7
<1>9. UsagesRows(ranged) \in Seq(R)
  BY <1>6, <1>8, IsSeq
<1> QED
  BY <1>9 DEF R

\* What Find Usages does to the rows of the panel: it puts its own behind them.
LEMMA UsagesPanel ==
  ASSUME SearchTypeOK, UsagesHead \/ UsagesError \/ UsagesOutput \/ UsagesFinish
  PROVE  \E rows \in Seq(RowsOfRun("usages", 0)) :
           panel'.rows = panel.rows \o rows /\ panel'.of = panel.of
<1>0. /\ panel \in Panels /\ panel.rows \in Seq(Rows) /\ usages.line \in Nat \ {0} /\ usages.file \in Texts
  BY DEF SearchTypeOK, Panels, Processes
<1>1. <<>> \in Seq(RowsOfRun("usages", 0)) /\ panel.rows \o <<>> = panel.rows
  BY <1>0
<1>2. CASE UsagesHead \/ UsagesError \/ UsagesFinish
  <2>1. panel'.rows = panel.rows /\ panel'.of = panel.of
    BY <1>0, <1>2 DEF UsagesHead, UsagesError, UsagesFinish, FindFinished, Panels
  <2> QED
    BY <1>1, <2>1
<1>3. CASE UsagesOutput
  <2>1. usages.line \in DOMAIN usages.file.lines
    BY <1>0, <1>3 DEF UsagesOutput, Texts
  <2>2. \A ranged \in BOOLEAN : UsagesRows(ranged) \in Seq(RowsOfRun("usages", 0))
    BY <2>1, UsagesRowsType
  <2>3. PICK ranged \in BOOLEAN : panel' = FindResult(panel, UsagesRows(ranged))
    BY <1>3 DEF UsagesOutput
  <2>4. panel'.rows = panel.rows \o UsagesRows(ranged) /\ panel'.of = panel.of
    BY <1>0, <2>3 DEF FindResult, Panels
  <2> QED
    BY <2>2, <2>4
<1> QED
  BY <1>2, <1>3

LEMMA PanelActionsType ==
  ASSUME SearchTypeOK,
         NewSearch \/ UsagesHead \/ UsagesError \/ UsagesOutput \/ UsagesFinish \/ ReferencesAnswer
         \/ \E term \in Terms : FindUsages(term) \/ FindReferences(term)
  PROVE  SearchTypeOK'
<1>0. panel \in Panels /\ Terms \subseteq Sought /\ text \in Texts /\ others \in Nat
  BY EmptyIsText DEF SearchTypeOK
<1>a. /\ usages \in Processes /\ usages.term \in Sought /\ usages.file \in Texts
      /\ usages.line \in Nat \ {0} /\ usages.run = 0 /\ usages.state \in {"idle", "running"}
      /\ usages.text \in Tokens \cup Sought /\ usages.head \in BOOLEAN
  BY DEF SearchTypeOK, Processes
<1>b. references \in Requests /\ references.term \in Sought /\ references.run = 0
  BY DEF SearchTypeOK, Requests
<1>1. CASE NewSearch
  <2>1. panel' \in Panels
    BY <1>0, <1>1 DEF NewSearch, Panels
  <2> QED
    BY <1>1, <2>1 DEF NewSearch, SearchTypeOK
<1>2. CASE UsagesHead
  <2>1. PICK name \in Tokens :
          /\ usages' = [usages EXCEPT !.head = FALSE, !.text = name]
          /\ panel' = IF name = usages.text THEN panel ELSE [panel EXCEPT !.term = <<name>>]
    BY <1>2 DEF UsagesHead
  <2>2. <<name>> \in Seq(Tokens \cup Sought)
    OBVIOUS
  <2>3. panel' \in Panels
    BY <1>0, <2>1, <2>2 DEF Panels
  <2>4. usages' \in Processes
    <3>1. usages' = [state |-> usages.state, run |-> usages.run, term |-> usages.term,
                     text |-> name, head |-> FALSE, file |-> usages.file, line |-> usages.line]
      BY <1>a, <2>1 DEF Processes
    <3> QED
      BY <1>a, <3>1 DEF Processes
  <2> QED
    BY <1>2, <2>3, <2>4 DEF UsagesHead, SearchTypeOK
<1>8. CASE UsagesError
  <2>1. <<NoTerm>> \in Seq(Tokens \cup Sought)
    BY DEF Sought
  <2>2. panel' \in Panels
    BY <1>0, <1>8, <2>1 DEF UsagesError, Panels
  <2> QED
    BY <1>8, <2>2 DEF UsagesError, SearchTypeOK
<1>3. CASE UsagesOutput
  <2>1. usages.line \in DOMAIN usages.file.lines
    BY <1>3, <1>a DEF UsagesOutput, Texts
  <2>2. \A ranged \in BOOLEAN : UsagesRows(ranged) \in Seq(Rows)
    BY <2>1, UsagesRowsType, RunsAreRows
  <2>3. panel' \in Panels
    BY <1>0, <1>3, <2>2, PanelOperators DEF UsagesOutput
  <2>4. usages' \in Processes
    <3>1. usages' = [state |-> usages.state, run |-> usages.run, term |-> usages.term,
                     text |-> usages.text, head |-> usages.head, file |-> usages.file,
                     line |-> usages.line + 1]
      BY <1>3, <1>a DEF UsagesOutput, Processes
    <3> QED
      BY <1>a, <3>1 DEF Processes
  <2> QED
    BY <1>3, <2>3, <2>4 DEF UsagesOutput, SearchTypeOK
<1>4. CASE UsagesFinish
  <2>1. panel' \in Panels
    BY <1>0, <1>4, PanelOperators DEF UsagesFinish
  <2>2. usages' \in Processes
    <3>1. usages' = [state |-> "idle", run |-> usages.run, term |-> usages.term,
                     text |-> usages.text, head |-> usages.head, file |-> Empty, line |-> 1]
      BY <1>4, <1>a DEF UsagesFinish, Processes
    <3> QED
      BY <1>a, <3>1, EmptyIsText DEF Processes
  <2> QED
    BY <1>4, <2>1, <2>2 DEF UsagesFinish, SearchTypeOK
<1>5. CASE ReferencesAnswer
  <2>1. panel' \in Panels
    <3>1. ShowLocations \in Seq(Rows)
      BY ShownLocations, RunsAreRows
    <3>2. FindStarted(panel, <<references.term>>, NoSearch) \in Panels
      BY <1>0, <1>b, EmptyIsText, PanelOperators
    <3>3. FindFinished(FindResult(FindStarted(panel, <<references.term>>, NoSearch), ShowLocations)) \in Panels
      BY <3>1, <3>2, PanelOperators
    <3> QED
      BY <1>0, <1>5, <3>3 DEF ReferencesAnswer
  <2>2. references' \in Requests
    <3>1. references' = [state |-> "idle", run |-> references.run, term |-> references.term, file |-> Empty]
      BY <1>5, <1>b DEF ReferencesAnswer, Requests
    <3> QED
      BY <1>b, <3>1, EmptyIsText DEF Requests
  <2>3. current' \in {"file", "usages", "references"}
    BY <1>5 DEF ReferencesAnswer, SearchTypeOK
  <2> QED
    BY <1>5, <2>1, <2>2, <2>3 DEF ReferencesAnswer, SearchTypeOK
<1>6. ASSUME NEW term \in Terms, FindUsages(term) PROVE SearchTypeOK'
  <2>1. panel' \in Panels
    BY <1>0, <1>6, EmptyIsText, PanelOperators DEF FindUsages
  <2>2. usages' \in Processes
    BY <1>0, <1>6 DEF FindUsages, Processes
  <2> QED
    BY <1>0, <1>6, <2>1, <2>2 DEF FindUsages, SearchTypeOK
<1>7. ASSUME NEW term \in Terms, FindReferences(term) PROVE SearchTypeOK'
  <2>1. references' \in Requests
    BY <1>0, <1>7 DEF FindReferences, Requests
  <2> QED
    BY <1>0, <1>7, <2>1 DEF FindReferences, SearchTypeOK
<1> QED
  BY <1>1, <1>2, <1>3, <1>4, <1>5, <1>6, <1>7, <1>8

\* Replacing leaves rows of no run, and nothing else of them in the panel.
LEMMA DoReplaceType ==
  ASSUME SearchTypeOK, NEW with \in Seq(Tokens), NEW items \in Seq(Rows), DoReplace(with, items)
  PROVE  /\ text' \in Texts /\ disk' \in Texts /\ panel' \in Panels
         /\ panel'.of = NoSearch /\ \A i \in DOMAIN panel'.rows : panel'.rows[i].run = 0
<1>0. panel \in Panels /\ text \in Texts /\ disk \in Texts /\ text.lines \in Seq(Seq(Tokens)) /\ text.ver \in Nat
  BY DEF SearchTypeOK, Texts
<1> DEFINE done == Replace(text.lines, items, with)
           new(row) == [row EXCEPT !.run = 0, !.ver = IF @ = text.ver THEN text'.ver ELSE @]
<1>1. done.lines \in Seq(Seq(Tokens)) /\ done.rows \in Seq(Rows)
  BY <1>0, ReplaceType DEF Doing
<1>2. /\ text' = [lines |-> done.lines, ver |-> text.ver + 1] /\ disk' = text'
      /\ panel' = [panel EXCEPT !.rows = [i \in DOMAIN done.rows |-> new(done.rows[i])],
                                !.term = with, !.of = NoSearch]
  BY DEF DoReplace
<1>3. text' \in Texts /\ text'.ver \in Nat
  BY <1>0, <1>1, <1>2 DEF Texts
<1>4. \A row \in Rows : new(row) \in Rows /\ new(row).run = 0
  BY <1>3 DEF Rows
<1> HIDE DEF done, new
<1> DEFINE after == [i \in DOMAIN done.rows |-> new(done.rows[i])]
           N == Len(done.rows)
<1>5. N \in Nat /\ after \in [1..N -> Rows]
  BY <1>1, <1>4
<1>6. after \in Seq(Rows) /\ \A i \in DOMAIN after : after[i].run = 0
  <2>1. \A i \in DOMAIN after : after[i].run = 0
    BY <1>1, <1>4
  <2> HIDE DEF after, N
  <2> QED
    BY <1>5, <2>1, IsSeq
<1>7. with \in Seq(Tokens \cup Sought) /\ NoSearch \in Searches
  BY EmptyIsText
<1>8. panel'.rows = after /\ panel'.of = NoSearch /\ panel' \in Panels
  <2>1. panel' = [panel EXCEPT !.rows = after, !.term = with, !.of = NoSearch]
    BY <1>2
  <2> HIDE DEF after
  <2>2. panel' = [page |-> panel.page, term |-> with, rows |-> after, busy |-> panel.busy,
                  canReplace |-> panel.canReplace, of |-> NoSearch]
    BY <1>0, <2>1 DEF Panels
  <2> QED
    BY <1>0, <1>6, <1>7, <2>2 DEF Panels
<1> HIDE DEF after
<1> QED
  BY <1>2, <1>3, <1>6, <1>8

\* What pressing Replace, or answering a question, comes to.
Outcome(with, items) ==
  \/ DoReplace(with, items) /\ handler' = NoHandler
  \/ NothingReplaced
  \/ \E in \in {"blank", "readonly"} : Question(in, with, items)

LEMMA ReplacesOutcome ==
  ASSUME NEW with, NEW items
  PROVE  /\ Replaces(with, items) => Outcome(with, items)
         /\ \A checked : PressReplace(with, checked) => Outcome(with, Selected(panel.rows, checked))
         /\ \A yes \in BOOLEAN : Answers(yes) => Outcome(handler.with, handler.items)
<1>1. \A w, i : Replaces(w, i) => Outcome(w, i)
  BY DEF Replaces, Outcome
<1>2. ASSUME NEW checked, PressReplace(with, checked) PROVE Outcome(with, Selected(panel.rows, checked))
  <2>1. \/ Question("blank", with, Selected(panel.rows, checked))
        \/ Replaces(with, Selected(panel.rows, checked))
    BY <1>2 DEF PressReplace
  <2> QED
    BY <1>1, <2>1 DEF Outcome
<1>3. ASSUME NEW yes \in BOOLEAN, Answers(yes) PROVE Outcome(handler.with, handler.items)
  <2>1. \/ Replaces(handler.with, handler.items)
        \/ DoReplace(handler.with, handler.items) /\ handler' = NoHandler
        \/ NothingReplaced
    BY <1>3 DEF Answers
  <2> QED
    BY <1>1, <2>1 DEF Outcome
<1> QED
  BY <1>1, <1>2, <1>3

LEMMA SelectedRows ==
  ASSUME NEW R, NEW rows \in Seq(R), NEW keep
  PROVE  Selected(rows, keep) \in Seq(R)
BY SelectedType

LEMMA ReplacingOutcome ==
  ASSUME SearchTypeOK,
         \/ \E with \in Replacements, checked \in SUBSET DOMAIN panel.rows : PressReplace(with, checked)
         \/ \E yes \in BOOLEAN : Answers(yes)
  PROVE  \E with \in Seq(Tokens), items \in Seq(Rows) : Outcome(with, items)
<1>1. panel.rows \in Seq(Rows) /\ handler.items \in Seq(Rows) /\ handler.with \in Seq(Tokens)
  BY DEF SearchTypeOK, Panels, Handlers
<1>2. ASSUME NEW with \in Replacements, NEW checked \in SUBSET DOMAIN panel.rows,
             PressReplace(with, checked)
      PROVE  /\ with \in Seq(Tokens) /\ Selected(panel.rows, checked) \in Seq(Rows)
             /\ Outcome(with, Selected(panel.rows, checked))
  BY <1>1, <1>2, ReplacesOutcome, SelectedRows, SearchAssumption DEF Tokens
<1>3. ASSUME NEW yes \in BOOLEAN, Answers(yes) PROVE Outcome(handler.with, handler.items)
  BY <1>3, ReplacesOutcome
<1> QED
  BY <1>1, <1>2, <1>3

LEMMA EditingType ==
  ASSUME SearchTypeOK,
         \/ \E l \in DOMAIN text.lines : Edit(l)
         \/ \E with \in Replacements, checked \in SUBSET DOMAIN panel.rows : PressReplace(with, checked)
         \/ \E yes \in BOOLEAN : Answers(yes)
  PROVE  SearchTypeOK'
<1>0. /\ panel.rows \in Seq(Rows) /\ panel \in Panels
      /\ handler.items \in Seq(Rows) /\ handler.with \in Seq(Tokens)
  BY DEF SearchTypeOK, Panels, Handlers
<1>1. ASSUME NEW l \in DOMAIN text.lines, Edit(l) PROVE SearchTypeOK'
  <2>1. text.lines \in Seq(Seq(Tokens)) /\ text.ver \in Nat /\ Typed \in Tokens
    BY DEF SearchTypeOK, Texts, Tokens
  <2>2. <<Typed>> \o text.lines[l] \in Seq(Tokens)
    BY <2>1
  <2>3. [text.lines EXCEPT ![l] = <<Typed>> \o @] \in Seq(Seq(Tokens))
    BY <2>1, <2>2
  <2>4. text' \in Texts
    BY <1>1, <2>1, <2>3 DEF Edit, Texts
  <2> QED
    BY <1>1, <2>4 DEF Edit, SearchTypeOK
<1>2. ASSUME NEW with \in Seq(Tokens), NEW items \in Seq(Rows), Outcome(with, items)
      PROVE  text' \in Texts /\ disk' \in Texts /\ panel' \in Panels /\ handler' \in Handlers
  <2>1. CASE DoReplace(with, items) /\ handler' = NoHandler
    BY <2>1, DoReplaceType, EmptyIsText
  <2>2. CASE NothingReplaced
    BY <2>2, EmptyIsText DEF NothingReplaced, SearchTypeOK
  <2>3. ASSUME NEW in \in {"blank", "readonly"}, Question(in, with, items)
        PROVE  text' \in Texts /\ disk' \in Texts /\ panel' \in Panels /\ handler' \in Handlers
    <3>1. handler' = [in |-> in, term |-> NoTerm, items |-> items, with |-> with]
      BY <2>3 DEF Question
    <3>2. handler' \in Handlers
      BY <3>1 DEF Handlers, Sought
    <3> QED
      BY <2>3, <3>2 DEF Question, SearchTypeOK
  <2> QED
    BY <1>2, <2>1, <2>2, <2>3 DEF Outcome
<1>3. ASSUME NEW with \in Replacements, NEW checked \in SUBSET DOMAIN panel.rows,
             PressReplace(with, checked)
      PROVE  SearchTypeOK'
  <2>1. Selected(panel.rows, checked) \in Seq(Rows) /\ with \in Seq(Tokens)
    BY <1>0, SelectedRows, SearchAssumption DEF Tokens
  <2>2. Outcome(with, Selected(panel.rows, checked))
    BY <1>3, ReplacesOutcome
  <2> QED
    BY <1>2, <1>3, <2>1, <2>2 DEF PressReplace, SearchTypeOK
<1>4. ASSUME NEW yes \in BOOLEAN, Answers(yes) PROVE SearchTypeOK'
  <2>1. Outcome(handler.with, handler.items)
    BY <1>4, ReplacesOutcome
  <2> QED
    BY <1>0, <1>2, <1>4, <2>1 DEF Answers, SearchTypeOK
<1> QED
  BY <1>1, <1>3, <1>4

LEMMA SearchTypeStep == SearchTypeOK /\ [Next]_vars => SearchTypeOK'
<1> SUFFICES ASSUME SearchTypeOK, [Next]_vars PROVE SearchTypeOK'
  OBVIOUS
<1>1. CASE UNCHANGED vars
  BY <1>1 DEF vars, SearchTypeOK
<1>2. CASE Next
  BY <1>2, ThreadType, SearchesLineType, DeliversType, PanelActionsType, EditingType DEF Next
<1> QED
  BY <1>1, <1>2

\* Every variable has its type, a thread at work is at a run, and a killed one
\* at work: for every text, and however often the user searches and replaces.
THEOREM SearchTypesHold == Spec => []SearchTypeOK
<1>1. Init => SearchTypeOK
  BY SearchTypeInit
<1>2. SearchTypeOK /\ [Next]_vars => SearchTypeOK'
  BY SearchTypeStep
<1> QED
  BY <1>1, <1>2, PTL DEF Spec

-----------------------------------------------------------------------------
(* SearchResults implements SearchRuns.                                    *)

PostsOf(es)  == [i \in DOMAIN es |-> PostOf(es[i])]
RunsOf(rows) == {rows[i].run : i \in DOMAIN rows} \ {0}
AsPosted     == [is : {"started", "result", "finished"}, run : Nat]

LEMMA PostOfType == \A e \in Events : PostOf(e) \in AsPosted
<1>1. ASSUME NEW e \in Events PROVE PostOf(e) \in AsPosted
  <2>1. CASE e.is = "result"
    <3>1. e.row \in Rows
      BY <2>1 DEF Events, Found
    <3>2. e.row.run \in Nat
      BY <3>1 DEF Rows
    <3> QED
      BY <2>1, <3>2 DEF PostOf, AsPosted
  <2>2. CASE e.is # "result"
    <3>1. e.is \in {"started", "finished"}
      BY <2>2 DEF Events
    <3> QED
      BY <3>1 DEF PostOf, AsPosted
  <2> QED
    BY <2>1, <2>2
<1> QED
  BY <1>1

LEMMA PostsOfType ==
  ASSUME NEW es \in Seq(Events)
  PROVE  /\ PostsOf(es) \in Seq(AsPosted) /\ Len(PostsOf(es)) = Len(es)
         /\ \A i \in 1..Len(es) : PostsOf(es)[i] = PostOf(es[i])
<1>1. Len(es) \in Nat /\ DOMAIN es = 1..Len(es) /\ \A i \in 1..Len(es) : es[i] \in Events
  OBVIOUS
<1>2. PostsOf(es) \in [1..Len(es) -> AsPosted]
  BY <1>1, PostOfType DEF PostsOf
<1>3. \A i \in 1..Len(es) : PostsOf(es)[i] = PostOf(es[i])
  BY <1>1 DEF PostsOf
<1> DEFINE n == Len(es)
<1> HIDE DEF n
<1>4. PostsOf(es) \in Seq(AsPosted) /\ Len(PostsOf(es)) = n
  BY <1>1, <1>2, IsSeq DEF n
<1> QED
  BY <1>3, <1>4 DEF n

LEMMA PostsOfAppend ==
  ASSUME NEW es \in Seq(Events), NEW e \in Events
  PROVE  PostsOf(Append(es, e)) = Append(PostsOf(es), PostOf(e))
<1> DEFINE new == Append(es, e)
           P == PostsOf(es)
           Q == PostsOf(new)
<1>0. PostOf(e) \in AsPosted
  BY PostOfType
<1>1. new \in Seq(Events) /\ Len(new) = Len(es) + 1 /\ Len(es) \in Nat
      /\ \A i \in 1..Len(new) : new[i] = IF i \in 1..Len(es) THEN es[i] ELSE e
  OBVIOUS
<1>2. /\ P \in Seq(AsPosted) /\ Len(P) = Len(es) /\ \A i \in 1..Len(es) : P[i] = PostOf(es[i])
      /\ Q \in Seq(AsPosted) /\ Len(Q) = Len(new) /\ \A i \in 1..Len(new) : Q[i] = PostOf(new[i])
  <2> HIDE DEF new
  <2> QED
    BY <1>1, PostsOfType
<1> HIDE DEF new, P, Q
<1>3. \A i \in 1..Len(Q) : Q[i] = IF i \in 1..Len(P) THEN P[i] ELSE PostOf(e)
  BY <1>1, <1>2
<1>4. Q = Append(P, PostOf(e))
  BY <1>0, <1>1, <1>2, <1>3
<1> QED
  BY <1>4 DEF P, Q, new

LEMMA PostsOfConcat ==
  ASSUME NEW es \in Seq(Events), NEW fs \in Seq(Events)
  PROVE  PostsOf(es \o fs) = PostsOf(es) \o PostsOf(fs)
<1> DEFINE new == es \o fs
           P == PostsOf(es)
           R == PostsOf(fs)
           Q == PostsOf(new)
<1>1. new \in Seq(Events) /\ Len(new) = Len(es) + Len(fs) /\ Len(es) \in Nat /\ Len(fs) \in Nat
      /\ \A i \in 1..Len(new) : new[i] = IF i \in 1..Len(es) THEN es[i] ELSE fs[i - Len(es)]
  OBVIOUS
<1>2. /\ P \in Seq(AsPosted) /\ Len(P) = Len(es) /\ \A i \in 1..Len(es) : P[i] = PostOf(es[i])
      /\ R \in Seq(AsPosted) /\ Len(R) = Len(fs) /\ \A i \in 1..Len(fs) : R[i] = PostOf(fs[i])
      /\ Q \in Seq(AsPosted) /\ Len(Q) = Len(new) /\ \A i \in 1..Len(new) : Q[i] = PostOf(new[i])
  <2> HIDE DEF new
  <2> QED
    BY <1>1, PostsOfType
<1> HIDE DEF new, P, Q, R
<1>3. \A i \in 1..Len(Q) : Q[i] = IF i \in 1..Len(P) THEN P[i] ELSE R[i - Len(P)]
  <2> TAKE i \in 1..Len(Q)
  <2>1. CASE i \in 1..Len(P)
    BY <1>1, <1>2, <2>1
  <2>2. CASE ~(i \in 1..Len(P))
    <3>1. i \in 1..Len(new) /\ ~(i \in 1..Len(es)) /\ i - Len(es) \in 1..Len(fs)
      BY <1>1, <1>2, <2>2
    <3>2. new[i] = fs[i - Len(es)] /\ Q[i] = PostOf(new[i]) /\ R[i - Len(es)] = PostOf(fs[i - Len(es)])
      BY <1>1, <1>2, <3>1
    <3> QED
      BY <1>2, <2>2, <3>2
  <2> QED
    BY <2>1, <2>2
<1>4. /\ P \o R \in Seq(AsPosted) /\ Len(P \o R) = Len(Q)
      /\ \A i \in 1..Len(Q) : (P \o R)[i] = IF i \in 1..Len(P) THEN P[i] ELSE R[i - Len(P)]
  BY <1>1, <1>2
<1>5. Q = P \o R
  <2>1. \A S : \A s, t \in Seq(S) : Len(s) = Len(t) /\ (\A i \in 1..Len(s) : s[i] = t[i]) => s = t
    OBVIOUS
  <2> QED
    BY <1>2, <1>3, <1>4, <2>1
<1> QED
  BY <1>5 DEF P, Q, R, new

LEMMA PostsOfTail ==
  ASSUME NEW es \in Seq(Events), es # <<>>
  PROVE  /\ PostsOf(Tail(es)) = Tail(PostsOf(es)) /\ PostsOf(es) # <<>>
         /\ Head(PostsOf(es)) = PostOf(Head(es))
<1> DEFINE P == PostsOf(es)
           Q == PostsOf(Tail(es))
<1>1. Len(es) \in Nat \ {0} /\ Tail(es) \in Seq(Events) /\ Len(Tail(es)) = Len(es) - 1 /\ Head(es) = es[1]
      /\ \A i \in 1..(Len(es) - 1) : Tail(es)[i] = es[i + 1]
  OBVIOUS
<1>2. /\ P \in Seq(AsPosted) /\ Len(P) = Len(es) /\ \A i \in 1..Len(es) : P[i] = PostOf(es[i])
      /\ Q \in Seq(AsPosted) /\ Len(Q) = Len(Tail(es))
      /\ \A i \in 1..Len(Tail(es)) : Q[i] = PostOf(Tail(es)[i])
  BY <1>1, PostsOfType
<1> HIDE DEF P, Q
<1>3. P # <<>> /\ Head(P) = PostOf(Head(es))
  BY <1>1, <1>2
<1>4. Tail(P) \in Seq(AsPosted) /\ Len(Tail(P)) = Len(es) - 1
      /\ \A i \in 1..(Len(es) - 1) : Tail(P)[i] = P[i + 1]
  BY <1>1, <1>2, <1>3
<1>5. \A i \in 1..(Len(es) - 1) : Q[i] = Tail(P)[i]
  BY <1>1, <1>2, <1>4
<1>6. Q = Tail(P)
  BY <1>1, <1>2, <1>4, <1>5
<1> QED
  BY <1>3, <1>6 DEF P, Q

\* The results of one run.
LEMMA PostsOfPosts ==
  ASSUME NEW run \in Nat \ {0}, NEW rows \in Seq(RowsOfRun("file", run))
  PROVE  /\ Posts(rows) \in Seq(Events)
         /\ PostsOf(Posts(rows)) = [i \in 1..Len(rows) |-> [is |-> "result", run |-> run]]
<1>1. RowsOfRun("file", run) \subseteq Found
  BY DEF RowsOfRun, Found
<1>2. rows \in Seq(Found) /\ Len(rows) \in Nat /\ DOMAIN rows = 1..Len(rows)
      /\ \A i \in 1..Len(rows) : rows[i].run = run
  BY <1>1 DEF RowsOfRun
<1>3. Posts(rows) \in Seq(Events) /\ Len(Posts(rows)) = Len(rows)
  BY <1>2, PostsType
<1>4. DOMAIN Posts(rows) = 1..Len(rows)
      /\ \A i \in 1..Len(rows) : Posts(rows)[i] = [is |-> "result", row |-> rows[i]]
  BY <1>2 DEF Posts
<1>5. \A i \in 1..Len(rows) : PostOf(Posts(rows)[i]) = [is |-> "result", run |-> run]
  BY <1>2, <1>4 DEF PostOf
<1>6. PostsOf(Posts(rows)) = [i \in 1..Len(rows) |-> PostOf(Posts(rows)[i])]
  BY <1>4 DEF PostsOf
<1> QED
  BY <1>3, <1>5, <1>6

\* The runs of which there are rows.
LEMMA RunsOfRows ==
  /\ RunsOf(<<>>) = {}
  /\ \A rows \in Seq(Rows), more \in Seq(Rows) : RunsOf(rows \o more) = RunsOf(rows) \cup RunsOf(more)
  /\ \A rows \in Seq(Rows) : (\A i \in DOMAIN rows : rows[i].run = 0) => RunsOf(rows) = {}
  /\ \A row \in Rows : RunsOf(<<row>>) = {row.run} \ {0}
<1>1. RunsOf(<<>>) = {} /\ \A row \in Rows : RunsOf(<<row>>) = {row.run} \ {0}
  BY DEF RunsOf
<1>2. ASSUME NEW rows \in Seq(Rows), NEW more \in Seq(Rows)
      PROVE  RunsOf(rows \o more) = RunsOf(rows) \cup RunsOf(more)
  <2>1. /\ DOMAIN rows = 1..Len(rows) /\ DOMAIN more = 1..Len(more) /\ Len(rows) \in Nat /\ Len(more) \in Nat
        /\ DOMAIN (rows \o more) = 1..(Len(rows) + Len(more))
        /\ \A i \in 1..(Len(rows) + Len(more)) :
             (rows \o more)[i] = IF i <= Len(rows) THEN rows[i] ELSE more[i - Len(rows)]
    OBVIOUS
  <2>2. ASSUME NEW r \in RunsOf(rows \o more) PROVE r \in RunsOf(rows) \cup RunsOf(more)
    <3>1. PICK i \in 1..(Len(rows) + Len(more)) : r = (rows \o more)[i].run /\ r # 0
      BY <2>1 DEF RunsOf
    <3>2. CASE i <= Len(rows)
      BY <2>1, <3>1, <3>2 DEF RunsOf
    <3>3. CASE ~(i <= Len(rows))
      <4>1. i - Len(rows) \in 1..Len(more)
        BY <2>1, <3>3
      <4> QED
        BY <2>1, <3>1, <3>3, <4>1 DEF RunsOf
    <3> QED
      BY <3>2, <3>3
  <2>3. ASSUME NEW r \in RunsOf(rows) PROVE r \in RunsOf(rows \o more)
    <3>1. PICK i \in 1..Len(rows) : r = rows[i].run /\ r # 0
      BY <2>1 DEF RunsOf
    <3>2. i \in 1..(Len(rows) + Len(more)) /\ i <= Len(rows)
      BY <2>1
    <3> QED
      BY <2>1, <3>1, <3>2 DEF RunsOf
  <2>4. ASSUME NEW r \in RunsOf(more) PROVE r \in RunsOf(rows \o more)
    <3>1. PICK i \in 1..Len(more) : r = more[i].run /\ r # 0
      BY <2>1 DEF RunsOf
    <3>2. i + Len(rows) \in 1..(Len(rows) + Len(more)) /\ ~(i + Len(rows) <= Len(rows))
          /\ i + Len(rows) - Len(rows) = i
      BY <2>1
    <3> QED
      BY <2>1, <3>1, <3>2 DEF RunsOf
  <2> QED
    BY <2>2, <2>3, <2>4
<1>3. \A rows \in Seq(Rows) : (\A i \in DOMAIN rows : rows[i].run = 0) => RunsOf(rows) = {}
  BY DEF RunsOf
<1> QED
  BY <1>1, <1>2, <1>3

LEMMA WhatRunsSees ==
  Posted = PostsOf(events) /\ Shown = RunsOf(panel.rows)
  /\ Posted' = PostsOf(events') /\ Shown' = RunsOf(panel'.rows)
BY DEF Posted, Shown, PostsOf, RunsOf

\* The thread's steps.
LEMMA ThreadImplements ==
  ASSUME SearchTypeOK,
         StopReturns \/ StopTerminates \/ RunBegins \/ SearchesLine \/ RunEnds \/ Dies
         \/ \E term \in Sought : FindInFiles(term)
  PROVE  [Runs!Next]_Runs!vars
<1>0. /\ events \in Seq(Events) /\ thread \in Threads /\ thread.run \in Nat
      /\ thread.state # "idle" => thread.run # 0
  BY ThreadFields DEF SearchTypeOK
<1>1. SUFFICES \/ UNCHANGED <<Searching, Posted, Shown>>
               \/ Runs!Begins \/ Runs!Finds \/ Runs!Ends
  BY DEF Runs!Next, Runs!vars
<1>2. panel' = panel => Shown' = Shown
  BY DEF Shown
<1>3. events' = events => Posted' = Posted
  BY DEF Posted
<1>4. /\ events' = Append(events, [is |-> "finished"]) => Posted' = Append(Posted, Runs!Finished)
      /\ \A of \in Searches : events' = Append(events, [is |-> "started", of |-> of]) =>
                                Posted' = Append(Posted, Runs!Started)
  <2>1. [is |-> "finished"] \in Events /\ \A of \in Searches : [is |-> "started", of |-> of] \in Events
    BY DEF Events
  <2>2. /\ PostOf([is |-> "finished"]) = Runs!Finished
        /\ \A of \in Searches : PostOf([is |-> "started", of |-> of]) = Runs!Started
    BY DEF PostOf, Runs!Finished, Runs!Started
  <2> QED
    BY <1>0, <2>1, <2>2, PostsOfAppend, WhatRunsSees
<1>5. \A t \in Threads : StartThread(t, handler.term) =>
               IF t.state = "idle" THEN thread'.state \in {"idle", "starting"} ELSE thread' = t
  <2>1. ASSUME NEW t \in Threads, StartThread(t, handler.term)
        PROVE  IF t.state = "idle" THEN thread'.state \in {"idle", "starting"} ELSE thread' = t
    BY <2>1 DEF StartThread, Threads
  <2> QED
    BY <2>1
<1>6. CASE StopReturns
  <2>1. Searching = 0 /\ Searching' = 0
    BY <1>0, <1>5, <1>6 DEF StopReturns, Searching
  <2> QED
    BY <1>2, <1>3, <1>6, <2>1 DEF StopReturns
<1>7. CASE StopTerminates
  <2>0. thread.state # "idle" /\ panel' = panel
    BY <1>7 DEF StopTerminates
  <2>1. CASE events' = Append(events, [is |-> "finished"]) /\ StartThread(Ended(thread), handler.term)
    <3>1. Searching' = 0
      <4>1. Ended(thread).state = "idle" /\ Ended(thread) \in Threads
        BY <1>0, EndedType
      <4> QED
        BY <1>5, <2>1, <4>1 DEF Searching
    <3> QED
      BY <1>2, <1>4, <2>0, <2>1, <3>1 DEF Runs!Ends
  <2>2. CASE StartThread([thread EXCEPT !.killed = TRUE], handler.term) /\ UNCHANGED events
    <3>1. [thread EXCEPT !.killed = TRUE].state = thread.state /\ [thread EXCEPT !.killed = TRUE].run = thread.run
      BY <1>0 DEF Threads
    <3> DEFINE t == [thread EXCEPT !.killed = TRUE]
    <3>2. thread' = t
      BY <2>0, <2>2, <3>1 DEF StartThread
    <3> QED
      BY <1>2, <1>3, <2>0, <2>2, <3>1, <3>2 DEF Searching
  <2> QED
    BY <1>7, <2>1, <2>2 DEF StopTerminates
<1>8. CASE RunBegins
  <2>1. [run |-> thread.run, term |-> findText, file |-> disk] \in Searches
    BY <1>0, ThreadFields DEF SearchTypeOK, Searches
  <2>2. Posted' = Append(Posted, Runs!Started)
    BY <1>4, <1>8, <2>1 DEF RunBegins
  <2>3. Searching = 0 /\ Searching' = thread.run /\ thread.run # 0
    BY <1>0, <1>8 DEF RunBegins, Searching, Threads
  <2>4. Shown' = Shown
    BY <1>2, <1>8 DEF RunBegins
  <2> QED
    BY <1>0, <2>2, <2>3, <2>4 DEF Runs!Begins, Runs!Runs
<1>9. CASE RunEnds \/ Dies
  <2>1. Searching' = 0
    BY <1>0, <1>9, EndedType DEF RunEnds, Dies, Searching
  <2>2. Posted' = Append(Posted, Runs!Finished) /\ Shown' = Shown
    BY <1>2, <1>4, <1>9 DEF RunEnds, Dies
  <2> QED
    BY <2>1, <2>2 DEF Runs!Ends
<1>10. CASE SearchesLine
  <2> DEFINE rows == LineRows("file", thread.run, thread.term, thread.file, thread.line)
  <2>1. thread.run \in Nat \ {0} /\ rows \in Seq(RowsOfRun("file", thread.run))
    BY <1>0, <1>10, LineFound DEF SearchesLine
  <2>2. events' = events \o Posts(rows)
    BY <1>10 DEF SearchesLine, Posts
  <2> HIDE DEF rows
  <2>3. /\ Posts(rows) \in Seq(Events)
        /\ PostsOf(Posts(rows)) = [i \in 1..Len(rows) |-> [is |-> "result", run |-> thread.run]]
    BY <2>1, PostsOfPosts
  <2>4. Posted' = Posted \o [i \in 1..Len(rows) |-> [is |-> "result", run |-> thread.run]]
    BY <1>0, <2>2, <2>3, PostsOfConcat, WhatRunsSees
  <2>5. Searching = thread.run /\ Searching' = Searching
    BY <1>0, <1>10 DEF SearchesLine, Searching, Threads
  <2>6. Len(Posted') - Len(Posted) = Len(rows) /\ Len(rows) \in Nat
    <3>1. Posted \in Seq(AsPosted) /\ Len(rows) \in Nat
      BY <1>0, <2>1, PostsOfType, WhatRunsSees
    <3> DEFINE more == [i \in 1..Len(rows) |-> [is |-> "result", run |-> thread.run]]
               n == Len(rows)
    <3>2. more \in [1..Len(rows) -> AsPosted]
      BY <2>1 DEF AsPosted
    <3>3. more \in Seq(AsPosted) /\ Len(more) = n
      <4> HIDE DEF more
      <4>1. n \in Nat /\ more \in [1..n -> AsPosted]
        BY <3>1, <3>2
      <4> HIDE DEF n
      <4> QED
        BY <4>1, IsSeq
    <3> HIDE DEF more
    <3> QED
      BY <2>4, <3>1, <3>3 DEF more
  <2>7. Shown' = Shown
    BY <1>2, <1>10 DEF SearchesLine
  <2> QED
    BY <2>1, <2>4, <2>5, <2>6, <2>7 DEF Runs!Finds, Runs!Result
<1>11. ASSUME NEW term \in Sought, FindInFiles(term) PROVE UNCHANGED <<Searching, Posted, Shown>>
  <2>1. CASE thread.state = "idle"
    <3>1. thread'.state \in {"idle", "starting"}
      BY <1>0, <1>11, <2>1 DEF FindInFiles, StartThread, Threads
    <3> QED
      BY <1>2, <1>3, <1>11, <2>1, <3>1 DEF FindInFiles, Searching
  <2>2. CASE thread.state # "idle"
    BY <1>2, <1>3, <1>11, <2>2 DEF FindInFiles, Searching
  <2> QED
    BY <2>1, <2>2
<1> QED
  BY <1>6, <1>7, <1>8, <1>9, <1>10, <1>11

LEMMA DeliversImplements ==
  ASSUME SearchTypeOK, Delivers
  PROVE  Runs!Delivered
<1>0. events \in Seq(Events) /\ events # <<>> /\ panel.rows \in Seq(Rows) /\ Head(events) \in Events
  BY DEF SearchTypeOK, Panels, Delivers
<1> DEFINE e == Head(events)
<1>1. Posted # <<>> /\ Posted' = Tail(Posted) /\ Head(Posted) = PostOf(e)
  BY <1>0, PostsOfTail, WhatRunsSees DEF Delivers
<1>2. Searching' = Searching
  BY DEF Delivers, Searching
<1>3. Shown' = CASE Head(Posted).is = "started"  -> {}
                 [] Head(Posted).is = "result"   -> Shown \cup {Head(Posted).run}
                 [] Head(Posted).is = "finished" -> Shown
  <2>1. Head(Posted).is = e.is /\ e.is \in {"started", "result", "finished"}
    BY <1>0, <1>1 DEF PostOf, Events
  <2>2. CASE e.is = "started"
    <3>1. panel'.rows = <<>>
      BY <2>2 DEF Delivers, FindStarted
    <3> QED
      BY <2>1, <2>2, <3>1, RunsOfRows, WhatRunsSees
  <2>3. CASE e.is = "result"
    <3>1. e.row \in Rows /\ e.row.run # 0 /\ Head(Posted).run = e.row.run
      BY <1>0, <1>1, <2>3 DEF PostOf, Events, Found
    <3>2. panel \in Panels /\ panel' = FindResult(panel, <<e.row>>)
      BY <2>3 DEF Delivers, SearchTypeOK
    <3>3. panel'.rows = panel.rows \o <<e.row>>
      BY <3>2 DEF FindResult, Panels
    <3>4. RunsOf(panel'.rows) = RunsOf(panel.rows) \cup RunsOf(<<e.row>>)
          /\ RunsOf(<<e.row>>) = {e.row.run} \ {0}
      <4>1. <<e.row>> \in Seq(Rows)
        BY <3>1
      <4> QED
        BY <1>0, <3>1, <3>3, <4>1, RunsOfRows
    <3>5. {e.row.run} \ {0} = {e.row.run}
      BY <3>1
    <3>6. Shown' = Shown \cup {Head(Posted).run}
      BY <3>1, <3>4, <3>5, WhatRunsSees
    <3> QED
      BY <2>1, <2>3, <3>6
  <2>4. CASE e.is = "finished"
    <3>1. panel \in Panels /\ panel' = FindFinished(panel)
      BY <2>4 DEF Delivers, SearchTypeOK
    <3>2. panel'.rows = panel.rows
      BY <3>1 DEF FindFinished, Panels
    <3>3. Shown' = Shown
      BY <3>2 DEF Shown
    <3> QED
      BY <2>1, <2>4, <3>3
  <2> QED
    BY <2>1, <2>2, <2>3, <2>4
<1> QED
  BY <1>1, <1>2, <1>3 DEF Runs!Delivered

\* Replacing: what is shown is of no run any more.
LEMMA DoReplaceForgets ==
  ASSUME SearchTypeOK, NEW with \in Seq(Tokens), NEW items \in Seq(Rows), DoReplace(with, items)
  PROVE  Shown' = {}
<1>1. panel' \in Panels /\ \A i \in DOMAIN panel'.rows : panel'.rows[i].run = 0
  BY DoReplaceType
<1>2. panel'.rows \in Seq(Rows)
  BY <1>1 DEF Panels
<1> QED
  BY <1>1, <1>2, RunsOfRows, WhatRunsSees

LEMMA OthersImplement ==
  ASSUME SearchTypeOK,
         \/ NewSearch \/ UsagesHead \/ UsagesError \/ UsagesOutput \/ UsagesFinish \/ ReferencesAnswer
         \/ \E term \in Terms : FindUsages(term) \/ FindReferences(term)
         \/ \E l \in DOMAIN text.lines : Edit(l)
         \/ \E with \in Replacements, checked \in SUBSET DOMAIN panel.rows : PressReplace(with, checked)
         \/ \E yes \in BOOLEAN : Answers(yes)
  PROVE  [Runs!Next]_Runs!vars
<1>0. /\ panel \in Panels /\ panel.rows \in Seq(Rows) /\ handler.items \in Seq(Rows)
      /\ usages \in Processes /\ usages.term \in Sought /\ usages.file \in Texts
      /\ usages.line \in Nat \ {0}
  BY DEF SearchTypeOK, Panels, Handlers, Processes
<1>1. UNCHANGED <<thread, events>>
  BY DEF NewSearch, UsagesHead, UsagesError, UsagesOutput, UsagesFinish, ReferencesAnswer, FindUsages,
         FindReferences, Edit, PressReplace, Answers
<1>2. Searching' = Searching /\ Posted' = Posted
  BY <1>1 DEF Searching, Posted
<1>3. SUFFICES Shown' = {} \/ Shown' = Shown
  BY <1>2 DEF Runs!Next, Runs!Forgets, Runs!vars
<1>4. panel' = panel \/ panel'.rows = panel.rows => Shown' = Shown
  BY DEF Shown
<1>5. CASE NewSearch
  <2>1. panel'.rows = panel.rows
    BY <1>0, <1>5 DEF NewSearch, Panels
  <2> QED
    BY <1>4, <2>1
<1>6. CASE UsagesHead \/ UsagesError \/ UsagesOutput \/ UsagesFinish
  <2>1. PICK rows \in Seq(RowsOfRun("usages", 0)) : panel'.rows = panel.rows \o rows
    BY <1>6, UsagesPanel
  <2>2. rows \in Seq(Rows) /\ \A i \in DOMAIN rows : rows[i].run = 0
    BY RunsAreRows DEF RowsOfRun
  <2>3. RunsOf(rows) = {} /\ RunsOf(panel'.rows) = RunsOf(panel.rows) \cup RunsOf(rows)
    BY <1>0, <2>1, <2>2, RunsOfRows
  <2> QED
    BY <2>3, WhatRunsSees
<1>8. CASE ReferencesAnswer
  <2>1. CASE panel' = panel
    BY <1>4, <2>1
  <2>2. CASE panel' = FindFinished(FindResult(FindStarted(panel, <<references.term>>, NoSearch), ShowLocations))
    <3>1. ShowLocations \in Seq(RowsOfRun("references", 0)) /\ ShowLocations \in Seq(Rows)
      BY ShownLocations, RunsAreRows
    <3>2. panel'.rows = <<>> \o ShowLocations
      BY <2>2 DEF FindFinished, FindResult, FindStarted
    <3>3. panel'.rows = ShowLocations
      BY <3>1, <3>2
    <3>4. \A i \in DOMAIN ShowLocations : ShowLocations[i].run = 0
      BY <3>1 DEF RowsOfRun
    <3> QED
      BY <3>1, <3>3, <3>4, RunsOfRows, WhatRunsSees
  <2> QED
    BY <1>8, <2>1, <2>2 DEF ReferencesAnswer
<1>9. ASSUME NEW term \in Terms, FindUsages(term) PROVE Shown' = {}
  <2>1. panel'.rows = <<>>
    BY <1>9 DEF FindUsages, FindStarted
  <2> QED
    BY <2>1, RunsOfRows, WhatRunsSees
<1>10. ASSUME NEW term \in Terms, FindReferences(term) PROVE Shown' = Shown
  BY <1>4, <1>10 DEF FindReferences
<1>11. ASSUME NEW l \in DOMAIN text.lines, Edit(l) PROVE Shown' = Shown
  BY <1>4, <1>11 DEF Edit
<1>12. CASE \/ \E with \in Replacements, checked \in SUBSET DOMAIN panel.rows : PressReplace(with, checked)
            \/ \E yes \in BOOLEAN : Answers(yes)
  <2>1. PICK with \in Seq(Tokens), items \in Seq(Rows) : Outcome(with, items)
    BY <1>12, ReplacingOutcome
  <2> QED
    BY <1>4, <2>1, DoReplaceForgets DEF Outcome, NothingReplaced, Question
<1> QED
  BY <1>5, <1>6, <1>8, <1>9, <1>10, <1>11, <1>12

LEMMA RunsInit == Init => Runs!Init
<1> SUFFICES ASSUME Init PROVE Runs!Init
  OBVIOUS
<1>1. Searching = 0
  BY DEF Init, Searching
<1>2. Posted = <<>>
  BY DEF Init, Posted
<1>3. Shown = {}
  BY DEF Init, Shown
<1> QED
  BY <1>1, <1>2, <1>3 DEF Runs!Init

LEMMA RunsStep == SearchTypeOK /\ [Next]_vars => [Runs!Next]_Runs!vars
<1> SUFFICES ASSUME SearchTypeOK, [Next]_vars PROVE [Runs!Next]_Runs!vars
  OBVIOUS
<1>1. CASE UNCHANGED vars
  BY <1>1 DEF vars, Runs!vars, Searching, Posted, Shown
<1>2. CASE Delivers
  BY <1>2, DeliversImplements DEF Runs!Next
<1>3. CASE Next
  BY <1>2, <1>3, ThreadImplements, OthersImplement DEF Next
<1> QED
  BY <1>1, <1>3

\* Find in Files implements SearchRuns: whatever the thread, the other searches,
\* the user and the event loop do is a step of SearchRuns, or none.
THEOREM ImplementsSearchRunsHolds == Spec => ImplementsSearchRuns
<1>1. Init => Runs!Init
  BY RunsInit
<1>2. SearchTypeOK /\ [Next]_vars => [Runs!Next]_Runs!vars
  BY RunsStep
<1> QED
  BY <1>1, <1>2, SearchTypesHold, PTL DEF Spec, ImplementsSearchRuns, Runs!Spec

RunsProofs == INSTANCE SearchRunsProofs WITH
  searching <- Searching, posted <- Posted, shown <- Shown

\* The rows of Find in Files that the panel shows are of one run of its thread.
THEOREM PanelOfOneRun == Spec => []Runs!OneRun
<1>1. RunsProofs!Spec => []RunsProofs!OneRun
  BY RunsProofs!PanelShowsOneRun
<1>2. Runs!Init => RunsProofs!Init
  BY DEF Runs!Init, RunsProofs!Init
<1>3. [Runs!Next]_Runs!vars => [RunsProofs!Next]_RunsProofs!vars
  BY DEF Runs!Next, Runs!vars, Runs!Begins, Runs!Finds, Runs!Ends, Runs!Delivered, Runs!Forgets,
         Runs!Runs, Runs!Started, Runs!Finished, Runs!Result,
         RunsProofs!Next, RunsProofs!vars, RunsProofs!Begins, RunsProofs!Finds, RunsProofs!Ends,
         RunsProofs!Delivered, RunsProofs!Forgets, RunsProofs!Runs, RunsProofs!Started,
         RunsProofs!Finished, RunsProofs!Result
<1>4. RunsProofs!OneRun => Runs!OneRun
  BY DEF Runs!OneRun, RunsProofs!OneRun
<1> QED
  BY <1>1, <1>2, <1>3, <1>4, ImplementsSearchRunsHolds, PTL
     DEF ImplementsSearchRuns, Runs!Spec, RunsProofs!Spec

-----------------------------------------------------------------------------
(* A search that nobody stopped finds everything.                          *)

\* A run that somebody waits for, or that was killed, was told to stop, and only
\* such a run stops before its last line.
StopsIfCut ==
  /\ handler.in = "stop" => thread.run \in cut
  /\ thread.killed => thread.run \in cut
  /\ thread.state = "running" => finding \/ thread.run \in cut
  /\ thread.state = "running" => thread.line <= Len(thread.file.lines) + 1

\* The rows of events that are to be delivered, and the events after one of them.
RowIn(e)    == IF e.is = "result" THEN <<e.row>> ELSE <<>>
RowsIn(es)  == FlattenSeq([i \in DOMAIN es |-> RowIn(es[i])])
Rest(es, j) == SubSeq(es, j + 1, Len(es))

IsStart(e)     == e.is = "started"
LastStart(es, j) ==
  j \in DOMAIN es /\ IsStart(es[j]) /\ \A i \in DOMAIN es : i > j => ~IsStart(es[i])

\* What the thread has found so far.
SoFar(t) ==
  FlattenSeq([l \in 1..(t.line - 1) |-> LineRows("file", t.run, t.term, t.file, l)])

\* The rows are all that the search has found: all there is when it has ended.
Whole(t, told, of, rows) ==
  of.run \notin told \cup {0} =>
    IF t.state = "running"
    THEN of = [run |-> t.run, term |-> t.term, file |-> t.file] /\ rows = SoFar(t)
    ELSE rows = AllRows("file", of.run, of.term, of.file)

NoStart(es) == \A i \in DOMAIN es : ~IsStart(es[i])

\* When everything that was posted has been delivered, the panel will show all
\* that its search has found, unless it was told to stop.
WillBeWhole ==
  /\ \A j \in DOMAIN events :
       LastStart(events, j) => Whole(thread, cut, events[j].of, RowsIn(Rest(events, j)))
  /\ NoStart(events) => Whole(thread, cut, panel.of, FileRows(panel.rows) \o RowsIn(events))

LEMMA RowInType == \A e \in Events : RowIn(e) \in Seq(Found)
<1>1. ASSUME NEW e \in Events PROVE RowIn(e) \in Seq(Found)
  <2>1. CASE e.is = "result"
    <3>1. e.row \in Found
      BY <2>1 DEF Events
    <3> QED
      BY <2>1, <3>1 DEF RowIn
  <2>2. CASE e.is # "result"
    BY <2>2 DEF RowIn
  <2> QED
    BY <2>1, <2>2
<1> QED
  BY <1>1

LEMMA RowsInEmpty == RowsIn(<<>>) = <<>>
<1>1. [i \in DOMAIN <<>> |-> RowIn(<<>>[i])] = <<>>
  OBVIOUS
<1>2. FlattenSeq(<<>>) = <<>>
  <2>1. <<>> \in Seq(Seq(Found)) /\ Len(<<>>) = 0
    OBVIOUS
  <2>2. PICK f : Flattens(Found, <<>>, f)
    BY <2>1, FlattenSeqIsLoop
  <2> QED
    BY <2>1, <2>2 DEF Flattens
<1> QED
  BY <1>1, <1>2 DEF RowsIn

LEMMA RowsInAppend ==
  ASSUME NEW es \in Seq(Events), NEW e \in Events
  PROVE  /\ RowsIn(es) \in Seq(Found)
         /\ RowsIn(Append(es, e)) = RowsIn(es) \o RowIn(e)
<1> DEFINE new == Append(es, e)
           P == [i \in DOMAIN es |-> RowIn(es[i])]
           Q == [i \in DOMAIN new |-> RowIn(new[i])]
           A == Seq(Found)
           n == Len(es)
<1>1. new \in Seq(Events) /\ Len(new) = n + 1 /\ n \in Nat /\ DOMAIN new = 1..(n + 1) /\ DOMAIN es = 1..n
      /\ \A i \in 1..(n + 1) : new[i] = IF i \in 1..n THEN es[i] ELSE e
  OBVIOUS
<1>2. \A i \in 1..n : es[i] \in Events
  OBVIOUS
<1> HIDE DEF new, A, n
<1>3. P \in [1..n -> A] /\ Q \in [1..(n + 1) -> A] /\ RowIn(e) \in A
      /\ \A i \in 1..(n + 1) : Q[i] = IF i \in 1..n THEN P[i] ELSE RowIn(e)
  BY <1>1, <1>2, RowInType DEF A
<1> HIDE DEF P, Q
<1>4. n + 1 \in Nat
  BY <1>1
<1>5. P \in Seq(A) /\ Len(P) = n /\ Q \in Seq(A) /\ Len(Q) = n + 1
  BY <1>1, <1>3, <1>4, IsSeq
<1>6. Append(P, RowIn(e)) \in Seq(A) /\ Len(Append(P, RowIn(e))) = n + 1
      /\ \A i \in 1..(n + 1) : Append(P, RowIn(e))[i] = IF i \in 1..n THEN P[i] ELSE RowIn(e)
  BY <1>1, <1>3, <1>5
<1>7. Q = Append(P, RowIn(e))
  BY <1>3, <1>5, <1>6
<1>8. FlattenSeq(P) \in A /\ FlattenSeq(Append(P, RowIn(e))) = FlattenSeq(P) \o RowIn(e)
  BY <1>3, <1>5, FlattenSeqAppend DEF A
<1> QED
  BY <1>7, <1>8 DEF RowsIn, P, Q, new, A

LEMMA RowsInConcat ==
  ASSUME NEW es \in Seq(Events), NEW fs \in Seq(Events)
  PROVE  RowsIn(es \o fs) = RowsIn(es) \o RowsIn(fs)
<1> DEFINE N == Len(fs)
           first(n) == SubSeq(fs, 1, n)
           joined == {n \in 0..N : RowsIn(es \o first(n)) = RowsIn(es) \o RowsIn(first(n))}
<1>0. N \in Nat /\ first(N) = fs /\ first(0) = <<>> /\ es \o <<>> = es
  OBVIOUS
<1>1. ASSUME NEW n \in 0..(N - 1)
      PROVE  /\ first(n + 1) = Append(first(n), fs[n + 1]) /\ first(n) \in Seq(Events)
             /\ fs[n + 1] \in Events /\ es \o first(n) \in Seq(Events)
             /\ es \o first(n + 1) = Append(es \o first(n), fs[n + 1])
  OBVIOUS
<1>2. RowsIn(es) \in Seq(Found)
  <2>1. [is |-> "finished"] \in Events
    BY DEF Events
  <2> QED
    BY <2>1, RowsInAppend
<1> HIDE DEF first, N
<1>3. 0 \in joined
  <2>1. RowsIn(es) \o <<>> = RowsIn(es)
    BY <1>2
  <2>2. RowsIn(es \o first(0)) = RowsIn(es) /\ RowsIn(first(0)) = <<>>
    BY <1>0, RowsInEmpty
  <2>3. RowsIn(es \o first(0)) = RowsIn(es) \o RowsIn(first(0))
    BY <2>1, <2>2
  <2> QED
    BY <1>0, <2>3
<1>4. ASSUME NEW n \in 0..(N - 1), n \in joined PROVE n + 1 \in joined
  <2>1. /\ RowsIn(es \o first(n + 1)) = RowsIn(es \o first(n)) \o RowIn(fs[n + 1])
        /\ RowsIn(first(n + 1)) = RowsIn(first(n)) \o RowIn(fs[n + 1])
        /\ RowsIn(first(n)) \in Seq(Found) /\ RowIn(fs[n + 1]) \in Seq(Found)
    BY <1>1, RowsInAppend, RowInType
  <2>2. RowsIn(es \o first(n)) = RowsIn(es) \o RowsIn(first(n))
    BY <1>4
  <2>3. RowsIn(es \o first(n + 1)) = RowsIn(es) \o RowsIn(first(n + 1))
    <3> DEFINE r == RowsIn(es)
               s == RowsIn(first(n))
               t == RowIn(fs[n + 1])
    <3> HIDE DEF r, s, t
    <3>1. r \in Seq(Found) /\ s \in Seq(Found) /\ t \in Seq(Found)
      BY <1>2, <2>1 DEF r, s, t
    <3>2. RowsIn(es \o first(n + 1)) = (r \o s) \o t /\ RowsIn(first(n + 1)) = s \o t
      BY <2>1, <2>2 DEF r, s, t
    <3>3. RowsIn(es \o first(n + 1)) = r \o RowsIn(first(n + 1))
      <4>1. (r \o s) \o t = r \o (s \o t)
        BY <3>1
      <4> QED
        BY <3>2, <4>1
    <3> QED
      BY <3>3 DEF r
  <2> QED
    BY <1>0, <2>3
<1> HIDE DEF joined
<1>5. 0..N \subseteq joined
  BY <1>0, <1>3, <1>4, UpTo
<1>6. N \in joined
  BY <1>0, <1>5
<1> QED
  BY <1>0, <1>6 DEF joined

LEMMA RowsInHead ==
  ASSUME NEW es \in Seq(Events), es # <<>>
  PROVE  RowsIn(es) = RowIn(Head(es)) \o RowsIn(Tail(es)) /\ RowsIn(<<Head(es)>>) = RowIn(Head(es))
<1>1. /\ Head(es) \in Events /\ <<Head(es)>> \in Seq(Events) /\ Tail(es) \in Seq(Events)
      /\ es = <<Head(es)>> \o Tail(es) /\ <<>> \in Seq(Events)
      /\ <<Head(es)>> = Append(<<>>, Head(es))
  OBVIOUS
<1>2. RowsIn(<<Head(es)>>) = <<>> \o RowIn(Head(es))
  BY <1>1, RowsInAppend, RowsInEmpty
<1>3. RowsIn(<<Head(es)>>) = RowIn(Head(es))
  BY <1>1, <1>2, RowInType
<1> QED
  BY <1>1, <1>3, RowsInConcat

\* The rows of a line, posted and read again.
LEMMA RowsInPosts ==
  ASSUME NEW rows \in Seq(Found)
  PROVE  Posts(rows) \in Seq(Events) /\ RowsIn(Posts(rows)) = rows
<1> DEFINE N == Len(rows)
           first(n) == SubSeq(rows, 1, n)
           read == {n \in 0..N : RowsIn(Posts(first(n))) = first(n)}
<1>0. N \in Nat /\ first(N) = rows /\ first(0) = <<>>
  OBVIOUS
<1>1. ASSUME NEW n \in 0..(N - 1)
      PROVE  /\ first(n + 1) = Append(first(n), rows[n + 1]) /\ first(n) \in Seq(Found)
             /\ rows[n + 1] \in Found /\ first(n) \o <<rows[n + 1]>> = first(n + 1)
  OBVIOUS
<1>2. ASSUME NEW s \in Seq(Found), NEW row \in Found
      PROVE  /\ Posts(Append(s, row)) = Append(Posts(s), [is |-> "result", row |-> row])
             /\ Posts(s) \in Seq(Events) /\ [is |-> "result", row |-> row] \in Events
  <2> DEFINE e == [is |-> "result", row |-> row]
             t == Append(s, row)
  <2>1. e \in Events
    BY DEF Events
  <2>2. t \in Seq(Found) /\ Len(t) = Len(s) + 1 /\ Len(s) \in Nat /\ DOMAIN t = 1..(Len(s) + 1) /\ DOMAIN s = 1..Len(s)
        /\ \A i \in 1..(Len(s) + 1) : t[i] = IF i \in 1..Len(s) THEN s[i] ELSE row
    OBVIOUS
  <2> HIDE DEF t
  <2>3. /\ Posts(s) \in Seq(Events) /\ Len(Posts(s)) = Len(s)
        /\ Posts(t) \in Seq(Events) /\ Len(Posts(t)) = Len(s) + 1
    BY <2>2, PostsType
  <2>4. /\ \A i \in 1..Len(s) : Posts(s)[i] = [is |-> "result", row |-> s[i]]
        /\ \A i \in 1..(Len(s) + 1) : Posts(t)[i] = [is |-> "result", row |-> t[i]]
    BY <2>2 DEF Posts
  <2>5. \A i \in 1..(Len(s) + 1) : Posts(t)[i] = IF i \in 1..Len(s) THEN Posts(s)[i] ELSE e
    BY <2>2, <2>4
  <2> DEFINE p == Posts(s)
             q == Posts(t)
             k == Len(s)
  <2> HIDE DEF e, p, q, k
  <2>6. p \in Seq(Events) /\ q \in Seq(Events) /\ Len(p) = k /\ Len(q) = k + 1 /\ k \in Nat
        /\ e \in Events /\ \A i \in 1..(k + 1) : q[i] = IF i \in 1..k THEN p[i] ELSE e
    BY <2>1, <2>2, <2>3, <2>5 DEF p, q, k
  <2>7. q = Append(p, e)
    BY <2>6
  <2> QED
    BY <2>1, <2>3, <2>7 DEF p, q, e, t
<1> HIDE DEF first, N
<1>3. 0 \in read
  <2>1. Posts(<<>>) = <<>>
    BY DEF Posts
  <2> QED
    BY <1>0, <2>1, RowsInEmpty
<1>4. ASSUME NEW n \in 0..(N - 1), n \in read PROVE n + 1 \in read
  <2> DEFINE e == [is |-> "result", row |-> rows[n + 1]]
  <2>1. Posts(first(n + 1)) = Append(Posts(first(n)), e) /\ Posts(first(n)) \in Seq(Events) /\ e \in Events
    BY <1>1, <1>2
  <2>2. RowIn(e) = <<rows[n + 1]>>
    BY DEF RowIn
  <2> HIDE DEF e
  <2>3. RowsIn(Posts(first(n + 1))) = RowsIn(Posts(first(n))) \o RowIn(e)
    BY <2>1, RowsInAppend
  <2>4. RowsIn(Posts(first(n))) = first(n)
    BY <1>4
  <2>5. RowsIn(Posts(first(n + 1))) = first(n + 1)
    BY <1>1, <2>2, <2>3, <2>4
  <2> QED
    BY <1>0, <2>5
<1> HIDE DEF read
<1>5. 0..N \subseteq read
  BY <1>0, <1>3, <1>4, UpTo
<1>6. N \in read
  BY <1>0, <1>5
<1> QED
  BY <1>0, <1>6, PostsType DEF read

LEMMA StopsIfCutInit == Init => StopsIfCut
BY DEF Init, StopsIfCut, NoHandler

LEMMA ThreadStarts ==
  ASSUME NEW t \in Threads, t.state = "idle", ~t.killed, NEW term, StartThread(t, term)
  PROVE  thread'.state \in {"idle", "starting"} /\ ~thread'.killed /\ handler'.in = "none"
<1>1. /\ thread' = t \/ thread' = [t EXCEPT !.state = "starting", !.run = @ + 1, !.killed = FALSE]
      /\ handler' = NoHandler
  BY DEF StartThread
<1> QED
  BY <1>1 DEF Threads, NoHandler

LEMMA StopsIfCutStep ==
  ASSUME SearchTypeOK, StopsIfCut, [Next]_vars
  PROVE  StopsIfCut'
<1>0. /\ thread \in Threads /\ thread.line \in Nat \ {0} /\ thread.file \in Texts
      /\ Len(thread.file.lines) \in Nat /\ (thread.killed => thread.state # "idle")
  BY ThreadFields DEF SearchTypeOK, Texts
<1>1. CASE UNCHANGED <<thread, handler, cut, finding>>
  BY <1>1 DEF StopsIfCut
<1>2. CASE StopReturns \/ StopTerminates
  <2>1. handler' = NoHandler /\ UNCHANGED <<cut, finding>> /\ handler.in = "stop" /\ handler'.in = "none"
    BY <1>2 DEF StopReturns, StopTerminates, StartThread, NoHandler
  <2>2. CASE StopTerminates /\ StartThread([thread EXCEPT !.killed = TRUE], handler.term)
    <3>1. /\ [thread EXCEPT !.killed = TRUE].state = thread.state
          /\ [thread EXCEPT !.killed = TRUE].run = thread.run
          /\ [thread EXCEPT !.killed = TRUE].line = thread.line
          /\ [thread EXCEPT !.killed = TRUE].file = thread.file
      BY <1>0 DEF Threads
    <3> DEFINE t == [thread EXCEPT !.killed = TRUE]
    <3>2. thread' = t
      BY <2>2, <3>1 DEF StartThread, StopTerminates
    <3> HIDE DEF t
    <3>3. t.state = thread.state /\ t.run = thread.run /\ t.line = thread.line /\ t.file = thread.file
      BY <3>1 DEF t
    <3> QED
      BY <2>1, <3>2, <3>3 DEF StopsIfCut
  <2>4. CASE StopReturns
    <3>1. thread'.state # "running" /\ ~thread'.killed
      BY <1>0, <2>4, ThreadStarts DEF StopReturns
    <3> QED
      BY <2>1, <3>1 DEF StopsIfCut
  <2>5. CASE StopTerminates /\ StartThread(Ended(thread), handler.term)
    <3>1. thread'.state # "running" /\ ~thread'.killed
      BY <1>0, <2>5, EndedType, ThreadStarts
    <3> QED
      BY <2>1, <3>1 DEF StopsIfCut
  <2> QED
    BY <1>2, <2>2, <2>4, <2>5 DEF StopTerminates
<1>3. CASE RunBegins
  <2>1. /\ thread'.line = 1 /\ thread'.state = "running" /\ thread'.run = thread.run
        /\ thread'.killed = thread.killed /\ thread'.file = disk /\ finding' = TRUE
        /\ UNCHANGED <<handler, cut>>
    BY <1>0, <1>3 DEF RunBegins, Threads
  <2>2. Len(disk.lines) \in Nat
    BY DEF SearchTypeOK, Texts
  <2> QED
    BY <2>1, <2>2 DEF StopsIfCut
<1>4. CASE SearchesLine
  <2>1. /\ thread'.state = thread.state /\ thread'.run = thread.run /\ thread'.killed = thread.killed
        /\ thread'.file = thread.file /\ UNCHANGED <<finding, handler, cut>>
        /\ thread'.line = IF finding THEN thread.line + 1 ELSE Len(thread.file.lines) + 1
        /\ thread.line <= Len(thread.file.lines)
    BY <1>0, <1>4 DEF SearchesLine, Threads
  <2> QED
    BY <1>0, <2>1 DEF StopsIfCut
<1>5. CASE RunEnds \/ Dies
  <2>1. /\ thread'.state = "idle" /\ ~thread'.killed /\ thread'.run = thread.run
        /\ UNCHANGED <<handler, cut>>
    BY <1>0, <1>5, EndedType DEF RunEnds, Dies
  <2> QED
    BY <2>1 DEF StopsIfCut
<1>6. ASSUME NEW term \in Sought, FindInFiles(term) PROVE StopsIfCut'
  <2>1. CASE thread.state = "idle"
    <3>1. thread'.state # "running" /\ ~thread'.killed /\ handler'.in = "none" /\ UNCHANGED <<cut, finding>>
      BY <1>0, <1>6, <2>1, ThreadStarts DEF FindInFiles
    <3> QED
      BY <3>1 DEF StopsIfCut
  <2>2. CASE thread.state # "idle"
    BY <1>6, <2>2 DEF FindInFiles, StopsIfCut
  <2> QED
    BY <2>1, <2>2
<1>7. CASE \/ \E with \in Replacements, checked \in SUBSET DOMAIN panel.rows : PressReplace(with, checked)
           \/ \E yes \in BOOLEAN : Answers(yes)
  <2>1. PICK with \in Seq(Tokens), items \in Seq(Rows) : Outcome(with, items)
    BY <1>7, ReplacingOutcome
  <2>2. UNCHANGED <<thread, finding, cut>> /\ handler'.in # "stop"
    BY <1>7, <2>1 DEF PressReplace, Answers, Outcome, NothingReplaced, Question, NoHandler
  <2> QED
    BY <2>2 DEF StopsIfCut
<1>9. CASE \/ NewSearch \/ Delivers \/ ReferencesAnswer
           \/ UsagesHead \/ UsagesError \/ UsagesOutput \/ UsagesFinish
           \/ \E term \in Terms : FindUsages(term)
           \/ \E term \in Terms : FindReferences(term)
           \/ \E l \in DOMAIN text.lines : Edit(l)
  BY <1>1, <1>9 DEF NewSearch, Delivers, ReferencesAnswer, UsagesHead, UsagesError, UsagesOutput,
                    UsagesFinish, FindUsages, FindReferences, Edit
<1>10. CASE UNCHANGED vars
  BY <1>1, <1>10 DEF vars
<1>11. CASE Next
  <2> HIDE DEF StopsIfCut
  <2>1. \A term \in Sought : FindInFiles(term) => StopsIfCut'
    BY <1>6
  <2> QED
    BY <1>2, <1>3, <1>4, <1>5, <1>7, <1>9, <1>11, <2>1 DEF Next
<1> QED
  BY <1>10, <1>11

LEMMA OneAfterTheOther ==
  ASSUME NEW S, NEW s \in Seq(S), NEW t \in Seq(S)
  PROVE  /\ s \o t \in Seq(S) /\ Len(s \o t) = Len(s) + Len(t) /\ Len(s) \in Nat /\ Len(t) \in Nat
         /\ \A i \in 1..(Len(s) + Len(t)) : (s \o t)[i] = IF i <= Len(s) THEN s[i] ELSE t[i - Len(s)]
OBVIOUS

LEMMA SameSequence ==
  ASSUME NEW S, NEW s \in Seq(S), NEW t \in Seq(S), Len(s) = Len(t), \A i \in 1..Len(t) : s[i] = t[i]
  PROVE  s = t
OBVIOUS

LEMMA RestOf ==
  ASSUME NEW es \in Seq(Events), NEW j \in 0..Len(es)
  PROVE  /\ Rest(es, j) \in Seq(Events) /\ Len(Rest(es, j)) = Len(es) - j
         /\ \A i \in 1..(Len(es) - j) : Rest(es, j)[i] = es[i + j]
<1>1. Len(es) \in Nat /\ j \in Nat /\ j + 1 \in 1..(Len(es) + 1)
  OBVIOUS
<1>2. Rest(es, j) \in Seq(Events)
  BY <1>1 DEF Rest
<1>3. Len(Rest(es, j)) = Len(es) - j
  BY <1>1 DEF Rest
<1>4. \A i \in 1..(Len(es) - j) : Rest(es, j)[i] = es[i + j]
  BY <1>1 DEF Rest
<1> QED
  BY <1>2, <1>3, <1>4

\* What is posted behind a start, or behind no start.
LEMMA PostedBehind ==
  ASSUME NEW es \in Seq(Events), NEW fs \in Seq(Events), NoStart(fs)
  PROVE  /\ \A j \in DOMAIN (es \o fs) : LastStart(es \o fs, j) =>
              /\ j \in DOMAIN es /\ LastStart(es, j) /\ (es \o fs)[j] = es[j]
              /\ Rest(es, j) \in Seq(Events) /\ Rest(es \o fs, j) = Rest(es, j) \o fs
         /\ NoStart(es \o fs) => NoStart(es)
<1> DEFINE gs == es \o fs
<1>1. /\ DOMAIN es = 1..Len(es) /\ DOMAIN fs = 1..Len(fs) /\ Len(es) \in Nat /\ Len(fs) \in Nat
      /\ gs \in Seq(Events) /\ DOMAIN gs = 1..(Len(es) + Len(fs)) /\ Len(gs) = Len(es) + Len(fs)
      /\ \A i \in 1..Len(es) : gs[i] = es[i]
      /\ \A i \in 1..Len(fs) : gs[Len(es) + i] = fs[i]
  OBVIOUS
<1>2. ASSUME NEW j \in 1..Len(es)
      PROVE  Rest(es, j) \in Seq(Events) /\ Rest(gs, j) = Rest(es, j) \o fs
  <2> DEFINE rest == SubSeq(es, j + 1, Len(es))
             more == SubSeq(gs, j + 1, Len(gs))
  <2>1. rest \in Seq(Events) /\ Len(rest) = Len(es) - j /\ \A i \in 1..(Len(es) - j) : rest[i] = es[i + j]
    BY RestOf DEF Rest
  <2>2. /\ more \in Seq(Events) /\ Len(more) = Len(gs) - j
        /\ \A i \in 1..(Len(gs) - j) : more[i] = gs[i + j]
    <3>1. j \in 0..Len(gs)
      BY <1>1
    <3> HIDE DEF gs
    <3> QED
      BY <1>1, <3>1, RestOf DEF Rest
  <2> HIDE DEF rest
  <2>3. /\ rest \o fs \in Seq(Events) /\ Len(rest \o fs) = Len(rest) + Len(fs)
        /\ \A i \in 1..(Len(rest) + Len(fs)) :
             (rest \o fs)[i] = IF i <= Len(rest) THEN rest[i] ELSE fs[i - Len(rest)]
    BY <2>1, OneAfterTheOther
  <2>4. ASSUME NEW i \in 1..(Len(gs) - j) PROVE more[i] = (rest \o fs)[i]
    <3> HIDE DEF gs, rest, more
    <3>0. Len(gs) - j = Len(rest) + Len(fs) /\ j \in Nat /\ i \in Nat /\ i >= 1
      BY <1>1, <2>1
    <3>1. CASE i <= Len(es) - j
      <4>1. i \in 1..(Len(es) - j) /\ i + j \in 1..Len(es) /\ i <= Len(rest)
        BY <1>1, <2>1, <3>0, <3>1
      <4>2. more[i] = gs[i + j] /\ gs[i + j] = es[i + j] /\ rest[i] = es[i + j]
        BY <1>1, <2>1, <2>2, <4>1
      <4> QED
        BY <2>3, <3>0, <4>1, <4>2
    <3>2. CASE ~(i <= Len(es) - j)
      <4>1. i - Len(rest) \in 1..Len(fs) /\ Len(es) + (i - Len(rest)) = i + j /\ ~(i <= Len(rest))
        BY <1>1, <2>1, <3>0, <3>2
      <4>2. more[i] = gs[i + j] /\ gs[i + j] = fs[i - Len(rest)]
        BY <1>1, <2>2, <4>1
      <4> QED
        BY <2>3, <3>0, <4>1, <4>2
    <3> QED
      BY <3>1, <3>2
  <2> HIDE DEF gs, rest, more
  <2>5. more = rest \o fs
    <3>1. Len(gs) - j = Len(rest \o fs) /\ Len(more) = Len(rest \o fs)
      BY <1>1, <2>1, <2>2, <2>3
    <3> QED
      BY <2>2, <2>3, <2>4, <3>1, SameSequence
  <2> QED
    BY <2>1, <2>5 DEF Rest, rest, more
<1> HIDE DEF gs
<1>3. ASSUME NEW j \in DOMAIN gs, LastStart(gs, j)
      PROVE  j \in DOMAIN es /\ LastStart(es, j) /\ gs[j] = es[j]
  <2>1. j \in 1..Len(es)
    <3> SUFFICES ASSUME j \notin 1..Len(es) PROVE FALSE
      OBVIOUS
    <3>1. j - Len(es) \in 1..Len(fs) /\ Len(es) + (j - Len(es)) = j
      BY <1>1
    <3>2. gs[j] = fs[j - Len(es)]
      BY <1>1, <3>1
    <3> QED
      BY <1>1, <1>3, <3>1, <3>2 DEF LastStart, NoStart
  <2>2. \A i \in 1..Len(es) : i \in DOMAIN gs
    BY <1>1
  <2> QED
    BY <1>1, <1>3, <2>1, <2>2 DEF LastStart
<1>4. NoStart(gs) => NoStart(es)
  <2>1. \A i \in 1..Len(es) : i \in DOMAIN gs
    BY <1>1
  <2> QED
    BY <1>1, <2>1 DEF NoStart
<1> QED
  BY <1>1, <1>2, <1>3, <1>4 DEF gs

\* The rows of Find in Files among those that are added to the panel.
LEMMA FileRowsConcat ==
  ASSUME NEW rows \in Seq(Rows), NEW more \in Seq(Rows)
  PROVE  /\ FileRows(rows) \in Seq(Rows)
         /\ (\A i \in DOMAIN more : more[i].source = "file") => FileRows(rows \o more) = FileRows(rows) \o more
         /\ (\A i \in DOMAIN more : more[i].source # "file") => FileRows(rows \o more) = FileRows(rows)
<1> DEFINE all == rows \o more
           keep == {i \in DOMAIN rows : rows[i].source = "file"}
           kept == {i \in DOMAIN all : all[i].source = "file"}
<1>1. /\ all \in Seq(Rows) /\ DOMAIN all = 1..(Len(rows) + Len(more)) /\ Len(rows) \in Nat /\ Len(more) \in Nat
      /\ DOMAIN rows = 1..Len(rows) /\ DOMAIN more = 1..Len(more)
      /\ \A i \in 1..Len(rows) : all[i] = rows[i]
      /\ \A j \in 1..Len(more) : all[Len(rows) + j] = more[j] /\ Len(rows) + j \in DOMAIN all
  OBVIOUS
<1> HIDE DEF all
<1>2. \A i \in DOMAIN rows : i \in kept <=> i \in keep
  BY <1>1
<1>3. \A j \in 1..Len(more) : Len(rows) + j \in kept <=> more[j].source = "file"
  BY <1>1
<1> HIDE DEF keep, kept
<1>4. Selected(rows, kept) = Selected(rows, keep) /\ Selected(rows, keep) \in Seq(Rows)
  BY <1>2, SelectedSame, SelectedType
<1>5. /\ (\A j \in 1..Len(more) : Len(rows) + j \in kept) =>
           Selected(rows \o more, kept) = Selected(rows, kept) \o more
      /\ (\A j \in 1..Len(more) : Len(rows) + j \notin kept) =>
           Selected(rows \o more, kept) = Selected(rows, kept)
  BY SelectedConcat
<1>6. FileRows(rows) = Selected(rows, keep) /\ FileRows(rows \o more) = Selected(rows \o more, kept)
  BY DEF FileRows, keep, kept, all
<1> QED
  BY <1>1, <1>3, <1>4, <1>5, <1>6

LEMMA RowsInType ==
  ASSUME NEW es \in Seq(Events)
  PROVE  RowsIn(es) \in Seq(Found) /\ RowsIn(es) \in Seq(Rows)
<1>1. RowsIn(es) \in Seq(Found)
  <2>1. [is |-> "finished"] \in Events
    BY DEF Events
  <2> QED
    BY <2>1, RowsInAppend
<1>2. Found \subseteq Rows
  BY DEF Found
<1> QED
  BY <1>1, <1>2

LEMMA ConcatAssoc ==
  ASSUME NEW S, NEW r \in Seq(S), NEW s \in Seq(S), NEW t \in Seq(S)
  PROVE  (r \o s) \o t = r \o (s \o t)
OBVIOUS

\* A step that posts no start, and leaves the search and the rows of Find in Files
\* that the panel shows.
LEMMA WholeMoves ==
  ASSUME SearchTypeOK, WillBeWhole, NEW fs \in Seq(Events), NoStart(fs), events' = events \o fs,
         panel'.of = panel.of, FileRows(panel'.rows) = FileRows(panel.rows),
         \A of \in Searches, rows \in Seq(Rows) :
           Whole(thread, cut, of, rows) => Whole(thread', cut', of, rows \o RowsIn(fs))
  PROVE  WillBeWhole'
<1>0. events \in Seq(Events) /\ panel.of \in Searches /\ panel.rows \in Seq(Rows)
      /\ RowsIn(fs) \in Seq(Rows)
  BY RowsInType DEF SearchTypeOK, Panels
<1>1. ASSUME NEW j \in DOMAIN events', LastStart(events', j)
      PROVE  Whole(thread', cut', events'[j].of, RowsIn(Rest(events', j)))
  <2>1. /\ j \in DOMAIN events /\ LastStart(events, j) /\ events'[j] = events[j]
        /\ Rest(events, j) \in Seq(Events) /\ Rest(events', j) = Rest(events, j) \o fs
    BY <1>0, <1>1, PostedBehind
  <2>2. events[j] \in Events /\ IsStart(events[j])
    BY <1>0, <2>1 DEF LastStart
  <2>3. events[j].of \in Searches
    BY <2>2 DEF Events, IsStart
  <2>4. RowsIn(Rest(events', j)) = RowsIn(Rest(events, j)) \o RowsIn(fs)
    BY <2>1, RowsInConcat
  <2>5. RowsIn(Rest(events, j)) \in Seq(Rows)
    BY <2>1, RowsInType
  <2>6. Whole(thread, cut, events[j].of, RowsIn(Rest(events, j)))
    BY <2>1 DEF WillBeWhole
  <2>7. Whole(thread', cut', events[j].of, RowsIn(Rest(events, j)) \o RowsIn(fs))
    BY <2>3, <2>5, <2>6
  <2> QED
    BY <2>1, <2>4, <2>7
<1>2. ASSUME NoStart(events')
      PROVE  Whole(thread', cut', panel'.of, FileRows(panel'.rows) \o RowsIn(events'))
  <2> DEFINE r == FileRows(panel.rows)
             s == RowsIn(events)
             t == RowsIn(fs)
  <2>1. NoStart(events)
    BY <1>0, <1>2, PostedBehind
  <2>2. r \in Seq(Rows) /\ s \in Seq(Rows) /\ t \in Seq(Rows) /\ RowsIn(events') = s \o t
    BY <1>0, FileRowsConcat, RowsInConcat, RowsInType
  <2>3. Whole(thread, cut, panel.of, r \o s)
    BY <2>1 DEF WillBeWhole
  <2> HIDE DEF r, s
  <2>4. r \o s \in Seq(Rows) /\ (r \o s) \o t = r \o (s \o t)
    <3> HIDE DEF t
    <3> QED
      BY <2>2, ConcatAssoc
  <2>5. Whole(thread', cut', panel.of, (r \o s) \o t)
    BY <1>0, <2>3, <2>4
  <2>6. Whole(thread', cut', panel.of, r \o RowsIn(events'))
    BY <2>2, <2>4, <2>5
  <2> QED
    BY <2>6 DEF r
<1> QED
  BY <1>1, <1>2 DEF WillBeWhole

\* A step that posts nothing.
LEMMA WholeStays ==
  ASSUME SearchTypeOK, WillBeWhole, events' = events,
         panel'.of = panel.of, FileRows(panel'.rows) = FileRows(panel.rows),
         \A of \in Searches, rows \in Seq(Rows) :
           Whole(thread, cut, of, rows) => Whole(thread', cut', of, rows)
  PROVE  WillBeWhole'
<1>1. <<>> \in Seq(Events) /\ NoStart(<<>>) /\ events' = events \o <<>>
  BY DEF SearchTypeOK, NoStart
<1>2. \A rows \in Seq(Rows) : rows \o RowsIn(<<>>) = rows
  BY RowsInEmpty
<1>3. \A of \in Searches, rows \in Seq(Rows) :
        Whole(thread, cut, of, rows) => Whole(thread', cut', of, rows \o RowsIn(<<>>))
  BY <1>2
<1> QED
  BY <1>1, <1>3, WholeMoves

\* A step after which the panel shows no search of Find in Files.
LEMMA WholeForgets ==
  ASSUME WillBeWhole, UNCHANGED <<thread, cut, events>>, panel'.of = NoSearch
  PROVE  WillBeWhole'
<1>1. \A rows : Whole(thread, cut, NoSearch, rows)
  BY DEF Whole, NoSearch
<1> QED
  BY <1>1 DEF WillBeWhole

\* The thread posts its end.
LEMMA WholeEnds ==
  ASSUME SearchTypeOK, WillBeWhole, panel' = panel, events' = Append(events, [is |-> "finished"]),
         \A of \in Searches, rows \in Seq(Rows) :
           Whole(thread, cut, of, rows) => Whole(thread', cut', of, rows)
  PROVE  WillBeWhole'
<1> DEFINE e == [is |-> "finished"]
<1>1. e \in Events /\ <<e>> \in Seq(Events) /\ ~IsStart(e) /\ RowIn(e) = <<>>
  BY DEF Events, IsStart, RowIn
<1>2. NoStart(<<e>>)
  BY <1>1 DEF NoStart
<1> HIDE DEF e
<1>3. events' = events \o <<e>>
  BY <1>1 DEF SearchTypeOK, e
<1>4. Head(<<e>>) = e /\ <<e>> # <<>>
  OBVIOUS
<1>5. RowsIn(<<e>>) = <<>>
  BY <1>1, <1>4, RowsInHead
<1>6. \A of \in Searches, rows \in Seq(Rows) :
        Whole(thread, cut, of, rows) => Whole(thread', cut', of, rows \o RowsIn(<<e>>))
  <2>1. \A rows \in Seq(Rows) : rows \o <<>> = rows
    OBVIOUS
  <2> QED
    BY <1>5, <2>1
<1> QED
  BY <1>1, <1>2, <1>3, <1>6, WholeMoves

\* The thread has come to the line it is at, of its file.
LEMMA SoFarGrows ==
  ASSUME NEW t \in Threads, NEW u, t.state = "running", t.run # 0, t.line <= Len(t.file.lines),
         u.run = t.run, u.term = t.term, u.file = t.file, u.line = t.line + 1
  PROVE  SoFar(u) = SoFar(t) \o LineRows("file", t.run, t.term, t.file, t.line)
<1> DEFINE S == RowsOfRun("file", t.run)
           A == Seq(S)
           line(l) == LineRows("file", t.run, t.term, t.file, l)
           P == [l \in 1..(t.line - 1) |-> line(l)]
           Q == [l \in 1..t.line |-> line(l)]
           n == t.line - 1
<1>1. t.run \in Nat /\ t.term \in Sought /\ t.file \in Texts /\ t.line \in Nat \ {0}
      /\ DOMAIN t.file.lines = 1..Len(t.file.lines) /\ Len(t.file.lines) \in Nat
  BY ThreadFields DEF Texts
<1>2. ASSUME NEW l \in 1..t.line PROVE line(l) \in A
  <2>1. l \in DOMAIN t.file.lines
    BY <1>1
  <2> QED
    BY <1>1, <2>1, LineRowsType DEF Sources
<1>3. SoFar(t) = FlattenSeq(P) /\ SoFar(u) = FlattenSeq(Q)
  <2>1. (t.line + 1) - 1 = t.line
    BY <1>1
  <2> QED
    BY <2>1 DEF SoFar
<1> HIDE DEF S, A, line
<1>4. P \in [1..n -> A] /\ Q \in [1..(n + 1) -> A] /\ n \in Nat /\ n + 1 = t.line
      /\ line(t.line) \in A /\ \A i \in 1..(n + 1) : Q[i] = IF i \in 1..n THEN P[i] ELSE line(t.line)
  <2>1. n \in Nat /\ n + 1 = t.line
    BY <1>1
  <2>2. \A i \in 1..(n + 1) : ~(i \in 1..n) => i = t.line
    BY <2>1
  <2> QED
    BY <1>2, <2>1, <2>2
<1> HIDE DEF P, Q, n
<1>5. n + 1 \in Nat
  BY <1>4
<1>6. P \in Seq(A) /\ Len(P) = n /\ Q \in Seq(A) /\ Len(Q) = n + 1
  BY <1>4, <1>5, IsSeq
<1> DEFINE R == Append(P, line(t.line))
<1>7. R \in Seq(A) /\ Len(R) = n + 1 /\ \A i \in 1..(n + 1) : R[i] = IF i \in 1..n THEN P[i] ELSE line(t.line)
  BY <1>4, <1>6
<1>8. Q = R
  <2> HIDE DEF R
  <2> QED
    BY <1>4, <1>6, <1>7, SameSequence
<1>9. FlattenSeq(R) = FlattenSeq(P) \o line(t.line)
  BY <1>4, <1>6, FlattenSeqAppend DEF A
<1> QED
  BY <1>3, <1>8, <1>9 DEF line

\* A thread that has not come to a line has found nothing, and one that is past
\* its last line has found all there is.
LEMMA SoFarEnds ==
  ASSUME NEW t \in Threads
  PROVE  /\ t.line = 1 => SoFar(t) = <<>>
         /\ t.line > Len(t.file.lines) /\ t.line <= Len(t.file.lines) + 1 =>
              SoFar(t) = AllRows("file", t.run, t.term, t.file)
<1>1. t.file \in Texts /\ t.line \in Nat /\ DOMAIN t.file.lines = 1..Len(t.file.lines) /\ Len(t.file.lines) \in Nat
  BY ThreadFields DEF Texts
<1>2. ASSUME t.line = 1 PROVE SoFar(t) = <<>>
  <2>1. [l \in 1..(t.line - 1) |-> LineRows("file", t.run, t.term, t.file, l)] = <<>>
    BY <1>2
  <2>2. RowsIn(<<>>) = FlattenSeq(<<>>)
    <3>1. [i \in DOMAIN <<>> |-> RowIn(<<>>[i])] = <<>>
      OBVIOUS
    <3> QED
      BY <3>1 DEF RowsIn
  <2> QED
    BY <2>1, <2>2, RowsInEmpty DEF SoFar
<1>3. ASSUME t.line > Len(t.file.lines), t.line <= Len(t.file.lines) + 1
      PROVE  SoFar(t) = AllRows("file", t.run, t.term, t.file)
  <2>1. t.line - 1 = Len(t.file.lines)
    BY <1>1, <1>3
  <2> QED
    BY <1>1, <2>1 DEF SoFar, AllRows
<1> QED
  BY <1>2, <1>3

\* The thread's steps.
LEMMA ThreadIsWhole ==
  ASSUME SearchTypeOK, StopsIfCut, WillBeWhole,
         StopReturns \/ StopTerminates \/ SearchesLine \/ RunEnds \/ Dies
         \/ \E term \in Sought : FindInFiles(term)
  PROVE  WillBeWhole'
<1>0. /\ thread \in Threads /\ thread.run \in Nat /\ thread.line \in Nat \ {0}
      /\ thread.state # "idle" => thread.run # 0
      /\ thread.killed => thread.state # "idle"
      /\ panel' = panel /\ events \in Seq(Events)
      /\ cut \subseteq cut'
  BY ThreadFields DEF SearchTypeOK, StopReturns, StopTerminates, SearchesLine, RunEnds, Dies, FindInFiles
\* What a step makes of a run: nothing, or it was told to stop.
<1>1. ASSUME thread.state # "running" \/ thread.run \in cut', thread'.state # "running",
             NEW of \in Searches, NEW rows \in Seq(Rows), Whole(thread, cut, of, rows)
      PROVE  Whole(thread', cut', of, rows)
  BY <1>0, <1>1 DEF Whole
<1>2. ASSUME thread'.state = thread.state, thread'.run = thread.run, thread'.term = thread.term,
             thread'.file = thread.file, thread'.line = thread.line,
             NEW of \in Searches, NEW rows \in Seq(Rows), Whole(thread, cut, of, rows)
      PROVE  Whole(thread', cut', of, rows)
  <2>1. SoFar(thread') = SoFar(thread)
    BY <1>2 DEF SoFar
  <2> QED
    BY <1>0, <1>2, <2>1 DEF Whole
<1>3. CASE StopReturns
  <2>1. thread.state = "idle" /\ thread'.state # "running" /\ events' = events
    BY <1>0, <1>3, ThreadStarts DEF StopReturns
  <2> QED
    BY <1>0, <1>1, <2>1, WholeStays
<1>4. CASE StopTerminates
  <2>0. handler.in = "stop" /\ thread.run \in cut /\ cut' = cut
    BY <1>4 DEF StopTerminates, StopsIfCut
  <2>1. CASE events' = Append(events, [is |-> "finished"]) /\ StartThread(Ended(thread), handler.term)
    <3>1. thread'.state # "running"
      BY <1>0, <2>1, EndedType, ThreadStarts
    <3> QED
      BY <1>0, <1>1, <2>0, <2>1, <3>1, WholeEnds
  <2>2. CASE StartThread([thread EXCEPT !.killed = TRUE], handler.term) /\ UNCHANGED events
    <3> DEFINE t == [thread EXCEPT !.killed = TRUE]
    <3>1. t.state = thread.state /\ t.run = thread.run /\ t.term = thread.term /\ t.file = thread.file
          /\ t.line = thread.line
      BY <1>0 DEF Threads
    <3>2. thread' = t
      BY <1>4, <2>2, <3>1 DEF StartThread, StopTerminates
    <3> HIDE DEF t
    <3> QED
      BY <1>0, <1>2, <2>2, <3>1, <3>2, WholeStays
  <2> QED
    BY <1>4, <2>1, <2>2 DEF StopTerminates
<1>5. CASE Dies
  <2>1. thread.run \in cut' /\ thread'.state = "idle" /\ events' = Append(events, [is |-> "finished"])
    BY <1>0, <1>5, EndedType DEF Dies, StopsIfCut
  <2> QED
    BY <1>0, <1>1, <2>1, WholeEnds
<1>6. CASE RunEnds
  <2>1. /\ thread.state = "running" /\ thread'.state = "idle" /\ cut' = cut
        /\ events' = Append(events, [is |-> "finished"])
        /\ SoFar(thread) = AllRows("file", thread.run, thread.term, thread.file)
    BY <1>0, <1>6, EndedType, SoFarEnds DEF RunEnds, StopsIfCut
  <2>2. ASSUME NEW of \in Searches, NEW rows \in Seq(Rows), Whole(thread, cut, of, rows)
        PROVE  Whole(thread', cut', of, rows)
    <3> SUFFICES ASSUME of.run \notin cut \cup {0}
                 PROVE  rows = AllRows("file", of.run, of.term, of.file)
      BY <2>1 DEF Whole
    <3>1. of = [run |-> thread.run, term |-> thread.term, file |-> thread.file] /\ rows = SoFar(thread)
      BY <2>1, <2>2 DEF Whole
    <3> QED
      BY <2>1, <3>1
  <2> QED
    BY <1>0, <2>1, <2>2, WholeEnds
<1>7. CASE SearchesLine
  <2> DEFINE rows == LineRows("file", thread.run, thread.term, thread.file, thread.line)
  <2>1. rows \in Seq(Found) /\ events' = events \o Posts(rows)
    BY <1>7, LineFound DEF SearchesLine, Posts
  <2>2. /\ thread.state = "running" /\ cut' = cut /\ thread.line <= Len(thread.file.lines)
        /\ thread'.state = "running" /\ thread'.run = thread.run /\ thread'.term = thread.term
        /\ thread'.file = thread.file /\ (finding => thread'.line = thread.line + 1)
    BY <1>0, <1>7 DEF SearchesLine, Threads
  <2>3. finding => SoFar(thread') = SoFar(thread) \o rows
    BY <1>0, <2>2, SoFarGrows
  <2> HIDE DEF rows
  <2>4. Posts(rows) \in Seq(Events) /\ RowsIn(Posts(rows)) = rows
    BY <2>1, RowsInPosts
  <2>5. NoStart(Posts(rows))
    <3>1. \A k \in DOMAIN rows : Posts(rows)[k].is = "result"
      BY DEF Posts
    <3>2. DOMAIN Posts(rows) = DOMAIN rows
      BY DEF Posts
    <3> QED
      BY <3>1, <3>2 DEF NoStart, IsStart
  <2>6. ASSUME NEW of \in Searches, NEW found \in Seq(Rows), Whole(thread, cut, of, found)
        PROVE  Whole(thread', cut', of, found \o RowsIn(Posts(rows)))
    <3> SUFFICES ASSUME of.run \notin cut \cup {0}
                 PROVE  /\ of = [run |-> thread.run, term |-> thread.term, file |-> thread.file]
                        /\ found \o rows = SoFar(thread')
      BY <2>2, <2>4 DEF Whole
    <3>1. of = [run |-> thread.run, term |-> thread.term, file |-> thread.file] /\ found = SoFar(thread)
      BY <2>2, <2>6 DEF Whole
    <3>2. finding
      BY <2>2, <3>1 DEF StopsIfCut
    <3> QED
      BY <2>3, <3>1, <3>2
  <2> QED
    BY <1>0, <2>1, <2>4, <2>5, <2>6, WholeMoves
<1>8. ASSUME NEW term \in Sought, FindInFiles(term) PROVE WillBeWhole'
  <2>0. events' = events
    BY <1>8 DEF FindInFiles
  <2>1. CASE thread.state = "idle"
    <3>1. thread'.state # "running"
      BY <1>0, <1>8, <2>1, ThreadStarts DEF FindInFiles
    <3> QED
      BY <1>0, <1>1, <2>0, <2>1, <3>1, WholeStays
  <2>2. CASE thread.state # "idle"
    <3>1. thread' = thread
      BY <1>8, <2>2 DEF FindInFiles
    <3> QED
      BY <1>0, <1>2, <2>0, <3>1, WholeStays
  <2> QED
    BY <2>1, <2>2
<1> QED
  BY <1>3, <1>4, <1>5, <1>6, <1>7, <1>8

LEMMA RunBeginsIsWhole ==
  ASSUME SearchTypeOK, RunBegins
  PROVE  WillBeWhole'
<1> DEFINE of == [run |-> thread.run, term |-> findText, file |-> disk]
           e == [is |-> "started", of |-> of]
           n == Len(events)
<1>0. thread \in Threads /\ events \in Seq(Events) /\ n \in Nat
  BY DEF SearchTypeOK
<1>1. of \in Searches
  BY <1>0, ThreadFields DEF SearchTypeOK, Searches
<1>2. /\ thread' \in Threads /\ thread'.state = "running" /\ thread'.line = 1
      /\ of = [run |-> thread'.run, term |-> thread'.term, file |-> thread'.file]
  <2>1. thread' \in Threads
    BY ThreadType DEF SearchTypeOK
  <2> QED
    BY <1>0, <2>1 DEF RunBegins, Threads
<1>3. SoFar(thread') = <<>>
  BY <1>2, SoFarEnds
<1>4. Whole(thread', cut', of, <<>>)
  BY <1>2, <1>3 DEF Whole
<1> HIDE DEF of
<1>5. e \in Events /\ IsStart(e) /\ e.of = of
  BY <1>1 DEF Events, IsStart
<1>6. events' = Append(events, e)
  BY DEF RunBegins, of
<1> HIDE DEF e, n
<1>7. /\ events' \in Seq(Events) /\ DOMAIN events' = 1..(n + 1) /\ Len(events') = n + 1
      /\ events'[n + 1] = e
  BY <1>0, <1>5, <1>6 DEF n
<1>8. ~NoStart(events')
  <2>1. n + 1 \in DOMAIN events'
    BY <1>0, <1>7
  <2> QED
    BY <1>5, <1>7, <2>1 DEF NoStart
<1>9. ASSUME NEW j \in DOMAIN events', LastStart(events', j)
      PROVE  Whole(thread', cut', events'[j].of, RowsIn(Rest(events', j)))
  <2>1. j = n + 1
    <3>1. n + 1 \in DOMAIN events' /\ (j # n + 1 => n + 1 > j)
      BY <1>0, <1>7
    <3> QED
      BY <1>5, <1>7, <1>9, <3>1 DEF LastStart
  <2>2. Rest(events', j) = <<>>
    <3>1. j \in 0..Len(events') /\ Len(events') - j = 0
      BY <1>0, <1>7, <2>1
    <3>2. Rest(events', j) \in Seq(Events) /\ Len(Rest(events', j)) = 0
      BY <1>7, <3>1, RestOf
    <3> QED
      BY <3>2
  <2> QED
    BY <1>4, <1>5, <1>7, <2>1, <2>2, RowsInEmpty
<1> QED
  BY <1>8, <1>9 DEF WillBeWhole

\* What is behind the first event.
LEMMA BehindHead ==
  ASSUME NEW es \in Seq(Events), es # <<>>
  PROVE  /\ \A j \in DOMAIN Tail(es) : LastStart(Tail(es), j) =>
              /\ j + 1 \in DOMAIN es /\ LastStart(es, j + 1) /\ Tail(es)[j] = es[j + 1]
              /\ Rest(Tail(es), j) = Rest(es, j + 1)
         /\ NoStart(Tail(es)) =>
              IF IsStart(Head(es)) THEN LastStart(es, 1) /\ Rest(es, 1) = Tail(es) ELSE NoStart(es)
<1> DEFINE n == Len(es)
           t == Tail(es)
<1>1. /\ n \in Nat \ {0} /\ DOMAIN es = 1..n /\ t \in Seq(Events) /\ DOMAIN t = 1..(n - 1)
      /\ Len(t) = n - 1 /\ \A i \in 1..(n - 1) : t[i] = es[i + 1]
      /\ Head(es) = es[1]
  OBVIOUS
<1> HIDE DEF t
<1>2. \A j \in 0..(n - 1) : Rest(t, j) = Rest(es, j + 1)
  <2> TAKE j \in 0..(n - 1)
  <2>0. j \in 0..Len(t) /\ j + 1 \in 0..Len(es) /\ Len(t) - j = (n - 1) - j /\ Len(es) - (j + 1) = (n - 1) - j
    BY <1>1
  <2> DEFINE r == Rest(t, j)
             q == Rest(es, j + 1)
             k == (n - 1) - j
  <2>1. /\ r \in Seq(Events) /\ Len(r) = k /\ \A i \in 1..k : r[i] = t[i + j]
        /\ q \in Seq(Events) /\ Len(q) = k /\ \A i \in 1..k : q[i] = es[i + (j + 1)]
    BY <1>1, <2>0, RestOf
  <2>2. \A i \in 1..k : i + j \in 1..(n - 1) /\ (i + j) + 1 = i + (j + 1)
    BY <1>1
  <2> HIDE DEF r, q, k
  <2>3. \A i \in 1..k : r[i] = q[i]
    BY <1>1, <2>1, <2>2
  <2>4. r = q
    BY <2>1, <2>3, SameSequence
  <2> QED
    BY <2>4 DEF r, q
<1>3. Rest(es, 1) = t
  <2>1. 1 \in 0..Len(es) /\ Len(es) - 1 = n - 1
    BY <1>1
  <2>2. Rest(es, 1) \in Seq(Events) /\ Len(Rest(es, 1)) = n - 1 /\ \A i \in 1..(n - 1) : Rest(es, 1)[i] = es[i + 1]
    BY <2>1, RestOf
  <2> QED
    BY <1>1, <2>2, SameSequence
<1>4. ASSUME NEW j \in DOMAIN t, LastStart(t, j)
      PROVE  j + 1 \in DOMAIN es /\ LastStart(es, j + 1) /\ t[j] = es[j + 1]
  <2>1. j \in 1..(n - 1) /\ j + 1 \in 1..n /\ t[j] = es[j + 1]
    BY <1>1
  <2>2. ASSUME NEW i \in 1..n, i > j + 1 PROVE ~IsStart(es[i])
    <3>1. i - 1 \in 1..(n - 1) /\ i - 1 > j /\ (i - 1) + 1 = i
      BY <1>1, <2>1, <2>2
    <3> QED
      BY <1>1, <1>4, <3>1 DEF LastStart
  <2> QED
    BY <1>1, <1>4, <2>1, <2>2 DEF LastStart
<1>5. ASSUME NoStart(t), NEW i \in 1..n, i > 1 PROVE ~IsStart(es[i])
  <2>1. i - 1 \in 1..(n - 1) /\ (i - 1) + 1 = i
    BY <1>1, <1>5
  <2> QED
    BY <1>1, <1>5, <2>1 DEF NoStart
<1>6. ASSUME NoStart(t), IsStart(Head(es)) PROVE LastStart(es, 1)
  BY <1>1, <1>5, <1>6 DEF LastStart
<1>7. ASSUME NoStart(t), ~IsStart(Head(es)) PROVE NoStart(es)
  <2>1. \A i \in 1..n : i = 1 \/ i > 1
    BY <1>1
  <2> QED
    BY <1>1, <1>5, <1>7, <2>1 DEF NoStart
<1>8. \A j \in DOMAIN t : j \in 0..(n - 1)
  BY <1>1
<1> QED
  BY <1>2, <1>3, <1>4, <1>6, <1>7, <1>8 DEF t, n

LEMMA DeliversIsWhole ==
  ASSUME SearchTypeOK, WillBeWhole, Delivers
  PROVE  WillBeWhole'
<1> DEFINE e == Head(events)
           r == FileRows(panel.rows)
           s == RowsIn(Tail(events))
<1>0. /\ events \in Seq(Events) /\ events # <<>> /\ e \in Events /\ Tail(events) \in Seq(Events)
      /\ events' = Tail(events) /\ UNCHANGED <<thread, cut>>
      /\ panel \in Panels /\ panel.rows \in Seq(Rows)
  BY DEF SearchTypeOK, Delivers, Panels
<1>1. ASSUME NEW j \in DOMAIN events', LastStart(events', j)
      PROVE  Whole(thread, cut, events'[j].of, RowsIn(Rest(events', j)))
  <2>1. /\ j + 1 \in DOMAIN events /\ LastStart(events, j + 1) /\ events'[j] = events[j + 1]
        /\ Rest(events', j) = Rest(events, j + 1)
    BY <1>0, <1>1, BehindHead
  <2>2. Whole(thread, cut, events[j + 1].of, RowsIn(Rest(events, j + 1)))
    BY <2>1 DEF WillBeWhole
  <2> QED
    BY <2>1, <2>2
<1>2. ASSUME NoStart(events')
      PROVE  Whole(thread, cut, panel'.of, FileRows(panel'.rows) \o s)
  <2>0. s \in Seq(Rows) /\ r \in Seq(Rows) /\ RowsIn(events) = RowIn(e) \o s
    BY <1>0, RowsInType, RowsInHead, FileRowsConcat
  <2>1. CASE e.is = "started"
    <3>1. IsStart(e) /\ LastStart(events, 1) /\ Rest(events, 1) = Tail(events) /\ 1 \in DOMAIN events
      <4>1. IsStart(e) /\ 1 \in DOMAIN events
        BY <1>0, <2>1 DEF IsStart
      <4> QED
        BY <1>0, <1>2, <4>1, BehindHead
    <3>2. events[1] = e
      BY <1>0
    <3>3. Whole(thread, cut, e.of, s)
      BY <3>1, <3>2 DEF WillBeWhole
    <3>4. panel' = FindStarted(panel, <<SearchText>>, e.of)
      BY <2>1 DEF Delivers
    <3>5. panel'.of = e.of /\ panel'.rows = <<>>
      BY <3>4 DEF FindStarted
    <3>6. FileRows(<<>>) = <<>> /\ <<>> \o s = s
      BY <2>0, SelectedEmpty DEF FileRows
    <3> QED
      BY <3>3, <3>5, <3>6
  <2>2. CASE e.is # "started"
    <3>1. Whole(thread, cut, panel.of, r \o RowsIn(events))
      <4>1. ~IsStart(e)
        BY <2>2 DEF IsStart
      <4>2. NoStart(events)
        BY <1>0, <1>2, <4>1, BehindHead
      <4> QED
        BY <4>2 DEF WillBeWhole
    <3>2. panel'.of = panel.of /\ FileRows(panel'.rows) = r \o RowIn(e) /\ RowIn(e) \in Seq(Rows)
      <4>1. CASE e.is = "result"
        <5>1. e.row \in Rows /\ e.row.source = "file" /\ RowIn(e) = <<e.row>>
          BY <1>0, <4>1 DEF Events, Found, RowIn
        <5>2. panel' = FindResult(panel, <<e.row>>)
          BY <4>1 DEF Delivers
        <5>3. panel'.of = panel.of /\ panel'.rows = panel.rows \o <<e.row>>
          BY <1>0, <5>2 DEF FindResult, Panels
        <5>4. <<e.row>> \in Seq(Rows) /\ \A i \in DOMAIN <<e.row>> : <<e.row>>[i].source = "file"
          BY <5>1
        <5>5. FileRows(panel'.rows) = r \o <<e.row>>
          BY <1>0, <5>3, <5>4, FileRowsConcat
        <5> QED
          BY <5>1, <5>3, <5>4, <5>5
      <4>2. CASE e.is = "finished"
        <5>1. panel' = FindFinished(panel) /\ RowIn(e) = <<>>
          BY <4>2 DEF Delivers, RowIn
        <5>2. panel'.of = panel.of /\ panel'.rows = panel.rows
          BY <1>0, <5>1 DEF FindFinished, Panels
        <5>3. r \o RowIn(e) = r /\ RowIn(e) \in Seq(Rows)
          <6> HIDE DEF r, e
          <6> QED
            BY <2>0, <5>1
        <5>4. FileRows(panel'.rows) = r
          BY <5>2
        <5> QED
          BY <5>2, <5>3, <5>4
      <4>3. e.is \in {"started", "result", "finished"}
        BY <1>0 DEF Events
      <4> QED
        BY <2>2, <4>1, <4>2, <4>3
    <3> DEFINE x == RowIn(e)
    <3> HIDE DEF r, s, x
    <3>3. (r \o x) \o s = r \o (x \o s)
      BY <2>0, <3>2, ConcatAssoc DEF x
    <3> QED
      BY <2>0, <3>1, <3>2, <3>3 DEF x
  <2> QED
    BY <2>1, <2>2
<1> HIDE DEF s
<1>3. RowsIn(events') = s
  BY <1>0 DEF s
<1> QED
  BY <1>0, <1>1, <1>2, <1>3 DEF WillBeWhole

LEMMA OthersAreWhole ==
  ASSUME SearchTypeOK, WillBeWhole,
         \/ NewSearch \/ UsagesHead \/ UsagesError \/ UsagesOutput \/ UsagesFinish \/ ReferencesAnswer
         \/ \E term \in Terms : FindUsages(term) \/ FindReferences(term)
         \/ \E l \in DOMAIN text.lines : Edit(l)
         \/ \E with \in Replacements, checked \in SUBSET DOMAIN panel.rows : PressReplace(with, checked)
         \/ \E yes \in BOOLEAN : Answers(yes)
  PROVE  WillBeWhole'
<1>0. /\ panel \in Panels /\ panel.rows \in Seq(Rows) /\ handler.items \in Seq(Rows)
      /\ usages \in Processes /\ usages.term \in Sought /\ usages.file \in Texts
      /\ usages.line \in Nat \ {0}
  BY DEF SearchTypeOK, Panels, Handlers, Processes
<1>1. UNCHANGED <<thread, events, cut>>
  BY DEF NewSearch, UsagesHead, UsagesError, UsagesOutput, UsagesFinish, ReferencesAnswer, FindUsages,
         FindReferences, Edit, PressReplace, Answers
<1>2. ASSUME panel'.of = panel.of, FileRows(panel'.rows) = FileRows(panel.rows) PROVE WillBeWhole'
  BY <1>1, <1>2, WholeStays
<1>3. ASSUME panel'.of = NoSearch PROVE WillBeWhole'
  BY <1>1, <1>3, WholeForgets
<1>5. CASE NewSearch
  <2>1. panel'.of = panel.of /\ panel'.rows = panel.rows
    BY <1>0, <1>5 DEF NewSearch, Panels
  <2> QED
    BY <1>2, <2>1
<1>6. CASE UsagesHead \/ UsagesError \/ UsagesOutput \/ UsagesFinish
  <2>1. PICK rows \in Seq(RowsOfRun("usages", 0)) :
          panel'.rows = panel.rows \o rows /\ panel'.of = panel.of
    BY <1>6, UsagesPanel
  <2>2. rows \in Seq(Rows) /\ \A i \in DOMAIN rows : rows[i].source # "file"
    BY RunsAreRows DEF RowsOfRun
  <2>3. FileRows(panel'.rows) = FileRows(panel.rows)
    BY <1>0, <2>1, <2>2, FileRowsConcat
  <2> QED
    BY <1>2, <2>1, <2>3
<1>8. CASE ReferencesAnswer
  <2>1. panel' = panel \/ panel'.of = NoSearch
    BY <1>8 DEF ReferencesAnswer, FindFinished, FindResult, FindStarted
  <2> QED
    BY <1>2, <1>3, <2>1
<1>9. ASSUME NEW term \in Terms, FindUsages(term) PROVE WillBeWhole'
  BY <1>3, <1>9 DEF FindUsages, FindStarted
<1>10. ASSUME NEW term \in Terms, FindReferences(term) PROVE WillBeWhole'
  BY <1>2, <1>10 DEF FindReferences
<1>11. ASSUME NEW l \in DOMAIN text.lines, Edit(l) PROVE WillBeWhole'
  BY <1>2, <1>11 DEF Edit
<1>12. CASE \/ \E with \in Replacements, checked \in SUBSET DOMAIN panel.rows : PressReplace(with, checked)
            \/ \E yes \in BOOLEAN : Answers(yes)
  <2>1. PICK with \in Seq(Tokens), items \in Seq(Rows) : Outcome(with, items)
    BY <1>12, ReplacingOutcome
  <2>2. panel' = panel \/ panel'.of = NoSearch
    BY <2>1, DoReplaceType DEF Outcome, NothingReplaced, Question
  <2> QED
    BY <1>2, <1>3, <2>2
<1> QED
  BY <1>5, <1>6, <1>8, <1>9, <1>10, <1>11, <1>12

LEMMA WillBeWholeInit == Init => WillBeWhole
<1> SUFFICES ASSUME Init PROVE WillBeWhole
  OBVIOUS
<1>1. DOMAIN events = {} /\ panel.of.run = 0
  BY DEF Init, NoSearch
<1> QED
  BY <1>1 DEF WillBeWhole, Whole

LEMMA WillBeWholeStep ==
  ASSUME SearchTypeOK, StopsIfCut, WillBeWhole, [Next]_vars
  PROVE  WillBeWhole'
<1>1. CASE UNCHANGED vars
  BY <1>1 DEF vars, WillBeWhole
<1>2. CASE Delivers \/ RunBegins
  BY <1>2, DeliversIsWhole, RunBeginsIsWhole
<1>3. CASE Next
  BY <1>2, <1>3, ThreadIsWhole, OthersAreWhole DEF Next
<1> QED
  BY <1>1, <1>3

LEMMA WholeIsComplete == SearchTypeOK /\ WillBeWhole => CompleteUnlessCut
<1> SUFFICES ASSUME SearchTypeOK, WillBeWhole, thread.state = "idle", events = <<>>,
                    panel.of.run \notin cut \cup {0}
             PROVE  FileRows(panel.rows) = AllRows("file", panel.of.run, panel.of.term, panel.of.file)
  BY DEF CompleteUnlessCut
<1>1. NoStart(events) /\ RowsIn(events) = <<>>
  BY RowsInEmpty DEF NoStart
<1>2. FileRows(panel.rows) \in Seq(Rows)
  BY FileRowsConcat DEF SearchTypeOK, Panels
<1>3. FileRows(panel.rows) \o RowsIn(events) = FileRows(panel.rows)
  BY <1>1, <1>2
<1> QED
  BY <1>1, <1>3 DEF WillBeWhole, Whole

\* A search that nobody stopped has found everything when it has ended: whatever
\* was searched for, stopped and killed before and meanwhile, in every text.
THEOREM CompleteUnlessCutHolds == Spec => []CompleteUnlessCut
<1>1. Init => StopsIfCut /\ WillBeWhole
  BY StopsIfCutInit, WillBeWholeInit
<1>2. SearchTypeOK /\ StopsIfCut /\ WillBeWhole /\ [Next]_vars => StopsIfCut' /\ WillBeWhole'
  BY StopsIfCutStep, WillBeWholeStep
<1>3. SearchTypeOK /\ WillBeWhole => CompleteUnlessCut
  BY WholeIsComplete
<1> QED
  BY <1>1, <1>2, <1>3, SearchTypesHold, PTL DEF Spec

-----------------------------------------------------------------------------
(* Parts of lines.                                                         *)

\* What r has as the part of s from i to j, and as s with t behind it.
PartOf(S, s, i, j, r) ==
  /\ r \in Seq(S) /\ Len(r) = j - i + 1
  /\ \A k \in 1..(j - i + 1) : r[k] = s[i + k - 1]
Joined(S, s, t, r) ==
  /\ r \in Seq(S) /\ Len(r) = Len(s) + Len(t)
  /\ \A k \in 1..Len(s) : r[k] = s[k]
  /\ \A k \in 1..Len(t) : r[Len(s) + k] = t[k]

LEMMA PartIs ==
  ASSUME NEW S, NEW s \in Seq(S), NEW i \in 1..(Len(s) + 1), NEW j \in (i - 1)..Len(s)
  PROVE  PartOf(S, s, i, j, SubSeq(s, i, j))
<1>1. i \in Int /\ j \in Int /\ i - 1 <= j /\ Len(s) \in Nat
  OBVIOUS
<1>2. \A k \in i..j : s[k] \in S
  BY <1>1, ElementOfSeq
<1>3. /\ SubSeq(s, i, j) \in Seq(S)
      /\ Len(SubSeq(s, i, j)) = IF i <= j THEN j - i + 1 ELSE 0
      /\ \A k \in 1..(j - i + 1) : SubSeq(s, i, j)[k] = s[i + k - 1]
  BY <1>1, <1>2, SubSeqProperties
<1> QED
  BY <1>1, <1>3 DEF PartOf

LEMMA TwoAre ==
  ASSUME NEW S, NEW s \in Seq(S), NEW t \in Seq(S)
  PROVE  Joined(S, s, t, s \o t)
<1>1. Len(s) \in Nat /\ Len(t) \in Nat
  OBVIOUS
<1>2. /\ s \o t \in Seq(S) /\ Len(s \o t) = Len(s) + Len(t)
      /\ \A i \in 1..(Len(s) + Len(t)) : (s \o t)[i] = IF i <= Len(s) THEN s[i] ELSE t[i - Len(s)]
  BY ConcatProperties
<1>3. ASSUME NEW k \in 1..Len(t) PROVE (s \o t)[Len(s) + k] = t[k]
  <2>1. Len(s) + k \in 1..(Len(s) + Len(t)) /\ ~(Len(s) + k <= Len(s)) /\ Len(s) + k - Len(s) = k
    BY <1>1
  <2>2. (s \o t)[Len(s) + k] = t[Len(s) + k - Len(s)]
    BY <1>2, <2>1
  <2> QED
    BY <2>1, <2>2
<1>4. ASSUME NEW k \in 1..Len(s) PROVE (s \o t)[k] = s[k]
  <2>1. k \in 1..(Len(s) + Len(t)) /\ k <= Len(s)
    BY <1>1
  <2> QED
    BY <1>2, <2>1
<1> QED
  BY <1>2, <1>3, <1>4 DEF Joined

\* What is put into a line in the place of a part of it.
LEMMA PutJoins ==
  ASSUME NEW line \in Seq(Tokens), NEW with \in Seq(Tokens), NEW col \in 0..Len(line), NEW len
  PROVE  Put(line, col, len, with) =
           (SubSeq(line, 1, col) \o with) \o SubSeq(line, col + len + 1, Len(line))
<1> DEFINE from == Max({0, Min({col, Len(line)})})
<1>1. Len(line) \in Nat /\ col \in Int
  OBVIOUS
<1>2. from = IF col < 0 THEN 0 ELSE IF col > Len(line) THEN Len(line) ELSE col
  BY <1>1, Clipped
<1>3. Put(line, col, len, with) =
        SubSeq(line, 1, from) \o with \o SubSeq(line, from + len + 1, Len(line))
  BY DEF Put
<1> HIDE DEF from
<1>4. from = col
  BY <1>1, <1>2
<1> QED
  BY <1>3, <1>4

\* A line after something was put into it.
PutInto(line, col, len, with, put) ==
  /\ put \in Seq(Tokens)
  /\ Len(put) = Len(line) - len + Len(with)
  /\ \A k \in 1..col : put[k] = line[k]
  /\ \A k \in 1..Len(with) : put[col + k] = with[k]

LEMMA PutIs ==
  ASSUME NEW line \in Seq(Tokens), NEW with \in Seq(Tokens), NEW col \in Nat, NEW len \in Nat,
         col + len <= Len(line)
  PROVE  PutInto(line, col, len, with, Put(line, col, len, with))
<1> DEFINE before == SubSeq(line, 1, col)
           after  == SubSeq(line, col + len + 1, Len(line))
           begin  == before \o with
           all    == begin \o after
<1>1. Len(line) \in Nat /\ Len(with) \in Nat /\ col \in 0..Len(line)
  OBVIOUS
<1>2. Put(line, col, len, with) = all
  BY <1>1, PutJoins
<1>3. PartOf(Tokens, line, 1, col, before)
  <2>1. 1 \in 1..(Len(line) + 1) /\ col \in (1 - 1)..Len(line)
    BY <1>1
  <2> QED
    BY <2>1, PartIs
<1>4. PartOf(Tokens, line, col + len + 1, Len(line), after)
  <2>1. col + len + 1 \in 1..(Len(line) + 1) /\ Len(line) \in ((col + len + 1) - 1)..Len(line)
    BY <1>1
  <2> QED
    BY <2>1, PartIs
<1> HIDE DEF before, after
<1>5. before \in Seq(Tokens) /\ after \in Seq(Tokens)
  BY <1>3, <1>4 DEF PartOf
<1>6. Joined(Tokens, before, with, begin)
  BY <1>5, TwoAre
<1> HIDE DEF begin
<1>7. begin \in Seq(Tokens)
  BY <1>6 DEF Joined
<1>8. Joined(Tokens, begin, after, all)
  BY <1>5, <1>7, TwoAre
<1> HIDE DEF all
<1>9. /\ Len(before) = col /\ \A k \in 1..col : before[k] = line[k]
      /\ Len(after) = Len(line) - col - len
  <2>1. col - 1 + 1 = col /\ \A k \in Int : 1 + k - 1 = k
    OBVIOUS
  <2>2. Len(line) - (col + len + 1) + 1 = Len(line) - col - len
    BY <1>1
  <2> QED
    BY <1>3, <1>4, <2>1, <2>2 DEF PartOf
<1>10. /\ Len(begin) = col + Len(with)
       /\ \A k \in 1..col : begin[k] = line[k]
       /\ \A k \in 1..Len(with) : begin[col + k] = with[k]
  BY <1>6, <1>9 DEF Joined
<1>11. /\ all \in Seq(Tokens) /\ Len(all) = (col + Len(with)) + (Len(line) - col - len)
       /\ \A k \in 1..(col + Len(with)) : all[k] = begin[k]
  BY <1>8, <1>9, <1>10 DEF Joined
<1>12. Len(all) = Len(line) - len + Len(with)
  BY <1>1, <1>11
<1>13. \A k \in 1..col : all[k] = line[k]
  BY <1>1, <1>10, <1>11
<1>14. \A k \in 1..Len(with) : all[col + k] = with[k]
  <2>1. \A k \in 1..Len(with) : col + k \in 1..(col + Len(with))
    BY <1>1
  <2> QED
    BY <1>10, <1>11, <2>1
<1> QED
  BY <1>2, <1>11, <1>12, <1>13, <1>14 DEF PutInto

\* A line of which what comes after its first e tokens is that of another.
LEMMA TailIs ==
  ASSUME NEW line \in Seq(Tokens), NEW e \in 0..Len(line), NEW c \in e..Len(line)
  PROVE  /\ SubSeq(line, e + 1, c) \in Seq(Tokens) /\ Len(SubSeq(line, e + 1, c)) = c - e
         /\ \A k \in 1..(c - e) : SubSeq(line, e + 1, c)[k] = line[e + k]
<1> DEFINE part == SubSeq(line, e + 1, c)
<1>1. /\ e + 1 \in 1..(Len(line) + 1) /\ c \in ((e + 1) - 1)..Len(line) /\ c - (e + 1) + 1 = c - e
      /\ \A k \in Int : (e + 1) + k - 1 = e + k
  OBVIOUS
<1>2. PartOf(Tokens, line, e + 1, c, part)
  BY <1>1, PartIs
<1> HIDE DEF part
<1>3. part \in Seq(Tokens) /\ Len(part) = c - e /\ \A k \in 1..(c - e) : part[k] = line[e + k]
  BY <1>1, <1>2 DEF PartOf
<1> QED
  BY <1>3 DEF part

\* Where the rest of a line is, behind a beginning that has changed.
Moved(start, line, e) == start \o SubSeq(line, e + 1, Len(line))

LEMMA MovedIs ==
  ASSUME NEW line \in Seq(Tokens), NEW start \in Seq(Tokens), NEW e \in 0..Len(line)
  PROVE  /\ Moved(start, line, e) \in Seq(Tokens)
         /\ Len(Moved(start, line, e)) = Len(start) + (Len(line) - e)
         /\ \A k \in 1..Len(start) : Moved(start, line, e)[k] = start[k]
         /\ \A k \in 1..(Len(line) - e) : Moved(start, line, e)[Len(start) + k] = line[e + k]
<1> DEFINE rest == SubSeq(line, e + 1, Len(line))
           now  == start \o rest
<1>1. Len(line) \in e..Len(line)
  OBVIOUS
<1>2. /\ rest \in Seq(Tokens) /\ Len(rest) = Len(line) - e
      /\ \A k \in 1..(Len(line) - e) : rest[k] = line[e + k]
  BY <1>1, TailIs
<1> HIDE DEF rest
<1>3. Joined(Tokens, start, rest, now)
  BY <1>2, TwoAre
<1>4. Moved(start, line, e) = now
  BY DEF Moved, rest
<1> HIDE DEF now
<1>5. /\ now \in Seq(Tokens) /\ Len(now) = Len(start) + (Len(line) - e)
      /\ \A k \in 1..Len(start) : now[k] = start[k]
      /\ \A k \in 1..(Len(line) - e) : now[Len(start) + k] = line[e + k]
  BY <1>2, <1>3 DEF Joined
<1> QED
  BY <1>4, <1>5

\* The beginning of it, and the end of it.
LEMMA MovedBegins ==
  ASSUME NEW line \in Seq(Tokens), NEW start \in Seq(Tokens), NEW e \in 0..Len(line),
         NEW c \in e..Len(line)
  PROVE  SubSeq(Moved(start, line, e), 1, Len(start) + (c - e)) = start \o SubSeq(line, e + 1, c)
<1> DEFINE now  == Moved(start, line, e)
           p    == Len(start) + (c - e)
           part == SubSeq(line, e + 1, c)
           both == start \o part
           left == SubSeq(now, 1, p)
<1>1. /\ now \in Seq(Tokens) /\ Len(now) = Len(start) + (Len(line) - e)
      /\ \A k \in 1..Len(start) : now[k] = start[k]
      /\ \A k \in 1..(Len(line) - e) : now[Len(start) + k] = line[e + k]
  BY MovedIs
<1>2. /\ part \in Seq(Tokens) /\ Len(part) = c - e
      /\ \A k \in 1..(c - e) : part[k] = line[e + k]
  BY TailIs
<1> HIDE DEF now, part
<1>3. Joined(Tokens, start, part, both)
  BY <1>2, TwoAre
<1> HIDE DEF both
<1>4. /\ both \in Seq(Tokens) /\ Len(both) = p
      /\ \A k \in 1..Len(start) : both[k] = start[k]
      /\ \A k \in 1..(c - e) : both[Len(start) + k] = part[k]
  BY <1>2, <1>3 DEF Joined
<1>5. Len(start) \in Nat /\ Len(line) \in Nat /\ p \in 0..Len(now)
  BY <1>1
<1>6. PartOf(Tokens, now, 1, p, left)
  <2>1. 1 \in 1..(Len(now) + 1) /\ p \in (1 - 1)..Len(now)
    BY <1>5
  <2> HIDE DEF p
  <2> QED
    BY <1>1, <2>1, PartIs
<1> HIDE DEF left
<1>7. left \in Seq(Tokens) /\ Len(left) = p /\ \A k \in 1..p : left[k] = now[k]
  <2>1. p - 1 + 1 = p /\ \A k \in Int : 1 + k - 1 = k
    BY <1>5
  <2> HIDE DEF p
  <2> QED
    BY <1>6, <2>1 DEF PartOf
<1>8. ASSUME NEW k \in 1..p PROVE left[k] = both[k]
  <2>1. CASE k <= Len(start)
    <3>1. k \in 1..Len(start)
      BY <1>5, <2>1
    <3> QED
      BY <1>1, <1>4, <1>7, <3>1
  <2>2. CASE ~(k <= Len(start))
    <3>1. PICK j \in 1..(c - e) : Len(start) + j = k
      <4>1. k - Len(start) \in 1..(c - e) /\ Len(start) + (k - Len(start)) = k
        BY <1>5, <2>2
      <4> QED
        BY <4>1
    <3>2. j \in 1..(Len(line) - e)
      BY <1>5
    <3>3. now[k] = line[e + j] /\ both[k] = line[e + j]
      BY <1>1, <1>2, <1>4, <3>1, <3>2
    <3> QED
      BY <1>7, <3>3
  <2> QED
    BY <2>1, <2>2
<1>9. left = both
  <2> HIDE DEF p
  <2> QED
    BY <1>4, <1>7, <1>8, SeqEqual
<1> QED
  BY <1>9 DEF left, both, part, now

LEMMA MovedEnds ==
  ASSUME NEW line \in Seq(Tokens), NEW start \in Seq(Tokens), NEW e \in 0..Len(line),
         NEW c \in e..Len(line)
  PROVE  SubSeq(Moved(start, line, e), Len(start) + (c - e) + 1, Len(Moved(start, line, e)))
           = SubSeq(line, c + 1, Len(line))
<1> DEFINE now  == Moved(start, line, e)
           p    == Len(start) + (c - e)
           last == SubSeq(line, c + 1, Len(line))
           left == SubSeq(now, p + 1, Len(now))
<1>1. /\ now \in Seq(Tokens) /\ Len(now) = Len(start) + (Len(line) - e)
      /\ \A k \in 1..(Len(line) - e) : now[Len(start) + k] = line[e + k]
  BY MovedIs
<1>2. /\ last \in Seq(Tokens) /\ Len(last) = Len(line) - c
      /\ \A k \in 1..(Len(line) - c) : last[k] = line[c + k]
  <2>1. c \in 0..Len(line) /\ Len(line) \in c..Len(line)
    OBVIOUS
  <2> QED
    BY <2>1, TailIs
<1> HIDE DEF now, last
<1>3. Len(start) \in Nat /\ Len(line) \in Nat /\ p \in 0..Len(now) /\ Len(now) - p = Len(line) - c
  BY <1>1
<1>4. /\ left \in Seq(Tokens) /\ Len(left) = Len(now) - p
      /\ \A k \in 1..(Len(now) - p) : left[k] = now[p + k]
  <2>1. Len(now) \in p..Len(now)
    BY <1>3
  <2> HIDE DEF p
  <2> QED
    BY <1>1, <1>3, <2>1, TailIs
<1> HIDE DEF left
<1>5. ASSUME NEW k \in 1..(Len(line) - c) PROVE left[k] = last[k]
  <2>1. PICK j \in 1..(Len(line) - e) : Len(start) + j = p + k /\ e + j = c + k
    <3>1. (c - e) + k \in 1..(Len(line) - e) /\ Len(start) + ((c - e) + k) = p + k
          /\ e + ((c - e) + k) = c + k
      BY <1>3
    <3> QED
      BY <3>1
  <2>2. left[k] = now[p + k]
    BY <1>3, <1>4
  <2>3. now[p + k] = line[e + j]
    BY <1>1, <2>1
  <2> QED
    BY <1>2, <2>1, <2>2, <2>3
<1>6. left = last
  BY <1>2, <1>3, <1>4, <1>5, SeqEqual
<1> QED
  BY <1>6 DEF left, last, now

\* Putting something into a line behind a beginning that has changed.
LEMMA PutBehind ==
  ASSUME NEW line \in Seq(Tokens), NEW with \in Seq(Tokens), NEW start \in Seq(Tokens),
         NEW e \in Nat, NEW col \in Nat, NEW len \in Nat, e <= col, col + len <= Len(line)
  PROVE  Put(Moved(start, line, e), Len(Moved(start, line, e)) - Len(line) + col, len, with)
           = Moved(start \o SubSeq(line, e + 1, col) \o with, line, col + len)
<1> DEFINE now == Moved(start, line, e)
           p   == Len(start) + (col - e)
<1>1. /\ Len(line) \in Nat /\ Len(start) \in Nat /\ e \in 0..Len(line) /\ col \in e..Len(line)
      /\ col + len \in e..Len(line)
  OBVIOUS
<1>2. now \in Seq(Tokens) /\ Len(now) = Len(start) + (Len(line) - e)
  BY <1>1, MovedIs
<1>3. SubSeq(now, 1, p) = start \o SubSeq(line, e + 1, col)
  BY <1>1, MovedBegins
<1>4. SubSeq(now, p + len + 1, Len(now)) = SubSeq(line, col + len + 1, Len(line))
  <2> DEFINE c == col + len
  <2>1. c \in e..Len(line) /\ p + len = Len(start) + (c - e)
    BY <1>1
  <2> HIDE DEF c, now
  <2>2. SubSeq(now, Len(start) + (c - e) + 1, Len(now)) = SubSeq(line, c + 1, Len(line))
    BY <1>1, <2>1, MovedEnds DEF now
  <2> QED
    BY <2>1, <2>2 DEF c
<1> HIDE DEF now
<1>5. p \in 0..Len(now) /\ Len(now) - Len(line) + col = p
  BY <1>1, <1>2
<1> HIDE DEF p
<1>6. Put(now, p, len, with) = (SubSeq(now, 1, p) \o with) \o SubSeq(now, p + len + 1, Len(now))
  BY <1>2, <1>5, PutJoins
<1> QED
  BY <1>3, <1>4, <1>5, <1>6 DEF Moved, now

-----------------------------------------------------------------------------
(* A line in which what its rows mark stands replaced.                     *)

EndOf(rows, n)  == IF n = 0 THEN 0 ELSE rows[n].col + rows[n].len
Fits(line, row) == row.col \in Nat /\ row.len \in Nat /\ row.col + row.len <= Len(line)

\* g[n] is the line up to the end of what its n-th row marks, with what is put there.
Splices(line, rows, with, g) ==
  /\ g \in [0..Len(rows) -> Seq(Tokens)]
  /\ g[0] = <<>>
  /\ \A n \in 1..Len(rows) :
       g[n] = g[n - 1] \o SubSeq(line, EndOf(rows, n - 1) + 1, rows[n].col) \o with
  /\ Replaced(line, rows, with) = Moved(g[Len(rows)], line, EndOf(rows, Len(rows)))

LEMMA GapType ==
  ASSUME NEW line \in Seq(Tokens), NEW e \in Nat, NEW c \in 0..Len(line)
  PROVE  SubSeq(line, e + 1, c) \in Seq(Tokens)
<1>1. CASE e <= c
  <2>1. e \in 0..Len(line) /\ c \in e..Len(line)
    BY <1>1
  <2> QED
    BY <2>1, TailIs
<1>2. CASE ~(e <= c)
  <2>1. SubSeq(line, e + 1, c) = <<>>
    BY <1>2
  <2> QED
    BY <2>1
<1> QED
  BY <1>1, <1>2

LEMMA ReplacedIsLoop ==
  ASSUME NEW line \in Seq(Tokens), NEW rows \in Seq(Rows), NEW with \in Seq(Tokens),
         \A n \in 1..Len(rows) : Fits(line, rows[n])
  PROVE  \E g : Splices(line, rows, with, g)
<1> DEFINE N == Len(rows)
           A == Seq(Tokens)
           gap(n) == SubSeq(line, EndOf(rows, n - 1) + 1, rows[n].col)
           round == [n \in 1..N |-> [t \in A |-> (t \o gap(n)) \o with]]
           Loop(g) == g = [n \in 0..N |-> IF n = 0 THEN <<>> ELSE (g[n - 1] \o gap(n)) \o with]
           g == CHOOSE g : Loop(g)
<1>1. N \in Nat /\ <<>> \in A
  OBVIOUS
<1>2. ASSUME NEW n \in 1..N PROVE gap(n) \in A
  <2>1. /\ rows[n].col \in 0..Len(line)
        /\ n - 1 # 0 => n - 1 \in 1..N
    BY DEF Fits
  <2>2. EndOf(rows, n - 1) \in Nat
    BY <2>1 DEF EndOf, Fits
  <2> QED
    BY <2>1, <2>2, GapType
<1>3. Replaced(line, rows, with) = g[N] \o SubSeq(line, EndOf(rows, N) + 1, Len(line))
  BY DEF Replaced, EndOf
<1> HIDE DEF gap, N
<1>4. \A n \in 1..N, t \in A : (t \o gap(n)) \o with \in A
  <2> SUFFICES ASSUME NEW n \in 1..N, NEW t \in A PROVE (t \o gap(n)) \o with \in A
    OBVIOUS
  <2>1. gap(n) \in A
    BY <1>2
  <2> QED
    BY <2>1
<1>5. round \in Rounds(N, A) /\ \A n \in 1..N, t \in A : round[n][t] = (t \o gap(n)) \o with
  <2> HIDE DEF A
  <2> QED
    BY <1>4 DEF Rounds
<1> HIDE DEF A, round
<1>6. PICK f \in [0..N -> A] : f[0] = <<>> /\ \A n \in 1..N : f[n] = round[n][f[n - 1]]
  <2>1. HasValues(N, A, <<>>, round)
    BY <1>1, <1>5, LoopHasValues
  <2> QED
    BY <2>1 DEF HasValues
<1> HIDE DEF Loop
<1>10. /\ \A n \in 0..N : n # 0 => n \in 1..N /\ n - 1 \in 0..N
       /\ \A n \in 1..N, t \in A : round[n][t] = (t \o gap(n)) \o with
  <2>1. \A n \in 0..N : n # 0 => n \in 1..N /\ n - 1 \in 0..N
    BY <1>1
  <2>2. \A n \in 1..N, t \in A : round[n][t] = (t \o gap(n)) \o with
    BY <1>5
  <2> HIDE DEF gap, A, round
  <2> QED
    BY <2>1, <2>2
<1> DEFINE step(n) == (f[n - 1] \o gap(n)) \o with
<1>11. \A n \in 0..N : f[n] = IF n = 0 THEN <<>> ELSE step(n)
  <2> SUFFICES ASSUME NEW n \in 0..N PROVE f[n] = IF n = 0 THEN <<>> ELSE step(n)
    OBVIOUS
  <2>1. CASE n = 0
    BY <1>6, <2>1
  <2>2. CASE n # 0
    <3>1. f[n - 1] \in A /\ n \in 1..N
      BY <1>10, <2>2
    <3>2. f[n] = round[n][f[n - 1]] /\ round[n][f[n - 1]] = step(n)
      BY <1>6, <1>10, <3>1
    <3> QED
      BY <2>2, <3>2
  <2> QED
    BY <2>1, <2>2
<1> HIDE DEF step
<1>7. Loop(f)
  <2>1. f = [n \in 0..N |-> IF n = 0 THEN <<>> ELSE step(n)]
    BY <1>11
  <2> QED
    BY <2>1 DEF Loop, step
<1>8. Loop(g)
  BY <1>7
<1> USE DEF Loop
<1> HIDE DEF g
<1>9. /\ g = [n \in 0..N |-> g[n]] /\ g[0] = <<>>
      /\ \A n \in 1..N : g[n] = (g[n - 1] \o gap(n)) \o with
  <2>1. 0 \in 0..N /\ \A n \in 1..N : n \in 0..N /\ n # 0
    BY <1>1
  <2> QED
    BY <1>8, <2>1
<1>12. \A n \in 0..N : g[n] \in A
  <2>1. g[0] \in A /\ \A n \in 1..N : g[n - 1] \in A => g[n] = round[n][g[n - 1]]
    BY <1>1, <1>5, <1>9
  <2> QED
    BY <1>1, <1>5, <2>1, LoopIsTyped
<1>13. g \in [0..N -> A]
  BY <1>9, <1>12
<1> QED
  BY <1>3, <1>9, <1>13 DEF N, A, gap, Moved, Splices

LEMMA ReplacedNone ==
  ASSUME NEW line \in Seq(Tokens), NEW with \in Seq(Tokens)
  PROVE  Replaced(line, <<>>, with) = line
<1>1. <<>> \in Seq(Rows) /\ Len(<<>>) = 0 /\ \A n \in 1..0 : Fits(line, (<<>>)[n])
  OBVIOUS
<1>2. PICK g : Splices(line, <<>>, with, g)
  BY <1>1, ReplacedIsLoop
<1>3. Replaced(line, <<>>, with) = <<>> \o SubSeq(line, 1, Len(line))
  BY <1>1, <1>2 DEF Splices, Moved, EndOf
<1>4. SubSeq(line, 1, Len(line)) = line
  BY SubSeqFull
<1> QED
  BY <1>3, <1>4

\* Replacing what one more row marks, behind those before: in the line as it is
\* then, moved by as much as it is longer.
Replacing(line, rows, row, with, now) ==
  /\ now \in Seq(Tokens) /\ Len(now) - Len(line) + row.col \in Nat
  /\ Put(now, Len(now) - Len(line) + row.col, row.len, with) = Replaced(line, Append(rows, row), with)

LEMMA ReplacedAppend ==
  ASSUME NEW line \in Seq(Tokens), NEW with \in Seq(Tokens), NEW rows \in Seq(Rows),
         \A n \in 1..Len(rows) : Fits(line, rows[n]),
         NEW row \in Rows, Fits(line, row), EndOf(rows, Len(rows)) <= row.col
  PROVE  Replacing(line, rows, row, with, Replaced(line, rows, with))
<1> DEFINE N == Len(rows)
           more == Append(rows, row)
           e == EndOf(rows, N)
<1>1. /\ N \in Nat /\ more \in Seq(Rows) /\ Len(more) = N + 1 /\ more[N + 1] = row
      /\ \A n \in 1..N : more[n] = rows[n]
  OBVIOUS
<1> HIDE DEF more
<1>2. \A n \in 1..Len(more) : Fits(line, more[n])
  <2>1. \A n \in 1..(N + 1) : n \in 1..N \/ n = N + 1
    BY <1>1
  <2> QED
    BY <1>1, <2>1
<1>3. PICK f : Splices(line, rows, with, f)
  BY ReplacedIsLoop
<1>4. PICK g : Splices(line, more, with, g)
  BY <1>1, <1>2, ReplacedIsLoop
<1>5. /\ f[0] = <<>> /\ f[N] \in Seq(Tokens)
      /\ \A n \in 1..N : f[n] = (f[n - 1] \o SubSeq(line, EndOf(rows, n - 1) + 1, rows[n].col)) \o with
      /\ Replaced(line, rows, with) = Moved(f[N], line, e)
  <2>1. N \in 0..N
    BY <1>1
  <2> QED
    BY <1>3, <2>1 DEF Splices
<1>6. /\ g[0] = <<>>
      /\ \A n \in 1..(N + 1) : g[n] = (g[n - 1] \o SubSeq(line, EndOf(more, n - 1) + 1, more[n].col)) \o with
      /\ Replaced(line, more, with) = Moved(g[N + 1], line, EndOf(more, N + 1))
  BY <1>1, <1>4 DEF Splices
<1>7. \A n \in 0..N : EndOf(more, n) = EndOf(rows, n)
  <2>1. \A n \in 0..N : n = 0 \/ n \in 1..N
    BY <1>1
  <2> QED
    BY <1>1, <2>1 DEF EndOf
<1>8. EndOf(more, N + 1) = row.col + row.len
  <2>1. N + 1 # 0
    BY <1>1
  <2> QED
    BY <1>1, <2>1 DEF EndOf
<1> DEFINE same == {n \in 0..N : f[n] = g[n]}
<1>9. 0 \in same
  BY <1>1, <1>5, <1>6
<1>10. ASSUME NEW n \in 0..(N - 1), n \in same PROVE n + 1 \in same
  <2>1. n + 1 \in 1..N /\ n + 1 \in 1..(N + 1) /\ (n + 1) - 1 = n /\ n \in 0..N /\ n + 1 \in 0..N
    BY <1>1
  <2>2. f[n + 1] = (f[n] \o SubSeq(line, EndOf(rows, n) + 1, rows[n + 1].col)) \o with
    BY <1>5, <2>1
  <2>3. g[n + 1] = (g[n] \o SubSeq(line, EndOf(more, n) + 1, more[n + 1].col)) \o with
    BY <1>6, <2>1
  <2>4. f[n] = g[n] /\ EndOf(more, n) = EndOf(rows, n) /\ more[n + 1] = rows[n + 1]
    BY <1>1, <1>7, <1>10, <2>1
  <2>5. f[n + 1] = g[n + 1]
    BY <2>2, <2>3, <2>4
  <2> QED
    BY <2>1, <2>5
<1> HIDE DEF same
<1>11. 0..N \subseteq same
  BY <1>1, <1>9, <1>10, UpTo
<1>12. g[N] = f[N]
  BY <1>1, <1>11 DEF same
<1>13. g[N + 1] = (f[N] \o SubSeq(line, e + 1, row.col)) \o with
  <2>1. N + 1 \in 1..(N + 1) /\ (N + 1) - 1 = N /\ N \in 0..N
    BY <1>1
  <2>2. g[N + 1] = (g[N] \o SubSeq(line, EndOf(more, N) + 1, more[N + 1].col)) \o with
    BY <1>6, <2>1
  <2> QED
    BY <1>1, <1>7, <1>12, <2>1, <2>2
<1>14. e \in Nat /\ e <= row.col
  <2>1. N # 0 => N \in 1..N
    BY <1>1
  <2> QED
    BY <2>1 DEF EndOf, Fits
<1>15. row.col \in Nat /\ row.len \in Nat /\ row.col + row.len <= Len(line)
  BY DEF Fits
<1> DEFINE now == Replaced(line, rows, with)
<1>16. /\ now = Moved(f[N], line, e) /\ now \in Seq(Tokens)
       /\ Len(now) = Len(f[N]) + (Len(line) - e)
  <2>1. e \in 0..Len(line)
    <3>1. Len(line) \in Nat
      OBVIOUS
    <3> HIDE DEF e
    <3> QED
      BY <1>14, <1>15, <3>1
  <2> HIDE DEF e, N
  <2>2. /\ Moved(f[N], line, e) \in Seq(Tokens)
        /\ Len(Moved(f[N], line, e)) = Len(f[N]) + (Len(line) - e)
    BY <1>5, <2>1, MovedIs
  <2> QED
    BY <1>5, <2>2
<1>19. Len(now) - Len(line) + row.col \in Nat
  <2>1. Len(f[N]) \in Nat /\ Len(line) \in Nat
    BY <1>5
  <2> HIDE DEF now, e
  <2> QED
    BY <1>14, <1>15, <1>16, <2>1
<1>17. Put(Moved(f[N], line, e), Len(Moved(f[N], line, e)) - Len(line) + row.col, row.len, with)
         = Moved((f[N] \o SubSeq(line, e + 1, row.col)) \o with, line, row.col + row.len)
  <2> HIDE DEF e, N
  <2> DEFINE c == row.col
             len == row.len
             start == f[N]
  <2>1. start \in Seq(Tokens) /\ e \in Nat /\ c \in Nat /\ len \in Nat /\ e <= c /\ c + len <= Len(line)
    BY <1>5, <1>14, <1>15
  <2> HIDE DEF c, len, start
  <2>2. Put(Moved(start, line, e), Len(Moved(start, line, e)) - Len(line) + c, len, with)
          = Moved((start \o SubSeq(line, e + 1, c)) \o with, line, c + len)
    BY <2>1, PutBehind
  <2> QED
    BY <2>2 DEF c, len, start
<1> HIDE DEF now, e
<1>18. Put(now, Len(now) - Len(line) + row.col, row.len, with) = Replaced(line, more, with)
  BY <1>6, <1>8, <1>13, <1>16, <1>17
<1> QED
  BY <1>16, <1>18, <1>19 DEF now, more, Replacing

-----------------------------------------------------------------------------
(* What ReplaceDocument::replace does to rows that are in their turn.      *)

\* Row p is in front of row q; on one line they do not overlap, and are of one text.
Behind(p, q) ==
  p.line < q.line \/ (p.line = q.line /\ p.col + p.len <= q.col /\ p.ver = q.ver)
InLine(rows) ==
  /\ \A i \in DOMAIN rows : rows[i].line >= 1
  /\ \A i, j \in DOMAIN rows : i < j => Behind(rows[i], rows[j])

LEMMA RowFields ==
  ASSUME NEW row \in Rows
  PROVE  /\ row.line \in Int /\ row.col \in Int /\ row.len \in Nat /\ row.ver \in Nat /\ row.run \in Nat
         /\ row.source \in {"file", "usages", "references"}
         /\ row.marks \in Seq(Tokens \cup Sought)
BY DEF Rows

\* What a row of an item becomes.
Becomes(item, with, row) ==
  /\ row.source = item.source /\ row.run = item.run /\ row.ver = item.ver /\ row.line = item.line
  /\ row.len = Len(with) /\ row.marks = with

LEMMA DoingFields ==
  ASSUME NEW done \in Doing
  PROVE  /\ done.block \in Int /\ done.offset \in Int
         /\ done.lines \in Seq(Seq(Tokens)) /\ done.rows \in Seq(Rows)
BY DEF Doing

\* Where the next item is, in the text as it is then, and what a round of the
\* loop does to it.
ColumnOf(done, item) == (IF item.line > done.block THEN 0 ELSE done.offset) + item.col
ItemDone(done, item, with, col, d) ==
  /\ d.block = item.line
  /\ d.offset = col - item.col + Len(with) - item.len
  /\ d.lines = [done.lines EXCEPT ![item.line] = Put(done.lines[item.line], col, item.len, with)]
  /\ \E row : d.rows = Append(done.rows, row) /\ Becomes(item, with, row) /\ row.col = col

LEMMA ReplaceItemIs ==
  ASSUME NEW done \in Doing, NEW item \in Rows, NEW with \in Seq(Tokens), item.line >= done.block
  PROVE  ItemDone(done, item, with, ColumnOf(done, item), ReplaceItem(done, item, with))
<1> DEFINE block == IF item.line > done.block THEN item.line ELSE done.block
           offset == IF item.line > done.block THEN 0 ELSE done.offset
           col == ColumnOf(done, item)
           row == [item EXCEPT !.col = col, !.len = Len(with), !.marks = with]
           d == ReplaceItem(done, item, with)
<1>1. /\ done.block \in Int /\ done.offset \in Int /\ item.line \in Int /\ item.col \in Int
      /\ item.len \in Nat /\ Len(with) \in Nat
  BY RowFields, DoingFields
<1>2. block = item.line /\ offset \in Int /\ col = offset + item.col
  BY <1>1 DEF ColumnOf
<1>3. d =
        [lines  |-> [done.lines EXCEPT ![block] = Put(done.lines[block], offset + item.col, item.len, with)],
         block  |-> block, offset |-> offset + Len(with) - item.len,
         rows   |-> Append(done.rows, [item EXCEPT !.col = offset + item.col, !.len = Len(with), !.marks = with])]
  BY DEF ReplaceItem
<1> HIDE DEF block, offset, col, d
<1>4. Becomes(item, with, row) /\ row.col = col
  BY DEF Rows, Becomes
<1>5. offset + Len(with) - item.len = col - item.col + Len(with) - item.len
  <2>1. offset = col - item.col
    BY <1>1, <1>2
  <2> QED
    BY <2>1
<1>6. d = [lines  |-> [done.lines EXCEPT ![item.line] = Put(done.lines[item.line], col, item.len, with)],
           block  |-> item.line, offset |-> offset + Len(with) - item.len,
           rows   |-> Append(done.rows, row)]
  BY <1>2, <1>3
<1> HIDE DEF row
<1>7. /\ d.block = item.line /\ d.offset = offset + Len(with) - item.len
      /\ d.lines = [done.lines EXCEPT ![item.line] = Put(done.lines[item.line], col, item.len, with)]
      /\ d.rows = Append(done.rows, row)
  BY <1>6
<1>8. ItemDone(done, item, with, col, d)
  BY <1>4, <1>5, <1>7 DEF ItemDone
<1> QED
  BY <1>8 DEF d, col

\* What the first n items have done to their rows.
RowsDone(items, with, n, d) ==
  /\ d \in Doing /\ Len(d.rows) = n
  /\ d.block = IF n = 0 THEN 1 ELSE items[n].line
  /\ \A i \in 1..n : Becomes(items[i], with, d.rows[i])
  /\ \A i \in 1..n : \/ d.rows[i].line < d.block
                     \/ /\ d.rows[i].line = d.block
                        /\ d.rows[i].col + Len(with) <= d.offset + EndOf(items, n)
  /\ \A i, j \in 1..n : i < j => Behind(d.rows[i], d.rows[j])

LEMMA RowsDoneStep ==
  ASSUME NEW items \in Seq(Rows), NEW with \in Seq(Tokens), InLine(items),
         NEW n \in 0..(Len(items) - 1), NEW d, RowsDone(items, with, n, d)
  PROVE  /\ items[n + 1].line >= d.block
         /\ RowsDone(items, with, n + 1, ReplaceItem(d, items[n + 1], with))
<1> DEFINE item == items[n + 1]
           col == ColumnOf(d, item)
           more == ReplaceItem(d, item, with)
<1>1. /\ n \in Nat /\ Len(items) \in Nat /\ n + 1 \in DOMAIN items /\ n + 1 # 0 /\ item \in Rows
      /\ \A i \in 1..n : i \in DOMAIN items /\ items[i] \in Rows /\ i < n + 1
  OBVIOUS
<1>2. d \in Doing /\ Len(d.rows) = n
  BY DEF RowsDone
<1>3. /\ d.block \in Int /\ d.offset \in Int /\ item.line \in Int /\ item.col \in Int
      /\ item.len \in Nat /\ Len(with) \in Nat /\ d.rows \in Seq(Rows)
  <2> HIDE DEF item
  <2> QED
    BY <1>1, <1>2, RowFields, DoingFields
<1>4. n = 0 \/ n \in 1..n
  BY <1>1
<1>5. \A i \in 1..n : Behind(items[i], item)
  BY <1>1 DEF InLine
<1>6. item.line >= d.block
  <2>1. CASE n = 0
    BY <1>1, <2>1 DEF InLine, RowsDone
  <2>2. CASE n \in 1..n
    <3>1. d.block = items[n].line /\ items[n].line \in Int
      <4>1. items[n] \in Rows /\ n # 0
        BY <1>1, <2>2
      <4> QED
        BY <4>1, RowFields DEF RowsDone
    <3>2. Behind(items[n], item)
      BY <1>5, <2>2
    <3> QED
      BY <1>3, <3>1, <3>2 DEF Behind
  <2> QED
    BY <1>4, <2>1, <2>2
<1> HIDE DEF item, more
<1>7. ItemDone(d, item, with, col, more)
  BY <1>1, <1>2, <1>6, ReplaceItemIs DEF more
<1>20. /\ more.block = item.line
       /\ more.offset = col - item.col + Len(with) - item.len
       /\ \E row : more.rows = Append(d.rows, row) /\ Becomes(item, with, row) /\ row.col = col
  BY <1>7 DEF ItemDone
<1>21. PICK row : more.rows = Append(d.rows, row) /\ Becomes(item, with, row) /\ row.col = col
  BY <1>20
<1>8. more \in Doing
  BY <1>1, <1>2, ReplaceItemType DEF more
<1>9. col \in Int
  BY <1>3 DEF ColumnOf
<1>10. /\ Len(more.rows) = n + 1 /\ more.rows[n + 1] = row
       /\ \A i \in 1..n : more.rows[i] = d.rows[i]
  BY <1>2, <1>3, <1>21
<1>11. Becomes(item, with, row) /\ row.line = item.line /\ row.col = col /\ row.len = Len(with)
       /\ row.ver = item.ver
  BY <1>21 DEF Becomes
<1>12. /\ EndOf(items, n + 1) = item.col + item.len
       /\ more.offset + EndOf(items, n + 1) = col + Len(with)
  <2>1. EndOf(items, n + 1) = item.col + item.len
    BY <1>1 DEF EndOf, item
  <2> HIDE DEF col
  <2> QED
    BY <1>3, <1>20, <1>9, <2>1
<1>13. ASSUME NEW i \in 1..n
       PROVE  d.rows[i].line < item.line
              \/ (/\ d.rows[i].line = item.line /\ d.rows[i].col + Len(with) <= col
                  /\ d.rows[i].ver = item.ver)
  <2>1. n \in 1..n
    BY <1>1
  <2>2. d.rows[i] \in Rows
    BY <1>2, <1>3
  <2>3. d.rows[i].line \in Int /\ d.rows[i].col \in Int
    BY <2>2 DEF Rows
  <2>4. d.rows[i].line < d.block
        \/ (d.rows[i].line = d.block /\ d.rows[i].col + Len(with) <= d.offset + EndOf(items, n))
    BY DEF RowsDone
  <2>5. CASE d.rows[i].line < item.line
    BY <2>5
  <2>6. CASE ~(d.rows[i].line < item.line)
    <3>1. d.rows[i].line = d.block /\ d.block = item.line
      BY <1>3, <1>6, <2>3, <2>4, <2>6, SMTT(30)
    <3>2. d.rows[i].col + Len(with) <= d.offset + EndOf(items, n) /\ col = d.offset + item.col
      BY <1>3, <2>4, <3>1 DEF ColumnOf
    <3>3. d.block = items[n].line /\ EndOf(items, n) = items[n].col + items[n].len
      BY <1>1, <2>1 DEF RowsDone, EndOf
    <3>4. Behind(items[n], item) /\ items[n] \in Rows
      BY <1>1, <1>5, <2>1
    <3>5. items[n].col + items[n].len <= item.col /\ items[n].col + items[n].len \in Int
      <4>1. items[n].col \in Int /\ items[n].len \in Nat /\ items[n].line = item.line
        BY <3>1, <3>3, <3>4, RowFields
      <4> QED
        BY <1>3, <3>4, <4>1 DEF Behind
    <3>6. d.rows[i].col + Len(with) <= col
      <4> DEFINE c == d.rows[i].col
                 k == items[n].col + items[n].len
      <4>1. c \in Int /\ k \in Int /\ c + Len(with) <= d.offset + k /\ k <= item.col
        BY <2>3, <3>2, <3>3, <3>5
      <4> HIDE DEF c, k
      <4>2. c + Len(with) <= d.offset + item.col
        BY <1>3, <4>1
      <4> QED
        BY <3>2, <4>2 DEF c
    <3>7. d.rows[i].ver = items[i].ver /\ items[i].line = item.line /\ Behind(items[i], item)
      BY <1>5, <3>1 DEF RowsDone, Becomes
    <3>8. d.rows[i].ver = item.ver
      BY <1>3, <3>7 DEF Behind
    <3> QED
      BY <3>1, <3>6, <3>8
  <2> QED
    BY <2>5, <2>6
<1>14. \A i \in 1..(n + 1) : i \in 1..n \/ i = n + 1
  BY <1>1
<1>15. \A i \in 1..(n + 1) : Becomes(items[i], with, more.rows[i])
  BY <1>10, <1>11, <1>14 DEF RowsDone, item
<1> HIDE DEF col
<1>16. \A i \in 1..(n + 1) : \/ more.rows[i].line < more.block
                             \/ /\ more.rows[i].line = more.block
                                /\ more.rows[i].col + Len(with) <= more.offset + EndOf(items, n + 1)
  <2>1. ASSUME NEW i \in 1..n
        PROVE  \/ more.rows[i].line < more.block
               \/ /\ more.rows[i].line = more.block
                  /\ more.rows[i].col + Len(with) <= more.offset + EndOf(items, n + 1)
    <3>1. more.rows[i] = d.rows[i] /\ more.rows[i].col \in Int
      <4>1. d.rows[i] \in Rows
        BY <1>2, <1>3
      <4> QED
        BY <1>10, <4>1 DEF Rows
    <3>2. more.rows[i].col + Len(with) <= col => more.rows[i].col + Len(with) <= col + Len(with)
      BY <1>3, <1>9, <3>1, SMTT(30)
    <3> QED
      BY <1>20, <1>12, <1>13, <3>1, <3>2
  <2>2. more.rows[n + 1].line = more.block /\ more.rows[n + 1].col + Len(with) <= more.offset + EndOf(items, n + 1)
    BY <1>3, <1>20, <1>9, <1>10, <1>11, <1>12
  <2> QED
    BY <1>14, <2>1, <2>2
<1>17. \A i, j \in 1..(n + 1) : i < j => Behind(more.rows[i], more.rows[j])
  <2> SUFFICES ASSUME NEW i \in 1..(n + 1), NEW j \in 1..(n + 1), i < j
               PROVE  Behind(more.rows[i], more.rows[j])
    OBVIOUS
  <2>1. i \in 1..n
    BY <1>1
  <2>2. CASE j \in 1..n
    BY <1>10, <2>1, <2>2 DEF RowsDone
  <2>3. CASE j = n + 1
    <3>1. more.rows[i] = d.rows[i] /\ more.rows[j] = row /\ d.rows[i].len = Len(with)
      BY <1>10, <2>1, <2>3 DEF RowsDone, Becomes
    <3> QED
      BY <1>11, <1>13, <2>1, <3>1 DEF Behind
  <2> QED
    BY <1>14, <2>2, <2>3
<1>18. more.block = IF n + 1 = 0 THEN 1 ELSE items[n + 1].line
  BY <1>1, <1>20 DEF item
<1>19. RowsDone(items, with, n + 1, more)
  BY <1>8, <1>10, <1>15, <1>16, <1>17, <1>18 DEF RowsDone
<1> QED
  BY <1>6, <1>19 DEF item, more

\* Line l has what is put there at a column; and what the first n items have done
\* to it, s[n] being those of them that are on it.
Has(line, col, with) ==
  /\ col \in Nat /\ col + Len(with) <= Len(line)
  /\ \A k \in 1..Len(with) : line[col + k] = with[k]
OnLine(items, l) == {i \in DOMAIN items : items[i].line = l}
LineDone(items, with, line, l, s, n, d) ==
  /\ l \in DOMAIN d.lines /\ d.lines[l] = Replaced(line, s[n], with)
  /\ d.block < l => s[n] = <<>>
  /\ d.block = l => d.offset = Len(d.lines[l]) - Len(line)
  /\ \A k \in 1..Len(s[n]) : \E m \in 1..n : items[m].line = l /\ s[n][k] = items[m]
  /\ \A i \in 1..n : d.rows[i].line = l => Has(d.lines[l], d.rows[i].col, with)

PutsIn(line, col, len, with, put) ==
  /\ put \in Seq(Tokens) /\ Len(put) = Len(line) - len + Len(with)
  /\ Has(put, col, with)
  /\ \A c \in Nat : c + Len(with) <= col /\ Has(line, c, with) => Has(put, c, with)

LEMMA PutHas ==
  ASSUME NEW line \in Seq(Tokens), NEW with \in Seq(Tokens), NEW col \in Nat, NEW len \in Nat,
         col + len <= Len(line)
  PROVE  PutsIn(line, col, len, with, Put(line, col, len, with))
<1> DEFINE put == Put(line, col, len, with)
<1>1. PutInto(line, col, len, with, put)
  BY PutIs
<1> HIDE DEF put
<1>2. /\ put \in Seq(Tokens) /\ Len(put) = Len(line) - len + Len(with)
      /\ \A k \in 1..col : put[k] = line[k]
      /\ \A k \in 1..Len(with) : put[col + k] = with[k]
  BY <1>1 DEF PutInto
<1>3. Len(line) \in Nat /\ Len(with) \in Nat
  OBVIOUS
<1>4. Has(put, col, with)
  <2>1. col + Len(with) <= Len(put)
    BY <1>2, <1>3
  <2> QED
    BY <1>2, <2>1 DEF Has
<1>5. ASSUME NEW c \in Nat, c + Len(with) <= col, Has(line, c, with) PROVE Has(put, c, with)
  <2>1. c + Len(with) <= Len(put)
    BY <1>2, <1>3, <1>5
  <2>2. ASSUME NEW k \in 1..Len(with) PROVE put[c + k] = with[k]
    <3>1. c + k \in 1..col
      BY <1>3, <1>5
    <3> QED
      BY <1>2, <1>5, <3>1 DEF Has
  <2> QED
    BY <2>1, <2>2 DEF Has
<1> QED
  BY <1>2, <1>4, <1>5 DEF put, PutsIn

LEMMA LineDoneStep ==
  ASSUME NEW items \in Seq(Rows), NEW with \in Seq(Tokens), InLine(items),
         NEW n \in 0..(Len(items) - 1), NEW d, RowsDone(items, with, n, d),
         NEW line \in Seq(Tokens), NEW l \in Int, NEW s, Selects(Rows, items, OnLine(items, l), s),
         \A i \in 1..Len(items) : items[i].line = l => Fits(line, items[i]),
         LineDone(items, with, line, l, s, n, d)
  PROVE  LineDone(items, with, line, l, s, n + 1, ReplaceItem(d, items[n + 1], with))
<1> DEFINE item == items[n + 1]
           col == ColumnOf(d, item)
           more == ReplaceItem(d, item, with)
           now == d.lines[l]
<1>1. /\ n \in Nat /\ Len(items) \in Nat /\ n + 1 \in DOMAIN items /\ n + 1 \in 1..Len(items)
      /\ item \in Rows /\ (n + 1) - 1 = n /\ n \in 0..Len(items)
      /\ \A i \in 1..n : i \in DOMAIN items /\ i \in 1..Len(items) /\ items[i] \in Rows /\ i < n + 1
      /\ \A i \in 1..(n + 1) : i \in 1..n \/ i = n + 1
      /\ \A i \in 1..n : i \in 1..(n + 1)
  OBVIOUS
<1>2. item.line >= d.block /\ RowsDone(items, with, n + 1, more)
  BY RowsDoneStep
<1>3. d \in Doing /\ Len(d.rows) = n /\ item \in Rows
  BY <1>1 DEF RowsDone
<1>4. /\ d.block \in Int /\ d.offset \in Int /\ item.line \in Int /\ item.col \in Int
      /\ item.len \in Nat /\ Len(with) \in Nat /\ d.rows \in Seq(Rows) /\ d.lines \in Seq(Seq(Tokens))
  <2> HIDE DEF item
  <2> QED
    BY <1>3, RowFields, DoingFields
<1>5. ItemDone(d, item, with, col, more)
  <2> HIDE DEF item
  <2> QED
    BY <1>2, <1>3, ReplaceItemIs
<1>6. /\ s[n] \in Seq(Rows)
      /\ s[n + 1] = IF n + 1 \in OnLine(items, l) THEN Append(s[n], items[n + 1]) ELSE s[n]
  BY <1>1 DEF Selects
<1>7. n + 1 \in OnLine(items, l) <=> item.line = l
  BY <1>1 DEF OnLine
<1>8. /\ l \in DOMAIN d.lines /\ now = Replaced(line, s[n], with)
      /\ d.block < l => s[n] = <<>>
      /\ d.block = l => d.offset = Len(now) - Len(line)
      /\ \A k \in 1..Len(s[n]) : \E m \in 1..n : items[m].line = l /\ s[n][k] = items[m]
      /\ \A i \in 1..n : d.rows[i].line = l => Has(now, d.rows[i].col, with)
  BY DEF LineDone
<1> HIDE DEF more, col
<1>9. /\ more.block = item.line
      /\ more.offset = col - item.col + Len(with) - item.len
      /\ more.lines = [d.lines EXCEPT ![item.line] = Put(d.lines[item.line], col, item.len, with)]
  BY <1>5 DEF ItemDone
<1>10. PICK row : more.rows = Append(d.rows, row) /\ Becomes(item, with, row) /\ row.col = col
  BY <1>5 DEF ItemDone
<1>11. /\ more.rows[n + 1] = row /\ \A i \in 1..n : more.rows[i] = d.rows[i]
  BY <1>3, <1>4, <1>10, SMTT(30)
<1>12. row.line = item.line /\ row.col = col /\ row.len = Len(with)
  BY <1>10 DEF Becomes
<1>13. l \in DOMAIN more.lines
  BY <1>8, <1>9
<1> HIDE DEF item, now
<1>14. CASE item.line # l
  <2>1. more.lines[l] = now /\ s[n + 1] = s[n]
    BY <1>6, <1>7, <1>8, <1>9, <1>14 DEF now
  <2>2. more.block < l => s[n + 1] = <<>>
    BY <1>2, <1>4, <1>8, <1>9, <2>1, SMTT(30)
  <2>3. more.block # l
    BY <1>9, <1>14
  <2>4. \A k \in 1..Len(s[n + 1]) : \E m \in 1..(n + 1) : items[m].line = l /\ s[n + 1][k] = items[m]
    BY <1>1, <1>8, <2>1
  <2>5. ASSUME NEW i \in 1..(n + 1), more.rows[i].line = l PROVE Has(more.lines[l], more.rows[i].col, with)
    <3>1. i \in 1..n
      BY <1>1, <1>11, <1>12, <1>14, <2>5
    <3> QED
      BY <1>8, <1>11, <2>1, <2>5, <3>1
  <2> QED
    BY <1>8, <1>13, <2>1, <2>2, <2>3, <2>4, <2>5 DEF LineDone, more, item
<1>15. CASE item.line = l
  <2>1. Fits(line, item) /\ s[n + 1] = Append(s[n], item)
    BY <1>1, <1>6, <1>7, <1>15 DEF item
  <2>2. \A k \in 1..Len(s[n]) : Fits(line, s[n][k])
    BY <1>1, <1>8
  <2>3. EndOf(s[n], Len(s[n])) <= item.col
    <3>1. CASE Len(s[n]) = 0
      BY <2>1, <3>1 DEF EndOf, Fits
    <3>2. CASE Len(s[n]) # 0
      <4>1. Len(s[n]) \in 1..Len(s[n])
        BY <1>6, <3>2
      <4>2. PICK m \in 1..n : items[m].line = l /\ s[n][Len(s[n])] = items[m]
        BY <1>8, <4>1
      <4>3. Behind(items[m], item)
        BY <1>1 DEF InLine, item
      <4>4. items[m].col + items[m].len <= item.col
        BY <1>15, <4>2, <4>3 DEF Behind
      <4> QED
        BY <3>2, <4>2, <4>4 DEF EndOf
    <3> QED
      BY <3>1, <3>2
  <2> DEFINE c == Len(now) - Len(line) + item.col
  <2>4. now \in Seq(Tokens) /\ c \in Nat /\ Put(now, c, item.len, with) = Replaced(line, s[n + 1], with)
    <3>1. Replacing(line, s[n], item, with, now)
      <4> DEFINE rows == s[n]
      <4> HIDE DEF rows
      <4>1. Replacing(line, rows, item, with, Replaced(line, rows, with))
        BY <1>3, <1>6, <2>1, <2>2, <2>3, ReplacedAppend DEF rows
      <4> QED
        BY <1>8, <4>1 DEF rows
    <3> QED
      BY <2>1, <3>1 DEF Replacing
  <2>5. Len(now) \in Nat /\ Len(line) \in Nat
    BY <2>4
  <2>6. col = c
    <3>1. CASE item.line > d.block
      <4>1. s[n] = <<>>
        BY <1>8, <1>15, <3>1
      <4>2. now = line
        BY <1>8, <4>1, ReplacedNone
      <4> QED
        BY <1>4, <2>5, <3>1, <4>2 DEF col, ColumnOf
    <3>2. CASE ~(item.line > d.block)
      <4>1. d.block = l
        BY <1>2, <1>4, <1>15, <3>2
      <4> QED
        BY <1>8, <3>2, <4>1 DEF col, ColumnOf
    <3> QED
      BY <3>1, <3>2
  <2>7. c + item.len <= Len(now)
    BY <1>4, <2>1, <2>5, SMTT(30) DEF Fits
  <2>8. more.lines[l] = Put(now, c, item.len, with)
    BY <1>8, <1>9, <1>15, <2>6 DEF now
  <2> HIDE DEF c
  <2>9. /\ Len(more.lines[l]) = Len(now) - item.len + Len(with)
        /\ Has(more.lines[l], c, with)
        /\ \A o \in Nat : o + Len(with) <= c /\ Has(now, o, with) => Has(more.lines[l], o, with)
    <3>1. PutsIn(now, c, item.len, with, Put(now, c, item.len, with))
      BY <1>4, <2>4, <2>7, PutHas
    <3> QED
      BY <2>8, <3>1 DEF PutsIn
  <2>10. more.offset = Len(more.lines[l]) - Len(line)
    <3>1. more.offset = c - item.col + Len(with) - item.len
      BY <1>9, <2>6
    <3>2. c - item.col = Len(now) - Len(line)
      BY <1>4, <2>5 DEF c
    <3> DEFINE size == Len(more.lines[l])
    <3>3. size = Len(now) - item.len + Len(with)
      BY <2>9
    <3> HIDE DEF size
    <3>4. more.offset = size - Len(line)
      BY <1>4, <2>5, <3>1, <3>2, <3>3
    <3> QED
      BY <3>4 DEF size
  <2>11. \A k \in 1..Len(s[n + 1]) : \E m \in 1..(n + 1) : items[m].line = l /\ s[n + 1][k] = items[m]
    <3> SUFFICES ASSUME NEW k \in 1..Len(s[n + 1])
                 PROVE  \E m \in 1..(n + 1) : items[m].line = l /\ s[n + 1][k] = items[m]
      OBVIOUS
    <3>1. CASE k \in 1..Len(s[n])
      <4>1. s[n + 1][k] = s[n][k]
        BY <1>6, <2>1, <3>1
      <4> QED
        BY <1>1, <1>8, <3>1, <4>1
    <3>2. CASE k \notin 1..Len(s[n])
      <4> DEFINE rows == s[n]
      <4>1. rows \in Seq(Rows) /\ s[n + 1] = Append(rows, item) /\ k \in 1..Len(s[n + 1]) /\ k \notin 1..Len(rows)
        BY <1>6, <2>1, <3>2
      <4> HIDE DEF rows
      <4>2. k = Len(rows) + 1
        BY <4>1
      <4>3. s[n + 1][k] = item /\ n + 1 \in 1..(n + 1)
        BY <1>1, <4>1, <4>2
      <4> QED
        BY <1>15, <4>3 DEF item
    <3> QED
      BY <3>1, <3>2
  <2>12. ASSUME NEW i \in 1..(n + 1), more.rows[i].line = l PROVE Has(more.lines[l], more.rows[i].col, with)
    <3>1. CASE i = n + 1
      BY <1>11, <1>12, <2>6, <2>9, <3>1
    <3>2. CASE i \in 1..n
      <4>1. Has(now, d.rows[i].col, with) /\ d.rows[i].col \in Nat
        BY <1>8, <1>11, <2>12, <3>2 DEF Has
      <4>2. n + 1 \in 1..(n + 1) /\ i \in 1..(n + 1) /\ i < n + 1
        BY <1>1, <3>2
      <4>3. Behind(more.rows[i], more.rows[n + 1]) /\ more.rows[i].len = Len(with)
        BY <1>2, <4>2 DEF RowsDone, Becomes
      <4>4. d.rows[i].col + Len(with) <= c
        BY <1>4, <1>11, <1>12, <1>15, <2>6, <2>12, <3>2, <4>3, SMTT(30) DEF Behind
      <4> QED
        BY <1>11, <2>9, <3>2, <4>1, <4>4
    <3> QED
      BY <1>1, <3>1, <3>2
  <2>13. ~(more.block < l)
    BY <1>4, <1>9, <1>15
  <2> QED
    BY <1>13, <2>4, <2>8, <2>10, <2>11, <2>12, <2>13 DEF LineDone, more, item
<1> QED
  BY <1>14, <1>15

\* What comes of it: for the rows, and for a line of which the rows fit.
LEMMA ReplacedRows ==
  ASSUME NEW lines \in Seq(Seq(Tokens)), NEW items \in Seq(Rows), NEW with \in Seq(Tokens),
         InLine(items)
  PROVE  /\ RowsDone(items, with, Len(items), Replace(lines, items, with))
         /\ Len(Replace(lines, items, with).lines) = Len(lines)
<1> DEFINE N == Len(items)
<1>1. PICK f : ReplaceLoop(lines, items, with, f)
  BY ReplaceIsLoop
<1>2. /\ N \in Nat /\ f \in [0..N -> Doing] /\ f[0] = Undone(lines)
      /\ \A n \in 1..N : f[n] = ReplaceItem(f[n - 1], items[n], with)
      /\ Replace(lines, items, with) = f[N]
  BY <1>1 DEF ReplaceLoop
<1> DEFINE holds == {n \in 0..N : RowsDone(items, with, n, f[n]) /\ Len(f[n].lines) = Len(lines)}
<1>3. 0 \in holds
  <2>1. /\ f[0] \in Doing /\ f[0].block = 1 /\ f[0].rows = <<>> /\ Len(<<>>) = 0
        /\ f[0].lines = lines
    <3>1. 0 \in 0..N /\ Len(<<>>) = 0
      BY <1>2
    <3> HIDE DEF N
    <3>2. f[0] \in Doing
      BY <1>2, <3>1
    <3> QED
      BY <1>2, <3>1, <3>2 DEF Undone
  <2>2. 1..0 = {} /\ 0 \in 0..N
    BY <1>2
  <2>3. RowsDone(items, with, 0, f[0])
    BY <2>1, <2>2 DEF RowsDone
  <2> QED
    BY <2>1, <2>2, <2>3
<1>4. ASSUME NEW n \in 0..(N - 1), n \in holds PROVE n + 1 \in holds
  <2> DEFINE d == f[n]
             item == items[n + 1]
  <2>1. /\ n + 1 \in 1..N /\ n + 1 \in 0..N /\ (n + 1) - 1 = n /\ n \in 0..(Len(items) - 1)
        /\ item \in Rows /\ d \in Doing
    <3>1. n + 1 \in 1..N /\ n + 1 \in 0..N /\ (n + 1) - 1 = n /\ n \in 0..N /\ n + 1 \in DOMAIN items
      BY <1>2
    <3>2. item \in Rows
      BY <3>1
    <3> HIDE DEF N
    <3>3. d \in Doing
      BY <1>2, <3>1
    <3> QED
      BY <3>1, <3>2, <3>3 DEF N
  <2>2. f[n + 1] = ReplaceItem(d, item, with)
    BY <1>2, <2>1
  <2>3. RowsDone(items, with, n, d) /\ Len(d.lines) = Len(lines)
    BY <1>4
  <2> HIDE DEF d
  <2>4. RowsDone(items, with, n + 1, ReplaceItem(d, items[n + 1], with))
    BY <2>1, <2>3, RowsDoneStep
  <2> HIDE DEF item
  <2>5. Len(ReplaceItem(d, item, with).lines) = Len(d.lines)
    BY <2>1, ReplaceItemType
  <2> QED
    BY <2>1, <2>2, <2>3, <2>4, <2>5 DEF item
<1> HIDE DEF holds
<1>5. N \in holds
  <2> HIDE DEF N
  <2>1. 0..N \subseteq holds
    BY <1>2, <1>3, <1>4, UpTo
  <2> QED
    BY <1>2, <2>1
<1> QED
  BY <1>2, <1>5 DEF holds

Replacement(lines, items, with, l, d) ==
  /\ d.lines[l] = Replaced(lines[l], RowsOf(items, l), with)
  /\ \A i \in DOMAIN items : d.rows[i].line = l => Has(d.lines[l], d.rows[i].col, with)

LEMMA ReplacedLine ==
  ASSUME NEW lines \in Seq(Seq(Tokens)), NEW items \in Seq(Rows), NEW with \in Seq(Tokens),
         InLine(items), NEW l \in DOMAIN lines,
         \A i \in 1..Len(items) : items[i].line = l => Fits(lines[l], items[i])
  PROVE  Replacement(lines, items, with, l, Replace(lines, items, with))
<1> DEFINE N == Len(items)
           line == lines[l]
<1>1. PICK f : ReplaceLoop(lines, items, with, f)
  BY ReplaceIsLoop
<1>2. /\ N \in Nat /\ f \in [0..N -> Doing] /\ f[0] = Undone(lines)
      /\ \A n \in 1..N : f[n] = ReplaceItem(f[n - 1], items[n], with)
      /\ Replace(lines, items, with) = f[N]
  BY <1>1 DEF ReplaceLoop
<1>3. PICK s : Selects(Rows, items, OnLine(items, l), s)
  BY SelectedIsLoop
<1>4. s[0] = <<>> /\ RowsOf(items, l) = s[N]
  BY <1>3 DEF Selects, RowsOf, OnLine
<1>5. line \in Seq(Tokens) /\ l \in Int /\ l >= 1
  OBVIOUS
<1> DEFINE holds == {n \in 0..N : RowsDone(items, with, n, f[n])
                                  /\ LineDone(items, with, line, l, s, n, f[n])}
<1>6. 0 \in holds
  <2>1. /\ f[0] \in Doing /\ f[0].block = 1 /\ f[0].offset = 0 /\ f[0].rows = <<>> /\ Len(<<>>) = 0
        /\ f[0].lines = lines
    <3>1. 0 \in 0..N /\ Len(<<>>) = 0
      BY <1>2
    <3> HIDE DEF N
    <3>2. f[0] \in Doing
      BY <1>2, <3>1
    <3>3. f[0] = [lines |-> lines, block |-> 1, offset |-> 0, rows |-> <<>>]
      BY <1>2 DEF Undone
    <3> QED
      BY <3>1, <3>2, <3>3
  <2>2. 1..0 = {} /\ 0 \in 0..N
    BY <1>2
  <2>3. RowsDone(items, with, 0, f[0])
    BY <2>1, <2>2 DEF RowsDone
  <2>4. f[0].lines[l] = line /\ l \in DOMAIN f[0].lines
    BY <2>1
  <2> HIDE DEF line
  <2>5. Replaced(line, s[0], with) = line /\ Len(line) - Len(line) = 0
    BY <1>4, <1>5, ReplacedNone
  <2>6. Len(s[0]) = 0
    BY <1>4
  <2>7. LineDone(items, with, line, l, s, 0, f[0])
    BY <1>4, <2>1, <2>2, <2>4, <2>5, <2>6 DEF LineDone
  <2> QED
    BY <2>2, <2>3, <2>7
<1>7. ASSUME NEW n \in 0..(N - 1), n \in holds PROVE n + 1 \in holds
  <2> DEFINE d == f[n]
             item == items[n + 1]
  <2>1. n + 1 \in 1..N /\ n + 1 \in 0..N /\ (n + 1) - 1 = n /\ n \in 0..(Len(items) - 1)
    BY <1>2
  <2>2. f[n + 1] = ReplaceItem(d, item, with)
    BY <1>2, <2>1
  <2>3. RowsDone(items, with, n, d) /\ LineDone(items, with, line, l, s, n, d)
    BY <1>7
  <2> HIDE DEF d, line
  <2>4. RowsDone(items, with, n + 1, ReplaceItem(d, items[n + 1], with))
    BY <2>1, <2>3, RowsDoneStep
  <2>5. LineDone(items, with, line, l, s, n + 1, ReplaceItem(d, items[n + 1], with))
    <3>1. \A i \in 1..Len(items) : items[i].line = l => Fits(line, items[i])
      BY DEF line
    <3> QED
      BY <1>3, <1>5, <2>1, <2>3, <3>1, LineDoneStep
  <2> QED
    BY <2>1, <2>2, <2>4, <2>5 DEF item
<1> HIDE DEF holds
<1>8. N \in holds
  <2> HIDE DEF N
  <2>1. 0..N \subseteq holds
    BY <1>2, <1>6, <1>7, UpTo
  <2> QED
    BY <1>2, <2>1
<1>9. LineDone(items, with, line, l, s, N, f[N])
  BY <1>8 DEF holds
<1>10. DOMAIN items = 1..N /\ Replace(lines, items, with) = f[N] /\ RowsOf(items, l) = s[N]
  BY <1>2, <1>4
<1> HIDE DEF N
<1>11. Replacement(lines, items, with, l, f[N])
  BY <1>9, <1>10 DEF LineDone, Replacement
<1> QED
  BY <1>10, <1>11

-----------------------------------------------------------------------------
(* The rows that are shown, posted or waiting to be replaced.              *)

\* A row of Find in Files is where it says if the text has not changed since.
\* Those of Find Usages may be too long (UsagesRows) and references a line too
\* high (ReferencesMark).
Sits(row, t) ==
  /\ row.line \in DOMAIN t.lines /\ Fits(t.lines[row.line], row)
  /\ SubSeq(t.lines[row.line], row.col + 1, row.col + row.len) = row.marks
Valid(row, t) ==
  row.source = "file" => row.line >= 1 /\ row.ver <= t.ver /\ (row.ver = t.ver => Sits(row, t))
Known(file, t) == file.ver <= t.ver /\ (file.ver = t.ver => file = t)

\* The thread has passed the line of a row of its run.
Passed(row, t) ==
  row.source = "file" /\ row.run # 0 =>
    /\ row.run <= t.run
    /\ row.run = t.run => t.state # "starting" /\ (t.state = "running" => row.line < t.line)

Standing(rows, t, th) == \A i \in DOMAIN rows : Valid(rows[i], t) /\ Passed(rows[i], th)

\* Rows of one search in files come from the top of the text to its end.
InTurn(p, q) ==
  p.source = "file" /\ q.source = "file" /\ p.run = q.run => Behind(p, q)
RowsInTurn(rows) == \A i, j \in DOMAIN rows : i < j => InTurn(rows[i], rows[j])
Before(p, q)     == \A i \in DOMAIN p, j \in DOMAIN q : InTurn(p[i], q[j])

StandInTurn(rows) == Standing(rows, text, thread) /\ RowsInTurn(rows)

\* What is searched is the text as it is, or older.
FilesKnown ==
  /\ Known(disk, text)
  /\ thread.state = "running" => Known(thread.file, text)

RowsInv ==
  /\ FilesKnown
  /\ handler.in \notin {"blank", "readonly"} => handler.items = <<>>
  /\ OneSearch(handler.items)
  /\ StandInTurn(panel.rows) /\ StandInTurn(RowsIn(events)) /\ Before(panel.rows, RowsIn(events))
  /\ StandInTurn(handler.items)

\* Sequences of rows, one after the other.
LEMMA ConcatIs ==
  ASSUME NEW p \in Seq(Rows), NEW q \in Seq(Rows)
  PROVE  /\ \A i \in DOMAIN (p \o q) :
              \/ i \in DOMAIN p /\ (p \o q)[i] = p[i]
              \/ \E j \in DOMAIN q : i = Len(p) + j /\ (p \o q)[i] = q[j]
         /\ \A i \in DOMAIN p : i \in DOMAIN (p \o q) /\ (p \o q)[i] = p[i]
         /\ \A j \in DOMAIN q : Len(p) + j \in DOMAIN (p \o q) /\ (p \o q)[Len(p) + j] = q[j]
         /\ \A i \in DOMAIN p, j \in DOMAIN q : i < Len(p) + j /\ ~(Len(p) + j < i)
<1> DEFINE both == p \o q
           m == Len(p)
           n == Len(q)
<1>1. /\ m \in Nat /\ n \in Nat /\ DOMAIN p = 1..m /\ DOMAIN q = 1..n
  OBVIOUS
<1>2. Joined(Rows, p, q, both)
  BY TwoAre
<1> HIDE DEF both
<1>3. /\ both \in Seq(Rows) /\ Len(both) = m + n /\ \A k \in 1..m : both[k] = p[k]
      /\ \A k \in 1..n : both[m + k] = q[k]
  BY <1>2 DEF Joined
<1> HIDE DEF m, n
<1>4. DOMAIN both = 1..(m + n)
  BY <1>3
<1>5. \A i \in 1..(m + n) : i \in 1..m \/ (i - m \in 1..n /\ i = m + (i - m))
  BY <1>1
<1>6. ASSUME NEW i \in DOMAIN both
      PROVE  \/ i \in DOMAIN p /\ both[i] = p[i]
             \/ \E j \in DOMAIN q : i = m + j /\ both[i] = q[j]
  <2>1. CASE i \in 1..m
    BY <1>1, <1>3, <2>1
  <2>2. CASE i - m \in 1..n /\ i = m + (i - m)
    <3> DEFINE j == i - m
    <3>1. j \in 1..n /\ i = m + j
      BY <2>2
    <3> HIDE DEF j
    <3> QED
      BY <1>1, <1>3, <3>1
  <2> QED
    BY <1>4, <1>5, <2>1, <2>2
<1>7. \A i \in DOMAIN p : i \in DOMAIN both /\ both[i] = p[i]
  BY <1>1, <1>3, <1>4
<1>8. \A j \in DOMAIN q : m + j \in DOMAIN both /\ both[m + j] = q[j]
  BY <1>1, <1>3, <1>4
<1>9. \A i \in DOMAIN p, j \in DOMAIN q : i < m + j /\ ~(m + j < i)
  BY <1>1
<1> QED
  BY <1>6, <1>7, <1>8, <1>9 DEF both, m

LEMMA StandingConcat ==
  ASSUME NEW p \in Seq(Rows), NEW q \in Seq(Rows), NEW t, NEW th
  PROVE  Standing(p \o q, t, th) <=> Standing(p, t, th) /\ Standing(q, t, th)
<1> DEFINE both == p \o q
<1>1. /\ \A i \in DOMAIN both : \/ i \in DOMAIN p /\ both[i] = p[i]
                                \/ \E j \in DOMAIN q : i = Len(p) + j /\ both[i] = q[j]
      /\ \A i \in DOMAIN p : i \in DOMAIN both /\ both[i] = p[i]
      /\ \A j \in DOMAIN q : Len(p) + j \in DOMAIN both /\ both[Len(p) + j] = q[j]
  BY ConcatIs
<1> HIDE DEF both
<1>2. ASSUME Standing(both, t, th) PROVE Standing(p, t, th) /\ Standing(q, t, th)
  <2>1. ASSUME NEW i \in DOMAIN p PROVE Valid(p[i], t) /\ Passed(p[i], th)
    BY <1>1, <1>2 DEF Standing
  <2>2. ASSUME NEW j \in DOMAIN q PROVE Valid(q[j], t) /\ Passed(q[j], th)
    <3>1. Len(p) + j \in DOMAIN both /\ both[Len(p) + j] = q[j]
      BY <1>1
    <3>2. Valid(both[Len(p) + j], t) /\ Passed(both[Len(p) + j], th)
      BY <1>2, <3>1 DEF Standing
    <3> QED
      BY <3>1, <3>2
  <2> QED
    BY <2>1, <2>2 DEF Standing
<1>3. ASSUME Standing(p, t, th), Standing(q, t, th) PROVE Standing(both, t, th)
  <2> SUFFICES ASSUME NEW i \in DOMAIN both PROVE Valid(both[i], t) /\ Passed(both[i], th)
    BY DEF Standing
  <2>1. CASE i \in DOMAIN p /\ both[i] = p[i]
    BY <1>3, <2>1 DEF Standing
  <2>2. CASE \E j \in DOMAIN q : i = Len(p) + j /\ both[i] = q[j]
    BY <1>3, <2>2 DEF Standing
  <2> QED
    BY <1>1, <2>1, <2>2
<1> QED
  BY <1>2, <1>3 DEF both

LEMMA BeforeConcat ==
  ASSUME NEW p \in Seq(Rows), NEW q \in Seq(Rows), NEW r \in Seq(Rows)
  PROVE  /\ Before(p \o q, r) <=> Before(p, r) /\ Before(q, r)
         /\ Before(r, p \o q) <=> Before(r, p) /\ Before(r, q)
<1> DEFINE both == p \o q
<1>1. /\ \A i \in DOMAIN both : \/ i \in DOMAIN p /\ both[i] = p[i]
                                \/ \E j \in DOMAIN q : i = Len(p) + j /\ both[i] = q[j]
      /\ \A i \in DOMAIN p : i \in DOMAIN both /\ both[i] = p[i]
      /\ \A j \in DOMAIN q : Len(p) + j \in DOMAIN both /\ both[Len(p) + j] = q[j]
      /\ \A i \in DOMAIN p, j \in DOMAIN q : i < Len(p) + j /\ ~(Len(p) + j < i)
  BY ConcatIs
<1> HIDE DEF both
<1>2. ASSUME NEW k \in DOMAIN r, NEW i \in DOMAIN p
      PROVE  /\ Before(both, r) => InTurn(p[i], r[k])
             /\ Before(r, both) => InTurn(r[k], p[i])
  <2>1. i \in DOMAIN both /\ both[i] = p[i]
    BY <1>1
  <2> QED
    BY <2>1 DEF Before
<1>3. ASSUME NEW k \in DOMAIN r, NEW j \in DOMAIN q
      PROVE  /\ Before(both, r) => InTurn(q[j], r[k])
             /\ Before(r, both) => InTurn(r[k], q[j])
  <2>1. Len(p) + j \in DOMAIN both /\ both[Len(p) + j] = q[j]
    BY <1>1
  <2> QED
    BY <2>1 DEF Before
<1>4. ASSUME NEW k \in DOMAIN r, NEW i \in DOMAIN both
      PROVE  /\ Before(p, r) /\ Before(q, r) => InTurn(both[i], r[k])
             /\ Before(r, p) /\ Before(r, q) => InTurn(r[k], both[i])
  <2>1. CASE i \in DOMAIN p /\ both[i] = p[i]
    BY <2>1 DEF Before
  <2>2. CASE \E j \in DOMAIN q : i = Len(p) + j /\ both[i] = q[j]
    BY <2>2 DEF Before
  <2> QED
    BY <1>1, <2>1, <2>2
<1>5. Before(both, r) <=> Before(p, r) /\ Before(q, r)
  <2>1. Before(both, r) => Before(p, r) /\ Before(q, r)
    BY <1>2, <1>3 DEF Before
  <2>2. Before(p, r) /\ Before(q, r) => Before(both, r)
    BY <1>4 DEF Before
  <2> QED
    BY <2>1, <2>2
<1>6. Before(r, both) <=> Before(r, p) /\ Before(r, q)
  <2>1. Before(r, both) => Before(r, p) /\ Before(r, q)
    BY <1>2, <1>3 DEF Before
  <2>2. Before(r, p) /\ Before(r, q) => Before(r, both)
    BY <1>4 DEF Before
  <2> QED
    BY <2>1, <2>2
<1> QED
  BY <1>5, <1>6 DEF both

LEMMA TurnConcat ==
  ASSUME NEW p \in Seq(Rows), NEW q \in Seq(Rows)
  PROVE  RowsInTurn(p \o q) <=> RowsInTurn(p) /\ RowsInTurn(q) /\ Before(p, q)
<1> DEFINE both == p \o q
<1>1. /\ \A i \in DOMAIN both : \/ i \in DOMAIN p /\ both[i] = p[i]
                                \/ \E j \in DOMAIN q : i = Len(p) + j /\ both[i] = q[j]
      /\ \A i \in DOMAIN p : i \in DOMAIN both /\ both[i] = p[i]
      /\ \A j \in DOMAIN q : Len(p) + j \in DOMAIN both /\ both[Len(p) + j] = q[j]
      /\ \A i \in DOMAIN p, j \in DOMAIN q : i < Len(p) + j /\ ~(Len(p) + j < i)
  BY ConcatIs
<1>2. Len(p) \in Nat /\ DOMAIN p \subseteq Int /\ DOMAIN q \subseteq Int
  OBVIOUS
<1>3. \A i, j \in DOMAIN q : Len(p) + i < Len(p) + j <=> i < j
  <2> DEFINE m == Len(p)
             D == DOMAIN q
  <2>1. m \in Int /\ D \subseteq Int
    BY <1>2
  <2> HIDE DEF m, D
  <2>2. \A i, j \in D : m + i < m + j <=> i < j
    BY <2>1
  <2> QED
    BY <2>2 DEF m, D
<1> HIDE DEF both
<1>4. ASSUME RowsInTurn(both) PROVE RowsInTurn(p) /\ RowsInTurn(q) /\ Before(p, q)
  <2>1. RowsInTurn(p)
    BY <1>1, <1>4 DEF RowsInTurn
  <2>2. ASSUME NEW i \in DOMAIN q, NEW j \in DOMAIN q, i < j PROVE InTurn(q[i], q[j])
    <3>1. Len(p) + i < Len(p) + j
      BY <1>3, <2>2
    <3> QED
      BY <1>1, <1>4, <3>1 DEF RowsInTurn
  <2>3. ASSUME NEW i \in DOMAIN p, NEW j \in DOMAIN q PROVE InTurn(p[i], q[j])
    BY <1>1, <1>4 DEF RowsInTurn
  <2> QED
    BY <2>1, <2>2, <2>3 DEF RowsInTurn, Before
<1>5. ASSUME RowsInTurn(p), RowsInTurn(q), Before(p, q) PROVE RowsInTurn(both)
  <2> SUFFICES ASSUME NEW i \in DOMAIN both, NEW j \in DOMAIN both, i < j
               PROVE  InTurn(both[i], both[j])
    BY DEF RowsInTurn
  <2>1. CASE i \in DOMAIN p /\ both[i] = p[i]
    <3>1. CASE j \in DOMAIN p /\ both[j] = p[j]
      BY <1>5, <2>1, <3>1 DEF RowsInTurn
    <3>2. CASE \E k \in DOMAIN q : j = Len(p) + k /\ both[j] = q[k]
      BY <1>5, <2>1, <3>2 DEF Before
    <3> QED
      BY <1>1, <3>1, <3>2
  <2>2. ASSUME NEW h \in DOMAIN q, i = Len(p) + h, both[i] = q[h] PROVE InTurn(both[i], both[j])
    <3>1. CASE j \in DOMAIN p /\ both[j] = p[j]
      BY <1>1, <2>2, <3>1
    <3>2. ASSUME NEW k \in DOMAIN q, j = Len(p) + k, both[j] = q[k] PROVE InTurn(both[i], both[j])
      <4>1. h < k
        BY <1>3, <2>2, <3>2
      <4> QED
        BY <1>5, <2>2, <3>2, <4>1 DEF RowsInTurn
    <3> QED
      BY <1>1, <3>1, <3>2
  <2> QED
    BY <1>1, <2>1, <2>2
<1> QED
  BY <1>4, <1>5 DEF both

\* What is selected is from the sequence, in its order.
Picked(s, keep, n, r) ==
  /\ \A i \in 1..Len(r) : \E a \in 1..n : a \in keep /\ r[i] = s[a]
  /\ \A i, j \in 1..Len(r) : i < j =>
       \E a, b \in 1..n : a < b /\ a \in keep /\ b \in keep /\ r[i] = s[a] /\ r[j] = s[b]

LEMMA SelectedPicked ==
  ASSUME NEW S, NEW s \in Seq(S), NEW keep
  PROVE  Picked(s, keep, Len(s), Selected(s, keep))
<1> DEFINE N == Len(s)
<1>1. PICK f : Selects(S, s, keep, f)
  BY SelectedIsLoop
<1>2. /\ N \in Nat /\ f \in [0..N -> Seq(S)] /\ f[0] = <<>>
      /\ \A n \in 1..N : f[n] = IF n \in keep THEN Append(f[n - 1], s[n]) ELSE f[n - 1]
      /\ Selected(s, keep) = f[N]
  BY <1>1 DEF Selects
<1> DEFINE holds == {n \in 0..N : Picked(s, keep, n, f[n])}
<1>3. 0 \in holds
  <2>1. 0 \in 0..N /\ Len(<<>>) = 0 /\ 1..0 = {}
    BY <1>2
  <2> QED
    BY <1>2, <2>1 DEF Picked
<1>4. ASSUME NEW n \in 0..(N - 1), n \in holds PROVE n + 1 \in holds
  <2> DEFINE r == f[n]
             x == s[n + 1]
  <2>1. /\ n + 1 \in 1..N /\ n + 1 \in 0..N /\ (n + 1) - 1 = n /\ n \in 0..N
        /\ \A a \in 1..n : a \in 1..(n + 1) /\ a < n + 1
        /\ n + 1 \in 1..(n + 1)
    BY <1>2
  <2>2. r \in Seq(S) /\ x \in S
    <3>1. x \in S
      BY <1>2, <2>1
    <3> HIDE DEF N
    <3> QED
      BY <1>2, <2>1, <3>1
  <2>3. f[n + 1] = IF n + 1 \in keep THEN Append(r, x) ELSE r
    BY <1>2, <2>1
  <2>4. Picked(s, keep, n, r)
    BY <1>4
  <2>5. CASE n + 1 \notin keep
    <3>1. Picked(s, keep, n + 1, r)
      BY <2>1, <2>4 DEF Picked
    <3> QED
      BY <2>1, <2>3, <2>5, <3>1
  <2>6. CASE n + 1 \in keep
    <3> DEFINE more == Append(r, x)
    <3> HIDE DEF r
    <3>1. /\ Len(r) \in Nat /\ Len(more) = Len(r) + 1 /\ more[Len(r) + 1] = x
          /\ \A i \in 1..Len(r) : more[i] = r[i]
      BY <2>2
    <3> HIDE DEF more
    <3>2. \A i \in 1..Len(more) : i \in 1..Len(r) \/ i = Len(r) + 1
      BY <3>1
    <3>3. ASSUME NEW i \in 1..Len(more) PROVE \E a \in 1..(n + 1) : a \in keep /\ more[i] = s[a]
      <4>1. CASE i \in 1..Len(r)
        BY <2>1, <2>4, <3>1, <4>1 DEF Picked
      <4>2. CASE i = Len(r) + 1
        BY <2>1, <2>6, <3>1, <4>2
      <4> QED
        BY <3>2, <4>1, <4>2
    <3>4. ASSUME NEW i \in 1..Len(more), NEW j \in 1..Len(more), i < j
          PROVE  \E a, b \in 1..(n + 1) : /\ a < b /\ a \in keep /\ b \in keep
                                          /\ more[i] = s[a] /\ more[j] = s[b]
      <4>1. i \in 1..Len(r)
        BY <3>1, <3>4
      <4>2. CASE j \in 1..Len(r)
        <5>1. PICK a, b \in 1..n : /\ a < b /\ a \in keep /\ b \in keep
                                   /\ r[i] = s[a] /\ r[j] = s[b]
          BY <2>4, <3>4, <4>1, <4>2 DEF Picked
        <5>2. more[i] = s[a] /\ more[j] = s[b] /\ a \in 1..(n + 1) /\ b \in 1..(n + 1)
          BY <2>1, <3>1, <4>1, <4>2, <5>1
        <5> QED
          BY <5>1, <5>2
      <4>3. CASE j = Len(r) + 1
        <5>1. PICK a \in 1..n : a \in keep /\ r[i] = s[a]
          BY <2>4, <4>1 DEF Picked
        <5>2. a < n + 1 /\ more[i] = s[a] /\ more[j] = s[n + 1]
          BY <2>1, <3>1, <4>1, <4>3, <5>1
        <5> QED
          BY <2>1, <2>6, <5>1, <5>2
      <4> QED
        BY <3>2, <4>2, <4>3
    <3>5. Picked(s, keep, n + 1, more)
      BY <3>3, <3>4 DEF Picked
    <3> QED
      BY <2>1, <2>3, <2>6, <3>5 DEF more
  <2> QED
    BY <2>5, <2>6
<1> HIDE DEF holds
<1>5. N \in holds
  <2> HIDE DEF N
  <2>1. 0..N \subseteq holds
    BY <1>2, <1>3, <1>4, UpTo
  <2> QED
    BY <1>2, <2>1
<1> QED
  BY <1>2, <1>5 DEF holds

-----------------------------------------------------------------------------
(* The rows of a line stand in the text, and those of replacing.           *)

\* The hits of a line, from left to right.
Hits(rows, source, run, term, file, l) ==
  /\ rows \in Seq(Rows)
  /\ \A i \in DOMAIN rows :
       /\ rows[i].source = source /\ rows[i].run = run /\ rows[i].line = l
       /\ rows[i].ver = file.ver /\ rows[i].len = 1 /\ rows[i].marks = <<term>>
       /\ rows[i].col \in Nat /\ rows[i].col < Len(file.lines[l])
       /\ file.lines[l][rows[i].col + 1] = term
  /\ \A i, j \in DOMAIN rows : i < j => rows[i].col < rows[j].col

LEMMA LineRowsHit ==
  ASSUME NEW source \in Sources, NEW run \in Nat, NEW term \in Sought, NEW file \in Texts,
         NEW l \in DOMAIN file.lines
  PROVE  Hits(LineRows(source, run, term, file, l), source, run, term, file, l)
<1> DEFINE line == file.lines[l]
           all  == [i \in DOMAIN line |-> Row(source, run, term, file.ver, l, i - 1)]
           keep == {i \in DOMAIN line : line[i] = term}
           rows == Selected(all, keep)
           N    == Len(line)
<1>1. line \in Seq(Tokens) /\ file.ver \in Nat /\ l \in Int
  BY DEF Texts
<1>2. DOMAIN line = 1..N /\ N \in Nat
  BY <1>1
<1>3. ASSUME NEW i \in 1..N PROVE Row(source, run, term, file.ver, l, i - 1) \in Rows
  <2>1. i - 1 \in Int /\ <<term>> \in Seq(Tokens \cup Sought)
    BY <1>2
  <2> QED
    BY <1>1, <2>1 DEF Row, Rows, Sources
<1>4. all \in [1..N -> Rows]
  BY <1>2, <1>3
<1>5. /\ LineRows(source, run, term, file, l) = rows
      /\ \A i \in 1..N : all[i] = Row(source, run, term, file.ver, l, i - 1)
      /\ \A i \in keep : line[i] = term
  BY <1>2 DEF LineRows
<1> HIDE DEF all, N, keep
<1>6. all \in Seq(Rows) /\ Len(all) = N
  BY <1>2, <1>4, IsSeq
<1>7. rows \in Seq(Rows) /\ Picked(all, keep, N, rows)
  BY <1>6, SelectedPicked, SelectedType
<1> HIDE DEF rows
<1>8. DOMAIN rows = 1..Len(rows)
  BY <1>7
<1>9. ASSUME NEW i \in DOMAIN rows, NEW a \in 1..N, a \in keep, rows[i] = all[a]
      PROVE  /\ rows[i].source = source /\ rows[i].run = run /\ rows[i].line = l
             /\ rows[i].ver = file.ver /\ rows[i].len = 1 /\ rows[i].marks = <<term>>
             /\ rows[i].col = a - 1 /\ line[rows[i].col + 1] = term
  <2>1. rows[i] = Row(source, run, term, file.ver, l, a - 1)
    BY <1>5, <1>9
  <2>2. (a - 1) + 1 = a
    BY <1>2
  <2> QED
    BY <1>5, <1>9, <2>1, <2>2 DEF Row
<1>10. ASSUME NEW i \in DOMAIN rows
       PROVE  /\ rows[i].source = source /\ rows[i].run = run /\ rows[i].line = l
              /\ rows[i].ver = file.ver /\ rows[i].len = 1 /\ rows[i].marks = <<term>>
              /\ rows[i].col \in Nat /\ rows[i].col < N
              /\ line[rows[i].col + 1] = term
  <2>1. PICK a \in 1..N : a \in keep /\ rows[i] = all[a]
    BY <1>7, <1>8 DEF Picked
  <2>2. a - 1 \in Nat /\ a - 1 < N
    BY <1>2
  <2> QED
    BY <1>9, <2>1, <2>2
<1>11. ASSUME NEW i \in DOMAIN rows, NEW j \in DOMAIN rows, i < j PROVE rows[i].col < rows[j].col
  <2>3. i \in 1..Len(rows) /\ j \in 1..Len(rows)
    BY <1>8
  <2>1. PICK a, b \in 1..N : a < b /\ a \in keep /\ b \in keep /\ rows[i] = all[a] /\ rows[j] = all[b]
    BY <1>7, <1>11, <2>3 DEF Picked
  <2>2. rows[i].col = a - 1 /\ rows[j].col = b - 1
    BY <1>9, <2>1
  <2> QED
    BY <1>2, <2>1, <2>2
<1> QED
  BY <1>5, <1>7, <1>10, <1>11 DEF Hits, N

\* They stand where they were found, unless the text has changed.
LineStands(rows, source, run, l, t) ==
  /\ \A i \in DOMAIN rows :
       rows[i].source = source /\ rows[i].run = run /\ rows[i].line = l /\ Valid(rows[i], t)
  /\ RowsInTurn(rows)

LEMMA HitsStand ==
  ASSUME NEW source, NEW run, NEW term, NEW file \in Texts, NEW l \in DOMAIN file.lines,
         NEW t, Known(file, t), NEW rows, Hits(rows, source, run, term, file, l)
  PROVE  LineStands(rows, source, run, l, t)
<1> DEFINE line == file.lines[l]
<1>1. line \in Seq(Tokens) /\ l \in Int /\ l >= 1 /\ DOMAIN line = 1..Len(line) /\ Len(line) \in Nat
      /\ DOMAIN rows \subseteq Int
  BY DEF Texts, Hits
<1> HIDE DEF line
<1>2. ASSUME NEW i \in DOMAIN rows PROVE Valid(rows[i], t)
  <2> DEFINE col == rows[i].col
  <2>1. /\ rows[i].line = l /\ rows[i].ver = file.ver /\ rows[i].len = 1 /\ rows[i].marks = <<term>>
        /\ col \in Nat /\ col < Len(line) /\ line[col + 1] = term
    BY DEF Hits, line
  <2> HIDE DEF col
  <2>2. col + 1 \in 1..Len(line) /\ 1 \in Nat /\ col + 1 <= Len(line) /\ (col + 1) - (col + 1) + 1 = 1
    BY <1>1, <2>1
  <2>3. SubSeq(line, col + 1, col + 1) = <<term>>
    <3> DEFINE part == SubSeq(line, col + 1, col + 1)
    <3>1. /\ col \in 0..Len(line) /\ col + 1 \in col..Len(line) /\ (col + 1) - col = 1
          /\ 1 \in 1..1
      BY <1>1, <2>1
    <3>2. part \in Seq(Tokens) /\ Len(part) = 1 /\ \A k \in 1..1 : part[k] = line[col + k]
      <4>1. /\ part \in Seq(Tokens) /\ Len(part) = (col + 1) - col
            /\ \A k \in 1..((col + 1) - col) : part[k] = line[col + k]
        BY <1>1, <3>1, TailIs
      <4> QED
        BY <3>1, <4>1
    <3> HIDE DEF part
    <3>3. part[1] = term
      BY <2>1, <3>1, <3>2
    <3>4. part = <<term>>
      BY <3>2, <3>3
    <3> QED
      BY <3>4 DEF part
  <2>4. file.ver <= t.ver /\ (file.ver = t.ver => file = t)
    BY DEF Known
  <2>5. ASSUME file.ver = t.ver PROVE Sits(rows[i], t)
    <3>1. t.lines[l] = line /\ l \in DOMAIN t.lines
      BY <2>4, <2>5 DEF line
    <3> QED
      BY <2>1, <2>2, <2>3, <3>1 DEF Sits, Fits, col
  <2> QED
    BY <1>1, <2>1, <2>4, <2>5 DEF Valid
<1>3. ASSUME NEW i \in DOMAIN rows, NEW j \in DOMAIN rows, i < j PROVE Behind(rows[i], rows[j])
  <2>1. /\ rows[i].line = l /\ rows[j].line = l /\ rows[i].ver = rows[j].ver /\ rows[i].len = 1
        /\ rows[i].col \in Nat /\ rows[j].col \in Nat /\ rows[i].col < rows[j].col
    BY <1>3 DEF Hits
  <2> QED
    BY <1>1, <2>1 DEF Behind
<1> QED
  BY <1>2, <1>3 DEF LineStands, RowsInTurn, InTurn, Hits

\* What is put somewhere sits there.
LEMMA HasSits ==
  ASSUME NEW t, NEW row \in Rows, row.line \in DOMAIN t.lines, t.lines[row.line] \in Seq(Tokens),
         NEW with \in Seq(Tokens), row.len = Len(with), row.marks = with,
         Has(t.lines[row.line], row.col, with)
  PROVE  Sits(row, t)
<1> DEFINE line == t.lines[row.line]
           col == row.col
           part == SubSeq(line, col + 1, col + Len(with))
<1>1. /\ col \in Nat /\ col + Len(with) <= Len(line) /\ Len(line) \in Nat /\ Len(with) \in Nat
      /\ \A k \in 1..Len(with) : line[col + k] = with[k]
  BY DEF Has
<1> HIDE DEF line, col
<1>2. col \in 0..Len(line) /\ col + Len(with) \in col..Len(line) /\ (col + Len(with)) - col = Len(with)
  BY <1>1
<1>3. line \in Seq(Tokens)
  BY DEF line
<1>4. part \in Seq(Tokens) /\ Len(part) = Len(with) /\ \A k \in 1..Len(with) : part[k] = line[col + k]
  <2> DEFINE c == col + Len(with)
  <2>1. c \in col..Len(line) /\ c - col = Len(with)
    BY <1>2
  <2> HIDE DEF c
  <2>2. /\ SubSeq(line, col + 1, c) \in Seq(Tokens) /\ Len(SubSeq(line, col + 1, c)) = c - col
        /\ \A k \in 1..(c - col) : SubSeq(line, col + 1, c)[k] = line[col + k]
    BY <1>2, <1>3, <2>1, TailIs
  <2> QED
    BY <2>1, <2>2 DEF c
<1> HIDE DEF part
<1>5. part = with
  BY <1>1, <1>4, SeqEqual
<1> QED
  BY <1>1, <1>5 DEF Sits, Fits, part, line, col

\* The thread does not return to what it has passed.
ThreadMoves(t, u) ==
  \/ u.run = t.run /\ u.state = t.state /\ u.line = t.line
  \/ u.run = t.run /\ u.state = "running" /\ t.state = "running" /\ u.line >= t.line
  \/ u.run = t.run /\ u.state = "running" /\ t.state = "starting"
  \/ u.run = t.run /\ u.state = "idle"
  \/ u.run > t.run

LEMMA PassedStays ==
  ASSUME NEW row \in Rows, NEW t \in Threads, NEW u \in Threads, ThreadMoves(t, u), Passed(row, t)
  PROVE  Passed(row, u)
<1>1. /\ row.run \in Nat /\ row.line \in Int /\ t.run \in Nat /\ u.run \in Nat
      /\ t.line \in Int /\ u.line \in Int
  BY RowFields, ThreadFields
<1>2. ASSUME row.source = "file", row.run # 0
      PROVE  /\ row.run <= u.run
             /\ row.run = u.run => u.state # "starting" /\ (u.state = "running" => row.line < u.line)
  <2>1. /\ row.run <= t.run
        /\ row.run = t.run => t.state # "starting" /\ (t.state = "running" => row.line < t.line)
    BY <1>2 DEF Passed
  <2> QED
    BY <1>1, <2>1 DEF ThreadMoves
<1> QED
  BY <1>2 DEF Passed

Newer(t, u) == u = t \/ u.ver > t.ver

LEMMA StandingStays ==
  ASSUME NEW rows \in Seq(Rows), NEW t \in Texts, NEW u \in Texts, Newer(t, u),
         NEW th \in Threads, NEW vh \in Threads, ThreadMoves(th, vh), Standing(rows, t, th)
  PROVE  Standing(rows, u, vh)
<1> SUFFICES ASSUME NEW i \in DOMAIN rows PROVE Valid(rows[i], u) /\ Passed(rows[i], vh)
  BY DEF Standing
<1>1. rows[i] \in Rows /\ Valid(rows[i], t) /\ Passed(rows[i], th)
  BY DEF Standing
<1>2. Passed(rows[i], vh)
  BY <1>1, PassedStays
<1>3. rows[i].ver \in Nat /\ t.ver \in Nat /\ u.ver \in Nat
  BY <1>1, RowFields DEF Texts
<1>4. Valid(rows[i], u)
  <2>1. CASE u = t
    BY <1>1, <2>1
  <2>2. CASE u.ver > t.ver
    BY <1>1, <1>3, <2>2 DEF Valid
  <2> QED
    BY <2>1, <2>2 DEF Newer
<1> QED
  BY <1>2, <1>4

LEMMA KnownStays ==
  ASSUME NEW file \in Texts, NEW t \in Texts, NEW u \in Texts, Newer(t, u), Known(file, t)
  PROVE  Known(file, u)
<1>1. file.ver \in Nat /\ t.ver \in Nat /\ u.ver \in Nat
  BY DEF Texts
<1> QED
  BY <1>1 DEF Known, Newer

LEMMA KnownItself == \A t \in Texts : Known(t, t) /\ Newer(t, t)
<1>1. \A t \in Texts : t.ver \in Nat
  BY DEF Texts
<1> QED
  BY <1>1 DEF Known, Newer

-----------------------------------------------------------------------------
(* What the thread does leaves the rows standing.                          *)

\* Steps in which the text gets no older, and nothing returns to what it has passed.
Moves == Newer(text, text') /\ ThreadMoves(thread, thread')

LEMMA TypesOf ==
  ASSUME SearchTypeOK
  PROVE  /\ text \in Texts /\ disk \in Texts /\ thread \in Threads
         /\ thread.file \in Texts
         /\ panel \in Panels /\ panel.rows \in Seq(Rows) /\ handler.items \in Seq(Rows)
         /\ events \in Seq(Events) /\ RowsIn(events) \in Seq(Found) /\ RowsIn(events) \in Seq(Rows)
<1>1. RowsIn(events) \in Seq(Found)
  <2>1. events \in Seq(Events) /\ [is |-> "finished"] \in Events
    BY DEF SearchTypeOK, Events
  <2> QED
    BY <2>1, RowsInAppend
<1>2. Found \subseteq Rows
  BY DEF Found
<1>3. RowsIn(events) \in Seq(Rows)
  BY <1>1, <1>2
<1> QED
  BY <1>1, <1>3 DEF SearchTypeOK, Threads, Panels, Handlers

LEMMA StandsStill ==
  ASSUME SearchTypeOK, SearchTypeOK', Moves, NEW rows \in Seq(Rows), StandInTurn(rows)
  PROVE  Standing(rows, text', thread') /\ RowsInTurn(rows)
<1>1. /\ text \in Texts /\ text' \in Texts /\ thread \in Threads /\ thread' \in Threads
  BY DEF SearchTypeOK
<1> QED
  BY <1>1, StandingStays DEF StandInTurn, Moves

LEMMA NoRows ==
  /\ \A t, th : Standing(<<>>, t, th)
  /\ RowsInTurn(<<>>) /\ OneSearch(<<>>)
  /\ \A rows : Before(<<>>, rows) /\ Before(rows, <<>>)
<1>1. DOMAIN <<>> = {}
  OBVIOUS
<1> QED
  BY <1>1 DEF Standing, RowsInTurn, OneSearch, Before

\* Steps that leave the rows alone.
LEMMA QuietStep ==
  ASSUME SearchTypeOK, SearchTypeOK', RowsInv, Moves, FilesKnown',
         panel'.rows = panel.rows, RowsIn(events') = RowsIn(events),
         (handler'.items = handler.items /\ handler'.in = handler.in) \/ handler'.items = <<>>
  PROVE  RowsInv'
<1>1. /\ StandInTurn(panel.rows) /\ StandInTurn(RowsIn(events)) /\ StandInTurn(handler.items)
      /\ Before(panel.rows, RowsIn(events)) /\ OneSearch(handler.items)
      /\ handler.in \notin {"blank", "readonly"} => handler.items = <<>>
  BY DEF RowsInv
<1>2. StandInTurn(panel.rows)'
  BY <1>1, TypesOf, StandsStill DEF StandInTurn
<1>3. StandInTurn(RowsIn(events))'
  <2>1. Standing(RowsIn(events), text', thread') /\ RowsInTurn(RowsIn(events))
    BY <1>1, TypesOf, StandsStill
  <2> QED
    BY <2>1 DEF StandInTurn
<1>4. StandInTurn(handler.items)' /\ OneSearch(handler'.items)
  <2>1. CASE handler'.items = handler.items
    BY <1>1, <2>1, TypesOf, StandsStill DEF StandInTurn
  <2>2. CASE handler'.items = <<>>
    BY <2>2, NoRows DEF StandInTurn
  <2> QED
    BY <2>1, <2>2
<1>5. Before(panel'.rows, RowsIn(events'))
  BY <1>1
<1>6. handler'.in \notin {"blank", "readonly"} => handler'.items = <<>>
  BY <1>1
<1> QED
  BY <1>2, <1>3, <1>4, <1>5, <1>6 DEF RowsInv

\* What the actions do to the thread.
LEMMA ThreadStartsOrRuns ==
  ASSUME NEW t \in Threads, NEW term, StartThread(t, term)
  PROVE  /\ \/ thread'.state = "starting" /\ thread'.run > t.run
            \/ thread' = t
         /\ disk' \in {disk, text} /\ handler' = NoHandler
<1>1. CASE term # NoTerm /\ t.state = "idle"
  <2>1. thread' = [t EXCEPT !.state = "starting", !.run = @ + 1, !.killed = FALSE]
    BY <1>1 DEF StartThread
  <2>2. thread'.state = "starting" /\ thread'.run = t.run + 1 /\ t.run \in Nat
    BY <2>1, ThreadFields DEF Threads
  <2>3. thread'.run > t.run
    BY <2>2
  <2> QED
    BY <1>1, <2>2, <2>3 DEF StartThread
<1>2. CASE term = NoTerm \/ t.state # "idle"
  BY <1>2 DEF StartThread
<1> QED
  BY <1>1, <1>2

LEMMA FinishedPosts ==
  ASSUME SearchTypeOK, NEW e \in Events, e.is # "result"
  PROVE  RowsIn(Append(events, e)) = RowsIn(events)
<1>1. events \in Seq(Events) /\ RowsIn(events) \in Seq(Found)
  BY TypesOf
<1>2. RowsIn(Append(events, e)) = RowsIn(events) \o <<>>
  BY <1>1, RowsInAppend DEF RowIn
<1> QED
  BY <1>1, <1>2

LEMMA ThreadKeepsRows ==
  ASSUME SearchTypeOK, SearchTypeOK', RowsInv,
         StopReturns \/ StopTerminates \/ RunBegins \/ RunEnds \/ Dies
         \/ \E term \in Sought : FindInFiles(term)
  PROVE  RowsInv'
<1>0. /\ thread \in Threads /\ thread' \in Threads /\ text \in Texts /\ events \in Seq(Events)
      /\ handler.in \notin {"blank", "readonly"} => handler.items = <<>>
      /\ FilesKnown /\ Known(text, text) /\ Known(disk, text) /\ Newer(text, text)
  BY KnownItself DEF SearchTypeOK, RowsInv, FilesKnown
<1>1. UNCHANGED <<text, panel>>
  BY DEF StopReturns, StopTerminates, RunBegins, RunEnds, Dies, FindInFiles
<1>2. Newer(text, text')
  BY <1>0, <1>1
<1>3. NoHandler.items = <<>> /\ NoHandler.in = "none" /\ thread.line \in Int
  BY ThreadFields, <1>0 DEF NoHandler
<1>4. ASSUME RowsIn(events') = RowsIn(events), (handler'.items = handler.items /\ handler'.in = handler.in) \/ handler'.items = <<>>,
             Known(disk', text), ThreadMoves(thread, thread'),
             thread'.state = "running" => Known(thread'.file, text)
      PROVE  RowsInv'
  <2>1. Moves
    BY <1>2, <1>4 DEF Moves
  <2>2. FilesKnown'
    BY <1>0, <1>1, <1>4 DEF FilesKnown
  <2> QED
    BY <1>1, <1>4, <2>1, <2>2, QuietStep
<1>5. /\ \A t : t.run = thread.run /\ t.state = "idle" => ThreadMoves(thread, t)
      /\ \A t : t.run > thread.run => ThreadMoves(thread, t)
      /\ \A t : t.run = thread.run /\ t.state = thread.state /\ t.line = thread.line => ThreadMoves(thread, t)
  BY DEF ThreadMoves
<1>6. [is |-> "finished"] \in Events /\ [is |-> "finished"].is # "result"
  BY DEF Events
<1>7. RowsIn(Append(events, [is |-> "finished"])) = RowsIn(events)
  BY <1>6, FinishedPosts
<1>8. CASE StopReturns
  <2>1. StartThread(thread, handler.term) /\ thread.state = "idle" /\ events' = events
    BY <1>8 DEF StopReturns
  <2>2. /\ (thread'.state = "starting" /\ thread'.run > thread.run) \/ thread' = thread
        /\ disk' \in {disk, text} /\ handler' = NoHandler
    BY <1>0, <2>1, ThreadStartsOrRuns
  <2> QED
    BY <1>0, <1>3, <1>4, <1>5, <2>1, <2>2
<1>9. CASE StopTerminates
  <2>1. CASE events' = Append(events, [is |-> "finished"]) /\ StartThread(Ended(thread), handler.term)
    <3>1. Ended(thread) \in Threads /\ Ended(thread).state = "idle" /\ Ended(thread).run = thread.run
      BY <1>0, EndedType
    <3> DEFINE t == Ended(thread)
    <3> HIDE DEF t
    <3>2. t \in Threads /\ t.state = "idle" /\ t.run = thread.run /\ StartThread(t, handler.term)
      BY <2>1, <3>1 DEF t
    <3>3. /\ (thread'.state = "starting" /\ thread'.run > t.run) \/ thread' = t
          /\ disk' \in {disk, text} /\ handler' = NoHandler
      BY <3>2, ThreadStartsOrRuns
    <3>4. ThreadMoves(thread, thread') /\ thread'.state # "running"
      BY <1>5, <3>2, <3>3
    <3> QED
      BY <1>0, <1>3, <1>4, <1>7, <2>1, <3>3, <3>4
  <2>2. CASE StartThread([thread EXCEPT !.killed = TRUE], handler.term) /\ events' = events
    <3> DEFINE t == [thread EXCEPT !.killed = TRUE]
    <3>1. t \in Threads /\ t.state = thread.state /\ t.run = thread.run /\ t.line = thread.line /\ t.file = thread.file
      BY <1>0 DEF Threads
    <3> HIDE DEF t
    <3>2. StartThread(t, handler.term)
      BY <2>2 DEF t
    <3>3. /\ (thread'.state = "starting" /\ thread'.run > t.run) \/ thread' = t
          /\ disk' \in {disk, text} /\ handler' = NoHandler
      BY <3>1, <3>2, ThreadStartsOrRuns
    <3>4. ThreadMoves(thread, thread')
      BY <1>5, <3>1, <3>3
    <3>5. thread'.state = "running" => Known(thread'.file, text)
      BY <1>0, <3>1, <3>3 DEF FilesKnown
    <3> QED
      BY <1>0, <1>3, <1>4, <2>2, <3>3, <3>4, <3>5
  <2> QED
    BY <1>9, <2>1, <2>2 DEF StopTerminates
<1>10. CASE RunBegins
  <2> DEFINE e == [is |-> "started", of |-> [run |-> thread.run, term |-> findText, file |-> disk]]
  <2>1. /\ thread.state = "starting" /\ thread'.state = "running" /\ thread'.run = thread.run
        /\ thread'.file = disk /\ disk' = disk /\ handler' = handler /\ events' = Append(events, e)
    BY <1>0, <1>10 DEF RunBegins, Threads
  <2>2. e \in Events /\ e.is # "result"
    BY <1>0, ThreadFields DEF SearchTypeOK, Searches, Events
  <2> HIDE DEF e
  <2>3. RowsIn(events') = RowsIn(events)
    BY <2>1, <2>2, FinishedPosts
  <2>4. ThreadMoves(thread, thread')
    BY <2>1 DEF ThreadMoves
  <2>5. Known(disk, text)
    BY <1>0 DEF FilesKnown
  <2> QED
    BY <1>4, <2>1, <2>3, <2>4, <2>5
<1>11. CASE RunEnds \/ Dies
  <2>1. /\ thread' = Ended(thread) /\ events' = Append(events, [is |-> "finished"])
        /\ disk' = disk /\ handler' = handler
    BY <1>11 DEF RunEnds, Dies
  <2>2. thread'.state = "idle" /\ thread'.run = thread.run
    BY <1>0, <2>1, EndedType
  <2>3. ThreadMoves(thread, thread') /\ Known(disk', text)
    BY <1>0, <1>5, <2>1, <2>2 DEF FilesKnown
  <2>4. thread'.state # "running"
    BY <2>2
  <2> QED
    BY <1>4, <1>7, <2>1, <2>3, <2>4
<1>12. ASSUME NEW term \in Sought, FindInFiles(term) PROVE RowsInv'
  <2>1. CASE thread.state = "idle"
    <3>1. StartThread(thread, term) /\ events' = events
      BY <1>12, <2>1 DEF FindInFiles
    <3>2. /\ (thread'.state = "starting" /\ thread'.run > thread.run) \/ thread' = thread
          /\ disk' \in {disk, text} /\ handler' = NoHandler
      BY <1>0, <3>1, ThreadStartsOrRuns
    <3> QED
      BY <1>0, <1>3, <1>4, <1>5, <2>1, <3>1, <3>2
  <2>2. CASE thread.state # "idle"
    <3>1. /\ handler' = [NoHandler EXCEPT !.in = "stop", !.term = term] /\ disk' = disk
          /\ thread' = thread /\ events' = events
      BY <1>12, <2>2 DEF FindInFiles
    <3>2. handler'.items = <<>>
      BY <3>1 DEF NoHandler
    <3> QED
      BY <1>0, <1>4, <1>5, <3>1, <3>2 DEF FilesKnown
  <2> QED
    BY <2>1, <2>2
<1> QED
  BY <1>8, <1>9, <1>10, <1>11, <1>12

-----------------------------------------------------------------------------
(* So do editing, and what the panel is shown.                             *)

\* Steps in which only the panel is shown something else.
LEMMA ShownStep ==
  ASSUME SearchTypeOK, SearchTypeOK', RowsInv, Moves, FilesKnown', handler' = handler,
         StandInTurn(panel.rows)', StandInTurn(RowsIn(events))', Before(panel'.rows, RowsIn(events'))
  PROVE  RowsInv'
<1>1. /\ StandInTurn(handler.items) /\ OneSearch(handler.items)
      /\ handler.in \notin {"blank", "readonly"} => handler.items = <<>>
  BY DEF RowsInv
<1>2. StandInTurn(handler.items)'
  BY <1>1, TypesOf, StandsStill DEF StandInTurn
<1> QED
  BY <1>1, <1>2 DEF RowsInv

LEMMA StillMoves ==
  ASSUME SearchTypeOK
  PROVE  Newer(text, text) /\ ThreadMoves(thread, thread) /\ thread.line \in Nat
<1>1. thread.line \in Nat /\ text \in Texts
  BY ThreadFields DEF SearchTypeOK
<1> QED
  BY <1>1, KnownItself DEF ThreadMoves

\* Rows of which the sources differ, or that mark what is looked for somewhere
\* else, are in no order.
LEMMA Unrelated ==
  ASSUME NEW p \in Seq(Rows), NEW q \in Seq(Rows),
         \A i \in DOMAIN p, j \in DOMAIN q : p[i].source # q[j].source \/ p[i].run # q[j].run
  PROVE  Before(p, q)
BY DEF Before, InTurn

\* Rows of the other two searches stand anywhere, in any order.
NotOfFile(rows) == \A i \in DOMAIN rows : rows[i].source # "file"

LEMMA OthersStand ==
  ASSUME NEW rows, NotOfFile(rows)
  PROVE  /\ \A t, th : Standing(rows, t, th)
         /\ RowsInTurn(rows) /\ \A r : Before(rows, r) /\ Before(r, rows)
<1>1. \A t, th : Standing(rows, t, th)
  BY DEF NotOfFile, Standing, Valid, Passed
<1>2. RowsInTurn(rows) /\ \A r : Before(rows, r) /\ Before(r, rows)
  BY DEF NotOfFile, RowsInTurn, Before, InTurn
<1> QED
  BY <1>1, <1>2

LEMMA PostedSource ==
  ASSUME SearchTypeOK
  PROVE  \A j \in DOMAIN RowsIn(events) : RowsIn(events)[j].source = "file" /\ RowsIn(events)[j].run # 0
<1> DEFINE rows == RowsIn(events)
<1>1. rows \in Seq(Found)
  BY TypesOf
<1> HIDE DEF rows
<1>2. \A j \in DOMAIN rows : rows[j] \in Found
  BY <1>1
<1> QED
  BY <1>2 DEF Found, rows

LEMMA OthersKeepRows ==
  ASSUME SearchTypeOK, SearchTypeOK', RowsInv,
         \/ NewSearch \/ \E term \in Terms : FindReferences(term)
         \/ \E l \in DOMAIN text.lines : Edit(l)
  PROVE  RowsInv'
<1>0. /\ panel \in Panels /\ text \in Texts /\ disk \in Texts /\ thread.file \in Texts
      /\ text.ver \in Nat /\ FilesKnown
  BY TypesOf DEF RowsInv, Texts
<1>1. UNCHANGED <<thread, events, handler>>
  BY DEF NewSearch, FindReferences, Edit
<1>2. ThreadMoves(thread, thread')
  BY <1>1, StillMoves
<1>3. CASE NewSearch
  <2>1. panel'.rows = panel.rows /\ UNCHANGED <<text, disk>>
    BY <1>0, <1>3 DEF NewSearch, Panels
  <2>2. Moves /\ FilesKnown'
    BY <1>0, <1>1, <1>2, <2>1, StillMoves DEF Moves, FilesKnown
  <2> QED
    BY <1>1, <2>1, <2>2, QuietStep
<1>5. ASSUME NEW term \in Terms, FindReferences(term) PROVE RowsInv'
  <2>1. disk' = text /\ UNCHANGED <<text, panel>>
    BY <1>5 DEF FindReferences
  <2>2. Moves /\ FilesKnown'
    BY <1>0, <1>1, <1>2, <2>1, StillMoves, KnownItself DEF Moves, FilesKnown
  <2> QED
    BY <1>1, <2>1, <2>2, QuietStep
<1>6. ASSUME NEW l \in DOMAIN text.lines, Edit(l) PROVE RowsInv'
  <2>1. text'.ver = text.ver + 1 /\ UNCHANGED <<disk, panel>>
    BY <1>6 DEF Edit
  <2>2. Newer(text, text') /\ text' \in Texts
    BY <1>0, <2>1 DEF Newer, SearchTypeOK
  <2>3. FilesKnown'
    BY <1>0, <1>1, <2>1, <2>2, KnownStays DEF FilesKnown
  <2>4. Moves
    BY <1>2, <2>1, <2>2, StillMoves DEF Moves
  <2> QED
    BY <1>1, <2>1, <2>3, <2>4, QuietStep
<1> QED
  BY <1>3, <1>5, <1>6

\* Rows of the other two searches are shown, behind the old ones or instead of them.
LEMMA ShowsOthers ==
  ASSUME SearchTypeOK, SearchTypeOK', RowsInv, UNCHANGED <<text, thread, events, handler>>, FilesKnown',
         NEW old \in {<<>>, panel.rows}, NEW rows \in Seq(Rows), NotOfFile(rows),
         panel'.rows = old \o rows
  PROVE  RowsInv'
<1> DEFINE E == RowsIn(events)
<1>1. Moves
  BY StillMoves DEF Moves
<1>2. /\ old \in Seq(Rows) /\ E \in Seq(Rows)
      /\ Standing(old, text, thread) /\ RowsInTurn(old) /\ Before(old, E) /\ StandInTurn(E)
  <2>1. CASE old = <<>>
    BY <2>1, TypesOf, NoRows DEF RowsInv
  <2>2. CASE old = panel.rows
    BY <2>2, TypesOf DEF RowsInv, StandInTurn
  <2> QED
    BY <2>1, <2>2
<1>3. Standing(rows, text, thread) /\ RowsInTurn(rows) /\ Before(old, rows) /\ Before(rows, E)
  BY OthersStand
<1>4. StandInTurn(panel.rows)'
  BY <1>2, <1>3, StandingConcat, TurnConcat DEF StandInTurn
<1>5. StandInTurn(RowsIn(events))'
  BY <1>2 DEF StandInTurn
<1>6. Before(panel'.rows, RowsIn(events'))
  BY <1>2, <1>3, BeforeConcat
<1> QED
  BY <1>1, <1>4, <1>5, <1>6, ShownStep

LEMMA UsagesKeepRows ==
  ASSUME SearchTypeOK, SearchTypeOK', RowsInv,
         \/ UsagesHead \/ UsagesError \/ UsagesOutput \/ UsagesFinish
         \/ \E term \in Terms : FindUsages(term)
  PROVE  RowsInv'
<1>1. UNCHANGED <<text, thread, events, handler>> /\ (disk' = disk \/ disk' = text)
  BY DEF UsagesHead, UsagesError, UsagesOutput, UsagesFinish, FindUsages
<1>2. FilesKnown'
  BY <1>1, TypesOf, KnownItself DEF FilesKnown, RowsInv
<1>3. CASE UsagesHead \/ UsagesError \/ UsagesOutput \/ UsagesFinish
  <2>1. PICK rows \in Seq(RowsOfRun("usages", 0)) : panel'.rows = panel.rows \o rows
    BY <1>3, UsagesPanel
  <2>2. rows \in Seq(Rows) /\ NotOfFile(rows)
    BY RunsAreRows DEF RowsOfRun, NotOfFile
  <2> QED
    BY <1>1, <1>2, <2>1, <2>2, ShowsOthers
<1>4. CASE \E term \in Terms : FindUsages(term)
  <2>1. panel'.rows = <<>> \o <<>> /\ <<>> \in Seq(Rows) /\ NotOfFile(<<>>)
    BY <1>4 DEF FindUsages, FindStarted, NotOfFile
  <2> QED
    BY <1>1, <1>2, <2>1, ShowsOthers
<1> QED
  BY <1>3, <1>4

LEMMA ReferencesAnswerKeepsRows ==
  ASSUME SearchTypeOK, SearchTypeOK', RowsInv, ReferencesAnswer
  PROVE  RowsInv'
<1>1. UNCHANGED <<text, disk, thread, events, handler>>
  BY DEF ReferencesAnswer
<1>2. Moves /\ FilesKnown'
  BY <1>1, StillMoves DEF Moves, FilesKnown, RowsInv
<1>3. CASE panel' = panel
  BY <1>1, <1>2, <1>3, QuietStep
<1>4. CASE panel' = FindFinished(FindResult(FindStarted(panel, <<references.term>>, NoSearch), ShowLocations))
  <2>1. ShowLocations \in Seq(Rows) /\ NotOfFile(ShowLocations)
    BY ShownLocations, RunsAreRows DEF RowsOfRun, NotOfFile
  <2>2. panel'.rows = <<>> \o ShowLocations
    BY <1>4 DEF FindFinished, FindResult, FindStarted
  <2> QED
    BY <1>1, <1>2, <2>1, <2>2, ShowsOthers
<1> QED
  BY <1>3, <1>4 DEF ReferencesAnswer

LEMMA SearchesLineKeepsRows ==
  ASSUME SearchTypeOK, SearchTypeOK', RowsInv, SearchesLine
  PROVE  RowsInv'
<1> DEFINE run  == thread.run
           rows == LineRows("file", run, thread.term, thread.file, thread.line)
           P == panel.rows
           E == RowsIn(events)
<1>0. /\ thread.term \in Sought /\ thread.file \in Texts /\ thread.line \in Nat \ {0} /\ run \in Nat \ {0}
      /\ thread \in Threads /\ thread.state = "running" /\ Len(thread.file.lines) \in Nat
      /\ thread.line <= Len(thread.file.lines)
  BY ThreadFields, SMTT(30) DEF SearchTypeOK, SearchesLine, Texts
<1>1. thread.line \in DOMAIN thread.file.lines /\ rows \in Seq(Found)
  BY <1>0, LineFound
<1>2. /\ events' = events \o Posts(rows) /\ UNCHANGED <<text, disk, panel, handler>>
      /\ thread'.state = "running" /\ thread'.run = run /\ thread'.file = thread.file
      /\ thread'.line = IF finding THEN thread.line + 1 ELSE Len(thread.file.lines) + 1
  BY <1>0 DEF SearchesLine, Posts, Threads
<1>3. thread'.line > thread.line /\ thread'.line \in Nat
  BY <1>0, <1>2
<1>4. Hits(rows, "file", run, thread.term, thread.file, thread.line)
  BY <1>0, <1>1, LineRowsHit DEF Sources
<1>5. Known(thread.file, text)
  BY <1>0 DEF RowsInv, FilesKnown
<1>6. RowsIn(events') = E \o rows
  <2> HIDE DEF rows
  <2>1. events \in Seq(Events) /\ Posts(rows) \in Seq(Events) /\ RowsIn(Posts(rows)) = rows
    BY <1>1, RowsInPosts, TypesOf
  <2> QED
    BY <1>2, <2>1, RowsInConcat
<1> HIDE DEF rows
<1>7. LineStands(rows, "file", run, thread.line, text) /\ rows \in Seq(Rows)
  BY <1>0, <1>1, <1>4, <1>5, HitsStand DEF Hits
<1>8. Moves /\ FilesKnown'
  <2>1. ThreadMoves(thread, thread')
    BY <1>0, <1>2, <1>3 DEF ThreadMoves
  <2> QED
    BY <1>0, <1>2, <2>1, StillMoves DEF Moves, FilesKnown, RowsInv
<1>9. /\ P \in Seq(Rows) /\ E \in Seq(Rows)
      /\ StandInTurn(P) /\ StandInTurn(E) /\ Before(P, E)
  BY TypesOf DEF RowsInv
<1>10. /\ Standing(P, text', thread') /\ RowsInTurn(P)
       /\ Standing(E, text', thread') /\ RowsInTurn(E)
  BY <1>8, <1>9, StandsStill
<1>11. ASSUME NEW s \in Seq(Rows), StandInTurn(s) PROVE Before(s, rows)
  <2> SUFFICES ASSUME NEW i \in DOMAIN s, NEW j \in DOMAIN rows PROVE InTurn(s[i], rows[j])
    BY DEF Before
  <2>1. rows[j].source = "file" /\ rows[j].run = run /\ rows[j].line = thread.line
    BY <1>7 DEF LineStands
  <2>2. Passed(s[i], thread)
    BY <1>11 DEF StandInTurn, Standing
  <2> QED
    BY <1>0, <2>1, <2>2 DEF InTurn, Behind, Passed
<1>12. Before(P, rows) /\ Before(E, rows)
  BY <1>9, <1>11
<1>13. Standing(rows, text', thread') /\ RowsInTurn(rows)
  <2>1. \A i \in DOMAIN rows : /\ Valid(rows[i], text) /\ rows[i].source = "file"
                               /\ rows[i].run = run /\ rows[i].line = thread.line
    BY <1>7 DEF LineStands
  <2>2. ASSUME NEW i \in DOMAIN rows PROVE Passed(rows[i], thread')
    <3>1. rows[i].source = "file" /\ rows[i].run = run /\ rows[i].line = thread.line
      BY <2>1
    <3>2. thread.line < thread'.line /\ run <= thread'.run
      BY <1>0, <1>2, <1>3
    <3> QED
      BY <1>2, <3>1, <3>2 DEF Passed
  <2> QED
    BY <1>2, <1>7, <2>1, <2>2 DEF Standing, LineStands
<1> HIDE DEF P, E
<1>14. Standing(E \o rows, text', thread')
  BY <1>7, <1>9, <1>10, <1>13, StandingConcat
<1>15. RowsInTurn(E \o rows)
  BY <1>7, <1>9, <1>10, <1>12, <1>13, TurnConcat
<1>16. Before(P, E \o rows)
  BY <1>7, <1>9, <1>12, BeforeConcat
<1>17. StandInTurn(panel.rows)' /\ handler' = handler /\ panel'.rows = P
  BY <1>2, <1>10 DEF StandInTurn, P
<1>18. StandInTurn(RowsIn(events))'
  BY <1>6, <1>14, <1>15 DEF StandInTurn
<1>19. Before(panel'.rows, RowsIn(events'))
  BY <1>6, <1>16, <1>17
<1> QED
  BY <1>8, <1>17, <1>18, <1>19, ShownStep

LEMMA DeliversKeepsRows ==
  ASSUME SearchTypeOK, SearchTypeOK', RowsInv, Delivers
  PROVE  RowsInv'
<1> DEFINE e == Head(events)
           P == panel.rows
           E == RowsIn(events)
           T == RowsIn(events')
<1>1. /\ e \in Events /\ events \in Seq(Events) /\ events # <<>> /\ events' = Tail(events)
      /\ UNCHANGED <<text, disk, thread, handler>> /\ events' \in Seq(Events)
      /\ panel \in Panels
  BY DEF Delivers, SearchTypeOK
<1>2. E = RowIn(e) \o T /\ RowIn(e) \in Seq(Found)
  BY <1>1, RowsInHead, RowInType
<1>3. Moves /\ FilesKnown'
  BY <1>1, StillMoves DEF Moves, FilesKnown, RowsInv
<1>4. /\ P \in Seq(Rows) /\ E \in Seq(Rows) /\ StandInTurn(P) /\ StandInTurn(E) /\ Before(P, E)
  BY TypesOf DEF RowsInv
<1>5. T \in Seq(Rows) /\ RowIn(e) \in Seq(Rows)
  <2>1. T \in Seq(Found)
    <3>1. [is |-> "finished"] \in Events
      BY DEF Events
    <3> QED
      BY <1>1, <3>1, RowsInAppend
  <2> HIDE DEF T, e
  <2>2. Found \subseteq Rows
    BY DEF Found
  <2> QED
    BY <1>2, <2>1, <2>2
<1>6. /\ Standing(P, text', thread') /\ RowsInTurn(P)
      /\ Standing(E, text', thread') /\ RowsInTurn(E)
  BY <1>3, <1>4, StandsStill
<1>7. panel'.rows = IF e.is = "started" THEN <<>> ELSE P \o RowIn(e)
  <2>1. CASE e.is = "started"
    BY <2>1 DEF Delivers, FindStarted
  <2>2. CASE e.is = "result"
    BY <1>1, <2>2 DEF Delivers, FindResult, RowIn, Panels
  <2>3. CASE e.is = "finished"
    <3>1. panel'.rows = P
      BY <1>1, <2>3 DEF Delivers, FindFinished, Panels
    <3>2. P \o <<>> = P
      BY <1>4
    <3> QED
      BY <2>3, <3>1, <3>2 DEF RowIn
  <2> QED
    BY <1>1, <2>1, <2>2, <2>3 DEF Events
<1> DEFINE r == RowIn(e)
<1> HIDE DEF r, P, E, T, e
<1>8. r \in Seq(Rows) /\ T \in Seq(Rows) /\ P \in Seq(Rows) /\ E = r \o T
  BY <1>2, <1>4, <1>5 DEF r
<1>9. Standing(r, text', thread') /\ Standing(T, text', thread')
  BY <1>6, <1>8, StandingConcat
<1>10. RowsInTurn(r) /\ RowsInTurn(T) /\ Before(r, T)
  BY <1>6, <1>8, TurnConcat
<1>11. Before(P, r) /\ Before(P, T)
  BY <1>4, <1>8, BeforeConcat
<1>12. Standing(P \o r, text', thread')
  BY <1>6, <1>8, <1>9, StandingConcat
<1>13. RowsInTurn(P \o r)
  BY <1>6, <1>8, <1>10, <1>11, TurnConcat
<1>14. Before(P \o r, T)
  BY <1>8, <1>10, <1>11, BeforeConcat
<1>15. panel'.rows = <<>> \/ panel'.rows = P \o r
  BY <1>7 DEF r
<1>16. StandInTurn(panel.rows)' /\ Before(panel'.rows, T)
  BY <1>12, <1>13, <1>14, <1>15, NoRows DEF StandInTurn
<1>17. StandInTurn(RowsIn(events))'
  BY <1>9, <1>10 DEF StandInTurn, T
<1> QED
  BY <1>1, <1>3, <1>16, <1>17, ShownStep DEF T

-----------------------------------------------------------------------------
(* And so does replacing.                                                  *)

\* Rows of the other two searches stay such when they are replaced.
LEMMA ReplacedOthers ==
  ASSUME NEW lines \in Seq(Seq(Tokens)), NEW items \in Seq(Rows), NEW with \in Seq(Tokens),
         NotOfFile(items)
  PROVE  NotOfFile(Replace(lines, items, with).rows)
<1> DEFINE N == Len(items)
<1>1. PICK f : ReplaceLoop(lines, items, with, f)
  BY ReplaceIsLoop
<1>2. /\ N \in Nat /\ f \in [0..N -> Doing] /\ f[0] = Undone(lines)
      /\ \A n \in 1..N : f[n] = ReplaceItem(f[n - 1], items[n], with)
      /\ Replace(lines, items, with) = f[N]
  BY <1>1 DEF ReplaceLoop
<1>3. DOMAIN items = 1..N /\ \A n \in 1..N : items[n] \in Rows
  OBVIOUS
<1> DEFINE holds == {n \in 0..N : NotOfFile(f[n].rows)}
<1> HIDE DEF N
<1>4. 0 \in holds
  <2>1. f[0].rows = <<>> /\ DOMAIN <<>> = {} /\ 0 \in 0..N
    BY <1>2 DEF Undone
  <2> QED
    BY <2>1 DEF NotOfFile
<1>5. ASSUME NEW n \in 0..(N - 1), n \in holds PROVE n + 1 \in holds
  <2> DEFINE done == f[n]
             item == items[n + 1]
             rows == done.rows
  <2>1. n + 1 \in 1..N /\ n + 1 \in 0..N /\ (n + 1) - 1 = n /\ n \in 0..N
    BY <1>2
  <2>2. done \in Doing /\ f[n + 1] = ReplaceItem(done, item, with) /\ item.source # "file"
        /\ item \in Rows /\ NotOfFile(rows)
    <3>1. item \in Rows
      BY <1>3, <2>1
    <3>2. item.source # "file"
      BY <1>3, <2>1 DEF NotOfFile
    <3>3. done \in Doing
      BY <1>2, <2>1
    <3>4. f[n + 1] = ReplaceItem(done, item, with)
      BY <1>2, <2>1
    <3>5. NotOfFile(rows)
      BY <1>5
    <3> QED
      BY <3>1, <3>2, <3>3, <3>4, <3>5
  <2> HIDE DEF done, item
  <2>3. PICK col : f[n + 1].rows = Append(rows, [item EXCEPT !.col = col, !.len = Len(with), !.marks = with])
    <3> DEFINE c == (IF item.line > done.block THEN 0 ELSE done.offset) + item.col
    <3>1. ReplaceItem(done, item, with).rows
            = Append(rows, [item EXCEPT !.col = c, !.len = Len(with), !.marks = with])
      BY DEF ReplaceItem
    <3> HIDE DEF c
    <3> QED
      BY <2>2, <3>1
  <2>4. PICK row : f[n + 1].rows = Append(rows, row) /\ row.source # "file"
    <3>1. [item EXCEPT !.col = col, !.len = Len(with), !.marks = with].source = item.source
      BY <2>2 DEF Rows
    <3> QED
      BY <2>2, <2>3, <3>1
  <2>5. rows \in Seq(Rows)
    BY <2>2, DoingFields
  <2> HIDE DEF rows
  <2>6. /\ Len(rows) \in Nat /\ DOMAIN Append(rows, row) = 1..(Len(rows) + 1)
        /\ Append(rows, row)[Len(rows) + 1] = row
        /\ \A i \in 1..Len(rows) : Append(rows, row)[i] = rows[i] /\ i \in DOMAIN rows
    BY <2>5
  <2>7. \A i \in 1..(Len(rows) + 1) : i \in 1..Len(rows) \/ i = Len(rows) + 1
    BY <2>6
  <2>8. NotOfFile(Append(rows, row))
    BY <2>2, <2>4, <2>6, <2>7 DEF NotOfFile
  <2> QED
    BY <2>1, <2>4, <2>8
<1> HIDE DEF holds
<1>6. 0..N \subseteq holds
  BY <1>2, <1>4, <1>5, UpTo
<1>7. N \in holds
  BY <1>2, <1>6
<1> QED
  BY <1>2, <1>7 DEF holds

\* What a row of the panel becomes of what was replaced.
Renewed(row, old, new) == [row EXCEPT !.run = 0, !.ver = IF @ = old THEN new ELSE @]

LEMMA RenewedIs ==
  ASSUME NEW row \in Rows, NEW old, NEW new \in Nat
  PROVE  /\ Renewed(row, old, new) \in Rows
         /\ Renewed(row, old, new).source = row.source /\ Renewed(row, old, new).run = 0
         /\ Renewed(row, old, new).line = row.line /\ Renewed(row, old, new).col = row.col
         /\ Renewed(row, old, new).len = row.len /\ Renewed(row, old, new).marks = row.marks
         /\ Renewed(row, old, new).ver = IF row.ver = old THEN new ELSE row.ver
BY DEF Rows, Renewed

\* Items of one search that stand in the text are in line.
LEMMA ItemsInLine ==
  ASSUME NEW items \in Seq(Rows), StandInTurn(items), OneSearch(items), ~NotOfFile(items)
  PROVE  InLine(items) /\ \A i \in DOMAIN items : items[i].source = "file"
<1>1. \A i \in DOMAIN items : items[i].source = "file"
  BY DEF OneSearch, NotOfFile
<1>2. \A i \in DOMAIN items : Valid(items[i], text)
  BY DEF StandInTurn, Standing
<1>3. \A i \in DOMAIN items : items[i].line >= 1
  BY <1>1, <1>2 DEF Valid
<1>4. \A i, j \in DOMAIN items : i < j => Behind(items[i], items[j])
  BY <1>1 DEF StandInTurn, RowsInTurn, InTurn, OneSearch
<1> QED
  BY <1>1, <1>3, <1>4 DEF InLine

\* If one of them is of the text as it is, all on its line are.
LEMMA LineFits ==
  ASSUME SearchTypeOK, NEW items \in Seq(Rows), StandInTurn(items), InLine(items),
         \A i \in DOMAIN items : items[i].source = "file",
         NEW i \in DOMAIN items, items[i].ver = text.ver
  PROVE  /\ items[i].line \in DOMAIN text.lines
         /\ \A j \in 1..Len(items) : items[j].line = items[i].line => Fits(text.lines[items[i].line], items[j])
<1>1. \A j \in DOMAIN items : Valid(items[j], text)
  BY DEF StandInTurn, Standing
<1>2. DOMAIN items = 1..Len(items) /\ DOMAIN items \subseteq Int
  OBVIOUS
<1>3. ASSUME NEW j \in DOMAIN items, items[j].line = items[i].line
      PROVE  Fits(text.lines[items[i].line], items[j])
  <2>1. items[j].ver = text.ver
    <3>1. i < j \/ j < i \/ i = j
      BY <1>2
    <3>2. items[i].line \in Int /\ items[j].line \in Int
      BY RowFields
    <3> QED
      BY <1>3, <3>1, <3>2 DEF InLine, Behind
  <2> QED
    BY <1>1, <1>3, <2>1 DEF Valid, Sits
<1> QED
  BY <1>1, <1>2, <1>3 DEF Valid, Sits

\* The rows of what was replaced, as the panel shows them.
Shows(rows, done, old, new) ==
  /\ rows \in Seq(Rows) /\ Len(rows) = Len(done)
  /\ \A i \in 1..Len(done) :
       /\ rows[i].source = done[i].source /\ rows[i].run = 0
       /\ rows[i].line = done[i].line /\ rows[i].col = done[i].col
       /\ rows[i].len = done[i].len /\ rows[i].marks = done[i].marks
       /\ rows[i].ver = IF done[i].ver = old THEN new ELSE done[i].ver

LEMMA RenewedRows ==
  ASSUME NEW done \in Seq(Rows), NEW old, NEW new \in Nat
  PROVE  Shows([i \in DOMAIN done |-> Renewed(done[i], old, new)], done, old, new)
<1> DEFINE N == Len(done)
           rows == [i \in DOMAIN done |-> Renewed(done[i], old, new)]
<1>1. N \in Nat /\ DOMAIN done = 1..N /\ \A i \in 1..N : done[i] \in Rows
  OBVIOUS
<1>2. \A i \in 1..N : rows[i] = Renewed(done[i], old, new)
  BY <1>1
<1>3. \A i \in 1..N : Renewed(done[i], old, new) \in Rows
  BY <1>1, RenewedIs
<1>4. rows \in [1..N -> Rows]
  BY <1>1, <1>3
<1> HIDE DEF rows, N
<1>5. rows \in Seq(Rows) /\ Len(rows) = N
  BY <1>1, <1>4, IsSeq
<1>6. ASSUME NEW i \in 1..N
      PROVE  /\ rows[i].source = done[i].source /\ rows[i].run = 0
             /\ rows[i].line = done[i].line /\ rows[i].col = done[i].col
             /\ rows[i].len = done[i].len /\ rows[i].marks = done[i].marks
             /\ rows[i].ver = IF done[i].ver = old THEN new ELSE done[i].ver
  BY <1>1, <1>2, RenewedIs
<1>7. Shows(rows, done, old, new)
  BY <1>5, <1>6 DEF Shows, N
<1> QED
  BY <1>7 DEF rows

\* What replacing leaves in the panel, and that it stands in the text that it leaves.
Leaves(rows, t, th) ==
  /\ rows \in Seq(Rows) /\ Standing(rows, t, th) /\ RowsInTurn(rows)
  /\ \A i \in DOMAIN rows : rows[i].run = 0

LEMMA ReplacedStand ==
  ASSUME NEW lines \in Seq(Seq(Tokens)), NEW with \in Seq(Tokens), NEW items \in Seq(Rows), NotOfFile(items),
         NEW rows, NEW old, NEW new, Shows(rows, Replace(lines, items, with).rows, old, new)
  PROVE  \A t, th : Leaves(rows, t, th)
<1> DEFINE done == Replace(lines, items, with).rows
<1>1. NotOfFile(done) /\ done \in Seq(Rows)
  BY ReplacedOthers, ReplaceType, DoingFields
<1> HIDE DEF done
<1>2. rows \in Seq(Rows) /\ Len(rows) = Len(done)
      /\ \A i \in 1..Len(done) : rows[i].source = done[i].source /\ rows[i].run = 0
  BY DEF Shows, done
<1>3. DOMAIN rows = 1..Len(done) /\ DOMAIN done = 1..Len(done)
  BY <1>1, <1>2
<1>4. NotOfFile(rows) /\ \A i \in DOMAIN rows : rows[i].run = 0
  BY <1>1, <1>2, <1>3 DEF NotOfFile
<1>5. RowsInTurn(rows) /\ \A t, th : Standing(rows, t, th)
  BY <1>4, OthersStand
<1> QED
  BY <1>2, <1>4, <1>5 DEF Leaves

\* What a row in the panel has of its item, after replacing.
After(item, with, d, old, new, row) ==
  /\ row.source = item.source /\ row.run = 0 /\ row.line = item.line
  /\ row.col = d.col /\ row.len = Len(with) /\ row.marks = with
  /\ row.ver = IF item.ver = old THEN new ELSE item.ver
  /\ d.line = item.line /\ d.len = Len(with) /\ d.ver = item.ver

LEMMA ItemsAfter ==
  ASSUME NEW items \in Seq(Rows), NEW with \in Seq(Tokens), NEW d, RowsDone(items, with, Len(items), d),
         NEW old, NEW new, NEW rows, Shows(rows, d.rows, old, new)
  PROVE  /\ Len(rows) = Len(items)
         /\ \A i \in 1..Len(items) : After(items[i], with, d.rows[i], old, new, rows[i])
<1>1. Len(d.rows) = Len(items) /\ \A i \in 1..Len(items) : Becomes(items[i], with, d.rows[i])
  BY DEF RowsDone
<1>2. Len(rows) = Len(items) /\ \A i \in 1..Len(items) :
       /\ rows[i].source = d.rows[i].source /\ rows[i].run = 0
       /\ rows[i].line = d.rows[i].line /\ rows[i].col = d.rows[i].col
       /\ rows[i].len = d.rows[i].len /\ rows[i].marks = d.rows[i].marks
       /\ rows[i].ver = IF d.rows[i].ver = old THEN new ELSE d.rows[i].ver
  BY <1>1 DEF Shows
<1>3. ASSUME NEW i \in 1..Len(items) PROVE After(items[i], with, d.rows[i], old, new, rows[i])
  <2>1. Becomes(items[i], with, d.rows[i])
    BY <1>1
  <2> QED
    BY <1>2, <2>1 DEF Becomes, After
<1> QED
  BY <1>2, <1>3

LEMMA ItemsStand ==
  ASSUME SearchTypeOK, NEW with \in Seq(Tokens), NEW items \in Seq(Rows),
         StandInTurn(items), OneSearch(items), ~NotOfFile(items),
         NEW t \in Texts, t.lines = Replace(text.lines, items, with).lines, t.ver = text.ver + 1,
         NEW rows, Shows(rows, Replace(text.lines, items, with).rows, text.ver, t.ver)
  PROVE  Leaves(rows, t, thread)
<1> DEFINE d == Replace(text.lines, items, with)
           N == Len(items)
<1>1. /\ text.lines \in Seq(Seq(Tokens)) /\ text.ver \in Nat /\ t.ver = text.ver + 1 /\ t.lines = d.lines
      /\ t.lines \in Seq(Seq(Tokens))
  BY DEF SearchTypeOK, Texts
<1>2. InLine(items) /\ \A i \in DOMAIN items : items[i].source = "file"
  BY ItemsInLine
<1>3. RowsDone(items, with, N, d) /\ Len(d.lines) = Len(text.lines)
  BY <1>1, <1>2, ReplacedRows
<1>4. \A l \in DOMAIN text.lines :
        (\A i \in 1..Len(items) : items[i].line = l => Fits(text.lines[l], items[i]))
        => Replacement(text.lines, items, with, l, d)
  BY <1>1, <1>2, ReplacedLine
<1>5. rows \in Seq(Rows) /\ Shows(rows, d.rows, text.ver, t.ver)
  BY DEF Shows
<1> HIDE DEF d
<1>6. Len(rows) = N /\ \A i \in 1..N : After(items[i], with, d.rows[i], text.ver, t.ver, rows[i])
  BY <1>3, <1>5, ItemsAfter
<1>7. N \in Nat /\ DOMAIN items = 1..N /\ DOMAIN rows = 1..N
      /\ \A i \in 1..N : items[i] \in Rows /\ rows[i] \in Rows
  BY <1>5, <1>6
<1>8. /\ \A i, j \in 1..N : i < j => Behind(d.rows[i], d.rows[j])
      /\ \A i \in 1..N : Valid(items[i], text) /\ Passed(items[i], thread)
  BY <1>3, <1>7 DEF RowsDone, StandInTurn, Standing
<1>9. DOMAIN t.lines = DOMAIN text.lines
  BY <1>1, <1>3
<1>10. ASSUME NEW i \in 1..N, items[i].ver = text.ver PROVE Sits(rows[i], t)
  <2> DEFINE l == items[i].line
  <2>1. /\ l \in DOMAIN text.lines
        /\ \A j \in 1..Len(items) : items[j].line = l => Fits(text.lines[l], items[j])
    BY <1>2, <1>7, <1>10, LineFits
  <2>2. /\ d.rows[i].line = l /\ rows[i].line = l /\ rows[i].col = d.rows[i].col
        /\ rows[i].len = Len(with) /\ rows[i].marks = with
    BY <1>6 DEF After
  <2> HIDE DEF l
  <2>3. Replacement(text.lines, items, with, l, d)
    BY <1>4, <2>1
  <2>4. Has(t.lines[l], rows[i].col, with)
    BY <1>1, <1>7, <2>2, <2>3 DEF Replacement
  <2>5. l \in DOMAIN t.lines /\ t.lines[l] \in Seq(Tokens)
    <3>1. l \in DOMAIN t.lines
      BY <1>9, <2>1
    <3> QED
      BY <1>1, <3>1
  <2>6. /\ rows[i] \in Rows /\ rows[i].line \in DOMAIN t.lines /\ t.lines[rows[i].line] \in Seq(Tokens)
        /\ Has(t.lines[rows[i].line], rows[i].col, with)
    BY <1>7, <2>2, <2>4, <2>5
  <2> QED
    BY <2>2, <2>6, HasSits
<1> HIDE DEF N
<1>11. ASSUME NEW i \in 1..N PROVE Valid(rows[i], t) /\ Passed(rows[i], thread)
  <2>1. Valid(items[i], text) /\ Passed(items[i], thread) /\ items[i].source = "file"
        /\ items[i].ver \in Nat /\ text.ver \in Nat
    BY <1>1, <1>2, <1>7, <1>8, RowFields
  <2>2. items[i].ver <= text.ver /\ items[i].line >= 1
    BY <2>1 DEF Valid
  <2>3. /\ rows[i].source = items[i].source /\ rows[i].run = 0 /\ rows[i].line = items[i].line
        /\ rows[i].ver = IF items[i].ver = text.ver THEN t.ver ELSE items[i].ver
    BY <1>6 DEF After
  <2>4. rows[i].ver <= t.ver /\ (rows[i].ver = t.ver => items[i].ver = text.ver)
    <3> DEFINE v == items[i].ver
               w == text.ver
    <3>1. v \in Nat /\ w \in Nat /\ v <= w /\ t.ver = w + 1 /\ rows[i].ver = IF v = w THEN t.ver ELSE v
      BY <1>1, <2>1, <2>2, <2>3
    <3> HIDE DEF v, w
    <3>2. rows[i].ver <= t.ver /\ (rows[i].ver = t.ver => v = w)
      BY <3>1
    <3> QED
      BY <3>2 DEF v, w
  <2>5. Valid(rows[i], t)
    BY <1>10, <2>2, <2>3, <2>4 DEF Valid
  <2>6. Passed(rows[i], thread)
    BY <2>1, <2>3 DEF Passed
  <2> QED
    BY <2>5, <2>6
<1>12. ASSUME NEW i \in 1..N, NEW j \in 1..N, i < j PROVE Behind(rows[i], rows[j])
  <2>1. Behind(d.rows[i], d.rows[j])
    BY <1>8, <1>12
  <2>2. /\ rows[i].line = d.rows[i].line /\ rows[j].line = d.rows[j].line
        /\ rows[i].col = d.rows[i].col /\ rows[j].col = d.rows[j].col
        /\ rows[i].len = d.rows[i].len
    BY <1>6 DEF After
  <2>3. d.rows[i].ver = d.rows[j].ver => rows[i].ver = rows[j].ver
    BY <1>6 DEF After
  <2> QED
    BY <2>1, <2>2, <2>3 DEF Behind
<1>13. Standing(rows, t, thread)
  BY <1>7, <1>11 DEF Standing
<1>14. RowsInTurn(rows)
  BY <1>7, <1>12 DEF RowsInTurn, InTurn
<1>15. \A i \in DOMAIN rows : rows[i].run = 0
  BY <1>6, <1>7 DEF After
<1> QED
  BY <1>5, <1>13, <1>14, <1>15 DEF Leaves

LEMMA DoReplaceKeepsRows ==
  ASSUME SearchTypeOK, SearchTypeOK', RowsInv, NEW with \in Seq(Tokens), NEW items \in Seq(Rows),
         StandInTurn(items), OneSearch(items), DoReplace(with, items),
         UNCHANGED <<thread, events>>, handler'.items = <<>>
  PROVE  RowsInv'
<1>1. ThreadMoves(thread, thread')
  BY StillMoves
<1> DEFINE done == Replace(text.lines, items, with)
           rows == [i \in DOMAIN done.rows |-> Renewed(done.rows[i], text.ver, text'.ver)]
           E == RowsIn(events)
<1>2. /\ text' = [lines |-> done.lines, ver |-> text.ver + 1] /\ disk' = text'
      /\ panel' = [panel EXCEPT !.rows = rows, !.term = with, !.of = NoSearch]
  BY DEF DoReplace, Renewed
<1>3. done.lines \in Seq(Seq(Tokens)) /\ done.rows \in Seq(Rows)
  <2>1. text.lines \in Seq(Seq(Tokens))
    BY TypesOf DEF Texts
  <2> QED
    BY <2>1, ReplaceType, DoingFields
<1>4. /\ text \in Texts /\ text' \in Texts /\ text.ver \in Nat /\ text'.ver = text.ver + 1
      /\ text'.lines = done.lines /\ text'.ver \in Nat
      /\ thread.file \in Texts /\ text.lines \in Seq(Seq(Tokens))
  BY <1>2, TypesOf DEF SearchTypeOK, Texts
<1>5. Shows(rows, done.rows, text.ver, text'.ver)
  <2> HIDE DEF done
  <2> QED
    BY <1>3, <1>4, RenewedRows
<1> HIDE DEF rows
<1>6. Leaves(rows, text', thread)
  <2>1. CASE NotOfFile(items)
    BY <1>4, <1>5, <2>1, ReplacedStand
  <2>2. CASE ~NotOfFile(items)
    BY <1>4, <1>5, <2>2, ItemsStand
  <2> QED
    BY <2>1, <2>2
<1> HIDE DEF done
<1>7. panel'.rows = rows
  BY <1>2, TypesOf DEF Panels
<1>8. Newer(text, text') /\ Moves
  BY <1>1, <1>4 DEF Newer, Moves
<1>9. FilesKnown'
  <2>1. Known(disk', text')
    BY <1>2, <1>4, KnownItself
  <2> QED
    BY <1>4, <1>8, <2>1, KnownStays DEF FilesKnown, RowsInv
<1>10. StandInTurn(panel.rows)'
  BY <1>6, <1>7 DEF StandInTurn, Leaves
<1>11. E \in Seq(Rows) /\ \A j \in DOMAIN E : E[j].run # 0
  BY TypesOf, PostedSource
<1>12. StandInTurn(RowsIn(events))'
  BY <1>8, <1>11, StandsStill DEF StandInTurn, RowsInv
<1>13. Before(panel'.rows, RowsIn(events'))
  <2>1. Before(rows, E)
    <3> HIDE DEF E
    <3>1. rows \in Seq(Rows) /\ \A i \in DOMAIN rows, j \in DOMAIN E : rows[i].run # E[j].run
      BY <1>6, <1>11 DEF Leaves
    <3> QED
      BY <1>11, <3>1, Unrelated
  <2> QED
    BY <1>7, <2>1
<1> QED
  BY <1>9, <1>10, <1>12, <1>13, NoRows DEF RowsInv, StandInTurn

LEMMA SelectedStands ==
  ASSUME NEW rows \in Seq(Rows), StandInTurn(rows), OneSearch(rows), NEW keep
  PROVE  /\ Selected(rows, keep) \in Seq(Rows)
         /\ StandInTurn(Selected(rows, keep)) /\ OneSearch(Selected(rows, keep))
<1> DEFINE items == Selected(rows, keep)
           N == Len(rows)
<1>1. items \in Seq(Rows) /\ Picked(rows, keep, N, items)
  BY SelectedPicked, SelectedType
<1>2. DOMAIN rows = 1..N
  OBVIOUS
<1> HIDE DEF items, N
<1>3. DOMAIN items = 1..Len(items)
  BY <1>1
<1>4. \A i \in DOMAIN items : \E a \in DOMAIN rows : items[i] = rows[a]
  BY <1>1, <1>2, <1>3 DEF Picked
<1>5. ASSUME NEW i \in DOMAIN items, NEW j \in DOMAIN items, i < j
      PROVE  \E a, b \in DOMAIN rows : a < b /\ items[i] = rows[a] /\ items[j] = rows[b]
  <2>1. i \in 1..Len(items) /\ j \in 1..Len(items)
    BY <1>3
  <2>2. PICK a, b \in 1..N : /\ a < b /\ a \in keep /\ b \in keep
                             /\ items[i] = rows[a] /\ items[j] = rows[b]
    BY <1>1, <1>5, <2>1 DEF Picked
  <2> QED
    BY <1>2, <2>2
<1>6. Standing(items, text, thread)
  BY <1>4 DEF StandInTurn, Standing
<1>7. RowsInTurn(items)
  <2> SUFFICES ASSUME NEW i \in DOMAIN items, NEW j \in DOMAIN items, i < j
               PROVE  InTurn(items[i], items[j])
    BY DEF RowsInTurn
  <2>1. PICK a, b \in DOMAIN rows : a < b /\ items[i] = rows[a] /\ items[j] = rows[b]
    BY <1>5
  <2> QED
    BY <2>1 DEF StandInTurn, RowsInTurn
<1>8. OneSearch(items)
  <2> SUFFICES ASSUME NEW i \in DOMAIN items, NEW j \in DOMAIN items
               PROVE  items[i].source = items[j].source /\ items[i].run = items[j].run
    BY DEF OneSearch
  <2>1. PICK a \in DOMAIN rows : items[i] = rows[a]
    BY <1>4
  <2>2. PICK b \in DOMAIN rows : items[j] = rows[b]
    BY <1>4
  <2> QED
    BY <2>1, <2>2 DEF OneSearch
<1> QED
  BY <1>1, <1>6, <1>7, <1>8 DEF items, StandInTurn

LEMMA ReplacingKeepsRows ==
  ASSUME SearchTypeOK, SearchTypeOK', RowsInv,
         \/ \E with \in Replacements, checked \in SUBSET DOMAIN panel.rows : PressReplace(with, checked)
         \/ \E yes \in BOOLEAN : Answers(yes)
  PROVE  RowsInv'
<1>0. /\ panel.rows \in Seq(Rows) /\ handler.items \in Seq(Rows) /\ handler.with \in Seq(Tokens)
      /\ StandInTurn(panel.rows) /\ StandInTurn(handler.items) /\ OneSearch(handler.items)
      /\ FilesKnown
  BY TypesOf DEF RowsInv, SearchTypeOK, Handlers
<1>1. UNCHANGED <<thread, events>> /\ NoHandler.items = <<>>
  BY DEF PressReplace, Answers, NoHandler
<1>2. ASSUME UNCHANGED <<text, disk>> PROVE Moves /\ FilesKnown'
  BY <1>0, <1>1, <1>2, StillMoves DEF Moves, FilesKnown
<1>3. ASSUME NEW with \in Seq(Tokens), NEW items \in Seq(Rows), StandInTurn(items), OneSearch(items),
             Outcome(with, items)
      PROVE  RowsInv'
  <2>1. CASE DoReplace(with, items) /\ handler' = NoHandler
    BY <1>1, <1>3, <2>1, DoReplaceKeepsRows
  <2>2. CASE NothingReplaced
    BY <1>1, <1>2, <2>2, QuietStep DEF NothingReplaced
  <2>3. ASSUME NEW in \in {"blank", "readonly"}, Question(in, with, items) PROVE RowsInv'
    <3>1. /\ handler' = [in |-> in, term |-> NoTerm, items |-> items, with |-> with]
          /\ UNCHANGED <<text, disk, panel>>
      BY <2>3 DEF Question
    <3>2. Moves /\ FilesKnown'
      BY <1>2, <3>1
    <3>3. StandInTurn(panel.rows)' /\ StandInTurn(RowsIn(events))' /\ Before(panel'.rows, RowsIn(events'))
      BY <1>1, <3>1 DEF RowsInv, StandInTurn
    <3>4. StandInTurn(handler.items)' /\ OneSearch(handler'.items) /\ handler'.in \in {"blank", "readonly"}
      BY <1>1, <1>3, <3>1 DEF StandInTurn
    <3> QED
      BY <3>2, <3>3, <3>4 DEF RowsInv
  <2> QED
    BY <1>3, <2>1, <2>2, <2>3 DEF Outcome
<1>4. ASSUME NEW with \in Replacements, NEW checked \in SUBSET DOMAIN panel.rows, PressReplace(with, checked)
      PROVE  RowsInv'
  <2> DEFINE items == Selected(panel.rows, checked)
  <2>1. OneSearch(panel.rows) /\ with \in Seq(Tokens)
    BY <1>4, SearchAssumption DEF PressReplace, Tokens
  <2>2. items \in Seq(Rows) /\ StandInTurn(items) /\ OneSearch(items)
    BY <1>0, <2>1, SelectedStands
  <2>3. Outcome(with, items)
    BY <1>4, ReplacesOutcome
  <2> HIDE DEF items
  <2> QED
    BY <1>3, <2>1, <2>2, <2>3
<1>5. ASSUME NEW yes \in BOOLEAN, Answers(yes) PROVE RowsInv'
  <2>1. Outcome(handler.with, handler.items)
    BY <1>5, ReplacesOutcome
  <2> QED
    BY <1>0, <1>3, <2>1
<1> QED
  BY <1>4, <1>5

LEMMA RowsInvInit == Init => RowsInv
<1> SUFFICES ASSUME Init PROVE RowsInv
  OBVIOUS
<1>1. SearchTypeOK
  BY SearchTypeInit
<1>2. /\ panel.rows = <<>> /\ handler.items = <<>> /\ RowsIn(events) = <<>> /\ disk = text
      /\ thread.state = "idle"
  BY RowsInEmpty DEF Init, NoHandler
<1>3. FilesKnown
  BY <1>1, <1>2, TypesOf, KnownItself DEF FilesKnown
<1> QED
  BY <1>2, <1>3, NoRows DEF RowsInv, StandInTurn

LEMMA RowsInvStep ==
  ASSUME SearchTypeOK, RowsInv, [Next]_vars
  PROVE  RowsInv'
<1>0. SearchTypeOK'
  BY SearchTypeStep
<1>1. CASE UNCHANGED vars
  <2>1. UNCHANGED <<text, disk, thread, events, handler, panel>>
    BY <1>1 DEF vars
  <2>2. Moves /\ FilesKnown'
    BY <2>1, StillMoves DEF Moves, FilesKnown, RowsInv
  <2> QED
    BY <1>0, <2>1, <2>2, QuietStep
<1>2. CASE \/ StopReturns \/ StopTerminates \/ RunBegins \/ RunEnds \/ Dies
           \/ \E term \in Sought : FindInFiles(term)
  BY <1>0, <1>2, ThreadKeepsRows
<1>3. CASE \/ NewSearch \/ \E term \in Terms : FindReferences(term)
           \/ \E l \in DOMAIN text.lines : Edit(l)
  BY <1>0, <1>3, OthersKeepRows
<1>4. CASE \/ UsagesHead \/ UsagesError \/ UsagesOutput \/ UsagesFinish
           \/ \E term \in Terms : FindUsages(term)
  BY <1>0, <1>4, UsagesKeepRows
<1>6. CASE ReferencesAnswer
  BY <1>0, <1>6, ReferencesAnswerKeepsRows
<1>7. CASE SearchesLine
  BY <1>0, <1>7, SearchesLineKeepsRows
<1>8. CASE Delivers
  BY <1>0, <1>8, DeliversKeepsRows
<1>9. CASE \/ \E with \in Replacements, checked \in SUBSET DOMAIN panel.rows : PressReplace(with, checked)
           \/ \E yes \in BOOLEAN : Answers(yes)
  BY <1>0, <1>9, ReplacingKeepsRows
<1> QED
  BY <1>1, <1>2, <1>3, <1>4, <1>6, <1>7, <1>8, <1>9 DEF Next

LEMMA RowsAreReplaced ==
  ASSUME SearchTypeOK, RowsInv
  PROVE  ReplacesWhatIsMarked
<1> DEFINE P == panel.rows
<1> SUFFICES ASSUME OneSearch(P), \A i \in DOMAIN P : P[i].source = "file" /\ P[i].ver = text.ver
             PROVE  /\ \A i \in DOMAIN P : Marks(P[i])
                    /\ \A with \in Replacements :
                         Replace(text.lines, P, with).lines =
                           [l \in DOMAIN text.lines |-> Replaced(text.lines[l], RowsOf(P, l), with)]
  BY DEF ReplacesWhatIsMarked
<1>1. P \in Seq(Rows) /\ StandInTurn(P) /\ text.lines \in Seq(Seq(Tokens))
  BY TypesOf DEF RowsInv, Texts
<1> HIDE DEF P
<1>2. \A i \in DOMAIN P : Sits(P[i], text)
  BY <1>1 DEF StandInTurn, Standing, Valid
<1>3. \A i \in DOMAIN P : Marks(P[i])
  BY <1>2 DEF Sits, Marks
<1>4. InLine(P)
  <2>1. CASE DOMAIN P = {}
    BY <2>1 DEF InLine
  <2>2. CASE DOMAIN P # {}
    <3>1. ~NotOfFile(P)
      BY <2>2 DEF NotOfFile
    <3> QED
      BY <1>1, <3>1, ItemsInLine
  <2> QED
    BY <2>1, <2>2
<1>5. ASSUME NEW with \in Replacements
      PROVE  Replace(text.lines, P, with).lines =
               [l \in DOMAIN text.lines |-> Replaced(text.lines[l], RowsOf(P, l), with)]
  <2> DEFINE d == Replace(text.lines, P, with)
  <2>1. with \in Seq(Tokens)
    BY SearchAssumption DEF Tokens
  <2>2. d \in Doing /\ Len(d.lines) = Len(text.lines)
    BY <1>1, <1>4, <2>1, ReplaceType, ReplacedRows
  <2>3. ASSUME NEW l \in DOMAIN text.lines PROVE d.lines[l] = Replaced(text.lines[l], RowsOf(P, l), with)
    <3>1. \A i \in 1..Len(P) : P[i].line = l => Fits(text.lines[l], P[i])
      BY <1>1, <1>2 DEF Sits
    <3>2. Replacement(text.lines, P, with, l, d)
      BY <1>1, <1>4, <2>1, <3>1, ReplacedLine
    <3> QED
      BY <3>2 DEF Replacement
  <2> HIDE DEF d
  <2>4. d.lines \in Seq(Seq(Tokens))
    BY <2>2, DoingFields
  <2>5. DOMAIN d.lines = DOMAIN text.lines /\ d.lines = [l \in DOMAIN d.lines |-> d.lines[l]]
    BY <1>1, <2>2, <2>4
  <2>6. d.lines = [l \in DOMAIN text.lines |-> Replaced(text.lines[l], RowsOf(P, l), with)]
    BY <2>3, <2>5
  <2> QED
    BY <2>6 DEF d
<1> QED
  BY <1>3, <1>5

\* Rows of Find in Files that are not older than the text mark what they are of,
\* and replacing, and replacing again, changes that and nothing else: in every
\* text of which each UTF-16 unit is one position of the cursor, whatever was
\* searched for, edited and replaced before, and however long the replacement is.
THEOREM ReplacesWhatIsMarkedHolds == Spec => []ReplacesWhatIsMarked
<1>1. Init => RowsInv
  BY RowsInvInit
<1>2. SearchTypeOK /\ RowsInv /\ [Next]_vars => RowsInv'
  BY RowsInvStep
<1>3. SearchTypeOK /\ RowsInv => ReplacesWhatIsMarked
  BY RowsAreReplaced
<1> QED
  BY <1>1, <1>2, <1>3, SearchTypesHold, PTL DEF Spec
===============================================================================
