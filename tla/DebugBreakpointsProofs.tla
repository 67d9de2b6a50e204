------------------------ MODULE DebugBreakpointsProofs ------------------------
(***************************************************************************)
(* Proofs about EditorMarks and DebugBreakpoints, for every finite set of  *)
(* files, texts of any length, any number of sessions and of commands      *)
(* delve has not read.                                                     *)
(***************************************************************************)
EXTENDS DebugBreakpoints, FiniteSetTheorems, WellFoundedInduction, TLAPS

-----------------------------------------------------------------------------
(* The marks of an editor.                                                 *)

\* Marks that move keep the index within them.
LEMMA UpdatedKeepsWithin ==
  ASSUME NEW nodes \in SUBSET Int, NEW index \in SUBSET nodes,
         NEW line \in Int, NEW d \in Int
  PROVE  LET m == UpdateMarksLineNumber([nodes |-> nodes, index |-> index], line, d)
         IN m = [nodes |-> m.nodes, index |-> m.index] /\ m.index \subseteq m.nodes
BY DEF UpdateMarksLineNumber

\* So do lines that are inserted.
LEMMA InsertLinesKeepsWithin ==
  ASSUME NEW nodes \in SUBSET Int, NEW index \in SUBSET nodes,
         NEW line \in Int, NEW k \in Int
  PROVE  LET m == InsertLines([nodes |-> nodes, index |-> index], line, k)
         IN m.index \subseteq m.nodes
BY UpdatedKeepsWithin DEF InsertLines

\* And lines that are deleted, with the marks that go with them.
LEMMA RemoveLinesKeepsWithin ==
  ASSUME NEW nodes \in SUBSET Int, NEW index \in SUBSET nodes,
         NEW line \in Int, NEW k \in Int
  PROVE  LET m == RemoveLines([nodes |-> nodes, index |-> index], line, k)
         IN m.index \subseteq m.nodes
<1> DEFINE gone == nodes \cap (line + 1)..(line + k)
           left == [nodes |-> nodes \ gone, index |-> index \ gone]
<1>1. RemoveLines([nodes |-> nodes, index |-> index], line, k)
        = UpdateMarksLineNumber(left, line, -k)
  BY DEF RemoveLines
<1>2. index \ gone \in SUBSET (nodes \ gone) /\ nodes \ gone \in SUBSET Int /\ -k \in Int
  OBVIOUS
<1> HIDE DEF gone
<1>3. LET m == UpdateMarksLineNumber(left, line, -k) IN m.index \subseteq m.nodes
  BY <1>2, UpdatedKeepsWithin
<1> QED
  BY <1>1, <1>3

-----------------------------------------------------------------------------
(* Places.                                                                 *)

\* A place is a line of a file.
LEMMA PlacesAreLocations ==
  /\ \A f \in Files, line \in Lines : Location(f, line) \in Places
  /\ \A f \in Files : Locations(f) \subseteq Places
  /\ \A loc \in Places : \E f \in Files, line \in Lines : loc = Location(f, line)
BY DEF Places, Locations

\* A place names its file and its line.
LEMMA LocationIsOne ==
  ASSUME NEW f, NEW g, NEW line, NEW other, line \in Int, other \in Int,
         Location(f, line) = Location(g, other)
  PROVE  f = g /\ line = other
BY DEF Location

\* Commands without a place are about no place.
LEMMA NoLocationIsNoPlace == NoLocation \notin Places
<1>1. \A f, line : Location(f, line) # NoLocation
  BY DEF Location, NoLocation
<1> QED
  BY <1>1, PlacesAreLocations

\* The lines of the instance are numbers.
LEMMA LinesAreIntegers ==
  ASSUME DebugAssumption
  PROVE  Lines \subseteq Int /\ Lines \subseteq Nat
BY DEF DebugAssumption, Lines

\* There are finitely many places.
LEMMA PlacesAreFinite ==
  ASSUME DebugAssumption
  PROVE  IsFiniteSet(Places)
<1> DEFINE placed == [p \in Files \X Lines |-> Location(p[1], p[2])]
<1>1. IsFiniteSet(Files \X Lines)
  <2>1. IsFiniteSet(Lines)
    BY FS_Interval DEF DebugAssumption, Lines
  <2> QED
    BY <2>1, FS_Product DEF DebugAssumption
<1>2. placed \in Surjection(Files \X Lines, Places)
  <2>1. \A p \in Files \X Lines : Location(p[1], p[2]) \in Places
    BY PlacesAreLocations
  <2>2. ASSUME NEW loc \in Places PROVE \E p \in Files \X Lines : placed[p] = loc
    <3>1. PICK f \in Files, line \in Lines : loc = Location(f, line)
      BY PlacesAreLocations
    <3>2. <<f, line>> \in Files \X Lines /\ placed[<<f, line>>] = Location(f, line)
      OBVIOUS
    <3> QED
      BY <3>1, <3>2
  <2> QED
    BY <2>1, <2>2 DEF Surjection
<1> QED
  BY <1>1, <1>2, FS_Surjection


-----------------------------------------------------------------------------
(* What is written.                                                        *)

\* What command_helper and its callers work on.
Sendings == [map : SUBSET Places, busy : BOOLEAN, pipe : Seq(Commands), lost : SUBSET Places]

Sendable(s) == s \in Sendings /\ (client # "running" => s.pipe = <<>>)

SendAgrees(s) ==
  \A loc \in Places \ s.lost : WillHave(dlv.bps, s.pipe, loc) <=> loc \in s.map

OthersAgree(s, loc) ==
  \A other \in Places \ (s.lost \cup {loc}) : WillHave(dlv.bps, s.pipe, other) <=> other \in s.map

\* A command at the end of the pipe decides what delve will have at its place.
LEMMA AppendedWillHave ==
  ASSUME NEW pipe \in Seq(Commands), NEW c \in Commands, NEW loc
  PROVE  WillHave(dlv.bps, Append(pipe, c), loc)
           <=> Breaks(c, loc) \/ (~Clears(c, loc) /\ WillHave(dlv.bps, pipe, loc))
<1> DEFINE longer == Append(pipe, c)
           n == Len(pipe) + 1
<1>1. /\ DOMAIN pipe = 1..Len(pipe) /\ Len(pipe) \in Nat
      /\ DOMAIN longer = 1..n
      /\ longer[n] = c
      /\ \A i \in DOMAIN pipe : longer[i] = pipe[i] /\ i < n
  OBVIOUS
<1>2. DOMAIN longer = DOMAIN pipe \cup {n}
  BY <1>1
<1>3. (\A i \in DOMAIN longer : ~Clears(longer[i], loc))
        <=> ~Clears(c, loc) /\ \A i \in DOMAIN pipe : ~Clears(pipe[i], loc)
  BY <1>1, <1>2
<1>4. CASE Breaks(c, loc)
  <2>1. n \in DOMAIN longer /\ \A j \in DOMAIN longer : ~(j > n)
    BY <1>1
  <2> QED
    BY <1>1, <1>4, <2>1 DEF WillHave
<1>5. CASE ~Breaks(c, loc) /\ Clears(c, loc)
  <2>1. ~ \E i \in DOMAIN longer : Breaks(longer[i], loc)
             /\ \A j \in DOMAIN longer : j > i => ~Clears(longer[j], loc)
    BY <1>1, <1>2, <1>5
  <2> QED
    BY <1>3, <1>5, <2>1 DEF WillHave
<1>6. CASE ~Breaks(c, loc) /\ ~Clears(c, loc)
  <2>1. ASSUME NEW i \in DOMAIN pipe
        PROVE  (\A j \in DOMAIN longer : j > i => ~Clears(longer[j], loc))
                 <=> (\A j \in DOMAIN pipe : j > i => ~Clears(pipe[j], loc))
    BY <1>1, <1>2, <1>6
  <2>2. (\E i \in DOMAIN longer : Breaks(longer[i], loc)
             /\ \A j \in DOMAIN longer : j > i => ~Clears(longer[j], loc))
        <=> (\E i \in DOMAIN pipe : Breaks(pipe[i], loc)
             /\ \A j \in DOMAIN pipe : j > i => ~Clears(pipe[j], loc))
    BY <1>1, <1>2, <1>6, <2>1
  <2> QED
    BY <1>3, <1>6, <2>2 DEF WillHave
<1> QED
  BY <1>4, <1>5, <1>6

\* t is s after command op, which was written or was lost.
SentAs(t, s, op, loc) ==
  /\ Sendable(t) /\ t.map = s.map /\ t.busy = TRUE
  /\ [op |-> op, loc |-> loc] \in Commands
  /\ \/ t.pipe = Append(s.pipe, [op |-> op, loc |-> loc]) /\ t.lost = s.lost \ {loc}
     \/ t.pipe = s.pipe /\ t.lost = s.lost \cup ({loc} \ {NoLocation})

\* What command_helper does to the pipe and to what is lost.
LEMMA CommandSends ==
  ASSUME NEW s, Sendable(s), NEW op, NEW loc, [op |-> op, loc |-> loc] \in Commands,
         NEW force \in BOOLEAN
  PROVE  SentAs(CommandHelper(s, op, loc, force), s, op, loc)
<1> DEFINE c == [op |-> op, loc |-> loc]
           t == CommandHelper(s, op, loc, force)
           written == ~(s.busy /\ ~force) /\ client = "running"
<1>1. c \in Commands /\ loc \in Places \cup {NoLocation}
  BY DEF Commands
<1>2. s \in Sendings /\ Append(s.pipe, c) \in Seq(Commands)
  BY <1>1 DEF Sendable, Sendings
<1>3. CASE written
  <2>1. t = [s EXCEPT !.busy = TRUE, !.pipe = Append(s.pipe, c), !.lost = s.lost \ {loc}]
    BY <1>2, <1>3 DEF CommandHelper, Sendings
  <2> QED
    BY <1>1, <1>2, <1>3, <2>1 DEF Sendings, Sendable, SentAs
<1>4. CASE ~written
  <2>1. t = [s EXCEPT !.busy = TRUE, !.lost = s.lost \cup ({loc} \ {NoLocation})]
    BY <1>2, <1>4 DEF CommandHelper, Sendings
  <2> QED
    BY <1>1, <1>2, <1>4, <2>1 DEF Sendings, Sendable, SentAs
<1> QED
  BY <1>3, <1>4

\* A command changes what delve will have at its own place only.
LEMMA CommandKeepsOthers ==
  ASSUME NEW s, Sendable(s), NEW op, NEW loc, [op |-> op, loc |-> loc] \in Commands,
         NEW force \in BOOLEAN,
         OthersAgree(s, loc),
         op = "break" => loc \in s.map \cup {NoLocation},
         op = "clear" => loc \notin s.map,
         NEW t, t = CommandHelper(s, op, loc, force)
  PROVE  SendAgrees(t)
<1> DEFINE c == [op |-> op, loc |-> loc]
<1>1. /\ Sendable(t) /\ t.map = s.map /\ c \in Commands
      /\ \/ t.pipe = Append(s.pipe, c) /\ t.lost = s.lost \ {loc}
         \/ t.pipe = s.pipe /\ t.lost = s.lost \cup ({loc} \ {NoLocation})
  <2>1. SentAs(t, s, op, loc)
    BY CommandSends
  <2> QED
    BY <2>1 DEF SentAs
<1>2. s.pipe \in Seq(Commands)
  BY DEF Sendable, Sendings
<1> SUFFICES ASSUME NEW other \in Places, other \notin t.lost
             PROVE  WillHave(dlv.bps, t.pipe, other) <=> other \in t.map
  BY DEF SendAgrees
<1>3. CASE t.pipe = s.pipe /\ t.lost = s.lost \cup ({loc} \ {NoLocation})
  BY <1>1, <1>3, NoLocationIsNoPlace DEF OthersAgree
<1>4. CASE t.pipe = Append(s.pipe, c) /\ t.lost = s.lost \ {loc}
  <2>1. WillHave(dlv.bps, t.pipe, other)
          <=> Breaks(c, other) \/ (~Clears(c, other) /\ WillHave(dlv.bps, s.pipe, other))
    BY <1>1, <1>2, <1>4, AppendedWillHave
  <2>2. CASE other = loc
    BY <1>1, <2>1, <2>2, NoLocationIsNoPlace DEF Breaks, Clears, Commands
  <2>3. CASE other # loc
    BY <1>1, <1>4, <2>1, <2>3 DEF Breaks, Clears, OthersAgree
  <2> QED
    BY <2>2, <2>3
<1> QED
  BY <1>1, <1>3, <1>4


\* t is s when the map has become places, told to delve or lost.
Tells(t, s, places) ==
  Sendable(t) /\ t.map = places /\ (SendAgrees(s) => SendAgrees(t))

\* insertBreakPointHelper tells delve of the breakpoint or loses it.
LEMMA InsertTells ==
  ASSUME NEW s, Sendable(s), NEW f \in Files, NEW line \in Lines, NEW force \in BOOLEAN
  PROVE  Tells(InsertBreakPointHelper(s, f, line, force), s, s.map \cup {Location(f, line)})
<1> DEFINE loc == Location(f, line)
           u   == [s EXCEPT !.map = @ \cup {loc}]
           t   == InsertBreakPointHelper(s, f, line, force)
<1>1. loc \in Places
  BY PlacesAreLocations
<1>2. CASE loc \in s.map
  BY <1>2 DEF InsertBreakPointHelper, Tells, Sendable, Sendings
<1>3. CASE loc \notin s.map
  <2>1. t = CommandHelper(u, "break", loc, force)
    BY <1>3 DEF InsertBreakPointHelper
  <2>2. /\ Sendable(u) /\ u.map = s.map \cup {loc}
        /\ u.pipe = s.pipe /\ u.lost = s.lost
    BY <1>1 DEF Sendable, Sendings
  <2>3. [op |-> "break", loc |-> loc] \in Commands /\ SentAs(t, u, "break", loc)
    <3>1. [op |-> "break", loc |-> loc] \in Commands
      BY <1>1 DEF Commands
    <3> QED
      BY <3>1, <2>1, <2>2, CommandSends
  <2>4. SendAgrees(s) => OthersAgree(u, loc)
    BY <2>2 DEF SendAgrees, OthersAgree
  <2>5. OthersAgree(u, loc) => SendAgrees(t)
    BY <1>1, <2>1, <2>2, <2>3, CommandKeepsOthers
  <2> QED
    BY <2>2, <2>3, <2>4, <2>5 DEF Tells, SentAs
<1> QED
  BY <1>2, <1>3

\* So does removeBreakPointHelper.
LEMMA RemoveTells ==
  ASSUME NEW s, Sendable(s), NEW f \in Files, NEW line \in Lines, NEW force \in BOOLEAN
  PROVE  Tells(RemoveBreakPointHelper(s, f, line, force), s, s.map \ {Location(f, line)})
<1> DEFINE loc == Location(f, line)
           u   == [s EXCEPT !.map = @ \ {loc}]
           t   == RemoveBreakPointHelper(s, f, line, force)
<1>1. loc \in Places
  BY PlacesAreLocations
<1>2. CASE loc \notin s.map
  BY <1>2 DEF RemoveBreakPointHelper, Tells, Sendable, Sendings
<1>3. CASE loc \in s.map
  <2>1. t = CommandHelper(u, "clear", loc, force)
    BY <1>3 DEF RemoveBreakPointHelper
  <2>2. /\ Sendable(u) /\ u.map = s.map \ {loc}
        /\ u.pipe = s.pipe /\ u.lost = s.lost
    BY <1>1 DEF Sendable, Sendings
  <2>3. [op |-> "clear", loc |-> loc] \in Commands /\ SentAs(t, u, "clear", loc)
    <3>1. [op |-> "clear", loc |-> loc] \in Commands
      BY <1>1 DEF Commands
    <3> QED
      BY <3>1, <2>1, <2>2, CommandSends
  <2>4. SendAgrees(s) => OthersAgree(u, loc)
    BY <2>2 DEF SendAgrees, OthersAgree
  <2>5. OthersAgree(u, loc) => SendAgrees(t)
    BY <1>1, <2>1, <2>2, <2>3, CommandKeepsOthers
  <2> QED
    BY <2>2, <2>3, <2>4, <2>5 DEF Tells, SentAs
<1> QED
  BY <1>2, <1>3

\* A continue and the break at main.main change no breakpoint of a line.
LEMMA PlacelessTells ==
  ASSUME NEW s, Sendable(s), NEW op \in {"break", "continue"}, NEW force \in BOOLEAN
  PROVE  Tells(CommandHelper(s, op, NoLocation, force), s, s.map)
<1> DEFINE t == CommandHelper(s, op, NoLocation, force)
<1>1. [op |-> op, loc |-> NoLocation] \in Commands
  BY DEF Commands
<1>2. SentAs(t, s, op, NoLocation)
  BY <1>1, CommandSends
<1>3. SendAgrees(s) => OthersAgree(s, NoLocation)
  BY DEF SendAgrees, OthersAgree
<1>4. OthersAgree(s, NoLocation) => SendAgrees(t)
  BY <1>1, CommandKeepsOthers
<1> QED
  BY <1>2, <1>3, <1>4 DEF Tells, SentAs

LEMMA ContinueTells ==
  ASSUME NEW s, Sendable(s), NEW force \in BOOLEAN
  PROVE  Tells(Continue(s, force), s, s.map)
BY PlacelessTells DEF Continue

\* A set of lines that is not empty has a first one.
LEMMA FirstIsOne ==
  ASSUME NEW lines \in SUBSET Nat, lines # {}
  PROVE  Min(lines) \in lines
<1> DEFINE below == {p \in Nat \X Nat : p[1] < p[2]}
<1>1. IsWellFoundedOn(below, Nat)
  BY NatLessThanWellFounded DEF OpToRel
<1> HIDE DEF below
<1>2. \E first \in lines : \A line \in lines : <<line, first>> \notin below
  BY <1>1, WFMin
<1>3. \E first \in lines : \A line \in lines : first =< line
  <2>1. \A m, n \in Nat : m < n => <<m, n>> \in below
    BY DEF below
  <2>2. \A m, n \in Nat : ~(m < n) => n =< m
    OBVIOUS
  <2>3. lines \subseteq Nat
    OBVIOUS
  <2> QED
    BY <1>2, <2>1, <2>2, <2>3
<1> QED
  BY <1>3 DEF Min

\* Of several removals in turn the first at most is told, the others are lost.
LEMMA RemoveBreakPointsTells ==
  ASSUME DebugAssumption, NEW s, Sendable(s), NEW f \in Files, NEW lines \in SUBSET Lines
  PROVE  Tells(RemoveBreakPoints(s, f, lines), s,
               s.map \ {Location(f, line) : line \in lines})
<1> DEFINE known == {line \in lines : Location(f, line) \in s.map}
           first == Min(known)
           rest  == {Location(f, line) : line \in known \ {first}}
           sent  == RemoveBreakPointHelper(s, f, first, FALSE)
           left  == s.map \ {Location(f, line) : line \in lines}
           t     == RemoveBreakPoints(s, f, lines)
<1>1. CASE known = {}
  <2>1. t = s /\ left = s.map
    BY <1>1 DEF RemoveBreakPoints
  <2> QED
    BY <2>1 DEF Tells
<1>2. CASE known # {}
  <2>1. t = [sent EXCEPT !.map = sent.map \ rest, !.lost = sent.lost \cup rest]
    BY <1>2 DEF RemoveBreakPoints
  <2>2. known \in SUBSET Nat
    BY LinesAreIntegers
  <2>3. first \in known
    BY <1>2, <2>2, FirstIsOne
  <2>4. Tells(sent, s, s.map \ {Location(f, first)})
    BY <2>3, RemoveTells
  <2>5. rest \subseteq Places /\ left = (s.map \ {Location(f, first)}) \ rest
    BY <2>3, PlacesAreLocations
  <2> HIDE DEF sent, rest, left, known, first, t
  <2>6. Sendable(sent) /\ sent \in Sendings /\ sent.map = s.map \ {Location(f, first)}
    BY <2>4 DEF Tells, Sendable
  <2>7. /\ t \in Sendings /\ t.map = left /\ t.pipe = sent.pipe
        /\ t.lost = sent.lost \cup rest
    BY <2>1, <2>5, <2>6 DEF Sendings
  <2>8. Sendable(t)
    BY <2>6, <2>7 DEF Sendable
  <2>9. SendAgrees(sent) => SendAgrees(t)
    BY <2>5, <2>6, <2>7 DEF SendAgrees
  <2> QED
    BY <2>4, <2>7, <2>8, <2>9 DEF Tells, left, t
<1> QED
  BY <1>1, <1>2


\* The sequence of a finite set has its elements, and no others.
LEMMA OrderedInSequence ==
  ASSUME NEW S, IsFiniteSet(S)
  PROVE  /\ SetToSeq(S) \in Seq(S)
         /\ \A x \in S : \E i \in DOMAIN SetToSeq(S) : SetToSeq(S)[i] = x
<1> DEFINE n == Cardinality(S)
           order == SetToSeq(S)
<1>1. n \in Nat /\ ExistsBijection(1..n, S)
  BY FS_CardinalityType
<1>2. \E q \in [1..n -> S] : IsInjective(q)
  BY <1>1 DEF ExistsBijection, Bijection, Injection
<1>3. order \in [1..n -> S] /\ IsInjective(order)
  BY <1>2 DEF SetToSeq
<1>4. order \in Injection(1..n, S)
  BY <1>3 DEF Injection
<1>5. Cardinality(1..n) = n
  BY <1>1, FS_Interval
<1>6. order \in Surjection(1..n, S)
  BY <1>4, <1>5, FS_Injection
<1>7. order \in Seq(S)
  BY <1>1, <1>3
<1> QED
  BY <1>3, <1>6, <1>7 DEF Surjection

\* Breakpoints set behind the pipe will be there, and change no others.
LEMMA BreaksWillBeHad ==
  ASSUME NEW pipe \in Seq(Commands), NEW order \in Seq(Places), NEW loc
  PROVE  LET breaks == [i \in DOMAIN order |-> [op |-> "break", loc |-> order[i]]]
         IN /\ pipe \o breaks \in Seq(Commands)
            /\ WillHave(dlv.bps, pipe \o breaks, loc)
                 <=> (\E i \in DOMAIN order : order[i] = loc) \/ WillHave(dlv.bps, pipe, loc)
<1> DEFINE breaks == [i \in DOMAIN order |-> [op |-> "break", loc |-> order[i]]]
           longer == pipe \o breaks
           n == Len(pipe)
<1>1. breaks \in Seq(Commands) /\ DOMAIN breaks = DOMAIN order
  <2>1. \A i \in DOMAIN order : [op |-> "break", loc |-> order[i]] \in Commands
    BY DEF Commands
  <2>2. DOMAIN order = 1..Len(order) /\ Len(order) \in Nat
    OBVIOUS
  <2> QED
    BY <2>1, <2>2
<1>2. \A i \in DOMAIN order : Breaks(breaks[i], order[i]) /\ \A l : ~Clears(breaks[i], l)
  BY DEF Breaks, Clears
<1>3. \A i \in DOMAIN order : \A l : Breaks(breaks[i], l) <=> order[i] = l
  BY DEF Breaks
<1> HIDE DEF breaks
<1>4. /\ longer \in Seq(Commands) /\ n \in Nat
      /\ DOMAIN longer = 1..(n + Len(breaks)) /\ Len(breaks) \in Nat
      /\ DOMAIN pipe = 1..n /\ DOMAIN order = 1..Len(breaks)
      /\ \A i \in DOMAIN pipe : longer[i] = pipe[i]
      /\ \A i \in DOMAIN order : longer[n + i] = breaks[i]
  BY <1>1
<1>5. \A i \in DOMAIN longer : i \in DOMAIN pipe \/ (i > n /\ i - n \in DOMAIN order
                                 /\ longer[i] = breaks[i - n])
  <2> SUFFICES ASSUME NEW i \in DOMAIN longer, i \notin DOMAIN pipe
               PROVE  i > n /\ i - n \in DOMAIN order /\ longer[i] = breaks[i - n]
    OBVIOUS
  <2>1. i > n /\ i - n \in DOMAIN order /\ n + (i - n) = i
    BY <1>4
  <2> QED
    BY <1>4, <2>1
<1>6. \A i \in DOMAIN pipe : i \in DOMAIN longer /\ longer[i] = pipe[i] /\ i =< n
  BY <1>4
<1>7. ASSUME NEW i \in DOMAIN longer, i > n
      PROVE  ~Clears(longer[i], loc)
  <2>1. i - n \in DOMAIN order /\ longer[i] = breaks[i - n]
    BY <1>4, <1>5, <1>7
  <2> QED
    BY <1>2, <2>1
<1>8. \A i \in DOMAIN longer : i \in Nat /\ (i \in DOMAIN pipe \/ i > n)
  BY <1>4, <1>5
<1>9. \A i \in DOMAIN order : n + i \in DOMAIN longer /\ n + i > n /\ longer[n + i] = breaks[i]
  BY <1>4
<1> HIDE DEF longer
<1>10. (\A i \in DOMAIN longer : ~Clears(longer[i], loc))
        <=> (\A i \in DOMAIN pipe : ~Clears(pipe[i], loc))
  BY <1>6, <1>7, <1>8
<1>11. ASSUME NEW k \in DOMAIN order, order[k] = loc
      PROVE  WillHave(dlv.bps, longer, loc)
  <2>1. n + k \in DOMAIN longer /\ Breaks(longer[n + k], loc)
    BY <1>2, <1>11, <1>9
  <2>2. \A j \in DOMAIN longer : j > n + k => ~Clears(longer[j], loc)
    <3>1. n \in Nat /\ n + k > n /\ k \in Nat
      BY <1>4, <1>9
    <3> QED
      BY <1>7, <1>8, <3>1
  <2> QED
    BY <2>1, <2>2 DEF WillHave
<1>12. ASSUME ~ \E i \in DOMAIN order : order[i] = loc
      PROVE  WillHave(dlv.bps, longer, loc) <=> WillHave(dlv.bps, pipe, loc)
  <2>1. \A i \in DOMAIN pipe : i \in DOMAIN longer
    BY <1>4
  <2>2. \A i \in DOMAIN longer : Breaks(longer[i], loc) => i \in DOMAIN pipe
    BY <1>3, <1>5, <1>12
  <2>3. \A i \in DOMAIN pipe :
          (\A j \in DOMAIN longer : j > i => ~Clears(longer[j], loc))
            <=> (\A j \in DOMAIN pipe : j > i => ~Clears(pipe[j], loc))
    BY <1>2, <1>4, <1>5, <2>1
  <2>4. (\E i \in DOMAIN longer : Breaks(longer[i], loc)
            /\ \A j \in DOMAIN longer : j > i => ~Clears(longer[j], loc))
        <=> (\E i \in DOMAIN pipe : Breaks(pipe[i], loc)
            /\ \A j \in DOMAIN pipe : j > i => ~Clears(pipe[j], loc))
    BY <1>4, <2>1, <2>2, <2>3
  <2> QED
    BY <1>10, <2>4 DEF WillHave
<1>13. WillHave(dlv.bps, longer, loc)
        <=> (\E i \in DOMAIN order : order[i] = loc) \/ WillHave(dlv.bps, pipe, loc)
  BY <1>11, <1>12 DEF WillHave
<1> QED
  BY <1>4, <1>13 DEF longer, breaks

Tabled == UNION {{Location(f, line) : line \in dbg.bks[f]} : f \in Files}

\* The table of the start is told as a whole.
LEMMA InitTells ==
  ASSUME DebugAssumption, NEW s, Sendable(s), NEW main \in BOOLEAN,
         dbg.bks \in [Files -> SUBSET Lines]
  PROVE  Tells(InitDebug(s, main), s, s.map \cup Tabled)
<1> DEFINE named  == Tabled \ s.map
           order  == SetToSeq(named)
           breaks == [i \in DOMAIN order |-> [op |-> "break", loc |-> order[i]]]
           sent   == IF client = "running"
                     THEN [s EXCEPT !.pipe = @ \o breaks, !.lost = @ \ named]
                     ELSE [s EXCEPT !.lost = @ \cup named]
           u      == [sent EXCEPT !.map = @ \cup Tabled]
           v      == IF main THEN CommandHelper(u, "break", NoLocation, TRUE) ELSE u
<1>1. InitDebug(s, main) = Continue(v, TRUE)
  BY DEF InitDebug, Tabled
<1>2. Tabled \subseteq Places
  BY PlacesAreLocations DEF Tabled
<1>3. order \in Seq(named) /\ \A x \in named : \E i \in DOMAIN order : order[i] = x
  <2>1. IsFiniteSet(named)
    BY <1>2, PlacesAreFinite, FS_Subset
  <2> QED
    BY <2>1, OrderedInSequence
<1> HIDE DEF order, named
<1>4. order \in Seq(Places) /\ named \subseteq Places
  BY <1>2, <1>3 DEF named
<1>5. \A i \in DOMAIN order : order[i] \in named
  BY <1>3
<1>6. s \in Sendings /\ s.pipe \in Seq(Commands)
  BY DEF Sendable, Sendings
<1>7. /\ s.pipe \o breaks \in Seq(Commands)
      /\ \A loc \in Places : WillHave(dlv.bps, s.pipe \o breaks, loc)
                               <=> loc \in named \/ WillHave(dlv.bps, s.pipe, loc)
  <2>1. \A loc \in Places : (\E i \in DOMAIN order : order[i] = loc) <=> loc \in named
    BY <1>3, <1>5
  <2>2. s.pipe \o breaks \in Seq(Commands)
    BY <1>4, <1>6, BreaksWillBeHad
  <2>3. ASSUME NEW loc \in Places
        PROVE  WillHave(dlv.bps, s.pipe \o breaks, loc)
                 <=> (\E i \in DOMAIN order : order[i] = loc) \/ WillHave(dlv.bps, s.pipe, loc)
    BY <1>4, <1>6, BreaksWillBeHad
  <2> QED
    BY <2>1, <2>2, <2>3
<1> HIDE DEF breaks
<1>8. Tells(u, s, s.map \cup Tabled)
  <2>1. CASE client = "running"
    <3>1. /\ u \in Sendings /\ u.map = s.map \cup Tabled
          /\ u.pipe = s.pipe \o breaks /\ u.lost = s.lost \ named
      BY <1>2, <1>6, <1>7, <2>1 DEF Sendings
    <3> HIDE DEF u
    <3>2. ASSUME SendAgrees(s), NEW loc \in Places, loc \notin u.lost
          PROVE  WillHave(dlv.bps, u.pipe, loc) <=> loc \in u.map
      BY <1>7, <3>1, <3>2 DEF SendAgrees, named
    <3> QED
      BY <2>1, <3>1, <3>2 DEF Tells, Sendable, SendAgrees
  <2>2. CASE client # "running"
    <3>1. /\ u \in Sendings /\ u.map = s.map \cup Tabled
          /\ u.pipe = s.pipe /\ u.lost = s.lost \cup named
      BY <1>2, <1>4, <1>6, <2>2 DEF Sendings
    <3> HIDE DEF u
    <3>2. ASSUME SendAgrees(s), NEW loc \in Places, loc \notin u.lost
          PROVE  WillHave(dlv.bps, u.pipe, loc) <=> loc \in u.map
      BY <3>1, <3>2 DEF SendAgrees, named
    <3> QED
      BY <2>2, <3>1, <3>2 DEF Tells, Sendable, SendAgrees
  <2> QED
    BY <2>1, <2>2
<1> HIDE DEF u
<1>9. Tells(v, u, u.map)
  <2>1. Tells(u, u, u.map)
    BY <1>8 DEF Tells
  <2> QED
    BY <1>8, <2>1, PlacelessTells DEF Tells
<1> HIDE DEF v
<1>10. Tells(Continue(v, TRUE), v, v.map)
  BY <1>9, ContinueTells DEF Tells
<1> QED
  BY <1>1, <1>8, <1>9, <1>10 DEF Tells


\* Delve reads the first command of the pipe: what it will have stays.
LEMMA ReadWillHave ==
  ASSUME NEW pipe \in Seq(Commands), pipe # <<>>, NEW bps, NEW after, NEW loc,
         loc \in after <=> Breaks(Head(pipe), loc) \/ (loc \in bps /\ ~Clears(Head(pipe), loc))
  PROVE  WillHave(after, Tail(pipe), loc) <=> WillHave(bps, pipe, loc)
<1> DEFINE rest == Tail(pipe)
<1>1. /\ Len(pipe) \in Nat /\ DOMAIN pipe = 1..Len(pipe) /\ 1 \in DOMAIN pipe
      /\ DOMAIN rest = 1..(Len(pipe) - 1)
      /\ Head(pipe) = pipe[1]
      /\ \A i \in DOMAIN rest : i + 1 \in DOMAIN pipe /\ rest[i] = pipe[i + 1]
  OBVIOUS
<1>2. \A i \in DOMAIN pipe : i \in Nat /\ (i = 1 \/ (i > 1 /\ i - 1 \in DOMAIN rest
                                                 /\ pipe[i] = rest[i - 1]))
  <2> SUFFICES ASSUME NEW i \in DOMAIN pipe, i # 1
               PROVE  i \in Nat /\ i > 1 /\ i - 1 \in DOMAIN rest /\ pipe[i] = rest[i - 1]
    BY <1>1
  <2>1. i \in Nat /\ i > 1 /\ i - 1 \in DOMAIN rest /\ (i - 1) + 1 = i
    BY <1>1
  <2> QED
    BY <1>1, <2>1
<1> HIDE DEF rest
<1>3. (\A i \in DOMAIN pipe : ~Clears(pipe[i], loc))
        <=> ~Clears(Head(pipe), loc) /\ \A i \in DOMAIN rest : ~Clears(rest[i], loc)
  BY <1>1, <1>2
<1>4. ASSUME NEW i \in DOMAIN rest
      PROVE  (\A j \in DOMAIN rest : j > i => ~Clears(rest[j], loc))
               <=> (\A j \in DOMAIN pipe : j > i + 1 => ~Clears(pipe[j], loc))
  <2>1. i \in Nat
    BY <1>1
  <2>2. ASSUME \A j \in DOMAIN rest : j > i => ~Clears(rest[j], loc),
               NEW j \in DOMAIN pipe, j > i + 1
        PROVE  ~Clears(pipe[j], loc)
    <3>1. j - 1 \in DOMAIN rest /\ pipe[j] = rest[j - 1] /\ j - 1 > i
      BY <1>2, <2>1, <2>2
    <3> QED
      BY <2>2, <3>1
  <2>3. ASSUME \A j \in DOMAIN pipe : j > i + 1 => ~Clears(pipe[j], loc),
               NEW j \in DOMAIN rest, j > i
        PROVE  ~Clears(rest[j], loc)
    <3>1. j + 1 \in DOMAIN pipe /\ rest[j] = pipe[j + 1] /\ j + 1 > i + 1
      BY <1>1, <2>1, <2>3
    <3> QED
      BY <2>3, <3>1
  <2> QED
    BY <2>2, <2>3
<1>5. ASSUME NEW i \in DOMAIN rest
      PROVE  Breaks(rest[i], loc) /\ (\A j \in DOMAIN rest : j > i => ~Clears(rest[j], loc))
               <=> Breaks(pipe[i + 1], loc)
                     /\ \A j \in DOMAIN pipe : j > i + 1 => ~Clears(pipe[j], loc)
  BY <1>1, <1>4
<1>6. Breaks(pipe[1], loc) /\ (\A j \in DOMAIN pipe : j > 1 => ~Clears(pipe[j], loc))
        <=> Breaks(Head(pipe), loc) /\ \A j \in DOMAIN rest : ~Clears(rest[j], loc)
  <2>1. \A j \in DOMAIN rest : j + 1 > 1
    BY <1>1
  <2> QED
    BY <1>1, <1>2, <2>1
<1>7. (\E i \in DOMAIN pipe : Breaks(pipe[i], loc)
          /\ \A j \in DOMAIN pipe : j > i => ~Clears(pipe[j], loc))
      <=> \/ Breaks(Head(pipe), loc) /\ \A j \in DOMAIN rest : ~Clears(rest[j], loc)
          \/ \E i \in DOMAIN rest : Breaks(rest[i], loc)
               /\ \A j \in DOMAIN rest : j > i => ~Clears(rest[j], loc)
  <2>1. ASSUME NEW i \in DOMAIN pipe, i # 1, Breaks(pipe[i], loc),
               \A j \in DOMAIN pipe : j > i => ~Clears(pipe[j], loc)
        PROVE  \E k \in DOMAIN rest : Breaks(rest[k], loc)
                 /\ \A j \in DOMAIN rest : j > k => ~Clears(rest[j], loc)
    <3>1. i - 1 \in DOMAIN rest /\ (i - 1) + 1 = i
      BY <1>2, <2>1
    <3> QED
      BY <1>5, <2>1, <3>1
  <2>2. ASSUME NEW k \in DOMAIN rest, Breaks(rest[k], loc),
               \A j \in DOMAIN rest : j > k => ~Clears(rest[j], loc)
        PROVE  \E i \in DOMAIN pipe : Breaks(pipe[i], loc)
                 /\ \A j \in DOMAIN pipe : j > i => ~Clears(pipe[j], loc)
    BY <1>1, <1>5, <2>2
  <2> QED
    BY <1>1, <1>6, <2>1, <2>2
<1>8. ~(Breaks(Head(pipe), loc) /\ Clears(Head(pipe), loc))
  BY DEF Breaks, Clears
<1> QED
  BY <1>3, <1>7, <1>8 DEF WillHave, rest


-----------------------------------------------------------------------------
(* The steps.                                                              *)

DbgTypes == [init : BOOLEAN, bks : [Files -> SUBSET Lines], map : SUBSET Places,
             busy : BOOLEAN, pipe : Seq(Commands)]

\* What the debugger can send from is well-typed.
LEMMA SendingIsSendable ==
  ASSUME DebugTypeOK, WrittenToServed
  PROVE  /\ Sendable(Sending) /\ Sending.map = dbg.map
         /\ PipeAgrees <=> (InSession => SendAgrees(Sending))
<1>1. dbg \in DbgTypes /\ lost \subseteq Places
  BY DEF DebugTypeOK, DbgTypes
<1>2. /\ Sending \in Sendings /\ Sending.map = dbg.map
      /\ Sending.pipe = dbg.pipe /\ Sending.lost = lost
  BY <1>1 DEF Sending, Sendings, DbgTypes
<1> QED
  BY <1>2 DEF Sendable, WrittenToServed, PipeAgrees, SendAgrees

\* What is sent in one step keeps the map and the pipe together.
SentInStep(places) ==
  /\ dbg' \in DbgTypes /\ lost' \subseteq Places
  /\ dbg'.map = places /\ dbg'.init = dbg.init /\ dbg'.bks = dbg.bks
  /\ WrittenToServed' /\ PipeAgrees'

\* A step that only sends keeps what is said of the pipe.
LEMMA SentKeeps ==
  ASSUME DebugTypeOK, WrittenToServed, PipeAgrees, NEW t, NEW places,
         Tells(t, Sending, places), Sent(t), UNCHANGED <<server, client, dlv>>
  PROVE  SentInStep(places)
<1>1. dbg \in DbgTypes
  BY DEF DebugTypeOK, DbgTypes
<1>2. t \in Sendings /\ Sendable(t) /\ t.map = places
  BY DEF Tells, Sendable
<1>3. /\ dbg' \in DbgTypes /\ lost' = t.lost
      /\ dbg'.map = places /\ dbg'.pipe = t.pipe /\ dbg'.init = dbg.init /\ dbg'.bks = dbg.bks
  BY <1>1, <1>2 DEF Sent, DbgTypes, Sendings
<1>4. InSession => SendAgrees(t)
  BY SendingIsSendable DEF Tells
<1>5. InSession' = InSession
  BY DEF InSession
<1>6. PipeAgrees'
  BY <1>2, <1>3, <1>4, <1>5 DEF PipeAgrees, SendAgrees
<1>7. WrittenToServed'
  BY <1>2, <1>3 DEF WrittenToServed, Sendable
<1>8. lost' \subseteq Places
  BY <1>2, <1>3 DEF Sendings
<1> QED
  BY <1>3, <1>6, <1>7, <1>8 DEF SentInStep

LEMMA NothingSent ==
  ASSUME DebugTypeOK, WrittenToServed
  PROVE  Tells(Sending, Sending, dbg.map)
BY SendingIsSendable DEF Tells

\* The holes are places, and the index is bound outside them only.
LEMMA UnheardHoles ==
  ASSUME DebugTypeOK, NEW f \in Files, NEW lines \in SUBSET Lines, Unheard(f, lines)
  PROVE  /\ holes \subseteq holes' /\ holes' \subseteq Places
         /\ IsRunning /\ ~dbg.init => \A line \in lines : Location(f, line) \in holes'
         /\ IsRunning => \A line \in lines \cap (editor[f].nodes \ editor[f].index) :
                           Location(f, line) \in holes'
BY PlacesAreLocations DEF Unheard, DebugTypeOK

\* A step on the marks of f alone.
LEMMA MarkedKeeps ==
  ASSUME DebugTypeOK, IndexWithinMarks, NEW f \in Files, NEW nodes \in SUBSET Lines,
         NEW index \in SUBSET nodes,
         editor' = [editor EXCEPT ![f] = [@ EXCEPT !.nodes = nodes, !.index = index]]
  PROVE  /\ editor' \in [Files -> [open : BOOLEAN, nodes : SUBSET Lines, index : SUBSET Lines]]
         /\ editor'[f].index = index
         /\ \A g \in Files \ {f} : editor'[g] = editor[g]
         /\ IndexWithinMarks'
<1> DEFINE Editors == [open : BOOLEAN, nodes : SUBSET Lines, index : SUBSET Lines]
<1>1. editor \in [Files -> Editors]
  BY DEF DebugTypeOK
<1>2. /\ editor'[f] = [editor[f] EXCEPT !.nodes = nodes, !.index = index]
      /\ \A g \in Files \ {f} : editor'[g] = editor[g]
      /\ DOMAIN editor' = Files /\ editor' = [g \in Files |-> editor'[g]]
  BY <1>1
<1>3. /\ editor'[f] \in Editors
      /\ editor'[f].index = index /\ editor'[f].nodes = nodes
  <2>1. index \in SUBSET Lines /\ editor[f] \in Editors
    BY <1>1
  <2> QED
    BY <1>2, <2>1
<1>4. \A g \in Files : editor'[g] \in Editors
  BY <1>1, <1>2, <1>3
<1>5. editor' \in [Files -> Editors]
  BY <1>2, <1>4
<1>6. IndexWithinMarks'
  BY <1>2, <1>3 DEF IndexWithinMarks, Open
<1> QED
  BY <1>2, <1>3, <1>5, <1>6

LEMMA DebugInitially ==
  ASSUME DebugAssumption, Init
  PROVE  DebugInvariant
<1>1. /\ <<>> \in Seq(Commands) /\ 0 \in 0..MaxSessions
  BY DEF DebugAssumption
<1>2. DebugTypeOK
  BY <1>1 DEF Init, DebugTypeOK
<1>3. IndexWithinMarks /\ WrittenToServed /\ PipeAgrees /\ IndexAgrees
  BY DEF Init, IndexWithinMarks, WrittenToServed, PipeAgrees, IndexAgrees, InSession, Open
<1> QED
  BY <1>2, <1>3 DEF DebugInvariant

-----------------------------------------------------------------------------
(* The user.                                                               *)

LEMMA EditorCreatedStep ==
  ASSUME DebugInvariant, NEW f \in Files, EditorCreated(f)
  PROVE  DebugInvariant'
<1> USE DEF DebugInvariant
<1>1. /\ editor' \in [Files -> [open : BOOLEAN, nodes : SUBSET Lines, index : SUBSET Lines]]
      /\ fileBpMap' \in [Files -> SUBSET Lines]
  BY DEF EditorCreated, DebugTypeOK
<1>2. \A g \in Files : editor'[g].index = editor[g].index
  BY DEF EditorCreated, DebugTypeOK
<1>3. DebugTypeOK'
  BY <1>1 DEF EditorCreated, DebugTypeOK
<1>4. IndexWithinMarks'
  BY DEF EditorCreated, DebugTypeOK, IndexWithinMarks, Open
<1>5. WrittenToServed' /\ PipeAgrees'
  BY DEF EditorCreated, WrittenToServed, PipeAgrees, InSession
<1>6. IndexAgrees'
  BY <1>2 DEF EditorCreated, IndexAgrees, InSession, Listed
<1> QED
  BY <1>3, <1>4, <1>5, <1>6

LEMMA EditorAboutToCloseStep ==
  ASSUME DebugInvariant, NEW f \in Files, EditorAboutToClose(f)
  PROVE  DebugInvariant'
<1> USE DEF DebugInvariant
<1>1. editor' \in [Files -> [open : BOOLEAN, nodes : SUBSET Lines, index : SUBSET Lines]]
  BY DEF EditorAboutToClose, DebugTypeOK
<1>2. \A g \in Files : editor'[g].index = editor[g].index
  BY DEF EditorAboutToClose, DebugTypeOK
<1>3. DebugTypeOK'
  BY <1>1 DEF EditorAboutToClose, DebugTypeOK
<1>4. IndexWithinMarks'
  BY DEF EditorAboutToClose, DebugTypeOK, IndexWithinMarks, Open
<1>5. WrittenToServed' /\ PipeAgrees'
  BY DEF EditorAboutToClose, WrittenToServed, PipeAgrees, InSession
<1>6. IndexAgrees'
  BY <1>2 DEF EditorAboutToClose, IndexAgrees, InSession, Listed
<1> QED
  BY <1>3, <1>4, <1>5, <1>6

LEMMA EditStep ==
  ASSUME DebugAssumption, DebugInvariant, NEW f \in Files, NEW m, Edit(f, m),
         m.index \subseteq m.nodes
  PROVE  DebugInvariant'
<1> USE DEF DebugInvariant
<1>1. editor' = [editor EXCEPT ![f] = [@ EXCEPT !.nodes = m.nodes, !.index = m.index]]
  BY DEF Edit, Marked
<1>2. m.nodes \in SUBSET Lines /\ m.index \in SUBSET m.nodes
  BY DEF Edit
<1>3. /\ editor' \in [Files -> [open : BOOLEAN, nodes : SUBSET Lines, index : SUBSET Lines]]
      /\ \A g \in Files \ {f} : editor'[g] = editor[g]
      /\ IndexWithinMarks'
  BY <1>1, <1>2, MarkedKeeps
<1>4. holes' \subseteq Places /\ holes \subseteq holes'
  BY PlacesAreLocations DEF Edit, DebugTypeOK
<1>5. DebugTypeOK'
  BY <1>3, <1>4 DEF Edit, DebugTypeOK
<1>6. WrittenToServed' /\ PipeAgrees'
  BY DEF Edit, WrittenToServed, PipeAgrees, InSession
<1>7. IndexAgrees'
  <2> SUFFICES ASSUME InSession', NEW g \in Files, NEW line \in Lines,
                      Location(g, line) \notin holes'
               PROVE  (/\ line \in editor[g].index <=> Listed(g, line)
                       /\ ~dbg.init => Location(g, line) \notin dbg.map)'
    BY DEF IndexAgrees
  <2>1. InSession /\ IsRunning
    BY DEF InSession, IsRunning, Edit
  <2>2. g # f
    BY <2>1 DEF Edit, Locations
  <2> QED
    BY <1>3, <1>4, <2>1, <2>2 DEF IndexAgrees, Edit, Listed
<1> QED
  BY <1>3, <1>5, <1>6, <1>7

LEMMA InsertsLineStep ==
  ASSUME DebugAssumption, DebugInvariant, NEW f \in Files, NEW line \in Lines,
         InsertsLine(f, line - 1)
  PROVE  DebugInvariant'
<1> DEFINE m == InsertLines(Marks(f), line - 1, 1)
<1>1. Edit(f, m) /\ Open(f)
  BY DEF InsertsLine, Edit
<1>2. editor[f].nodes \in SUBSET Int /\ editor[f].index \in SUBSET editor[f].nodes
  BY <1>1, LinesAreIntegers DEF DebugInvariant, DebugTypeOK, IndexWithinMarks
<1>3. line - 1 \in Int
  BY LinesAreIntegers
<1>4. m.index \subseteq m.nodes
  BY <1>2, <1>3, InsertLinesKeepsWithin DEF Marks
<1> QED
  BY <1>1, <1>4, EditStep

LEMMA RemovesLineStep ==
  ASSUME DebugAssumption, DebugInvariant, NEW f \in Files, NEW line \in Lines,
         RemovesLine(f, line)
  PROVE  DebugInvariant'
<1> DEFINE m == RemoveLines(Marks(f), line, 1)
<1>1. Edit(f, m) /\ Open(f)
  BY DEF RemovesLine, Edit
<1>2. editor[f].nodes \in SUBSET Int /\ editor[f].index \in SUBSET editor[f].nodes
  BY <1>1, LinesAreIntegers DEF DebugInvariant, DebugTypeOK, IndexWithinMarks
<1>3. line \in Int
  BY LinesAreIntegers
<1>4. m.index \subseteq m.nodes
  BY <1>2, <1>3, RemoveLinesKeepsWithin DEF Marks
<1> QED
  BY <1>1, <1>4, EditStep


\* A command for line of f, told while the mark of the line is set or removed.
LEMMA ToggleBreakPointStep ==
  ASSUME DebugAssumption, DebugInvariant, NEW f \in Files, NEW line \in Lines,
         ToggleBreakPoint(f, line)
  PROVE  DebugInvariant'
<1> USE DEF DebugInvariant
<1> DEFINE set  == line \notin editor[f].index
           mark == IF set THEN AddMark(Marks(f), line) ELSE RemoveMark(Marks(f), line)
           loc  == Location(f, line)
           to   == IF ~IsRunning THEN dbg.map
                   ELSE IF set THEN dbg.map \cup {loc} ELSE dbg.map \ {loc}
           t    == IF ~IsRunning THEN Sending
                   ELSE IF set THEN InsertBreakPointHelper(Sending, f, line, FALSE)
                   ELSE RemoveBreakPointHelper(Sending, f, line, FALSE)
<1>1. /\ Open(f) /\ Marked(f, mark) /\ Sent(t) /\ Unheard(f, {line})
      /\ fileBpMap' = [fileBpMap EXCEPT ![f] = IF set THEN @ \cup {line} ELSE @ \ {line}]
      /\ UNCHANGED <<server, client, dlv, sessions>>
  BY DEF ToggleBreakPoint
<1>2. editor[f].index \subseteq editor[f].nodes /\ editor[f].nodes \subseteq Lines
  BY <1>1 DEF DebugTypeOK, IndexWithinMarks
<1>3. mark.nodes \in SUBSET Lines /\ mark.index \in SUBSET mark.nodes
  BY <1>2 DEF AddMark, RemoveMark, Marks
<1>4. mark.index = IF set THEN IF line \in editor[f].nodes THEN editor[f].index
                               ELSE editor[f].index \cup {line}
                   ELSE editor[f].index \ {line}
  BY <1>2 DEF AddMark, RemoveMark, Marks
<1>5. Tells(t, Sending, to)
  BY SendingIsSendable, InsertTells, RemoveTells, NothingSent
<1> HIDE DEF t, to
<1>6. SentInStep(to)
  BY <1>1, <1>5, SentKeeps
<1> HIDE DEF mark
<1>7. /\ editor' \in [Files -> [open : BOOLEAN, nodes : SUBSET Lines, index : SUBSET Lines]]
      /\ editor'[f].index = mark.index
      /\ \A g \in Files \ {f} : editor'[g] = editor[g]
      /\ IndexWithinMarks'
  <2>1. editor' = [editor EXCEPT ![f] = [@ EXCEPT !.nodes = mark.nodes, !.index = mark.index]]
    BY <1>1 DEF Marked
  <2> QED
    BY <1>3, <2>1, MarkedKeeps
<1>8. /\ holes \subseteq holes' /\ holes' \subseteq Places
      /\ IsRunning /\ ~dbg.init => loc \in holes'
      /\ IsRunning /\ line \in editor[f].nodes \ editor[f].index => loc \in holes'
  BY <1>1, UnheardHoles
<1>9. DebugTypeOK'
  <2>1. fileBpMap' \in [Files -> SUBSET Lines]
    BY <1>1 DEF DebugTypeOK
  <2> QED
    BY <1>1, <1>6, <1>7, <1>8, <2>1 DEF DebugTypeOK, SentInStep, DbgTypes
<1>10. IndexAgrees'
  <2> SUFFICES ASSUME InSession', NEW g \in Files, NEW other \in Lines,
                      Location(g, other) \notin holes'
               PROVE  (/\ other \in editor[g].index <=> Listed(g, other)
                       /\ ~dbg.init => Location(g, other) \notin dbg.map)'
    BY DEF IndexAgrees
  <2>1. InSession /\ IsRunning
    BY <1>1 DEF InSession, IsRunning
  <2>2. /\ other \in editor[g].index <=> Listed(g, other)
        /\ ~dbg.init => Location(g, other) \notin dbg.map
    BY <1>8, <2>1 DEF IndexAgrees
  <2>3. dbg'.map = to /\ dbg'.init = dbg.init /\ dbg'.bks = dbg.bks
    BY <1>6 DEF SentInStep
  <2>4. CASE g = f /\ other = line
    <3>1. dbg.init /\ ~(line \in editor[f].nodes \ editor[f].index)
      BY <1>8, <2>1, <2>4
    <3>2. line \in editor'[f].index <=> set
      BY <1>4, <1>7, <3>1
    <3>3. loc \in dbg'.map <=> set
      BY <2>1, <2>3 DEF to
    <3> QED
      BY <2>3, <2>4, <3>1, <3>2, <3>3 DEF Listed
  <2>5. CASE ~(g = f /\ other = line)
    <3>1. Location(g, other) # loc
      BY <2>5, LocationIsOne, LinesAreIntegers
    <3>2. Location(g, other) \in dbg'.map <=> Location(g, other) \in dbg.map
      BY <2>3, <3>1 DEF to
    <3>3. other \in editor'[g].index <=> other \in editor[g].index
      BY <1>4, <1>7, <2>5
    <3> QED
      BY <2>2, <2>3, <3>2, <3>3 DEF Listed
  <2> QED
    BY <2>4, <2>5
<1> QED
  BY <1>6, <1>7, <1>9, <1>10 DEF SentInStep

LEMMA RemoveAllBreakPointsStep ==
  ASSUME DebugAssumption, DebugInvariant, NEW f \in Files, RemoveAllBreakPoints(f)
  PROVE  DebugInvariant'
<1> USE DEF DebugInvariant
<1> DEFINE listed == editor[f].index
           t      == IF IsRunning THEN RemoveBreakPoints(Sending, f, listed) ELSE Sending
           gone   == {Location(f, line) : line \in listed}
           to     == IF IsRunning THEN dbg.map \ gone ELSE dbg.map
<1>1. /\ Open(f) /\ Sent(t) /\ Unheard(f, listed)
      /\ fileBpMap' = [fileBpMap EXCEPT ![f] = @ \ listed]
      /\ Marked(f, [nodes |-> editor[f].nodes \ listed, index |-> {}])
      /\ UNCHANGED <<server, client, dlv, sessions>>
  BY DEF RemoveAllBreakPoints
<1>2. listed \in SUBSET Lines /\ editor[f].nodes \in SUBSET Lines
  BY DEF DebugTypeOK
<1>3. Tells(t, Sending, to)
  BY <1>2, SendingIsSendable, RemoveBreakPointsTells, NothingSent
<1> HIDE DEF t
<1>4. SentInStep(to)
  BY <1>1, <1>3, SentKeeps
<1>5. /\ editor' \in [Files -> [open : BOOLEAN, nodes : SUBSET Lines, index : SUBSET Lines]]
      /\ editor'[f].index = {}
      /\ \A g \in Files \ {f} : editor'[g] = editor[g]
      /\ IndexWithinMarks'
  <2>1. editor' = [editor EXCEPT ![f] = [@ EXCEPT !.nodes = editor[f].nodes \ listed,
                                                  !.index = {}]]
    BY <1>1 DEF Marked
  <2>2. editor[f].nodes \ listed \in SUBSET Lines /\ {} \in SUBSET (editor[f].nodes \ listed)
    BY <1>2
  <2> HIDE DEF listed
  <2> QED
    BY <2>1, <2>2, MarkedKeeps
<1>6. /\ holes \subseteq holes' /\ holes' \subseteq Places
      /\ IsRunning /\ ~dbg.init => gone \subseteq holes'
  BY <1>1, <1>2, UnheardHoles
<1>7. DebugTypeOK'
  <2>1. fileBpMap' \in [Files -> SUBSET Lines]
    BY <1>1 DEF DebugTypeOK
  <2> QED
    BY <1>1, <1>4, <1>5, <1>6, <2>1 DEF DebugTypeOK, SentInStep, DbgTypes
<1>8. IndexAgrees'
  <2> SUFFICES ASSUME InSession', NEW g \in Files, NEW other \in Lines,
                      Location(g, other) \notin holes'
               PROVE  (/\ other \in editor[g].index <=> Listed(g, other)
                       /\ ~dbg.init => Location(g, other) \notin dbg.map)'
    BY DEF IndexAgrees
  <2>1. InSession /\ IsRunning
    BY <1>1 DEF InSession, IsRunning
  <2>2. /\ other \in editor[g].index <=> Listed(g, other)
        /\ ~dbg.init => Location(g, other) \notin dbg.map
    BY <1>6, <2>1 DEF IndexAgrees
  <2>3. dbg'.map = dbg.map \ gone /\ dbg'.init = dbg.init /\ dbg'.bks = dbg.bks
    BY <1>4, <2>1 DEF SentInStep
  <2>4. CASE g = f
    <3>1. CASE other \in listed
      <4>1. Location(g, other) \in gone
        BY <2>4, <3>1
      <4>2. dbg.init
        BY <1>6, <2>1, <4>1
      <4> QED
        BY <1>5, <2>3, <2>4, <4>1, <4>2 DEF Listed
    <3>2. CASE other \notin listed
      <4>1. Location(g, other) \in dbg'.map => Location(g, other) \in dbg.map
        BY <2>3
      <4> QED
        BY <1>5, <2>2, <2>3, <2>4, <3>2, <4>1 DEF Listed
    <3> QED
      BY <3>1, <3>2
  <2>5. CASE g # f
    <3>1. Location(g, other) \notin gone
      BY <1>2, <2>5, LocationIsOne, LinesAreIntegers
    <3> QED
      BY <1>5, <2>2, <2>3, <2>5, <3>1 DEF Listed
  <2> QED
    BY <2>4, <2>5
<1> QED
  BY <1>4, <1>5, <1>7, <1>8 DEF SentInStep

LEMMA ContinueRunStep ==
  ASSUME DebugAssumption, DebugInvariant, ContinueRun
  PROVE  DebugInvariant'
<1> USE DEF DebugInvariant
<1>1. Tells(Continue(Sending, FALSE), Sending, dbg.map)
  BY SendingIsSendable, ContinueTells
<1>2. SentInStep(dbg.map)
  BY <1>1, SentKeeps DEF ContinueRun
<1>3. DebugTypeOK'
  BY <1>2 DEF ContinueRun, DebugTypeOK, SentInStep, DbgTypes
<1>4. IndexWithinMarks' /\ IndexAgrees'
  BY <1>2 DEF ContinueRun, IndexWithinMarks, Open, IndexAgrees, InSession, Listed, SentInStep
<1> QED
  BY <1>2, <1>3, <1>4 DEF SentInStep

LEMMA RunToLineStep ==
  ASSUME DebugAssumption, DebugInvariant, NEW f \in Files, NEW line \in Lines,
         RunToLine(f, line)
  PROVE  DebugInvariant'
<1> USE DEF DebugInvariant
<1> DEFINE loc == Location(f, line)
           set == InsertBreakPointHelper(Sending, f, line, TRUE)
           run == Continue(set, TRUE)
           t   == RemoveBreakPointHelper(run, f, line, TRUE)
<1>1. CASE FindBreakPoint(Sending, f, line)
  <2>1. /\ Sent(Continue(Sending, FALSE))
        /\ UNCHANGED <<holes, editor, fileBpMap, server, client, dlv, sessions>>
    BY <1>1 DEF RunToLine
  <2>2. Tells(Continue(Sending, FALSE), Sending, dbg.map)
    BY SendingIsSendable, ContinueTells
  <2>3. SentInStep(dbg.map)
    BY <2>1, <2>2, SentKeeps
  <2>4. DebugTypeOK'
    BY <2>1, <2>3 DEF DebugTypeOK, SentInStep, DbgTypes
  <2>5. IndexWithinMarks' /\ IndexAgrees'
    BY <2>1, <2>3 DEF IndexWithinMarks, Open, IndexAgrees, InSession, Listed, SentInStep
  <2> QED
    BY <2>3, <2>4, <2>5 DEF SentInStep
<1>2. CASE ~FindBreakPoint(Sending, f, line)
  <2>1. /\ Sent(t)
        /\ holes' = IF loc \in dbg.map THEN holes \cup {loc} ELSE holes
        /\ UNCHANGED <<editor, fileBpMap, server, client, dlv, sessions>>
    BY <1>2 DEF RunToLine
  <2>2. Sendable(Sending) /\ Sending.map = dbg.map
    BY SendingIsSendable
  <2>3. Tells(set, Sending, dbg.map \cup {loc})
    BY <2>2, InsertTells
  <2> HIDE DEF set
  <2>4. Tells(run, set, dbg.map \cup {loc})
    BY <2>3, ContinueTells DEF Tells
  <2> HIDE DEF run
  <2>5. Tells(t, run, (dbg.map \cup {loc}) \ {loc})
    BY <2>4, RemoveTells DEF Tells
  <2> HIDE DEF t
  <2>6. Tells(t, Sending, dbg.map \ {loc})
    BY <2>3, <2>4, <2>5 DEF Tells
  <2>7. SentInStep(dbg.map \ {loc})
    BY <2>1, <2>6, SentKeeps
  <2>8. holes \subseteq holes' /\ holes' \subseteq Places
    BY <2>1, PlacesAreLocations DEF DebugTypeOK
  <2>9. DebugTypeOK'
    BY <2>1, <2>7, <2>8 DEF DebugTypeOK, SentInStep, DbgTypes
  <2>10. IndexWithinMarks'
    BY <2>1 DEF IndexWithinMarks, Open
  <2>11. IndexAgrees'
    <3> SUFFICES ASSUME InSession', NEW g \in Files, NEW other \in Lines,
                        Location(g, other) \notin holes'
                 PROVE  (/\ other \in editor[g].index <=> Listed(g, other)
                         /\ ~dbg.init => Location(g, other) \notin dbg.map)'
      BY DEF IndexAgrees
    <3>1. /\ other \in editor[g].index <=> Listed(g, other)
          /\ ~dbg.init => Location(g, other) \notin dbg.map
      BY <2>1, <2>8 DEF IndexAgrees, InSession
    <3>2. Location(g, other) \in dbg'.map <=> Location(g, other) \in dbg.map
      BY <2>1, <2>7 DEF SentInStep
    <3> QED
      BY <2>1, <2>7, <3>1, <3>2 DEF SentInStep, Listed
  <2> QED
    BY <2>7, <2>9, <2>10, <2>11 DEF SentInStep
<1> QED
  BY <1>1, <1>2


-----------------------------------------------------------------------------
(* The session.                                                            *)

LEMMA StartDebugStep ==
  ASSUME DebugAssumption, DebugInvariant, StartDebug
  PROVE  DebugInvariant'
<1> USE DEF DebugInvariant
<1> DEFINE bks == [f \in Files |-> IF Open(f) THEN editor[f].index
                                   ELSE IF f \in InWork THEN {} ELSE fileBpMap[f]]
<1>1. bks \in [Files -> SUBSET Lines]
  BY DEF DebugTypeOK
<1>2. server = "none" /\ client # "running" /\ dbg.pipe = <<>> /\ dbg \in DbgTypes
  BY DEF StartDebug, IsRunning, WrittenToServed, DebugTypeOK, DbgTypes
<1>3. sessions' \in 0..MaxSessions
  BY DEF StartDebug, DebugTypeOK, DebugAssumption
<1>4. fileBpMap' = bks /\ UNCHANGED <<editor, client>>
  BY DEF StartDebug
<1>5. IndexWithinMarks'
  BY <1>4 DEF IndexWithinMarks, Open
<1>6. CASE /\ server' = "starting" /\ dbg' = Clear(bks) /\ lost' = {}
           /\ holes' = UNION {Locations(f) : f \in {g \in Files : ~Open(g)}}
           /\ dlv' = [bps |-> {}, running |-> FALSE]
  <2>1. /\ dbg' \in DbgTypes /\ dbg'.map = {} /\ dbg'.pipe = <<>>
        /\ dbg'.bks = bks /\ dbg'.init = FALSE
    BY <1>1, <1>6 DEF Clear, DbgTypes
  <2>2. holes' \subseteq Places
    BY <1>6, PlacesAreLocations
  <2>3. DebugTypeOK'
    BY <1>1, <1>3, <1>4, <1>6, <2>1, <2>2 DEF DebugTypeOK, DbgTypes
  <2>4. WrittenToServed' /\ PipeAgrees'
    BY <1>2, <1>4, <1>6, <2>1 DEF WrittenToServed, PipeAgrees, WillHave
  <2>5. IndexAgrees'
    <3> SUFFICES ASSUME NEW f \in Files, NEW line \in Lines, Location(f, line) \notin holes'
                 PROVE  line \in editor'[f].index <=> line \in bks[f]
      BY <2>1 DEF IndexAgrees, Listed
    <3>1. Open(f)
      BY <1>6 DEF Locations
    <3> QED
      BY <1>4, <3>1
  <2> QED
    BY <1>5, <2>3, <2>4, <2>5
<1>7. CASE dbg' = [dbg EXCEPT !.bks = bks] /\ UNCHANGED <<server, lost, holes, dlv>>
  <2>1. dbg' \in DbgTypes /\ dbg'.pipe = <<>>
    BY <1>1, <1>2, <1>7 DEF DbgTypes
  <2>2. DebugTypeOK'
    BY <1>1, <1>3, <1>4, <1>7, <2>1 DEF DebugTypeOK, DbgTypes
  <2>3. WrittenToServed' /\ PipeAgrees' /\ IndexAgrees'
    BY <1>2, <1>4, <1>7, <2>1 DEF WrittenToServed, PipeAgrees, IndexAgrees, InSession
  <2> QED
    BY <1>5, <2>2, <2>3
<1> QED
  BY <1>6, <1>7 DEF StartDebug

LEMMA ServerListensStep ==
  ASSUME DebugInvariant, ServerListens
  PROVE  DebugInvariant'
<1> USE DEF DebugInvariant
<1>1. DebugTypeOK'
  BY DEF ServerListens, DebugTypeOK
<1>2. WrittenToServed'
  BY DEF ServerListens, WrittenToServed
<1>3. PipeAgrees' /\ IndexAgrees' /\ IndexWithinMarks'
  BY DEF ServerListens, PipeAgrees, IndexAgrees, IndexWithinMarks, InSession, Listed, Open
<1> QED
  BY <1>1, <1>2, <1>3

LEMMA ClientGreetsStep ==
  ASSUME DebugAssumption, DebugInvariant, ClientGreets
  PROVE  DebugInvariant'
<1> USE DEF DebugInvariant
<1>0. PICK main \in BOOLEAN :
        LET s == InitDebug(Sending, main) IN
        /\ dbg' = [dbg EXCEPT !.init = TRUE, !.map = s.map, !.pipe = s.pipe, !.busy = FALSE]
        /\ lost' = s.lost
  BY DEF ClientGreets
<1> DEFINE t == InitDebug(Sending, main)
<1>1. dbg \in DbgTypes /\ dbg.bks \in [Files -> SUBSET Lines]
  BY DEF DebugTypeOK, DbgTypes
<1>2. Tells(t, Sending, dbg.map \cup Tabled)
  BY <1>1, SendingIsSendable, InitTells
<1>3. /\ dbg' = [dbg EXCEPT !.init = TRUE, !.map = t.map, !.pipe = t.pipe, !.busy = FALSE]
      /\ lost' = t.lost /\ ~dbg.init
      /\ UNCHANGED <<editor, fileBpMap, server, client, dlv, sessions, holes>>
  BY <1>0 DEF ClientGreets
<1> HIDE DEF t
<1>4. t \in Sendings /\ Sendable(t) /\ t.map = dbg.map \cup Tabled
  BY <1>2 DEF Tells, Sendable
<1>5. /\ dbg' \in DbgTypes /\ dbg'.map = dbg.map \cup Tabled
      /\ dbg'.pipe = t.pipe /\ dbg'.init = TRUE /\ lost' \subseteq Places
  BY <1>1, <1>3, <1>4 DEF DbgTypes, Sendings
<1>6. DebugTypeOK'
  BY <1>3, <1>5 DEF DebugTypeOK, DbgTypes
<1>7. IndexWithinMarks'
  BY <1>3 DEF IndexWithinMarks, Open
<1>8. WrittenToServed'
  BY <1>3, <1>4, <1>5 DEF WrittenToServed, Sendable
<1>9. PipeAgrees'
  <2>1. InSession => SendAgrees(t)
    BY <1>2, SendingIsSendable DEF Tells
  <2>2. InSession' = InSession
    BY <1>3 DEF InSession
  <2> QED
    BY <1>3, <1>4, <1>5, <2>1, <2>2 DEF PipeAgrees, SendAgrees
<1>10. IndexAgrees'
  <2> SUFFICES ASSUME InSession', NEW f \in Files, NEW line \in Lines,
                      Location(f, line) \notin holes'
               PROVE  line \in editor[f].index <=> Location(f, line) \in dbg.map \cup Tabled
    BY <1>3, <1>5 DEF IndexAgrees, Listed
  <2>1. /\ line \in editor[f].index <=> line \in dbg.bks[f]
        /\ Location(f, line) \notin dbg.map
    BY <1>3 DEF IndexAgrees, InSession, Listed
  <2>2. Location(f, line) \in Tabled <=> line \in dbg.bks[f]
    <3>1. ASSUME Location(f, line) \in Tabled PROVE line \in dbg.bks[f]
      <4>1. PICK g \in Files, other \in Lines :
              other \in dbg.bks[g] /\ Location(f, line) = Location(g, other)
        BY <1>1, <3>1 DEF Tabled
      <4>2. f = g /\ line = other
        BY <4>1, LocationIsOne, LinesAreIntegers
      <4> QED
        BY <4>1, <4>2
    <3>2. ASSUME line \in dbg.bks[f] PROVE Location(f, line) \in Tabled
      BY <3>2 DEF Tabled
    <3> QED
      BY <3>1, <3>2
  <2> QED
    BY <2>1, <2>2
<1> QED
  BY <1>6, <1>7, <1>8, <1>9, <1>10

LEMMA AnswersStep ==
  ASSUME DebugAssumption, DebugInvariant, Answers
  PROVE  DebugInvariant'
<1> USE DEF DebugInvariant
<1> DEFINE c == Head(dbg.pipe)
<1>1. dbg \in DbgTypes /\ dbg.pipe \in Seq(Commands) /\ dbg.pipe # <<>>
  BY DEF DebugTypeOK, DbgTypes, Answers
<1>2. c \in Commands /\ Tail(dbg.pipe) \in Seq(Commands)
  BY <1>1
<1>3. /\ \/ /\ dlv' = CASE c.op = "break" -> [dlv EXCEPT !.bps = @ \cup ({c.loc} \ {NoLocation})]
                        [] c.op = "clear" -> [dlv EXCEPT !.bps = @ \ {c.loc}]
                        [] c.op = "continue" -> [dlv EXCEPT !.running = TRUE]
            /\ lost' = lost
         \/ /\ c.op = "break" /\ dlv' = dlv
            /\ lost' = lost \cup ({c.loc} \ {NoLocation})
      /\ dbg' = [dbg EXCEPT !.pipe = Tail(@), !.busy = IF c.op = "continue" THEN @ ELSE FALSE]
      /\ client = "running"
      /\ UNCHANGED <<editor, fileBpMap, server, client, sessions, holes>>
  BY DEF Answers
<1>4. /\ dbg' \in DbgTypes /\ dbg'.pipe = Tail(dbg.pipe)
      /\ dbg'.map = dbg.map /\ dbg'.init = dbg.init /\ dbg'.bks = dbg.bks
  BY <1>1, <1>2, <1>3 DEF DbgTypes
<1>5. dlv \in [bps : SUBSET Places, running : BOOLEAN] /\ lost \subseteq Places
  BY DEF DebugTypeOK
<1>6. /\ c.op \in {"break", "clear", "continue"}
      /\ c.op = "clear" => c.loc \in Places
      /\ {c.loc} \ {NoLocation} \subseteq Places
  BY <1>2 DEF Commands
<1>7. /\ dlv'.running \in BOOLEAN /\ DOMAIN dlv' = {"bps", "running"}
      /\ dlv' = [bps |-> dlv'.bps, running |-> dlv'.running]
      /\ \/ /\ dlv'.bps = IF c.op = "break" THEN dlv.bps \cup ({c.loc} \ {NoLocation})
                          ELSE IF c.op = "clear" THEN dlv.bps \ {c.loc} ELSE dlv.bps
            /\ lost' = lost
         \/ /\ c.op = "break" /\ dlv'.bps = dlv.bps
            /\ lost' = lost \cup ({c.loc} \ {NoLocation})
  BY <1>3, <1>5, <1>6
<1> HIDE DEF c
<1>8. \A loc \in Places \ lost' :
        loc \in dlv'.bps <=> Breaks(c, loc) \/ (loc \in dlv.bps /\ ~Clears(c, loc))
  BY <1>6, <1>7, NoLocationIsNoPlace DEF Breaks, Clears
<1>9. PipeAgrees'
  <2>1. ASSUME NEW loc \in Places \ lost'
        PROVE  WillHave(dlv'.bps, dbg'.pipe, loc) <=> WillHave(dlv.bps, dbg.pipe, loc)
    <3> DEFINE bps == dlv.bps
               after == dlv'.bps
               pipe == dbg.pipe
    <3>1. loc \in after <=> Breaks(Head(pipe), loc) \/ (loc \in bps /\ ~Clears(Head(pipe), loc))
      BY <1>8 DEF c
    <3>2. pipe \in Seq(Commands) /\ pipe # <<>>
      BY <1>1
    <3> HIDE DEF bps, after, pipe
    <3>3. WillHave(after, Tail(pipe), loc) <=> WillHave(bps, pipe, loc)
      BY <3>1, <3>2, ReadWillHave
    <3> QED
      BY <1>4, <3>3 DEF bps, after, pipe
  <2> QED
    BY <1>3, <1>4, <1>7, <2>1 DEF PipeAgrees, InSession
<1>10. DebugTypeOK'
  <2>1. dlv'.bps \subseteq Places /\ lost' \subseteq Places
    BY <1>5, <1>6, <1>7
  <2> QED
    BY <1>3, <1>4, <1>7, <2>1 DEF DebugTypeOK, DbgTypes
<1>11. IndexAgrees' /\ IndexWithinMarks' /\ WrittenToServed'
  BY <1>3, <1>4 DEF IndexAgrees, InSession, Listed, IndexWithinMarks, Open, WrittenToServed
<1> QED
  BY <1>9, <1>10, <1>11


LEMMA StopsStep ==
  ASSUME DebugInvariant, Stops
  PROVE  DebugInvariant'
<1> USE DEF DebugInvariant
<1>1. /\ dbg \in DbgTypes /\ dlv \in [bps : SUBSET Places, running : BOOLEAN]
      /\ dlv' = [dlv EXCEPT !.running = FALSE] /\ dbg' = [dbg EXCEPT !.busy = FALSE]
      /\ UNCHANGED <<editor, fileBpMap, server, client, sessions, lost, holes>>
  BY DEF Stops, DebugTypeOK, DbgTypes
<1>2. /\ dbg' \in DbgTypes /\ dbg'.pipe = dbg.pipe /\ dbg'.map = dbg.map
      /\ dbg'.init = dbg.init /\ dbg'.bks = dbg.bks
      /\ dlv' \in [bps : SUBSET Places, running : BOOLEAN] /\ dlv'.bps = dlv.bps
  BY <1>1 DEF DbgTypes
<1>3. DebugTypeOK'
  BY <1>1, <1>2 DEF DebugTypeOK, DbgTypes
<1>4. IndexWithinMarks' /\ WrittenToServed' /\ PipeAgrees' /\ IndexAgrees'
  BY <1>1, <1>2 DEF IndexWithinMarks, Open, WrittenToServed, PipeAgrees, IndexAgrees,
                    InSession, Listed
<1> QED
  BY <1>3, <1>4

LEMMA StopWithStep ==
  ASSUME DebugInvariant, NEW s, NEW c, StopWith(s, c)
  PROVE  DebugInvariant'
<1> USE DEF DebugInvariant
<1>1. server' \in {"none", "dying"} /\ client' \in {"none", "dying"}
  BY DEF StopWith
<1>2. /\ dbg \in DbgTypes
      /\ dbg' = [dbg EXCEPT !.pipe = <<>>] /\ dlv' = [bps |-> {}, running |-> FALSE]
      /\ lost' = {} /\ holes' = {}
      /\ UNCHANGED <<editor, fileBpMap, sessions>>
  BY DEF StopWith, DebugTypeOK, DbgTypes
<1>3. dbg' \in DbgTypes /\ dbg'.pipe = <<>>
  <2>1. <<>> \in Seq(Commands)
    OBVIOUS
  <2> QED
    BY <1>2, <2>1 DEF DbgTypes
<1>4. DebugTypeOK'
  BY <1>1, <1>2, <1>3 DEF DebugTypeOK, DbgTypes
<1>5. IndexWithinMarks' /\ WrittenToServed' /\ PipeAgrees' /\ IndexAgrees'
  BY <1>1, <1>2, <1>3 DEF IndexWithinMarks, Open, WrittenToServed, PipeAgrees, IndexAgrees,
                          InSession
<1> QED
  BY <1>4, <1>5

LEMMA DebugStutters ==
  ASSUME DebugInvariant, UNCHANGED vars
  PROVE  DebugInvariant'
<1> USE DEF DebugInvariant, vars
<1>1. DebugTypeOK'
  BY DEF DebugTypeOK
<1>2. IndexWithinMarks' /\ WrittenToServed' /\ PipeAgrees' /\ IndexAgrees'
  BY DEF IndexWithinMarks, Open, WrittenToServed, PipeAgrees, IndexAgrees, InSession, Listed
<1> QED
  BY <1>1, <1>2

LEMMA DebugStep ==
  ASSUME DebugAssumption, DebugInvariant, [Next]_vars
  PROVE  DebugInvariant'
<1>1. CASE \E f \in Files : EditorCreated(f) \/ EditorAboutToClose(f) \/ RemoveAllBreakPoints(f)
  BY <1>1, EditorCreatedStep, EditorAboutToCloseStep, RemoveAllBreakPointsStep
<1>2. CASE \E f \in Files, line \in Lines :
             InsertsLine(f, line - 1) \/ RemovesLine(f, line) \/ ToggleBreakPoint(f, line)
             \/ RunToLine(f, line)
  BY <1>2, InsertsLineStep, RemovesLineStep, ToggleBreakPointStep, RunToLineStep
<1>3. CASE StartDebug \/ ServerListens \/ ClientGreets \/ Answers \/ Stops \/ ContinueRun
  BY <1>3, StartDebugStep, ServerListensStep, ClientGreetsStep, AnswersStep, StopsStep,
     ContinueRunStep
<1>4. CASE StopDebug \/ ProcessEnds
  BY <1>4, StopWithStep DEF StopDebug, ProcessEnds
<1>5. CASE UNCHANGED vars
  BY <1>5, DebugStutters
<1> QED
  BY <1>1, <1>2, <1>3, <1>4, <1>5 DEF Next

\* The four places of a breakpoint stay together, as far as they do: over any
\* number of sessions, each command written or dropped, each answer late.
THEOREM DebugInvariantHolds == Spec => []DebugInvariant
<1>1. Init => DebugInvariant
  BY DebugAssumption, DebugInitially
<1>2. DebugInvariant /\ [Next]_vars => DebugInvariant'
  BY DebugAssumption, DebugStep
<1> QED
  BY <1>1, <1>2, PTL DEF Spec

\* Removing a breakpoint always removes what the user sees, wherever the lines
\* of the text have gone (LiteEditorMark).
THEOREM IndexWithinMarksHolds == Spec => []IndexWithinMarks
<1>1. DebugInvariant => IndexWithinMarks
  BY DEF DebugInvariant
<1> QED
  BY <1>1, DebugInvariantHolds, PTL

\* When delve has read everything it has the breakpoints of m_locationBkMap,
\* but for those whose last command command_helper dropped or delve refused.
THEOREM DebuggerAgreesHolds == Spec => []DebuggerAgrees
<1>1. ASSUME DebugInvariant PROVE DebuggerAgrees
  <2> SUFFICES ASSUME Settled, NEW f \in Files, NEW loc \in Locations(f) \ lost
               PROVE  loc \in dlv.bps <=> loc \in dbg.map
    BY DEF DebuggerAgrees
  <2>1. loc \in Places /\ InSession /\ dbg.pipe = <<>>
    BY PlacesAreLocations DEF Settled, InSession
  <2>2. WillHave(dlv.bps, dbg.pipe, loc) <=> loc \in dbg.map
    BY <1>1, <2>1 DEF DebugInvariant, PipeAgrees
  <2> QED
    BY <2>1, <2>2 DEF WillHave
<1> QED
  BY <1>1, DebugInvariantHolds, PTL

\* The program stops where the editor says it does (the lines its index
\* lists), but for the places the code loses count of.
THEOREM StopsAtMarksHolds == Spec => []StopsAtMarks
<1>1. ASSUME DebugInvariant PROVE StopsAtMarks
  <2> SUFFICES ASSUME Settled, NEW f \in Files, NEW line \in Lines,
                      Location(f, line) \notin holes \cup lost
               PROVE  line \in editor[f].index <=> Location(f, line) \in dlv.bps
    BY DEF StopsAtMarks
  <2>1. /\ Location(f, line) \in Places /\ InSession
        /\ dbg.pipe = <<>> /\ dbg.init
    BY PlacesAreLocations DEF Settled, InSession
  <2>2. WillHave(dlv.bps, dbg.pipe, Location(f, line)) <=> Location(f, line) \in dbg.map
    BY <1>1, <2>1 DEF DebugInvariant, PipeAgrees
  <2>3. line \in editor[f].index <=> Location(f, line) \in dbg.map
    BY <1>1, <2>1 DEF DebugInvariant, IndexAgrees, Listed
  <2> QED
    BY <2>1, <2>2, <2>3 DEF WillHave
<1> QED
  BY <1>1, DebugInvariantHolds, PTL
=============================================================================
