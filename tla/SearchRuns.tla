------------------------------- MODULE SearchRuns -------------------------------
(***************************************************************************)
(* What the panel of results promises about Find in Files, whatever is in  *)
(* the files: the thread is started, stopped and killed again and again,   *)
(* and what it posts arrives late, but the panel never shows the results   *)
(* of two runs together.                                                   *)
(***************************************************************************)
EXTENDS Integers, Sequences

VARIABLES
  searching,  \* the run the thread is at, or 0
  posted,     \* the signals of the thread that were not delivered
  shown       \* the runs whose results the panel shows

vars == <<searching, posted, shown>>

Runs == Nat \ {0}

Started   == [is |-> "started", run |-> 0]
Finished  == [is |-> "finished", run |-> 0]
Result(r) == [is |-> "result", run |-> r]

Init == searching = 0 /\ posted = <<>> /\ shown = {}

\* Any run may come next: no number is relied on to be new.
Begins ==
  /\ searching = 0
  /\ searching' \in Runs
  /\ posted' = Append(posted, Started)
  /\ UNCHANGED shown

\* Some results of the run, or none.
Finds ==
  /\ searching # 0
  /\ LET n == Len(posted') - Len(posted) IN
     n \in Nat /\ posted' = posted \o [i \in 1..n |-> Result(searching)]
  /\ UNCHANGED <<searching, shown>>

\* The run ends or is killed, or is killed before it begins.
Ends ==
  /\ searching' = 0
  /\ posted' = Append(posted, Finished)
  /\ UNCHANGED shown

Delivered ==
  /\ posted # <<>>
  /\ posted' = Tail(posted)
  /\ shown' = CASE Head(posted).is = "started"  -> {}
                [] Head(posted).is = "result"   -> shown \cup {Head(posted).run}
                [] Head(posted).is = "finished" -> shown
  /\ UNCHANGED searching

\* Another search takes the panel, or what is shown is replaced.
Forgets == shown' = {} /\ UNCHANGED <<searching, posted>>

Next == Begins \/ Finds \/ Ends \/ Delivered \/ Forgets

Spec == Init /\ [][Next]_vars

\* The results that FileSearchManager shows of Find in Files are of one run.
OneRun == \A r, s \in shown : r = s
=============================================================================
