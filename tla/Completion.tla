----------------------------- MODULE Completion -----------------------------
(***************************************************************************)
(* The completion detector of one collection                               *)
(* (include/charmlite/core/completion.hpp).  Every PE counts the events it *)
(* produces and consumes.  Detection runs in waves: each PE contributes    *)
(* its count to a sum over all PEs, the sum is broadcast down a spanning   *)
(* tree, and a PE that learns that it was not zero contributes its count   *)
(* of that moment to the next wave.                                        *)
(*                                                                         *)
(* This module is the detector's part of the state and of the handlers;    *)
(* the collection that counts with it is another module.  The reduction    *)
(* that adds up a wave is one step here, SendResult: its messages carry    *)
(* nothing but partial sums of contributions already fixed.                *)
(***************************************************************************)
EXTENDS SpanTree, FiniteSetsExt

VARIABLES
    lcount,       \* status.lcount on each PE
    contributed,  \* the PEs that have contributed to the wave
    cut,          \* what each of them contributed
    counts        \* the results of waves on their way to a PE

detector == <<lcount, contributed, cut, counts>>

Count(to, gcount) == [to |-> to, gcount |-> gcount]

DetectorTypeOK ==
    /\ lcount \in [PE -> Int]
    /\ contributed \subseteq PE
    /\ cut \in [PE -> Int]
    /\ \A n \in counts : n.to \in PE /\ n.gcount \in Int

DetectorInit ==
    /\ lcount = [p \in PE |-> 0]
    /\ contributed = {}
    /\ cut = [p \in PE |-> 0]
    /\ counts = {}

-----------------------------------------------------------------------------
(* produce and consume, n events at once *)
produce(p, n) ==
    /\ lcount' = [lcount EXCEPT ![p] = @ + n]
    /\ UNCHANGED <<contributed, cut, counts>>

(* start_detection on a PE whose status is not complete *)
contribute(p) ==
    /\ contributed' = contributed \cup {p}
    /\ cut' = [cut EXCEPT ![p] = lcount[p]]

start_detection(p) ==
    /\ contribute(p)
    /\ UNCHANGED <<lcount, counts>>

(* The all-reduce of a wave arrives at the root of the spanning tree *)
SendResult ==
    /\ contributed = PE
    /\ contributed' = {}
    /\ counts' = counts \cup {Count(0, MapThenSumSet(LAMBDA p : cut[p], PE))}
    /\ UNCHANGED <<lcount, cut>>

(* Mutant: a wave that leaves one event open counts as the last *)
IsComplete_late(n) == n.gcount \in {0, 1}

IsComplete(n) == n.gcount = 0

(* A broadcast sends copies to the children before it runs the entry; the  *)
(* status is reset on completion, and the detection goes on otherwise.     *)
receive_count(n) ==
    LET copies == {Count(q, n.gcount) : q \in span_tree_children(n.to)} IN
    /\ n \in counts
    /\ counts' = (counts \ {n}) \cup copies
    /\ \/ /\ IsComplete(n)
          /\ lcount' = [lcount EXCEPT ![n.to] = 0]
          /\ UNCHANGED <<contributed, cut>>
       \/ /\ ~IsComplete(n)
          /\ contribute(n.to)
          /\ UNCHANGED lcount

(* The root is the PE that then invokes the callback of the detection *)
Fires(n) == IsComplete(n) /\ n.to = 0
=============================================================================
