----------------------------- MODULE TotalOrder -----------------------------
(***************************************************************************)
(* What broadcasting to a collection promises, with no tree, no sequence   *)
(* numbers and no packets: the root element decides an order, and every    *)
(* element runs the broadcasts once each, in that order.                   *)
(***************************************************************************)
EXTENDS SequencesExt

CONSTANTS Elem, Bcast,
          root       \* the element that decides

VARIABLES posted,    \* broadcasts the program has made
          ran        \* ran[e]: the broadcasts e has run, in its order

vars == <<posted, ran>>

Init ==
    /\ posted = {}
    /\ ran = [e \in Elem |-> <<>>]

Post(b) ==
    /\ b \notin posted
    /\ posted' = posted \cup {b}
    /\ UNCHANGED ran

(* The root takes one or several broadcasts that were posted and not yet   *)
(* decided on                                                              *)
Decide ==
    /\ IsStrictPrefix(ran[root], ran'[root])
    /\ ToSet(ran'[root]) \subseteq posted
    /\ IsInjective(ran'[root])
    /\ ran' = [ran EXCEPT ![root] = ran'[root]]
    /\ UNCHANGED posted

(* Another element goes on by some of what the root has decided *)
Follow(e) ==
    /\ e # root
    /\ \E n \in (Len(ran[e]) + 1) .. Len(ran[root]) :
          ran' = [ran EXCEPT ![e] = SubSeq(ran[root], 1, n)]
    /\ UNCHANGED posted

Next ==
    \/ \E b \in Bcast : Post(b)
    \/ Decide
    \/ \E e \in Elem : Follow(e)

Spec == Init /\ [][Next]_vars
=============================================================================
