----------------------------- MODULE MCReduction ----------------------------
(***************************************************************************)
(* Instances of Reduction for TLC.                                         *)
(***************************************************************************)
EXTENDS Reduction

CONSTANTS r1, r2, r3

\* 2 below 1 below 0: a chare with a child and a parent
Chain == 1 :> 0 @@ 2 :> 1
\* 1 below 0
Pair == 1 :> 0

\* every element at home
AtHome == [e \in Elem |-> home_pe(e)]
\* the same, but element 1 on PE 0
OneAway == [e \in Elem |-> IF e = 1 THEN 0 ELSE home_pe(e)]

\* r2 has a tag of its own, the others have none
SecondTagged == [r \in Redn |-> IF r = r2 THEN 2 ELSE NoTag]
Untagged == [r \in Redn |-> NoTag]

(***************************************************************************)
(* An application that starts an untagged reduction only when the result   *)
(* of the last one is there (as examples/jacobi does), while a tagged one  *)
(* goes on at the same time, and moves an element only when no location    *)
(* update about it is in flight.                                           *)
(***************************************************************************)
Started(r) == \E e \in Elem : <<e, r>> \in made
Finished(r) == \E x \in results : x.to = r
Settled(e) == ~\E n \in net : n.type = "location" /\ n.idx = e

InTurns ==
    /\ \A c \in made' \ made :
          \A r \in Redn \ {c[2]} :
              number(r) = number(c[2]) => Started(r) = Finished(r)
    /\ \A e \in Elem : hop'[e] # hop[e] => e = 1 /\ Settled(e)

TurnsSpec == Init /\ [][Next /\ InTurns]_vars /\ Fairness
=============================================================================
