------------------------------- MODULE Gather -------------------------------
(***************************************************************************)
(* What a reduction promises: every chare makes one contribution, and when *)
(* all have, one result that combines exactly those contributions goes to  *)
(* the callback of the reduction.  There is no tree here, no number, no    *)
(* message and no PE.                                                      *)
(***************************************************************************)
EXTENDS FiniteSets

CONSTANTS Elem, Redn

VARIABLES
    made,     \* contributions made: pairs of an element and a reduction
    results   \* results produced: [to : Redn, parts : SUBSET (Elem \X Redn)]

gvars == <<made, results>>

All(r) == Elem \X {r}
Result(r) == [to |-> r, parts |-> All(r)]

Init == made = {} /\ results = {}

(* The reductions in R, all complete, produce their results *)
Produces(R) ==
    /\ \A r \in R : All(r) \subseteq made' /\ Result(r) \notin results
    /\ results' = results \cup {Result(r) : r \in R}

Contribute(e, r) ==
    /\ <<e, r>> \notin made
    /\ made' = made \cup {<<e, r>>}
    /\ \/ UNCHANGED results
       \/ Produces({r})

Produce ==
    /\ UNCHANGED made
    /\ \E R \in SUBSET Redn : Produces(R)

Next ==
    \/ \E e \in Elem, r \in Redn : Contribute(e, r)
    \/ Produce

Spec == Init /\ [][Next]_gvars
=============================================================================
