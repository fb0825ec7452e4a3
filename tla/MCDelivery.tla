----------------------------- MODULE MCDelivery -----------------------------
(***************************************************************************)
(* Instances of Delivery for TLC.                                          *)
(***************************************************************************)
EXTENDS Hurry

CONSTANTS m1, m2

\* insert(pe) on a PE that is not the home of element 1, and insert()
HomeOrAway == {NoPe, 2}
\* insert() as the examples use it: the element starts at home
HomeOnly == {NoPe}
=============================================================================
