---------------------------- MODULE MCInsertion ----------------------------
(***************************************************************************)
(* Instances of Insertion for TLC.                                         *)
(***************************************************************************)
EXTENDS Insertion

\* insert() without a pe: every element is created at home
AtHome == [e \in Elem |-> NoPe]
\* element 0, at home on PE 0, is created on PE 1; the others at home
ZeroAway == [e \in Elem |-> IF e = 0 THEN 1 ELSE NoPe]
=============================================================================
