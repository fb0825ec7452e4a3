------------------------------ MODULE Converse ------------------------------
(***************************************************************************)
(* The machine charmlite runs on, as its code sees it: a fixed number of   *)
(* PEs, numbered from 0.                                                   *)
(***************************************************************************)
EXTENDS Integers

CONSTANT NumPes     \* CmiNumPes()

ASSUME NumPesAssumption == NumPes \in Nat \ {0}

PE == 0 .. (NumPes - 1)
NoPe == -1
=============================================================================
