------------------------------ MODULE SpanTree ------------------------------
(***************************************************************************)
(* The spanning tree Converse offers over all PEs (CmiSpanTreeChildren):   *)
(* the branches of groups, the completion detector's among them, are       *)
(* arranged in it.                                                         *)
(***************************************************************************)
EXTENDS Converse

CONSTANT Branch     \* children of a PE in the Converse spanning tree

ASSUME BranchAssumption == Branch \in Nat \ {0}

span_tree_children(p) == {q \in PE : q > 0 /\ (q - 1) \div Branch = p}
span_tree_parent(p) == IF p = 0 THEN NoPe ELSE (p - 1) \div Branch
=============================================================================
