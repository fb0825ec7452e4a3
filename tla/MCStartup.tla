------------------------------ MODULE MCStartup -----------------------------
(***************************************************************************)
(* An instance of Startup for TLC: a group, an array with seeds and an     *)
(* empty array, constructed by two PEs.                                    *)
(***************************************************************************)
EXTENDS Startup, TLC

CONSTANTS b1, b2, e1

\* 2 by 3 indices, the first component in steps of 2 up to 4
Wide == Options(<<0, 0>>, <<4, 3>>, <<2, 1>>)

MCProgram == 0 :> <<Group, Array(NoOptions)>> @@ 1 :> <<Array(Wide)>>
MCFrom == b1 :> 0 @@ b2 :> 0 @@ e1 :> 0
MCTo == b1 :> Id(0, 0) @@ b2 :> Id(0, 0) @@ e1 :> Id(1, 0)
MCIdx == b1 :> bcast_root @@ b2 :> bcast_root @@ e1 :> encode(<<2, 1>>)
Separate == [p \in PE |-> p]

(***************************************************************************)
(* A program whose main thread, on PE 0, constructs the group and the      *)
(* empty array and makes the calls.  On PE 1 a branch of the group         *)
(* constructs the other array.  PE 0 calls exit when the collections are   *)
(* there: nothing says that its calls have been handled.                   *)
(***************************************************************************)
Called == sent = Letter \cup {c \in Arrays : ~Seeded(c)}

InOrder ==
    /\ local_collection_count'[1] # local_collection_count[1] =>
          Id(0, 0) \in collection_table[1]
    /\ exits' # exits =>
          /\ Called /\ \A p \in PE : User \subseteq collection_table[p]
          /\ queue'[1] = queue[1]

MCSpec == Init /\ [][Next /\ InOrder]_vars /\ Fairness

(* All small options, of one to three components *)
Upon(end) ==
    {Options([i \in DOMAIN end |-> 0], end, step) :
        step \in [DOMAIN end -> 1 .. 3]}

Walks(o) ==
    LET range == visited(o)
    IN /\ IsInjective([i \in DOMAIN range |-> encode(range[i])])
       /\ ToSet(range) = Grid(o)

ASSUME WalksCoverGrids ==
    \A n \in 1 .. 3 : \A end \in [1 .. n -> 0 .. 3] :
        \A o \in Upon(end) : Regular(o) => Walks(o)
=============================================================================
