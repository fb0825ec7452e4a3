----------------------------- MODULE MCBroadcast ----------------------------
(***************************************************************************)
(* Instances of Broadcast for TLC.                                         *)
(***************************************************************************)
EXTENDS Broadcast

\* 0 above 1 and 2: the spanning tree of three PEs
Fork == 0 :> {1, 2} @@ 1 :> {} @@ 2 :> {}
\* 0 above 1
Pair == 0 :> {1} @@ 1 :> {}

\* every element on its home PE: a group, or an array after insert()
AtHome == [e \in Elem |-> home_pe(e)]
\* every element on the PE after its home: an array after insert(pe)
NextDoor == [e \in Elem |-> (e + 1) % NumPes]

(***************************************************************************)
(* An application that broadcasts freely until it migrates elements, and   *)
(* from then on broadcasts and migrates in turns: it migrates an element   *)
(* when no broadcast is on its way and the element's last move is known,   *)
(* and makes a broadcast when nothing at all is on its way.                *)
(***************************************************************************)
Present(types) ==
    \E r \in Route : \E i \in DOMAIN queue[r] : queue[r][i].type \in types
Settled(e) ==
    ~\E r \in Route : /\ r.idx = e
                      /\ \E i \in DOMAIN queue[r] : queue[r][i].type = "location"
Quiet == /\ ~Present({"post", "copy"})
         /\ \A p \in PE : collective_buffer[p] = <<>>
Unmoved == \A e \in Elem : hop[e] = 0

InTurns ==
    /\ posted' # posted => Unmoved \/ (Quiet /\ ~Present({"location", "chare"}))
    /\ \A e \in Elem : hop'[e] # hop[e] => Quiet /\ Settled(e)

TurnsSpec == Init /\ [][Next /\ InTurns]_vars /\ Fairness
=============================================================================
