------------------------------- MODULE Mailbox ------------------------------
(***************************************************************************)
(* What point-to-point messaging on a chare array promises, with no PE     *)
(* tables, no forwarding and no network: an element is created once and    *)
(* is afterwards at one place or on its way to another; a message is sent  *)
(* once to one element, and its entry method runs once, at a time when the *)
(* element is at a place.  Delivery is shown to implement this.            *)
(***************************************************************************)
CONSTANTS Elem, Msg,
          Place, Nowhere,   \* Nowhere is not a place
          NoElem            \* not an element

VARIABLES place,    \* where an element is, Nowhere before creation and in transit
          target,   \* the element a message was sent to
          invoked   \* how many times the entry method ran for a message

vars == <<place, target, invoked>>

Init ==
    /\ place \in [Elem -> Place \cup {Nowhere}]
    /\ target = [m \in Msg |-> NoElem]
    /\ invoked = [m \in Msg |-> 0]

Pending(e) == {m \in Msg : target[m] = e /\ invoked[m] = 0}

(* A batch of messages waiting for e is run while e is at a place *)
Run(e, batch) ==
    /\ batch \subseteq Pending(e)
    /\ place'[e] # Nowhere
    /\ invoked' = [m \in Msg |-> IF m \in batch THEN 1 ELSE invoked[m]]

Send(m, e) ==
    /\ target[m] = NoElem
    /\ target' = [target EXCEPT ![m] = e]
    /\ UNCHANGED <<place, invoked>>

(* The element appears where it is created or where its move ends, and     *)
(* whatever was waiting for it there runs                                  *)
Arrive(e, p) ==
    /\ place[e] = Nowhere
    /\ place' = [place EXCEPT ![e] = p]
    /\ \E batch \in SUBSET Pending(e) : Run(e, batch)
    /\ UNCHANGED target

Depart(e) ==
    /\ place[e] # Nowhere
    /\ place' = [place EXCEPT ![e] = Nowhere]
    /\ UNCHANGED <<target, invoked>>

Execute(e) ==
    /\ UNCHANGED <<place, target>>
    /\ \E batch \in SUBSET Pending(e) : Run(e, batch)

Next ==
    \E e \in Elem :
        \/ \E m \in Msg : Send(m, e)
        \/ \E p \in Place : Arrive(e, p)
        \/ Depart(e)
        \/ Execute(e)

Spec == Init /\ [][Next]_vars
=============================================================================
