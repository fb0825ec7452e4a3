-------------------------------- MODULE Hurry -------------------------------
(***************************************************************************)
(* Delivery with a history of its moves.                                   *)
(*                                                                         *)
(* Location updates are not ordered, and an element that moves while one   *)
(* about it is in flight may become unreachable (run delivery_lost).  The  *)
(* variable rushed records that this has happened; in every behaviour      *)
(* where it has not, no message is stuck.                                  *)
(***************************************************************************)
EXTENDS Delivery

VARIABLE rushed

hvars == <<vars, rushed>>

Settled(e) == ~\E n \in net : n.type = "location" /\ n.idx = e

HurryInit == Init /\ rushed = FALSE

HurryNext ==
    /\ Next
    /\ rushed' = (rushed \/ \E e \in Elem : hop'[e] # hop[e] /\ ~Settled(e))

HurrySpec == HurryInit /\ [][HurryNext]_hvars

(* Fairness of Delivery, for the handlers' steps of HurryNext *)
HurryFairness ==
    /\ \A e \in Elem :
          /\ WF_hvars(\E n \in net : n.idx = e /\ ReceiveCtor(n)
                                     /\ UNCHANGED rushed)
          /\ WF_hvars(\E n \in net : n.idx = e /\ ReceiveChare(n)
                                     /\ UNCHANGED rushed)
    /\ \A e \in Elem, c \in Cause :
          WF_hvars(\E n \in net : n.idx = e /\ ReceiveLocation(n)
                                  /\ n.cause = c /\ UNCHANGED rushed)
    /\ \A m \in Msg :
          WF_hvars(\E n \in net : ReceiveEntry(n) /\ n.msg = m
                                  /\ UNCHANGED rushed)

FairHurrySpec == HurrySpec /\ HurryFairness

(* No trap persists while every move has let the last one's update arrive: *)
(* NoDeadEnd can only be broken by a stale update (locmgr.hpp:145).        *)
NoDeadEndUnrushed == rushed \/ NoDeadEnd

(* A message to an inserted element is handled, unless a move was made in  *)
(* a hurry: the order of location updates is all that can lose a message   *)
(* ("re-route messages to new location", collection_bridge.hpp:338).       *)
InvokedUnlessRushed ==
    \A m \in Msg, e \in Elem :
        (target[m] = e /\ e \in inserted) ~> (rushed \/ invoked[m] = 1)
=============================================================================
