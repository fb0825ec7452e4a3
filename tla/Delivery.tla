------------------------------ MODULE Delivery ------------------------------
(***************************************************************************)
(* Point-to-point delivery on one chare array: insertion, sends,           *)
(* forwarding, buffering at the home PE, migration and location updates    *)
(* (include/charmlite/core/collection.hpp and collection_bridge.hpp).      *)
(*                                                                         *)
(* Every PE runs one scheduler; a handler runs to completion, so each      *)
(* handler is one action.  The network is a set: Converse delivers every   *)
(* packet once, in any order.  The spanning tree an arriving chare joins   *)
(* and the completion counters are the state of other components; entry    *)
(* methods are user code, whose own sends and migrations are the actions   *)
(* Post and Emigrate.                                                      *)
(***************************************************************************)
EXTENDS Locmgr

CONSTANTS Msg,        \* messages, each sent at most once
          Anonymous,  \* those sent without a sender PE (by a callback)
          Seeded,     \* elements in the range of the collection's options
          InsertOn,   \* PEs given to insert(); NoPe leaves it to the mapper
          MaxHops     \* bound: migrations of one element

ASSUME DeliveryAssumption ==
    /\ Anonymous \subseteq Msg
    /\ Seeded \subseteq Elem
    /\ InsertOn \subseteq PE \cup {NoPe}
    /\ MaxHops \in Nat

VARIABLES
    chares,    \* chares[p]: the elements resident on p
    buffers,   \* buffers[p][e]: entry messages waiting on p for e
    net,       \* packets sent and not handled
    inserted,  \* elements for which insert() was called (or seeded)
    target,    \* history: the element each message was sent to
    invoked,   \* history: how often each message's entry method ran
    hop        \* migrations so far of each element

NoElem == -1

tables == <<locmap, routing_cache>>
history == <<inserted, target, hop>>
vars == <<tables, chares, buffers, net, history, invoked>>

-----------------------------------------------------------------------------
(* Packets.  A location update carries what caused it, so that two updates *)
(* with the same contents stay two packets: 0 for an insertion, k for the  *)
(* k-th migration, a message for an answer to its sender.                  *)

Cause == (0 .. MaxHops) \cup Msg

CtorPacket == [type : {"ctor"}, idx : Elem, to : PE, createhere : BOOLEAN]
EntryPacket ==   \* only a message with a sender is ever marked as forwarded
    {n \in [type : {"entry"}, idx : Elem, to : PE, msg : Msg,
            sender : PE \cup {NoPe}, forwarded : BOOLEAN] :
        n.forwarded => n.sender # NoPe}
LocationPacket == [type : {"location"}, idx : Elem, to : PE, pe : PE,
                   cause : Cause]
CharePacket == [type : {"chare"}, idx : Elem, to : PE]
Packet == CtorPacket \cup EntryPacket \cup LocationPacket \cup CharePacket

Ctor(e, to, here) ==
    [type |-> "ctor", idx |-> e, to |-> to, createhere |-> here]
Entry(e, to, m, sender) ==
    [type |-> "entry", idx |-> e, to |-> to, msg |-> m, sender |-> sender,
     forwarded |-> FALSE]
Location(e, to, pe, cause) ==
    [type |-> "location", idx |-> e, to |-> to, pe |-> pe, cause |-> cause]
Chare(e, to) == [type |-> "chare", idx |-> e, to |-> to]

TypeOK ==
    /\ LocmgrTypeOK
    /\ chares \in [PE -> SUBSET Elem]
    /\ buffers \in [PE -> [Elem -> SUBSET EntryPacket]]
    /\ net \subseteq Packet
    /\ inserted \subseteq Elem
    /\ target \in [Msg -> Elem \cup {NoElem}]
    /\ invoked \in [Msg -> Nat]
    /\ hop \in [Elem -> 0 .. MaxHops]

(* The collection exists on every PE; its constructor has created the      *)
(* seeds on their home PEs.                                                *)
Init ==
    /\ LocmgrInit
    /\ chares = [p \in PE |-> {e \in Seeded : home_pe(e) = p}]
    /\ buffers = [p \in PE |-> [e \in Elem |-> {}]]
    /\ net = {}
    /\ inserted = Seeded
    /\ target = [m \in Msg |-> NoElem]
    /\ invoked = [m \in Msg |-> 0]
    /\ hop = [e \in Elem |-> 0]

-----------------------------------------------------------------------------
(* try_deliver for a batch of entry messages to e that p handles in one go *)
(* (the message received, or the buffer that flush_buffers drains), after  *)
(* the handler has updated p's tables and elements.  The outcome is the    *)
(* same for each message of the batch, and nothing observes their order.   *)
(* rest is the network without the packet handled and with those the       *)
(* handler has already sent.                                               *)

(* The messages answered with p's location: those that reached e off its   *)
(* home, through another PE, from a PE other than its home                 *)
routing_updates(p, e, batch) ==
    {Location(e, n.sender, p, n.msg) :
        n \in {k \in batch : /\ home_pe(e) # p
                             /\ k.sender # home_pe(e)
                             /\ k.forwarded}}

forward_to(p, n, to) ==
    [n EXCEPT !.to = to,
              !.forwarded = @ \/ (n.sender # NoPe /\ n.sender # p)]

(* Mutant: a PE without a cached location buffers, home or not *)
NoIdea_anywhere(p, e) == lookup(p, e) = home_pe(e)

(* p is the home of e and does not know where e is *)
NoIdea(p, e) == home_pe(e) = p /\ lookup(p, e) = p

(* Mutant: delivered messages are not popped from the buffer *)
Invoke_unpopped(p, e, batch, rest) ==
    /\ e \in chares'[p]
    /\ net' = rest \cup routing_updates(p, e, batch)
    /\ UNCHANGED buffers
    /\ invoked' = [m \in Msg |-> IF \E n \in batch : n.msg = m
                                 THEN invoked[m] + 1
                                 ELSE invoked[m]]

Invoke(p, e, batch, rest) ==
    /\ e \in chares'[p]
    /\ net' = rest \cup routing_updates(p, e, batch)
    /\ buffers' = [buffers EXCEPT ![p][e] = @ \ batch]
    /\ invoked' = [m \in Msg |-> IF \E n \in batch : n.msg = m
                                 THEN invoked[m] + 1
                                 ELSE invoked[m]]

(* Mutant: the undelivered message is not buffered *)
Hold_dropped(p, e, batch, rest) ==
    /\ e \notin chares'[p]
    /\ NoIdea(p, e)'
    /\ net' = rest
    /\ UNCHANGED <<buffers, invoked>>

Hold(p, e, batch, rest) ==
    /\ e \notin chares'[p]
    /\ NoIdea(p, e)'
    /\ net' = rest
    /\ buffers' = [buffers EXCEPT ![p][e] = @ \cup batch]
    /\ UNCHANGED invoked

Forward(p, e, batch, rest) ==
    /\ e \notin chares'[p]
    /\ ~NoIdea(p, e)'
    /\ net' = rest \cup {forward_to(p, n, lookup(p, e)') : n \in batch}
    /\ buffers' = [buffers EXCEPT ![p][e] = @ \ batch]
    /\ UNCHANGED invoked

TryDeliver(p, e, batch, rest) ==
    \/ Invoke(p, e, batch, rest)
    \/ Hold(p, e, batch, rest)
    \/ Forward(p, e, batch, rest)

(* Mutant: the buffer is left for a later occasion *)
FlushBuffers_skipped(p, e, rest) == TryDeliver(p, e, {}, rest)

FlushBuffers(p, e, rest) == TryDeliver(p, e, buffers[p][e], rest)

(* Mutant: inform_home is never set *)
InformHome_never(p, e, pe, cause) == {}

(* The message a PE sends to the home PE of e, unless it is the home       *)
InformHome(p, e, pe, cause) ==
    IF p = home_pe(e) THEN {} ELSE {Location(e, home_pe(e), pe, cause)}

(* The element list of p gains or loses e *)
Emplace(p, e) == chares' = [chares EXCEPT ![p] = @ \cup {e}]

(* Mutant: the element is packed and sent but not erased *)
Erase_forgotten(p, e) == UNCHANGED chares

Erase(p, e) == chares' = [chares EXCEPT ![p] = @ \ {e}]

-----------------------------------------------------------------------------
(* Operations of the proxies *)

(* Nothing on p shows that the collection exists there yet *)
Untouched(p) ==
    /\ chares[p] = {}
    /\ \A e \in Elem : /\ locmap[p][e] = NoPe
                       /\ routing_cache[p][e] = NoPe
                       /\ buffers[p][e] = {}

(* Where deliver_later on p sends a message for e; where the collection is *)
(* not created yet, the message waits on p itself and is handled there     *)
FirstStop(p, e) == {lookup(p, e)} \cup (IF Untouched(p) THEN {p} ELSE {})

Insert(p, e, at) ==
    /\ e \notin inserted
    /\ inserted' = inserted \cup {e}
    /\ \/ /\ at = NoPe
          /\ \E to \in FirstStop(p, e) : net' = net \cup {Ctor(e, to, FALSE)}
       \/ /\ at # NoPe
          /\ net' = net \cup {Ctor(e, at, TRUE)}
    /\ UNCHANGED <<tables, chares, buffers, target, hop, invoked>>

SenderOf(p, m) == IF m \in Anonymous THEN NoPe ELSE p

Post(p, m, e) ==
    /\ target[m] = NoElem
    /\ target' = [target EXCEPT ![m] = e]
    /\ \E to \in FirstStop(p, e) :
          net' = net \cup {Entry(e, to, m, SenderOf(p, m))}
    /\ UNCHANGED <<tables, chares, buffers, inserted, hop, invoked>>

(* The chare leaves first, then the home PE is told, then p's tables and   *)
(* buffers follow.  dst may be p itself.                                   *)
Emigrate(p, e, dst) ==
    /\ e \in chares[p]
    /\ hop[e] < MaxHops
    /\ hop' = [hop EXCEPT ![e] = @ + 1]
    /\ update_location(p, e, dst)
    /\ Erase(p, e)
    /\ FlushBuffers(p, e, net \cup {Chare(e, dst)}
                              \cup InformHome(p, e, dst, hop[e] + 1))
    /\ UNCHANGED <<inserted, target>>

-----------------------------------------------------------------------------
(* Handlers of the packets *)

(* A constructor message makes the chare here, or goes on to the home PE *)
CreatesHere(n) == n.createhere \/ home_pe(n.idx) = n.to

ReceiveCtor(n) ==
    /\ n \in net /\ n.type = "ctor"
    /\ \/ /\ CreatesHere(n)
          /\ Emplace(n.to, n.idx)
          /\ UNCHANGED tables
          /\ FlushBuffers(n.to, n.idx,
                 (net \ {n}) \cup InformHome(n.to, n.idx, n.to, 0))
       \/ /\ ~CreatesHere(n)
          /\ net' = (net \ {n}) \cup {[n EXCEPT !.to = home_pe(n.idx)]}
          /\ UNCHANGED <<tables, chares, buffers, invoked>>
    /\ UNCHANGED history

ReceiveEntry(n) ==
    /\ n \in net /\ n.type = "entry"
    /\ UNCHANGED <<tables, chares>>
    /\ TryDeliver(n.to, n.idx, {n}, net \ {n})
    /\ UNCHANGED history

ReceiveLocation(n) ==
    /\ n \in net /\ n.type = "location"
    /\ update_location(n.to, n.idx, n.pe)
    /\ UNCHANGED chares
    /\ FlushBuffers(n.to, n.idx, net \ {n})
    /\ UNCHANGED history

ReceiveChare(n) ==
    /\ n \in net /\ n.type = "chare"
    /\ update_location(n.to, n.idx, n.to)
    /\ Emplace(n.to, n.idx)
    /\ FlushBuffers(n.to, n.idx, net \ {n})
    /\ UNCHANGED history

-----------------------------------------------------------------------------
Next ==
    \/ \E p \in PE, e \in Elem : \E at \in InsertOn : Insert(p, e, at)
    \/ \E p \in PE, e \in Elem, m \in Msg : Post(p, m, e)
    \/ \E p \in PE, e \in Elem, dst \in PE : Emigrate(p, e, dst)
    \/ \E n \in net : ReceiveCtor(n)
    \/ \E n \in net : ReceiveEntry(n)
    \/ \E n \in net : ReceiveLocation(n)
    \/ \E n \in net : ReceiveChare(n)

Spec == Init /\ [][Next]_vars

(* The scheduler of every PE handles each packet it is sent.  Each element *)
(* has at most one ctor or chare packet, each cause of each element one    *)
(* location update, each message one entry packet; nobody is obliged to    *)
(* insert, send or migrate.                                                *)
Fairness ==
    /\ \A e \in Elem :
          /\ WF_vars(\E n \in net : n.idx = e /\ ReceiveCtor(n))
          /\ WF_vars(\E n \in net : n.idx = e /\ ReceiveChare(n))
    /\ \A e \in Elem, c \in Cause :
          WF_vars(\E n \in net : n.idx = e /\ ReceiveLocation(n) /\ n.cause = c)
    /\ \A m \in Msg :
          WF_vars(\E n \in net : ReceiveEntry(n) /\ n.msg = m)

FairSpec == Spec /\ Fairness

-----------------------------------------------------------------------------
(* Safety *)

ResidentOn(e) == {p \in PE : e \in chares[p]}
InTransit(e) == {n \in net : n.type \in {"ctor", "chare"} /\ n.idx = e}
IsSingleton(S) == \E x \in S : S = {x}

Placed(e) ==
    \/ e \notin inserted /\ ResidentOn(e) = {} /\ InTransit(e) = {}
    \/ e \in inserted /\ IsSingleton(ResidentOn(e)) /\ InTransit(e) = {}
    \/ e \in inserted /\ ResidentOn(e) = {} /\ IsSingleton(InTransit(e))

(* An element that was inserted is either resident on one PE or in one     *)
(* constructor or migration packet, never in two places and never lost;    *)
(* before insert() it is nowhere.  (The assertion "insertion did not       *)
(* occur!" of try_deliver, and the unchecked emplace of receive_chare.)    *)
ElementConserved == \A e \in Elem : Placed(e)

Traveling(m) == {n \in net : n.type = "entry" /\ n.msg = m}
WaitingAt(p, e, m) == {<<p, e, n>> : n \in {k \in buffers[p][e] : k.msg = m}}
Waiting(m) == UNION {UNION {WaitingAt(p, e, m) : e \in Elem} : p \in PE}

Accounted(m) ==
    \/ /\ target[m] = NoElem /\ invoked[m] = 0
       /\ Traveling(m) = {} /\ Waiting(m) = {}
    \/ /\ target[m] # NoElem /\ invoked[m] = 0
       /\ IsSingleton(Traveling(m)) /\ Waiting(m) = {}
    \/ /\ target[m] # NoElem /\ invoked[m] = 0
       /\ Traveling(m) = {} /\ IsSingleton(Waiting(m))
    \/ /\ target[m] # NoElem /\ invoked[m] = 1
       /\ Traveling(m) = {} /\ Waiting(m) = {}

(* A message that was sent is in exactly one place: in the network, in one *)
(* buffer of one PE, or consumed by the entry method it was sent to, which *)
(* ran once.  No path of forwarding, buffering, flushing and migration     *)
(* drops or repeats it.                                                    *)
MessageConserved == \A m \in Msg : Accounted(m)

(* Messages wait for an element only on its home PE (try_deliver fails     *)
(* nowhere else), and never on a PE where the element lives: every arrival *)
(* flushes what waited for it.                                             *)
WaitsOnlyAtHome ==
    \A p \in PE, e \in Elem :
        buffers[p][e] # {} => home_pe(e) = p /\ e \notin chares[p]

(* A set of PEs a message for e never leaves while the tables stay as they *)
(* are: a forwarding cycle, or the home PE holding the message             *)
Trap(e, S) ==
    /\ S # {}
    /\ \A p \in S : e \notin chares[p] /\ lookup(p, e) \in S

(* Once e was constructed, a trap is only ever passing: a packet that will *)
(* change the tables of one of its PEs, or bring e there, is on its way.   *)
(* Stale locations, at the home PE or in a cache, break this first.        *)
NoDeadEnd ==
    \A e \in Elem, S \in SUBSET PE :
        /\ Trap(e, S)
        /\ e \in inserted
        /\ ~\E n \in net : n.type = "ctor" /\ n.idx = e
        => \E n \in net : /\ n.type \in {"location", "chare"}
                          /\ n.idx = e
                          /\ n.to \in S

-----------------------------------------------------------------------------
(* Liveness *)

(* A message sent to an element that is inserted, before or after, is      *)
(* eventually handled by it, wherever the element migrates meanwhile       *)
(* ("re-route messages to new location", collection_bridge.hpp:338).       *)
EveryMessageInvoked ==
    \A m \in Msg, e \in Elem :
        (target[m] = e /\ e \in inserted) ~> (invoked[m] = 1)

-----------------------------------------------------------------------------
(* Refinement: seen without tables, buffers and packets, this is Mailbox *)

TheOne(S) == CHOOSE x \in S : TRUE
PlaceOf(e) == IF ResidentOn(e) = {} THEN NoPe ELSE TheOne(ResidentOn(e))

Abstract == INSTANCE Mailbox WITH
    Place <- PE, Nowhere <- NoPe, place <- [e \in Elem |-> PlaceOf(e)]

(* Every step is a send, an arrival, a departure or an execution of the    *)
(* abstract mailbox, or changes nothing it can see: an entry method runs   *)
(* once, for the element it was sent to, while that element is resident.   *)
ImplementsMailbox == Abstract!Spec
=============================================================================
