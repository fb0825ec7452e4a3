------------------------------ MODULE Broadcast -----------------------------
(***************************************************************************)
(* Broadcasts to a collection whose spanning tree is built: they go to the *)
(* root element, are numbered there and travel down the tree; every chare  *)
(* runs them in the order of their numbers (include/charmlite/core/        *)
(* collection.hpp: deliver_now, handle_broadcast_message_, flush_buffers,  *)
(* on_insertion_complete).                                                 *)
(*                                                                         *)
(* As in Delivery, a handler is one action.  Packets wait in queues, one   *)
(* for each pair of PEs and each element; whether a queue keeps the order  *)
(* of its packets is a parameter, because Converse does not say.           *)
(***************************************************************************)
EXTENDS Locmgr, SequencesExt

CONSTANTS root,           \* the element at the root of the spanning tree
          children,       \* the elements below each element
          created,        \* the PE each element was created on
          Bcast,          \* broadcasts, each made at most once
          Inserting,      \* PEs not yet told that the insertion phase is over
          Ordered,        \* packets of a queue are received in order
          MaxCollective,  \* bound: the largest collective_id_t (2^16 - 1)
          MaxHops         \* bound: migrations of one element

ASSUME BroadcastAssumption ==
    /\ root \in Elem
    /\ children \in [Elem -> SUBSET (Elem \ {root})]
    /\ \A e, f \in Elem : e # f => children[e] \cap children[f] = {}
    /\ created \in [Elem -> PE]
    /\ Inserting \subseteq PE
    /\ Ordered \in BOOLEAN
    /\ MaxCollective \in Nat \ {0}
    /\ MaxHops \in Nat

VARIABLES
    chares,             \* chares[p]: the elements resident on p
    last_bcast,         \* the number of the last broadcast a chare has run
    buffers,            \* buffers[p][e]: copies waiting on p for e
    collective_buffer,  \* broadcasts waiting on p for a root
    is_inserting,       \* PEs where the insertion phase goes on
    queue,              \* packets sent and not received, by route
    fault,              \* what became of a PE
    posted,             \* history: broadcasts made
    ran,                \* history: what each element has run, in order
    hop                 \* migrations so far of each element

tables == <<locmap, routing_cache>>
vars == <<tables, chares, last_bcast, buffers, collective_buffer,
          is_inserting, queue, fault, posted, ran, hop>>

-----------------------------------------------------------------------------
(* Packets *)

bcast_root == -1   \* chare_bcast_root_, the index no element has

Route == [from : PE, to : PE, idx : Elem \cup {bcast_root}]

Post(b) == [type |-> "post", bcast |-> b]
Copy(b, seq, sender) ==
    [type |-> "copy", bcast |-> b, seq |-> seq, sender |-> sender,
     forwarded |-> FALSE]
Location(pe) == [type |-> "location", pe |-> pe]
Chare == [type |-> "chare"]

CopyPacket == [type : {"copy"}, bcast : Bcast, seq : 1 .. MaxCollective,
               sender : PE \cup {NoPe}, forwarded : BOOLEAN]
Packet == [type : {"post"}, bcast : Bcast] \cup CopyPacket
          \cup [type : {"location"}, pe : PE] \cup {Chare}

(* Sending packs from p through a network net that is about to change *)
Emit(net, p, to, idx, packs) ==
    [net EXCEPT ![[from |-> p, to |-> to, idx |-> idx]] = @ \o packs]

Fault == {"none", "crash", "loop"}

TypeOK ==
    /\ LocmgrTypeOK
    /\ chares \in [PE -> SUBSET Elem]
    /\ last_bcast \in [Elem -> 0 .. MaxCollective]
    /\ buffers \in [PE -> [Elem -> Seq(CopyPacket)]]
    /\ collective_buffer \in [PE -> Seq(Bcast)]
    /\ is_inserting \subseteq PE
    /\ queue \in [Route -> Seq(Packet)]
    /\ fault \in [PE -> Fault]
    /\ posted \subseteq Bcast
    /\ ran \in [Elem -> Seq(Bcast)]
    /\ hop \in [Elem -> 0 .. MaxHops]

(* An element created off its home has told its home PE so, and the update *)
(* is not counted by the completion detector: it may still be on its way.  *)
CreationUpdate(r) ==
    /\ r.idx \in Elem
    /\ r.from = created[r.idx]
    /\ r.to = home_pe(r.idx)
    /\ r.from # r.to

Init ==
    /\ LocmgrInit
    /\ chares = [p \in PE |-> {e \in Elem : created[e] = p}]
    /\ last_bcast = [e \in Elem |-> 0]
    /\ buffers = [p \in PE |-> [e \in Elem |-> <<>>]]
    /\ collective_buffer = [p \in PE |-> <<>>]
    /\ is_inserting = Inserting
    /\ queue = [r \in Route |-> IF CreationUpdate(r)
                                THEN <<Location(r.from)>> ELSE <<>>]
    /\ fault = [p \in PE |-> "none"]
    /\ posted = {}
    /\ ran = [e \in Elem |-> <<>>]
    /\ hop = [e \in Elem |-> 0]

-----------------------------------------------------------------------------
(* Numbers *)

next_collective_(k) == IF k = MaxCollective THEN 1 ELSE k + 1

(* Mutant: a chare runs whatever comes *)
InTurn_always(n, last) == TRUE

InTurn(n, last) == n.seq = next_collective_(last)

-----------------------------------------------------------------------------
(* The handlers of a chare.  net is the network without the packet being   *)
(* handled and with what the handler has already sent.                     *)

(* Mutant: the copies are sent with the number of the next broadcast *)
CopiesTo_ahead(p, c, run) ==
    [i \in DOMAIN run |->
        [run[i] EXCEPT !.sender = p, !.seq = next_collective_(@)]]

(* What p sends to child c for the copies in run: a clone keeps the flags *)
CopiesTo(p, c, run) == [i \in DOMAIN run |-> [run[i] EXCEPT !.sender = p]]

(* e runs the copies in run, one after the other, and passes them on *)
RunAll(p, e, run, net) ==
    /\ last_bcast' = IF run = <<>> THEN last_bcast
                     ELSE [last_bcast EXCEPT ![e] = run[Len(run)].seq]
    /\ ran' = [ran EXCEPT ![e] = @ \o [i \in DOMAIN run |-> run[i].bcast]]
    /\ queue' = [r \in Route |->
                    IF /\ r.from = p
                       /\ r.idx \in children[e]
                       /\ r.to = lookup(p, r.idx)
                    THEN net[r] \o CopiesTo(p, r.idx, run)
                    ELSE net[r]]

LastSeq(e, run) == IF run = <<>> THEN last_bcast[e] ELSE run[Len(run)].seq

(* flush_buffers for e, which is on p and has just run the copies in run.  *)
(* flush_buffers keeps a reference to the front of the deque.  A copy that *)
(* is in turn is run, handle_broadcast_message_ flushes the same deque     *)
(* again and finds the message it has just given away at its front.  A     *)
(* copy that is not in turn goes back to the end of the deque and counts   *)
(* as delivered, so that the loop never ends if no copy is in turn.        *)
FlushClear(p, e, run, net) ==
    /\ buffers[p][e] = <<>>
    /\ RunAll(p, e, run, net)
    /\ UNCHANGED <<buffers, fault>>

FlushCrash(p, e, run, net) ==
    /\ \E i \in DOMAIN buffers[p][e] :
          /\ InTurn(buffers[p][e][i], LastSeq(e, run))
          /\ \A j \in 1 .. (i - 1) : ~InTurn(buffers[p][e][j], LastSeq(e, run))
          /\ RunAll(p, e, Append(run, buffers[p][e][i]), net)
          /\ buffers' = [buffers EXCEPT ![p][e] = RemoveAt(@, i)]
    /\ fault' = [fault EXCEPT ![p] = "crash"]

FlushLoop(p, e, run, net) ==
    /\ buffers[p][e] # <<>>
    /\ \A i \in DOMAIN buffers[p][e] :
          ~InTurn(buffers[p][e][i], LastSeq(e, run))
    /\ RunAll(p, e, run, net)
    /\ fault' = [fault EXCEPT ![p] = "loop"]
    /\ UNCHANGED buffers

FlushHere(p, e, run, net) ==
    \/ FlushClear(p, e, run, net)
    \/ FlushCrash(p, e, run, net)
    \/ FlushLoop(p, e, run, net)

(* p is the home of e and does not know where e is *)
NoIdea(p, e) == home_pe(e) = p /\ lookup(p, e) = p

forwarded_by(p, packs) ==
    [i \in DOMAIN packs |->
        [packs[i] EXCEPT !.forwarded = @ \/ packs[i].sender \notin {NoPe, p}]]

(* Copies for an absent e, tried after the tables have been updated *)
Reroute(p, e, packs, net) ==
    IF NoIdea(p, e)'
    THEN /\ queue' = net
         /\ buffers' = [buffers EXCEPT ![p][e] = packs]
    ELSE /\ queue' = Emit(net, p, lookup(p, e)', e, forwarded_by(p, packs))
         /\ buffers' = [buffers EXCEPT ![p][e] = <<>>]

FlushAway(p, e, net) ==
    /\ Reroute(p, e, buffers[p][e], net)
    /\ UNCHANGED <<last_bcast, ran, fault>>

FlushBuffers(p, e, net) ==
    \/ e \in chares'[p] /\ FlushHere(p, e, <<>>, net)
    \/ e \notin chares'[p] /\ FlushAway(p, e, net)

-----------------------------------------------------------------------------
(* Operations *)

Running(p) == fault[p] = "none"

(* collection_proxy::broadcast, on any PE *)
Broadcast(p, b) ==
    /\ Running(p)
    /\ b \notin posted
    /\ posted' = posted \cup {b}
    /\ queue' = Emit(queue, p, p, bcast_root, <<Post(b)>>)
    /\ UNCHANGED <<tables, chares, last_bcast, buffers, collective_buffer,
                   is_inserting, fault, ran, hop>>

Emigrate(p, e, dst) ==
    /\ Running(p)
    /\ e \in chares[p]
    /\ hop[e] < MaxHops
    /\ hop' = [hop EXCEPT ![e] = @ + 1]
    /\ update_location(p, e, dst)
    /\ chares' = [chares EXCEPT ![p] = @ \ {e}]
    /\ LET left == Emit(queue, p, dst, e, <<Chare>>)
       IN FlushBuffers(p, e, IF p = home_pe(e) THEN left
                             ELSE Emit(left, p, home_pe(e), e,
                                       <<Location(dst)>>))
    /\ UNCHANGED <<collective_buffer, is_inserting, posted>>

-----------------------------------------------------------------------------
(* Handlers.  ReceiveX(r, i) handles the i-th packet of route r.           *)

Receives(r, i, type) ==
    /\ Running(r.to)
    /\ i \in DOMAIN queue[r]
    /\ Ordered => i = 1
    /\ queue[r][i].type = type

Without(r, i) == [queue EXCEPT ![r] = RemoveAt(@, i)]

(* Mutant: the number is taken before it is advanced *)
numbered_late(bs) ==
    [i \in DOMAIN bs |->
        Copy(bs[i], (last_bcast[root] + i - 1) % MaxCollective, NoPe)]

(* The copies the root of the tree makes of the broadcasts in bs *)
numbered(bs) ==
    [i \in DOMAIN bs |->
        Copy(bs[i], ((last_bcast[root] + i - 1) % MaxCollective) + 1, NoPe)]

RootHere(p) == p \notin is_inserting /\ root \in chares[p]

(* Mutant: only the local table is asked for the root *)
RootUnknown_local(p) == root \notin chares[p] /\ locmap[p][root] = NoPe

(* root() is set but is not here, and is not known to be elsewhere *)
RootUnknown(p) == root \notin chares[p] /\ lookup(p, root) = p

(* deliver_now of a message to the root of the tree *)
ReceivePost(r, i) ==
    /\ Receives(r, i, "post")
    /\ LET p == r.to
           b == queue[r][i].bcast
       IN \/ /\ RootHere(p)
             /\ FlushHere(p, root, numbered(<<b>>), Without(r, i))
             /\ UNCHANGED collective_buffer
          \/ /\ p \in is_inserting \/ RootUnknown(p)
             /\ collective_buffer' = [collective_buffer EXCEPT
                                         ![p] = Append(@, b)]
             /\ queue' = Without(r, i)
             /\ UNCHANGED <<last_bcast, ran, buffers, fault>>
          \/ /\ p \notin is_inserting
             /\ root \notin chares[p]
             /\ ~RootUnknown(p)
             /\ queue' = Emit(Without(r, i), p, lookup(p, root), bcast_root,
                              <<Post(b)>>)
             /\ UNCHANGED <<collective_buffer, last_bcast, ran, buffers,
                            fault>>
    /\ UNCHANGED <<tables, chares, is_inserting, posted, hop>>

(* insertion_complete_ and on_insertion_complete.  deliver_now appends to  *)
(* the very buffer that is being emptied when the root is unknown.         *)
InsertionComplete(p) ==
    /\ Running(p)
    /\ p \in is_inserting
    /\ is_inserting' = is_inserting \ {p}
    /\ LET waiting == collective_buffer[p]
       IN \/ /\ root \in chares[p]
             /\ FlushHere(p, root, numbered(waiting), queue)
             /\ collective_buffer' = [collective_buffer EXCEPT ![p] = <<>>]
          \/ /\ RootUnknown(p)
             /\ fault' = IF waiting = <<>> THEN fault
                         ELSE [fault EXCEPT ![p] = "loop"]
             /\ UNCHANGED <<queue, collective_buffer, last_bcast, ran,
                            buffers>>
          \/ /\ root \notin chares[p]
             /\ ~RootUnknown(p)
             /\ queue' = Emit(queue, p, lookup(p, root), bcast_root,
                              [i \in DOMAIN waiting |-> Post(waiting[i])])
             /\ collective_buffer' = [collective_buffer EXCEPT ![p] = <<>>]
             /\ UNCHANGED <<last_bcast, ran, buffers, fault>>
    /\ UNCHANGED <<tables, chares, posted, hop>>

(* The answer to the PE that sent copy n to e, when n came a long way *)
routing_update(p, e, n, net) ==
    IF home_pe(e) # p /\ n.sender # home_pe(e) /\ n.forwarded
    THEN Emit(net, p, n.sender, e, <<Location(p)>>)
    ELSE net

(* Mutant: a copy out of turn is dropped *)
OutOfTurn_dropped(p, e, n, net) ==
    /\ ~InTurn(n, last_bcast[e])
    /\ queue' = net
    /\ UNCHANGED <<last_bcast, ran, fault, buffers>>

(* A copy out of turn waits *)
OutOfTurn(p, e, n, net) ==
    /\ ~InTurn(n, last_bcast[e])
    /\ queue' = net
    /\ buffers' = [buffers EXCEPT ![p][e] = Append(@, n)]
    /\ UNCHANGED <<last_bcast, ran, fault>>

(* handle_broadcast_message_ *)
handle_broadcast_message(p, e, n, net) ==
    \/ InTurn(n, last_bcast[e]) /\ FlushHere(p, e, <<n>>, net)
    \/ OutOfTurn(p, e, n, net)

(* try_deliver of a copy, and deliver_now's buffering if it fails *)
ReceiveCopy(r, i) ==
    /\ Receives(r, i, "copy")
    /\ LET p == r.to
           e == r.idx
           n == queue[r][i]
       IN \/ /\ e \in chares[p]
             /\ handle_broadcast_message(p, e, n,
                    routing_update(p, e, n, Without(r, i)))
          \/ /\ e \notin chares[p] /\ NoIdea(p, e)
             /\ queue' = Without(r, i)
             /\ buffers' = [buffers EXCEPT ![p][e] = Append(@, n)]
             /\ UNCHANGED <<last_bcast, ran, fault>>
          \/ /\ e \notin chares[p] /\ ~NoIdea(p, e)
             /\ queue' = Emit(Without(r, i), p, lookup(p, e), e,
                              forwarded_by(p, <<n>>))
             /\ UNCHANGED <<buffers, last_bcast, ran, fault>>
    /\ UNCHANGED <<tables, chares, collective_buffer, is_inserting, posted,
                   hop>>

ReceiveLocation(r, i) ==
    /\ Receives(r, i, "location")
    /\ update_location(r.to, r.idx, queue[r][i].pe)
    /\ UNCHANGED chares
    /\ FlushBuffers(r.to, r.idx, Without(r, i))
    /\ UNCHANGED <<collective_buffer, is_inserting, posted, hop>>

ReceiveChare(r, i) ==
    /\ Receives(r, i, "chare")
    /\ update_location(r.to, r.idx, r.to)
    /\ chares' = [chares EXCEPT ![r.to] = @ \cup {r.idx}]
    /\ FlushBuffers(r.to, r.idx, Without(r, i))
    /\ UNCHANGED <<collective_buffer, is_inserting, posted, hop>>

-----------------------------------------------------------------------------
Next ==
    \/ \E p \in PE, b \in Bcast : Broadcast(p, b)
    \/ \E p \in PE, e \in Elem, dst \in PE : Emigrate(p, e, dst)
    \/ \E p \in PE : InsertionComplete(p)
    \/ \E r \in Route : \E i \in DOMAIN queue[r] : ReceivePost(r, i)
    \/ \E r \in Route : \E i \in DOMAIN queue[r] : ReceiveCopy(r, i)
    \/ \E r \in Route : \E i \in DOMAIN queue[r] : ReceiveLocation(r, i)
    \/ \E r \in Route : \E i \in DOMAIN queue[r] : ReceiveChare(r, i)

Spec == Init /\ [][Next]_vars

RouteFor(idx) == {r \in Route : r.idx = idx}
Carries(r, i, type, b) == queue[r][i].type = type /\ queue[r][i].bcast = b

(* The scheduler of every PE handles each packet it is sent, and every PE  *)
(* is told that the insertion phase is over.                               *)
Fairness ==
    /\ \A p \in PE : WF_vars(InsertionComplete(p))
    /\ \A b \in Bcast :
          WF_vars(\E r \in Route : \E i \in DOMAIN queue[r] :
                      Carries(r, i, "post", b) /\ ReceivePost(r, i))
    /\ \A b \in Bcast, e \in Elem :
          WF_vars(\E r \in RouteFor(e) : \E i \in DOMAIN queue[r] :
                      Carries(r, i, "copy", b) /\ ReceiveCopy(r, i))
    /\ \A e \in Elem, p \in PE :
          WF_vars(\E r \in RouteFor(e) : \E i \in DOMAIN queue[r] :
                      r.to = p /\ ReceiveLocation(r, i))
    /\ \A e \in Elem :
          WF_vars(\E r \in RouteFor(e) : \E i \in DOMAIN queue[r] :
                      ReceiveChare(r, i))

FairSpec == Spec /\ Fairness

-----------------------------------------------------------------------------
(* Safety *)

Traveling(type, b, idx) ==
    UNION {{<<r, i>> : i \in {j \in DOMAIN queue[r] : Carries(r, j, type, b)}} :
           r \in RouteFor(idx)}
HeldCopies(b, e) ==
    UNION {{<<p, i>> : i \in {j \in DOMAIN buffers[p][e] :
                                 buffers[p][e][j].bcast = b}} : p \in PE}
HeldPosts(b) ==
    UNION {{<<p, i>> : i \in {j \in DOMAIN collective_buffer[p] :
                                 collective_buffer[p][j] = b}} : p \in PE}

HasRun(e, b) == b \in ToSet(ran[e])

OwedBy(parent, b, e) == HasRun(parent, b) /\ ~HasRun(e, b)
Owed(b, e) == \E parent \in Elem : e \in children[parent] /\ OwedBy(parent, b, e)

(* A broadcast that was made is in one packet or one buffer until the root *)
(* runs it; from then on there is exactly one copy, in a packet or in a    *)
(* buffer, for each element whose parent has run it and which has not.     *)
(* No path of numbering, forwarding, buffering, flushing and migration     *)
(* drops or repeats one, even when PEs fail.                               *)
BroadcastConserved ==
    \A b \in Bcast :
        /\ Cardinality(Traveling("post", b, bcast_root) \cup HeldPosts(b))
               = IF b \in posted /\ ~HasRun(root, b) THEN 1 ELSE 0
        /\ \A e \in Elem :
              Cardinality(Traveling("copy", b, e) \cup HeldCopies(b, e))
                  = IF Owed(b, e) THEN 1 ELSE 0

(* Nothing is invoked through the moved-from message a nested flush finds  *)
(* ("try flushing the buffers since...", collection.hpp:360).              *)
FlushSurvives == \A p \in PE : fault[p] # "crash"

(* Nor does a PE stay in a loop: a flush stops at the first message it     *)
(* cannot deliver, and the end of the insertion phase empties              *)
(* collective_buffer_.                                                     *)
NoFault == \A p \in PE : fault[p] = "none"

-----------------------------------------------------------------------------
(* Liveness *)

(* A broadcast that was made is eventually run by every element *)
BroadcastCompletes ==
    \A b \in Bcast : (b \in posted) ~> \A e \in Elem : HasRun(e, b)

-----------------------------------------------------------------------------
(* Refinement *)

Abstract == INSTANCE TotalOrder

(* The root decides an order and every other element runs a prefix of it:  *)
(* numbering, the order check of each chare and the wrap of the numbers    *)
(* give a total order ("broadcasts are processed in-order",                *)
(* collection.hpp:342).                                                    *)
ImplementsTotalOrder == Abstract!Spec
=============================================================================
