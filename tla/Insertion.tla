----------------------------- MODULE Insertion -----------------------------
(***************************************************************************)
(* The static insertion phase of a chare array: elements are created,      *)
(* find their place in a spanning tree over all elements (the tree builder *)
(* of include/charmlite/core/collection_bridge.hpp), and the completion    *)
(* detector decides that no registration is outstanding.                   *)
(*                                                                         *)
(* The first element of a PE asks for a parent: its request climbs the     *)
(* binary tree over the PEs.  The first PE on the way that has an element  *)
(* adopts it; the first request of all to reach PE 0 unadopted makes its   *)
(* element the endpoint, the root of the tree, and PE 0 tells every PE.    *)
(* Later elements of a PE are adopted by an element beside them.           *)
(*                                                                         *)
(* An array is populated by insert() and then done_inserting(), or,         *)
(* when it is created with options, by its constructor on every PE.        *)
(***************************************************************************)
EXTENDS Locmgr, Completion

CONSTANTS InsertOn,    \* InsertOn[e]: the pe given to insert(); NoPe for none
          HasOptions,  \* the collection is created with options
          Inserters    \* the PEs that run insert(), when it has none

ASSUME InsertionAssumption ==
    /\ IsFiniteSet(Elem)
    /\ InsertOn \in [Elem -> PE \cup {NoPe}]
    /\ HasOptions \in BOOLEAN
    /\ Inserters \subseteq PE

VARIABLES
    constructed,   \* the PEs whose collection object exists
    is_inserting,  \* is_inserting_ of each PE
    endpoint,      \* endpoint_ of each PE; NoElem is chare_bcast_root_
    chares,        \* chares[p]: the elements created on p
    parent,        \* association_->parent of each element, NoElem if empty
    children,      \* association_->children of each element
    valid,         \* association_->valid_parent of each element
    inserted,      \* elements whose insertion was requested
    concluded,     \* done_inserting() was called (or there are options)
    net            \* packets sent and not handled

tables == <<locmap, routing_cache>>
tree == <<parent, children, valid>>
phase == <<constructed, inserted, concluded>>
vars == <<tables, detector, tree, phase, is_inserting, endpoint, chares, net>>

NoElem == -1

-----------------------------------------------------------------------------
(* Packets.  Two of the same contents are never in flight at once.         *)

Ctor(e, to) == [type |-> "ctor", idx |-> e, to |-> to]
Location(e, to, pe) == [type |-> "location", idx |-> e, to |-> to, pe |-> pe]
Downstream(e, to, src) ==
    [type |-> "downstream", idx |-> e, to |-> to, src |-> src]
Upstream(e, to) == [type |-> "upstream", idx |-> e, to |-> to]
Endpoint(e, to) == [type |-> "endpoint", idx |-> e, to |-> to]
Status(to) == [type |-> "status", to |-> to]
Complete(to) == [type |-> "complete", to |-> to]

Packet ==
    [type : {"ctor", "upstream", "endpoint"}, idx : Elem, to : PE]
    \cup [type : {"location"}, idx : Elem, to : PE, pe : PE]
    \cup [type : {"downstream"}, idx : Elem, to : PE, src : PE]
    \cup [type : {"status", "complete"}, to : PE]

TypeOK ==
    /\ LocmgrTypeOK
    /\ DetectorTypeOK
    /\ constructed \subseteq PE
    /\ is_inserting \in [PE -> BOOLEAN]
    /\ endpoint \in [PE -> Elem \cup {NoElem}]
    /\ chares \in [PE -> SUBSET Elem]
    /\ parent \in [Elem -> Elem \cup {NoElem}]
    /\ children \in [Elem -> SUBSET Elem]
    /\ valid \in [Elem -> BOOLEAN]
    /\ inserted \subseteq Elem
    /\ concluded \in BOOLEAN
    /\ net \subseteq Packet

(* A collection created without options is constructed on every PE by a    *)
(* message of its own; what reaches a PE earlier waits, as it would in net *)
Init ==
    /\ LocmgrInit
    /\ DetectorInit
    /\ constructed = IF HasOptions THEN {} ELSE PE
    /\ is_inserting = [p \in PE |-> TRUE]
    /\ endpoint = [p \in PE |-> NoElem]
    /\ chares = [p \in PE |-> {}]
    /\ parent = [e \in Elem |-> NoElem]
    /\ children = [e \in Elem |-> {}]
    /\ valid = [e \in Elem |-> FALSE]
    /\ inserted = {}
    /\ concluded = HasOptions
    /\ net = {}

-----------------------------------------------------------------------------
(* The binary tree over the PEs *)

up(p) == (p - 1) \div 2

(* Mutant: children counted from 0 instead of 1 *)
leaves_shifted(p) == {q \in PE : q = 2 * p \/ q = 2 * p + 1}

leaves(p) == {q \in PE : q = 2 * p + 1 \/ q = 2 * p + 2}

(* Mutant: the element itself is not skipped *)
LeastLoaded_self(local, e) ==
    {c \in local :
        \A d \in local : Cardinality(children[c]) <= Cardinality(children[d])}

(* Mutant: an element that has no parent yet adopts none *)
LeastLoaded_associated(local, e) ==
    {c \in local \ {e} : valid[c] /\
        \A d \in local \ {e} :
            Cardinality(children[c]) <= Cardinality(children[d])}

(* The elements of a PE other than e with the fewest children: the one     *)
(* first met in the hash table is taken, so any of them can be             *)
LeastLoaded(local, e) ==
    {c \in local \ {e} :
        \A d \in local \ {e} :
            Cardinality(children[c]) <= Cardinality(children[d])}

(* Mutant: an element with a parent is given a second one *)
Orphans_adopted(p, e) == chares[p] \ {e}

(* The local elements that wait for a parent *)
Orphans(p, e) == {x \in chares[p] \ {e} : ~valid[x]}

(* Mutant: the anchor counts one message too many *)
register_endpoint_overcount(p, e, rest, n) ==
    /\ endpoint' = [endpoint EXCEPT ![p] = e]
    /\ valid' = IF e \in chares'[p] THEN [valid EXCEPT ![e] = TRUE] ELSE valid
    /\ net' = rest \cup {Endpoint(e, q) : q \in leaves(p)}
    /\ produce(p, n + Cardinality(leaves(p)))
    /\ UNCHANGED <<parent, children>>

(* PE p learns the endpoint and passes it on.  Here and below, rest is     *)
(* what the handler leaves in the network and n what it adds to the count  *)
(* besides.                                                                *)
register_endpoint(p, e, rest, n) ==
    /\ endpoint' = [endpoint EXCEPT ![p] = e]
    /\ valid' = IF e \in chares'[p] THEN [valid EXCEPT ![e] = TRUE] ELSE valid
    /\ net' = rest \cup {Endpoint(e, q) : q \in leaves(p)}
    /\ produce(p, n + Cardinality(leaves(p)) - 1)
    /\ UNCHANGED <<parent, children>>

(* Element e, created on src, gets no parent on PE p *)
send_upstream(p, e, src, rest, n) ==
    LET sent_to(q) == /\ net' = rest \cup {Downstream(e, q, src)}
                      /\ produce(p, n + 1)
                      /\ UNCHANGED <<tree, endpoint>>
    IN
    \/ p # 0 /\ sent_to(up(p))
    \/ p = 0 /\ endpoint[p] = NoElem /\ register_endpoint(p, e, rest, n + 1)
    \/ p = 0 /\ endpoint[p] # NoElem /\ sent_to(lookup(p, endpoint[p]))

(* An element made off its home PE reports where it is *)
InformHome(p, e) == IF p = home_pe(e) THEN {} ELSE {Location(e, home_pe(e), p)}

put_parent(x, e) ==
    /\ parent' = [parent EXCEPT ![x] = e]
    /\ valid' = [valid EXCEPT ![x] = TRUE]

(* Mutant: the parent does not record its child *)
put_child_lost(c, e) == UNCHANGED children

put_child(c, e) == children' = [children EXCEPT ![c] = @ \cup {e}]

(* PE p creates element e, reports it and associates it *)
Create(p, e, rest, n) ==
    LET sent == rest \cup InformHome(p, e)
        local == chares[p] \cup {e}
    IN
    /\ is_inserting[p]
    /\ chares' = [chares EXCEPT ![p] = local]
    /\ \/ /\ LeastLoaded(local, e) = {}
          /\ send_upstream(p, e, p, sent, n - 1)
       \/ \E c \in LeastLoaded(local, e) :
             /\ put_child(c, e)
             /\ put_parent(e, c)
             /\ net' = sent
             /\ produce(p, n - 1)
             /\ UNCHANGED endpoint
    /\ UNCHANGED <<tables, is_inserting>>

-----------------------------------------------------------------------------
(* Populating the array *)

Insert(p, e) ==
    /\ p \in Inserters
    /\ ~HasOptions /\ ~concluded
    /\ e \notin inserted
    /\ inserted' = inserted \cup {e}
    /\ net' = net \cup
        {Ctor(e, IF InsertOn[e] = NoPe THEN home_pe(e) ELSE InsertOn[e])}
    /\ produce(p, 1)
    /\ UNCHANGED <<tables, tree, constructed, concluded, is_inserting,
                   endpoint, chares>>

(* done_inserting, on any PE, after the last insert *)
DoneInserting ==
    /\ inserted = Elem /\ ~concluded
    /\ concluded' = TRUE
    /\ net' = net \cup {Status(q) : q \in PE}
    /\ UNCHANGED <<tables, detector, tree, constructed, inserted,
                   is_inserting, endpoint, chares>>

(* The constructor of a collection with options inserts the elements at    *)
(* home on this PE in the order of the range, one step each: its packets   *)
(* are on their way while it runs                                          *)
Seeds(p) == {e \in Elem : home_pe(e) = p /\ e \notin inserted}

SeedNext(p) ==
    /\ p \notin constructed
    /\ \E e \in Seeds(p) :
          /\ \A f \in Seeds(p) : e <= f
          /\ inserted' = inserted \cup {e}
          /\ Create(p, e, net, 1)
    /\ UNCHANGED <<constructed, concluded>>

(* ... and then starts the detection *)
FinishConstruct(p) ==
    /\ p \notin constructed
    /\ Seeds(p) = {}
    /\ constructed' = constructed \cup {p}
    /\ start_detection(p)
    /\ UNCHANGED <<tables, tree, inserted, concluded, is_inserting, endpoint,
                   chares, net>>

-----------------------------------------------------------------------------
(* Handlers.  A handler whose assertion fails, or that calls CmiAbort, is  *)
(* disabled here: its last conjunct but the effects is the assertion, and  *)
(* AssertionsHold says that a packet on its way always meets it.           *)

Handles(n, type) == n \in net /\ n.type = type /\ n.to \in constructed

(* "dynamic insertions must be associated" *)
CtorExpected(n) == is_inserting[n.to]

ReceiveCtor(n) ==
    /\ Handles(n, "ctor")
    /\ CtorExpected(n)
    /\ Create(n.to, n.idx, net \ {n}, 0)
    /\ UNCHANGED phase

ReceiveLocation(n) ==
    /\ Handles(n, "location")
    /\ update_location(n.to, n.idx, n.pe)
    /\ net' = net \ {n}
    /\ UNCHANGED <<detector, tree, phase, is_inserting, endpoint, chares>>

ReceiveDownstream(n) ==
    /\ Handles(n, "downstream")
    /\ UNCHANGED <<tables, phase, is_inserting, chares>>
    /\ \/ /\ LeastLoaded(chares[n.to], n.idx) = {}
          /\ send_upstream(n.to, n.idx, n.src, net \ {n}, -1)
       \/ \E c \in LeastLoaded(chares[n.to], n.idx) :
             /\ put_child(c, n.idx)
             /\ net' = (net \ {n}) \cup {Upstream(c, n.src)}
             /\ UNCHANGED <<detector, parent, valid, endpoint>>

(* send_downstream is not implemented *)
UpstreamExpected(n) == Orphans(n.to, n.idx) # {}

ReceiveUpstream(n) ==
    /\ Handles(n, "upstream")
    /\ UpstreamExpected(n)
    /\ \E x \in Orphans(n.to, n.idx) : put_parent(x, n.idx)
    /\ net' = net \ {n}
    /\ produce(n.to, -1)
    /\ UNCHANGED <<tables, phase, children, is_inserting, endpoint, chares>>

(* endpoint_ is chare_bcast_root_ *)
EndpointExpected(n) == endpoint[n.to] = NoElem

ReceiveEndpoint(n) ==
    /\ Handles(n, "endpoint")
    /\ EndpointExpected(n)
    /\ UNCHANGED chares
    /\ register_endpoint(n.to, n.idx, net \ {n}, 0)
    /\ UNCHANGED <<tables, phase, is_inserting>>

ReceiveStatus(n) ==
    /\ Handles(n, "status")
    /\ net' = net \ {n}
    /\ start_detection(n.to)
    /\ UNCHANGED <<tables, tree, phase, is_inserting, endpoint, chares>>

ReceiveResult ==
    /\ SendResult
    /\ UNCHANGED <<tables, tree, phase, is_inserting, endpoint, chares, net>>

ReceiveCount(n) ==
    /\ receive_count(n)
    /\ net' = IF Fires(n) THEN net \cup {Complete(q) : q \in PE} ELSE net
    /\ UNCHANGED <<tables, tree, phase, is_inserting, endpoint, chares>>

CompleteExpected(n) == is_inserting[n.to]

ReceiveComplete(n) ==
    /\ Handles(n, "complete")
    /\ CompleteExpected(n)
    /\ is_inserting' = [is_inserting EXCEPT ![n.to] = FALSE]
    /\ net' = net \ {n}
    /\ UNCHANGED <<tables, detector, tree, phase, endpoint, chares>>

-----------------------------------------------------------------------------
Next ==
    \/ \E p \in PE, e \in Elem : Insert(p, e)
    \/ DoneInserting
    \/ \E p \in PE : SeedNext(p)
    \/ \E p \in PE : FinishConstruct(p)
    \/ \E n \in net : ReceiveCtor(n)
    \/ \E n \in net : ReceiveLocation(n)
    \/ \E n \in net : ReceiveDownstream(n)
    \/ \E n \in net : ReceiveUpstream(n)
    \/ \E n \in net : ReceiveEndpoint(n)
    \/ \E n \in net : ReceiveStatus(n)
    \/ ReceiveResult
    \/ \E n \in counts : ReceiveCount(n)
    \/ \E n \in net : ReceiveComplete(n)

Spec == Init /\ [][Next]_vars

(* Every PE handles each packet it is sent, its part of a wave included.   *)
(* A constructor runs to its end.  Nobody is obliged to insert or to call  *)
(* done_inserting.                                                         *)
Fairness ==
    /\ \A p \in PE :
          /\ WF_vars(SeedNext(p))
          /\ WF_vars(FinishConstruct(p))
          /\ WF_vars(\E n \in net : n.to = p /\ ReceiveEndpoint(n))
          /\ WF_vars(\E n \in net : n.to = p /\ ReceiveStatus(n))
          /\ WF_vars(\E n \in net : n.to = p /\ ReceiveComplete(n))
          /\ WF_vars(\E n \in counts : n.to = p /\ ReceiveCount(n))
    /\ \A e \in Elem :
          /\ WF_vars(\E n \in net : ReceiveCtor(n) /\ n.idx = e)
          /\ WF_vars(\E n \in net : ReceiveLocation(n) /\ n.idx = e)
          /\ WF_vars(\E n \in net : ReceiveDownstream(n) /\ n.idx = e)
    /\ \A p \in PE, e \in Elem :
          WF_vars(\E n \in net : n.to = p /\ ReceiveUpstream(n) /\ n.idx = e)
    /\ WF_vars(ReceiveResult)

FairSpec == Spec /\ Fairness

-----------------------------------------------------------------------------
(* Safety *)

(* The packets the detector accounts for *)
Counted == {n \in net :
                n.type \in {"ctor", "downstream", "upstream", "endpoint"}}

(* A wave summed to zero: some PE knows, or will, that the phase is over *)
Decided ==
    \/ \E n \in counts : n.gcount = 0
    \/ \E n \in net : n.type = "complete"
    \/ \E p \in PE : ~is_inserting[p]

(* Every handler of the tree builder counts what it sends and what it      *)
(* handled: until the counters are reset, they add up to the number of     *)
(* constructor, registration and endpoint messages in flight.              *)
CountsMatch ==
    ~Decided => MapThenSumSet(LAMBDA p : lcount[p], PE) = Cardinality(Counted)

(* When the detector declares the phase complete, every element has been   *)
(* created and no message it counts is outstanding: a sum of counters read *)
(* on different PEs at different times was not zero by accident.           *)
DetectionSound == Decided => Counted = {} /\ inserted = Elem

(* No element is its own ancestor: there is no set of elements whose       *)
(* parents are all in the set.                                             *)
NoCycle ==
    \A S \in (SUBSET Elem) \ {{}} : \E e \in S : parent[e] \notin S

(* When the phase is complete, the elements form one spanning tree: every  *)
(* PE has the same endpoint, the endpoint is the only element without a    *)
(* parent, every parent knows its child, and every element knows that its  *)
(* association is final.  Broadcasts and reductions follow these links.    *)
SpanningTree ==
    Decided =>
        /\ \A p \in PE : endpoint[p] = endpoint[0]
        /\ \A e \in Elem : valid[e] /\ (parent[e] = NoElem <=> e = endpoint[0])
        /\ \A c, e \in Elem : e \in children[c] <=> parent[e] = c

(* No element is counted by two parents, and a parent and its child agree  *)
(* but for one message on its way: a parent counts every child that points *)
(* to it, and what it counts besides is the one element of a PE that waits *)
(* for a parent while the message to that PE is in flight.  The message    *)
(* does not name that element, and register_upstream takes the last one    *)
(* without a parent that it meets.                                         *)
Awaits(e, c) == \E n \in net : n.type = "upstream" /\ n.idx = c
                                 /\ Orphans(n.to, c) = {e}

LinksAgree ==
    /\ \A c, d \in Elem : c # d => children[c] \cap children[d] = {}
    /\ \A c, e \in Elem : e \in children[c] <=> parent[e] = c \/ Awaits(e, c)
    /\ \A n \in net : n.type = "upstream" =>
           \E e \in Elem : Orphans(n.to, n.idx) = {e}

(* There is one endpoint, and every PE learns it once: what a PE has       *)
(* recorded or will be told is what PE 0 anchored, no packet tells it      *)
(* again, and the news comes down the binary tree.  (The assertion that    *)
(* endpoint_ is unset in register_endpoint.)                               *)
Told(q) == endpoint[q] # NoElem \/ \E n \in net : n.type = "endpoint" /\ n.to = q

OneEndpoint ==
    /\ \A p \in PE : endpoint[p] \in {NoElem, endpoint[0]}
    /\ \A n \in net : n.type = "endpoint" =>
            n.idx = endpoint[0] /\ EndpointExpected(n)
    /\ \A q \in PE : q # 0 /\ Told(q) => endpoint[up(q)] # NoElem

(* A packet meets the assertions of its handler whenever it is handled *)
AssertionsHold ==
    \A n \in net :
        /\ n.type = "ctor" => CtorExpected(n)
        /\ n.type = "upstream" => UpstreamExpected(n)
        /\ n.type = "endpoint" => EndpointExpected(n)
        /\ n.type = "complete" => CompleteExpected(n)

(* The phase ends: once the insertions are concluded, every PE learns it *)
InsertionCompletes == concluded ~> \A p \in PE : ~is_inserting[p]
=============================================================================
