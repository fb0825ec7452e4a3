--------------------------- MODULE InsertionProofs ---------------------------
(***************************************************************************)
(* The insertion phase, for any number of PEs and elements, any insertion  *)
(* points and any order of messages: the endpoint of a collection is       *)
(* unique and every PE learns it at most once, parents and children agree, *)
(* the counters of the completion detector match what is in flight, and    *)
(* the elements form one tree when the phase has not ended too early,      *)
(* which it never does on few PEs.                                         *)
(***************************************************************************)
EXTENDS Insertion, Facts

(* What the argument needs to know of the types *)
Shape ==
    /\ LocmgrTypeOK
    /\ endpoint \in [PE -> Elem \cup {NoElem}]
    /\ chares \in [PE -> SUBSET Elem]
    /\ net \subseteq Packet

LEMMA PEs == 0 \in PE /\ PE \subseteq Nat
  BY NumPesAssumption DEF PE

LEMMA HomePE ==
    ASSUME NEW e \in Elem
    PROVE  home_pe(e) \in PE
  BY NumPesAssumption, ElemAssumption DEF home_pe, PE

LEMMA LookupPE ==
    ASSUME LocmgrTypeOK, NEW p \in PE, NEW e \in Elem
    PROVE  lookup(p, e) \in PE
  BY HomePE DEF LocmgrTypeOK, lookup, lookup_cache

LEMMA UpdateLocationType ==
    ASSUME LocmgrTypeOK, NEW p \in PE, NEW e \in Elem, NEW pe \in PE,
           update_location(p, e, pe)
    PROVE  LocmgrTypeOK'
  <1>1. ASSUME NEW table \in [PE -> [Elem -> PE \cup {NoPe}]]
        PROVE  [table EXCEPT ![p][e] = pe] \in [PE -> [Elem -> PE \cup {NoPe}]]
    OBVIOUS
  <1> QED
    BY <1>1 DEF LocmgrTypeOK, update_location

(* The binary tree: up is the inverse of leaves *)
LEMMA UpPE ==
    ASSUME NEW q \in PE, q # 0
    PROVE  up(q) \in PE
  BY NumPesAssumption DEF up, PE

LEMMA UpOfLeaf ==
    ASSUME NEW p \in PE, NEW q \in leaves(p)
    PROVE  q \in PE /\ q # 0 /\ up(q) = p /\ q # p
  BY NumPesAssumption DEF leaves, up, PE

LEMMA PacketFields ==
    ASSUME NEW n \in Packet
    PROVE  /\ n.to \in PE
           /\ n.type \in {"ctor", "upstream", "endpoint", "location",
                          "downstream"} => n.idx \in Elem
           /\ n.type = "downstream" => n.src \in PE
           /\ n.type = "location" => n.pe \in PE
  BY DEF Packet

LEMMA PacketsMade ==
    ASSUME NEW e \in Elem, NEW p \in PE, NEW q \in PE
    PROVE  /\ Ctor(e, p) \in Packet
           /\ Location(e, p, q) \in Packet
           /\ Downstream(e, p, q) \in Packet
           /\ Upstream(e, p) \in Packet
           /\ Endpoint(e, p) \in Packet
           /\ Status(p) \in Packet
           /\ Complete(p) \in Packet
  BY DEF Packet, Ctor, Location, Downstream, Upstream, Endpoint, Status, Complete

-----------------------------------------------------------------------------
(* Steps that leave the endpoints alone *)

Endpoints(S) == {n \in S : n.type = "endpoint"}

LEMMA SameEndpoints ==
    ASSUME OneEndpoint, endpoint' = endpoint,
           \A n \in net' : n.type = "endpoint" => n \in net
    PROVE  OneEndpoint'
  BY DEF OneEndpoint, Told, EndpointExpected, up

(* PE p, told by its parent in the tree or being PE 0, records e *)
LEMMA RegisterEndpoint ==
    ASSUME Shape, OneEndpoint, NEW p \in PE, NEW e \in Elem,
           NEW rest \in SUBSET Packet, NEW n,
           register_endpoint(p, e, rest, n),
           \A k \in rest : k.type = "endpoint" => k \in net /\ k.to # p,
           endpoint[p] = NoElem,
           p = 0 \/ (e = endpoint[0] /\ endpoint[up(p)] # NoElem)
    PROVE  OneEndpoint' /\ net' \subseteq Packet
                        /\ endpoint' \in [PE -> Elem \cup {NoElem}]
  <1>1. /\ endpoint' = [endpoint EXCEPT ![p] = e]
        /\ net' = rest \cup {Endpoint(e, q) : q \in leaves(p)}
    BY DEF register_endpoint
  <1>2. \A q \in leaves(p) : Endpoint(e, q) \in Packet
    BY UpOfLeaf, PacketsMade
  <1>3. e # NoElem
    BY ElemAssumption DEF NoElem
  <1>4. ASSUME NEW q \in leaves(p)
        PROVE  endpoint[q] = NoElem /\ ~Told(q)
    BY <1>4, UpOfLeaf DEF OneEndpoint, Told
  <1>5. endpoint'[0] = e
    BY <1>1, PEs DEF Shape
  <1>6. ASSUME NEW q \in PE PROVE endpoint'[q] \in {NoElem, endpoint'[0]}
    <2>1. CASE p = 0
      <3>1. endpoint[q] = NoElem
        BY <2>1, <1>6 DEF OneEndpoint
      <3> QED
        BY <1>1, <1>5, <3>1 DEF Shape
    <2>2. CASE p # 0
      BY <2>2, <1>1, <1>5, <1>6 DEF OneEndpoint, Shape
    <2> QED
      BY <2>1, <2>2
  <1>7. ASSUME NEW k \in net', k.type = "endpoint"
        PROVE  k.idx = endpoint'[0] /\ endpoint'[k.to] = NoElem
    <2>1. CASE k \in rest
      <3>1. /\ k.idx = endpoint[0] /\ endpoint[k.to] = NoElem
            /\ k.to # p /\ k.to \in PE /\ k.idx \in Elem
        BY <1>7, <2>1, PacketFields DEF OneEndpoint, EndpointExpected, Shape
      <3>2. endpoint[0] # NoElem
        BY <3>1, ElemAssumption DEF NoElem
      <3>3. p # 0 /\ endpoint[0] = e
        BY <3>2
      <3> QED
        BY <1>1, <1>5, <3>1, <3>3 DEF Shape
    <2>2. CASE \E q \in leaves(p) : k = Endpoint(e, q)
      <3>1. PICK q \in leaves(p) : k = Endpoint(e, q)
        BY <2>2
      <3> QED
        BY <1>1, <1>4, <1>5, <3>1, UpOfLeaf DEF Endpoint, Shape
    <2> QED
      BY <1>1, <1>7, <2>1, <2>2
  <1>8. ASSUME NEW q \in PE, q # 0, Told(q)' PROVE endpoint'[up(q)] # NoElem
    <2>1. CASE Told(q) \/ q = p
      <3>1. endpoint[up(q)] # NoElem
        BY <1>8, <2>1 DEF OneEndpoint
      <3> QED
        BY <1>1, <1>3, <1>8, <3>1, UpPE DEF Shape
    <2>2. CASE ~Told(q) /\ q # p
      <3>1. endpoint'[q] = NoElem
        BY <1>1, <2>2 DEF Told, Shape
      <3>2. PICK k \in net' : k.type = "endpoint" /\ k.to = q
        BY <1>8, <3>1 DEF Told
      <3>3. k \notin net
        BY <2>2, <3>2 DEF Told
      <3>4. PICK r \in leaves(p) : k = Endpoint(e, r)
        BY <1>1, <3>2, <3>3
      <3>5. up(q) = p
        BY <3>2, <3>4, UpOfLeaf DEF Endpoint
      <3> QED
        BY <1>1, <1>3, <3>5 DEF Shape
    <2> QED
      BY <2>1, <2>2
  <1>9. net' \subseteq Packet
    BY <1>1, <1>2
  <1>10. OneEndpoint'
    BY <1>6, <1>7, <1>8 DEF OneEndpoint, EndpointExpected, up
  <1> QED
    BY <1>1, <1>9, <1>10 DEF Shape

(* A PE that finds no parent for an element *)
LEMMA SendUpstream ==
    ASSUME Shape, OneEndpoint, NEW p \in PE, NEW e \in Elem, NEW src \in PE,
           NEW rest \in SUBSET Packet, NEW n,
           send_upstream(p, e, src, rest, n),
           \A k \in rest : k.type = "endpoint" => k \in net
    PROVE  OneEndpoint' /\ net' \subseteq Packet
                        /\ endpoint' \in [PE -> Elem \cup {NoElem}]
  <1>1. ASSUME NEW q \in PE, endpoint' = endpoint,
               net' = rest \cup {Downstream(e, q, src)}
        PROVE  OneEndpoint' /\ net' \subseteq Packet
                            /\ endpoint' \in [PE -> Elem \cup {NoElem}]
    <2>1. Downstream(e, q, src) \in Packet
      BY PacketsMade
    <2>2. \A k \in net' : k.type = "endpoint" => k \in net
      BY <1>1 DEF Downstream
    <2> QED
      BY <1>1, <2>1, <2>2, SameEndpoints DEF Shape
  <1>2. CASE p # 0
    BY <1>1, <1>2, UpPE DEF send_upstream
  <1>3. CASE p = 0 /\ endpoint[p] = NoElem
    <2>1. register_endpoint(p, e, rest, n + 1)
      BY <1>3 DEF send_upstream
    <2>2. \A k \in rest : k.type = "endpoint" => k \in net /\ k.to # p
      <3> SUFFICES ASSUME NEW k \in rest, k.type = "endpoint"
                   PROVE  FALSE
        OBVIOUS
      <3>1. k.idx = endpoint[0] /\ k.idx \in Elem
        BY PacketFields DEF OneEndpoint
      <3> QED
        BY <1>3, <3>1, ElemAssumption DEF NoElem
    <2> QED
      BY <1>3, <2>1, <2>2, RegisterEndpoint
  <1>4. CASE p = 0 /\ endpoint[p] # NoElem
    <2>1. endpoint[p] \in Elem
      BY <1>4 DEF Shape
    <2>2. lookup(p, endpoint[p]) \in PE
      BY <2>1, LookupPE DEF Shape
    <2> QED
      BY <1>1, <1>4, <2>2 DEF send_upstream
  <1> QED
    BY <1>2, <1>3, <1>4

LEMMA CreateElement ==
    ASSUME Shape, OneEndpoint, NEW p \in PE, NEW e \in Elem,
           NEW rest \in SUBSET Packet, NEW n, Create(p, e, rest, n),
           \A k \in rest : k.type = "endpoint" => k \in net
    PROVE  OneEndpoint' /\ Shape'
  <1> DEFINE sent == rest \cup InformHome(p, e)
             local == chares[p] \cup {e}
  <1>1. sent \in SUBSET Packet
    BY HomePE, PacketsMade DEF InformHome
  <1>2. \A k \in sent : k.type = "endpoint" => k \in net
    BY DEF InformHome, Location
  <1>3. LocmgrTypeOK' /\ chares' \in [PE -> SUBSET Elem]
    BY DEF Create, tables, Shape, LocmgrTypeOK
  <1>4. CASE send_upstream(p, e, p, sent, n - 1)
    BY <1>1, <1>2, <1>3, <1>4, SendUpstream DEF Shape
  <1>5. CASE net' = sent /\ endpoint' = endpoint
    BY <1>1, <1>2, <1>3, <1>5, SameEndpoints DEF Shape
  <1> QED
    BY <1>4, <1>5 DEF Create

-----------------------------------------------------------------------------

LEMMA EndpointInit == Init => Shape /\ OneEndpoint
  BY PEs DEF Init, LocmgrInit, LocmgrTypeOK, Shape, OneEndpoint, Told, up

LEMMA EndpointStep ==
    Shape /\ OneEndpoint /\ [Next]_vars => Shape' /\ OneEndpoint'
  <1> SUFFICES ASSUME Shape, OneEndpoint, [Next]_vars
               PROVE  Shape' /\ OneEndpoint'
    OBVIOUS
  <1>0. ASSUME UNCHANGED <<tables, chares>>, endpoint' = endpoint, net' \subseteq Packet,
               \A k \in net' : k.type = "endpoint" => k \in net
        PROVE  Shape' /\ OneEndpoint'
    BY <1>0, SameEndpoints DEF Shape, tables, LocmgrTypeOK
  <1>1. ASSUME NEW p \in PE, NEW e \in Elem, Insert(p, e)
        PROVE  Shape' /\ OneEndpoint'
    <2> DEFINE to == IF InsertOn[e] = NoPe THEN home_pe(e) ELSE InsertOn[e]
    <2>1. to \in PE
      BY InsertionAssumption, HomePE
    <2>2. net' = net \cup {Ctor(e, to)}
      BY <1>1 DEF Insert
    <2>3. Ctor(e, to) \in Packet /\ Ctor(e, to).type # "endpoint"
      BY <2>1, PacketsMade DEF Ctor
    <2> QED
      BY <1>0, <1>1, <2>2, <2>3 DEF Insert, Shape
  <1>2. ASSUME DoneInserting
        PROVE  Shape' /\ OneEndpoint'
    <2>1. net' = net \cup {Status(q) : q \in PE}
      BY <1>2 DEF DoneInserting
    <2>2. \A q \in PE : Status(q) \in Packet /\ Status(q).type # "endpoint"
      BY PacketsMade, PEs DEF Status, Packet
    <2>3. net' \subseteq Packet /\ \A k \in net' : k.type = "endpoint" => k \in net
      BY <2>1, <2>2 DEF Shape
    <2> QED
      BY <1>0, <1>2, <2>3 DEF DoneInserting
  <1>3. ASSUME NEW p \in PE, SeedNext(p)
        PROVE  Shape' /\ OneEndpoint'
    <2>1. PICK e \in Seeds(p) : Create(p, e, net, 1)
      BY <1>3 DEF SeedNext
    <2>2. e \in Elem
      BY DEF Seeds
    <2> QED
      BY <2>1, <2>2, CreateElement DEF Shape
  <1>4. ASSUME NEW p \in PE, FinishConstruct(p)
        PROVE  Shape' /\ OneEndpoint'
    BY <1>0, <1>4 DEF FinishConstruct, Shape
  <1>5. ASSUME NEW n \in net, ReceiveCtor(n)
        PROVE  Shape' /\ OneEndpoint'
    <2>1. Create(n.to, n.idx, net \ {n}, 0) /\ n.type = "ctor"
      BY <1>5 DEF ReceiveCtor, Handles
    <2>2. n.to \in PE /\ n.idx \in Elem
      BY <2>1, PacketFields DEF Shape
    <2>3. net \ {n} \in SUBSET Packet
      BY DEF Shape
    <2>4. \A k \in net \ {n} : k.type = "endpoint" => k \in net
      OBVIOUS
    <2> QED
      BY <2>1, <2>2, <2>3, <2>4, CreateElement
  <1>6. ASSUME NEW n \in net, ReceiveLocation(n)
        PROVE  Shape' /\ OneEndpoint'
    <2>1. n.to \in PE /\ n.idx \in Elem /\ n.pe \in PE
      BY <1>6, PacketFields DEF ReceiveLocation, Handles, Shape
    <2>2. /\ update_location(n.to, n.idx, n.pe)
          /\ net' = net \ {n} /\ endpoint' = endpoint /\ chares' = chares
      BY <1>6 DEF ReceiveLocation
    <2>3. LocmgrTypeOK'
      BY <2>1, <2>2, UpdateLocationType DEF Shape
    <2> QED
      BY <2>2, <2>3, SameEndpoints DEF Shape
  <1>7. ASSUME NEW n \in net, ReceiveDownstream(n)
        PROVE  Shape' /\ OneEndpoint'
    <2>1. n.to \in PE /\ n.idx \in Elem /\ n.src \in PE
      BY <1>7, PacketFields DEF ReceiveDownstream, Handles, Shape
    <2>2. CASE send_upstream(n.to, n.idx, n.src, net \ {n}, -1)
      <3>1. LocmgrTypeOK' /\ chares' = chares
        BY <1>7 DEF ReceiveDownstream, tables, Shape, LocmgrTypeOK
      <3>2. net \ {n} \in SUBSET Packet
        BY DEF Shape
      <3>3. \A k \in net \ {n} : k.type = "endpoint" => k \in net
        OBVIOUS
      <3>4. /\ OneEndpoint' /\ net' \subseteq Packet
            /\ endpoint' \in [PE -> Elem \cup {NoElem}]
        BY <2>1, <2>2, <3>2, <3>3, SendUpstream
      <3> QED
        BY <3>1, <3>4 DEF Shape
    <2>3. ASSUME NEW c \in LeastLoaded(chares[n.to], n.idx),
                 net' = (net \ {n}) \cup {Upstream(c, n.src)},
                 endpoint' = endpoint
          PROVE  Shape' /\ OneEndpoint'
      <3>1. c \in Elem
        BY <2>1, <2>3 DEF LeastLoaded, Shape
      <3>2. Upstream(c, n.src) \in Packet /\ Upstream(c, n.src).type # "endpoint"
        BY <2>1, <3>1, PacketsMade DEF Upstream
      <3> QED
        BY <1>0, <1>7, <2>3, <3>2 DEF ReceiveDownstream, Shape
    <2> QED
      BY <1>7, <2>2, <2>3 DEF ReceiveDownstream
  <1>8. ASSUME NEW n \in net, ReceiveUpstream(n)
        PROVE  Shape' /\ OneEndpoint'
    BY <1>0, <1>8 DEF ReceiveUpstream, Shape
  <1>9. ASSUME NEW n \in net, ReceiveEndpoint(n)
        PROVE  Shape' /\ OneEndpoint'
    <2>1. /\ n.type = "endpoint" /\ endpoint[n.to] = NoElem
          /\ register_endpoint(n.to, n.idx, net \ {n}, 0)
      BY <1>9 DEF ReceiveEndpoint, Handles, EndpointExpected
    <2>2. n.to \in PE /\ n.idx \in Elem /\ n.idx = endpoint[0]
      BY <2>1, PacketFields DEF Shape, OneEndpoint
    <2>3. n.to # 0 /\ Told(n.to)
      BY <2>1, <2>2, ElemAssumption DEF NoElem, Told
    <2>4. endpoint[up(n.to)] # NoElem
      BY <2>2, <2>3 DEF OneEndpoint
    <2>5. \A k \in net \ {n} : k.type = "endpoint" => k \in net /\ k.to # n.to
      <3> SUFFICES ASSUME NEW k \in net, k.type = "endpoint", k.to = n.to
                   PROVE  k = n
        OBVIOUS
      <3> QED
        BY <2>1, <2>2 DEF OneEndpoint, Shape, Packet
    <2>6. LocmgrTypeOK'
      BY <1>9 DEF ReceiveEndpoint, tables, Shape, LocmgrTypeOK
    <2> QED
      BY <1>9, <2>1, <2>2, <2>4, <2>5, <2>6, RegisterEndpoint
         DEF ReceiveEndpoint, Shape
  <1>10. ASSUME NEW n \in net, ReceiveStatus(n)
         PROVE  Shape' /\ OneEndpoint'
    BY <1>0, <1>10 DEF ReceiveStatus, Shape
  <1>11. CASE ReceiveResult
    BY <1>0, <1>11 DEF ReceiveResult, Shape
  <1>12. ASSUME NEW n \in counts, ReceiveCount(n)
         PROVE  Shape' /\ OneEndpoint'
    <2>1. \A q \in PE : Complete(q) \in Packet /\ Complete(q).type # "endpoint"
      BY PacketsMade, PEs DEF Complete, Packet
    <2>2. net' \subseteq Packet /\ \A k \in net' : k.type = "endpoint" => k \in net
      BY <1>12, <2>1 DEF ReceiveCount, Shape
    <2> QED
      BY <1>0, <1>12, <2>2 DEF ReceiveCount
  <1>13. ASSUME NEW n \in net, ReceiveComplete(n)
         PROVE  Shape' /\ OneEndpoint'
    BY <1>0, <1>13 DEF ReceiveComplete, Shape
  <1>14. CASE UNCHANGED vars
    BY <1>0, <1>14 DEF vars, Shape
  <1> QED
    BY <1>1, <1>2, <1>3, <1>4, <1>5, <1>6, <1>7, <1>8, <1>9, <1>10, <1>11,
       <1>12, <1>13, <1>14 DEF Next

(* Whatever the order of messages, one element becomes the endpoint and no *)
(* PE is told twice: the assertion of register_endpoint                    *)
(* (collection_bridge.hpp) that endpoint_ is unset never fails.            *)
THEOREM EndpointIsUnique == Spec => []OneEndpoint
  BY EndpointInit, EndpointStep, PTL DEF Spec

-----------------------------------------------------------------------------
(* The invariant *)

Created(e) == \E p \in PE : e \in chares[p]

TreeType ==
    /\ parent \in [Elem -> Elem \cup {NoElem}]
    /\ children \in [Elem -> SUBSET Elem]
    /\ valid \in [Elem -> BOOLEAN]

(* An element is created once, after its insertion was requested *)
CreatedOnce ==
    /\ \A p, q \in PE : p # q => chares[p] \cap chares[q] = {}
    /\ \A p \in PE : chares[p] \subseteq inserted
    /\ \A n \in net : n.type = "ctor" => n.idx \in inserted /\ ~Created(n.idx)
    /\ \A m, n \in net :
          m.type = "ctor" /\ n.type = "ctor" /\ m.idx = n.idx => m = n

(* Nobody knows an element before it is created *)
Unknown(e) ==
    /\ parent[e] = NoElem /\ children[e] = {} /\ ~valid[e]
    /\ \A c \in Elem : e \notin children[c]
    /\ \A n \in net : n.type = "downstream" => n.idx # e
    /\ e # endpoint[0]

UnknownBefore == \A e \in Elem : ~Created(e) => Unknown(e)

(* Only the first element of a PE ever waits for a parent *)
OneOrphan ==
    \A p \in PE : \A e, f \in chares[p] : ~valid[e] /\ ~valid[f] => e = f

(* An element on p that waits, not the endpoint *)
Waiting(e, p) == e \in chares[p] /\ ~valid[e] /\ e # endpoint[0]

(* A request is the only one of its element, and not yet granted *)
Requests ==
    /\ \A n \in net : n.type = "downstream" =>
          Waiting(n.idx, n.src) /\ \A c \in Elem : n.idx \notin children[c]
    /\ \A m, n \in net :
          m.type = "downstream" /\ n.type = "downstream" /\ m.idx = n.idx
             => m = n

(* A granted request is of a child of the one that granted it *)
Answers ==
    \A n \in net : n.type = "upstream" =>
        \E e \in children[n.idx] : Waiting(e, n.to)

(* A child has one parent, which it knows or will be told *)
Children ==
    /\ \A c, d \in Elem : c # d => children[c] \cap children[d] = {}
    /\ \A c, e \in Elem : parent[e] = c => e \in children[c] /\ valid[e]
    /\ \A c \in Elem : \A e \in children[c] :
          /\ e # c /\ e # endpoint[0]
          /\ \/ parent[e] = c
             \/ \E p \in PE : Waiting(e, p) /\ Upstream(c, p) \in net

Family ==
    /\ TreeType /\ UnknownBefore /\ OneOrphan
    /\ Requests /\ Answers /\ Children

LinkInv == Shape /\ OneEndpoint /\ CreatedOnce /\ Family

-----------------------------------------------------------------------------
(* The least loaded element *)

(* A PE that has another element has a least loaded one *)
LEMMA SomeLeastLoaded ==
    ASSUME TreeType, NEW S \in SUBSET Elem, NEW e, LeastLoaded(S, e) = {}
    PROVE  S \subseteq {e}
  <1> DEFINE load == [c \in S |-> Cardinality(children[c])]
             T == {load[c] : c \in S \ {e}}
  <1>1. \A c \in S : load[c] \in Nat
    <2> SUFFICES ASSUME NEW c \in S
                 PROVE  Cardinality(children[c]) \in Nat
      OBVIOUS
    <2>1. children[c] \subseteq Elem
      BY DEF TreeType
    <2> QED
      BY <2>1, InsertionAssumption, FS_Subset, FS_CardinalityType
  <1>2. SUFFICES ASSUME S \ {e} # {}
                 PROVE  FALSE
    OBVIOUS
  <1>3. PICK x \in T : \A y \in T : x <= y
    <2>1. T \in SUBSET Nat /\ T # {}
      BY <1>1, <1>2
    <2> HIDE DEF T
    <2> QED
      BY <2>1, SmallestInSet
  <1>4. PICK c \in S \ {e} : x = load[c]
    OBVIOUS
  <1>5. \A d \in S \ {e} : load[c] <= load[d]
    BY <1>3, <1>4
  <1>6. c \in LeastLoaded(S, e)
    BY <1>5 DEF LeastLoaded
  <1> QED
    BY <1>6

-----------------------------------------------------------------------------
(* Steps that leave the tree alone *)

LEMMA LinkInit == Init => CreatedOnce /\ Family
  <1> SUFFICES ASSUME Init
               PROVE  CreatedOnce /\ Family
    OBVIOUS
  <1>1. CreatedOnce
    BY DEF Init, CreatedOnce
  <1>2. TreeType
    BY DEF Init, TreeType
  <1>3. UnknownBefore
    BY PEs, ElemAssumption DEF Init, UnknownBefore, Unknown, NoElem
  <1>4. OneOrphan /\ Requests /\ Answers
    BY DEF Init, OneOrphan, Requests, Answers
  <1>5. Children
    BY ElemAssumption DEF Init, Children, NoElem
  <1> QED
    BY <1>1, <1>2, <1>3, <1>4, <1>5 DEF Family

LEMMA SameFamily ==
    ASSUME Family, endpoint'[0] = endpoint[0],
           UNCHANGED <<chares, parent, children, valid>>,
           \A n \in net' : n.type \in {"downstream", "upstream"} => n \in net,
           \A n \in net : n.type = "upstream" => n \in net'
    PROVE  Family'
  <1>1. TreeType' /\ OneOrphan'
    BY DEF Family, TreeType, OneOrphan
  <1>2. UnknownBefore'
    BY DEF Family, UnknownBefore, Unknown, Created
  <1>3. Requests' /\ Answers'
    BY DEF Family, Requests, Answers, Waiting
  <1>4. Children'
    <2>1. \A c, p : Upstream(c, p) \in net => Upstream(c, p) \in net'
      BY DEF Upstream
    <2> QED
      BY <2>1 DEF Family, Children, Waiting
  <1> QED
    BY <1>1, <1>2, <1>3, <1>4 DEF Family

LEMMA SameCreated ==
    ASSUME CreatedOnce, UNCHANGED <<chares, inserted>>,
           \A n \in net' : n.type = "ctor" => n \in net
    PROVE  CreatedOnce'
  BY DEF CreatedOnce, Created

-----------------------------------------------------------------------------
(* The handlers *)

(* PE p learns the endpoint: no request of it is under way *)
LEMMA EndpointFamily ==
    ASSUME Shape, Family, NEW p \in PE, NEW e \in Elem,
           e = endpoint'[0],
           endpoint[0] \in {NoElem, e},
           UNCHANGED <<parent, children>>,
           \A q \in PE : chares[q] \subseteq chares'[q],
           Created(e)', OneOrphan',
           valid' \in [Elem -> BOOLEAN],
           \A f \in Elem : f # e => valid'[f] = valid[f],
           \A c \in Elem : e \notin children[c],
           \A n \in net' : n.type = "downstream" => n.idx # e,
           \A n \in net' : n.type \in {"downstream", "upstream"} => n \in net,
           \A n \in net : n.type = "upstream" => n \in net'
    PROVE  Family'
  <1>1. \A f \in Elem, q \in PE : f # e /\ Waiting(f, q) => Waiting(f, q)'
    BY DEF Waiting
  <1>2. TreeType'
    BY DEF Family, TreeType
  <1>3. UnknownBefore'
    <2> SUFFICES ASSUME NEW f \in Elem, ~Created(f)'
                 PROVE  Unknown(f)'
      BY DEF UnknownBefore
    <2>1. f # e /\ ~Created(f)
      BY DEF Created
    <2>2. Unknown(f)
      BY <2>1 DEF Family, UnknownBefore
    <2> QED
      BY <2>1, <2>2 DEF Unknown
  <1>5. Requests'
    <2>1. \A n \in net' : n.type = "downstream" => n.idx \in Elem /\ n.src \in PE
      BY PacketFields DEF Shape
    <2> QED
      BY <1>1, <2>1 DEF Family, Requests
  <1>6. Answers'
    <2> SUFFICES ASSUME NEW n \in net, n.type = "upstream"
                 PROVE  \E f \in children[n.idx] : Waiting(f, n.to)'
      BY DEF Answers
    <2>1. n.idx \in Elem /\ n.to \in PE
      BY PacketFields DEF Shape
    <2>2. PICK f \in children[n.idx] : Waiting(f, n.to)
      BY DEF Family, Answers
    <2>3. f \in Elem /\ f # e
      BY <2>1 DEF Family, TreeType
    <2> QED
      BY <1>1, <2>1, <2>2, <2>3
  <1>7. Children'
    <2>1. \A c, q : Upstream(c, q) \in net => Upstream(c, q) \in net'
      BY DEF Upstream
    <2>2. ASSUME NEW c \in Elem, NEW f \in children[c]
          PROVE  /\ f # c /\ f # e
                 /\ \/ parent[f] = c
                    \/ \E q \in PE : Waiting(f, q)' /\ Upstream(c, q) \in net'
      <3>1. f \in Elem /\ f # e
        BY <2>2 DEF Family, TreeType
      <3> QED
        BY <1>1, <2>1, <2>2, <3>1 DEF Family, Children
    <2>3. ASSUME NEW c \in Elem, NEW f \in Elem, parent[f] = c
          PROVE  f \in children[c] /\ valid'[f]
      BY <2>3 DEF Family, Children
    <2> QED
      BY <2>2, <2>3 DEF Family, Children
  <1> QED
    BY <1>2, <1>3, <1>5, <1>6, <1>7 DEF Family

(* Element e on src, new or not, asks PE q for a parent *)
LEMMA RequestFamily ==
    ASSUME Shape, Family, NEW e \in Elem, NEW src \in PE, NEW q \in PE,
           UNCHANGED <<parent, children, valid, endpoint>>,
           e \in chares'[src],
           \A p \in PE : chares[p] \subseteq chares'[p],
           \A p \in PE : chares'[p] \subseteq Elem,
           OneOrphan',
           ~valid[e], e # endpoint[0],
           \A c \in Elem : e \notin children[c],
           \A n \in net' : n.type = "downstream" =>
               (n \in net /\ n.idx # e) \/ n = Downstream(e, q, src),
           \A n \in net' : n.type = "upstream" => n \in net,
           \A n \in net : n.type = "upstream" => n \in net'
    PROVE  Family'
  <1>1. \A f, p : p \in PE /\ Waiting(f, p) => Waiting(f, p)'
    BY DEF Waiting
  <1>2. TreeType'
    BY DEF Family, TreeType
  <1>3. UnknownBefore'
    <2> SUFFICES ASSUME NEW f \in Elem, ~Created(f)'
                 PROVE  Unknown(f)'
      BY DEF UnknownBefore
    <2>1. f # e /\ ~Created(f)
      BY DEF Created
    <2>2. Unknown(f)
      BY <2>1 DEF Family, UnknownBefore
    <2> QED
      BY <2>1, <2>2 DEF Unknown, Downstream
  <1>4. Requests'
    <2>1. Waiting(e, src)'
      BY DEF Waiting
    <2>2. \A n \in net : n.type = "downstream" => n.src \in PE
      BY PacketFields DEF Shape
    <2>3. \A n \in net' : n.type = "downstream" =>
              Waiting(n.idx, n.src)' /\ \A c \in Elem : n.idx \notin children[c]
      BY <1>1, <2>1, <2>2 DEF Family, Requests, Downstream
    <2>4. \A m, n \in net' :
              m.type = "downstream" /\ n.type = "downstream" /\ m.idx = n.idx
                 => m = n
      BY DEF Family, Requests, Downstream
    <2> QED
      BY <2>3, <2>4 DEF Requests
  <1>5. Answers'
    <2>1. \A n \in net : n.type = "upstream" => n.to \in PE
      BY PacketFields DEF Shape
    <2> QED
      BY <1>1, <2>1 DEF Family, Answers
  <1>6. Children'
    <2>1. \A c, p : Upstream(c, p) \in net => Upstream(c, p) \in net'
      BY DEF Upstream
    <2> QED
      BY <1>1, <2>1 DEF Family, Children
  <1> QED
    BY <1>2, <1>3, <1>4, <1>5, <1>6 DEF Family

(* Element c adopts the element that asked, and answers *)
LEMMA AdoptFamily ==
    ASSUME Shape, Family, NEW n \in net, n.type = "downstream",
           NEW c \in Elem, c # n.idx, Created(c),
           UNCHANGED <<chares, parent, valid, endpoint>>,
           children' = [children EXCEPT ![c] = @ \cup {n.idx}],
           net' = (net \ {n}) \cup {Upstream(c, n.src)}
    PROVE  Family'
  <1> DEFINE e == n.idx
  <1>1. e \in Elem /\ n.src \in PE
    BY PacketFields DEF Shape
  <1>2. Waiting(e, n.src) /\ \A d \in Elem : e \notin children[d]
    BY DEF Family, Requests
  <1>3. \A k \in net' : k.type = "downstream" => k \in net /\ k.idx # e
    BY DEF Family, Requests, Upstream
  <1>4. /\ \A d \in Elem : children[d] \subseteq children'[d]
        /\ \A d \in Elem : d # c => children'[d] = children[d]
        /\ children'[c] = children[c] \cup {e}
    BY DEF Family, TreeType
  <1>5. \A f, p : Waiting(f, p)' = Waiting(f, p)
    BY DEF Waiting
  <1>6. TreeType' /\ OneOrphan'
    BY <1>1 DEF Family, TreeType, OneOrphan
  <1>7. UnknownBefore'
    <2> SUFFICES ASSUME NEW f \in Elem, ~Created(f)
                 PROVE  Unknown(f)'
      BY DEF UnknownBefore, Created
    <2>1. f # e
      BY <1>1, <1>2 DEF Created, Waiting
    <2>2. Unknown(f)
      BY DEF Family, UnknownBefore
    <2> QED
      BY <1>3, <1>4, <2>1, <2>2 DEF Unknown
  <1>8. Requests'
    <2>1. \A k \in net' : k.type = "downstream" =>
              \A d \in Elem : k.idx \notin children'[d]
      BY <1>3, <1>4 DEF Family, Requests
    <2> QED
      BY <1>3, <1>5, <2>1 DEF Family, Requests
  <1>9. Answers'
    <2> SUFFICES ASSUME NEW k \in net', k.type = "upstream"
                 PROVE  \E f \in children'[k.idx] : Waiting(f, k.to)
      BY <1>5 DEF Answers
    <2>1. CASE k \in net
      <3>1. k.idx \in Elem
        BY <2>1, PacketFields DEF Shape
      <3> QED
        BY <1>4, <2>1, <3>1 DEF Family, Answers
    <2>2. CASE k = Upstream(c, n.src)
      BY <1>2, <1>4, <2>2 DEF Upstream
    <2> QED
      BY <2>1, <2>2
  <1>10. Children'
    <2>1. \A d, p : Upstream(d, p) \in net => Upstream(d, p) \in net'
      BY DEF Upstream
    <2>2. \A d, f \in Elem : d # f => children'[d] \cap children'[f] = {}
      BY <1>2, <1>4 DEF Family, Children
    <2>3. \A d, f \in Elem : parent[f] = d => f \in children'[d] /\ valid[f]
      BY <1>4 DEF Family, Children
    <2>4. ASSUME NEW d \in Elem, NEW f \in children'[d]
          PROVE  /\ f # d /\ f # endpoint[0]
                 /\ \/ parent[f] = d
                    \/ \E p \in PE : Waiting(f, p) /\ Upstream(d, p) \in net'
      <3>1. CASE f \in children[d]
        BY <2>1, <3>1 DEF Family, Children
      <3>2. CASE d = c /\ f = e
        <4>1. Upstream(c, n.src) \in net' /\ f # endpoint[0]
          BY <1>2, <3>2 DEF Waiting
        <4> QED
          BY <1>1, <1>2, <3>2, <4>1
      <3> QED
        BY <1>4, <2>4, <3>1, <3>2
    <2> QED
      BY <1>5, <2>2, <2>3, <2>4 DEF Children
  <1> QED
    BY <1>6, <1>7, <1>8, <1>9, <1>10 DEF Family

(* The element of a PE that waits gets the parent it is told of *)
LEMMA AnswerFamily ==
    ASSUME Shape, CreatedOnce, Family, NEW n \in net, n.type = "upstream",
           NEW x \in Orphans(n.to, n.idx), put_parent(x, n.idx),
           UNCHANGED <<chares, children, endpoint>>, net' = net \ {n}
    PROVE  Family'
  <1> DEFINE c == n.idx
  <1>1. c \in Elem /\ n.to \in PE /\ x \in Elem /\ x \in chares[n.to]
    BY PacketFields DEF Shape, Orphans
  <1>2. PICK e \in children[c] : Waiting(e, n.to)
    BY DEF Family, Answers
  <1>3. x = e
    BY <1>1, <1>2 DEF Orphans, Waiting, Family, OneOrphan
  <1>4. x \in children[c] /\ x # endpoint[0] /\ c # NoElem
    BY <1>1, <1>2, <1>3, ElemAssumption DEF Waiting, NoElem
  <1>5. /\ parent' \in [Elem -> Elem \cup {NoElem}]
        /\ parent'[x] = c /\ valid'[x]
        /\ \A f \in Elem : f # x =>
               parent'[f] = parent[f] /\ valid'[f] = valid[f]
        /\ valid' \in [Elem -> BOOLEAN]
    BY <1>1 DEF put_parent, Family, TreeType
  <1>6. \A f \in Elem, p \in PE : f # x /\ Waiting(f, p) => Waiting(f, p)'
    BY <1>5 DEF Waiting
  <1>7. \A k \in net' : k.type = "upstream" => k \in net /\
            \A f \in children[k.idx] : Waiting(f, k.to) => f # x
    <2> SUFFICES ASSUME NEW k \in net, k.type = "upstream", k # n,
                        x \in children[k.idx], Waiting(x, k.to)
                 PROVE  FALSE
      OBVIOUS
    <2>1. k.idx \in Elem /\ k.to \in PE
      BY PacketFields DEF Shape
    <2>2. k.idx = c
      BY <1>1, <1>4, <2>1 DEF Family, Children
    <2>3. k.to = n.to
      BY <1>1, <2>1 DEF CreatedOnce, Waiting
    <2>4. \A m \in Packet : m.type = "upstream" => m = Upstream(m.idx, m.to)
      BY DEF Packet, Upstream
    <2> QED
      BY <2>2, <2>3, <2>4 DEF Shape
  <1>8. TreeType'
    BY <1>5 DEF Family, TreeType
  <1>9. UnknownBefore'
    <2> SUFFICES ASSUME NEW f \in Elem, ~Created(f)
                 PROVE  Unknown(f)'
      BY DEF UnknownBefore, Created
    <2>1. f # x /\ Unknown(f)
      BY <1>1 DEF Family, UnknownBefore, Created
    <2> QED
      BY <1>5, <2>1 DEF Unknown
  <1>10. OneOrphan'
    BY <1>5 DEF Family, OneOrphan, Shape
  <1>11. Requests'
    <2>1. \A k \in net' : k.type = "downstream" =>
              k \in net /\ k.idx # x /\ k.idx \in Elem /\ k.src \in PE
      BY <1>1, <1>4, PacketFields DEF Shape, Family, Requests
    <2> QED
      BY <1>6, <2>1 DEF Family, Requests
  <1>12. Answers'
    <2> SUFFICES ASSUME NEW k \in net', k.type = "upstream"
                 PROVE  \E f \in children[k.idx] : Waiting(f, k.to)'
      BY DEF Answers
    <2>1. k.idx \in Elem /\ k.to \in PE /\ k \in net
      BY PacketFields DEF Shape
    <2>2. PICK f \in children[k.idx] : Waiting(f, k.to)
      BY <2>1 DEF Family, Answers
    <2>3. f \in Elem
      BY <2>1 DEF Family, TreeType
    <2> QED
      BY <1>6, <1>7, <2>1, <2>2, <2>3
  <1>13. Children'
    <2>1. \A d, f \in Elem : parent'[f] = d => f \in children[d] /\ valid'[f]
      BY <1>4, <1>5 DEF Family, Children
    <2>2. ASSUME NEW d \in Elem, NEW f \in children[d]
          PROVE  /\ f # d /\ f # endpoint[0]
                 /\ \/ parent'[f] = d
                    \/ \E p \in PE : Waiting(f, p)' /\ Upstream(d, p) \in net'
      <3>1. f # d /\ f # endpoint[0] /\ f \in Elem
        BY DEF Family, Children, TreeType
      <3>2. CASE f = x
        BY <1>1, <1>4, <1>5, <3>1, <3>2 DEF Family, Children
      <3>3. CASE f # x /\ parent[f] = d
        BY <1>5, <3>1, <3>3
      <3>4. ASSUME f # x, NEW p \in PE, Waiting(f, p), Upstream(d, p) \in net
            PROVE  Waiting(f, p)' /\ Upstream(d, p) \in net'
        <4>1. Upstream(d, p) # n
          BY <1>1, <3>1, <3>4 DEF Upstream, Waiting, Orphans, Family, OneOrphan
        <4> QED
          BY <1>6, <3>1, <3>4, <4>1
      <3> QED
        BY <3>1, <3>2, <3>3, <3>4 DEF Family, Children
    <2> QED
      BY <2>1, <2>2 DEF Family, Children
  <1> QED
    BY <1>8, <1>9, <1>10, <1>11, <1>12, <1>13 DEF Family

(* A new element is adopted by one beside it *)
LEMMA BesideFamily ==
    ASSUME Shape, Family, NEW p \in PE, NEW e \in Elem, ~Created(e),
           NEW c \in chares[p], c # e, put_child(c, e), put_parent(e, c),
           chares' = [chares EXCEPT ![p] = @ \cup {e}], endpoint' = endpoint,
           \A n \in net' : n.type \in {"downstream", "upstream"} => n \in net,
           \A n \in net : n.type = "upstream" => n \in net'
    PROVE  Family'
  <1>1. c \in Elem /\ c # NoElem
    BY ElemAssumption DEF Shape, NoElem
  <1>2. Unknown(e)
    BY DEF Family, UnknownBefore
  <1>3. /\ parent' \in [Elem -> Elem \cup {NoElem}]
        /\ valid' \in [Elem -> BOOLEAN]
        /\ children' \in [Elem -> SUBSET Elem]
        /\ parent'[e] = c /\ valid'[e] /\ children'[c] = children[c] \cup {e}
        /\ \A f \in Elem : f # e =>
               parent'[f] = parent[f] /\ valid'[f] = valid[f]
        /\ \A d \in Elem : d # c => children'[d] = children[d]
        /\ \A d \in Elem : children[d] \subseteq children'[d]
    BY <1>1 DEF put_parent, put_child, Family, TreeType
  <1>4. /\ chares'[p] = chares[p] \cup {e}
        /\ \A q \in PE : q # p => chares'[q] = chares[q]
    BY DEF Shape
  <1>5. \A f \in Elem, q \in PE : f # e /\ Waiting(f, q) => Waiting(f, q)'
    BY <1>3, <1>4 DEF Waiting
  <1>6. \A q : q \in PE => ~Waiting(e, q)
    BY DEF Waiting, Created
  <1>7. TreeType'
    BY <1>3 DEF TreeType
  <1>8. UnknownBefore'
    <2> SUFFICES ASSUME NEW f \in Elem, ~Created(f)'
                 PROVE  Unknown(f)'
      BY DEF UnknownBefore
    <2>1. f # e /\ f # c /\ ~Created(f)
      BY <1>4 DEF Created
    <2>2. Unknown(f)
      BY <2>1 DEF Family, UnknownBefore
    <2> QED
      BY <1>3, <2>1, <2>2 DEF Unknown
  <1>9. OneOrphan'
    BY <1>3, <1>4 DEF Family, OneOrphan, Shape
  <1>10. Requests'
    <2>1. \A n \in net' : n.type = "downstream" =>
              n \in net /\ n.idx # e /\ n.idx \in Elem /\ n.src \in PE
      BY <1>2, PacketFields DEF Shape, Unknown
    <2>2. \A n \in net' : n.type = "downstream" =>
              \A d \in Elem : n.idx \notin children'[d]
      BY <1>3, <2>1 DEF Family, Requests
    <2> QED
      BY <1>5, <2>1, <2>2 DEF Family, Requests
  <1>11. Answers'
    <2> SUFFICES ASSUME NEW n \in net', n.type = "upstream"
                 PROVE  \E f \in children'[n.idx] : Waiting(f, n.to)'
      BY DEF Answers
    <2>1. n \in net /\ n.idx \in Elem /\ n.to \in PE
      BY PacketFields DEF Shape
    <2>2. PICK f \in children[n.idx] : Waiting(f, n.to)
      BY <2>1 DEF Family, Answers
    <2>3. f \in Elem /\ f # e
      BY <1>6, <2>1, <2>2 DEF Family, TreeType
    <2> QED
      BY <1>3, <1>5, <2>1, <2>2, <2>3
  <1>12. Children'
    <2>1. \A d, q : Upstream(d, q) \in net => Upstream(d, q) \in net'
      BY DEF Upstream
    <2>2. \A d, f \in Elem : d # f => children'[d] \cap children'[f] = {}
      BY <1>2, <1>3 DEF Family, Children, Unknown
    <2>3. \A d, f \in Elem : parent'[f] = d => f \in children'[d] /\ valid'[f]
      BY <1>1, <1>3 DEF Family, Children
    <2>4. ASSUME NEW d \in Elem, NEW f \in children'[d]
          PROVE  /\ f # d /\ f # endpoint[0]
                 /\ \/ parent'[f] = d
                    \/ \E q \in PE : Waiting(f, q)' /\ Upstream(d, q) \in net'
      <3>1. CASE f \in children[d]
        <4>1. f \in Elem /\ f # e
          BY <1>2, <3>1 DEF Unknown, Family, TreeType
        <4> QED
          BY <1>3, <1>5, <2>1, <3>1, <4>1 DEF Family, Children
      <3>2. CASE d = c /\ f = e
        BY <1>2, <1>3, <3>2 DEF Unknown
      <3> QED
        BY <1>3, <2>4, <3>1, <3>2
    <2> QED
      BY <2>2, <2>3, <2>4 DEF Children
  <1> QED
    BY <1>7, <1>8, <1>9, <1>10, <1>11, <1>12 DEF Family

-----------------------------------------------------------------------------
(* Creating an element *)

LEMMA CreateOnce ==
    ASSUME Shape, CreatedOnce, NEW p \in PE, NEW e \in Elem, ~Created(e),
           chares' = [chares EXCEPT ![p] = @ \cup {e}],
           inserted' = inserted \cup {e},
           \A n \in net' : n.type = "ctor" => n \in net /\ n.idx # e
    PROVE  CreatedOnce'
  <1>1. /\ chares'[p] = chares[p] \cup {e}
        /\ \A q \in PE : q # p => chares'[q] = chares[q]
    BY DEF Shape
  <1>2. \A f : Created(f)' => Created(f) \/ f = e
    BY <1>1 DEF Created
  <1>3. \A q, r \in PE : q # r => chares'[q] \cap chares'[r] = {}
    BY <1>1 DEF CreatedOnce, Created
  <1>4. \A q \in PE : chares'[q] \subseteq inserted'
    BY <1>1 DEF CreatedOnce
  <1> QED
    BY <1>2, <1>3, <1>4 DEF CreatedOnce

LEMMA CreateFamily ==
    ASSUME Shape, OneEndpoint, Family, NEW p \in PE, NEW e \in Elem,
           ~Created(e), NEW rest \in SUBSET Packet, NEW m,
           Create(p, e, rest, m),
           \A n \in rest : n \in net,
           \A n \in net : n.type = "upstream" => n \in rest
    PROVE  /\ Family'
           /\ \A n \in net' : n.type = "ctor" => n \in rest
  <1> DEFINE sent == rest \cup InformHome(p, e)
             local == chares[p] \cup {e}
  <1>1. chares' = [chares EXCEPT ![p] = local]
    BY DEF Create
  <1>2. /\ chares'[p] = local
        /\ \A q \in PE : q # p => chares'[q] = chares[q]
        /\ \A q \in PE : chares[q] \subseteq chares'[q] /\ chares'[q] \subseteq Elem
    BY <1>1 DEF Shape
  <1>3. Unknown(e) /\ e \notin chares[p]
    BY DEF Family, UnknownBefore, Created
  <1>4. /\ \A n \in sent : n.type \in {"downstream", "upstream"} => n \in net
        /\ \A n \in sent : n.type = "ctor" => n \in rest
        /\ \A n \in net : n.type = "upstream" => n \in sent
    BY DEF InformHome, Location
  <1>5. CASE /\ LeastLoaded(local, e) = {}
             /\ send_upstream(p, e, p, sent, m - 1)
    <2>1. chares[p] = {} /\ chares'[p] = {e}
      <3>1. local \in SUBSET Elem
        BY DEF Shape
      <3>2. local \subseteq {e}
        BY <1>5, <3>1, SomeLeastLoaded DEF Family
      <3> QED
        BY <1>2, <1>3, <3>2
    <2>2. ASSUME \A f \in Elem : f # e => valid'[f] = valid[f]
          PROVE  OneOrphan'
      BY <1>2, <1>3, <2>1, <2>2 DEF Family, OneOrphan, Shape, Created
    <2>3. ASSUME NEW q \in PE, net' = sent \cup {Downstream(e, q, p)},
                 UNCHANGED <<tree, endpoint>>
          PROVE  /\ Family'
                 /\ \A n \in net' : n.type = "ctor" => n \in rest
      <3>1. UNCHANGED <<parent, children, valid, endpoint>>
        BY <2>3 DEF tree
      <3>2. OneOrphan'
        BY <2>2, <3>1
      <3>3. \A n \in net' : n.type = "downstream" =>
                (n \in net /\ n.idx # e) \/ n = Downstream(e, q, p)
        BY <1>3, <1>4, <2>3 DEF Unknown
      <3>4. /\ \A n \in net' : n.type = "upstream" => n \in net
            /\ \A n \in net : n.type = "upstream" => n \in net'
            /\ \A n \in net' : n.type = "ctor" => n \in rest
        BY <1>4, <2>3 DEF Downstream
      <3>5. e \in chares'[p] /\ ~valid[e] /\ e # endpoint[0]
            /\ \A c \in Elem : e \notin children[c]
        BY <1>3, <2>1 DEF Unknown
      <3> QED
        BY <1>2, <3>1, <3>2, <3>3, <3>4, <3>5, RequestFamily
    <2>4. CASE p # 0
      BY <1>5, <2>3, <2>4, UpPE DEF send_upstream
    <2>5. CASE p = 0 /\ endpoint[p] # NoElem
      <3>1. lookup(p, endpoint[p]) \in PE
        BY <2>5, LookupPE DEF Shape
      <3> QED
        BY <1>5, <2>3, <2>5, <3>1 DEF send_upstream
    <2>6. CASE p = 0 /\ endpoint[p] = NoElem
      <3>1. register_endpoint(p, e, sent, (m - 1) + 1)
        BY <1>5, <2>6 DEF send_upstream
      <3>2. /\ e = endpoint'[0]
            /\ UNCHANGED <<parent, children>>
            /\ net' = sent \cup {Endpoint(e, q) : q \in leaves(p)}
        BY <2>6, <3>1 DEF register_endpoint, Shape
      <3>3. /\ valid' \in [Elem -> BOOLEAN]
            /\ \A f \in Elem : f # e => valid'[f] = valid[f]
        BY <3>1 DEF register_endpoint, Family, TreeType
      <3>4. OneOrphan' /\ Created(e)'
        BY <2>1, <2>2, <3>3 DEF Created
      <3>5. /\ \A n \in net' : n.type \in {"downstream", "upstream"} => n \in net
            /\ \A n \in net : n.type = "upstream" => n \in net'
            /\ \A n \in net' : n.type = "ctor" => n \in rest
        BY <1>4, <3>2 DEF Endpoint
      <3>6. \A n \in net' : n.type = "downstream" => n.idx # e
        BY <1>3, <3>5 DEF Unknown
      <3>7. \A c \in Elem : e \notin children[c]
        BY <1>3 DEF Unknown
      <3>8. Family'
        BY <1>2, <2>6, <3>2, <3>3, <3>4, <3>5, <3>6, <3>7, EndpointFamily
      <3> QED
        BY <3>5, <3>8
    <2> QED
      BY <2>4, <2>5, <2>6
  <1>6. ASSUME NEW c \in LeastLoaded(local, e), put_child(c, e),
               put_parent(e, c), net' = sent, endpoint' = endpoint
        PROVE  /\ Family'
               /\ \A n \in net' : n.type = "ctor" => n \in rest
    <2>1. c \in chares[p] /\ c # e
      BY DEF LeastLoaded
    <2> QED
      BY <1>1, <1>4, <1>6, <2>1, BesideFamily
  <1> QED
    BY <1>5, <1>6 DEF Create

-----------------------------------------------------------------------------
(* Every step *)

LEMMA LinkStep ==
    LinkInv /\ [Next]_vars => CreatedOnce' /\ Family'
  <1> SUFFICES ASSUME LinkInv, [Next]_vars
               PROVE  CreatedOnce' /\ Family'
    OBVIOUS
  <1> USE DEF LinkInv
  <1>0. ASSUME UNCHANGED <<chares, tree, inserted>>, endpoint' = endpoint,
               \A n \in net' : n.type \in {"ctor", "downstream", "upstream"}
                                   => n \in net,
               \A n \in net : n.type = "upstream" => n \in net'
        PROVE  CreatedOnce' /\ Family'
    BY <1>0, SameFamily, SameCreated DEF tree
  <1>1. ASSUME NEW p \in PE, NEW e \in Elem, Insert(p, e)
        PROVE  CreatedOnce' /\ Family'
    <2> DEFINE to == IF InsertOn[e] = NoPe THEN home_pe(e) ELSE InsertOn[e]
    <2>1. net' = net \cup {Ctor(e, to)} /\ inserted' = inserted \cup {e}
          /\ e \notin inserted /\ UNCHANGED <<chares, tree, endpoint>>
      BY <1>1 DEF Insert
    <2>2. Ctor(e, to).type = "ctor" /\ Ctor(e, to).idx = e
      BY DEF Ctor
    <2> HIDE DEF to
    <2>3. Family'
      BY <2>1, <2>2, SameFamily DEF tree
    <2>4. CreatedOnce'
      BY <2>1, <2>2 DEF CreatedOnce, Created
    <2> QED
      BY <2>3, <2>4
  <1>2. ASSUME DoneInserting
        PROVE  CreatedOnce' /\ Family'
    BY <1>0, <1>2 DEF DoneInserting, Status
  <1>3. ASSUME NEW p \in PE, SeedNext(p)
        PROVE  CreatedOnce' /\ Family'
    <2>1. PICK e \in Seeds(p) :
              inserted' = inserted \cup {e} /\ Create(p, e, net, 1)
      BY <1>3 DEF SeedNext
    <2>2. e \in Elem /\ ~Created(e) /\ e \notin inserted
      BY DEF Seeds, CreatedOnce, Created
    <2>3. Family' /\ \A n \in net' : n.type = "ctor" => n \in net
      BY <2>1, <2>2, CreateFamily DEF Shape
    <2>4. \A n \in net' : n.type = "ctor" => n \in net /\ n.idx # e
      BY <2>2, <2>3 DEF CreatedOnce
    <2> QED
      BY <2>1, <2>2, <2>3, <2>4, CreateOnce DEF Create
  <1>4. ASSUME NEW p \in PE, FinishConstruct(p)
        PROVE  CreatedOnce' /\ Family'
    BY <1>0, <1>4 DEF FinishConstruct
  <1>5. ASSUME NEW n \in net, ReceiveCtor(n)
        PROVE  CreatedOnce' /\ Family'
    <2>1. Create(n.to, n.idx, net \ {n}, 0) /\ n.type = "ctor"
          /\ inserted' = inserted
      BY <1>5 DEF ReceiveCtor, Handles, phase
    <2>2. n.to \in PE /\ n.idx \in Elem /\ net \ {n} \in SUBSET Packet
      BY <2>1, PacketFields DEF Shape
    <2>3. n.idx \in inserted /\ ~Created(n.idx)
      BY <2>1 DEF CreatedOnce
    <2>4. Family' /\ \A k \in net' : k.type = "ctor" => k \in net \ {n}
      <3>1. \A k \in net : k.type = "upstream" => k \in net \ {n}
        BY <2>1
      <3> QED
        BY <2>1, <2>2, <2>3, <3>1, CreateFamily
    <2>5. \A k \in net' : k.type = "ctor" => k \in net /\ k.idx # n.idx
      BY <2>1, <2>4 DEF CreatedOnce
    <2>6. inserted' = inserted \cup {n.idx}
      BY <2>1, <2>3
    <2> QED
      BY <2>1, <2>2, <2>3, <2>4, <2>5, <2>6, CreateOnce DEF Create
  <1>6. ASSUME NEW n \in net, ReceiveLocation(n)
        PROVE  CreatedOnce' /\ Family'
    BY <1>0, <1>6 DEF ReceiveLocation, Handles, phase
  <1>7. ASSUME NEW n \in net, ReceiveDownstream(n)
        PROVE  CreatedOnce' /\ Family'
    <2>1. /\ n.type = "downstream" /\ n.to \in PE /\ n.idx \in Elem
          /\ n.src \in PE /\ UNCHANGED <<chares, inserted>>
      BY <1>7, PacketFields DEF ReceiveDownstream, Handles, Shape, phase
    <2>2. Waiting(n.idx, n.src) /\ \A c \in Elem : n.idx \notin children[c]
      BY <2>1 DEF Family, Requests
    <2>3. \A k \in net \ {n} : k.type = "downstream" => k.idx # n.idx
      BY <2>1 DEF Family, Requests
    <2>4. CASE send_upstream(n.to, n.idx, n.src, net \ {n}, -1)
      <3>1. ASSUME NEW q \in PE, UNCHANGED <<tree, endpoint>>,
                   net' = (net \ {n}) \cup {Downstream(n.idx, q, n.src)}
            PROVE  CreatedOnce' /\ Family'
        <4>1. OneOrphan'
          BY <2>1, <3>1 DEF Family, OneOrphan, tree
        <4>2. \A k \in net' : k.type = "downstream" =>
                  \/ k \in net /\ k.idx # n.idx
                  \/ k = Downstream(n.idx, q, n.src)
          BY <2>3, <3>1
        <4>3. /\ \A k \in net' : k.type \in {"ctor", "upstream"} => k \in net
              /\ \A k \in net : k.type = "upstream" => k \in net'
          BY <2>1, <3>1 DEF Downstream
        <4>4. Family'
          BY <2>1, <2>2, <3>1, <4>1, <4>2, <4>3, RequestFamily
             DEF Waiting, tree, Shape
        <4> QED
          BY <2>1, <4>3, <4>4, SameCreated
      <3>2. CASE n.to # 0
        BY <2>1, <2>4, <3>1, <3>2, UpPE DEF send_upstream
      <3>3. CASE n.to = 0 /\ endpoint[n.to] # NoElem
        <4>1. lookup(n.to, endpoint[n.to]) \in PE
          BY <2>1, <3>3, LookupPE DEF Shape
        <4> QED
          BY <2>4, <3>1, <3>3, <4>1 DEF send_upstream
      <3>4. CASE n.to = 0 /\ endpoint[n.to] = NoElem
        <4>1. register_endpoint(n.to, n.idx, net \ {n}, -1 + 1)
          BY <2>4, <3>4 DEF send_upstream
        <4>2. /\ n.idx = endpoint'[0] /\ UNCHANGED <<parent, children>>
              /\ net' = (net \ {n}) \cup {Endpoint(n.idx, q) : q \in leaves(n.to)}
          BY <3>4, <4>1, PEs DEF register_endpoint, Shape
        <4>3. /\ valid' \in [Elem -> BOOLEAN]
              /\ \A f \in Elem : f # n.idx => valid'[f] = valid[f]
              /\ \A f \in Elem : valid[f] => valid'[f]
          BY <4>1 DEF register_endpoint, Family, TreeType
        <4>4. OneOrphan' /\ Created(n.idx)'
          BY <2>1, <2>2, <4>3 DEF Family, OneOrphan, Shape, Waiting, Created
        <4>5. /\ \A k \in net' : k.type \in {"ctor", "downstream", "upstream"}
                                     => k \in net \ {n}
              /\ \A k \in net : k.type = "upstream" => k \in net'
          BY <2>1, <4>2 DEF Endpoint
        <4>6. Family'
          BY <2>1, <2>2, <2>3, <3>4, <4>2, <4>3, <4>4, <4>5, EndpointFamily
        <4> QED
          BY <2>1, <4>5, <4>6, SameCreated
      <3> QED
        BY <3>2, <3>3, <3>4
    <2>5. ASSUME NEW c \in LeastLoaded(chares[n.to], n.idx), put_child(c, n.idx),
                 net' = (net \ {n}) \cup {Upstream(c, n.src)},
                 UNCHANGED <<parent, valid, endpoint>>
          PROVE  CreatedOnce' /\ Family'
      <3>1. c \in Elem /\ c # n.idx /\ Created(c)
        BY <2>1 DEF LeastLoaded, Shape, Created
      <3>2. Family'
        BY <2>1, <2>5, <3>1, AdoptFamily DEF put_child
      <3>3. \A k \in net' : k.type = "ctor" => k \in net
        BY <2>5 DEF Upstream
      <3> QED
        BY <2>1, <3>2, <3>3, SameCreated
    <2> QED
      BY <1>7, <2>4, <2>5 DEF ReceiveDownstream
  <1>8. ASSUME NEW n \in net, ReceiveUpstream(n)
        PROVE  CreatedOnce' /\ Family'
    <2>1. PICK x \in Orphans(n.to, n.idx) : put_parent(x, n.idx)
      BY <1>8 DEF ReceiveUpstream
    <2>2. Family'
      BY <1>8, <2>1, AnswerFamily DEF ReceiveUpstream, Handles
    <2> QED
      BY <1>8, <2>2, SameCreated DEF ReceiveUpstream, phase
  <1>9. ASSUME NEW n \in net, ReceiveEndpoint(n)
        PROVE  CreatedOnce' /\ Family'
    <2> DEFINE e == n.idx
    <2>1. /\ n.type = "endpoint" /\ endpoint[n.to] = NoElem
          /\ register_endpoint(n.to, e, net \ {n}, 0)
          /\ UNCHANGED <<chares, inserted>>
      BY <1>9 DEF ReceiveEndpoint, Handles, EndpointExpected, phase
    <2>2. n.to \in PE /\ e \in Elem /\ e = endpoint[0] /\ n.to # 0
      BY <2>1, PacketFields, ElemAssumption DEF Shape, OneEndpoint, NoElem
    <2>3. /\ e = endpoint'[0] /\ UNCHANGED <<parent, children>>
          /\ net' = (net \ {n}) \cup {Endpoint(e, q) : q \in leaves(n.to)}
      BY <2>1, <2>2 DEF register_endpoint, Shape
    <2>4. /\ valid' \in [Elem -> BOOLEAN]
          /\ \A f \in Elem : f # e => valid'[f] = valid[f]
          /\ \A f \in Elem : valid[f] => valid'[f]
      BY <2>1 DEF register_endpoint, Family, TreeType
    <2>5. Created(e)
      BY <2>2 DEF Family, UnknownBefore, Unknown
    <2>6. OneOrphan' /\ Created(e)'
      BY <2>1, <2>4, <2>5 DEF Family, OneOrphan, Shape, Created
    <2>7. \A c \in Elem : e \notin children[c]
      BY <2>2 DEF Family, Children
    <2>8. /\ \A k \in net' : k.type \in {"ctor", "downstream", "upstream"}
                                 => k \in net
          /\ \A k \in net : k.type = "upstream" => k \in net'
      BY <2>1, <2>3 DEF Endpoint
    <2>9. \A k \in net' : k.type = "downstream" => k.idx # e
      BY <2>2, <2>8 DEF Family, Requests, Waiting
    <2>10. Family'
      BY <2>1, <2>2, <2>3, <2>4, <2>6, <2>7, <2>8, <2>9, EndpointFamily
    <2> QED
      BY <2>1, <2>8, <2>10, SameCreated
  <1>10. ASSUME NEW n \in net, ReceiveStatus(n)
         PROVE  CreatedOnce' /\ Family'
    BY <1>0, <1>10 DEF ReceiveStatus, Handles, phase
  <1>11. CASE ReceiveResult
    BY <1>0, <1>11 DEF ReceiveResult, phase
  <1>12. ASSUME NEW n \in counts, ReceiveCount(n)
         PROVE  CreatedOnce' /\ Family'
    <2>1. net \subseteq net' /\ \A k \in net' \ net : k.type = "complete"
      BY <1>12 DEF ReceiveCount, Complete
    <2> QED
      BY <1>0, <1>12, <2>1 DEF ReceiveCount, phase
  <1>13. ASSUME NEW n \in net, ReceiveComplete(n)
         PROVE  CreatedOnce' /\ Family'
    BY <1>0, <1>13 DEF ReceiveComplete, Handles, phase
  <1>14. CASE UNCHANGED vars
    BY <1>0, <1>14 DEF vars, phase
  <1> QED
    BY <1>1, <1>2, <1>3, <1>4, <1>5, <1>6, <1>7, <1>8, <1>9, <1>10, <1>11,
       <1>12, <1>13, <1>14 DEF Next

-----------------------------------------------------------------------------
(* What the invariant says of the links *)

LEMMA LinksFollow == LinkInv => LinksAgree
  <1> SUFFICES ASSUME LinkInv
               PROVE  LinksAgree
    OBVIOUS
  <1> USE DEF LinkInv
  <1>1. ASSUME NEW p \in PE, NEW c \in Elem, NEW e \in children[c], Waiting(e, p)
        PROVE  e \in Elem /\ Orphans(p, c) = {e}
    <2>1. e # c /\ e \in Elem
      BY DEF Family, Children, TreeType
    <2> QED
      BY <1>1, <2>1 DEF Orphans, Waiting, Family, OneOrphan
  <1>2. ASSUME NEW n \in net, n.type = "upstream"
        PROVE  \E e \in children[n.idx] :
                   e \in Elem /\ Orphans(n.to, n.idx) = {e}
    <2>1. n.idx \in Elem /\ n.to \in PE
      BY <1>2, PacketFields DEF Shape
    <2> QED
      BY <1>1, <1>2, <2>1 DEF Family, Answers
  <1>3. ASSUME NEW c \in Elem, NEW e \in Elem
        PROVE  e \in children[c] <=> parent[e] = c \/ Awaits(e, c)
    <2>1. parent[e] = c => e \in children[c]
      BY DEF Family, Children
    <2>2. Awaits(e, c) => e \in children[c]
      BY <1>2 DEF Awaits
    <2>3. ASSUME e \in children[c], parent[e] # c
          PROVE  Awaits(e, c)
      <3>1. PICK p \in PE : Waiting(e, p) /\ Upstream(c, p) \in net
        BY <2>3 DEF Family, Children
      <3>2. Orphans(p, c) = {e}
        BY <1>1, <2>3, <3>1
      <3> QED
        BY <3>1, <3>2 DEF Awaits, Upstream
    <2> QED
      BY <2>1, <2>2, <2>3
  <1>4. \A c, d \in Elem : c # d => children[c] \cap children[d] = {}
    BY DEF Family, Children
  <1> QED
    BY <1>2, <1>3, <1>4 DEF LinksAgree

(* However requests, answers, creations and the news of the endpoint cross *)
(* each other, no element gets two parents, a parent and its child agree   *)
(* but for the answer on its way, and receive_upstream always finds        *)
(* exactly the element that asked: send_downstream, which aborts           *)
(* (collection_bridge.hpp), is never called.                               *)
THEOREM ParentsAndChildrenAgree == Spec => []LinksAgree
  <1>1. Init => LinkInv
    BY EndpointInit, LinkInit DEF LinkInv
  <1>2. LinkInv /\ [Next]_vars => LinkInv'
    BY EndpointStep, LinkStep DEF LinkInv
  <1> QED
    BY <1>1, <1>2, LinksFollow, PTL DEF Spec

-----------------------------------------------------------------------------
(* Arrays whose elements are all created at home have no cycle.            *)
(*                                                                         *)
(* Only the first element of a PE has its parent on another PE: one that   *)
(* the request meets on its way to PE 0, each PE being less than the last, *)
(* or one beside the endpoint, whose own first element is the endpoint.    *)

AllAtHome ==
    HasOptions \/ \A e \in Elem : InsertOn[e] \in {NoPe, home_pe(e)}

(* Where the elements are known to be *)
Homely ==
    /\ \A p \in PE : \A e \in chares[p] : home_pe(e) = p
    /\ \A p \in PE, e \in Elem : locmap[p][e] = NoPe /\ routing_cache[p][e] = NoPe
    /\ \A n \in net : n.type # "location"
    /\ \A n \in net : n.type = "ctor" => n.to = home_pe(n.idx)

(* PE p may adopt elements of PE q *)
Higher(p, q) == p < q \/ (endpoint[0] # NoElem /\ p = home_pe(endpoint[0]))

Climb ==
    /\ \A n \in net : n.type = "downstream" => Higher(n.to, n.src)
    /\ \A n \in net : n.type = "upstream" => Higher(home_pe(n.idx), n.to)

Beside(e, f) == home_pe(e) = home_pe(f)

Descend ==
    \A e \in Elem : parent[e] # NoElem =>
        Beside(e, parent[e]) \/ Higher(home_pe(parent[e]), home_pe(e))

Top(e) == parent[e] = NoElem \/ ~Beside(e, parent[e])

OneTop ==
    \A e, f \in Elem :
        Created(e) /\ Created(f) /\ Beside(e, f) /\ Top(e) /\ Top(f) => e = f

(* No cycle within a PE *)
NoLocalCycle ==
    \A S \in (SUBSET Elem) \ {{}} :
        \E e \in S : parent[e] \notin S \/ ~Beside(e, parent[e])

HomeInv == Homely /\ Climb /\ Descend /\ OneTop /\ NoLocalCycle

(* The endpoint is set once *)
LEMMA HigherStays ==
    ASSUME endpoint[0] \in {NoElem, endpoint'[0]}
    PROVE  \A p, q : Higher(p, q) => Higher(p, q)'
  BY DEF Higher

LEMMA LookupHome ==
    ASSUME Homely, NEW p \in PE, NEW e \in Elem
    PROVE  lookup(p, e) = home_pe(e)
  BY DEF Homely, lookup, lookup_cache

LEMMA HomeInit == Init => HomeInv
  <1> SUFFICES ASSUME Init
               PROVE  HomeInv
    OBVIOUS
  <1>1. Homely /\ Climb
    BY DEF Init, LocmgrInit, Homely, Climb
  <1>2. Descend /\ OneTop
    BY DEF Init, Descend, OneTop, Created
  <1>3. NoLocalCycle
    BY ElemAssumption DEF Init, NoLocalCycle, NoElem
  <1> QED
    BY <1>1, <1>2, <1>3 DEF HomeInv

(* Steps that give nobody a parent *)
LEMMA SameParents ==
    ASSUME HomeInv, UNCHANGED <<locmap, routing_cache, chares, parent>>,
           endpoint[0] \in {NoElem, endpoint'[0]},
           \A n \in net' : n.type # "location",
           \A n \in net' : n.type = "ctor" => n.to = home_pe(n.idx),
           Climb'
    PROVE  HomeInv'
  <1>1. Homely'
    BY DEF HomeInv, Homely
  <1>2. Descend'
    BY HigherStays DEF HomeInv, Descend
  <1>3. OneTop' /\ NoLocalCycle'
    BY DEF HomeInv, OneTop, Top, Created, NoLocalCycle
  <1> QED
    BY <1>1, <1>2, <1>3 DEF HomeInv

LEMMA ClimbStays ==
    ASSUME Climb, endpoint[0] \in {NoElem, endpoint'[0]},
           \A n \in net' : n.type \in {"downstream", "upstream"} => n \in net
    PROVE  Climb'
  BY HigherStays DEF Climb

-----------------------------------------------------------------------------
(* Why there is no cycle *)

(* The endpoint has no parent, so no element beside it has one elsewhere *)
LEMMA NoneAboveEndpoint ==
    ASSUME LinkInv, OneTop, NEW e \in Elem, Created(e), Top(e),
           endpoint[0] # NoElem, e # endpoint[0]
    PROVE  home_pe(e) # home_pe(endpoint[0])
  <1> DEFINE r == endpoint[0]
  <1>1. r \in Elem /\ Created(r)
    BY PEs DEF LinkInv, Shape, Family, UnknownBefore, Unknown
  <1>2. parent[r] = NoElem
    <2>1. parent[r] \in Elem \cup {NoElem}
      BY <1>1 DEF LinkInv, Family, TreeType
    <2> QED
      BY <1>1, <2>1 DEF LinkInv, Family, Children
  <1>3. Top(r)
    BY <1>2 DEF Top
  <1> QED
    BY <1>1, <1>3 DEF OneTop, Beside

(* A cycle would have a PE that is highest, and lie on it *)
LEMMA NoneAtAll == LinkInv /\ HomeInv => NoCycle
  <1> SUFFICES ASSUME LinkInv, HomeInv,
                      NEW S \in (SUBSET Elem) \ {{}},
                      \A e \in S : parent[e] \in S
               PROVE  FALSE
    BY DEF NoCycle
  <1> DEFINE at_top(e) ==
                 endpoint[0] # NoElem /\ home_pe(e) = home_pe(endpoint[0])
             rank == [e \in Elem |-> IF at_top(e) THEN 0 ELSE home_pe(e) + 1]
             T == {rank[e] : e \in S}
  <1>1. \A e \in Elem : /\ home_pe(e) \in Nat
                        /\ at_top(e) => rank[e] = 0
                        /\ ~at_top(e) => rank[e] = home_pe(e) + 1
    <2>1. \A e \in Elem : home_pe(e) \in Nat
      BY HomePE, PEs
    <2> QED
      BY <2>1
  <1> HIDE DEF rank, T
  <1>2. \A e \in Elem : rank[e] \in Nat
    BY <1>1
  <1>3. \A e \in S : e \in Elem /\ parent[e] \in Elem /\ parent[e] # NoElem
    <2>1. \A e \in Elem : e # NoElem
      BY ElemAssumption DEF NoElem
    <2>2. S \subseteq Elem
      OBVIOUS
    <2> QED
      BY <2>1, <2>2
  <1>4. ASSUME NEW e \in S, ~Beside(e, parent[e])
        PROVE  rank[parent[e]] < rank[e]
    <2>1. e # endpoint[0]
      BY <1>3, ElemAssumption DEF LinkInv, Family, Children
    <2>2. Created(e)
      BY <1>3 DEF LinkInv, Family, UnknownBefore, Unknown
    <2>3. ~at_top(e)
      BY <1>3, <1>4, <2>1, <2>2, NoneAboveEndpoint DEF HomeInv, Top
    <2>4. home_pe(parent[e]) < home_pe(e) \/ at_top(parent[e])
      BY <1>3, <1>4 DEF HomeInv, Descend, Higher
    <2>5. rank[e] = home_pe(e) + 1 /\ home_pe(e) \in Nat /\ home_pe(parent[e]) \in Nat
      BY <1>1, <1>3, <2>3
    <2>6. CASE at_top(parent[e])
      <3>1. rank[parent[e]] = 0
        BY <1>1, <1>3, <2>6
      <3> QED
        BY <2>5, <3>1
    <2>7. CASE ~at_top(parent[e])
      <3>1. rank[parent[e]] = home_pe(parent[e]) + 1
        BY <1>1, <1>3, <2>7
      <3> QED
        BY <2>4, <2>5, <2>7, <3>1
    <2> QED
      BY <2>6, <2>7
  <1>5. ASSUME NEW e \in S, Beside(e, parent[e])
        PROVE  rank[parent[e]] = rank[e]
    <2>1. at_top(e) <=> at_top(parent[e])
      BY <1>5 DEF Beside
    <2> HIDE DEF at_top
    <2> QED
      BY <1>1, <1>3, <1>5, <2>1 DEF Beside
  <1>6. PICK m \in T : \A k \in T : m <= k
    <2>1. T \in SUBSET Nat /\ T # {}
      BY <1>2, <1>3 DEF T
    <2> QED
      BY <2>1, SmallestInSet
  <1> DEFINE R == {e \in S : rank[e] = m}
  <1>7. R \in (SUBSET Elem) \ {{}}
    <2>1. PICK e \in S : m = rank[e]
      BY DEF T
    <2> QED
      BY <2>1
  <1>8. ASSUME NEW e \in R
        PROVE  parent[e] \in R /\ Beside(e, parent[e])
    <2>1. parent[e] \in S /\ m <= rank[parent[e]]
      BY <1>6 DEF T
    <2>2. rank[e] \in Nat /\ rank[parent[e]] \in Nat /\ rank[e] = m
      BY <1>2, <1>3
    <2> QED
      BY <1>4, <1>5, <2>1, <2>2
  <1> HIDE DEF R
  <1> QED
    BY <1>7, <1>8 DEF HomeInv, NoLocalCycle

-----------------------------------------------------------------------------
(* The steps that give a parent, or create an element *)

(* Element c of a PE above answers the one that waits on this PE *)
LEMMA AnswerHome ==
    ASSUME LinkInv, HomeInv, NEW n \in net, n.type = "upstream",
           NEW x \in Orphans(n.to, n.idx), put_parent(x, n.idx),
           UNCHANGED <<locmap, routing_cache, chares, endpoint>>,
           net' = net \ {n}
    PROVE  HomeInv'
  <1> DEFINE c == n.idx
  <1>1. /\ c \in Elem /\ n.to \in PE /\ x \in Elem /\ x \in chares[n.to]
        /\ home_pe(x) = n.to
    BY PacketFields DEF LinkInv, Shape, Orphans, HomeInv, Homely
  <1>2. x # endpoint[0] /\ ~valid[x] /\ Created(x)
    <2>1. PICK e \in children[c] : Waiting(e, n.to)
      BY DEF LinkInv, Family, Answers
    <2> QED
      BY <1>1, <2>1 DEF Orphans, Waiting, LinkInv, Family, OneOrphan, Created
  <1>3. parent[x] = NoElem /\ Top(x)
    <2>1. parent[x] \in Elem \cup {NoElem}
      BY <1>1 DEF LinkInv, Family, TreeType
    <2> QED
      BY <1>1, <1>2, <2>1 DEF LinkInv, Family, Children, Top
  <1>4. Higher(home_pe(c), home_pe(x))
    BY <1>1 DEF HomeInv, Climb
  <1>5. ~Beside(x, c)
    <2>1. home_pe(x) \in Nat
      BY <1>1, PEs
    <2>2. CASE home_pe(c) < home_pe(x)
      BY <2>1, <2>2 DEF Beside
    <2>3. CASE endpoint[0] # NoElem /\ home_pe(c) = home_pe(endpoint[0])
      BY <1>1, <1>2, <1>3, <2>3, NoneAboveEndpoint DEF HomeInv, Beside
    <2> QED
      BY <1>4, <2>2, <2>3 DEF Higher
  <1>6. parent'[x] = c /\ \A e \in Elem : e # x => parent'[e] = parent[e]
    BY <1>1 DEF put_parent, LinkInv, Family, TreeType
  <1>7. Homely' /\ Climb'
    BY DEF HomeInv, Homely, Climb, Higher
  <1>8. Descend'
    BY <1>4, <1>6 DEF HomeInv, Descend, Higher
  <1>9. OneTop'
    <2>1. \A e \in Elem : Top(e)' => Top(e)
      BY <1>3, <1>6 DEF Top
    <2> QED
      BY <2>1 DEF HomeInv, OneTop, Created
  <1>10. NoLocalCycle'
    <2> SUFFICES ASSUME NEW S \in (SUBSET Elem) \ {{}},
                        \A e \in S : parent'[e] \in S /\ Beside(e, parent'[e])
                 PROVE  FALSE
      BY DEF NoLocalCycle, Beside
    <2>1. x \notin S
      BY <1>5, <1>6
    <2>2. \A e \in S : parent[e] \in S /\ Beside(e, parent[e])
      BY <1>6, <2>1
    <2> QED
      BY <2>2 DEF HomeInv, NoLocalCycle
  <1> QED
    BY <1>7, <1>8, <1>9, <1>10 DEF HomeInv

(* A new element, created at home *)
LEMMA CreateHome ==
    ASSUME LinkInv, HomeInv, NEW p \in PE, NEW e \in Elem, p = home_pe(e),
           ~Created(e), NEW rest \in SUBSET Packet, NEW m,
           Create(p, e, rest, m), rest \subseteq net
    PROVE  HomeInv'
  <1> DEFINE local == chares[p] \cup {e}
  <1>1. UNCHANGED <<locmap, routing_cache>>
        /\ chares' = [chares EXCEPT ![p] = local]
        /\ rest \cup InformHome(p, e) = rest
    BY DEF Create, tables, InformHome
  <1>2. /\ chares'[p] = local
        /\ \A q \in PE : q # p => chares'[q] = chares[q]
        /\ \A f \in Elem : Created(f)' <=> Created(f) \/ f = e
    <2>1. chares'[p] = local /\ \A q \in PE : q # p => chares'[q] = chares[q]
      BY <1>1 DEF LinkInv, Shape
    <2> QED
      BY <2>1 DEF Created
  <1>3. Unknown(e) /\ e \notin chares[p]
    BY DEF LinkInv, Family, UnknownBefore, Created
  <1>4. ASSUME \A n \in net' : n.type \in {"ctor", "location"} => n \in net
        PROVE  Homely'
    BY <1>1, <1>2, <1>4 DEF HomeInv, Homely
  <1>5. CASE LeastLoaded(local, e) = {} /\ send_upstream(p, e, p, rest, m - 1)
    <2>1. local \in SUBSET Elem
      BY DEF LinkInv, Shape
    <2>2. chares[p] = {}
      BY <1>3, <1>5, <2>1, SomeLeastLoaded DEF LinkInv, Family
    <2>3. \A f \in Elem : Created(f) => ~Beside(e, f)
      BY <2>2 DEF Created, Beside, HomeInv, Homely
    <2>4. ASSUME UNCHANGED parent, endpoint[0] \in {NoElem, endpoint'[0]}
          PROVE  Descend' /\ OneTop' /\ NoLocalCycle'
      <3>1. Descend'
        BY <2>4, HigherStays DEF HomeInv, Descend, Beside
      <3>2. OneTop'
        BY <1>2, <2>3, <2>4 DEF HomeInv, OneTop, Top, Beside
      <3>3. NoLocalCycle'
        BY <2>4 DEF HomeInv, NoLocalCycle, Beside
      <3> QED
        BY <3>1, <3>2, <3>3
    <2>5. ASSUME NEW q \in PE, net' = rest \cup {Downstream(e, q, p)},
                 UNCHANGED <<parent, endpoint>>, Higher(q, p)
          PROVE  HomeInv'
      <3>1. Climb'
        BY <2>5 DEF HomeInv, Climb, Higher, Downstream
      <3>2. Homely'
        BY <1>4, <2>5 DEF Downstream
      <3> QED
        BY <2>4, <2>5, <3>1, <3>2 DEF HomeInv
    <2>6. CASE p # 0
      <3>1. up(p) \in PE /\ up(p) < p
        BY <2>6, UpPE, NumPesAssumption DEF up, PE
      <3> QED
        BY <1>5, <2>5, <2>6, <3>1 DEF send_upstream, tree, Higher
    <2>7. CASE p = 0 /\ endpoint[p] # NoElem
      <3>1. /\ lookup(p, endpoint[p]) \in PE
            /\ lookup(p, endpoint[p]) = home_pe(endpoint[p])
        BY <2>7, LookupPE, LookupHome DEF LinkInv, Shape, HomeInv
      <3>2. Higher(lookup(p, endpoint[p]), p)
        BY <2>7, <3>1 DEF Higher
      <3> QED
        BY <1>5, <2>5, <2>7, <3>1, <3>2 DEF send_upstream, tree
    <2>8. CASE p = 0 /\ endpoint[p] = NoElem
      <3>1. register_endpoint(p, e, rest, (m - 1) + 1)
        BY <1>5, <2>8 DEF send_upstream
      <3>2. /\ UNCHANGED parent /\ endpoint[0] = NoElem
            /\ net' = rest \cup {Endpoint(e, q) : q \in leaves(p)}
        BY <2>8, <3>1 DEF register_endpoint
      <3>3. \A n \in net' : n.type \in {"ctor", "location", "downstream", "upstream"}
                => n \in net
        BY <3>2 DEF Endpoint
      <3>4. Climb'
        BY <3>2, <3>3, ClimbStays DEF HomeInv
      <3> QED
        BY <1>4, <2>4, <3>2, <3>3, <3>4 DEF HomeInv
    <2> QED
      BY <2>6, <2>7, <2>8
  <1>6. ASSUME NEW c \in LeastLoaded(local, e), put_child(c, e),
               put_parent(e, c), net' = rest, endpoint' = endpoint
        PROVE  HomeInv'
    <2>1. c \in chares[p] /\ c # e /\ c \in Elem /\ Beside(e, c)
      BY DEF LeastLoaded, LinkInv, Shape, HomeInv, Homely, Beside
    <2>2. parent'[e] = c /\ \A f \in Elem : f # e => parent'[f] = parent[f]
      BY <1>6 DEF put_parent, LinkInv, Family, TreeType
    <2>3. Homely' /\ Climb'
      BY <1>4, <1>6 DEF HomeInv, Climb, Higher
    <2>4. Descend'
      BY <1>6, <2>1, <2>2 DEF HomeInv, Descend, Higher, Beside
    <2>5. OneTop'
      <3>1. ~Top(e)'
        BY <2>1, <2>2, ElemAssumption DEF Top, NoElem, Beside
      <3>2. \A f \in Elem : f # e => (Top(f)' <=> Top(f))
        BY <2>2 DEF Top, Beside
      <3> QED
        BY <1>2, <3>1, <3>2 DEF HomeInv, OneTop, Beside
    <2>6. NoLocalCycle'
      <3> SUFFICES ASSUME NEW S \in (SUBSET Elem) \ {{}},
                          \A f \in S : parent'[f] \in S /\ Beside(f, parent'[f])
                   PROVE  FALSE
        BY DEF NoLocalCycle, Beside
      <3>1. \A f \in Elem : parent[f] # e
        BY <1>3 DEF Unknown, LinkInv, Family, Children
      <3>2. c \in S \/ e \notin S
        BY <2>2
      <3>3. S \ {e} \in (SUBSET Elem) \ {{}}
        BY <2>1, <3>2
      <3>4. \A f \in S \ {e} : parent[f] \in S \ {e} /\ Beside(f, parent[f])
        BY <2>2, <3>1
      <3> QED
        BY <3>3, <3>4 DEF HomeInv, NoLocalCycle
    <2> QED
      BY <2>3, <2>4, <2>5, <2>6 DEF HomeInv
  <1> QED
    BY <1>1, <1>5, <1>6 DEF Create

LEMMA HomeStep ==
    AllAtHome /\ LinkInv /\ HomeInv /\ [Next]_vars => HomeInv'
  <1> SUFFICES ASSUME AllAtHome, LinkInv, HomeInv, [Next]_vars
               PROVE  HomeInv'
    OBVIOUS
  <1>0. ASSUME UNCHANGED <<tables, chares, parent>>, endpoint' = endpoint,
               \A n \in net' : n.type \in {"ctor", "location", "downstream",
                                           "upstream"} => n \in net
        PROVE  HomeInv'
    <2>1. Climb'
      BY <1>0, ClimbStays DEF HomeInv
    <2> QED
      BY <1>0, <2>1, SameParents DEF tables, HomeInv, Homely
  <1>1. ASSUME NEW p \in PE, NEW e \in Elem, Insert(p, e)
        PROVE  HomeInv'
    <2> DEFINE to == IF InsertOn[e] = NoPe THEN home_pe(e) ELSE InsertOn[e]
    <2>1. net' = net \cup {Ctor(e, to)}
          /\ UNCHANGED <<tables, chares, tree, endpoint>>
      BY <1>1 DEF Insert
    <2>2. to = home_pe(e)
      BY <1>1 DEF Insert, AllAtHome
    <2> HIDE DEF to
    <2>3. Ctor(e, to).type = "ctor" /\ Ctor(e, to).idx = e /\ Ctor(e, to).to = to
      BY DEF Ctor
    <2>4. /\ \A n \in net' : n.type # "location"
          /\ \A n \in net' : n.type = "ctor" => n.to = home_pe(n.idx)
          /\ \A n \in net' : n.type \in {"downstream", "upstream"} => n \in net
      BY <2>1, <2>2, <2>3 DEF HomeInv, Homely
    <2>5. Climb'
      BY <2>1, <2>4, ClimbStays DEF HomeInv
    <2> QED
      BY <2>1, <2>4, <2>5, SameParents DEF tables, tree
  <1>2. ASSUME DoneInserting
        PROVE  HomeInv'
    BY <1>0, <1>2 DEF DoneInserting, Status, tree
  <1>3. ASSUME NEW p \in PE, SeedNext(p)
        PROVE  HomeInv'
    <2>1. PICK e \in Seeds(p) : Create(p, e, net, 1)
      BY <1>3 DEF SeedNext
    <2>2. e \in Elem /\ p = home_pe(e) /\ ~Created(e)
      BY DEF Seeds, LinkInv, CreatedOnce, Created
    <2> QED
      BY <2>1, <2>2, CreateHome DEF LinkInv, Shape
  <1>4. ASSUME NEW p \in PE, FinishConstruct(p)
        PROVE  HomeInv'
    BY <1>0, <1>4 DEF FinishConstruct, tree
  <1>5. ASSUME NEW n \in net, ReceiveCtor(n)
        PROVE  HomeInv'
    <2>1. Create(n.to, n.idx, net \ {n}, 0) /\ n.type = "ctor"
      BY <1>5 DEF ReceiveCtor, Handles
    <2>2. n.to \in PE /\ n.idx \in Elem /\ net \ {n} \in SUBSET Packet
      BY <2>1, PacketFields DEF LinkInv, Shape
    <2>3. n.to = home_pe(n.idx) /\ ~Created(n.idx)
      BY <2>1 DEF HomeInv, Homely, LinkInv, CreatedOnce
    <2>4. net \ {n} \subseteq net
      OBVIOUS
    <2> QED
      BY <2>1, <2>2, <2>3, <2>4, CreateHome
  <1>6. ASSUME NEW n \in net, ReceiveLocation(n)
        PROVE  HomeInv'
    BY <1>6 DEF ReceiveLocation, Handles, HomeInv, Homely
  <1>7. ASSUME NEW n \in net, ReceiveDownstream(n)
        PROVE  HomeInv'
    <2>1. /\ n.type = "downstream" /\ n.to \in PE /\ n.idx \in Elem
          /\ n.src \in PE /\ UNCHANGED <<locmap, routing_cache, chares>>
      BY <1>7, PacketFields DEF ReceiveDownstream, Handles, LinkInv, Shape, tables
    <2>2. Waiting(n.idx, n.src) /\ Higher(n.to, n.src)
      BY <2>1 DEF LinkInv, Family, Requests, HomeInv, Climb
    <2>3. ASSUME UNCHANGED parent, endpoint[0] \in {NoElem, endpoint'[0]}, Climb',
                 \A k \in net' : k.type \in {"ctor", "location"} => k \in net
          PROVE  HomeInv'
      BY <2>1, <2>3, SameParents DEF HomeInv, Homely
    <2>4. CASE /\ LeastLoaded(chares[n.to], n.idx) = {}
               /\ send_upstream(n.to, n.idx, n.src, net \ {n}, -1)
      <3>1. n.to < n.src
        <4> SUFFICES ASSUME endpoint[0] # NoElem, n.to = home_pe(endpoint[0])
                     PROVE  FALSE
          BY <2>2 DEF Higher
        <4>1. endpoint[0] \in Elem /\ endpoint[0] \in chares[n.to]
          BY PEs DEF LinkInv, Shape, Family, UnknownBefore, Unknown, Created,
             HomeInv, Homely
        <4>2. chares[n.to] \subseteq {n.idx}
          <5>1. chares[n.to] \in SUBSET Elem
            BY <2>1 DEF LinkInv, Shape
          <5> QED
            BY <2>4, <5>1, SomeLeastLoaded DEF LinkInv, Family
        <4> QED
          BY <2>2, <4>1, <4>2 DEF Waiting
      <3>2. ASSUME NEW q \in PE, UNCHANGED <<parent, endpoint>>,
                   net' = (net \ {n}) \cup {Downstream(n.idx, q, n.src)},
                   Higher(q, n.src)
            PROVE  HomeInv'
        <4>1. Climb'
          BY <3>2 DEF HomeInv, Climb, Higher, Downstream
        <4>2. \A k \in net' : k.type \in {"ctor", "location"} => k \in net
          BY <3>2 DEF Downstream
        <4> QED
          BY <2>3, <3>2, <4>1, <4>2
      <3>3. CASE n.to # 0
        <4>1. up(n.to) \in PE /\ up(n.to) < n.to
          BY <2>1, <3>3, UpPE, NumPesAssumption DEF up, PE
        <4>2. up(n.to) < n.src
          BY <2>1, <3>1, <4>1, NumPesAssumption DEF PE
        <4> QED
          BY <2>4, <3>2, <3>3, <4>1, <4>2 DEF send_upstream, tree, Higher
      <3>4. CASE n.to = 0 /\ endpoint[n.to] # NoElem
        <4>1. /\ lookup(n.to, endpoint[n.to]) \in PE
              /\ lookup(n.to, endpoint[n.to]) = home_pe(endpoint[n.to])
          BY <2>1, <3>4, LookupPE, LookupHome DEF LinkInv, Shape, HomeInv
        <4>2. Higher(lookup(n.to, endpoint[n.to]), n.src)
          BY <3>4, <4>1 DEF Higher
        <4> QED
          BY <2>4, <3>2, <3>4, <4>1, <4>2 DEF send_upstream, tree
      <3>5. CASE n.to = 0 /\ endpoint[n.to] = NoElem
        <4>1. register_endpoint(n.to, n.idx, net \ {n}, -1 + 1)
          BY <2>4, <3>5 DEF send_upstream
        <4>2. /\ UNCHANGED parent /\ endpoint[0] = NoElem
              /\ net' = (net \ {n}) \cup {Endpoint(n.idx, q) : q \in leaves(n.to)}
          BY <3>5, <4>1 DEF register_endpoint
        <4>3. \A k \in net' : k.type \in {"ctor", "location", "downstream",
                                          "upstream"} => k \in net
          BY <4>2 DEF Endpoint
        <4>4. Climb'
          BY <4>2, <4>3, ClimbStays DEF HomeInv
        <4> QED
          BY <2>3, <4>2, <4>3, <4>4
      <3> QED
        BY <3>3, <3>4, <3>5
    <2>5. ASSUME NEW c \in LeastLoaded(chares[n.to], n.idx),
                 net' = (net \ {n}) \cup {Upstream(c, n.src)},
                 UNCHANGED <<parent, endpoint>>
          PROVE  HomeInv'
      <3>1. home_pe(c) = n.to
        BY <2>1 DEF LeastLoaded, HomeInv, Homely
      <3>2. Climb'
        BY <2>2, <2>5, <3>1 DEF HomeInv, Climb, Higher, Upstream
      <3>3. \A k \in net' : k.type \in {"ctor", "location"} => k \in net
        BY <2>5 DEF Upstream
      <3> QED
        BY <2>3, <2>5, <3>2, <3>3
    <2> QED
      BY <1>7, <2>4, <2>5 DEF ReceiveDownstream
  <1>8. ASSUME NEW n \in net, ReceiveUpstream(n)
        PROVE  HomeInv'
    <2>1. PICK x \in Orphans(n.to, n.idx) : put_parent(x, n.idx)
      BY <1>8 DEF ReceiveUpstream
    <2> QED
      BY <1>8, <2>1, AnswerHome DEF ReceiveUpstream, Handles, tables
  <1>9. ASSUME NEW n \in net, ReceiveEndpoint(n)
        PROVE  HomeInv'
    <2>1. /\ n.type = "endpoint" /\ endpoint[n.to] = NoElem
          /\ register_endpoint(n.to, n.idx, net \ {n}, 0)
          /\ UNCHANGED <<locmap, routing_cache, chares>>
      BY <1>9 DEF ReceiveEndpoint, Handles, EndpointExpected, tables
    <2>2. n.to \in PE /\ n.to # 0
      BY <2>1, PacketFields, ElemAssumption DEF LinkInv, Shape, OneEndpoint, NoElem
    <2>3. /\ endpoint'[0] = endpoint[0] /\ UNCHANGED parent
          /\ net' = (net \ {n}) \cup {Endpoint(n.idx, q) : q \in leaves(n.to)}
      BY <2>1, <2>2, PEs DEF register_endpoint, LinkInv, Shape
    <2>4. \A k \in net' : k.type \in {"ctor", "location", "downstream",
                                      "upstream"} => k \in net
      BY <2>3 DEF Endpoint
    <2>5. Climb'
      BY <2>3, <2>4, ClimbStays DEF HomeInv
    <2> QED
      BY <2>1, <2>3, <2>4, <2>5, SameParents DEF HomeInv, Homely
  <1>10. ASSUME NEW n \in net, ReceiveStatus(n)
         PROVE  HomeInv'
    BY <1>0, <1>10 DEF ReceiveStatus, tree
  <1>11. CASE ReceiveResult
    BY <1>0, <1>11 DEF ReceiveResult, tree
  <1>12. ASSUME NEW n \in counts, ReceiveCount(n)
         PROVE  HomeInv'
    <2>1. \A k \in net' \ net : k.type = "complete"
      BY <1>12 DEF ReceiveCount, Complete
    <2> QED
      BY <1>0, <1>12, <2>1 DEF ReceiveCount, tree
  <1>13. ASSUME NEW n \in net, ReceiveComplete(n)
         PROVE  HomeInv'
    BY <1>0, <1>13 DEF ReceiveComplete, tree
  <1>14. CASE UNCHANGED vars
    BY <1>0, <1>14 DEF vars, tree
  <1> QED
    BY <1>1, <1>2, <1>3, <1>4, <1>5, <1>6, <1>7, <1>8, <1>9, <1>10, <1>11,
       <1>12, <1>13, <1>14 DEF Next

(* When every element is created at home, as insert() without a PE and the *)
(* constructor of a collection do, no element ever becomes its own         *)
(* ancestor, however the requests for parents cross each other.            *)
THEOREM NoElementAboveItself ==
    ASSUME AllAtHome
    PROVE  Spec => []NoCycle
  <1>1. Init => LinkInv /\ HomeInv
    BY EndpointInit, LinkInit, HomeInit DEF LinkInv
  <1>2. LinkInv /\ HomeInv /\ [Next]_vars => LinkInv' /\ HomeInv'
    BY EndpointStep, LinkStep, HomeStep DEF LinkInv
  <1> QED
    BY <1>1, <1>2, NoneAtAll, PTL DEF Spec
-----------------------------------------------------------------------------
(* The counters of the completion detector *)

(* What the detector accounts for in a set of packets *)
Events(S) ==
    {n \in S : n.type \in {"ctor", "downstream", "upstream", "endpoint"}}

Balanced == SumOver(lcount, PE) = Cardinality(Events(net))

(* After the root has called back, the phase is over or PEs will be told *)
Fired ==
    \A n \in counts : n.gcount = 0 /\ n.to # 0 =>
        \/ \E k \in net : k.type = "complete"
        \/ \E p \in PE : ~is_inserting[p]

OtherTypes ==
    /\ DetectorTypeOK
    /\ constructed \subseteq PE
    /\ is_inserting \in [PE -> BOOLEAN]
    /\ inserted \subseteq Elem
    /\ concluded \in BOOLEAN

MatchInv ==
    /\ OtherTypes
    /\ IsFiniteSet(Events(net))
    /\ Fired
    /\ ~Decided => Balanced

LEMMA FinitePEs == IsFiniteSet(PE)
  BY NumPesAssumption, FS_Interval DEF PE

LEMMA SumOfCuts ==
    MapThenSumSet(LAMBDA p : cut[p], PE) = SumOver(cut, PE)
  BY DEF SumOver, MapThenSumSet, MapThenFoldSet

LEMMA MatchMeans == MatchInv => CountsMatch
  <1>1. MapThenSumSet(LAMBDA p : lcount[p], PE) = SumOver(lcount, PE)
    BY DEF SumOver, MapThenSumSet, MapThenFoldSet
  <1>2. Counted = Events(net)
    BY DEF Counted, Events
  <1> QED
    BY <1>1, <1>2 DEF MatchInv, CountsMatch, Balanced

LEMMA MatchInit == Init => MatchInv
  <1> SUFFICES ASSUME Init
               PROVE  MatchInv
    OBVIOUS
  <1>1. OtherTypes
    BY InsertionAssumption DEF Init, DetectorInit, OtherTypes, DetectorTypeOK
  <1>2. Events(net) = {}
    BY DEF Init, Events
  <1>3. IsFiniteSet(Events(net)) /\ Cardinality(Events(net)) = 0
    BY <1>2, FS_EmptySet
  <1>4. SumOver(lcount, PE) = 0
    BY FinitePEs, SumOverZero DEF Init, DetectorInit
  <1> QED
    BY <1>1, <1>3, <1>4 DEF MatchInv, Fired, Init, DetectorInit, Balanced

(* The count of one PE and the packets in flight change by the same number *)
LEMMA ProduceBalances ==
    ASSUME DetectorTypeOK, Balanced, NEW p \in PE, NEW k \in Int, produce(p, k),
           IsFiniteSet(Events(net)),
           Cardinality(Events(net')) = Cardinality(Events(net)) + k
    PROVE  Balanced'
  <1>1. /\ \A q \in PE : lcount[q] \in Int
        /\ lcount'[p] = lcount[p] + k
        /\ \A q \in PE \ {p} : lcount'[q] = lcount[q]
    BY DEF DetectorTypeOK, produce
  <1>2. lcount'[p] \in Int
    BY <1>1
  <1>3. SumOver(lcount', PE) = SumOver(lcount, PE) + (lcount'[p] - lcount[p])
    <2> DEFINE now == lcount'
    <2>1. now[p] \in Int /\ \A q \in PE \ {p} : now[q] = lcount[q]
      BY <1>1, <1>2
    <2> HIDE DEF now
    <2>2. SumOver(now, PE) = SumOver(lcount, PE) + (now[p] - lcount[p])
      BY <1>1, <2>1, FinitePEs, SumOverChange
    <2> QED
      BY <2>2 DEF now
  <1>4. Cardinality(Events(net)) \in Nat
    BY FS_CardinalityType
  <1>5. lcount'[p] - lcount[p] = k
    BY <1>1
  <1> QED
    BY <1>3, <1>4, <1>5 DEF Balanced

LEMMA ProduceType ==
    ASSUME DetectorTypeOK, NEW p \in PE, NEW k \in Int, produce(p, k)
    PROVE  DetectorTypeOK'
  BY DEF DetectorTypeOK, produce

(* Of the packets a handler sends, the PE counts k, and n besides *)
Adds(p, rest, n) ==
    /\ IsFiniteSet(Events(net'))
    /\ \E k \in Nat : /\ Cardinality(Events(net')) = Cardinality(Events(rest)) + k
                      /\ produce(p, n + k)

LEMMA OneMore ==
    ASSUME NEW S, IsFiniteSet(Events(S)), NEW m, m \notin S,
           m.type \in {"ctor", "downstream", "upstream", "endpoint"}
    PROVE  /\ IsFiniteSet(Events(S \cup {m}))
           /\ Cardinality(Events(S \cup {m})) = Cardinality(Events(S)) + 1
  <1>1. Events(S \cup {m}) = Events(S) \cup {m} /\ m \notin Events(S)
    BY DEF Events
  <1> HIDE DEF Events
  <1> QED
    BY <1>1, FS_AddElement

LEMMA OneLess ==
    ASSUME NEW S, IsFiniteSet(Events(S)), NEW m \in S
    PROVE  /\ IsFiniteSet(Events(S \ {m}))
           /\ m.type \in {"ctor", "downstream", "upstream", "endpoint"} =>
                 Cardinality(Events(S \ {m})) = Cardinality(Events(S)) - 1
           /\ m.type \notin {"ctor", "downstream", "upstream", "endpoint"} =>
                 Events(S \ {m}) = Events(S)
  <1>1. Events(S \ {m}) = Events(S) \ {m}
    BY DEF Events
  <1>2. m.type \in {"ctor", "downstream", "upstream", "endpoint"}
            <=> m \in Events(S)
    BY DEF Events
  <1>3. m \notin Events(S) => Events(S) \ {m} = Events(S)
    OBVIOUS
  <1> HIDE DEF Events
  <1> QED
    BY <1>1, <1>2, <1>3, FS_RemoveElement

(* The news of the endpoint goes to each leaf once *)
LEMMA EndpointsSent ==
    ASSUME NEW p \in PE, NEW e \in Elem, NEW S, IsFiniteSet(Events(S)),
           \A m \in S : m.type = "endpoint" => m.to \notin leaves(p)
    PROVE  /\ IsFiniteSet(Events(S \cup {Endpoint(e, q) : q \in leaves(p)}))
           /\ Cardinality(leaves(p)) \in Nat
           /\ Cardinality(Events(S \cup {Endpoint(e, q) : q \in leaves(p)}))
                  = Cardinality(Events(S)) + Cardinality(leaves(p))
  <1> DEFINE N == {Endpoint(e, q) : q \in leaves(p)}
             f == [q \in leaves(p) |-> Endpoint(e, q)]
  <1>1. IsFiniteSet(leaves(p)) /\ Cardinality(leaves(p)) \in Nat
    <2>1. leaves(p) \in SUBSET PE
      BY DEF leaves
    <2> QED
      BY <2>1, FinitePEs, FS_Subset, FS_CardinalityType
  <1>2. f \in Bijection(leaves(p), N)
    <2>1. \A q, r \in leaves(p) : Endpoint(e, q) = Endpoint(e, r) => q = r
      BY DEF Endpoint
    <2>2. f \in [leaves(p) -> N] /\ \A m \in N : \E q \in leaves(p) : f[q] = m
      OBVIOUS
    <2>3. \A q, r \in leaves(p) : f[q] = f[r] => q = r
      BY <2>1
    <2> QED
      BY <2>2, <2>3 DEF Bijection, Injection, Surjection, IsInjective
  <1>3. IsFiniteSet(N) /\ Cardinality(N) = Cardinality(leaves(p))
    BY <1>1, <1>2, FS_Bijection DEF ExistsBijection
  <1>4. Events(S \cup N) = Events(S) \cup N
    BY DEF Events, Endpoint
  <1>5. Events(S) \cap N = {}
    BY DEF Events, Endpoint
  <1> HIDE DEF N, f
  <1>6. /\ IsFiniteSet(Events(S) \cup N)
        /\ Cardinality(Events(S) \cup N)
               = Cardinality(Events(S)) + Cardinality(N) - Cardinality({})
    BY <1>3, <1>5, FS_Union
  <1>7. Cardinality({}) = 0 /\ Cardinality(Events(S)) \in Nat
    BY FS_EmptySet, FS_CardinalityType
  <1>8. /\ IsFiniteSet(Events(S \cup N))
        /\ Cardinality(Events(S \cup N))
               = Cardinality(Events(S)) + Cardinality(leaves(p))
    <2>1. Cardinality(Events(S)) + Cardinality(N) - Cardinality({})
              = Cardinality(Events(S)) + Cardinality(leaves(p))
      BY <1>1, <1>3, <1>7
    <2> QED
      BY <1>4, <1>6, <2>1
  <1> QED
    BY <1>1, <1>8 DEF N

LEMMA RegisterAdds ==
    ASSUME NEW p \in PE, NEW e \in Elem, NEW rest, NEW n \in Int,
           IsFiniteSet(Events(rest)), register_endpoint(p, e, rest, n + 1),
           \A m \in rest : m.type = "endpoint" => m.to \notin leaves(p)
    PROVE  Adds(p, rest, n)
  <1>1. /\ net' = rest \cup {Endpoint(e, q) : q \in leaves(p)}
        /\ produce(p, (n + 1) + Cardinality(leaves(p)) - 1)
    BY DEF register_endpoint
  <1>2. Cardinality(leaves(p)) \in Nat
    BY EndpointsSent
  <1>3. (n + 1) + Cardinality(leaves(p)) - 1 = n + Cardinality(leaves(p))
    BY <1>2
  <1>4. produce(p, n + Cardinality(leaves(p)))
    BY <1>1, <1>3
  <1>5. /\ IsFiniteSet(Events(net'))
        /\ Cardinality(Events(net'))
               = Cardinality(Events(rest)) + Cardinality(leaves(p))
    BY <1>1, EndpointsSent
  <1> QED
    BY <1>2, <1>4, <1>5 DEF Adds

(* No leaf of a PE without an endpoint is told one *)
LEMMA LeavesUntold ==
    ASSUME Shape, OneEndpoint, NEW p \in PE, endpoint[p] = NoElem,
           NEW m \in net, m.type = "endpoint"
    PROVE  m.to \notin leaves(p)
  <1>1. m.to \in PE /\ Told(m.to)
    BY PacketFields DEF Shape, Told
  <1> QED
    BY <1>1, UpOfLeaf DEF OneEndpoint

LEMMA SendUpstreamAdds ==
    ASSUME Shape, OneEndpoint, NEW p \in PE, NEW e \in Elem, NEW src \in PE,
           NEW rest, IsFiniteSet(Events(rest)), NEW n \in Int,
           send_upstream(p, e, src, rest, n),
           \A m \in rest : m.type = "downstream" => m.idx # e,
           \A m \in rest : m.type = "endpoint" => m \in net
    PROVE  Adds(p, rest, n)
  <1>1. ASSUME NEW q, net' = rest \cup {Downstream(e, q, src)}, produce(p, n + 1)
        PROVE  Adds(p, rest, n)
    <2>1. Downstream(e, q, src) \notin rest
          /\ Downstream(e, q, src).type = "downstream"
      BY DEF Downstream
    <2>2. /\ IsFiniteSet(Events(net'))
          /\ Cardinality(Events(net')) = Cardinality(Events(rest)) + 1
      BY <1>1, <2>1, OneMore
    <2> QED
      BY <1>1, <2>2 DEF Adds
  <1>2. CASE p = 0 /\ endpoint[p] = NoElem
    <2>1. register_endpoint(p, e, rest, n + 1)
      BY <1>2 DEF send_upstream
    <2>2. \A m \in rest : m.type = "endpoint" => m.to \notin leaves(p)
      BY <1>2, LeavesUntold
    <2> QED
      BY <2>1, <2>2, RegisterAdds
  <1>3. CASE ~(p = 0 /\ endpoint[p] = NoElem)
    BY <1>1, <1>3 DEF send_upstream
  <1> QED
    BY <1>2, <1>3

LEMMA CreateAdds ==
    ASSUME Shape, OneEndpoint, Family, NEW p \in PE, NEW e \in Elem, ~Created(e),
           NEW rest \in SUBSET net, IsFiniteSet(Events(rest)), NEW n \in Int,
           Create(p, e, rest, n)
    PROVE  Adds(p, rest, n - 1)
  <1> DEFINE sent == rest \cup InformHome(p, e)
  <1>1. Events(sent) = Events(rest)
    BY DEF Events, InformHome, Location
  <1>2. /\ \A m \in sent : m.type = "downstream" => m \in net /\ m.idx # e
        /\ \A m \in sent : m.type = "endpoint" => m \in net
    BY DEF InformHome, Location, Family, UnknownBefore, Unknown
  <1>3. CASE send_upstream(p, e, p, sent, n - 1)
    <2> HIDE DEF sent
    <2>1. Adds(p, sent, n - 1)
      BY <1>1, <1>2, <1>3, SendUpstreamAdds
    <2> QED
      BY <1>1, <2>1 DEF Adds
  <1>4. CASE net' = sent /\ produce(p, n - 1)
    <2>1. (n - 1) + 0 = n - 1
      OBVIOUS
    <2>2. Cardinality(Events(rest)) + 0 = Cardinality(Events(rest))
      BY FS_CardinalityType
    <2>3. Cardinality(Events(net')) = Cardinality(Events(rest)) + 0
      BY <1>1, <1>4, <2>2
    <2>4. produce(p, (n - 1) + 0)
      BY <1>4, <2>1
    <2>5. IsFiniteSet(Events(net'))
      BY <1>1, <1>4
    <2> QED
      BY <2>3, <2>4, <2>5 DEF Adds
  <1> QED
    BY <1>3, <1>4 DEF Create

(* A handler that counts what it sends and what it has handled *)
LEMMA AddsMatch ==
    ASSUME MatchInv, NEW p \in PE, NEW rest, NEW n \in Int, Adds(p, rest, n),
           Cardinality(Events(rest)) = Cardinality(Events(net)) + n,
           UNCHANGED <<constructed, is_inserting, concluded>>,
           inserted' \subseteq Elem,
           \A k \in net : k.type = "complete" => k \in net'
    PROVE  MatchInv'
  <1>1. PICK k \in Nat : /\ Cardinality(Events(net')) = Cardinality(Events(rest)) + k
                         /\ produce(p, n + k)
    BY DEF Adds
  <1>2. n + k \in Int /\ Cardinality(Events(net)) \in Nat
    BY FS_CardinalityType DEF MatchInv
  <1>3. Cardinality(Events(net')) = Cardinality(Events(net)) + (n + k)
    BY <1>1, <1>2
  <1>4. DetectorTypeOK' /\ counts' = counts
    BY <1>1, <1>2, ProduceType DEF MatchInv, OtherTypes, produce
  <1>5. Decided => Decided'
    BY <1>4 DEF Decided
  <1>6. Balanced => Balanced'
    BY <1>1, <1>2, <1>3, ProduceBalances DEF MatchInv, OtherTypes
  <1>7. Fired'
    BY <1>4 DEF MatchInv, Fired
  <1>8. IsFiniteSet(Events(net'))
    BY DEF Adds
  <1> QED
    BY <1>4, <1>5, <1>6, <1>7, <1>8 DEF MatchInv, OtherTypes

(* A step that neither counts nor sends what is counted *)
LEMMA QuietMatch ==
    ASSUME MatchInv, OtherTypes', Fired', lcount' = lcount,
           Events(net') = Events(net), Decided => Decided'
    PROVE  MatchInv'
  BY DEF MatchInv, Balanced

(* The request of n is granted by c: nobody has been told that before *)
LEMMA AnswerIsNew ==
    ASSUME LinkInv, NEW n \in net, n.type = "downstream", NEW c
    PROVE  Upstream(c, n.src) \notin net
  <1> SUFFICES ASSUME Upstream(c, n.src) \in net
               PROVE  FALSE
    OBVIOUS
  <1>1. Upstream(c, n.src).type = "upstream" /\ Upstream(c, n.src).idx = c
        /\ Upstream(c, n.src).to = n.src
    BY DEF Upstream
  <1>2. c \in Elem /\ n.src \in PE /\ n.idx \in Elem
    BY <1>1, PacketFields DEF LinkInv, Shape
  <1>3. PICK e \in children[c] : Waiting(e, n.src)
    BY <1>1 DEF LinkInv, Family, Answers
  <1>4. Waiting(n.idx, n.src) /\ n.idx \notin children[c]
    BY <1>2 DEF LinkInv, Family, Requests
  <1>5. e = n.idx
    BY <1>2, <1>3, <1>4 DEF LinkInv, Family, OneOrphan, Waiting
  <1> QED
    BY <1>3, <1>4, <1>5

(* The sum of a wave comes down the tree *)
LEMMA CountMatch ==
    ASSUME MatchInv, NEW n \in counts, ReceiveCount(n)
    PROVE  MatchInv'
  <1> DEFINE copies == {Count(q, n.gcount) : q \in span_tree_children(n.to)}
  <1>1. /\ counts' = (counts \ {n}) \cup copies
        /\ net' = IF Fires(n) THEN net \cup {Complete(q) : q \in PE} ELSE net
        /\ UNCHANGED <<is_inserting, constructed, inserted, concluded>>
    BY DEF ReceiveCount, receive_count, phase
  <1>2. n.to \in PE /\ n.gcount \in Int
    BY DEF MatchInv, OtherTypes, DetectorTypeOK
  <1>3. \A m \in copies : m.to \in PE /\ m.gcount = n.gcount
    BY DEF Count, span_tree_children
  <1>4. OtherTypes'
    <2>1. \A m \in counts' : m.to \in PE /\ m.gcount \in Int
      BY <1>1, <1>2, <1>3 DEF MatchInv, OtherTypes, DetectorTypeOK
    <2>2. /\ lcount' \in [PE -> Int] /\ contributed' \subseteq PE
          /\ cut' \in [PE -> Int]
      BY <1>2 DEF ReceiveCount, receive_count, contribute, MatchInv, OtherTypes,
                  DetectorTypeOK
    <2> QED
      BY <1>1, <2>1, <2>2 DEF MatchInv, OtherTypes, DetectorTypeOK
  <1>5. Events(net') = Events(net) /\ \A k \in net : k \in net'
    BY <1>1 DEF Events, Complete
  <1>6. n.gcount = 0 => \/ \E k \in net' : k.type = "complete"
                        \/ \E p \in PE : ~is_inserting'[p]
    <2>1. CASE n.gcount = 0 /\ n.to = 0
      <3>1. Complete(0) \in net' /\ Complete(0).type = "complete"
        BY <1>1, <2>1, PEs DEF Fires, IsComplete, Complete
      <3> QED
        BY <3>1
    <2>2. CASE n.gcount = 0 /\ n.to # 0
      BY <1>1, <1>5, <2>2 DEF MatchInv, Fired
    <2> QED
      BY <2>1, <2>2
  <1> HIDE DEF copies
  <1>7. Fired'
    <2> SUFFICES ASSUME NEW m \in counts', m.gcount = 0, m.to # 0
                 PROVE  \/ \E k \in net' : k.type = "complete"
                        \/ \E p \in PE : ~is_inserting'[p]
      BY DEF Fired
    <2>1. CASE m \in counts
      BY <1>1, <1>5, <2>1 DEF MatchInv, Fired
    <2>2. CASE m \in copies
      BY <1>3, <1>6, <2>2
    <2> QED
      BY <1>1, <2>1, <2>2
  <1>8. CASE n.gcount = 0
    <2>1. Decided'
      BY <1>6, <1>8 DEF Decided
    <2> QED
      BY <1>4, <1>5, <1>7, <2>1 DEF MatchInv
  <1>9. CASE n.gcount # 0
    <2>1. lcount' = lcount
      BY <1>9 DEF ReceiveCount, receive_count, IsComplete
    <2>2. Decided => Decided'
      BY <1>1, <1>5, <1>9 DEF Decided
    <2> QED
      BY <1>4, <1>5, <1>7, <2>1, <2>2, QuietMatch
  <1> QED
    BY <1>8, <1>9

LEMMA MatchStep ==
    LinkInv /\ MatchInv /\ [Next]_vars => MatchInv'
  <1> SUFFICES ASSUME LinkInv, MatchInv, [Next]_vars
               PROVE  MatchInv'
    OBVIOUS
  <1>a. /\ Shape /\ OneEndpoint /\ CreatedOnce /\ Family
        /\ net \subseteq Packet
        /\ IsFiniteSet(Events(net)) /\ OtherTypes
        /\ inserted \subseteq Elem
    BY DEF LinkInv, Shape, MatchInv, OtherTypes
  <1>b. Cardinality(Events(net)) \in Nat
    BY <1>a, FS_CardinalityType
  (* Steps that touch no counter *)
  <1>0. ASSUME UNCHANGED <<detector, is_inserting>>, Events(net') = Events(net),
               constructed' \subseteq PE, inserted' \subseteq Elem,
               concluded' \in BOOLEAN,
               \A k \in net : k.type = "complete" => k \in net'
        PROVE  MatchInv'
    BY <1>0, QuietMatch DEF MatchInv, OtherTypes, DetectorTypeOK, detector, Fired,
                            Decided
  <1>1. ASSUME NEW p \in PE, NEW e \in Elem, Insert(p, e)
        PROVE  MatchInv'
    <2> DEFINE to == IF InsertOn[e] = NoPe THEN home_pe(e) ELSE InsertOn[e]
    <2>1. net' = net \cup {Ctor(e, to)} /\ produce(p, 1) /\ e \notin inserted
          /\ inserted' = inserted \cup {e}
          /\ UNCHANGED <<constructed, is_inserting, concluded>>
      BY <1>1 DEF Insert
    <2>2. Ctor(e, to) \notin net /\ Ctor(e, to).type = "ctor"
      BY <1>a, <2>1 DEF Ctor, CreatedOnce
    <2> HIDE DEF to
    <2>3. /\ IsFiniteSet(Events(net'))
          /\ Cardinality(Events(net')) = Cardinality(Events(net)) + 1
      BY <1>a, <2>1, <2>2, OneMore
    <2>4. Adds(p, net, 0)
      <3>1. 0 + 1 = 1 /\ 1 \in Nat
        OBVIOUS
      <3>2. produce(p, 0 + 1)
        BY <2>1, <3>1
      <3> QED
        BY <2>3, <3>1, <3>2 DEF Adds
    <2>5. Cardinality(Events(net)) = Cardinality(Events(net)) + 0
      BY <1>b
    <2>6. 0 \in Int /\ inserted' \subseteq Elem
      BY <1>a, <2>1
    <2> QED
      BY <2>1, <2>4, <2>5, <2>6, AddsMatch
  <1>2. ASSUME DoneInserting
        PROVE  MatchInv'
    <2>1. Events(net') = Events(net)
      BY <1>2 DEF DoneInserting, Events, Status
    <2> QED
      BY <1>0, <1>2, <1>a, <2>1 DEF DoneInserting, OtherTypes
  <1>3. ASSUME NEW p \in PE, SeedNext(p)
        PROVE  MatchInv'
    <2>1. PICK e \in Seeds(p) :
              inserted' = inserted \cup {e} /\ Create(p, e, net, 1)
      BY <1>3 DEF SeedNext
    <2>2. e \in Elem /\ ~Created(e) /\ inserted' \subseteq Elem
      BY <1>a, <2>1 DEF Seeds, CreatedOnce, Created
    <2>3. Adds(p, net, 1 - 1)
      BY <1>a, <2>1, <2>2, CreateAdds
    <2>4. 1 - 1 \in Int /\ Cardinality(Events(net)) = Cardinality(Events(net)) + (1 - 1)
      BY <1>b
    <2>5. UNCHANGED <<constructed, is_inserting, concluded>>
      BY <1>3, <2>1 DEF SeedNext, Create
    <2>6. \A k \in net : k \in net'
      BY <2>1 DEF Create, send_upstream, register_endpoint
    <2> QED
      BY <2>2, <2>3, <2>4, <2>5, <2>6, AddsMatch
  <1>4. ASSUME NEW p \in PE, FinishConstruct(p)
        PROVE  MatchInv'
    <2>1. /\ contribute(p) /\ UNCHANGED <<lcount, counts, net, is_inserting,
                                          inserted, concluded>>
          /\ constructed' = constructed \cup {p}
      BY <1>4 DEF FinishConstruct, start_detection
    <2>2. OtherTypes'
      BY <1>a, <2>1 DEF OtherTypes, DetectorTypeOK, contribute
    <2> QED
      BY <2>1, <2>2, QuietMatch DEF MatchInv, Fired, Decided
  <1>5. ASSUME NEW n \in net, ReceiveCtor(n)
        PROVE  MatchInv'
    <2>1. Create(n.to, n.idx, net \ {n}, 0) /\ n.type = "ctor"
          /\ UNCHANGED <<constructed, inserted, concluded, is_inserting>>
      BY <1>5 DEF ReceiveCtor, Handles, phase, Create
    <2>2. n.to \in PE /\ n.idx \in Elem /\ ~Created(n.idx)
      BY <1>a, <2>1, PacketFields DEF CreatedOnce
    <2>3. /\ IsFiniteSet(Events(net \ {n}))
          /\ Cardinality(Events(net \ {n})) = Cardinality(Events(net)) - 1
      BY <1>a, <2>1, OneLess
    <2>4. Adds(n.to, net \ {n}, 0 - 1)
      BY <1>a, <2>1, <2>2, <2>3, CreateAdds
    <2>5. /\ 0 - 1 \in Int
          /\ Cardinality(Events(net \ {n})) = Cardinality(Events(net)) + (0 - 1)
      BY <1>b, <2>3
    <2>6. \A k \in net : k.type = "complete" => k \in net'
      BY <2>1 DEF Create, send_upstream, register_endpoint
    <2> QED
      BY <1>a, <2>1, <2>2, <2>4, <2>5, <2>6, AddsMatch
  <1>6. ASSUME NEW n \in net, ReceiveLocation(n)
        PROVE  MatchInv'
    <2>1. n.type = "location" /\ net' = net \ {n}
      BY <1>6 DEF ReceiveLocation, Handles
    <2>2. Events(net') = Events(net)
      BY <1>a, <2>1, OneLess
    <2> QED
      BY <1>0, <1>6, <1>a, <2>1, <2>2 DEF ReceiveLocation, phase, OtherTypes
  <1>7. ASSUME NEW n \in net, ReceiveDownstream(n)
        PROVE  MatchInv'
    <2>1. /\ n.type = "downstream" /\ n.to \in PE /\ n.idx \in Elem
          /\ n.src \in PE /\ UNCHANGED <<phase, is_inserting>>
      BY <1>7, <1>a, PacketFields DEF ReceiveDownstream, Handles
    <2>2. /\ IsFiniteSet(Events(net \ {n}))
          /\ Cardinality(Events(net \ {n})) = Cardinality(Events(net)) - 1
      BY <1>a, <2>1, OneLess
    <2>3. CASE send_upstream(n.to, n.idx, n.src, net \ {n}, -1)
      <3>1. \A m \in net \ {n} : m.type = "downstream" => m.idx # n.idx
        BY <1>a, <2>1 DEF Family, Requests
      <3>2. Adds(n.to, net \ {n}, -1)
        BY <1>a, <2>1, <2>2, <2>3, <3>1, SendUpstreamAdds
      <3>3. \A k \in net : k.type = "complete" => k \in net'
        BY <2>1, <2>3 DEF send_upstream, register_endpoint
      <3>4. /\ -1 \in Int
            /\ Cardinality(Events(net \ {n})) = Cardinality(Events(net)) + (-1)
        BY <1>b, <2>2
      <3> QED
        BY <1>a, <2>1, <3>2, <3>3, <3>4, AddsMatch DEF phase
    <2>4. ASSUME NEW c, net' = (net \ {n}) \cup {Upstream(c, n.src)},
                 UNCHANGED detector
          PROVE  MatchInv'
      <3>1. Upstream(c, n.src) \notin net \ {n}
            /\ Upstream(c, n.src).type = "upstream"
        BY <2>1, AnswerIsNew DEF Upstream
      <3>2. /\ IsFiniteSet(Events(net'))
            /\ Cardinality(Events(net')) = Cardinality(Events(net \ {n})) + 1
        BY <2>2, <2>4, <3>1, OneMore
      <3>3. Cardinality(Events(net')) = Cardinality(Events(net))
        BY <1>b, <2>2, <3>2
      <3>4. OtherTypes' /\ (Balanced => Balanced')
        BY <1>a, <2>1, <2>4, <3>3
           DEF OtherTypes, DetectorTypeOK, detector, phase, Balanced
      <3>5. \A k \in net : k.type = "complete" => k \in net'
        BY <2>1, <2>4
      <3>6. Fired' /\ (Decided => Decided')
        BY <2>1, <2>4, <3>5 DEF MatchInv, Fired, Decided, detector
      <3> QED
        BY <3>2, <3>4, <3>6 DEF MatchInv
    <2> QED
      BY <1>7, <2>3, <2>4 DEF ReceiveDownstream
  <1>8. ASSUME NEW n \in net, ReceiveUpstream(n)
        PROVE  MatchInv'
    <2>1. /\ n.type = "upstream" /\ n.to \in PE /\ net' = net \ {n}
          /\ produce(n.to, -1) /\ UNCHANGED <<phase, is_inserting>>
      BY <1>8, <1>a, PacketFields DEF ReceiveUpstream, Handles
    <2>2. /\ IsFiniteSet(Events(net \ {n}))
          /\ Cardinality(Events(net \ {n})) = Cardinality(Events(net)) - 1
      BY <1>a, <2>1, OneLess
    <2>3. Adds(n.to, net \ {n}, -1)
      <3>1. -1 + 0 = -1 /\ 0 \in Nat
        OBVIOUS
      <3>2. produce(n.to, -1 + 0)
        BY <2>1, <3>1
      <3>3. Cardinality(Events(net')) = Cardinality(Events(net \ {n})) + 0
        BY <1>b, <2>1, <2>2
      <3> QED
        BY <2>1, <2>2, <3>1, <3>2, <3>3 DEF Adds
    <2>4. /\ -1 \in Int
          /\ Cardinality(Events(net \ {n})) = Cardinality(Events(net)) + (-1)
      BY <1>b, <2>2
    <2> QED
      BY <1>a, <2>1, <2>3, <2>4, AddsMatch DEF phase
  <1>9. ASSUME NEW n \in net, ReceiveEndpoint(n)
        PROVE  MatchInv'
    <2>1. /\ n.type = "endpoint" /\ n.to \in PE /\ n.idx \in Elem
          /\ endpoint[n.to] = NoElem
          /\ register_endpoint(n.to, n.idx, net \ {n}, 0)
          /\ UNCHANGED <<phase, is_inserting>>
      BY <1>9, <1>a, PacketFields DEF ReceiveEndpoint, Handles, EndpointExpected
    <2>2. /\ IsFiniteSet(Events(net \ {n}))
          /\ Cardinality(Events(net \ {n})) = Cardinality(Events(net)) - 1
      BY <1>a, <2>1, OneLess
    <2>3. \A m \in net \ {n} : m.type = "endpoint" => m.to \notin leaves(n.to)
      BY <1>a, <2>1, LeavesUntold
    <2>4. -1 \in Int /\ -1 + 1 = 0
      OBVIOUS
    <2>5. register_endpoint(n.to, n.idx, net \ {n}, -1 + 1)
      BY <2>1, <2>4
    <2>6. Adds(n.to, net \ {n}, -1)
      BY <2>1, <2>2, <2>3, <2>4, <2>5, RegisterAdds
    <2>7. Cardinality(Events(net \ {n})) = Cardinality(Events(net)) + (-1)
      BY <1>b, <2>2
    <2>8. \A k \in net : k.type = "complete" => k \in net'
      BY <2>1 DEF register_endpoint
    <2> QED
      BY <1>a, <2>1, <2>4, <2>6, <2>7, <2>8, AddsMatch DEF phase
  <1>10. ASSUME NEW n \in net, ReceiveStatus(n)
         PROVE  MatchInv'
    <2>1. /\ n.type = "status" /\ n.to \in PE /\ net' = net \ {n}
          /\ contribute(n.to)
          /\ UNCHANGED <<lcount, counts, phase, is_inserting>>
      BY <1>10, <1>a, PacketFields DEF ReceiveStatus, Handles, start_detection
    <2>2. Events(net') = Events(net)
      BY <1>a, <2>1, OneLess
    <2>3. OtherTypes'
      BY <1>a, <2>1 DEF OtherTypes, DetectorTypeOK, contribute, phase
    <2>4. \A k \in net : k.type = "complete" => k \in net'
      BY <2>1
    <2>5. Fired' /\ (Decided => Decided')
      BY <2>1, <2>4 DEF MatchInv, Fired, Decided
    <2> QED
      BY <2>1, <2>2, <2>3, <2>5, QuietMatch
  <1>11. CASE ReceiveResult
    <2>1. /\ contributed' = {} /\ UNCHANGED <<lcount, cut, phase, is_inserting, net>>
          /\ counts' = counts \cup {Count(0, SumOver(cut, PE))}
      BY <1>11, SumOfCuts DEF ReceiveResult, SendResult
    <2>2. SumOver(cut, PE) \in Int
      BY <1>a, FinitePEs, SumOverType DEF OtherTypes, DetectorTypeOK
    <2>3. OtherTypes'
      BY <1>a, <2>1, <2>2, PEs DEF OtherTypes, DetectorTypeOK, Count, phase
    <2>4. Fired' /\ (Decided => Decided')
      BY <2>1 DEF MatchInv, Fired, Decided, Count
    <2> QED
      BY <2>1, <2>3, <2>4, QuietMatch
  <1>12. ASSUME NEW n \in counts, ReceiveCount(n)
         PROVE  MatchInv'
    BY <1>12, CountMatch
  <1>13. ASSUME NEW n \in net, ReceiveComplete(n)
         PROVE  MatchInv'
    <2>1. /\ n.type = "complete" /\ n.to \in PE /\ net' = net \ {n}
          /\ is_inserting' = [is_inserting EXCEPT ![n.to] = FALSE]
          /\ UNCHANGED <<detector, phase>>
      BY <1>13, <1>a, PacketFields DEF ReceiveComplete, Handles
    <2>2. Events(net') = Events(net)
      BY <1>a, <2>1, OneLess
    <2>3. OtherTypes' /\ ~is_inserting'[n.to]
      BY <1>a, <2>1 DEF OtherTypes, DetectorTypeOK, detector, phase
    <2>4. Fired' /\ Decided'
      BY <2>1, <2>3 DEF Fired, Decided
    <2> QED
      BY <2>1, <2>2, <2>3, <2>4, QuietMatch DEF detector
  <1>14. CASE UNCHANGED vars
    BY <1>0, <1>14, <1>a DEF vars, phase, OtherTypes
  <1> QED
    BY <1>1, <1>2, <1>3, <1>4, <1>5, <1>6, <1>7, <1>8, <1>9, <1>10, <1>11,
       <1>12, <1>13, <1>14 DEF Next

LEMMA CountInv == Spec => [](LinkInv /\ MatchInv)
  <1>1. Init => LinkInv /\ MatchInv
    BY EndpointInit, LinkInit, MatchInit DEF LinkInv
  <1>2. LinkInv /\ MatchInv /\ [Next]_vars => LinkInv' /\ MatchInv'
    BY EndpointStep, LinkStep, MatchStep DEF LinkInv
  <1> QED
    BY <1>1, <1>2, PTL DEF Spec

(* The variables of the phase and of its detector keep their types *)
THEOREM InsertionTypeCorrect == Spec => []TypeOK
  <1>1. LinkInv /\ MatchInv => TypeOK
    BY DEF LinkInv, Shape, Family, TreeType, MatchInv, OtherTypes, TypeOK
  <1> QED
    BY <1>1, CountInv, PTL

(* Every handler of the tree builder counts what it sends and what it has  *)
(* handled (collection_bridge.hpp): until a wave sums to zero, the         *)
(* counters of all PEs add up to the number of messages in flight that     *)
(* the detector waits for, whatever order the messages arrive in.          *)
THEOREM CountersMatch == Spec => []CountsMatch
  BY CountInv, MatchMeans, PTL

-----------------------------------------------------------------------------
(* What the tree is when the phase has ended.                              *)
(*                                                                         *)
(* Whether a wave of counters is right to say that nothing is outstanding  *)
(* is a question of when it is read (DetectionSound).  When it is right,   *)
(* the elements form one tree, because none is ever forgotten: what is not *)
(* yet in its place has a packet under way.                                *)

(* An element to be inserted has a constructor message, until it exists *)
Known ==
    \A e \in inserted :
        Created(e) \/ \E n \in net : n.type = "ctor" /\ n.idx = e

Asked(e) == \E n \in net : n.type = "downstream" /\ n.idx = e

Granted(e, p) == \E c \in Elem : e \in children[c] /\ Upstream(c, p) \in net

(* An element without a parent has its request or its answer under way *)
Sought ==
    /\ \A p \in PE, e \in Elem : Waiting(e, p) => Asked(e) \/ Granted(e, p)
    /\ \A e \in Elem : valid[e] => e = endpoint[0] \/ parent[e] # NoElem

(* A PE that learns of the endpoint tells its children, and the endpoint *)
Heard ==
    /\ \A p \in PE : \A e \in chares[p] : endpoint[p] = e => valid[e]
    /\ \A q \in PE : q # 0 /\ endpoint[up(q)] # NoElem => Told(q)

LEMMA SettleInit == Init => Known /\ Sought /\ Heard
  <1> SUFFICES ASSUME Init
               PROVE  Known /\ Sought /\ Heard
    OBVIOUS
  <1>1. Known
    BY DEF Init, Known
  <1>2. Sought
    BY DEF Init, Sought, Waiting
  <1>3. Heard
    BY PEs, UpPE DEF Init, Heard
  <1> QED
    BY <1>1, <1>2, <1>3

(* Steps about element e alone *)
LEMMA SoughtStays ==
    ASSUME Shape, Sought, NEW e \in Elem,
           endpoint[0] \in {NoElem, endpoint'[0]},
           \A p \in PE : \A f \in chares'[p] : f = e \/ f \in chares[p],
           \A f \in Elem \ {e} : valid'[f] = valid[f] /\ parent'[f] = parent[f],
           \A n \in net : n.type = "downstream" /\ n.idx # e => n \in net',
           \A p \in PE, f \in Elem \ {e} :
               Waiting(f, p) /\ Granted(f, p) => Granted(f, p)',
           \A p \in PE : Waiting(e, p)' => Asked(e)' \/ Granted(e, p)',
           valid'[e] => e = endpoint'[0] \/ parent'[e] # NoElem
    PROVE  Sought'
  <1>1. \A f \in Elem : f # NoElem
    BY ElemAssumption DEF NoElem
  <1>2. ASSUME NEW p \in PE, NEW f \in Elem \ {e}, Waiting(f, p)'
        PROVE  Asked(f)' \/ Granted(f, p)'
    <2>1. Waiting(f, p)
      BY <1>1, <1>2 DEF Waiting
    <2>2. CASE Asked(f)
      BY <2>2 DEF Asked
    <2> QED
      BY <2>1, <2>2 DEF Sought
  <1>3. ASSUME NEW f \in Elem \ {e}, valid'[f]
        PROVE  f = endpoint'[0] \/ parent'[f] # NoElem
    BY <1>1, <1>3 DEF Sought
  <1> QED
    BY <1>2, <1>3 DEF Sought

(* Steps that leave the tree and its packets alone *)
LEMMA SoughtSame ==
    ASSUME Sought, UNCHANGED <<chares, tree>>, endpoint'[0] = endpoint[0],
           \A n \in net : n.type \in {"downstream", "upstream"} => n \in net'
    PROVE  Sought'
  <1>1. ASSUME NEW p \in PE, NEW e \in Elem
        PROVE  /\ Waiting(e, p)' <=> Waiting(e, p)
               /\ Asked(e) => Asked(e)'
               /\ Granted(e, p) => Granted(e, p)'
    BY DEF Waiting, Asked, Granted, tree, Upstream
  <1> QED
    BY <1>1 DEF Sought, tree

(* PE p records the endpoint *)
LEMMA HeardRegister ==
    ASSUME Shape, Heard, TreeType, NEW p \in PE, NEW e \in Elem, NEW rest, NEW n,
           register_endpoint(p, e, rest, n),
           \A q \in PE \ {p} : chares'[q] = chares[q],
           \A k \in net : k.type = "endpoint" => k \in rest \/ k.to = p
    PROVE  Heard'
  <1>1. /\ endpoint' = [endpoint EXCEPT ![p] = e]
        /\ valid' = IF e \in chares'[p] THEN [valid EXCEPT ![e] = TRUE] ELSE valid
        /\ net' = rest \cup {Endpoint(e, q) : q \in leaves(p)}
    BY DEF register_endpoint
  <1>2. ASSUME NEW q \in PE, NEW f \in chares'[q], endpoint'[q] = f
        PROVE  valid'[f]
    <2>1. CASE q = p
      BY <1>1, <1>2, <2>1 DEF Shape, TreeType
    <2>2. CASE q # p
      <3>1. f \in chares[q] /\ endpoint[q] = f /\ f \in Elem
        BY <1>1, <1>2, <2>2 DEF Shape
      <3>2. valid[f]
        BY <3>1 DEF Heard
      <3> QED
        BY <1>1, <3>1, <3>2 DEF TreeType
    <2> QED
      BY <2>1, <2>2
  <1>3. ASSUME NEW q \in PE, q # 0, endpoint'[up(q)] # NoElem
        PROVE  Told(q)'
    <2>1. CASE up(q) = p
      <3>1. q \in leaves(p)
        <4>1. q \in Nat \ {0} /\ p \in Nat /\ (q - 1) \div 2 = p
          BY <1>3, <2>1, PEs DEF up
        <4>2. q = 2 * p + 1 \/ q = 2 * p + 2
          BY <4>1
        <4> QED
          BY <4>2 DEF leaves
      <3>2. Endpoint(e, q) \in net'
        BY <1>1, <3>1
      <3> QED
        BY <3>2 DEF Told, Endpoint
    <2>2. CASE up(q) # p
      <3>1. endpoint[up(q)] # NoElem
        BY <1>1, <1>3, <2>2, UpPE DEF Shape
      <3>2. Told(q)
        BY <1>3, <3>1 DEF Heard
      <3>3. CASE endpoint[q] # NoElem
        BY <1>1, <3>3, ElemAssumption DEF Told, Shape, NoElem
      <3>4. CASE \E k \in net : k.type = "endpoint" /\ k.to = q
        <4>1. CASE q = p
          BY <1>1, <4>1, ElemAssumption DEF Told, Shape, NoElem
        <4>2. CASE q # p
          BY <1>1, <3>4, <4>2 DEF Told
        <4> QED
          BY <4>1, <4>2
      <3> QED
        BY <3>2, <3>3, <3>4 DEF Told
    <2> QED
      BY <2>1, <2>2
  <1> QED
    BY <1>2, <1>3 DEF Heard

LEMMA HeardSame ==
    ASSUME Shape, OneEndpoint, Family, Heard, endpoint' = endpoint,
           \A p \in PE : chares'[p] \subseteq Elem,
           \A p \in PE : \A f \in chares'[p] : f \in chares[p] \/ ~Created(f),
           \A f \in Elem : valid[f] => valid'[f],
           \A k \in net : k.type = "endpoint" => k \in net'
    PROVE  Heard'
  <1>1. ASSUME NEW p \in PE, NEW f \in chares'[p], endpoint'[p] = f
        PROVE  valid'[f]
    <2>1. CASE f \in chares[p]
      BY <1>1, <2>1 DEF Heard
    <2>2. CASE ~Created(f)
      <3>1. f # endpoint[0] /\ f # NoElem
        BY <2>2, ElemAssumption DEF Family, UnknownBefore, Unknown, NoElem
      <3> QED
        BY <1>1, <3>1 DEF OneEndpoint
    <2> QED
      BY <2>1, <2>2
  <1>2. ASSUME NEW q \in PE, Told(q)
        PROVE  Told(q)'
    BY <1>2 DEF Told
  <1> QED
    BY <1>1, <1>2 DEF Heard

(* Element e of src asks for a parent, or becomes the endpoint *)
LEMMA AskingSettles ==
    ASSUME Shape, OneEndpoint, Family, Sought, Heard,
           NEW p \in PE, NEW e \in Elem, NEW src, NEW rest, NEW n,
           send_upstream(p, e, src, rest, n), ~valid[e],
           \A q \in PE \ {p} : chares'[q] = chares[q],
           \A q \in PE : chares'[q] \subseteq Elem,
           \A q \in PE : \A f \in chares'[q] : f = e \/ f \in chares[q],
           \A q \in PE : \A f \in chares'[q] : f \in chares[q] \/ ~Created(f),
           \A k \in net : k.type = "downstream" /\ k.idx # e => k \in rest,
           \A k \in net : k.type \in {"upstream", "endpoint"} => k \in rest
    PROVE  Sought' /\ Heard'
  <1>1. ASSUME NEW q, net' = rest \cup {Downstream(e, q, src)},
               UNCHANGED <<tree, endpoint>>
        PROVE  Sought' /\ Heard'
    <2>1. Asked(e)'
      <3>1. Downstream(e, q, src) \in net'
        BY <1>1
      <3>2. Downstream(e, q, src).type = "downstream"
            /\ Downstream(e, q, src).idx = e
        BY DEF Downstream
      <3> QED
        BY <3>1, <3>2 DEF Asked
    <2>2. ASSUME NEW r \in PE, NEW f \in Elem, Granted(f, r)
          PROVE  Granted(f, r)'
      BY <1>1, <2>2 DEF Granted, tree, Upstream
    <2>3. Sought'
      BY <1>1, <2>1, <2>2, SoughtStays DEF tree
    <2>4. Heard'
      BY <1>1, HeardSame DEF tree
    <2> QED
      BY <2>3, <2>4
  <1>2. ASSUME p = 0, endpoint[p] = NoElem, register_endpoint(p, e, rest, n + 1)
        PROVE  Sought' /\ Heard'
    <2>1. /\ e = endpoint'[0] /\ UNCHANGED <<parent, children>>
          /\ rest \subseteq net'
          /\ \A f \in Elem \ {e} : valid'[f] = valid[f]
      BY <1>2 DEF register_endpoint, Shape, Family, TreeType
    <2>2. ASSUME NEW r \in PE, NEW f \in Elem, Granted(f, r)
          PROVE  Granted(f, r)'
      BY <2>1, <2>2 DEF Granted, Upstream
    <2>3. \A r \in PE : ~Waiting(e, r)'
      BY <2>1 DEF Waiting
    <2>4. \A k \in net : k.type = "downstream" /\ k.idx # e => k \in net'
      BY <2>1
    <2>5. Sought'
      BY <1>2, <2>1, <2>2, <2>3, <2>4, SoughtStays
    <2>6. Heard'
      BY <1>2, HeardRegister DEF Family
    <2> QED
      BY <2>5, <2>6
  <1> QED
    BY <1>1, <1>2 DEF send_upstream

LEMMA CreatingSettles ==
    ASSUME Shape, OneEndpoint, Family, Sought, Heard,
           NEW p \in PE, NEW e \in Elem, ~Created(e), NEW rest, NEW n,
           Create(p, e, rest, n),
           \A k \in net : k.type \in {"downstream", "upstream", "endpoint"}
                              => k \in rest
    PROVE  Sought' /\ Heard' /\ rest \subseteq net'
  <1> DEFINE sent == rest \cup InformHome(p, e)
             local == chares[p] \cup {e}
  <1>1. /\ chares' = [chares EXCEPT ![p] = local]
        /\ rest \subseteq sent
    BY DEF Create
  <1>2. Unknown(e)
    BY DEF Family, UnknownBefore
  <1>3. /\ \A q \in PE \ {p} : chares'[q] = chares[q]
        /\ \A q \in PE : chares'[q] \subseteq Elem
        /\ \A q \in PE : \A f \in chares'[q] : f = e \/ f \in chares[q]
    BY <1>1 DEF Shape
  <1>6. \A q \in PE : \A f \in chares'[q] : f \in chares[q] \/ ~Created(f)
    BY <1>3
  <1>4. CASE send_upstream(p, e, p, sent, n - 1)
    <2> HIDE DEF sent, local
    <2>1. Sought' /\ Heard'
      BY <1>1, <1>2, <1>3, <1>4, <1>6, AskingSettles DEF Unknown
    <2>2. sent \subseteq net'
      BY <1>4 DEF send_upstream, register_endpoint
    <2> QED
      BY <1>1, <2>1, <2>2
  <1>5. ASSUME NEW c \in LeastLoaded(local, e), put_child(c, e),
               put_parent(e, c), net' = sent, endpoint' = endpoint
        PROVE  Sought' /\ Heard' /\ rest \subseteq net'
    <2>1. c \in chares[p] /\ c \in Elem
      BY DEF LeastLoaded, Shape
    <2>2. /\ valid'[e] /\ parent'[e] = c
          /\ \A f \in Elem \ {e} : valid'[f] = valid[f] /\ parent'[f] = parent[f]
          /\ \A d \in Elem : children[d] \subseteq children'[d]
      BY <1>5, <2>1 DEF put_parent, put_child, Family, TreeType
    <2> HIDE DEF sent, local
    <2>3. ASSUME NEW r \in PE, NEW f \in Elem, Granted(f, r)
          PROVE  Granted(f, r)'
      BY <1>1, <1>5, <2>2, <2>3 DEF Granted, Upstream
    <2>4. c # NoElem
      BY <2>1, ElemAssumption DEF NoElem
    <2>5. \A r \in PE : ~Waiting(e, r)'
      BY <2>2 DEF Waiting
    <2>6. Sought'
      BY <1>1, <1>3, <1>5, <2>2, <2>3, <2>4, <2>5, SoughtStays
    <2>7. \A f \in Elem : valid[f] => valid'[f]
      BY <2>2
    <2>8. Heard'
      BY <1>1, <1>3, <1>5, <1>6, <2>7, HeardSame
    <2> QED
      BY <1>1, <1>5, <2>6, <2>8
  <1> QED
    BY <1>4, <1>5 DEF Create

(* Element c of a PE on the way adopts the element that asks *)
LEMMA AdoptingSettles ==
    ASSUME LinkInv, Sought, Heard, NEW n \in net, n.type = "downstream",
           NEW c \in Elem, put_child(c, n.idx),
           net' = (net \ {n}) \cup {Upstream(c, n.src)},
           UNCHANGED <<chares, parent, valid, endpoint>>
    PROVE  Sought' /\ Heard'
  <1>1. n.idx \in Elem /\ n.src \in PE /\ Waiting(n.idx, n.src)
    BY PacketFields DEF LinkInv, Shape, Family, Requests
  <1>2. /\ n.idx \in children'[c]
        /\ \A d \in Elem : children[d] \subseteq children'[d]
    BY <1>1 DEF put_child, LinkInv, Family, TreeType
  <1>3. ASSUME NEW r \in PE, NEW f \in Elem, Granted(f, r)
        PROVE  Granted(f, r)'
    BY <1>2, <1>3 DEF Granted, Upstream
  <1>4. ASSUME NEW r \in PE, Waiting(n.idx, r)'
        PROVE  Granted(n.idx, r)'
    <2>1. r = n.src
      BY <1>1, <1>4 DEF LinkInv, CreatedOnce, Waiting
    <2> QED
      BY <1>2, <2>1 DEF Granted
  <1>5. \A k \in net : k.type = "downstream" /\ k.idx # n.idx => k \in net'
    OBVIOUS
  <1>6. Sought'
    BY <1>1, <1>3, <1>4, <1>5, SoughtStays DEF LinkInv, Sought
  <1>7. Heard'
    BY HeardSame DEF LinkInv, Shape
  <1> QED
    BY <1>6, <1>7

(* The element that waits is told its parent *)
LEMMA AnswerSettles ==
    ASSUME LinkInv, Sought, Heard, NEW n \in net, n.type = "upstream",
           NEW x \in Orphans(n.to, n.idx), put_parent(x, n.idx),
           UNCHANGED <<chares, children, endpoint>>, net' = net \ {n}
    PROVE  Sought' /\ Heard'
  <1>1. n.to \in PE /\ n.idx \in Elem /\ x \in Elem /\ x \in chares[n.to]
    BY PacketFields DEF LinkInv, Shape, Orphans
  <1>2. /\ valid'[x] /\ parent'[x] = n.idx /\ n.idx # NoElem
        /\ \A f \in Elem \ {x} : valid'[f] = valid[f] /\ parent'[f] = parent[f]
    BY <1>1, ElemAssumption DEF put_parent, LinkInv, Family, TreeType, NoElem
  <1>3. ASSUME NEW r \in PE, NEW f \in Elem \ {x}, Waiting(f, r), Granted(f, r)
        PROVE  Granted(f, r)'
    <2>1. PICK c \in Elem : f \in children[c] /\ Upstream(c, r) \in net
      BY <1>3 DEF Granted
    <2>2. Upstream(c, r) # n
      <3>1. SUFFICES ASSUME Upstream(c, r) = n
                     PROVE  FALSE
        OBVIOUS
      <3>2. r = n.to
        BY <3>1 DEF Upstream
      <3>3. f \in chares[n.to] /\ ~valid[f] /\ ~valid[x]
        BY <1>3, <3>2 DEF Waiting, Orphans
      <3>4. f = x
        BY <1>1, <3>3 DEF LinkInv, Family, OneOrphan
      <3> QED
        BY <3>4
    <2> QED
      BY <2>1, <2>2 DEF Granted
  <1>4. \A r \in PE : ~Waiting(x, r)'
    BY <1>2 DEF Waiting
  <1>5. \A k \in net : k.type = "downstream" => k \in net'
    OBVIOUS
  <1>6. Sought'
    BY <1>1, <1>2, <1>3, <1>4, <1>5, SoughtStays DEF LinkInv
  <1>7. \A f \in Elem : valid[f] => valid'[f]
    BY <1>2
  <1>8. Heard'
    BY <1>7, HeardSame DEF LinkInv, Shape
  <1> QED
    BY <1>6, <1>8

LEMMA SettleStep ==
    LinkInv /\ Known /\ Sought /\ Heard /\ [Next]_vars
        => Known' /\ Sought' /\ Heard'
  <1> SUFFICES ASSUME LinkInv, Known, Sought, Heard, [Next]_vars
               PROVE  Known' /\ Sought' /\ Heard'
    OBVIOUS
  <1>a. Shape /\ OneEndpoint /\ CreatedOnce /\ Family /\ net \subseteq Packet
    BY DEF LinkInv, Shape
  (* Nobody that was created is forgotten, nor what is under way *)
  <1>b. ASSUME inserted' = inserted,
               \A p \in PE : chares[p] \subseteq chares'[p],
               \A k \in net : k.type = "ctor" => k \in net' \/ Created(k.idx)'
        PROVE  Known'
    <2> SUFFICES ASSUME NEW e \in inserted
                 PROVE  (Created(e) \/ \E n \in net : n.type = "ctor" /\ n.idx = e)'
      BY <1>b DEF Known
    <2>1. CASE Created(e)
      BY <1>b, <2>1 DEF Created
    <2>2. CASE ~Created(e)
      BY <1>b, <2>2 DEF Known
    <2> QED
      BY <2>1, <2>2
  (* Steps that leave the tree and its packets alone *)
  <1>0. ASSUME UNCHANGED <<chares, tree, endpoint>>, inserted' = inserted,
               \A k \in net : k.type \in {"ctor", "downstream", "upstream", "endpoint"}
                                   => k \in net'
        PROVE  Known' /\ Sought' /\ Heard'
    <2>1. Known'
      BY <1>0, <1>b
    <2>2. Sought'
      BY <1>0, SoughtSame
    <2>3. Heard'
      BY <1>0, <1>a, HeardSame DEF tree, Shape
    <2> QED
      BY <2>1, <2>2, <2>3
  <1>1. ASSUME NEW p \in PE, NEW e \in Elem, Insert(p, e)
        PROVE  Known' /\ Sought' /\ Heard'
    <2> DEFINE to == IF InsertOn[e] = NoPe THEN home_pe(e) ELSE InsertOn[e]
    <2>1. /\ net' = net \cup {Ctor(e, to)} /\ inserted' = inserted \cup {e}
          /\ UNCHANGED <<chares, tree, endpoint>>
      BY <1>1 DEF Insert
    <2>2. Ctor(e, to).type = "ctor" /\ Ctor(e, to).idx = e
      BY DEF Ctor
    <2> HIDE DEF to
    <2>3. Known'
      <3> SUFFICES ASSUME NEW f \in inserted'
                   PROVE  Created(f)' \/ \E n \in net' : n.type = "ctor" /\ n.idx = f
        BY DEF Known
      <3>1. CASE f = e
        BY <2>1, <2>2, <3>1
      <3>2. CASE f \in inserted
        <4>1. Created(f) => Created(f)'
          BY <2>1 DEF Created
        <4> QED
          BY <2>1, <3>2, <4>1 DEF Known
      <3> QED
        BY <2>1, <3>1, <3>2
    <2>4. Sought'
      BY <2>1, SoughtSame
    <2>5. Heard'
      BY <1>a, <2>1, HeardSame DEF tree, Shape
    <2> QED
      BY <2>3, <2>4, <2>5
  <1>2. ASSUME DoneInserting
        PROVE  Known' /\ Sought' /\ Heard'
    BY <1>0, <1>2 DEF DoneInserting
  <1>3. ASSUME NEW p \in PE, SeedNext(p)
        PROVE  Known' /\ Sought' /\ Heard'
    <2>1. PICK e \in Seeds(p) :
              inserted' = inserted \cup {e} /\ Create(p, e, net, 1)
      BY <1>3 DEF SeedNext
    <2>2. e \in Elem /\ ~Created(e)
      BY <1>a DEF Seeds, CreatedOnce, Created
    <2>3. Sought' /\ Heard' /\ net \subseteq net'
      BY <1>a, <2>1, <2>2, CreatingSettles
    <2>4. Created(e)' /\ \A q \in PE : chares[q] \subseteq chares'[q]
      BY <1>a, <2>1 DEF Create, Created, Shape
    <2>5. Known'
      <3> SUFFICES ASSUME NEW f \in inserted'
                   PROVE  Created(f)' \/ \E n \in net' : n.type = "ctor" /\ n.idx = f
        BY DEF Known
      <3>1. CASE f = e
        BY <2>4, <3>1
      <3>2. CASE f \in inserted
        <4>1. Created(f) => Created(f)'
          BY <2>4 DEF Created
        <4> QED
          BY <2>3, <3>2, <4>1 DEF Known
      <3> QED
        BY <2>1, <3>1, <3>2
    <2> QED
      BY <2>3, <2>5
  <1>4. ASSUME NEW p \in PE, FinishConstruct(p)
        PROVE  Known' /\ Sought' /\ Heard'
    BY <1>0, <1>4 DEF FinishConstruct
  <1>5. ASSUME NEW n \in net, ReceiveCtor(n)
        PROVE  Known' /\ Sought' /\ Heard'
    <2>1. Create(n.to, n.idx, net \ {n}, 0) /\ n.type = "ctor"
          /\ inserted' = inserted
      BY <1>5 DEF ReceiveCtor, Handles, phase
    <2>2. n.to \in PE /\ n.idx \in Elem /\ ~Created(n.idx)
      BY <1>a, <2>1, PacketFields DEF CreatedOnce
    <2>3. \A k \in net : k.type \in {"downstream", "upstream", "endpoint"}
                             => k \in net \ {n}
      BY <2>1
    <2>4. Sought' /\ Heard' /\ net \ {n} \subseteq net'
      BY <1>a, <2>1, <2>2, <2>3, CreatingSettles
    <2>5. Created(n.idx)' /\ \A q \in PE : chares[q] \subseteq chares'[q]
      BY <1>a, <2>1, <2>2 DEF Create, Created, Shape
    <2>6. Known'
      BY <1>b, <2>1, <2>4, <2>5
    <2> QED
      BY <2>4, <2>6
  <1>6. ASSUME NEW n \in net, ReceiveLocation(n)
        PROVE  Known' /\ Sought' /\ Heard'
    BY <1>0, <1>6 DEF ReceiveLocation, Handles, phase
  <1>7. ASSUME NEW n \in net, ReceiveDownstream(n)
        PROVE  Known' /\ Sought' /\ Heard'
    <2>1. /\ n.type = "downstream" /\ n.to \in PE /\ n.idx \in Elem
          /\ UNCHANGED <<chares, inserted>>
      BY <1>7, <1>a, PacketFields DEF ReceiveDownstream, Handles, phase
    <2>2. ~valid[n.idx]
      BY <1>a, <2>1 DEF Family, Requests, Waiting
    <2>3. CASE send_upstream(n.to, n.idx, n.src, net \ {n}, -1)
      <3>1. /\ \A k \in net : k.type = "downstream" /\ k.idx # n.idx
                                  => k \in net \ {n}
            /\ \A k \in net : k.type \in {"upstream", "endpoint"} => k \in net \ {n}
        BY <2>1
      <3>2. /\ \A q \in PE \ {n.to} : chares'[q] = chares[q]
            /\ \A q \in PE : chares'[q] \subseteq Elem
            /\ \A q \in PE : \A f \in chares'[q] : f = n.idx \/ f \in chares[q]
            /\ \A q \in PE : \A f \in chares'[q] : f \in chares[q] \/ ~Created(f)
        BY <1>a, <2>1 DEF Shape
      <3>5. Sought' /\ Heard'
        BY <1>a, <2>1, <2>2, <2>3, <3>1, <3>2, AskingSettles
      <3>3. net \ {n} \subseteq net'
        BY <2>3 DEF send_upstream, register_endpoint
      <3>4. Known'
        BY <1>b, <2>1, <3>3
      <3> QED
        BY <3>4, <3>5
    <2>4. ASSUME NEW c \in LeastLoaded(chares[n.to], n.idx), put_child(c, n.idx),
                 net' = (net \ {n}) \cup {Upstream(c, n.src)},
                 UNCHANGED <<parent, valid, endpoint>>
          PROVE  Known' /\ Sought' /\ Heard'
      <3>1. c \in Elem
        BY <1>a, <2>1 DEF LeastLoaded, Shape
      <3>2. Known'
        BY <1>b, <2>1, <2>4
      <3> QED
        BY <2>1, <2>4, <3>1, <3>2, AdoptingSettles
    <2> QED
      BY <1>7, <2>3, <2>4 DEF ReceiveDownstream
  <1>8. ASSUME NEW n \in net, ReceiveUpstream(n)
        PROVE  Known' /\ Sought' /\ Heard'
    <2>1. PICK x \in Orphans(n.to, n.idx) : put_parent(x, n.idx)
      BY <1>8 DEF ReceiveUpstream
    <2>2. /\ n.type = "upstream" /\ net' = net \ {n} /\ inserted' = inserted
          /\ UNCHANGED <<chares, children, endpoint>>
      BY <1>8 DEF ReceiveUpstream, Handles, phase
    <2>3. Known'
      BY <1>b, <2>2
    <2> QED
      BY <2>1, <2>2, <2>3, AnswerSettles
  <1>9. ASSUME NEW n \in net, ReceiveEndpoint(n)
        PROVE  Known' /\ Sought' /\ Heard'
    <2>1. /\ n.type = "endpoint" /\ n.to \in PE /\ n.idx \in Elem
          /\ endpoint[n.to] = NoElem /\ n.idx = endpoint[0]
          /\ register_endpoint(n.to, n.idx, net \ {n}, 0)
          /\ UNCHANGED <<chares, inserted>>
      BY <1>9, <1>a, PacketFields
         DEF ReceiveEndpoint, Handles, EndpointExpected, phase, OneEndpoint
    <2>2. n.to # 0
      BY <2>1, ElemAssumption DEF NoElem
    <2>3. /\ endpoint'[0] = endpoint[0] /\ UNCHANGED <<parent, children>>
          /\ net \ {n} \subseteq net'
          /\ \A f \in Elem \ {n.idx} : valid'[f] = valid[f]
      BY <1>a, <2>1, <2>2, PEs DEF register_endpoint, Shape, Family, TreeType
    <2>4. Known'
      BY <1>b, <2>1, <2>3
    <2>5. \A k \in net : k.type = "endpoint" => k \in net \ {n} \/ k.to = n.to
      OBVIOUS
    <2>6. Heard'
      BY <1>a, <2>1, <2>5, HeardRegister DEF Family
    <2>7. ASSUME NEW r \in PE, NEW f \in Elem, Granted(f, r)
          PROVE  Granted(f, r)'
      BY <2>1, <2>3, <2>7 DEF Granted, Upstream
    <2>8. \A r \in PE : ~Waiting(n.idx, r)'
      BY <2>1, <2>3 DEF Waiting
    <2>9. \A k \in net : k.type = "downstream" => k \in net'
      BY <2>1, <2>3
    <2>10. Sought'
      BY <1>a, <2>1, <2>3, <2>7, <2>8, <2>9, SoughtStays
    <2> QED
      BY <2>4, <2>6, <2>10
  <1>10. ASSUME NEW n \in net, ReceiveStatus(n)
         PROVE  Known' /\ Sought' /\ Heard'
    BY <1>0, <1>10 DEF ReceiveStatus, Handles, phase
  <1>11. CASE ReceiveResult
    BY <1>0, <1>11 DEF ReceiveResult, phase
  <1>12. ASSUME NEW n \in counts, ReceiveCount(n)
         PROVE  Known' /\ Sought' /\ Heard'
    <2>1. net \subseteq net'
      BY <1>12 DEF ReceiveCount
    <2> QED
      BY <1>0, <1>12, <2>1 DEF ReceiveCount, phase
  <1>13. ASSUME NEW n \in net, ReceiveComplete(n)
         PROVE  Known' /\ Sought' /\ Heard'
    BY <1>0, <1>13 DEF ReceiveComplete, Handles, phase
  <1>14. CASE UNCHANGED vars
    BY <1>0, <1>14 DEF vars, phase
  <1> QED
    BY <1>1, <1>2, <1>3, <1>4, <1>5, <1>6, <1>7, <1>8, <1>9, <1>10, <1>11,
       <1>12, <1>13, <1>14 DEF Next

(* With nothing under way, every PE has learned the endpoint *)
LEMMA AllHave ==
    ASSUME LinkInv, Heard, Counted = {}, endpoint[0] # NoElem
    PROVE  \A p \in PE : endpoint[p] = endpoint[0]
  <1> SUFFICES ASSUME NEW p \in PE, endpoint[p] # endpoint[0]
               PROVE  FALSE
    OBVIOUS
  <1> DEFINE T == {q \in PE : endpoint[q] = NoElem}
  <1>1. p \in T
    BY DEF LinkInv, OneEndpoint
  <1>2. T \in SUBSET Nat /\ T # {}
    BY <1>1, PEs
  <1>3. PICK q \in T : \A r \in T : q <= r
    BY <1>2, SmallestInSet
  <1>4. q \in PE /\ q # 0 /\ endpoint[q] = NoElem
    BY <1>3
  <1>5. up(q) \in PE /\ up(q) < q
    BY <1>4, UpPE, PEs DEF up
  <1>6. up(q) \notin T
    BY <1>2, <1>3, <1>5, PEs
  <1>7. Told(q)
    BY <1>4, <1>5, <1>6 DEF Heard
  <1>8. ~\E n \in net : n.type = "endpoint"
    BY DEF Counted
  <1> QED
    BY <1>4, <1>7, <1>8 DEF Told

LEMMA SettledSpans ==
    ASSUME LinkInv, Known, Sought, Heard, Counted = {}, inserted = Elem
    PROVE  /\ \A p \in PE : endpoint[p] = endpoint[0]
           /\ \A e \in Elem : valid[e] /\ (parent[e] = NoElem <=> e = endpoint[0])
           /\ \A c, e \in Elem : e \in children[c] <=> parent[e] = c
  <1>1. \A n \in net : n.type \notin {"ctor", "downstream", "upstream", "endpoint"}
    BY DEF Counted
  <1>2. \A p \in PE : endpoint[p] = endpoint[0]
    <2>1. CASE endpoint[0] = NoElem
      BY <2>1 DEF LinkInv, OneEndpoint
    <2>2. CASE endpoint[0] # NoElem
      BY <2>2, AllHave
    <2> QED
      BY <2>1, <2>2
  <1>3. ASSUME NEW e \in Elem
        PROVE  valid[e]
    <2>1. PICK p \in PE : e \in chares[p]
      BY <1>1 DEF Known, Created
    <2>2. ~Asked(e) /\ ~Granted(e, p)
      BY <1>1 DEF Asked, Granted, Upstream
    <2>3. ~Waiting(e, p)
      BY <2>2 DEF Sought
    <2>4. CASE e = endpoint[0]
      BY <1>2, <2>1, <2>4 DEF Heard
    <2> QED
      BY <2>1, <2>3, <2>4 DEF Waiting
  <1>4. ASSUME NEW e \in Elem
        PROVE  parent[e] = NoElem <=> e = endpoint[0]
    <2>1. parent[e] = NoElem => e = endpoint[0]
      BY <1>3 DEF Sought
    <2>2. ASSUME e = endpoint[0], parent[e] # NoElem
          PROVE  FALSE
      <3>1. parent[e] \in Elem
        BY <2>2 DEF LinkInv, Family, TreeType
      <3>2. e \in children[parent[e]]
        BY <3>1 DEF LinkInv, Family, Children
      <3> QED
        BY <2>2, <3>1, <3>2 DEF LinkInv, Family, Children
    <2> QED
      BY <2>1, <2>2
  <1>5. ASSUME NEW c \in Elem, NEW e \in Elem
        PROVE  e \in children[c] <=> parent[e] = c
    <2>1. ~\E p \in PE : Upstream(c, p) \in net
      BY <1>1 DEF Upstream
    <2> QED
      BY <2>1 DEF LinkInv, Family, Children
  <1> QED
    BY <1>2, <1>3, <1>4, <1>5

LEMMA SettleInv == Spec => [](LinkInv /\ Known /\ Sought /\ Heard)
  <1>1. Init => LinkInv /\ Known /\ Sought /\ Heard
    BY EndpointInit, LinkInit, SettleInit DEF LinkInv
  <1>2. LinkInv /\ Known /\ Sought /\ Heard /\ [Next]_vars
            => LinkInv' /\ Known' /\ Sought' /\ Heard'
    BY EndpointStep, LinkStep, SettleStep DEF LinkInv
  <1> QED
    BY <1>1, <1>2, PTL DEF Spec

(* All that can keep the elements from forming one spanning tree when the  *)
(* phase has ended is a wave of counters that ended it too early: when     *)
(* nothing counted is outstanding, every PE has learned of the same        *)
(* endpoint, every other element has a parent that knows it, and every     *)
(* element knows that its association is final (collection_bridge.hpp).    *)
THEOREM SpansWhenSound == Spec => [](DetectionSound => SpanningTree)
  <1>1. LinkInv /\ Known /\ Sought /\ Heard => (DetectionSound => SpanningTree)
    BY SettledSpans DEF DetectionSound, SpanningTree
  <1> QED
    BY <1>1, SettleInv, PTL

-----------------------------------------------------------------------------
(* The phase is declared complete once                                     *)

(* PE 0 has been told to start the detection, and has *)
Begun ==
    /\ 0 \in constructed /\ concluded
    /\ \A n \in net : ~(n.type = "status" /\ n.to = 0)

(* It takes part in no wave *)
Idle == 0 \notin contributed /\ \A n \in counts : n.to # 0

NotYet == (\A n \in net : n.type # "complete") /\ \A p \in PE : is_inserting[p]

(* A wave needs PE 0, which contributes again only when it hears that the  *)
(* sum of the last one was not zero                                        *)
Once ==
    /\ HasOptions \/ constructed = PE
    /\ HasOptions => concluded
    /\ \A n \in net : n.type = "status" => concluded /\ ~HasOptions
    /\ Begun \/ Idle
    /\ ~Begun \/ ~Idle => NotYet
    /\ 0 \in contributed => \A n \in counts : n.to # 0
    /\ \A m, n \in counts : m.to = 0 /\ n.to = 0 => m = n
    /\ \A n \in net : n.type = "complete" => is_inserting[n.to]

LEMMA OnceInit == Init => Once
  BY InsertionAssumption, PEs DEF Init, DetectorInit, Once, Begun, Idle, NotYet

(* The packets of the detection are told apart by where they go *)
LEMMA OfOneKind ==
    ASSUME NEW m \in Packet, NEW n \in Packet, m.type = n.type, m.to = n.to,
           n.type \in {"status", "complete"}
    PROVE  m = n
  BY DEF Packet

(* Steps that are none of the detection's *)
LEMMA OnceStays ==
    ASSUME Once, UNCHANGED <<constructed, concluded, contributed, counts, is_inserting>>,
           \A n \in net : n.type = "status" => n \in net',
           \A n \in net' : n.type \in {"status", "complete"} => n \in net
    PROVE  Once'
  <1>1. (Begun' <=> Begun) /\ (Idle' <=> Idle) /\ (NotYet => NotYet')
    BY DEF Begun, Idle, NotYet
  <1> QED
    BY <1>1 DEF Once

(* PE p contributes, and was not PE 0 if that had begun *)
LEMMA OnceContributes ==
    ASSUME Once, NEW p \in PE, contribute(p), UNCHANGED <<counts, is_inserting>>,
           concluded' = concluded, constructed \subseteq constructed',
           HasOptions \/ constructed' = PE,
           \A n \in net' : n \in net, \A n \in net : n \in net' \/ n.to = p,
           p = 0 => Begun' /\ ~Begun,
           p # 0 => (0 \in constructed' <=> 0 \in constructed)
    PROVE  Once'
  <1>1. contributed' = contributed \cup {p}
    BY DEF contribute
  <1>2. CASE p = 0
    <2>1. Idle /\ NotYet
      BY <1>2 DEF Once
    <2>2. NotYet' /\ Begun'
      BY <1>2, <2>1 DEF NotYet
    <2> QED
      BY <2>1, <2>2 DEF Once, Idle
  <1>3. CASE p # 0
    <2>1. (Begun' <=> Begun) /\ (Idle' <=> Idle) /\ (NotYet => NotYet')
          /\ (0 \in contributed' <=> 0 \in contributed)
      BY <1>1, <1>3 DEF Begun, Idle, NotYet
    <2> QED
      BY <2>1 DEF Once
  <1> QED
    BY <1>2, <1>3

(* The sum of a wave comes down the tree, which nowhere leads to PE 0 *)
LEMMA OnceCounts ==
    ASSUME Once, DetectorTypeOK, NEW n \in counts, ReceiveCount(n)
    PROVE  Once'
  <1> DEFINE copies == {Count(q, n.gcount) : q \in span_tree_children(n.to)}
  <1>1. /\ counts' = (counts \ {n}) \cup copies
        /\ net' = IF Fires(n) THEN net \cup {Complete(q) : q \in PE} ELSE net
        /\ UNCHANGED <<is_inserting, constructed, concluded>>
    BY DEF ReceiveCount, receive_count, phase
  <1>2. \A m \in copies : m.to # 0
    BY DEF Count, span_tree_children
  <1>3. \/ n.gcount = 0 /\ contributed' = contributed
        \/ n.gcount # 0 /\ contributed' = contributed \cup {n.to}
    BY DEF ReceiveCount, receive_count, contribute, IsComplete
  <1> HIDE DEF copies
  <1>4. Begun' <=> Begun
    <2>1. \A k \in net' : k.type = "status" => k \in net
      BY <1>1 DEF Complete
    <2>2. net \subseteq net'
      BY <1>1
    <2> QED
      BY <1>1, <2>1, <2>2 DEF Begun
  <1>5. \A k \in net' : k.type = "status" => k \in net
    BY <1>1 DEF Complete
  <1>6. CASE n.to = 0
    <2>1. Begun /\ NotYet /\ 0 \notin contributed
      BY <1>6 DEF Once, Idle
    <2>2. \A m \in counts' : m.to # 0
      BY <1>1, <1>2, <1>6 DEF Once
    <2>3. CASE n.gcount = 0
      <3>1. contributed' = contributed
        BY <1>3, <2>3
      <3>2. \A p \in PE : is_inserting'[p]
        BY <1>1, <2>1 DEF NotYet
      <3>3. \A k \in net' : k.type = "complete" => k.to \in PE
        BY <1>1, <2>1 DEF NotYet, Complete
      <3> QED
        BY <1>1, <1>4, <1>5, <2>1, <2>2, <3>1, <3>2, <3>3 DEF Once, Idle
    <2>4. CASE n.gcount # 0
      <3>1. net' = net
        BY <1>1, <2>4 DEF Fires, IsComplete
      <3>2. NotYet'
        BY <1>1, <2>1, <3>1 DEF NotYet
      <3> QED
        BY <1>1, <1>4, <2>1, <2>2, <3>1, <3>2 DEF Once, NotYet
    <2> QED
      BY <1>3, <2>3, <2>4
  <1>7. CASE n.to # 0
    <2>1. net' = net
      BY <1>1, <1>7 DEF Fires
    <2>2. /\ 0 \in contributed' <=> 0 \in contributed
          /\ \A m \in counts' : m.to = 0 => m \in counts
          /\ \A m \in counts : m.to = 0 => m \in counts'
      BY <1>1, <1>2, <1>3, <1>7
    <2>3. (Idle' <=> Idle) /\ (NotYet => NotYet')
      BY <1>1, <2>1, <2>2 DEF Idle, NotYet
    <2> QED
      BY <1>1, <1>4, <2>1, <2>2, <2>3 DEF Once
  <1> QED
    BY <1>6, <1>7

LEMMA OnceStep ==
    Shape /\ OtherTypes /\ Once /\ [Next]_vars => Once'
  <1> SUFFICES ASSUME Shape, OtherTypes, Once, [Next]_vars
               PROVE  Once'
    OBVIOUS
  <1>a. net \subseteq Packet /\ DetectorTypeOK
    BY DEF Shape, OtherTypes
  <1>b. ASSUME NEW p, NEW e, NEW rest \in SUBSET net, NEW m, Create(p, e, rest, m)
        PROVE  /\ UNCHANGED <<contributed, counts, is_inserting>>
               /\ rest \subseteq net'
               /\ \A k \in net' : k.type \in {"status", "complete"} => k \in net
    <2>1. \A k \in InformHome(p, e) : k.type = "location"
      BY DEF InformHome, Location
    <2> QED
      BY <1>b, <2>1 DEF Create, send_upstream, register_endpoint, produce,
                        Downstream, Endpoint
  <1>1. ASSUME NEW p \in PE, NEW e \in Elem, Insert(p, e)
        PROVE  Once'
    BY <1>1, OnceStays DEF Insert, produce, Ctor
  <1>2. ASSUME DoneInserting
        PROVE  Once'
    <2>1. /\ ~concluded /\ concluded' = TRUE
          /\ net' = net \cup {Status(q) : q \in PE}
          /\ UNCHANGED <<contributed, counts, constructed, is_inserting>>
      BY <1>2 DEF DoneInserting, detector
    <2>2. ~Begun /\ Idle /\ NotYet /\ ~HasOptions
      BY <2>1 DEF Once, Begun
    <2>3. Idle' /\ NotYet'
      BY <2>1, <2>2 DEF Idle, NotYet, Status
    <2> QED
      BY <2>1, <2>2, <2>3 DEF Once, NotYet, Idle
  <1>3. ASSUME NEW p \in PE, SeedNext(p)
        PROVE  Once'
    <2>1. PICK e \in Seeds(p) : Create(p, e, net, 1)
      BY <1>3 DEF SeedNext
    <2> QED
      BY <1>3, <1>b, <2>1, OnceStays DEF SeedNext
  <1>4. ASSUME NEW p \in PE, FinishConstruct(p)
        PROVE  Once'
    <2>1. /\ p \notin constructed /\ constructed' = constructed \cup {p}
          /\ contribute(p)
          /\ UNCHANGED <<counts, is_inserting, concluded, net>>
      BY <1>4 DEF FinishConstruct, start_detection
    <2>2. HasOptions /\ concluded
      BY <2>1 DEF Once
    <2>3. p = 0 => Begun' /\ ~Begun
      BY <2>1, <2>2 DEF Begun, Once
    <2> QED
      BY <2>1, <2>2, <2>3, OnceContributes
  <1>5. ASSUME NEW n \in net, ReceiveCtor(n)
        PROVE  Once'
    <2>1. Create(n.to, n.idx, net \ {n}, 0) /\ n.type = "ctor"
          /\ UNCHANGED <<constructed, concluded>>
      BY <1>5 DEF ReceiveCtor, Handles, phase
    <2>2. /\ UNCHANGED <<contributed, counts, is_inserting>>
          /\ net \ {n} \subseteq net'
          /\ \A k \in net' : k.type \in {"status", "complete"} => k \in net
      BY <1>b, <2>1
    <2> QED
      BY <2>1, <2>2, OnceStays
  <1>6. ASSUME NEW n \in net, ReceiveLocation(n)
        PROVE  Once'
    BY <1>6, OnceStays DEF ReceiveLocation, Handles, phase, detector
  <1>7. ASSUME NEW n \in net, ReceiveDownstream(n)
        PROVE  Once'
    <2>1. /\ n.type = "downstream"
          /\ UNCHANGED <<constructed, concluded, is_inserting>>
      BY <1>7 DEF ReceiveDownstream, Handles, phase
    <2>2. /\ UNCHANGED <<contributed, counts>>
          /\ net \ {n} \subseteq net'
          /\ \A k \in net' : k.type \in {"status", "complete"} => k \in net
      BY <1>7 DEF ReceiveDownstream, send_upstream, register_endpoint, produce,
                  detector, Downstream, Endpoint, Upstream
    <2> QED
      BY <2>1, <2>2, OnceStays
  <1>8. ASSUME NEW n \in net, ReceiveUpstream(n)
        PROVE  Once'
    BY <1>8, OnceStays DEF ReceiveUpstream, Handles, phase, produce
  <1>9. ASSUME NEW n \in net, ReceiveEndpoint(n)
        PROVE  Once'
    BY <1>9, OnceStays DEF ReceiveEndpoint, Handles, phase, register_endpoint,
                           produce, Endpoint
  <1>10. ASSUME NEW n \in net, ReceiveStatus(n)
         PROVE  Once'
    <2>1. /\ n.type = "status" /\ n.to \in constructed /\ net' = net \ {n}
          /\ contribute(n.to) /\ n.to \in PE
          /\ UNCHANGED <<counts, is_inserting, concluded, constructed>>
      BY <1>10, <1>a, PacketFields DEF ReceiveStatus, Handles, start_detection, phase
    <2>2. concluded /\ ~HasOptions
      BY <2>1 DEF Once
    <2>3. n.to = 0 => Begun' /\ ~Begun
      <3>1. \A k \in net' : ~(k.type = "status" /\ k.to = n.to)
        BY <1>a, <2>1, OfOneKind
      <3> QED
        BY <2>1, <2>2, <3>1 DEF Begun
    <2>4. \A k \in net : k \in net' \/ k.to = n.to
      BY <2>1
    <2> QED
      BY <2>1, <2>2, <2>3, <2>4, OnceContributes DEF Once
  <1>11. CASE ReceiveResult
    <2> DEFINE sum == Count(0, MapThenSumSet(LAMBDA p : cut[p], PE))
    <2>1. /\ contributed = PE /\ contributed' = {} /\ counts' = counts \cup {sum}
          /\ UNCHANGED <<constructed, concluded, is_inserting, net>>
      BY <1>11 DEF ReceiveResult, SendResult, phase
    <2>2. sum.to = 0
      BY DEF Count
    <2> HIDE DEF sum
    <2>3. /\ 0 \in contributed /\ Begun /\ NotYet
          /\ \A n \in counts : n.to # 0
      BY <2>1, PEs DEF Once, Idle
    <2>4. Begun' /\ NotYet' /\ 0 \notin contributed'
      BY <2>1, <2>3 DEF Begun, NotYet
    <2>5. \A m, n \in counts' : m.to = 0 /\ n.to = 0 => m = n
      BY <2>1, <2>3
    <2> QED
      BY <2>1, <2>4, <2>5 DEF Once, NotYet
  <1>12. ASSUME NEW n \in counts, ReceiveCount(n)
         PROVE  Once'
    BY <1>12, <1>a, OnceCounts
  <1>13. ASSUME NEW n \in net, ReceiveComplete(n)
         PROVE  Once'
    <2>1. /\ n.type = "complete" /\ net' = net \ {n}
          /\ is_inserting' = [is_inserting EXCEPT ![n.to] = FALSE]
          /\ UNCHANGED <<detector, phase>>
      BY <1>13 DEF ReceiveComplete, Handles
    <2>2. Begun /\ Idle
      BY <2>1 DEF Once, NotYet
    <2>3. Begun' /\ Idle'
      BY <2>1, <2>2 DEF Begun, Idle, detector, phase
    <2>4. \A k \in net' : k.type = "complete" => k.to # n.to
      BY <1>a, <2>1, OfOneKind
    <2>5. \A k \in net' : k.type = "complete" => is_inserting'[k.to]
      BY <1>a, <2>1, <2>4, PacketFields DEF Once, OtherTypes
    <2> QED
      BY <2>1, <2>2, <2>3, <2>5 DEF Once, detector, phase
  <1>14. CASE UNCHANGED vars
    BY <1>14, OnceStays DEF vars, phase, detector
  <1> QED
    BY <1>1, <1>2, <1>3, <1>4, <1>5, <1>6, <1>7, <1>8, <1>9, <1>10, <1>11,
       <1>12, <1>13, <1>14 DEF Next

(* The same for the assertions of the handlers: a constructor message      *)
(* comes too late only if the phase ended too early, and no PE is told     *)
(* twice that it has ended, or of the endpoint; an answer always finds the *)
(* element that asked (collection_bridge.hpp).                             *)
THEOREM AssertionsWhenSound == Spec => [](DetectionSound => AssertionsHold)
  <1>1. Init => LinkInv /\ MatchInv /\ Once
    BY EndpointInit, LinkInit, MatchInit, OnceInit DEF LinkInv
  <1>2. LinkInv /\ MatchInv /\ Once /\ [Next]_vars => LinkInv' /\ MatchInv' /\ Once'
    BY EndpointStep, LinkStep, MatchStep, OnceStep DEF LinkInv, MatchInv
  <1>3. LinkInv /\ MatchInv /\ Once => (DetectionSound => AssertionsHold)
    <2> SUFFICES ASSUME LinkInv, MatchInv, Once, DetectionSound, NEW n \in net
                 PROVE  /\ n.type = "ctor" => CtorExpected(n)
                        /\ n.type = "upstream" => UpstreamExpected(n)
                        /\ n.type = "endpoint" => EndpointExpected(n)
                        /\ n.type = "complete" => CompleteExpected(n)
      BY DEF AssertionsHold
    <2>1. ASSUME n.type = "ctor", ~CtorExpected(n)
          PROVE  FALSE
      <3>1. n.to \in PE
        BY PacketFields DEF LinkInv, Shape
      <3>2. Decided
        BY <2>1, <3>1 DEF Decided, CtorExpected
      <3> QED
        BY <2>1, <3>2 DEF DetectionSound, Counted
    <2>2. n.type = "upstream" => UpstreamExpected(n)
      BY LinksFollow DEF LinksAgree, UpstreamExpected
    <2>3. n.type = "endpoint" => EndpointExpected(n)
      BY DEF LinkInv, OneEndpoint
    <2>4. n.type = "complete" => CompleteExpected(n)
      BY DEF Once, CompleteExpected
    <2> QED
      BY <2>1, <2>2, <2>3, <2>4
  <1> QED
    BY <1>1, <1>2, <1>3, PTL DEF Spec

-----------------------------------------------------------------------------
(* When detection is sound.                                                *)
(*                                                                         *)
(* A wave adds up counters that are read at different times.  A handler    *)
(* that sends no more counted messages than it takes can only lower the    *)
(* counter of its PE, so what a PE has contributed is at least what it     *)
(* counts now, and a sum of zero means that nothing is left.  Only the     *)
(* news of the endpoint multiplies: a PE that has two leaves sends two     *)
(* messages for one.  There is no such PE on a machine of two; on one of   *)
(* up to four it is PE 0, which has spread the news before it contributes  *)
(* if the constructor of the collection makes an element there.            *)

FewPes ==
    \/ NumPes <= 2
    \/ NumPes <= 4 /\ HasOptions /\ \E e \in Elem : home_pe(e) = 0

(* Who contributes has been constructed, after the last insertion there *)
Orderly ==
    /\ \A p \in contributed : p \in constructed /\ concluded
    /\ counts # {} => constructed = PE /\ concluded
    /\ concluded /\ ~HasOptions => inserted = Elem
    /\ HasOptions =>
          /\ \A p \in constructed, e \in Elem : home_pe(e) = p => e \in inserted
          /\ \A n \in net : n.type # "ctor"
    /\ chares[0] # {} => endpoint[0] # NoElem

Declines == \A p \in contributed : lcount[p] <= cut[p]

Ongoing == ~Decided /\ Declines

Quiet == Counted = {} /\ inserted = Elem

(* PE 0 has no news to spread after it has contributed, or one leaf *)
Spread == NumPes <= 2 \/ (NumPes <= 4 /\ (0 \in constructed => endpoint[0] # NoElem))

SumInv == Orderly /\ (Quiet \/ Ongoing)

LEMMA SumInit == Init => SumInv
  BY PEs DEF Init, DetectorInit, SumInv, Orderly, Ongoing, Declines, Decided

LEMMA FewMeans ==
    ASSUME FewPes, Shape, Known, Homely, Orderly
    PROVE  Spread
  <1> SUFFICES ASSUME ~(NumPes <= 2), 0 \in constructed
               PROVE  endpoint[0] # NoElem
    BY DEF FewPes, Spread
  <1>1. PICK e \in Elem : home_pe(e) = 0
    BY DEF FewPes
  <1>2. HasOptions
    BY DEF FewPes
  <1>3. e \in inserted /\ \A n \in net : n.type # "ctor"
    BY <1>1, <1>2 DEF Orderly
  <1>4. PICK p \in PE : e \in chares[p]
    BY <1>3 DEF Known, Created
  <1>5. p = 0
    BY <1>1, <1>4 DEF Homely
  <1> QED
    BY <1>4, <1>5 DEF Orderly

LEMMA OneLeaf ==
    ASSUME NEW p \in PE, NumPes <= 4, p # 0 \/ NumPes <= 2
    PROVE  Cardinality(leaves(p)) \in Nat /\ Cardinality(leaves(p)) <= 1
  <1>1. leaves(p) \subseteq {2 * p + 1}
    BY NumPesAssumption DEF leaves, PE
  <1>2. IsFiniteSet({2 * p + 1}) /\ Cardinality({2 * p + 1}) = 1
    BY FS_Singleton
  <1>3. /\ IsFiniteSet(leaves(p))
        /\ Cardinality(leaves(p)) <= Cardinality({2 * p + 1})
    BY <1>1, <1>2, FS_Subset
  <1> QED
    BY <1>2, <1>3, FS_CardinalityType

(* The counter of p does not grow, once p has contributed *)
Lowers(p) == \E k \in Int : produce(p, k) /\ (k <= 0 \/ p \notin contributed)

LEMMA LowersDeclines ==
    ASSUME DetectorTypeOK, Declines, NEW p \in PE, Lowers(p)
    PROVE  Declines'
  <1>1. PICK k \in Int : produce(p, k) /\ (k <= 0 \/ p \notin contributed)
    BY DEF Lowers
  <1>2. lcount' = [lcount EXCEPT ![p] = @ + k] /\ UNCHANGED <<contributed, cut>>
    BY <1>1 DEF produce
  <1>3. ASSUME NEW q \in contributed
        PROVE  lcount'[q] <= cut[q]
    <2>1. q \in PE /\ lcount[q] \in Int /\ cut[q] \in Int /\ lcount[q] <= cut[q]
      BY DEF DetectorTypeOK, Declines
    <2>2. CASE q = p
      BY <1>1, <1>2, <2>1, <2>2 DEF DetectorTypeOK
    <2>3. CASE q # p
      BY <1>2, <2>1, <2>3 DEF DetectorTypeOK
    <2> QED
      BY <2>2, <2>3
  <1> QED
    BY <1>2, <1>3 DEF Declines

LEMMA RegisterLowers ==
    ASSUME NEW p \in PE, NEW e, NEW rest, NEW n \in Int, n <= 0,
           register_endpoint(p, e, rest, n),
           p \notin contributed \/ (NumPes <= 4 /\ (p # 0 \/ NumPes <= 2))
    PROVE  Lowers(p)
  <1>1. Cardinality(leaves(p)) \in Nat
    <2>1. leaves(p) \subseteq PE /\ IsFiniteSet(PE)
      BY FinitePEs DEF leaves
    <2> QED
      BY <2>1, FS_Subset, FS_CardinalityType
  <1>2. produce(p, n + Cardinality(leaves(p)) - 1)
    BY DEF register_endpoint
  <1>3. n + Cardinality(leaves(p)) - 1 \in Int
    BY <1>1
  <1>4. p \notin contributed \/ n + Cardinality(leaves(p)) - 1 <= 0
    BY <1>1, OneLeaf
  <1> QED
    BY <1>2, <1>3, <1>4 DEF Lowers

LEMMA AskingLowers ==
    ASSUME Orderly, Spread, NEW p \in PE, NEW e, NEW src, NEW rest,
           NEW n \in Int, n <= -1 \/ p \notin contributed,
           send_upstream(p, e, src, rest, n)
    PROVE  Lowers(p)
  <1>1. n + 1 \in Int /\ (n + 1 <= 0 \/ p \notin contributed)
    OBVIOUS
  <1>2. CASE produce(p, n + 1)
    BY <1>1, <1>2 DEF Lowers
  <1>3. ASSUME p = 0, endpoint[p] = NoElem, register_endpoint(p, e, rest, n + 1)
        PROVE  Lowers(p)
    <2>1. CASE p \notin contributed
      <3>1. Cardinality(leaves(p)) \in Nat
        <4>1. leaves(p) \subseteq PE /\ IsFiniteSet(PE)
          BY FinitePEs DEF leaves
        <4> QED
          BY <4>1, FS_Subset, FS_CardinalityType
      <3>2. produce(p, (n + 1) + Cardinality(leaves(p)) - 1)
        BY <1>3 DEF register_endpoint
      <3>3. (n + 1) + Cardinality(leaves(p)) - 1 \in Int
        BY <3>1
      <3> QED
        BY <2>1, <3>2, <3>3 DEF Lowers
    <2>2. CASE p \in contributed
      <3>1. p \in constructed
        BY <2>2 DEF Orderly
      <3>2. NumPes <= 2
        BY <1>3, <3>1 DEF Spread
      <3>3. NumPes <= 4
        BY <3>2, NumPesAssumption
      <3>4. n + 1 <= 0
        BY <1>1, <2>2
      <3> QED
        BY <1>1, <1>3, <3>2, <3>3, <3>4, RegisterLowers
    <2> QED
      BY <2>1, <2>2
  <1> QED
    BY <1>2, <1>3 DEF send_upstream

LEMMA CreatingLowers ==
    ASSUME Orderly, Spread, NEW p \in PE, NEW e, NEW rest,
           NEW n \in Int, n <= 0 \/ p \notin contributed,
           Create(p, e, rest, n)
    PROVE  Lowers(p)
  <1>1. n - 1 \in Int /\ (n - 1 <= -1 \/ p \notin contributed)
    OBVIOUS
  <1>2. CASE send_upstream(p, e, p, rest \cup InformHome(p, e), n - 1)
    BY <1>1, <1>2, AskingLowers
  <1>3. CASE produce(p, n - 1)
    <2>1. n - 1 <= 0 \/ p \notin contributed
      BY <1>1
    <2> QED
      BY <1>1, <1>3, <2>1 DEF Lowers
  <1> QED
    BY <1>2, <1>3 DEF Create

(* A wave that sums to zero found nothing outstanding *)
LEMMA ZeroIsQuiet ==
    ASSUME Shape, MatchInv, Orderly, Ongoing, contributed = PE,
           SumOver(cut, PE) = 0
    PROVE  Quiet
  <1>1. /\ \A p \in PE : lcount[p] \in Int /\ cut[p] \in Int /\ lcount[p] <= cut[p]
        /\ IsFiniteSet(PE)
    BY FinitePEs DEF MatchInv, OtherTypes, DetectorTypeOK, Ongoing, Declines
  <1>2. SumOver(lcount, PE) <= SumOver(cut, PE)
    BY <1>1, SumOverLess
  <1>3. SumOver(lcount, PE) = Cardinality(Events(net)) /\ IsFiniteSet(Events(net))
    BY DEF MatchInv, Ongoing, Balanced
  <1>4. Cardinality(Events(net)) \in Nat
    BY <1>3, FS_CardinalityType
  <1>5. Cardinality(Events(net)) = 0
    BY <1>2, <1>3, <1>4
  <1>6. Events(net) = {}
    BY <1>3, <1>5, FS_EmptySet
  <1>7. constructed = PE /\ concluded
    BY PEs DEF Orderly, MatchInv, OtherTypes
  <1>8. inserted = Elem
    <2>1. CASE HasOptions
      <3>1. \A e \in Elem : home_pe(e) \in constructed
        BY <1>7, HomePE
      <3>2. \A e \in Elem : e \in inserted
        BY <2>1, <3>1 DEF Orderly
      <3> QED
        BY <3>2 DEF MatchInv, OtherTypes
    <2>2. CASE ~HasOptions
      BY <1>7, <2>2 DEF Orderly
    <2> QED
      BY <2>1, <2>2
  <1> QED
    BY <1>6, <1>8 DEF Quiet, Events, Counted

(* Creating an element on p: where the packets are, and the endpoint *)
LEMMA CreatingOrders ==
    ASSUME Shape, TreeType, NEW p \in PE, NEW e \in Elem, NEW rest, NEW n,
           Create(p, e, rest, n), chares[0] # {} => endpoint[0] # NoElem
    PROVE  /\ UNCHANGED <<contributed, counts, cut, is_inserting>>
           /\ chares'[0] # {} => endpoint'[0] # NoElem
           /\ \A k \in net' : k.type \in {"ctor", "status", "complete"} => k \in rest
  <1>1. chares' = [chares EXCEPT ![p] = @ \cup {e}]
    BY DEF Create
  <1>2. \A k \in InformHome(p, e) : k.type = "location"
    BY DEF InformHome, Location
  <1>3. e # NoElem
    BY ElemAssumption DEF NoElem
  <1>4. CASE /\ LeastLoaded(chares[p] \cup {e}, e) = {}
             /\ send_upstream(p, e, p, rest \cup InformHome(p, e), n - 1)
    <2>1. /\ UNCHANGED <<contributed, counts, cut, is_inserting>>
          /\ \A k \in net' : k.type \in {"ctor", "status", "complete"} => k \in rest
      BY <1>2, <1>4 DEF Create, send_upstream, register_endpoint, produce,
                        Downstream, Endpoint
    <2>2. chares'[0] # {} => endpoint'[0] # NoElem
      <3>1. CASE p # 0
        BY <1>1, <1>4, <3>1, PEs DEF send_upstream, Shape
      <3>2. CASE p = 0 /\ endpoint[p] = NoElem
        BY <1>3, <1>4, <3>2 DEF send_upstream, register_endpoint, Shape
      <3>3. CASE p = 0 /\ endpoint[p] # NoElem
        BY <1>4, <3>3 DEF send_upstream
      <3> QED
        BY <3>1, <3>2, <3>3
    <2> QED
      BY <2>1, <2>2
  <1>5. ASSUME NEW c \in LeastLoaded(chares[p] \cup {e}, e),
               net' = rest \cup InformHome(p, e), produce(p, n - 1),
               endpoint' = endpoint
        PROVE  /\ UNCHANGED <<contributed, counts, cut, is_inserting>>
               /\ chares'[0] # {} => endpoint'[0] # NoElem
               /\ \A k \in net' : k.type \in {"ctor", "status", "complete"}
                                      => k \in rest
    <2>1. UNCHANGED <<contributed, counts, cut, is_inserting>>
      BY <1>5 DEF Create, produce
    <2>2. c \in chares[p]
      BY DEF LeastLoaded
    <2>3. chares'[0] # {} => endpoint'[0] # NoElem
      BY <1>1, <1>5, <2>2, PEs DEF Shape
    <2> QED
      BY <1>2, <1>5, <2>1, <2>3
  <1> QED
    BY <1>4, <1>5 DEF Create

(* Steps that insert nothing and start nothing *)
LEMMA OrderlyStays ==
    ASSUME Orderly,
           UNCHANGED <<constructed, concluded, contributed, counts, inserted>>,
           \A k \in net' : k.type = "ctor" => k \in net,
           chares'[0] # {} => endpoint'[0] # NoElem
    PROVE  Orderly'
  BY DEF Orderly

LEMMA OngoingStays ==
    ASSUME Ongoing, DetectorTypeOK, NEW p \in PE, Lowers(p),
           UNCHANGED <<counts, is_inserting>>,
           \A k \in net' : k.type = "complete" => k \in net
    PROVE  Ongoing'
  <1>1. Declines'
    BY LowersDeclines DEF Ongoing
  <1> QED
    BY <1>1 DEF Ongoing, Decided

LEMMA OngoingSame ==
    ASSUME Ongoing, UNCHANGED <<detector, is_inserting>>,
           \A k \in net' : k.type = "complete" => k \in net
    PROVE  Ongoing'
  BY DEF Ongoing, Decided, Declines, detector

(* A PE contributes what it counts *)
LEMMA OngoingContributes ==
    ASSUME Ongoing, DetectorTypeOK, NEW p \in PE, contribute(p), lcount' = lcount,
           \A n \in counts' : n.gcount # 0, is_inserting' = is_inserting,
           \A k \in net' : k.type = "complete" => k \in net
    PROVE  Ongoing'
  <1>1. Declines'
    BY DEF Ongoing, Declines, contribute, DetectorTypeOK
  <1> QED
    BY <1>1 DEF Ongoing, Decided

(* Nothing comes after quiet *)
LEMMA QuietStays ==
    ASSUME Quiet, inserted' = inserted,
           \A k \in net' : k.type \in {"ctor", "downstream", "upstream", "endpoint"}
                               => k \in net
    PROVE  Quiet'
  BY DEF Quiet, Counted

LEMMA SumStep ==
    /\ LinkInv /\ MatchInv /\ Once /\ Spread /\ SumInv /\ [Next]_vars
    => SumInv'
  <1> SUFFICES ASSUME LinkInv, MatchInv, Once, Spread, SumInv, [Next]_vars
               PROVE  Orderly' /\ (Quiet' \/ Ongoing')
    BY DEF SumInv
  <1>a. /\ Shape /\ OneEndpoint /\ TreeType /\ DetectorTypeOK /\ Orderly
        /\ net \subseteq Packet /\ inserted \subseteq Elem
    BY DEF LinkInv, Shape, Family, MatchInv, OtherTypes, SumInv
  <1>b. Quiet \/ Ongoing
    BY DEF SumInv
  <1>c. chares[0] # {} => endpoint[0] # NoElem
    BY <1>a DEF Orderly
  (* Steps that are neither the detector's nor the tree builder's *)
  <1>0. ASSUME UNCHANGED <<detector, is_inserting, chares, endpoint, phase>>,
               \A k \in net' : k.type \in {"ctor", "downstream", "upstream",
                                           "endpoint", "complete"} => k \in net
        PROVE  Orderly' /\ (Quiet' \/ Ongoing')
    <2>1. Orderly'
      BY <1>0, <1>a, <1>c, OrderlyStays DEF detector, phase
    <2>2. CASE Quiet
      BY <1>0, <2>1, <2>2, QuietStays DEF phase
    <2>3. CASE Ongoing
      BY <1>0, <2>1, <2>3, OngoingSame
    <2> QED
      BY <1>b, <2>2, <2>3
  <1>1. ASSUME NEW p \in PE, NEW e \in Elem, Insert(p, e)
        PROVE  Orderly' /\ (Quiet' \/ Ongoing')
    <2> DEFINE to == IF InsertOn[e] = NoPe THEN home_pe(e) ELSE InsertOn[e]
    <2>1. /\ ~HasOptions /\ ~concluded /\ e \notin inserted
          /\ net' = net \cup {Ctor(e, to)} /\ produce(p, 1)
          /\ UNCHANGED <<constructed, concluded, is_inserting, endpoint, chares>>
      BY <1>1 DEF Insert
    <2>2. UNCHANGED <<contributed, counts, cut>>
      BY <2>1 DEF produce
    <2>3. Orderly' /\ p \notin contributed
      BY <1>a, <2>1, <2>2 DEF Orderly
    <2>4. Lowers(p)
      BY <2>1, <2>3 DEF Lowers
    <2>5. \A k \in net' : k.type = "complete" => k \in net
      BY <2>1 DEF Ctor
    <2>6. Ongoing
      BY <1>b, <2>1 DEF Quiet
    <2> QED
      BY <1>a, <2>1, <2>2, <2>3, <2>4, <2>5, <2>6, OngoingStays
  <1>2. ASSUME DoneInserting
        PROVE  Orderly' /\ (Quiet' \/ Ongoing')
    <2>1. /\ inserted = Elem /\ ~concluded /\ concluded' = TRUE
          /\ net' = net \cup {Status(q) : q \in PE}
          /\ UNCHANGED <<detector, constructed, inserted, is_inserting,
                         endpoint, chares>>
      BY <1>2 DEF DoneInserting
    <2>2. \A k \in net' : k \in net \/ k.type = "status"
      BY <2>1 DEF Status
    <2>3. Orderly'
      BY <1>a, <2>1, <2>2 DEF Orderly, detector
    <2>4. CASE Quiet
      BY <2>1, <2>2, <2>3, <2>4, QuietStays
    <2>5. CASE Ongoing
      BY <2>1, <2>2, <2>3, <2>5, OngoingSame
    <2> QED
      BY <1>b, <2>4, <2>5
  <1>3. ASSUME NEW p \in PE, SeedNext(p)
        PROVE  Orderly' /\ (Quiet' \/ Ongoing')
    <2>1. PICK e \in Seeds(p) :
              inserted' = inserted \cup {e} /\ Create(p, e, net, 1)
      BY <1>3 DEF SeedNext
    <2>2. e \in Elem /\ e \notin inserted /\ p \notin constructed
          /\ UNCHANGED <<constructed, concluded>>
      BY <1>3 DEF Seeds, SeedNext
    <2>3. /\ UNCHANGED <<contributed, counts, cut, is_inserting>>
          /\ chares'[0] # {} => endpoint'[0] # NoElem
          /\ \A k \in net' : k.type \in {"ctor", "status", "complete"} => k \in net
      BY <1>a, <1>c, <2>1, <2>2, CreatingOrders
    <2>4. HasOptions /\ p \notin contributed
      BY <1>a, <2>2 DEF Once, Orderly
    <2>5. Orderly'
      BY <1>a, <2>1, <2>2, <2>3, <2>4 DEF Orderly
    <2>6. Lowers(p)
      BY <1>a, <2>1, <2>4, CreatingLowers
    <2>7. Ongoing
      BY <1>b, <2>2 DEF Quiet
    <2> QED
      BY <1>a, <2>3, <2>5, <2>6, <2>7, OngoingStays
  <1>4. ASSUME NEW p \in PE, FinishConstruct(p)
        PROVE  Orderly' /\ (Quiet' \/ Ongoing')
    <2>1. /\ p \notin constructed /\ constructed' = constructed \cup {p}
          /\ contribute(p) /\ Seeds(p) = {}
          /\ UNCHANGED <<lcount, counts, is_inserting, concluded, inserted, net,
                         endpoint, chares>>
      BY <1>4 DEF FinishConstruct, start_detection
    <2>2. HasOptions /\ concluded
      BY <2>1 DEF Once
    <2>3. \A e \in Elem : home_pe(e) = p => e \in inserted
      BY <2>1 DEF Seeds
    <2>4. Orderly'
      BY <1>a, <2>1, <2>2, <2>3 DEF Orderly, contribute, MatchInv, OtherTypes
    <2>5. CASE Quiet
      BY <2>1, <2>4, <2>5, QuietStays
    <2>6. CASE Ongoing
      <3>1. \A n \in counts' : n.gcount # 0
        BY <2>1, <2>6 DEF Ongoing, Decided
      <3> QED
        BY <1>a, <2>1, <2>4, <2>6, <3>1, OngoingContributes
    <2> QED
      BY <1>b, <2>5, <2>6
  <1>5. ASSUME NEW n \in net, ReceiveCtor(n)
        PROVE  Orderly' /\ (Quiet' \/ Ongoing')
    <2>1. Create(n.to, n.idx, net \ {n}, 0) /\ n.type = "ctor"
          /\ UNCHANGED <<constructed, concluded, inserted>>
      BY <1>5 DEF ReceiveCtor, Handles, phase
    <2>2. n.to \in PE /\ n.idx \in Elem
      BY <1>a, <2>1, PacketFields
    <2>3. /\ UNCHANGED <<contributed, counts, cut, is_inserting>>
          /\ chares'[0] # {} => endpoint'[0] # NoElem
          /\ \A k \in net' : k.type \in {"ctor", "status", "complete"}
                                 => k \in net \ {n}
      BY <1>a, <1>c, <2>1, <2>2, CreatingOrders
    <2>4. Orderly'
      BY <1>a, <2>1, <2>3, OrderlyStays
    <2>5. Lowers(n.to)
      BY <1>a, <2>1, <2>2, CreatingLowers
    <2>6. Ongoing
      BY <1>b, <2>1 DEF Quiet, Counted
    <2> QED
      BY <1>a, <2>2, <2>3, <2>4, <2>5, <2>6, OngoingStays
  <1>6. ASSUME NEW n \in net, ReceiveLocation(n)
        PROVE  Orderly' /\ (Quiet' \/ Ongoing')
    BY <1>0, <1>6 DEF ReceiveLocation, Handles
  <1>7. ASSUME NEW n \in net, ReceiveDownstream(n)
        PROVE  Orderly' /\ (Quiet' \/ Ongoing')
    <2>1. /\ n.type = "downstream" /\ n.to \in PE /\ n.idx \in Elem
          /\ UNCHANGED <<phase, is_inserting, chares>>
      BY <1>7, <1>a, PacketFields DEF ReceiveDownstream, Handles
    <2>2. Ongoing
      BY <1>b, <2>1 DEF Quiet, Counted
    <2>3. CASE send_upstream(n.to, n.idx, n.src, net \ {n}, -1)
      <3>1. /\ UNCHANGED <<contributed, counts>>
            /\ \A k \in net' : k.type \in {"ctor", "complete"} => k \in net
        BY <2>3 DEF send_upstream, register_endpoint, produce, Downstream, Endpoint
      <3>2. endpoint'[0] = endpoint[0] \/ endpoint'[0] # NoElem
        BY <1>a, <2>1, <2>3, ElemAssumption
           DEF send_upstream, register_endpoint, Shape, NoElem
      <3>3. Orderly'
        BY <1>a, <1>c, <2>1, <3>1, <3>2, OrderlyStays DEF phase
      <3>4. Lowers(n.to)
        <4>1. -1 \in Int /\ -1 <= -1
          OBVIOUS
        <4> QED
          BY <1>a, <2>1, <2>3, <4>1, AskingLowers
      <3> QED
        BY <1>a, <2>1, <2>2, <3>1, <3>3, <3>4, OngoingStays
    <2>4. ASSUME NEW c, net' = (net \ {n}) \cup {Upstream(c, n.src)},
                 UNCHANGED <<detector, endpoint>>
          PROVE  Orderly' /\ (Quiet' \/ Ongoing')
      <3>1. \A k \in net' : k.type \in {"ctor", "complete"} => k \in net
        BY <2>4 DEF Upstream
      <3>2. Orderly'
        BY <1>a, <1>c, <2>1, <2>4, <3>1, OrderlyStays DEF phase, detector
      <3> QED
        BY <2>1, <2>2, <2>4, <3>1, <3>2, OngoingSame
    <2> QED
      BY <1>7, <2>3, <2>4 DEF ReceiveDownstream
  <1>8. ASSUME NEW n \in net, ReceiveUpstream(n)
        PROVE  Orderly' /\ (Quiet' \/ Ongoing')
    <2>1. /\ n.type = "upstream" /\ n.to \in PE /\ net' = net \ {n}
          /\ produce(n.to, -1)
          /\ UNCHANGED <<phase, is_inserting, chares, endpoint>>
      BY <1>8, <1>a, PacketFields DEF ReceiveUpstream, Handles
    <2>2. Ongoing
      BY <1>b, <2>1 DEF Quiet, Counted
    <2>3. Lowers(n.to) /\ UNCHANGED <<contributed, counts>>
      <3>1. -1 \in Int /\ -1 <= 0
        OBVIOUS
      <3> QED
        BY <2>1, <3>1 DEF Lowers, produce
    <2>4. Orderly'
      BY <1>a, <1>c, <2>1, <2>3, OrderlyStays DEF phase
    <2> QED
      BY <1>a, <2>1, <2>2, <2>3, <2>4, OngoingStays
  <1>9. ASSUME NEW n \in net, ReceiveEndpoint(n)
        PROVE  Orderly' /\ (Quiet' \/ Ongoing')
    <2>1. /\ n.type = "endpoint" /\ n.to \in PE /\ n.idx \in Elem
          /\ endpoint[n.to] = NoElem /\ n.idx = endpoint[0]
          /\ register_endpoint(n.to, n.idx, net \ {n}, 0)
          /\ UNCHANGED <<phase, is_inserting, chares>>
      BY <1>9, <1>a, PacketFields
         DEF ReceiveEndpoint, Handles, EndpointExpected, OneEndpoint
    <2>2. n.to # 0 /\ n.idx # NoElem
      BY <2>1, ElemAssumption DEF NoElem
    <2>3. Ongoing
      BY <1>b, <2>1 DEF Quiet, Counted
    <2>4. Lowers(n.to)
      <3>1. NumPes <= 4
        BY NumPesAssumption DEF Spread
      <3>2. 0 \in Int /\ 0 <= 0
        OBVIOUS
      <3> QED
        BY <2>1, <2>2, <3>1, <3>2, RegisterLowers
    <2>5. /\ UNCHANGED <<contributed, counts>> /\ endpoint'[0] = endpoint[0]
          /\ \A k \in net' : k.type \in {"ctor", "complete"} => k \in net
      BY <1>a, <2>1, <2>2, PEs DEF register_endpoint, produce, Endpoint, Shape
    <2>6. Orderly'
      BY <1>a, <1>c, <2>1, <2>5, OrderlyStays DEF phase
    <2> QED
      BY <1>a, <2>1, <2>3, <2>4, <2>5, <2>6, OngoingStays
  <1>10. ASSUME NEW n \in net, ReceiveStatus(n)
         PROVE  Orderly' /\ (Quiet' \/ Ongoing')
    <2>1. /\ n.type = "status" /\ n.to \in constructed /\ net' = net \ {n}
          /\ contribute(n.to) /\ n.to \in PE
          /\ UNCHANGED <<lcount, counts, is_inserting, phase, endpoint, chares>>
      BY <1>10, <1>a, PacketFields DEF ReceiveStatus, Handles, start_detection
    <2>2. concluded /\ ~HasOptions
      BY <2>1 DEF Once
    <2>3. Orderly'
      BY <1>a, <2>1, <2>2 DEF Orderly, contribute, phase
    <2>4. CASE Quiet
      BY <2>1, <2>3, <2>4, QuietStays DEF phase
    <2>5. CASE Ongoing
      <3>1. \A m \in counts' : m.gcount # 0
        BY <2>1, <2>5 DEF Ongoing, Decided
      <3> QED
        BY <1>a, <2>1, <2>3, <2>5, <3>1, OngoingContributes
    <2> QED
      BY <1>b, <2>4, <2>5
  <1>11. CASE ReceiveResult
    <2>1. /\ contributed = PE /\ contributed' = {}
          /\ counts' = counts \cup {Count(0, SumOver(cut, PE))}
          /\ UNCHANGED <<lcount, cut, phase, is_inserting, net, endpoint, chares>>
      BY <1>11, SumOfCuts DEF ReceiveResult, SendResult
    <2>2. constructed = PE /\ concluded
      BY <1>a, <2>1, PEs DEF Orderly, MatchInv, OtherTypes
    <2>3. Orderly'
      BY <1>a, <2>1, <2>2 DEF Orderly, phase
    <2>4. CASE Quiet
      BY <2>1, <2>3, <2>4, QuietStays DEF phase
    <2>5. CASE Ongoing /\ SumOver(cut, PE) = 0
      <3>1. Quiet
        BY <1>a, <2>1, <2>5, ZeroIsQuiet
      <3> QED
        BY <2>1, <2>3, <3>1, QuietStays DEF phase
    <2>6. CASE Ongoing /\ SumOver(cut, PE) # 0
      <3>1. Count(0, SumOver(cut, PE)).gcount # 0
        BY <2>6 DEF Count
      <3> QED
        BY <2>1, <2>3, <2>6, <3>1 DEF Ongoing, Decided, Declines
    <2> QED
      BY <1>b, <2>4, <2>5, <2>6
  <1>12. ASSUME NEW n \in counts, ReceiveCount(n)
         PROVE  Orderly' /\ (Quiet' \/ Ongoing')
    <2> DEFINE copies == {Count(q, n.gcount) : q \in span_tree_children(n.to)}
    <2>1. /\ counts' = (counts \ {n}) \cup copies
          /\ net' = IF Fires(n) THEN net \cup {Complete(q) : q \in PE} ELSE net
          /\ UNCHANGED <<phase, is_inserting, endpoint, chares>>
          /\ n.to \in PE
      BY <1>12, <1>a DEF ReceiveCount, receive_count, DetectorTypeOK
    <2>2. contributed' \subseteq contributed \cup {n.to}
      BY <1>12 DEF ReceiveCount, receive_count, contribute
    <2>3. constructed = PE /\ concluded
      BY <1>a DEF Orderly
    <2>4. \A k \in net' : k \in net \/ k.type = "complete"
      BY <2>1 DEF Complete
    <2>5. \A m \in copies : m.gcount = n.gcount
      BY DEF Count
    <2> HIDE DEF copies
    <2>6. Orderly'
      BY <1>a, <2>1, <2>2, <2>3, <2>4 DEF Orderly, phase
    <2>7. CASE Quiet
      BY <2>1, <2>4, <2>6, <2>7, QuietStays DEF phase
    <2>8. CASE Ongoing
      <3>1. n.gcount # 0
        BY <2>8 DEF Ongoing, Decided
      <3>2. contribute(n.to) /\ lcount' = lcount /\ net' = net
        BY <1>12, <2>1, <3>1 DEF ReceiveCount, receive_count, IsComplete, Fires
      <3>3. \A m \in counts' : m.gcount # 0
        BY <2>1, <2>5, <2>8, <3>1 DEF Ongoing, Decided
      <3> QED
        BY <1>a, <2>1, <2>6, <2>8, <3>2, <3>3, OngoingContributes
    <2> QED
      BY <1>b, <2>7, <2>8
  <1>13. ASSUME NEW n \in net, ReceiveComplete(n)
         PROVE  Orderly' /\ (Quiet' \/ Ongoing')
    <2>1. /\ n.type = "complete" /\ net' = net \ {n}
          /\ UNCHANGED <<detector, phase, endpoint, chares>>
      BY <1>13 DEF ReceiveComplete, Handles
    <2>2. Quiet
      BY <1>b, <2>1 DEF Ongoing, Decided
    <2>3. Orderly'
      BY <1>a, <1>c, <2>1, OrderlyStays DEF detector, phase
    <2> QED
      BY <2>1, <2>2, <2>3, QuietStays DEF phase
  <1>14. CASE UNCHANGED vars
    BY <1>0, <1>14 DEF vars
  <1> QED
    BY <1>1, <1>2, <1>3, <1>4, <1>5, <1>6, <1>7, <1>8, <1>9, <1>10, <1>11,
       <1>12, <1>13, <1>14 DEF Next

(* On machines of two PEs, and on one of up to four for a collection with  *)
(* options that has an element at home on PE 0, the phase never ends too   *)
(* early, whatever the elements and the order of messages; so they form    *)
(* one tree then and no assertion fails (completion.hpp:113, 124;          *)
(* collection_bridge.hpp).                                                 *)
THEOREM SoundOnFewPes ==
    ASSUME FewPes
    PROVE  Spec => [](DetectionSound /\ SpanningTree /\ AssertionsHold)
  <1> DEFINE Strong == /\ LinkInv /\ MatchInv /\ Once /\ SumInv /\ Known
                       /\ Sought /\ Heard /\ (HasOptions => HomeInv)
  <1>1. Init => Strong
    BY EndpointInit, LinkInit, MatchInit, OnceInit, SumInit, SettleInit, HomeInit
       DEF LinkInv
  <1>2. Strong /\ [Next]_vars => Strong'
    <2> SUFFICES ASSUME Strong, [Next]_vars
                 PROVE  Strong'
      OBVIOUS
    <2>1. Spread
      <3>1. CASE HasOptions
        BY <3>1, FewMeans DEF LinkInv, HomeInv, SumInv
      <3>2. CASE ~HasOptions
        BY <3>2 DEF FewPes, Spread
      <3> QED
        BY <3>1, <3>2
    <2>2. LinkInv' /\ MatchInv'
      BY EndpointStep, LinkStep, MatchStep DEF LinkInv
    <2>3. Once' /\ SumInv'
      BY <2>1, OnceStep, SumStep DEF LinkInv, MatchInv
    <2>4. Known' /\ Sought' /\ Heard'
      BY SettleStep
    <2>5. HasOptions => HomeInv'
      BY HomeStep DEF AllAtHome
    <2> QED
      BY <2>2, <2>3, <2>4, <2>5
  <1>3. Strong => DetectionSound
    BY DEF SumInv, Ongoing, Quiet, DetectionSound
  <1> QED
    BY <1>1, <1>2, <1>3, SpansWhenSound, AssertionsWhenSound, PTL DEF Spec
==============================================================================
