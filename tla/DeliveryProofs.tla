--------------------------- MODULE DeliveryProofs ---------------------------
(***************************************************************************)
(* Theorems about Delivery, for every number of PEs, elements, messages    *)
(* and migrations.                                                         *)
(***************************************************************************)
EXTENDS Hurry, Facts

-----------------------------------------------------------------------------
(* The location tables *)

(* home_pe maps every index to a PE *)
LEMMA HomePE ==
    ASSUME NEW e \in Elem
    PROVE  home_pe(e) \in PE
  BY NumPesAssumption, ElemAssumption DEF home_pe, PE

(* lookup always names a PE: home_pe is its default *)
LEMMA LookupPE ==
    ASSUME LocmgrTypeOK, NEW p \in PE, NEW e \in Elem
    PROVE  lookup(p, e) \in PE
  BY HomePE DEF LocmgrTypeOK, lookup, lookup_cache

(* update_location writes one entry of one table *)
LEMMA UpdateLocationType ==
    ASSUME LocmgrTypeOK, NEW p \in PE, NEW e \in Elem, NEW pe \in PE,
           update_location(p, e, pe)
    PROVE  LocmgrTypeOK'
  <1>1. ASSUME NEW table \in [PE -> [Elem -> PE \cup {NoPe}]]
        PROVE  [table EXCEPT ![p][e] = pe] \in [PE -> [Elem -> PE \cup {NoPe}]]
    OBVIOUS
  <1> QED
    BY <1>1 DEF LocmgrTypeOK, update_location

-----------------------------------------------------------------------------
(* Packets *)

(* What a step of delivery sends are packets *)
LEMMA ForwardType ==
    ASSUME NEW p \in PE, NEW to \in PE, NEW n \in EntryPacket
    PROVE  forward_to(p, n, to) \in EntryPacket
  BY DEF EntryPacket, forward_to

LEMMA RoutingUpdateType ==
    ASSUME NEW p \in PE, NEW e \in Elem, NEW batch \in SUBSET EntryPacket
    PROVE  routing_updates(p, e, batch) \subseteq LocationPacket
  <1> SUFFICES ASSUME NEW n \in batch, n.forwarded
               PROVE  Location(e, n.sender, p, n.msg) \in LocationPacket
    BY DEF routing_updates
  <1> QED
    BY DEF EntryPacket, LocationPacket, Location, Cause

LEMMA InformHomeType ==
    ASSUME NEW p \in PE, NEW e \in Elem, NEW pe \in PE, NEW k \in 0 .. MaxHops
    PROVE  InformHome(p, e, pe, k) \subseteq LocationPacket
  BY HomePE DEF InformHome, Location, LocationPacket, Cause

(* try_deliver, in each of its outcomes, keeps the types *)
LEMMA TryDeliverType ==
    ASSUME TypeOK, LocmgrTypeOK',
           NEW p \in PE, NEW e \in Elem,
           NEW batch \in SUBSET EntryPacket, NEW rest \in SUBSET Packet,
           TryDeliver(p, e, batch, rest)
    PROVE  /\ net' \subseteq Packet
           /\ buffers' \in [PE -> [Elem -> SUBSET EntryPacket]]
           /\ invoked' \in [Msg -> Nat]
  <1>1. CASE Invoke(p, e, batch, rest)
    <2>1. net' \subseteq Packet
      BY <1>1, RoutingUpdateType DEF Invoke, Packet
    <2>2. invoked' \in [Msg -> Nat]
      BY <1>1 DEF Invoke, TypeOK
    <2>3. buffers' \in [PE -> [Elem -> SUBSET EntryPacket]]
      BY <1>1 DEF Invoke, TypeOK
    <2> QED
      BY <2>1, <2>2, <2>3
  <1>2. CASE Hold(p, e, batch, rest)
    BY <1>2 DEF Hold, TypeOK
  <1>3. CASE Forward(p, e, batch, rest)
    <2>1. lookup(p, e)' \in PE
      BY HomePE DEF LocmgrTypeOK, lookup, lookup_cache
    <2>2. net' \subseteq Packet
      BY <1>3, <2>1, ForwardType DEF Forward, Packet
    <2> QED
      BY <1>3, <2>2 DEF Forward, TypeOK
  <1> QED
    BY <1>1, <1>2, <1>3 DEF TryDeliver

-----------------------------------------------------------------------------
(* Type correctness *)

LEMMA TypeInit == Init => TypeOK
  <1> SUFFICES ASSUME Init PROVE TypeOK
    OBVIOUS
  <1>1. LocmgrTypeOK
    BY DEF Init, LocmgrInit, LocmgrTypeOK
  <1>2. chares \in [PE -> SUBSET Elem] /\ inserted \subseteq Elem
    BY DeliveryAssumption DEF Init
  <1> QED
    BY <1>1, <1>2, DeliveryAssumption DEF Init, TypeOK, NoElem

LEMMA TypeStep == TypeOK /\ [Next]_vars => TypeOK'
  <1> SUFFICES ASSUME TypeOK, [Next]_vars PROVE TypeOK'
    OBVIOUS
  <1>1. ASSUME NEW p \in PE, NEW e \in Elem, NEW at \in InsertOn, Insert(p, e, at)
        PROVE  TypeOK'
    <2>1. \A to \in PE, b \in BOOLEAN : Ctor(e, to, b) \in Packet
      BY DEF Ctor, Packet, CtorPacket
    <2>2. FirstStop(p, e) \subseteq PE
      BY LookupPE DEF FirstStop, TypeOK
    <2>3. at # NoPe => at \in PE
      BY DeliveryAssumption
    <2>4. \E to \in PE, b \in BOOLEAN : net' = net \cup {Ctor(e, to, b)}
      BY <1>1, <2>2, <2>3 DEF Insert
    <2>5. net' \subseteq Packet
      BY <2>1, <2>4 DEF TypeOK
    <2> QED
      BY <1>1, <2>5 DEF Insert, TypeOK, tables, LocmgrTypeOK
  <1>2. ASSUME NEW p \in PE, NEW e \in Elem, NEW m \in Msg, Post(p, m, e)
        PROVE  TypeOK'
    <2>1. \A to \in PE : Entry(e, to, m, SenderOf(p, m)) \in EntryPacket
      BY DEF Entry, EntryPacket, SenderOf
    <2>2. FirstStop(p, e) \subseteq PE
      BY LookupPE DEF FirstStop, TypeOK
    <2>3. net' \subseteq Packet
      BY <1>2, <2>1, <2>2 DEF Post, TypeOK, Packet
    <2> QED
      BY <1>2, <2>3 DEF Post, TypeOK, tables, LocmgrTypeOK
  <1>3. ASSUME NEW p \in PE, NEW e \in Elem, NEW dst \in PE, Emigrate(p, e, dst)
        PROVE  TypeOK'
    <2>1. LocmgrTypeOK'
      BY <1>3, UpdateLocationType DEF Emigrate, TypeOK
    <2>2. hop[e] + 1 \in 0 .. MaxHops
      BY <1>3, DeliveryAssumption DEF Emigrate, TypeOK
    <2>3. Chare(e, dst) \in Packet
      BY DEF Chare, Packet, CharePacket
    <2>4. net \cup {Chare(e, dst)} \cup InformHome(p, e, dst, hop[e] + 1)
            \in SUBSET Packet
      BY <2>2, <2>3, InformHomeType DEF TypeOK, Packet
    <2>5. buffers[p][e] \in SUBSET EntryPacket
      BY DEF TypeOK
    <2>6. /\ net' \subseteq Packet
          /\ buffers' \in [PE -> [Elem -> SUBSET EntryPacket]]
          /\ invoked' \in [Msg -> Nat]
      BY <1>3, <2>1, <2>4, <2>5, TryDeliverType DEF Emigrate, FlushBuffers
    <2>7. chares' \in [PE -> SUBSET Elem]
      BY <1>3 DEF Emigrate, Erase, TypeOK
    <2>8. hop' \in [Elem -> 0 .. MaxHops]
      BY <1>3, <2>2 DEF Emigrate, TypeOK
    <2> QED
      BY <1>3, <2>1, <2>6, <2>7, <2>8 DEF Emigrate, TypeOK
  <1>4. ASSUME NEW n \in net, ReceiveCtor(n)
        PROVE  TypeOK'
    <2>1. n \in CtorPacket /\ n.to \in PE /\ n.idx \in Elem
      BY <1>4 DEF ReceiveCtor, TypeOK, Packet, CtorPacket, EntryPacket,
                  LocationPacket, CharePacket
    <2>2. CASE CreatesHere(n)
      <3>1. /\ Emplace(n.to, n.idx)
            /\ UNCHANGED tables
            /\ FlushBuffers(n.to, n.idx,
                   (net \ {n}) \cup InformHome(n.to, n.idx, n.to, 0))
            /\ UNCHANGED history
        BY <1>4, <2>2 DEF ReceiveCtor
      <3>2. LocmgrTypeOK'
        BY <3>1 DEF tables, TypeOK, LocmgrTypeOK
      <3>3. (net \ {n}) \cup InformHome(n.to, n.idx, n.to, 0) \in SUBSET Packet
        BY <2>1, InformHomeType, DeliveryAssumption DEF TypeOK, Packet
      <3>4. buffers[n.to][n.idx] \in SUBSET EntryPacket
        BY <2>1 DEF TypeOK
      <3>5. /\ net' \subseteq Packet
            /\ buffers' \in [PE -> [Elem -> SUBSET EntryPacket]]
            /\ invoked' \in [Msg -> Nat]
        BY <2>1, <3>1, <3>2, <3>3, <3>4, TryDeliverType DEF FlushBuffers
      <3>6. chares' \in [PE -> SUBSET Elem]
        BY <2>1, <3>1 DEF Emplace, TypeOK
      <3> QED
        BY <3>1, <3>2, <3>5, <3>6 DEF TypeOK, history
    <2>3. CASE ~CreatesHere(n)
      <3>1. [n EXCEPT !.to = home_pe(n.idx)] \in CtorPacket
        BY <2>1, HomePE DEF CtorPacket
      <3>2. net' \subseteq Packet
        BY <1>4, <2>3, <3>1 DEF ReceiveCtor, TypeOK, Packet
      <3> QED
        BY <1>4, <2>3, <3>2 DEF ReceiveCtor, TypeOK, LocmgrTypeOK, history, tables
    <2> QED
      BY <2>2, <2>3
  <1>5. ASSUME NEW n \in net, ReceiveEntry(n)
        PROVE  TypeOK'
    <2>1. n \in EntryPacket /\ n.to \in PE /\ n.idx \in Elem
      BY <1>5 DEF ReceiveEntry, TypeOK, Packet, CtorPacket, EntryPacket,
                  LocationPacket, CharePacket
    <2>2. LocmgrTypeOK'
      BY <1>5 DEF ReceiveEntry, tables, TypeOK, LocmgrTypeOK
    <2>3. {n} \in SUBSET EntryPacket /\ net \ {n} \in SUBSET Packet
      BY <2>1 DEF TypeOK
    <2>4. /\ net' \subseteq Packet
          /\ buffers' \in [PE -> [Elem -> SUBSET EntryPacket]]
          /\ invoked' \in [Msg -> Nat]
      BY <1>5, <2>1, <2>2, <2>3, TryDeliverType DEF ReceiveEntry
    <2> QED
      BY <1>5, <2>2, <2>4 DEF ReceiveEntry, TypeOK, history
  <1>6. ASSUME NEW n \in net, ReceiveLocation(n)
        PROVE  TypeOK'
    <2>1. n \in LocationPacket /\ n.to \in PE /\ n.idx \in Elem /\ n.pe \in PE
      BY <1>6 DEF ReceiveLocation, TypeOK, Packet, CtorPacket, EntryPacket,
                  LocationPacket, CharePacket
    <2>2. LocmgrTypeOK'
      BY <1>6, <2>1, UpdateLocationType DEF ReceiveLocation, TypeOK
    <2>3. buffers[n.to][n.idx] \in SUBSET EntryPacket /\ net \ {n} \in SUBSET Packet
      BY <2>1 DEF TypeOK
    <2>4. /\ net' \subseteq Packet
          /\ buffers' \in [PE -> [Elem -> SUBSET EntryPacket]]
          /\ invoked' \in [Msg -> Nat]
      BY <1>6, <2>1, <2>2, <2>3, TryDeliverType DEF ReceiveLocation, FlushBuffers
    <2> QED
      BY <1>6, <2>2, <2>4 DEF ReceiveLocation, TypeOK, history
  <1>7. ASSUME NEW n \in net, ReceiveChare(n)
        PROVE  TypeOK'
    <2>1. n \in CharePacket /\ n.to \in PE /\ n.idx \in Elem
      BY <1>7 DEF ReceiveChare, TypeOK, Packet, CtorPacket, EntryPacket,
                  LocationPacket, CharePacket
    <2>2. LocmgrTypeOK'
      BY <1>7, <2>1, UpdateLocationType DEF ReceiveChare, TypeOK
    <2>3. buffers[n.to][n.idx] \in SUBSET EntryPacket /\ net \ {n} \in SUBSET Packet
      BY <2>1 DEF TypeOK
    <2>4. /\ net' \subseteq Packet
          /\ buffers' \in [PE -> [Elem -> SUBSET EntryPacket]]
          /\ invoked' \in [Msg -> Nat]
      BY <1>7, <2>1, <2>2, <2>3, TryDeliverType DEF ReceiveChare, FlushBuffers
    <2>5. chares' \in [PE -> SUBSET Elem]
      BY <1>7, <2>1 DEF ReceiveChare, Emplace, TypeOK
    <2> QED
      BY <1>7, <2>2, <2>4, <2>5 DEF ReceiveChare, TypeOK, history
  <1>8. CASE UNCHANGED vars
    BY <1>8 DEF vars, tables, history, TypeOK, LocmgrTypeOK
  <1> QED
    BY <1>1, <1>2, <1>3, <1>4, <1>5, <1>6, <1>7, <1>8 DEF Next

(* Every PE table names PEs only, every packet is well formed and a        *)
(* message marked as forwarded always has a sender to be answered, in      *)
(* every execution of delivery.                                            *)
THEOREM TypeCorrect == Spec => []TypeOK
  BY TypeInit, TypeStep, PTL DEF Spec

-----------------------------------------------------------------------------
(* Elements are conserved *)

Copies(S, e) == {n \in S : n.type \in {"ctor", "chare"} /\ n.idx = e}

(* Delivery sends entry messages and location updates, never an element *)
LEMMA TryDeliverCopies ==
    ASSUME NEW p \in PE, NEW e \in Elem, NEW f \in Elem,
           NEW batch \in SUBSET EntryPacket, NEW rest,
           TryDeliver(p, e, batch, rest)
    PROVE  InTransit(f)' = Copies(rest, f)
  <1>1. \A n \in routing_updates(p, e, batch) : n.type = "location"
    BY DEF routing_updates, Location
  <1>2. \A n \in batch : \A to : forward_to(p, n, to).type = "entry"
    BY DEF EntryPacket, forward_to
  <1>3. CASE Invoke(p, e, batch, rest)
    BY <1>1, <1>3 DEF Invoke, InTransit, Copies
  <1>4. CASE Hold(p, e, batch, rest)
    BY <1>4 DEF Hold, InTransit, Copies
  <1>5. CASE Forward(p, e, batch, rest)
    <2>1. net' = rest \cup {forward_to(p, n, lookup(p, e)') : n \in batch}
      BY <1>5 DEF Forward
    <2>2. \A n \in {forward_to(p, k, lookup(p, e)') : k \in batch} : n.type = "entry"
      BY <1>2
    <2> QED
      BY <2>1, <2>2 DEF InTransit, Copies
  <1> QED
    BY <1>3, <1>4, <1>5 DEF TryDeliver

LEMMA InformHomeCopies ==
    ASSUME NEW p, NEW e, NEW pe, NEW k, NEW f
    PROVE  Copies(InformHome(p, e, pe, k), f) = {}
  BY DEF Copies, InformHome, Location

LEMMA ElementInit == Init => ElementConserved
  <1> SUFFICES ASSUME Init, NEW e \in Elem PROVE Placed(e)
    BY DEF ElementConserved
  <1>1. InTransit(e) = {}
    BY DEF Init, InTransit
  <1>2. CASE e \in Seeded
    <2>1. ResidentOn(e) = {home_pe(e)}
      BY <1>2, HomePE DEF Init, ResidentOn
    <2> QED
      BY <1>1, <1>2, <2>1 DEF Placed, Init, IsSingleton
  <1>3. CASE e \notin Seeded
    <2>1. ResidentOn(e) = {}
      BY <1>3 DEF Init, ResidentOn
    <2> QED
      BY <1>1, <1>3, <2>1 DEF Placed, Init
  <1> QED
    BY <1>2, <1>3

LEMMA ElementStep == TypeOK /\ ElementConserved /\ [Next]_vars => ElementConserved'
  <1> SUFFICES ASSUME TypeOK, ElementConserved, [Next]_vars, NEW f \in Elem
               PROVE  Placed(f)'
    BY DEF ElementConserved
  <1>0. Placed(f)
    BY DEF ElementConserved
  <1>1. ASSUME NEW p \in PE, NEW e \in Elem, NEW at \in InsertOn, Insert(p, e, at)
        PROVE  Placed(f)'
    <2>1. PICK to, b : net' = net \cup {Ctor(e, to, b)}
      BY <1>1 DEF Insert
    <2>2. ResidentOn(f)' = ResidentOn(f)
      BY <1>1 DEF Insert, ResidentOn
    <2>3. CASE f = e
      <3>1. InTransit(f) = {} /\ ResidentOn(f) = {}
        BY <1>0, <1>1, <2>3 DEF Insert, Placed
      <3>2. InTransit(f)' = {Ctor(e, to, b)}
        BY <2>1, <2>3, <3>1 DEF InTransit, Ctor
      <3> QED
        BY <1>1, <2>2, <2>3, <3>1, <3>2 DEF Insert, Placed, IsSingleton
    <2>4. CASE f # e
      <3>1. InTransit(f)' = InTransit(f)
        BY <2>1, <2>4 DEF InTransit, Ctor
      <3> QED
        BY <1>0, <1>1, <2>2, <2>4, <3>1 DEF Insert, Placed
    <2> QED
      BY <2>3, <2>4
  <1>2. ASSUME NEW p \in PE, NEW e \in Elem, NEW m \in Msg, Post(p, m, e)
        PROVE  Placed(f)'
    <2>1. PICK to : net' = net \cup {Entry(e, to, m, SenderOf(p, m))}
      BY <1>2 DEF Post
    <2>2. InTransit(f)' = InTransit(f)
      BY <2>1 DEF InTransit, Entry
    <2> QED
      BY <1>0, <1>2, <2>2 DEF Post, Placed, ResidentOn
  <1>3. ASSUME NEW p \in PE, NEW e \in Elem, NEW dst \in PE, Emigrate(p, e, dst)
        PROVE  Placed(f)'
    <2>1. buffers[p][e] \in SUBSET EntryPacket
      BY DEF TypeOK
    <2>2. InTransit(f)' = Copies(net \cup {Chare(e, dst)}
                                     \cup InformHome(p, e, dst, hop[e] + 1), f)
      BY <1>3, <2>1, TryDeliverCopies DEF Emigrate, FlushBuffers
    <2>3. InTransit(f)' = InTransit(f) \cup Copies({Chare(e, dst)}, f)
      BY <2>2, InformHomeCopies DEF Copies, InTransit
    <2>4. CASE f = e
      <3>1. ResidentOn(f) = {p} /\ InTransit(f) = {} /\ f \in inserted
        BY <1>0, <1>3, <2>4 DEF Emigrate, Placed, ResidentOn, IsSingleton
      <3>2. ResidentOn(f)' = {}
        BY <1>3, <2>4, <3>1 DEF Emigrate, Erase, ResidentOn, TypeOK
      <3>3. InTransit(f)' = {Chare(e, dst)}
        BY <2>3, <2>4, <3>1 DEF Copies, Chare
      <3> QED
        BY <1>3, <3>1, <3>2, <3>3 DEF Emigrate, Placed, IsSingleton
    <2>5. CASE f # e
      <3>1. ResidentOn(f)' = ResidentOn(f)
        BY <1>3, <2>5 DEF Emigrate, Erase, ResidentOn, TypeOK
      <3>2. InTransit(f)' = InTransit(f)
        BY <2>3, <2>5 DEF Copies, Chare
      <3> QED
        BY <1>0, <1>3, <3>1, <3>2 DEF Emigrate, Placed
    <2> QED
      BY <2>4, <2>5
  <1>4. ASSUME NEW n \in net, ReceiveCtor(n)
        PROVE  Placed(f)'
    <2>1. n \in CtorPacket /\ n.to \in PE /\ n.idx \in Elem /\ n.type = "ctor"
      BY <1>4 DEF ReceiveCtor, TypeOK, Packet, CtorPacket, EntryPacket,
                  LocationPacket, CharePacket
    <2>2. inserted' = inserted
      BY <1>4 DEF ReceiveCtor, history
    <2>3. n.idx = f => InTransit(f) = {n} /\ ResidentOn(f) = {} /\ f \in inserted
      BY <1>0, <2>1 DEF Placed, InTransit, IsSingleton
    <2>4. CASE CreatesHere(n)
      <3>1. /\ chares' = [chares EXCEPT ![n.to] = @ \cup {n.idx}]
            /\ TryDeliver(n.to, n.idx, buffers[n.to][n.idx],
                   (net \ {n}) \cup InformHome(n.to, n.idx, n.to, 0))
        BY <1>4, <2>4 DEF ReceiveCtor, Emplace, FlushBuffers
      <3>2. buffers[n.to][n.idx] \in SUBSET EntryPacket
        BY <2>1 DEF TypeOK
      <3>3. InTransit(f)' = Copies((net \ {n})
                \cup InformHome(n.to, n.idx, n.to, 0), f)
        BY <2>1, <3>1, <3>2, TryDeliverCopies
      <3>4. InTransit(f)' = InTransit(f) \ {n}
        BY <3>3, InformHomeCopies DEF Copies, InTransit
      <3>5. CASE n.idx = f
        <4>1. ResidentOn(f)' = {n.to}
          BY <2>1, <2>3, <3>1, <3>5 DEF ResidentOn, TypeOK
        <4> QED
          BY <2>2, <2>3, <3>4, <3>5, <4>1 DEF Placed, IsSingleton
      <3>6. CASE n.idx # f
        <4>1. ResidentOn(f)' = ResidentOn(f)
          BY <2>1, <3>1, <3>6 DEF ResidentOn, TypeOK
        <4>2. InTransit(f)' = InTransit(f)
          BY <3>4, <3>6 DEF InTransit
        <4> QED
          BY <1>0, <2>2, <4>1, <4>2 DEF Placed
      <3> QED
        BY <3>5, <3>6
    <2>5. CASE ~CreatesHere(n)
      <3> DEFINE k == [n EXCEPT !.to = home_pe(n.idx)]
      <3>1. net' = (net \ {n}) \cup {k} /\ chares' = chares
        BY <1>4, <2>5 DEF ReceiveCtor
      <3>2. k.type = "ctor" /\ k.idx = n.idx
        BY <2>1 DEF CtorPacket
      <3>3. ResidentOn(f)' = ResidentOn(f)
        BY <3>1 DEF ResidentOn
      <3>4. CASE n.idx = f
        <4>1. InTransit(f)' = {k}
          BY <2>3, <3>1, <3>2, <3>4 DEF InTransit
        <4> QED
          BY <2>2, <2>3, <3>3, <3>4, <4>1 DEF Placed, IsSingleton
      <3>5. CASE n.idx # f
        <4>1. InTransit(f)' = InTransit(f)
          BY <3>1, <3>2, <3>5 DEF InTransit
        <4> QED
          BY <1>0, <2>2, <3>3, <4>1 DEF Placed
      <3> QED
        BY <3>4, <3>5
    <2> QED
      BY <2>4, <2>5
  <1>5. ASSUME NEW n \in net, ReceiveEntry(n)
        PROVE  Placed(f)'
    <2>1. n \in EntryPacket /\ n.to \in PE /\ n.idx \in Elem /\ n.type = "entry"
      BY <1>5 DEF ReceiveEntry, TypeOK, Packet, CtorPacket, EntryPacket,
                  LocationPacket, CharePacket
    <2>2. InTransit(f)' = Copies(net \ {n}, f)
      BY <1>5, <2>1, TryDeliverCopies DEF ReceiveEntry
    <2>3. InTransit(f)' = InTransit(f)
      BY <2>1, <2>2 DEF Copies, InTransit
    <2> QED
      BY <1>0, <1>5, <2>3 DEF ReceiveEntry, Placed, ResidentOn, history
  <1>6. ASSUME NEW n \in net, ReceiveLocation(n)
        PROVE  Placed(f)'
    <2>1. n \in LocationPacket /\ n.to \in PE /\ n.idx \in Elem /\ n.type = "location"
      BY <1>6 DEF ReceiveLocation, TypeOK, Packet, CtorPacket, EntryPacket,
                  LocationPacket, CharePacket
    <2>2. buffers[n.to][n.idx] \in SUBSET EntryPacket
      BY <2>1 DEF TypeOK
    <2>3. InTransit(f)' = Copies(net \ {n}, f)
      BY <1>6, <2>1, <2>2, TryDeliverCopies DEF ReceiveLocation, FlushBuffers
    <2>4. InTransit(f)' = InTransit(f)
      BY <2>1, <2>3 DEF Copies, InTransit
    <2> QED
      BY <1>0, <1>6, <2>4 DEF ReceiveLocation, Placed, ResidentOn, history
  <1>7. ASSUME NEW n \in net, ReceiveChare(n)
        PROVE  Placed(f)'
    <2>1. n \in CharePacket /\ n.to \in PE /\ n.idx \in Elem /\ n.type = "chare"
      BY <1>7 DEF ReceiveChare, TypeOK, Packet, CtorPacket, EntryPacket,
                  LocationPacket, CharePacket
    <2>2. buffers[n.to][n.idx] \in SUBSET EntryPacket
      BY <2>1 DEF TypeOK
    <2>3. inserted' = inserted /\ chares' = [chares EXCEPT ![n.to] = @ \cup {n.idx}]
      BY <1>7 DEF ReceiveChare, Emplace, history
    <2>4. InTransit(f)' = Copies(net \ {n}, f)
      BY <1>7, <2>1, <2>2, TryDeliverCopies DEF ReceiveChare, FlushBuffers
    <2>5. InTransit(f)' = InTransit(f) \ {n}
      BY <2>4 DEF Copies, InTransit
    <2>6. CASE n.idx = f
      <3>1. InTransit(f) = {n} /\ ResidentOn(f) = {} /\ f \in inserted
        BY <1>0, <2>1, <2>6 DEF Placed, InTransit, IsSingleton
      <3>2. ResidentOn(f)' = {n.to}
        BY <2>1, <2>3, <2>6, <3>1 DEF ResidentOn, TypeOK
      <3> QED
        BY <2>3, <2>5, <3>1, <3>2 DEF Placed, IsSingleton
    <2>7. CASE n.idx # f
      <3>1. ResidentOn(f)' = ResidentOn(f)
        BY <2>1, <2>3, <2>7 DEF ResidentOn, TypeOK
      <3>2. InTransit(f)' = InTransit(f)
        BY <2>5, <2>7 DEF InTransit
      <3> QED
        BY <1>0, <2>3, <3>1, <3>2 DEF Placed
    <2> QED
      BY <2>6, <2>7
  <1>8. CASE UNCHANGED vars
    BY <1>0, <1>8 DEF vars, history, Placed, ResidentOn, InTransit
  <1> QED
    BY <1>1, <1>2, <1>3, <1>4, <1>5, <1>6, <1>7, <1>8 DEF Next

(* No interleaving of insertions, migrations and forwarded constructor     *)
(* messages loses an element or leaves it on two PEs.                      *)
THEOREM ElementsAreConserved == Spec => []ElementConserved
  BY TypeInit, TypeStep, ElementInit, ElementStep, PTL DEF Spec

-----------------------------------------------------------------------------
(* Messages are conserved *)

Entries(S, m) == {n \in S : n.type = "entry" /\ n.msg = m}

(* What waits, packet by packet, now and after a step *)
LEMMA WaitingMember ==
    ASSUME NEW m, NEW w
    PROVE  w \in Waiting(m) <=>
               \E p \in PE, e \in Elem : \E n \in buffers[p][e] :
                   n.msg = m /\ w = <<p, e, n>>
  <1>1. w \in Waiting(m) <=>
            \E p \in PE : w \in UNION {WaitingAt(p, e, m) : e \in Elem}
    BY Zenon DEF Waiting
  <1>2. ASSUME NEW p \in PE
        PROVE  w \in UNION {WaitingAt(p, e, m) : e \in Elem} <=>
                   \E e \in Elem : w \in WaitingAt(p, e, m)
    BY Zenon
  <1>3. ASSUME NEW p \in PE, NEW e \in Elem
        PROVE  w \in WaitingAt(p, e, m) <=>
                   \E n \in buffers[p][e] : n.msg = m /\ w = <<p, e, n>>
    BY Zenon DEF WaitingAt
  <1> QED
    BY <1>1, <1>2, <1>3, Zenon

LEMMA WaitingMemberPrime ==
    ASSUME NEW m, NEW w
    PROVE  w \in Waiting(m)' <=>
               \E p \in PE, e \in Elem : \E n \in buffers'[p][e] :
                   n.msg = m /\ w = <<p, e, n>>
  <1>1. w \in Waiting(m)' <=>
            \E p \in PE : w \in UNION {WaitingAt(p, e, m)' : e \in Elem}
    BY Zenon DEF Waiting
  <1>2. ASSUME NEW p \in PE
        PROVE  w \in UNION {WaitingAt(p, e, m)' : e \in Elem} <=>
                   \E e \in Elem : w \in WaitingAt(p, e, m)'
    BY Zenon
  <1>3. ASSUME NEW p \in PE, NEW e \in Elem
        PROVE  w \in WaitingAt(p, e, m)' <=>
                   \E n \in buffers'[p][e] : n.msg = m /\ w = <<p, e, n>>
    BY Zenon DEF WaitingAt
  <1> QED
    BY <1>1, <1>2, <1>3, Zenon

(* A step of delivery that does not carry m leaves m where it is *)
LEMMA TryDeliverOther ==
    ASSUME TypeOK, NEW p \in PE, NEW e \in Elem, NEW m \in Msg,
           NEW batch \in SUBSET EntryPacket, NEW rest,
           TryDeliver(p, e, batch, rest), target' = target,
           \A n \in batch : n.msg # m,
           Entries(rest, m) = Traveling(m),
           Accounted(m)
    PROVE  Accounted(m)'
  <1>1. \A n \in routing_updates(p, e, batch) : n.type = "location"
    BY DEF routing_updates, Location
  <1>2. \A n \in batch : \A to : forward_to(p, n, to).msg # m
    BY DEF EntryPacket, forward_to
  <1>3. Traveling(m)' = Traveling(m)
    <2>1. CASE Invoke(p, e, batch, rest)
      BY <1>1, <2>1 DEF Invoke, Traveling, Entries
    <2>2. CASE Hold(p, e, batch, rest)
      BY <2>2 DEF Hold, Traveling, Entries
    <2>3. CASE Forward(p, e, batch, rest)
      <3>1. net' = rest \cup {forward_to(p, n, lookup(p, e)') : n \in batch}
        BY <2>3 DEF Forward
      <3>2. \A n \in {forward_to(p, k, lookup(p, e)') : k \in batch} : n.msg # m
        BY <1>2
      <3> QED
        BY <3>1, <3>2 DEF Traveling, Entries
    <2> QED
      BY <2>1, <2>2, <2>3 DEF TryDeliver
  <1>4. \A q \in PE, f \in Elem : \A n :
            n.msg = m => (n \in buffers'[q][f] <=> n \in buffers[q][f])
    <2>1. \/ buffers' = [buffers EXCEPT ![p][e] = @ \ batch]
          \/ buffers' = [buffers EXCEPT ![p][e] = @ \cup batch]
      BY DEF TryDeliver, Invoke, Hold, Forward
    <2> QED
      BY <2>1 DEF TypeOK
  <1>5. Waiting(m)' = Waiting(m)
    <2>1. \A w : w \in Waiting(m)' <=> w \in Waiting(m)
      BY <1>4, WaitingMember, WaitingMemberPrime
    <2> QED
      BY <2>1
  <1>6. invoked'[m] = invoked[m]
    BY DEF TryDeliver, Invoke, Hold, Forward, TypeOK
  <1> QED
    BY <1>3, <1>5, <1>6 DEF Accounted

(* A step of delivery that carries m, and takes it from the only place it  *)
(* was in, runs it or puts it in one place                                 *)
LEMMA TryDeliverThis ==
    ASSUME TypeOK, NEW p \in PE, NEW e \in Elem, NEW m \in Msg,
           NEW batch \in SUBSET EntryPacket, NEW rest,
           TryDeliver(p, e, batch, rest), target' = target,
           target[m] # NoElem, invoked[m] = 0,
           NEW n \in batch, n.msg = m, \A k \in batch : k.msg = m => k = n,
           Entries(rest, m) = {},
           Waiting(m) \subseteq {<<p, e, n>>}
    PROVE  Accounted(m)'
  <1>1. \A k \in routing_updates(p, e, batch) : k.type = "location"
    BY DEF routing_updates, Location
  <1>2. \A q \in PE, f \in Elem : \A k \in buffers[q][f] :
            k.msg = m => q = p /\ f = e /\ k = n
    <2> SUFFICES ASSUME NEW q \in PE, NEW f \in Elem, NEW k \in buffers[q][f],
                        k.msg = m
                 PROVE  q = p /\ f = e /\ k = n
      OBVIOUS
    <2>1. <<q, f, k>> \in Waiting(m)
      BY WaitingMember
    <2>2. <<q, f, k>> = <<p, e, n>>
      BY <2>1
    <2> QED
      BY <2>2
  <1>3. n.type = "entry"
    BY DEF EntryPacket
  <1>4. ASSUME buffers' = [buffers EXCEPT ![p][e] = @ \ batch]
        PROVE  Waiting(m)' = {}
    <2>1. \A q \in PE, f \in Elem : \A k \in buffers'[q][f] : k.msg # m
      BY <1>2, <1>4 DEF TypeOK
    <2> QED
      BY <2>1, WaitingMemberPrime
  <1>5. CASE Invoke(p, e, batch, rest)
    <2>1. Traveling(m)' = {}
      BY <1>1, <1>5 DEF Invoke, Traveling, Entries
    <2>2. Waiting(m)' = {}
      BY <1>4, <1>5 DEF Invoke
    <2>3. invoked'[m] = 1
      BY <1>5 DEF Invoke
    <2> QED
      BY <2>1, <2>2, <2>3 DEF Accounted
  <1>6. CASE Hold(p, e, batch, rest)
    <2>1. Traveling(m)' = {}
      BY <1>6 DEF Hold, Traveling, Entries
    <2>2. \A q \in PE, f \in Elem : \A k :
              k.msg = m => (k \in buffers'[q][f] <=> q = p /\ f = e /\ k = n)
      BY <1>2, <1>6 DEF Hold, TypeOK
    <2>3. Waiting(m)' = {<<p, e, n>>}
      <3>1. \A w : w \in Waiting(m)' <=> w = <<p, e, n>>
        BY <2>2, WaitingMemberPrime
      <3> QED
        BY <3>1
    <2> QED
      BY <1>6, <2>1, <2>3 DEF Hold, Accounted, IsSingleton
  <1>7. CASE Forward(p, e, batch, rest)
    <2> DEFINE fwd(k) == forward_to(p, k, lookup(p, e)')
    <2>1. net' = rest \cup {fwd(k) : k \in batch}
      BY <1>7 DEF Forward
    <2>2. \A k \in batch : fwd(k).type = "entry" /\ fwd(k).msg = k.msg
      BY DEF EntryPacket, forward_to
    <2>3. Traveling(m)' = {fwd(n)}
      <3>1. \A k : k \in Traveling(m)' <=> k \in {fwd(j) : j \in batch} /\ k.msg = m
                                              /\ k.type = "entry"
        BY <2>1 DEF Traveling, Entries
      <3> HIDE DEF fwd
      <3> QED
        BY <2>2, <3>1
    <2>4. Waiting(m)' = {}
      BY <1>4, <1>7 DEF Forward
    <2> QED
      BY <1>7, <2>3, <2>4 DEF Forward, Accounted, IsSingleton
  <1> QED
    BY <1>5, <1>6, <1>7 DEF TryDeliver

(* A flush either carries m or does not *)
LEMMA FlushAccounted ==
    ASSUME TypeOK, NEW p \in PE, NEW e \in Elem, NEW m \in Msg, NEW rest,
           FlushBuffers(p, e, rest), target' = target,
           Entries(rest, m) = Traveling(m),
           Accounted(m)
    PROVE  Accounted(m)'
  <1> DEFINE batch == buffers[p][e]
  <1>1. TryDeliver(p, e, batch, rest) /\ batch \in SUBSET EntryPacket
    BY DEF FlushBuffers, TypeOK
  <1>2. CASE \A n \in batch : n.msg # m
    BY <1>1, <1>2, TryDeliverOther
  <1>3. ASSUME NEW n \in batch, n.msg = m
        PROVE  Accounted(m)'
    <2>1. \A k \in batch : k.msg = m => <<p, e, k>> \in Waiting(m)
      BY WaitingMember
    <2>2. /\ target[m] # NoElem /\ invoked[m] = 0
          /\ Traveling(m) = {} /\ Waiting(m) = {<<p, e, n>>}
      BY <1>3, <2>1 DEF Accounted, IsSingleton
    <2>3. \A k \in batch : k.msg = m => k = n
      BY <2>1, <2>2
    <2> QED
      BY <1>1, <1>3, <2>2, <2>3, TryDeliverThis
  <1> QED
    BY <1>2, <1>3

LEMMA InformHomeEntries ==
    ASSUME NEW p, NEW e, NEW pe, NEW k, NEW m
    PROVE  Entries(InformHome(p, e, pe, k), m) = {}
  BY DEF Entries, InformHome, Location

LEMMA MessageInit == Init => MessageConserved
  <1> SUFFICES ASSUME Init, NEW m \in Msg PROVE Accounted(m)
    BY DEF MessageConserved
  <1>1. Waiting(m) = {}
    <2>1. \A p \in PE, e \in Elem : buffers[p][e] = {}
      BY DEF Init
    <2> QED
      BY <2>1, WaitingMember
  <1>2. Traveling(m) = {}
    BY DEF Init, Traveling
  <1> QED
    BY <1>1, <1>2 DEF Init, Accounted

LEMMA MessageStep == TypeOK /\ MessageConserved /\ [Next]_vars => MessageConserved'
  <1> SUFFICES ASSUME TypeOK, MessageConserved, [Next]_vars, NEW m \in Msg
               PROVE  Accounted(m)'
    BY DEF MessageConserved
  <1>0. Accounted(m)
    BY DEF MessageConserved
  <1>1. ASSUME NEW p \in PE, NEW e \in Elem, NEW at \in InsertOn, Insert(p, e, at)
        PROVE  Accounted(m)'
    <2>1. PICK to, b : net' = net \cup {Ctor(e, to, b)}
      BY <1>1 DEF Insert
    <2>2. Traveling(m)' = Traveling(m)
      BY <2>1 DEF Traveling, Ctor
    <2> QED
      BY <1>0, <1>1, <2>2 DEF Insert, Accounted, Waiting, WaitingAt
  <1>2. ASSUME NEW p \in PE, NEW e \in Elem, NEW k \in Msg, Post(p, k, e)
        PROVE  Accounted(m)'
    <2>1. PICK to : net' = net \cup {Entry(e, to, k, SenderOf(p, k))}
      BY <1>2 DEF Post
    <2>2. Waiting(m)' = Waiting(m) /\ invoked' = invoked
      BY <1>2 DEF Post, Waiting, WaitingAt
    <2>3. CASE k = m
      <3>1. Traveling(m) = {} /\ Waiting(m) = {} /\ invoked[m] = 0
        BY <1>0, <1>2, <2>3 DEF Post, Accounted
      <3>2. Traveling(m)' = {Entry(e, to, k, SenderOf(p, k))}
        BY <2>1, <2>3, <3>1 DEF Traveling, Entry
      <3>3. target'[m] = e /\ e # NoElem
        BY <1>2, <2>3, ElemAssumption DEF Post, TypeOK, NoElem
      <3> QED
        BY <2>2, <3>1, <3>2, <3>3 DEF Accounted, IsSingleton
    <2>4. CASE k # m
      <3>1. Traveling(m)' = Traveling(m)
        BY <2>1, <2>4 DEF Traveling, Entry
      <3>2. target'[m] = target[m]
        BY <1>2, <2>4 DEF Post, TypeOK
      <3> QED
        BY <1>0, <2>2, <3>1, <3>2 DEF Accounted
    <2> QED
      BY <2>3, <2>4
  <1>3. ASSUME NEW p \in PE, NEW e \in Elem, NEW dst \in PE, Emigrate(p, e, dst)
        PROVE  Accounted(m)'
    <2> DEFINE rest == net \cup {Chare(e, dst)}
                           \cup InformHome(p, e, dst, hop[e] + 1)
    <2>1. Entries(rest, m) = Traveling(m)
      BY InformHomeEntries DEF Entries, Traveling, Chare
    <2>2. FlushBuffers(p, e, rest) /\ target' = target
      BY <1>3 DEF Emigrate
    <2> QED
      BY <1>0, <2>1, <2>2, FlushAccounted
  <1>4. ASSUME NEW n \in net, ReceiveCtor(n)
        PROVE  Accounted(m)'
    <2>1. n \in CtorPacket /\ n.to \in PE /\ n.idx \in Elem /\ n.type = "ctor"
      BY <1>4 DEF ReceiveCtor, TypeOK, Packet, CtorPacket, EntryPacket,
                  LocationPacket, CharePacket
    <2>2. target' = target
      BY <1>4 DEF ReceiveCtor, history
    <2>3. CASE CreatesHere(n)
      <3> DEFINE rest == (net \ {n}) \cup InformHome(n.to, n.idx, n.to, 0)
      <3>1. FlushBuffers(n.to, n.idx, rest)
        BY <1>4, <2>3 DEF ReceiveCtor
      <3>2. Entries(rest, m) = Traveling(m)
        BY <2>1, InformHomeEntries DEF Entries, Traveling
      <3> QED
        BY <1>0, <2>1, <2>2, <3>1, <3>2, FlushAccounted
    <2>4. CASE ~CreatesHere(n)
      <3>1. [n EXCEPT !.to = home_pe(n.idx)].type = "ctor"
        BY <2>1 DEF CtorPacket
      <3>2. Traveling(m)' = Traveling(m)
        BY <1>4, <2>1, <2>4, <3>1 DEF ReceiveCtor, Traveling
      <3>3. Waiting(m)' = Waiting(m) /\ invoked' = invoked
        BY <1>4, <2>4 DEF ReceiveCtor, Waiting, WaitingAt
      <3> QED
        BY <1>0, <2>2, <3>2, <3>3 DEF Accounted
    <2> QED
      BY <2>3, <2>4
  <1>5. ASSUME NEW n \in net, ReceiveEntry(n)
        PROVE  Accounted(m)'
    <2>1. n \in EntryPacket /\ n.to \in PE /\ n.idx \in Elem /\ n.type = "entry"
      BY <1>5 DEF ReceiveEntry, TypeOK, Packet, CtorPacket, EntryPacket,
                  LocationPacket, CharePacket
    <2>2. TryDeliver(n.to, n.idx, {n}, net \ {n}) /\ target' = target
      BY <1>5 DEF ReceiveEntry, history
    <2>3. {n} \in SUBSET EntryPacket
      BY <2>1
    <2>4. CASE n.msg = m
      <3>1. /\ target[m] # NoElem /\ invoked[m] = 0
            /\ Traveling(m) = {n} /\ Waiting(m) = {}
        BY <1>0, <2>1, <2>4 DEF Accounted, Traveling, IsSingleton
      <3>2. Entries(net \ {n}, m) = {}
        BY <3>1 DEF Entries, Traveling
      <3> DEFINE batch == {n}
      <3>3. /\ n \in batch /\ \A k \in batch : k.msg = m => k = n
            /\ Waiting(m) \subseteq {<<n.to, n.idx, n>>}
        BY <3>1
      <3>4. batch \in SUBSET EntryPacket /\ TryDeliver(n.to, n.idx, batch, net \ {n})
        BY <2>2, <2>3
      <3> HIDE DEF batch
      <3> QED
        BY <2>1, <2>2, <2>4, <3>1, <3>2, <3>3, <3>4, TryDeliverThis
    <2>5. CASE n.msg # m
      <3>1. Entries(net \ {n}, m) = Traveling(m)
        BY <2>5 DEF Entries, Traveling
      <3> QED
        BY <1>0, <2>1, <2>2, <2>3, <2>5, <3>1, TryDeliverOther
    <2> QED
      BY <2>4, <2>5
  <1>6. ASSUME NEW n \in net, ReceiveLocation(n)
        PROVE  Accounted(m)'
    <2>1. n \in LocationPacket /\ n.to \in PE /\ n.idx \in Elem /\ n.type = "location"
      BY <1>6 DEF ReceiveLocation, TypeOK, Packet, CtorPacket, EntryPacket,
                  LocationPacket, CharePacket
    <2>2. FlushBuffers(n.to, n.idx, net \ {n}) /\ target' = target
      BY <1>6 DEF ReceiveLocation, history
    <2>3. Entries(net \ {n}, m) = Traveling(m)
      BY <2>1 DEF Entries, Traveling
    <2> QED
      BY <1>0, <2>1, <2>2, <2>3, FlushAccounted
  <1>7. ASSUME NEW n \in net, ReceiveChare(n)
        PROVE  Accounted(m)'
    <2>1. n \in CharePacket /\ n.to \in PE /\ n.idx \in Elem /\ n.type = "chare"
      BY <1>7 DEF ReceiveChare, TypeOK, Packet, CtorPacket, EntryPacket,
                  LocationPacket, CharePacket
    <2>2. FlushBuffers(n.to, n.idx, net \ {n}) /\ target' = target
      BY <1>7 DEF ReceiveChare, history
    <2>3. Entries(net \ {n}, m) = Traveling(m)
      BY <2>1 DEF Entries, Traveling
    <2> QED
      BY <1>0, <2>1, <2>2, <2>3, FlushAccounted
  <1>8. CASE UNCHANGED vars
    BY <1>0, <1>8 DEF vars, history, Accounted, Traveling, Waiting, WaitingAt
  <1> QED
    BY <1>1, <1>2, <1>3, <1>4, <1>5, <1>6, <1>7, <1>8 DEF Next

(* Whatever the order of packets, tables' staleness and migrations, no     *)
(* entry message is lost by a PE or run twice.                             *)
THEOREM MessagesAreConserved == Spec => []MessageConserved
  BY TypeInit, TypeStep, MessageInit, MessageStep, PTL DEF Spec

-----------------------------------------------------------------------------
(* Every packet and every buffered message is for the element it was sent  *)
(* to                                                                      *)

Addressed ==
    /\ \A n \in net : n.type = "entry" => target[n.msg] = n.idx
    /\ \A p \in PE, e \in Elem : \A n \in buffers[p][e] :
          n.idx = e /\ target[n.msg] = e

LEMMA TryDeliverAddressed ==
    ASSUME TypeOK, Addressed, NEW p \in PE, NEW e \in Elem,
           NEW batch \in SUBSET EntryPacket, NEW rest,
           TryDeliver(p, e, batch, rest), target' = target,
           \A n \in batch : n.idx = e /\ target[n.msg] = e,
           \A n \in rest : n.type = "entry" => n \in net
    PROVE  Addressed'
  <1>1. \A n \in routing_updates(p, e, batch) : n.type = "location"
    BY DEF routing_updates, Location
  <1>2. \A n \in batch : \A to : /\ forward_to(p, n, to).msg = n.msg
                               /\ forward_to(p, n, to).idx = e
    BY DEF EntryPacket, forward_to
  <1>3. ASSUME NEW n \in net', n.type = "entry" PROVE target[n.msg] = n.idx
    <2>1. n \in rest \/ \E k \in batch : n = forward_to(p, k, lookup(p, e)')
      BY <1>1, <1>3 DEF TryDeliver, Invoke, Hold, Forward
    <2> QED
      BY <1>2, <1>3, <2>1 DEF Addressed
  <1>4. \A q \in PE, f \in Elem : \A n \in buffers'[q][f] :
            n.idx = f /\ target[n.msg] = f
    <2>1. \/ buffers' = [buffers EXCEPT ![p][e] = @ \ batch]
          \/ buffers' = [buffers EXCEPT ![p][e] = @ \cup batch]
      BY DEF TryDeliver, Invoke, Hold, Forward
    <2> QED
      BY <2>1 DEF TypeOK, Addressed
  <1> QED
    BY <1>3, <1>4 DEF Addressed

LEMMA FlushAddressed ==
    ASSUME TypeOK, Addressed, NEW p \in PE, NEW e \in Elem, NEW rest,
           FlushBuffers(p, e, rest), target' = target,
           \A n \in rest : n.type = "entry" => n \in net
    PROVE  Addressed'
  <1>1. buffers[p][e] \in SUBSET EntryPacket
    BY DEF TypeOK
  <1>2. \A n \in buffers[p][e] : n.idx = e /\ target[n.msg] = e
    BY DEF Addressed
  <1> QED
    BY <1>1, <1>2, TryDeliverAddressed DEF FlushBuffers

LEMMA InformHomeLocations ==
    ASSUME NEW p, NEW e, NEW pe, NEW k
    PROVE  \A n \in InformHome(p, e, pe, k) : n.type = "location"
  BY DEF InformHome, Location

LEMMA AddressedStep == TypeOK /\ Addressed /\ [Next]_vars => Addressed'
  <1> SUFFICES ASSUME TypeOK, Addressed, [Next]_vars PROVE Addressed'
    OBVIOUS
  <1>0. \A n \in net : /\ n.to \in PE /\ n.idx \in Elem
                       /\ n.type = "entry" => n \in EntryPacket
    BY DEF TypeOK, Packet, CtorPacket, EntryPacket, LocationPacket, CharePacket
  <1>1. ASSUME NEW p \in PE, NEW e \in Elem, NEW at \in InsertOn, Insert(p, e, at)
        PROVE  Addressed'
    <2>1. PICK to, b : net' = net \cup {Ctor(e, to, b)}
      BY <1>1 DEF Insert
    <2> QED
      BY <1>1, <2>1 DEF Insert, Addressed, Ctor
  <1>2. ASSUME NEW p \in PE, NEW e \in Elem, NEW m \in Msg, Post(p, m, e)
        PROVE  Addressed'
    <2>1. PICK to : net' = net \cup {Entry(e, to, m, SenderOf(p, m))}
      BY <1>2 DEF Post
    <2>2. /\ target[m] = NoElem /\ target' = [target EXCEPT ![m] = e]
          /\ buffers' = buffers
      BY <1>2 DEF Post
    <2>3. NoElem \notin Elem
      BY ElemAssumption DEF NoElem
    <2>4. ASSUME NEW n \in net', n.type = "entry" PROVE target'[n.msg] = n.idx
      <3>1. CASE n \in net
        <4>1. n.msg # m /\ n.msg \in Msg /\ target[n.msg] = n.idx
          BY <1>0, <2>2, <2>3, <2>4, <3>1 DEF Addressed, EntryPacket
        <4> QED
          BY <2>2, <4>1 DEF TypeOK
      <3>2. CASE n = Entry(e, to, m, SenderOf(p, m))
        BY <2>2, <3>2 DEF Entry, TypeOK
      <3> QED
        BY <2>1, <3>1, <3>2
    <2>5. ASSUME NEW q \in PE, NEW f \in Elem, NEW n \in buffers'[q][f]
          PROVE  n.idx = f /\ target'[n.msg] = f
      <3>1. n.idx = f /\ target[n.msg] = f /\ n.msg \in Msg
        BY <2>2, <2>5 DEF Addressed, TypeOK, EntryPacket
      <3> QED
        BY <2>2, <2>3, <3>1 DEF TypeOK
    <2> QED
      BY <2>4, <2>5 DEF Addressed
  <1>3. ASSUME NEW p \in PE, NEW e \in Elem, NEW dst \in PE, Emigrate(p, e, dst)
        PROVE  Addressed'
    <2>1. \A n \in net \cup {Chare(e, dst)} \cup InformHome(p, e, dst, hop[e] + 1) :
              n.type = "entry" => n \in net
      BY InformHomeLocations DEF Chare
    <2> QED
      BY <1>3, <2>1, FlushAddressed DEF Emigrate
  <1>4. ASSUME NEW n \in net, ReceiveCtor(n)
        PROVE  Addressed'
    <2>1. target' = target
      BY <1>4 DEF ReceiveCtor, history
    <2>2. CASE CreatesHere(n)
      <3>1. \A k \in (net \ {n}) \cup InformHome(n.to, n.idx, n.to, 0) :
                k.type = "entry" => k \in net
        BY InformHomeLocations
      <3> QED
        BY <1>0, <1>4, <2>1, <2>2, <3>1, FlushAddressed DEF ReceiveCtor
    <2>3. CASE ~CreatesHere(n)
      <3>1. n \in CtorPacket
        BY <1>4 DEF ReceiveCtor, TypeOK, Packet, CtorPacket, EntryPacket,
                    LocationPacket, CharePacket
      <3>2. [n EXCEPT !.to = home_pe(n.idx)].type = "ctor"
        BY <3>1 DEF CtorPacket
      <3> QED
        BY <1>4, <2>1, <2>3, <3>2 DEF ReceiveCtor, Addressed
    <2> QED
      BY <2>2, <2>3
  <1>5. ASSUME NEW n \in net, ReceiveEntry(n)
        PROVE  Addressed'
    <2>1. /\ TryDeliver(n.to, n.idx, {n}, net \ {n})
          /\ target' = target /\ n.type = "entry"
      BY <1>5 DEF ReceiveEntry, history
    <2>2. {n} \in SUBSET EntryPacket
      BY <1>0, <2>1
    <2>3. \A k \in {n} : k.idx = n.idx /\ target[k.msg] = n.idx
      BY <2>1 DEF Addressed
    <2>4. \A k \in net \ {n} : k.type = "entry" => k \in net
      OBVIOUS
    <2> QED
      BY <1>0, <2>1, <2>2, <2>3, <2>4, TryDeliverAddressed
  <1>6. ASSUME NEW n \in net, ReceiveLocation(n)
        PROVE  Addressed'
    BY <1>0, <1>6, FlushAddressed DEF ReceiveLocation, history
  <1>7. ASSUME NEW n \in net, ReceiveChare(n)
        PROVE  Addressed'
    BY <1>0, <1>7, FlushAddressed DEF ReceiveChare, history
  <1>8. CASE UNCHANGED vars
    BY <1>8 DEF vars, history, Addressed
  <1> QED
    BY <1>1, <1>2, <1>3, <1>4, <1>5, <1>6, <1>7, <1>8 DEF Next

-----------------------------------------------------------------------------
(* Messages wait only on the home PE of an element that is not there *)

LEMMA TryDeliverWaits ==
    ASSUME TypeOK, WaitsOnlyAtHome, NEW p \in PE, NEW e \in Elem,
           NEW batch \in SUBSET EntryPacket, NEW rest,
           TryDeliver(p, e, batch, rest),
           \A q \in PE, f \in Elem :
               q # p \/ f # e => (f \in chares'[q] <=> f \in chares[q]),
           chares' = chares \/ batch = buffers[p][e]
    PROVE  WaitsOnlyAtHome'
  <1> SUFFICES ASSUME NEW q \in PE, NEW f \in Elem, buffers'[q][f] # {}
               PROVE  home_pe(f) = q /\ f \notin chares'[q]
    BY DEF WaitsOnlyAtHome, home_pe
  <1>1. CASE q # p \/ f # e
    <2>1. buffers'[q][f] = buffers[q][f]
      BY <1>1 DEF TypeOK, TryDeliver, Invoke, Hold, Forward
    <2> QED
      BY <1>1, <2>1 DEF WaitsOnlyAtHome
  <1>2. CASE q = p /\ f = e
    <2>1. CASE Invoke(p, e, batch, rest)
      <3>1. e \in chares'[p] /\ buffers'[p][e] = buffers[p][e] \ batch
        BY <2>1 DEF Invoke, TypeOK
      <3>2. batch # buffers[p][e] /\ buffers[p][e] # {}
        BY <1>2, <3>1
      <3> QED
        BY <3>1, <3>2 DEF WaitsOnlyAtHome
    <2>2. CASE Hold(p, e, batch, rest)
      BY <1>2, <2>2 DEF Hold, NoIdea, home_pe
    <2>3. CASE Forward(p, e, batch, rest)
      <3>1. e \notin chares'[p] /\ buffers'[p][e] = buffers[p][e] \ batch
        BY <2>3 DEF Forward, TypeOK
      <3> QED
        BY <1>2, <3>1 DEF WaitsOnlyAtHome
    <2> QED
      BY <2>1, <2>2, <2>3 DEF TryDeliver
  <1> QED
    BY <1>1, <1>2

LEMMA FlushWaits ==
    ASSUME TypeOK, WaitsOnlyAtHome, NEW p \in PE, NEW e \in Elem, NEW rest,
           FlushBuffers(p, e, rest),
           \A q \in PE, f \in Elem :
               q # p \/ f # e => (f \in chares'[q] <=> f \in chares[q])
    PROVE  WaitsOnlyAtHome'
  <1>1. buffers[p][e] \in SUBSET EntryPacket
    BY DEF TypeOK
  <1> QED
    BY <1>1, TryDeliverWaits DEF FlushBuffers

LEMMA WaitsInit == Init => WaitsOnlyAtHome
  BY DEF Init, WaitsOnlyAtHome

LEMMA WaitsStep == TypeOK /\ WaitsOnlyAtHome /\ [Next]_vars => WaitsOnlyAtHome'
  <1> SUFFICES ASSUME TypeOK, WaitsOnlyAtHome, [Next]_vars
               PROVE  WaitsOnlyAtHome'
    OBVIOUS
  <1>0. \A n \in net : n.to \in PE /\ n.idx \in Elem
    BY DEF TypeOK, Packet, CtorPacket, EntryPacket, LocationPacket, CharePacket
  <1>1. ASSUME NEW p \in PE, NEW e \in Elem, NEW at \in InsertOn, Insert(p, e, at)
        PROVE  WaitsOnlyAtHome'
    BY <1>1 DEF Insert, WaitsOnlyAtHome, home_pe
  <1>2. ASSUME NEW p \in PE, NEW e \in Elem, NEW m \in Msg, Post(p, m, e)
        PROVE  WaitsOnlyAtHome'
    BY <1>2 DEF Post, WaitsOnlyAtHome, home_pe
  <1>3. ASSUME NEW p \in PE, NEW e \in Elem, NEW dst \in PE, Emigrate(p, e, dst)
        PROVE  WaitsOnlyAtHome'
    <2>1. \A q \in PE, f \in Elem :
              q # p \/ f # e => (f \in chares'[q] <=> f \in chares[q])
      BY <1>3 DEF Emigrate, Erase, TypeOK
    <2> QED
      BY <1>3, <2>1, FlushWaits DEF Emigrate
  <1>4. ASSUME NEW n \in net, ReceiveCtor(n)
        PROVE  WaitsOnlyAtHome'
    <2>1. CASE CreatesHere(n)
      <3>1. \A q \in PE, f \in Elem :
                q # n.to \/ f # n.idx => (f \in chares'[q] <=> f \in chares[q])
        BY <1>0, <1>4, <2>1 DEF ReceiveCtor, Emplace, TypeOK
      <3> QED
        BY <1>0, <1>4, <2>1, <3>1, FlushWaits DEF ReceiveCtor
    <2>2. CASE ~CreatesHere(n)
      BY <1>4, <2>2 DEF ReceiveCtor, WaitsOnlyAtHome, home_pe
    <2> QED
      BY <2>1, <2>2
  <1>5. ASSUME NEW n \in net, ReceiveEntry(n)
        PROVE  WaitsOnlyAtHome'
    <2>1. {n} \in SUBSET EntryPacket
      BY <1>5 DEF ReceiveEntry, TypeOK, Packet, CtorPacket, LocationPacket,
                  CharePacket
    <2> QED
      BY <1>0, <1>5, <2>1, TryDeliverWaits DEF ReceiveEntry
  <1>6. ASSUME NEW n \in net, ReceiveLocation(n)
        PROVE  WaitsOnlyAtHome'
    BY <1>0, <1>6, FlushWaits DEF ReceiveLocation
  <1>7. ASSUME NEW n \in net, ReceiveChare(n)
        PROVE  WaitsOnlyAtHome'
    <2>1. \A q \in PE, f \in Elem :
              q # n.to \/ f # n.idx => (f \in chares'[q] <=> f \in chares[q])
      BY <1>0, <1>7 DEF ReceiveChare, Emplace, TypeOK
    <2> QED
      BY <1>0, <1>7, <2>1, FlushWaits DEF ReceiveChare
  <1>8. CASE UNCHANGED vars
    BY <1>8 DEF vars, WaitsOnlyAtHome, home_pe
  <1> QED
    BY <1>1, <1>2, <1>3, <1>4, <1>5, <1>6, <1>7, <1>8 DEF Next

(* A message that cannot be delivered is buffered on the home PE of its    *)
(* element and nowhere else, and none is left behind in a buffer of the PE *)
(* where its element arrives (the two ways out of try_deliver in           *)
(* collection.hpp, and the flush at the end of on_chare_arrival).          *)
THEOREM MessagesWaitOnlyAtHome == Spec => []WaitsOnlyAtHome
  BY TypeInit, TypeStep, WaitsInit, WaitsStep, PTL DEF Spec

-----------------------------------------------------------------------------
(* Delivery implements Mailbox *)

LEMMA PlaceOfResident ==
    ASSUME NEW e \in Elem, NEW p, ResidentOn(e) = {p}
    PROVE  PlaceOf(e) = p /\ p \in PE /\ PlaceOf(e) # NoPe
  BY DEF PlaceOf, TheOne, ResidentOn, PE, NoPe

LEMMA PlaceOfResidentPrime ==
    ASSUME NEW e \in Elem, NEW p, ResidentOn(e)' = {p}
    PROVE  PlaceOf(e)' = p /\ p \in PE /\ PlaceOf(e)' # NoPe
  BY DEF PlaceOf, TheOne, ResidentOn, PE, NoPe

(* Running a batch is what the mailbox allows *)
LEMMA InvokeRuns ==
    ASSUME TypeOK, MessageConserved, NEW p \in PE, NEW e \in Elem,
           NEW batch \in SUBSET EntryPacket, NEW rest,
           Invoke(p, e, batch, rest),
           \A n \in batch : target[n.msg] = e,
           \A n \in batch : n \in net \/ n \in buffers[p][e]
    PROVE  \E ran \in SUBSET Abstract!Pending(e) :
               invoked' = [m \in Msg |-> IF m \in ran THEN 1 ELSE invoked[m]]
  <1> DEFINE ran == {n.msg : n \in batch}
  <1>1. \A n \in batch : n.msg \in Msg /\ invoked[n.msg] = 0
    <2> SUFFICES ASSUME NEW n \in batch PROVE n.msg \in Msg /\ invoked[n.msg] = 0
      OBVIOUS
    <2>1. n.msg \in Msg /\ n.type = "entry"
      BY DEF EntryPacket
    <2>2. n \in Traveling(n.msg) \/ <<p, e, n>> \in Waiting(n.msg)
      BY <2>1, WaitingMember DEF Traveling
    <2> QED
      BY <2>1, <2>2 DEF MessageConserved, Accounted
  <1>2. ran \in SUBSET Abstract!Pending(e)
    BY <1>1 DEF Abstract!Pending
  <1>3. invoked' = [m \in Msg |-> IF m \in ran THEN 1 ELSE invoked[m]]
    <2>1. \A m \in Msg : m \in ran => invoked[m] = 0
      BY <1>1
    <2> QED
      BY <2>1 DEF Invoke
  <1> QED
    BY <1>2, <1>3

LEMMA FlushRuns ==
    ASSUME TypeOK, MessageConserved, Addressed, NEW p \in PE, NEW e \in Elem,
           NEW rest, FlushBuffers(p, e, rest), e \in chares'[p]
    PROVE  \E ran \in SUBSET Abstract!Pending(e) :
               invoked' = [m \in Msg |-> IF m \in ran THEN 1 ELSE invoked[m]]
  <1>1. buffers[p][e] \in SUBSET EntryPacket
    BY DEF TypeOK
  <1>2. \A n \in buffers[p][e] : target[n.msg] = e
    BY DEF Addressed
  <1>3. Invoke(p, e, buffers[p][e], rest)
    BY DEF FlushBuffers, TryDeliver, Hold, Forward
  <1> QED
    BY <1>1, <1>2, <1>3, InvokeRuns

(* An arriving element *)
LEMMA Arrives ==
    ASSUME TypeOK, ElementConserved, MessageConserved, Addressed,
           NEW n \in net, n.type \in {"ctor", "chare"}, n.to \in PE, n.idx \in Elem,
           Emplace(n.to, n.idx), NEW rest, FlushBuffers(n.to, n.idx, rest),
           target' = target
    PROVE  Abstract!Arrive(n.idx, n.to)
  <1> DEFINE e == n.idx  p == n.to
  <1>1. InTransit(e) # {}
    BY DEF InTransit
  <1>2. ResidentOn(e) = {}
    BY <1>1 DEF ElementConserved, Placed
  <1>3. ResidentOn(e)' = {p} /\ e \in chares'[p]
    BY <1>2 DEF Emplace, ResidentOn, TypeOK
  <1>4. \A f \in Elem : f # e => PlaceOf(f)' = PlaceOf(f)
    <2>1. \A f \in Elem : f # e => \A q \in PE : f \in chares'[q] <=> f \in chares[q]
      BY DEF Emplace, TypeOK
    <2> QED
      <3>1. \A f \in Elem : f # e => ResidentOn(f)' = ResidentOn(f)
        BY <2>1 DEF ResidentOn
      <3> QED
        BY <3>1 DEF PlaceOf
  <1>5. PlaceOf(e) = NoPe /\ PlaceOf(e)' = p /\ PlaceOf(e)' # NoPe
    BY <1>2, <1>3, PlaceOfResidentPrime DEF PlaceOf
  <1>6. PICK ran \in SUBSET Abstract!Pending(e) :
            invoked' = [m \in Msg |-> IF m \in ran THEN 1 ELSE invoked[m]]
    BY <1>3, FlushRuns
  <1>7. [f \in Elem |-> PlaceOf(f)'] = [[f \in Elem |-> PlaceOf(f)] EXCEPT ![e] = p]
    BY <1>4, <1>5
  <1>8. Abstract!Run(e, ran)
    BY <1>5, <1>6 DEF Abstract!Run
  <1> QED
    BY <1>5, <1>7, <1>8 DEF Abstract!Arrive

LEMMA RefineInit == Init => Abstract!Init
  <1> SUFFICES ASSUME Init PROVE Abstract!Init
    OBVIOUS
  <1>1. \A e \in Elem : PlaceOf(e) \in PE \cup {NoPe}
    BY DEF PlaceOf, TheOne, ResidentOn
  <1> QED
    BY <1>1 DEF Init, Abstract!Init

LEMMA RefineStep ==
    TypeOK /\ ElementConserved /\ MessageConserved /\ Addressed /\ [Next]_vars
    => [Abstract!Next]_(Abstract!vars)
  <1> SUFFICES ASSUME TypeOK, ElementConserved, MessageConserved, Addressed,
                      [Next]_vars
               PROVE  Abstract!Next \/ UNCHANGED Abstract!vars
    OBVIOUS
  <1> DEFINE Stutter == UNCHANGED <<chares, target, invoked>>
  <1>s. Stutter => UNCHANGED Abstract!vars
    BY DEF Abstract!vars, PlaceOf, ResidentOn
  <1> HIDE DEF Stutter
  <1>0. \A n \in net : n.to \in PE /\ n.idx \in Elem
    BY DEF TypeOK, Packet, CtorPacket, EntryPacket, LocationPacket, CharePacket
  <1>1. ASSUME NEW p \in PE, NEW e \in Elem, NEW at \in InsertOn, Insert(p, e, at)
        PROVE  Stutter
    BY <1>1 DEF Insert, Stutter
  <1>2. ASSUME NEW p \in PE, NEW e \in Elem, NEW m \in Msg, Post(p, m, e)
        PROVE  Abstract!Send(m, e)
    BY <1>2 DEF Post, Abstract!Send, PlaceOf, ResidentOn
  <1>3. ASSUME NEW p \in PE, NEW e \in Elem, NEW dst \in PE, Emigrate(p, e, dst)
        PROVE  Abstract!Depart(e)
    <2>1. ResidentOn(e) = {p}
      BY <1>3 DEF Emigrate, ElementConserved, Placed, ResidentOn, IsSingleton
    <2>2. ResidentOn(e)' = {} /\ e \notin chares'[p]
      BY <1>3, <2>1 DEF Emigrate, Erase, ResidentOn, TypeOK
    <2>3. \A f \in Elem : f # e => PlaceOf(f)' = PlaceOf(f)
      <3>1. \A f \in Elem : f # e => \A q \in PE : f \in chares'[q] <=> f \in chares[q]
        BY <1>3 DEF Emigrate, Erase, TypeOK
      <3>2. \A f \in Elem : f # e => ResidentOn(f)' = ResidentOn(f)
        BY <3>1 DEF ResidentOn
      <3> QED
        BY <3>2 DEF PlaceOf
    <2>4. PlaceOf(e) # NoPe /\ PlaceOf(e)' = NoPe
      BY <2>1, <2>2, PlaceOfResident DEF PlaceOf
    <2>5. [f \in Elem |-> PlaceOf(f)'] = [[f \in Elem |-> PlaceOf(f)] EXCEPT ![e] = NoPe]
      BY <2>3, <2>4
    <2>6. invoked' = invoked /\ target' = target
      BY <1>3, <2>2 DEF Emigrate, FlushBuffers, TryDeliver, Invoke, Hold, Forward
    <2> QED
      BY <2>4, <2>5, <2>6 DEF Abstract!Depart
  <1>4. ASSUME NEW n \in net, ReceiveCtor(n)
        PROVE  Abstract!Arrive(n.idx, n.to) \/ Stutter
    <2>1. CASE CreatesHere(n)
      BY <1>0, <1>4, <2>1, Arrives DEF ReceiveCtor, history
    <2>2. CASE ~CreatesHere(n)
      BY <1>4, <2>2 DEF ReceiveCtor, Stutter, history
    <2> QED
      BY <2>1, <2>2
  <1>5. ASSUME NEW n \in net, ReceiveEntry(n)
        PROVE  Abstract!Execute(n.idx) \/ Stutter
    <2>1. /\ TryDeliver(n.to, n.idx, {n}, net \ {n})
          /\ target' = target /\ chares' = chares
          /\ n \in EntryPacket /\ target[n.msg] = n.idx
      BY <1>5 DEF ReceiveEntry, history, TypeOK, Packet, CtorPacket, EntryPacket,
                  LocationPacket, CharePacket, Addressed
    <2>2. CASE Invoke(n.to, n.idx, {n}, net \ {n})
      <3> DEFINE batch == {n}
      <3>1. /\ batch \in SUBSET EntryPacket
            /\ Invoke(n.to, n.idx, batch, net \ {n})
            /\ \A k \in batch : target[k.msg] = n.idx
            /\ \A k \in batch : k \in net \/ k \in buffers[n.to][n.idx]
        BY <2>1, <2>2
      <3> HIDE DEF batch
      <3>2. PICK ran \in SUBSET Abstract!Pending(n.idx) :
                invoked' = [m \in Msg |-> IF m \in ran THEN 1 ELSE invoked[m]]
        BY <1>0, <3>1, InvokeRuns
      <3>3. ResidentOn(n.idx)' # {} /\ ResidentOn(n.idx) = ResidentOn(n.idx)'
        BY <1>0, <2>1, <2>2 DEF Invoke, ResidentOn
      <3>4. PlaceOf(n.idx)' # NoPe
        <4>1. PlaceOf(n.idx)' \in PE
          BY <3>3 DEF PlaceOf, TheOne, ResidentOn
        <4> QED
          BY <4>1 DEF PE, NoPe
      <3>5. [f \in Elem |-> PlaceOf(f)]' = [f \in Elem |-> PlaceOf(f)]
        BY <2>1 DEF PlaceOf, ResidentOn
      <3>6. Abstract!Run(n.idx, ran)
        BY <1>0, <3>2, <3>4 DEF Abstract!Run
      <3> QED
        BY <2>1, <3>5, <3>6 DEF Abstract!Execute
    <2>3. CASE ~Invoke(n.to, n.idx, {n}, net \ {n})
      BY <2>1, <2>3 DEF TryDeliver, Hold, Forward, Stutter
    <2> QED
      BY <2>2, <2>3
  <1>6. ASSUME NEW n \in net, ReceiveLocation(n)
        PROVE  Abstract!Execute(n.idx) \/ Stutter
    <2>1. /\ FlushBuffers(n.to, n.idx, net \ {n})
          /\ target' = target /\ chares' = chares
      BY <1>6 DEF ReceiveLocation, history
    <2>2. CASE n.idx \in chares'[n.to]
      <3>1. PICK ran \in SUBSET Abstract!Pending(n.idx) :
                invoked' = [m \in Msg |-> IF m \in ran THEN 1 ELSE invoked[m]]
        BY <1>0, <2>1, <2>2, FlushRuns
      <3>2. PlaceOf(n.idx)' # NoPe
        <4>1. PlaceOf(n.idx)' \in PE
          BY <1>0, <2>2 DEF PlaceOf, TheOne, ResidentOn
        <4> QED
          BY <4>1 DEF PE, NoPe
      <3>3. [f \in Elem |-> PlaceOf(f)]' = [f \in Elem |-> PlaceOf(f)]
        BY <2>1 DEF PlaceOf, ResidentOn
      <3>4. Abstract!Run(n.idx, ran)
        BY <1>0, <3>1, <3>2 DEF Abstract!Run
      <3> QED
        BY <2>1, <3>3, <3>4 DEF Abstract!Execute
    <2>3. CASE n.idx \notin chares'[n.to]
      BY <2>1, <2>3 DEF FlushBuffers, TryDeliver, Invoke, Hold, Forward, Stutter
    <2> QED
      BY <2>2, <2>3
  <1>7. ASSUME NEW n \in net, ReceiveChare(n)
        PROVE  Abstract!Arrive(n.idx, n.to)
    <2>1. /\ n.type \in {"ctor", "chare"} /\ Emplace(n.to, n.idx)
          /\ FlushBuffers(n.to, n.idx, net \ {n}) /\ target' = target
      BY <1>7 DEF ReceiveChare, history
    <2> QED
      BY <1>0, <2>1, Arrives
  <1>8. ASSUME UNCHANGED vars PROVE Stutter
    BY <1>8 DEF vars, history, Stutter
  <1>n. \A e \in Elem :
          /\ \A m \in Msg : Abstract!Send(m, e) => Abstract!Next
          /\ \A p \in PE : Abstract!Arrive(e, p) => Abstract!Next
          /\ Abstract!Depart(e) => Abstract!Next
          /\ Abstract!Execute(e) => Abstract!Next
    BY DEF Abstract!Next
  <1> QED
    BY <1>s, <1>0, <1>1, <1>2, <1>3, <1>4, <1>5, <1>6, <1>7, <1>8, <1>n DEF Next

LEMMA AddressedInit == Init => Addressed
  BY DEF Init, Addressed

(* Tables, forwarding, buffering, stale locations and migration are        *)
(* invisible: whatever they do, messages run at most once, for the element *)
(* they were sent to, while it is resident, and an element is in one place.*)
THEOREM DeliveryImplementsMailbox == Spec => ImplementsMailbox
  BY TypeInit, TypeStep, ElementInit, ElementStep, MessageInit, MessageStep,
     AddressedInit, AddressedStep, RefineInit, RefineStep, PTL
     DEF Spec, ImplementsMailbox, Abstract!Spec


-----------------------------------------------------------------------------
(* No dead end without a hurried move.  Each PE that has a table entry for *)
(* an element knows one of the places where the element has been; the rank *)
(* of a PE is the number of the move that led there.  A PE the element has *)
(* left knows where it went, so that ranks increase along forwarding, and  *)
(* if no update comes late, they lead to where the element is or goes.     *)

Going(e, p) == \E n \in net : n.type = "chare" /\ n.idx = e /\ n.to = p
Told(e, p) == \E n \in net : n.type = "location" /\ n.idx = e /\ n.to = p
Uncreated(e) == e \notin inserted \/ \E n \in net : n.type = "ctor" /\ n.idx = e

(* p is where e is, or where it is going *)
Bound(e, p) == e \in chares[p] \/ Going(e, p)

(* Where p sends e's messages has a higher rank, unless e is bound for it; *)
(* but the home PE may not have been told yet where e was created          *)
Onward(e, k, p) ==
    \/ Bound(e, lookup(p, e))
    \/ k[p] < k[lookup(p, e)]
    \/ NoIdea(p, e) /\ Told(e, p)

Leads(e, k) == \A p \in PE : k[p] <= hop[e] /\ Onward(e, k, p)

OneTable(e) ==
    \A p \in PE : /\ p # home_pe(e) => locmap[p][e] = NoPe
                  /\ p = home_pe(e) => routing_cache[p][e] = NoPe
Blank(e) == \A p \in PE : locmap[p][e] = NoPe /\ routing_cache[p][e] = NoPe
Current(e) ==
    \A n \in net : n.type = "location" /\ n.idx = e => Bound(e, n.pe)

Straight(e) ==
    /\ OneTable(e)
    /\ Current(e)
    /\ Uncreated(e) => Blank(e)
    /\ ~Uncreated(e) => \E k \in [PE -> Int] : Leads(e, k)

(* An element is bound for one PE only, once it was created *)
LEMMA BoundForOne ==
    ASSUME ElementConserved, NEW e \in Elem, NEW p \in PE, Bound(e, p)
    PROVE  ~Uncreated(e) /\ \A q \in PE : Bound(e, q) => q = p
  <1>1. Placed(e)
    BY DEF ElementConserved
  <1>2. CASE e \in chares[p]
    <2>1. p \in ResidentOn(e)
      BY <1>2 DEF ResidentOn
    <2>2. e \in inserted /\ IsSingleton(ResidentOn(e)) /\ InTransit(e) = {}
      BY <1>1, <2>1 DEF Placed
    <2>3. ~Uncreated(e) /\ \A q \in PE : ~Going(e, q)
      BY <2>2 DEF Uncreated, Going, InTransit
    <2> QED
      BY <2>1, <2>2, <2>3 DEF Bound, ResidentOn, IsSingleton
  <1>3. CASE Going(e, p)
    <2>1. PICK n \in net : n.type = "chare" /\ n.idx = e /\ n.to = p
      BY <1>3 DEF Going
    <2>2. n \in InTransit(e)
      BY <2>1 DEF InTransit
    <2>3. e \in inserted /\ ResidentOn(e) = {} /\ InTransit(e) = {n}
      BY <1>1, <2>2 DEF Placed, IsSingleton
    <2>4. ~Uncreated(e)
      BY <2>1, <2>3 DEF Uncreated, InTransit
    <2> QED
      BY <2>1, <2>3, <2>4 DEF Bound, Going, ResidentOn, InTransit
  <1> QED
    BY <1>2, <1>3 DEF Bound

(* The location updates that a delivery sends are about an element that is *)
(* here; it takes nothing else from the network and adds entry messages    *)
LEMMA DeliverySends ==
    ASSUME NEW p \in PE, NEW e \in Elem, NEW batch \in SUBSET EntryPacket,
           NEW rest, TryDeliver(p, e, batch, rest)
    PROVE  /\ rest \subseteq net'
           /\ \A n \in net' \ rest :
                 \/ n.type = "entry"
                 \/ n.type = "location" /\ n.idx = e /\ n.pe = p /\ e \in chares'[p]
  <1>1. CASE Invoke(p, e, batch, rest)
    BY <1>1 DEF Invoke, routing_updates, Location
  <1>2. CASE Hold(p, e, batch, rest)
    BY <1>2 DEF Hold
  <1>3. CASE Forward(p, e, batch, rest)
    <2>1. net' = rest \cup {forward_to(p, n, lookup(p, e)') : n \in batch}
      BY <1>3 DEF Forward
    <2>2. \A n \in batch : forward_to(p, n, lookup(p, e)').type = "entry"
      BY DEF EntryPacket, forward_to
    <2> QED
      BY <2>1, <2>2
  <1> QED
    BY <1>1, <1>2, <1>3 DEF TryDeliver

LEMMA FlushSends ==
    ASSUME TypeOK, NEW p \in PE, NEW e \in Elem, NEW rest,
           FlushBuffers(p, e, rest)
    PROVE  /\ rest \subseteq net'
           /\ \A n \in net' \ rest :
                 \/ n.type = "entry"
                 \/ n.type = "location" /\ n.idx = e /\ n.pe = p /\ e \in chares'[p]
  <1>1. buffers[p][e] \in SUBSET EntryPacket
    BY DEF TypeOK
  <1> QED
    BY <1>1, DeliverySends DEF FlushBuffers

(* A step that neither moves e nor takes a packet about it *)
Steady(e) ==
    /\ \A q \in PE : /\ locmap'[q][e] = locmap[q][e]
                     /\ routing_cache'[q][e] = routing_cache[q][e]
                     /\ e \in chares'[q] <=> e \in chares[q]
                     /\ Going(e, q)' <=> Going(e, q)
                     /\ Told(e, q) => Told(e, q)'
    /\ hop'[e] = hop[e]
    /\ Uncreated(e)' <=> Uncreated(e)
    /\ \A n \in net' : n.type = "location" /\ n.idx = e
                          => n \in net \/ Bound(e, n.pe)'

LEMMA SteadyKeeps ==
    ASSUME TypeOK, NEW e \in Elem, Straight(e), Steady(e)
    PROVE  Straight(e)'
  <1>1. \A q \in PE : Bound(e, q)' <=> Bound(e, q)
    BY DEF Steady, Bound
  <1>2. \A q \in PE : /\ lookup(q, e)' = lookup(q, e) /\ lookup(q, e) \in PE
                      /\ NoIdea(q, e)' <=> NoIdea(q, e)
    BY LookupPE DEF Steady, lookup, lookup_cache, NoIdea, home_pe, TypeOK
  <1>3. OneTable(e)' /\ (Uncreated(e)' => Blank(e)')
    BY DEF Straight, OneTable, Blank, Steady, home_pe
  <1>4. Current(e)'
    <2> SUFFICES ASSUME NEW n \in net', n.type = "location", n.idx = e
                 PROVE  Bound(e, n.pe)'
      BY DEF Current
    <2>1. CASE n \in net
      <3>1. Bound(e, n.pe) /\ n.pe \in PE
        BY <2>1 DEF Straight, Current, TypeOK, Packet, CtorPacket, EntryPacket,
                    LocationPacket, CharePacket
      <3> QED
        BY <1>1, <3>1
    <2> QED
      BY <2>1 DEF Steady
  <1>5. ASSUME ~Uncreated(e)'
        PROVE  \E k \in [PE -> Int] : Leads(e, k)'
    <2>1. PICK k \in [PE -> Int] : Leads(e, k)
      BY <1>5 DEF Steady, Straight
    <2>2. \A p \in PE : Onward(e, k, p)'
      BY <1>1, <1>2, <2>1 DEF Leads, Onward, Steady
    <2>3. Leads(e, k)'
      BY <2>1, <2>2 DEF Leads, Steady
    <2> QED
      BY <2>3
  <1> QED
    BY <1>3, <1>4, <1>5 DEF Straight

(* When the network keeps what is about e, and gains only updates that     *)
(* are up to date, nothing happens to e                                    *)
LEMMA Untroubled ==
    ASSUME NEW e \in Elem,
           \A q \in PE : /\ locmap'[q][e] = locmap[q][e]
                         /\ routing_cache'[q][e] = routing_cache[q][e]
                         /\ e \in chares'[q] <=> e \in chares[q],
           hop'[e] = hop[e], e \in inserted' <=> e \in inserted,
           \A n \in net \ net' : n.type = "entry" \/ n.idx # e,
           \A n \in net' \ net :
              \/ n.type = "entry" \/ n.idx # e
              \/ n.type = "location" /\ Bound(e, n.pe)'
    PROVE  Steady(e)
  <1>1. \A q \in PE : /\ Going(e, q)' <=> Going(e, q)
                      /\ Told(e, q) => Told(e, q)'
    BY DEF Going, Told
  <1>2. Uncreated(e)' <=> Uncreated(e)
    BY DEF Uncreated
  <1> QED
    BY <1>1, <1>2 DEF Steady

(* update_location changes one entry *)
LEMMA UpdateOne ==
    ASSUME TypeOK, NEW p \in PE, NEW e \in Elem, NEW pe \in PE,
           OneTable(e), update_location(p, e, pe)
    PROVE  /\ lookup(p, e)' = pe
           /\ \A q \in PE, f \in Elem : q # p \/ f # e =>
                 /\ locmap'[q][f] = locmap[q][f]
                 /\ routing_cache'[q][f] = routing_cache[q][f]
           /\ OneTable(e)'
  <1>1. pe # NoPe
    BY DEF PE, NoPe
  <1>2. CASE p = home_pe(e)
    <2>1. /\ locmap' = [locmap EXCEPT ![p][e] = pe]
          /\ routing_cache' = routing_cache
      BY <1>2 DEF update_location
    <2>2. locmap'[p][e] = pe
      BY <2>1 DEF TypeOK, LocmgrTypeOK
    <2>3. \A q \in PE, f \in Elem : q # p \/ f # e => locmap'[q][f] = locmap[q][f]
      BY <2>1 DEF TypeOK, LocmgrTypeOK
    <2>4. lookup(p, e)' = pe
      BY <1>1, <2>2 DEF lookup
    <2> QED
      BY <1>2, <2>1, <2>2, <2>3, <2>4 DEF OneTable, home_pe
  <1>3. CASE p # home_pe(e)
    <2>1. /\ routing_cache' = [routing_cache EXCEPT ![p][e] = pe]
          /\ locmap' = locmap
      BY <1>3 DEF update_location
    <2>2. routing_cache'[p][e] = pe
      BY <2>1 DEF TypeOK, LocmgrTypeOK
    <2>3. \A q \in PE, f \in Elem :
             q # p \/ f # e => routing_cache'[q][f] = routing_cache[q][f]
      BY <2>1 DEF TypeOK, LocmgrTypeOK
    <2>4. lookup(p, e)' = pe /\ OneTable(e)'
      BY <1>1, <1>3, <2>1, <2>2, <2>3 DEF OneTable, lookup, lookup_cache, home_pe
    <2> QED
      BY <1>3, <2>1, <2>3, <2>4
  <1> QED
    BY <1>2, <1>3

LEMMA BoundForOneHere ==
    ElementConserved =>
        \A e \in Elem, p \in PE :
            Bound(e, p) => ~Uncreated(e) /\ \A q \in PE : Bound(e, q) => q = p
  BY BoundForOne

LEMMA BoundForOneThen ==
    (ElementConserved =>
        \A e \in Elem, p \in PE :
            Bound(e, p) => ~Uncreated(e) /\ \A q \in PE : Bound(e, q) => q = p)'
  BY BoundForOneHere, PTL

LEMMA BoundForOnePrime ==
    ASSUME ElementConserved', NEW e \in Elem, NEW p \in PE, Bound(e, p)'
    PROVE  ~Uncreated(e)' /\ \A q \in PE : Bound(e, q)' => q = p
  BY BoundForOneThen

(* An element that leaves when every update about it has arrived: p ranks  *)
(* above all others, which knew how to reach p                             *)
LEMMA LeavingKeeps ==
    ASSUME TypeOK, ElementConserved, ElementConserved',
           NEW p \in PE, NEW e \in Elem, NEW dst \in PE,
           Straight(e), Settled(e), Emigrate(p, e, dst)
    PROVE  Straight(e)'
  <1> DEFINE rest == net \cup {Chare(e, dst)} \cup InformHome(p, e, dst, hop[e] + 1)
  <1>1. /\ e \in chares[p] /\ update_location(p, e, dst)
        /\ FlushBuffers(p, e, rest)
        /\ hop' = [hop EXCEPT ![e] = @ + 1]
        /\ e \notin chares'[p]
    BY DEF Emigrate, Erase, TypeOK
  <1>2. /\ rest \subseteq net'
        /\ \A n \in net' \ rest :
              \/ n.type = "entry"
              \/ n.type = "location" /\ n.idx = e /\ n.pe = p /\ e \in chares'[p]
    <2> HIDE DEF rest
    <2> QED
      BY <1>1, FlushSends
  <1>3. Bound(e, p) /\ OneTable(e)
    BY <1>1 DEF Bound, Straight
  <1>4. ~Uncreated(e) /\ \A q \in PE : Bound(e, q) => q = p
    BY <1>3, BoundForOne
  <1>5. Going(e, dst)' /\ Bound(e, dst)'
    <2>1. Chare(e, dst) \in net'
      BY <1>2
    <2> QED
      BY <2>1 DEF Going, Bound, Chare
  <1>6. ~Uncreated(e)'
    BY <1>5, BoundForOnePrime
  <1>7. Current(e)'
    <2> SUFFICES ASSUME NEW n \in net', n.type = "location", n.idx = e
                 PROVE  Bound(e, n.pe)'
      BY DEF Current
    <2>1. n \in rest
      BY <1>1, <1>2
    <2>2. n \in InformHome(p, e, dst, hop[e] + 1)
      BY <2>1 DEF Settled, Chare
    <2>3. n.pe = dst
      BY <2>2 DEF InformHome, Location
    <2> QED
      BY <1>5, <2>3
  <1>8. /\ lookup(p, e)' = dst /\ OneTable(e)'
        /\ \A q \in PE : q # p => lookup(q, e)' = lookup(q, e)
    <2>1. /\ lookup(p, e)' = dst /\ OneTable(e)'
          /\ \A q \in PE, f \in Elem : q # p \/ f # e =>
                 /\ locmap'[q][f] = locmap[q][f]
                 /\ routing_cache'[q][f] = routing_cache[q][f]
      BY <1>1, <1>3, UpdateOne
    <2> QED
      BY <2>1 DEF lookup, lookup_cache, home_pe
  <1>9. PICK k \in [PE -> Int] : Leads(e, k)
    BY <1>4 DEF Straight
  <1>10. hop[e] \in Nat /\ hop'[e] = hop[e] + 1
    <2>1. hop[e] \in 0 .. MaxHops
      BY DEF TypeOK
    <2> QED
      BY <1>1, <2>1, DeliveryAssumption DEF TypeOK
  <1>11. PICK j \in [PE -> Int] : /\ j[p] = hop[e] + 1
                                 /\ \A q \in PE : q # p => j[q] = k[q]
    <2> DEFINE i == [q \in PE |-> IF q = p THEN hop[e] + 1 ELSE k[q]]
    <2>1. /\ i \in [PE -> Int] /\ i[p] = hop[e] + 1
          /\ \A q \in PE : q # p => i[q] = k[q]
      BY <1>9, <1>10
    <2> HIDE DEF i
    <2> QED
      BY <2>1
  <1>12. ASSUME NEW q \in PE
         PROVE  j[q] <= hop'[e] /\ Onward(e, j, q)'
    <2>1. k[q] <= hop[e] /\ k[q] \in Int
      BY <1>9 DEF Leads
    <2>2. j[q] <= hop'[e]
      BY <1>10, <1>11, <2>1
    <2>3. CASE q = p
      BY <1>5, <1>8, <2>2, <2>3 DEF Onward
    <2>4. CASE q # p
      <3>1. lookup(q, e) \in PE /\ lookup(q, e)' = lookup(q, e)
        BY <1>8, <2>4, LookupPE DEF TypeOK
      <3>2. lookup(q, e) = p \/ k[q] < k[lookup(q, e)]
        BY <1>4, <1>9, <3>1 DEF Leads, Onward, Settled, Told
      <3>3. j[q] < j[lookup(q, e)]
        BY <1>10, <1>11, <2>1, <2>4, <3>1, <3>2
      <3>4. j[q] < j[lookup(q, e)']
        BY <3>1, <3>3
      <3> QED
        BY <2>2, <3>4 DEF Onward
    <2> QED
      BY <2>3, <2>4
  <1>13. Leads(e, j)'
    BY <1>12 DEF Leads
  <1> QED
    BY <1>6, <1>7, <1>8, <1>11, <1>13 DEF Straight

(* An update, or the element itself, that is received: p ranks where it    *)
(* did, and knows where the element is                                     *)
LEMMA LearningKeeps ==
    ASSUME TypeOK, ElementConserved, ElementConserved',
           NEW p \in PE, NEW e \in Elem, NEW pe \in PE, Straight(e),
           Bound(e, pe), \A q \in PE : Bound(e, q)' <=> Bound(e, q),
           update_location(p, e, pe), hop'[e] = hop[e],
           \A n \in net \ net' : n.type = "location" => n.idx # e \/ n.to = p,
           \A n \in net' \ net : n.type = "location" /\ n.idx = e => Bound(e, n.pe)'
    PROVE  Straight(e)'
  <1>1. ~Uncreated(e) /\ \A q \in PE : Bound(e, q) => q = pe
    BY BoundForOne
  <1>2. ~Uncreated(e)'
    BY BoundForOnePrime
  <1>3. OneTable(e)
    BY DEF Straight
  <1>4. /\ lookup(p, e)' = pe /\ OneTable(e)'
        /\ \A q \in PE : q # p => /\ lookup(q, e)' = lookup(q, e)
                                  /\ NoIdea(q, e)' <=> NoIdea(q, e)
    <2>1. /\ lookup(p, e)' = pe /\ OneTable(e)'
          /\ \A q \in PE, f \in Elem : q # p \/ f # e =>
                 /\ locmap'[q][f] = locmap[q][f]
                 /\ routing_cache'[q][f] = routing_cache[q][f]
      BY <1>3, UpdateOne
    <2> QED
      BY <2>1 DEF lookup, lookup_cache, home_pe, NoIdea
  <1>5. Current(e)'
    <2> SUFFICES ASSUME NEW n \in net', n.type = "location", n.idx = e
                 PROVE  Bound(e, n.pe)'
      BY DEF Current
    <2>1. CASE n \in net
      <3>1. Bound(e, n.pe) /\ n.pe \in PE
        BY <2>1 DEF Straight, Current, TypeOK, Packet, CtorPacket, EntryPacket,
                    LocationPacket, CharePacket
      <3> QED
        BY <3>1
    <2> QED
      BY <2>1
  <1>6. PICK k \in [PE -> Int] : Leads(e, k)
    BY <1>1 DEF Straight
  <1>7. ASSUME NEW q \in PE
        PROVE  k[q] <= hop'[e] /\ Onward(e, k, q)'
    <2>1. k[q] <= hop'[e] /\ Onward(e, k, q)
      BY <1>6 DEF Leads
    <2>2. CASE q = p
      BY <1>4, <2>1, <2>2 DEF Onward
    <2>3. CASE q # p
      <3>1. lookup(q, e) \in PE /\ lookup(q, e)' = lookup(q, e)
        BY <1>4, <2>3, LookupPE DEF TypeOK
      <3>2. Told(e, q) => Told(e, q)'
        BY <2>3 DEF Told
      <3> QED
        BY <1>4, <2>1, <2>3, <3>1, <3>2 DEF Onward
    <2> QED
      BY <2>2, <2>3
  <1>8. Leads(e, k)'
    BY <1>7 DEF Leads
  <1> QED
    BY <1>2, <1>4, <1>5, <1>6, <1>8 DEF Straight

(* An element that is created: only its home PE may know of it, and will   *)
(* be told if it is elsewhere                                              *)
LEMMA CreatingKeeps ==
    ASSUME TypeOK, ElementConserved, ElementConserved',
           NEW n \in net, ReceiveCtor(n), CreatesHere(n), NEW e \in Elem,
           n.idx = e, Straight(e)
    PROVE  Straight(e)'
  <1> DEFINE p == n.to
             rest == (net \ {n}) \cup InformHome(p, e, p, 0)
  <1>1. /\ p \in PE /\ n.type = "ctor"
        /\ chares' = [chares EXCEPT ![p] = @ \cup {e}]
        /\ UNCHANGED tables
        /\ FlushBuffers(p, e, rest)
        /\ hop' = hop /\ inserted' = inserted
    BY DEF ReceiveCtor, Emplace, history, TypeOK, Packet, CtorPacket, EntryPacket,
           LocationPacket, CharePacket
  <1>2. /\ rest \subseteq net'
        /\ \A m \in net' \ rest :
              \/ m.type = "entry"
              \/ m.type = "location" /\ m.idx = e /\ m.pe = p /\ e \in chares'[p]
    <2> HIDE DEF rest, p
    <2> QED
      BY <1>1, FlushSends
  <1>3. Bound(e, p)'
    BY <1>1 DEF Bound, TypeOK
  <1>4. ~Uncreated(e)' /\ \A q \in PE : Bound(e, q)' => q = p
    <2> HIDE DEF p
    <2> QED
      BY <1>1, <1>3, BoundForOnePrime
  <1>5. Uncreated(e) /\ Blank(e)
    BY <1>1 DEF Uncreated, Straight
  <1>6. Blank(e)'
    BY <1>1, <1>5 DEF Blank, tables
  <1>7. OneTable(e)'
    BY <1>6 DEF Blank, OneTable
  <1>8. Current(e)'
    <2> SUFFICES ASSUME NEW m \in net', m.type = "location", m.idx = e
                 PROVE  m.pe = p
      BY <1>3 DEF Current
    <2>1. m \notin net
      <3> SUFFICES ASSUME m \in net PROVE FALSE
        OBVIOUS
      <3>1. Bound(e, m.pe) /\ m.pe \in PE
        BY DEF Straight, Current, TypeOK, Packet, CtorPacket, EntryPacket,
               LocationPacket, CharePacket
      <3> QED
        BY <1>5, <3>1, BoundForOne
    <2>2. CASE m \in rest
      BY <2>1, <2>2 DEF InformHome, Location
    <2>3. CASE m \notin rest
      BY <1>2, <2>3
    <2> QED
      BY <2>2, <2>3
  <1>9. \A q \in PE : lookup(q, e)' = home_pe(e)
    BY <1>6 DEF Blank, lookup, lookup_cache, home_pe
  <1>10. hop'[e] \in Nat
    <2>1. hop[e] \in 0 .. MaxHops
      BY DEF TypeOK
    <2> QED
      BY <1>1, <2>1, DeliveryAssumption
  <1> DEFINE k == [q \in PE |-> IF q = home_pe(e) THEN 0 ELSE -1]
  <1>11. /\ k \in [PE -> Int]
         /\ \A q \in PE : q = home_pe(e) => k[q] = 0
         /\ \A q \in PE : q # home_pe(e) => k[q] = -1
    OBVIOUS
  <1> HIDE DEF k
  <1>12. ASSUME NEW q \in PE
         PROVE  k[q] <= hop'[e] /\ Onward(e, k, q)'
    <2>1. k[q] <= hop'[e]
      BY <1>10, <1>11
    <2>2. CASE p = home_pe(e)
      BY <1>3, <1>9, <2>1, <2>2 DEF Onward
    <2>3. CASE p # home_pe(e) /\ q = home_pe(e)
      <3>1. Location(e, home_pe(e), p, 0) \in net'
        BY <1>2, <2>3 DEF InformHome
      <3>2. Told(e, q)'
        BY <2>3, <3>1 DEF Told, Location
      <3>3. NoIdea(q, e)'
        BY <1>9, <2>3 DEF NoIdea, home_pe
      <3> QED
        BY <2>1, <3>2, <3>3 DEF Onward
    <2>4. CASE q # home_pe(e)
      <3>1. home_pe(e) \in PE
        BY HomePE
      <3>2. k[q] < k[home_pe(e)]
        BY <1>11, <2>4, <3>1
      <3>3. k[q] < k[lookup(q, e)']
        BY <1>9, <3>2
      <3> QED
        BY <2>1, <3>3 DEF Onward
    <2> QED
      BY <2>2, <2>3, <2>4
  <1>13. Leads(e, k)'
    BY <1>12 DEF Leads
  <1> QED
    BY <1>4, <1>7, <1>8, <1>11, <1>13 DEF Straight

LEMMA UpdateOther ==
    ASSUME TypeOK, NEW p \in PE, NEW e \in Elem, NEW pe, NEW f \in Elem, f # e,
           update_location(p, e, pe)
    PROVE  \A q \in PE : /\ locmap'[q][f] = locmap[q][f]
                         /\ routing_cache'[q][f] = routing_cache[q][f]
  <1>1. ASSUME NEW table \in [PE -> [Elem -> PE \cup {NoPe}]], NEW q \in PE
        PROVE  [table EXCEPT ![p][e] = pe][q][f] = table[q][f]
    OBVIOUS
  <1>2. /\ locmap \in [PE -> [Elem -> PE \cup {NoPe}]]
        /\ routing_cache \in [PE -> [Elem -> PE \cup {NoPe}]]
    BY DEF TypeOK, LocmgrTypeOK
  <1>3. CASE p = home_pe(e)
    BY <1>1, <1>2, <1>3 DEF update_location
  <1>4. CASE p # home_pe(e)
    BY <1>1, <1>2, <1>4 DEF update_location
  <1> QED
    BY <1>3, <1>4

LEMMA StraightInit == Init => \A e \in Elem : Straight(e)
  <1> SUFFICES ASSUME Init, NEW e \in Elem PROVE Straight(e)
    OBVIOUS
  <1>1. Blank(e) /\ OneTable(e) /\ Current(e)
    BY DEF Init, LocmgrInit, Blank, OneTable, Current
  <1>2. ASSUME ~Uncreated(e)
        PROVE  \E k \in [PE -> Int] : Leads(e, k)
    <2>1. e \in Seeded
      BY <1>2 DEF Uncreated, Init
    <2>2. Bound(e, home_pe(e))
      BY <2>1, HomePE DEF Init, Bound
    <2>3. \A p \in PE : lookup(p, e) = home_pe(e)
      BY <1>1 DEF Blank, lookup, lookup_cache
    <2> DEFINE k == [p \in PE |-> 0]
    <2>4. \A p \in PE : k[p] <= hop[e]
      BY DEF Init
    <2>5. Leads(e, k)
      BY <2>2, <2>3, <2>4 DEF Leads, Onward
    <2>6. k \in [PE -> Int]
      OBVIOUS
    <2> QED
      BY <2>5, <2>6
  <1> QED
    BY <1>1, <1>2 DEF Straight

LEMMA StraightStep ==
    ASSUME TypeOK, ElementConserved, ElementConserved', Next,
           NEW f \in Elem, Straight(f), hop'[f] # hop[f] => Settled(f)
    PROVE  Straight(f)'
  <1>0. \A n \in net : n.to \in PE /\ n.idx \in Elem
    BY DEF TypeOK, Packet, CtorPacket, EntryPacket, LocationPacket, CharePacket
  <1>s. Steady(f) => Straight(f)'
    BY SteadyKeeps
  <1>1. ASSUME NEW p \in PE, NEW e \in Elem, NEW at \in InsertOn, Insert(p, e, at)
        PROVE  Straight(f)'
    <2>1. PICK to, b : net' = net \cup {Ctor(e, to, b)}
      BY <1>1 DEF Insert
    <2>2. /\ UNCHANGED <<tables, chares, hop>> /\ e \notin inserted
          /\ inserted' = inserted \cup {e}
      BY <1>1 DEF Insert
    <2>3. CASE f = e
      <3>1. Uncreated(f) /\ Uncreated(f)'
        <4>1. /\ Ctor(e, to, b) \in net'
              /\ Ctor(e, to, b).type = "ctor" /\ Ctor(e, to, b).idx = e
          BY <2>1 DEF Ctor
        <4> QED
          BY <2>2, <2>3, <4>1 DEF Uncreated
      <3>2. \A q \in PE : /\ Going(f, q)' <=> Going(f, q)
                          /\ Told(f, q) => Told(f, q)'
        BY <2>1 DEF Going, Told, Ctor
      <3>3. \A n \in net' : n.type = "location" => n \in net
        BY <2>1 DEF Ctor
      <3>4. Steady(f)
        BY <2>2, <3>1, <3>2, <3>3 DEF Steady, tables
      <3> QED
        BY <1>s, <3>4
    <2>4. CASE f # e
      <3>1. Steady(f)
        BY <2>1, <2>2, <2>4, Untroubled DEF tables, Ctor
      <3> QED
        BY <1>s, <3>1
    <2> QED
      BY <2>3, <2>4
  <1>2. ASSUME NEW p \in PE, NEW e \in Elem, NEW m \in Msg, Post(p, m, e)
        PROVE  Straight(f)'
    <2>1. PICK to : net' = net \cup {Entry(e, to, m, SenderOf(p, m))}
      BY <1>2 DEF Post
    <2>2. UNCHANGED <<tables, chares, hop, inserted>>
      BY <1>2 DEF Post
    <2>3. Steady(f)
      BY <2>1, <2>2, Untroubled DEF tables, Entry
    <2> QED
      BY <1>s, <2>3
  <1>3. ASSUME NEW p \in PE, NEW e \in Elem, NEW dst \in PE, Emigrate(p, e, dst)
        PROVE  Straight(f)'
    <2>1. CASE f = e
      <3>1. hop'[f] # hop[f]
        <4>1. hop[f] \in 0 .. MaxHops
          BY DEF TypeOK
        <4>2. hop'[f] = hop[f] + 1
          BY <1>3, <2>1 DEF Emigrate, TypeOK
        <4> QED
          BY <4>1, <4>2, DeliveryAssumption
      <3> QED
        BY <1>3, <2>1, <3>1, LeavingKeeps
    <2>2. CASE f # e
      <3> DEFINE rest == net \cup {Chare(e, dst)} \cup InformHome(p, e, dst, hop[e] + 1)
      <3>1. /\ update_location(p, e, dst) /\ FlushBuffers(p, e, rest)
            /\ hop'[f] = hop[f] /\ inserted' = inserted
            /\ \A q \in PE : f \in chares'[q] <=> f \in chares[q]
        BY <1>3, <2>2 DEF Emigrate, Erase, TypeOK
      <3>2. \A n \in rest : n \notin net => n.idx = e
        BY DEF Chare, InformHome, Location
      <3>3. net \subseteq rest
        OBVIOUS
      <3> HIDE DEF rest
      <3>4. /\ rest \subseteq net'
            /\ \A n \in net' \ rest : n.type = "entry" \/ n.idx = e
        BY <3>1, FlushSends
      <3>5. \A q \in PE : /\ locmap'[q][f] = locmap[q][f]
                          /\ routing_cache'[q][f] = routing_cache[q][f]
        BY <2>2, <3>1, UpdateOther
      <3>6. Steady(f)
        BY <2>2, <3>1, <3>2, <3>3, <3>4, <3>5, Untroubled
      <3> QED
        BY <1>s, <3>6
    <2> QED
      BY <2>1, <2>2
  <1>4. ASSUME NEW n \in net, ReceiveCtor(n)
        PROVE  Straight(f)'
    <2>1. n.type = "ctor" /\ n.to \in PE /\ n.idx \in Elem
      BY <1>0, <1>4 DEF ReceiveCtor
    <2>2. CASE CreatesHere(n)
      <3>1. CASE n.idx = f
        BY <1>4, <2>2, <3>1, CreatingKeeps
      <3>2. CASE n.idx # f
        <4> DEFINE rest == (net \ {n}) \cup InformHome(n.to, n.idx, n.to, 0)
        <4>1. /\ UNCHANGED tables /\ FlushBuffers(n.to, n.idx, rest)
              /\ UNCHANGED history
              /\ \A q \in PE : f \in chares'[q] <=> f \in chares[q]
          BY <1>4, <2>1, <2>2, <3>2 DEF ReceiveCtor, Emplace, TypeOK
        <4>2. \A k \in rest : k \notin net => k.idx = n.idx
          BY DEF InformHome, Location
        <4>3. \A k \in net : k \notin rest => k = n
          OBVIOUS
        <4> HIDE DEF rest
        <4>4. /\ rest \subseteq net'
              /\ \A k \in net' \ rest : k.type = "entry" \/ k.idx = n.idx
          BY <2>1, <4>1, FlushSends
        <4>5. Steady(f)
          BY <3>2, <4>1, <4>2, <4>3, <4>4, Untroubled DEF tables, history
        <4> QED
          BY <1>s, <4>5
      <3> QED
        BY <3>1, <3>2
    <2>3. CASE ~CreatesHere(n)
      <3> DEFINE k == [n EXCEPT !.to = home_pe(n.idx)]
      <3>1. /\ net' = (net \ {n}) \cup {k}
            /\ UNCHANGED <<tables, chares, inserted, hop>>
        BY <1>4, <2>3 DEF ReceiveCtor, history
      <3>2. k.type = "ctor" /\ k.idx = n.idx
        BY <2>1 DEF TypeOK, Packet, CtorPacket, EntryPacket, LocationPacket,
                    CharePacket
      <3> HIDE DEF k
      <3>3. Uncreated(f)' <=> Uncreated(f)
        BY <2>1, <3>1, <3>2 DEF Uncreated
      <3>4. \A q \in PE : /\ Going(f, q)' <=> Going(f, q)
                          /\ Told(f, q) => Told(f, q)'
        BY <2>1, <3>1, <3>2 DEF Going, Told
      <3>5. Steady(f)
        BY <3>1, <3>2, <3>3, <3>4 DEF Steady, tables
      <3> QED
        BY <1>s, <3>5
    <2> QED
      BY <2>2, <2>3
  <1>5. ASSUME NEW n \in net, ReceiveEntry(n)
        PROVE  Straight(f)'
    <2>1. /\ n.type = "entry" /\ UNCHANGED <<tables, chares>> /\ UNCHANGED history
          /\ TryDeliver(n.to, n.idx, {n}, net \ {n})
          /\ {n} \in SUBSET EntryPacket
      BY <1>5 DEF ReceiveEntry, TypeOK, Packet, CtorPacket, EntryPacket,
                  LocationPacket, CharePacket
    <2> DEFINE rest == net \ {n}
    <2>2. /\ rest \subseteq net'
          /\ \A k \in net' \ rest :
                \/ k.type = "entry"
                \/ /\ k.type = "location" /\ k.idx = n.idx /\ k.pe = n.to
                   /\ n.idx \in chares'[n.to]
      <3> HIDE DEF rest
      <3> QED
        BY <1>0, <2>1, DeliverySends DEF rest
    <2>3. \A k \in net' \ net :
             \/ k.type = "entry" \/ k.idx # f
             \/ k.type = "location" /\ Bound(f, k.pe)'
      BY <2>2 DEF Bound
    <2>4. \A k \in net \ net' : k.type = "entry" \/ k.idx # f
      BY <2>1, <2>2
    <2>5. Steady(f)
      BY <2>1, <2>3, <2>4, Untroubled DEF tables, history
    <2> QED
      BY <1>s, <2>5
  <1>6. ASSUME NEW n \in net, ReceiveLocation(n)
        PROVE  Straight(f)'
    <2>1. /\ n.type = "location" /\ n.to \in PE /\ n.idx \in Elem /\ n.pe \in PE
          /\ UNCHANGED history /\ UNCHANGED chares
          /\ update_location(n.to, n.idx, n.pe)
          /\ FlushBuffers(n.to, n.idx, net \ {n})
      BY <1>6 DEF ReceiveLocation, TypeOK, Packet, CtorPacket, EntryPacket,
                  LocationPacket, CharePacket
    <2> DEFINE rest == net \ {n}
    <2>2. /\ rest \subseteq net'
          /\ \A k \in net' \ rest :
                \/ k.type = "entry"
                \/ /\ k.type = "location" /\ k.idx = n.idx /\ k.pe = n.to
                   /\ n.idx \in chares'[n.to]
      <3> HIDE DEF rest
      <3> QED
        BY <2>1, FlushSends DEF rest
    <2>3. CASE n.idx = f
      <3>1. Bound(f, n.pe)
        BY <2>1, <2>3 DEF Straight, Current
      <3>2. \A q \in PE : Bound(f, q)' <=> Bound(f, q)
        BY <2>1, <2>2 DEF Bound, Going
      <3>3. \A k \in net' \ net : k.type = "location" /\ k.idx = f => Bound(f, k.pe)'
        BY <2>2, <2>3 DEF Bound
      <3>4. \A k \in net \ net' : k.type = "location" => k.idx # f \/ k.to = n.to
        BY <2>2
      <3>5. hop'[f] = hop[f]
        BY <2>1 DEF history
      <3>6. update_location(n.to, f, n.pe)
        BY <2>1, <2>3
      <3> QED
        BY <2>1, <3>1, <3>2, <3>3, <3>4, <3>5, <3>6, LearningKeeps
    <2>4. CASE n.idx # f
      <3>1. \A q \in PE : /\ locmap'[q][f] = locmap[q][f]
                          /\ routing_cache'[q][f] = routing_cache[q][f]
        BY <2>1, <2>4, UpdateOther
      <3>2. Steady(f)
        BY <2>1, <2>2, <2>4, <3>1, Untroubled DEF history
      <3> QED
        BY <1>s, <3>2
    <2> QED
      BY <2>3, <2>4
  <1>7. ASSUME NEW n \in net, ReceiveChare(n)
        PROVE  Straight(f)'
    <2>1. /\ n.type = "chare" /\ n.to \in PE /\ n.idx \in Elem
          /\ UNCHANGED history
          /\ chares' = [chares EXCEPT ![n.to] = @ \cup {n.idx}]
          /\ update_location(n.to, n.idx, n.to)
          /\ FlushBuffers(n.to, n.idx, net \ {n})
      BY <1>0, <1>7 DEF ReceiveChare, Emplace
    <2> DEFINE rest == net \ {n}
    <2>2. /\ rest \subseteq net'
          /\ \A k \in net' \ rest :
                \/ k.type = "entry"
                \/ /\ k.type = "location" /\ k.idx = n.idx /\ k.pe = n.to
                   /\ n.idx \in chares'[n.to]
      <3> HIDE DEF rest
      <3> QED
        BY <2>1, FlushSends DEF rest
    <2>3. CASE n.idx = f
      <3>1. Bound(f, n.to)
        BY <2>1, <2>3 DEF Bound, Going
      <3>2. Bound(f, n.to)'
        BY <2>1, <2>3 DEF Bound, TypeOK
      <3>3. \A q \in PE : Bound(f, q)' <=> Bound(f, q)
        BY <2>1, <3>1, <3>2, BoundForOne, BoundForOnePrime
      <3>4. \A k \in net' \ net : k.type = "location" /\ k.idx = f => Bound(f, k.pe)'
        BY <2>2, <2>3 DEF Bound
      <3>5. \A k \in net \ net' : k.type = "location" => k.idx # f \/ k.to = n.to
        BY <2>2
      <3>6. hop'[f] = hop[f]
        BY <2>1 DEF history
      <3>7. update_location(n.to, f, n.to)
        BY <2>1, <2>3
      <3> QED
        BY <2>1, <3>1, <3>3, <3>4, <3>5, <3>6, <3>7, LearningKeeps
    <2>4. CASE n.idx # f
      <3>1. \A q \in PE : /\ locmap'[q][f] = locmap[q][f]
                          /\ routing_cache'[q][f] = routing_cache[q][f]
        BY <2>1, <2>4, UpdateOther
      <3>2. \A q \in PE : f \in chares'[q] <=> f \in chares[q]
        BY <2>1, <2>4 DEF TypeOK
      <3>3. Steady(f)
        BY <2>1, <2>2, <2>4, <3>1, <3>2, Untroubled DEF history
      <3> QED
        BY <1>s, <3>3
    <2> QED
      BY <2>3, <2>4
  <1> QED
    BY <1>1, <1>2, <1>3, <1>4, <1>5, <1>6, <1>7 DEF Next

HurryInv ==
    /\ TypeOK /\ ElementConserved
    /\ rushed \in BOOLEAN
    /\ rushed \/ \A e \in Elem : Straight(e)

LEMMA HurryInvInit == HurryInit => HurryInv
  BY TypeInit, ElementInit, StraightInit DEF HurryInit, HurryInv

LEMMA HurryInvStep == HurryInv /\ [HurryNext]_hvars => HurryInv'
  <1> SUFFICES ASSUME HurryInv, [HurryNext]_hvars PROVE HurryInv'
    OBVIOUS
  <1>1. [Next]_vars
    BY DEF HurryNext, hvars
  <1>2. TypeOK' /\ ElementConserved'
    BY <1>1, TypeStep, ElementStep DEF HurryInv
  <1>3. CASE HurryNext
    <2>1. rushed' \in BOOLEAN
      BY <1>3 DEF HurryNext
    <2>2. ASSUME ~rushed', NEW f \in Elem
          PROVE  Straight(f)'
      <3>1. ~rushed /\ Next /\ (hop'[f] # hop[f] => Settled(f))
        BY <1>3, <2>2 DEF HurryNext, HurryInv
      <3> QED
        BY <1>2, <3>1, StraightStep DEF HurryInv
    <2> QED
      BY <1>2, <2>1, <2>2 DEF HurryInv
  <1>4. CASE UNCHANGED hvars
    <2>1. UNCHANGED vars /\ rushed' = rushed
      BY <1>4 DEF hvars
    <2>2. \A f \in Elem : Straight(f) => Straight(f)'
      BY <2>1 DEF vars, tables, history, Straight, OneTable, Current, Uncreated, Blank,
                  Leads, Onward, Bound, Going, Told, NoIdea, lookup, lookup_cache,
                  home_pe
    <2> QED
      BY <1>2, <2>1, <2>2 DEF HurryInv
  <1> QED
    BY <1>3, <1>4

(* From the PE of a trap that ranks highest, no message goes on within it  *)
LEMMA StraightNoDeadEnd ==
    ASSUME TypeOK, \A e \in Elem : Straight(e)
    PROVE  NoDeadEnd
  <1> SUFFICES ASSUME NEW e \in Elem, NEW S \in SUBSET PE, Trap(e, S), e \in inserted,
                      ~\E n \in net : n.type = "ctor" /\ n.idx = e
               PROVE  \E n \in net : /\ n.type \in {"location", "chare"}
                                     /\ n.idx = e
                                     /\ n.to \in S
    BY DEF NoDeadEnd
  <1>1. PICK k \in [PE -> Int] : Leads(e, k)
    BY DEF Straight, Uncreated
  <1>2. hop[e] \in Nat
    BY DeliveryAssumption DEF TypeOK
  <1> DEFINE T == {hop[e] - k[p] : p \in S}
  <1>3. T \in SUBSET Nat
    <2>1. \A p \in PE : k[p] \in Int /\ k[p] <= hop[e]
      BY <1>1 DEF Leads
    <2> QED
      BY <1>2, <2>1
  <1>4. T # {}
    BY DEF Trap
  <1>5. PICK x \in T : \A y \in T : x <= y
    <2> HIDE DEF T
    <2> QED
      BY <1>3, <1>4, SmallestInSet
  <1>6. PICK p \in S : x = hop[e] - k[p]
    OBVIOUS
  <1>7. \A q \in S : k[q] <= k[p]
    <2> SUFFICES ASSUME NEW q \in S PROVE k[q] <= k[p]
      OBVIOUS
    <2>1. hop[e] - k[p] <= hop[e] - k[q]
      BY <1>5, <1>6
    <2>2. k[p] \in Int /\ k[q] \in Int
      OBVIOUS
    <2> QED
      BY <1>2, <2>1, <2>2
  <1>8. lookup(p, e) \in S /\ e \notin chares[lookup(p, e)]
    BY DEF Trap
  <1>9. Onward(e, k, p)
    BY <1>1 DEF Leads
  <1>10. ~(k[p] < k[lookup(p, e)])
    <2>1. k[lookup(p, e)] \in Int /\ k[p] \in Int
      BY <1>8
    <2> QED
      BY <1>7, <1>8, <2>1
  <1>11. Going(e, lookup(p, e)) \/ Told(e, p)
    BY <1>8, <1>9, <1>10 DEF Onward, Bound
  <1> QED
    BY <1>8, <1>11 DEF Going, Told

(* As long as no element has left while an update about it was under way,  *)
(* no message is caught between PEs that all send it to each other, nor on *)
(* a home PE that nobody will tell (locmgr.hpp:145, 154).                  *)
THEOREM OnlyHurryLoses == HurrySpec => []NoDeadEndUnrushed
  <1>1. HurryInv => NoDeadEndUnrushed
    BY StraightNoDeadEnd DEF HurryInv, NoDeadEndUnrushed
  <1> QED
    BY <1>1, HurryInvInit, HurryInvStep, PTL DEF HurrySpec
=============================================================================
