--------------------------- MODULE BroadcastProofs --------------------------
(***************************************************************************)
(* Theorems about Broadcast, for every number of PEs, every spanning tree, *)
(* any broadcasts and migrations, and packets in any order.                *)
(***************************************************************************)
EXTENDS Broadcast, Facts

-----------------------------------------------------------------------------
(* The invariant *)

(* Copies on their way: sent by a PE *)
SentCopy == [type : {"copy"}, bcast : Bcast, seq : 1 .. MaxCollective,
             sender : PE, forwarded : BOOLEAN]

(* There are more numbers than broadcasts the root has run *)
Few == Len(ran[root]) < MaxCollective

(* Copies that tell the truth: the number is the place in the root's order *)
Agreed ==
    {n \in SentCopy :
        Few => n.seq <= Len(ran[root]) /\ ran[root][n.seq] = n.bcast}

(* What waits for e, or is sent to idx, when copies are in A; nothing is   *)
(* above the root                                                          *)
CopiesFor(e, A) == IF e = root THEN {} ELSE A
Posts == [type : {"post"}, bcast : Bcast]
Moves == [type : {"location"}, pe : PE] \cup {Chare}
Fit(idx, A) == IF idx = bcast_root THEN Posts ELSE Moves \cup CopiesFor(idx, A)

NetOK(net, A) ==
    /\ net = [r \in Route |-> net[r]]
    /\ \A r \in Route : net[r] \in Seq(Fit(r.idx, A))

BuffersOK(bufs, A) ==
    /\ bufs = [p \in PE |-> [e \in Elem |-> bufs[p][e]]]
    /\ \A p \in PE, e \in Elem : bufs[p][e] \in Seq(CopiesFor(e, A))

(* Every element has run a prefix of what the root has, and counts it *)
IsPrefixOfRoot(e) ==
    /\ Len(ran[e]) <= Len(ran[root])
    /\ \A i \in 1 .. Len(ran[e]) : ran[e][i] = ran[root][i]

PrefixAgreement == Few => \A e \in Elem : IsPrefixOfRoot(e)

NumbersCount == Few => \A e \in Elem : last_bcast[e] = Len(ran[e])

OrderInv ==
    /\ TypeOK
    /\ NetOK(queue, Agreed)
    /\ BuffersOK(buffers, Agreed)
    /\ PrefixAgreement
    /\ NumbersCount

-----------------------------------------------------------------------------
(* Locations and packets *)

LEMMA HomePE ==
    ASSUME NEW e \in Elem
    PROVE  home_pe(e) \in PE
  BY NumPesAssumption, ElemAssumption DEF home_pe, PE

(* update_location writes one entry of one table *)
LEMMA UpdateLocationType ==
    ASSUME LocmgrTypeOK, NEW p \in PE, NEW e \in Elem, NEW pe \in PE,
           update_location(p, e, pe)
    PROVE  LocmgrTypeOK'
  <1>1. ASSUME NEW table \in [PE -> [Elem -> PE \cup {NoPe}]]
        PROVE  [table EXCEPT ![p][e] = pe] \in [PE -> [Elem -> PE \cup {NoPe}]]
    OBVIOUS
  <1> QED
    BY <1>1 DEF LocmgrTypeOK, update_location

(* The index of the root of the tree is none of an element *)
LEMMA RootIndex == \A e \in Elem : e # bcast_root
  BY ElemAssumption DEF bcast_root

(* What the invariant says is also what TypeOK says *)
LEMMA NetType ==
    ASSUME NEW A \in SUBSET SentCopy, NEW net, NetOK(net, A)
    PROVE  net \in [Route -> Seq(Packet)]
  <1>1. ASSUME NEW r \in Route
        PROVE  net[r] \in Seq(Packet)
    <2>1. Fit(r.idx, A) \subseteq Packet
      BY DEF Fit, Posts, Moves, CopiesFor, Packet, CopyPacket, SentCopy, Chare
    <2>2. net[r] \in Seq(Fit(r.idx, A))
      BY DEF NetOK
    <2> QED
      BY <2>1, <2>2, SeqMonotonic
  <1> QED
    BY <1>1 DEF NetOK

LEMMA BuffersType ==
    ASSUME NEW A \in SUBSET SentCopy, NEW bufs, BuffersOK(bufs, A)
    PROVE  bufs \in [PE -> [Elem -> Seq(CopyPacket)]]
  <1>1. ASSUME NEW p \in PE, NEW e \in Elem
        PROVE  bufs[p][e] \in Seq(CopyPacket)
    <2>1. CopiesFor(e, A) \subseteq CopyPacket
      BY DEF CopiesFor, CopyPacket, SentCopy
    <2>2. bufs[p][e] \in Seq(CopiesFor(e, A))
      BY DEF BuffersOK
    <2> QED
      BY <2>1, <2>2, SeqMonotonic
  <1> QED
    BY <1>1 DEF BuffersOK

(* What has been agreed on stays so *)
LEMMA NetGrows ==
    ASSUME NEW A, NEW B, A \subseteq B, NEW net, NetOK(net, A)
    PROVE  NetOK(net, B)
  <1>1. ASSUME NEW r \in Route
        PROVE  net[r] \in Seq(Fit(r.idx, B))
    <2>1. Fit(r.idx, A) \subseteq Fit(r.idx, B)
      BY DEF Fit, CopiesFor
    <2>2. net[r] \in Seq(Fit(r.idx, A))
      BY DEF NetOK
    <2> QED
      BY <2>1, <2>2, SeqMonotonic
  <1> QED
    BY <1>1 DEF NetOK

LEMMA BuffersGrow ==
    ASSUME NEW A, NEW B, A \subseteq B, NEW bufs, BuffersOK(bufs, A)
    PROVE  BuffersOK(bufs, B)
  <1>1. ASSUME NEW p \in PE, NEW e \in Elem
        PROVE  bufs[p][e] \in Seq(CopiesFor(e, B))
    <2>1. CopiesFor(e, A) \subseteq CopiesFor(e, B)
      BY DEF CopiesFor
    <2>2. bufs[p][e] \in Seq(CopiesFor(e, A))
      BY DEF BuffersOK
    <2> QED
      BY <2>1, <2>2, SeqMonotonic
  <1> QED
    BY <1>1 DEF BuffersOK

(* Sending, receiving *)
LEMMA EmitOK ==
    ASSUME NEW A, NEW net, NetOK(net, A), NEW p, NEW to,
           NEW idx, NEW packs \in Seq(Fit(idx, A))
    PROVE  NetOK(Emit(net, p, to, idx, packs), A)
  <1> DEFINE route == [from |-> p, to |-> to, idx |-> idx]
             new == Emit(net, p, to, idx, packs)
  <1>1. new = [r \in Route |-> IF r = route THEN net[r] \o packs ELSE net[r]]
    BY DEF Emit, NetOK
  <1>2. ASSUME NEW r \in Route
        PROVE  new[r] \in Seq(Fit(r.idx, A))
    <2>1. net[r] \in Seq(Fit(r.idx, A))
      BY DEF NetOK
    <2>2. CASE r = route
      <3>1. packs \in Seq(Fit(r.idx, A))
        BY <2>2
      <3>2. net[r] \o packs \in Seq(Fit(r.idx, A))
        BY <2>1, <3>1, ConcatFacts
      <3> QED
        BY <1>1, <2>2, <3>2
    <2>3. CASE r # route
      BY <1>1, <2>1, <2>3
    <2> QED
      BY <2>2, <2>3
  <1> QED
    BY <1>1, <1>2 DEF NetOK

LEMMA WithoutOK ==
    ASSUME NEW A, NetOK(queue, A), NEW r \in Route, NEW i \in DOMAIN queue[r]
    PROVE  NetOK(Without(r, i), A)
  <1>1. Without(r, i) = [s \in Route |-> IF s = r THEN RemoveAt(queue[s], i)
                                         ELSE queue[s]]
    BY DEF Without, NetOK
  <1>2. ASSUME NEW s \in Route
        PROVE  Without(r, i)[s] \in Seq(Fit(s.idx, A))
    <2>1. queue[s] \in Seq(Fit(s.idx, A))
      BY DEF NetOK
    <2>2. CASE s = r
      <3>1. RemoveAt(queue[s], i) \in Seq(Fit(s.idx, A))
        BY <2>1, <2>2, RemoveAtFacts
      <3> QED
        BY <1>1, <2>2, <3>1
    <2>3. CASE s # r
      BY <1>1, <2>1, <2>3
    <2> QED
      BY <2>2, <2>3
  <1> QED
    BY <1>1, <1>2 DEF NetOK

(* The packet that is received *)
LEMMA ReceivedFits ==
    ASSUME NEW A, NetOK(queue, A), NEW r \in Route, NEW i \in DOMAIN queue[r]
    PROVE  queue[r][i] \in Fit(r.idx, A)
  <1>1. queue[r] \in Seq(Fit(r.idx, A))
    BY DEF NetOK
  <1> QED
    BY <1>1, LenProperties, ElementOfSeq

(* One buffer gets other contents *)
LEMMA RebufferOK ==
    ASSUME NEW A, BuffersOK(buffers, A), NEW p \in PE, NEW e \in Elem,
           NEW packs \in Seq(CopiesFor(e, A))
    PROVE  BuffersOK([buffers EXCEPT ![p][e] = packs], A)
  BY DEF BuffersOK

-----------------------------------------------------------------------------
(* Copies *)

(* A copy stays true when it is passed on *)
LEMMA Rebadged ==
    ASSUME NEW n \in Agreed, NEW b \in BOOLEAN, NEW p \in PE
    PROVE  /\ [n EXCEPT !.forwarded = b] \in Agreed
           /\ [n EXCEPT !.sender = p] \in Agreed
  BY DEF Agreed, SentCopy

LEMMA ForwardedOK ==
    ASSUME NEW p \in PE, NEW packs \in Seq(Agreed)
    PROVE  forwarded_by(p, packs) \in Seq(Agreed)
  <1>1. Len(packs) \in Nat /\ DOMAIN packs = 1 .. Len(packs)
    BY LenProperties
  <1>2. \A i \in 1 .. Len(packs) : packs[i] \in Agreed
    BY ElementOfSeq
  <1>3. \A i \in 1 .. Len(packs) : packs[i].forwarded \in BOOLEAN
    BY <1>2 DEF Agreed, SentCopy
  <1>4. \A i \in 1 .. Len(packs) :
            (packs[i].forwarded \/ packs[i].sender \notin {NoPe, p}) \in BOOLEAN
    BY <1>3
  <1>5. forwarded_by(p, packs) =
            [i \in 1 .. Len(packs) |->
                [packs[i] EXCEPT !.forwarded =
                    packs[i].forwarded \/ packs[i].sender \notin {NoPe, p}]]
    BY <1>1 DEF forwarded_by
  <1>6. \A i \in 1 .. Len(packs) : forwarded_by(p, packs)[i] \in Agreed
    BY <1>2, <1>4, <1>5, Rebadged
  <1>7. forwarded_by(p, packs) \in [1 .. Len(packs) -> Agreed]
    BY <1>5, <1>6
  <1> QED
    BY <1>1, <1>7, FunctionIsSeq

-----------------------------------------------------------------------------
(* Running copies *)

(* The copies in run are the next ones of e: as long as there are numbers  *)
(* left, they count on from the last one it has run.                       *)
Fewer(e, run) == Few /\ (e = root => Len(ran[root]) + Len(run) < MaxCollective)

InOrder(e, run) ==
    /\ run \in Seq(CopyPacket)
    /\ e # root => run \in Seq(Agreed)
    /\ Fewer(e, run) => \A i \in 1 .. Len(run) : run[i].seq = last_bcast[e] + i

LEMMA NothingInOrder == \A e \in Elem : InOrder(e, <<>>)
  BY EmptySeq DEF InOrder

LEMMA SmallRemainder ==
    ASSUME NEW n \in Nat \ {0}, NEW x \in 0 .. (n - 1)
    PROVE  x % n = x
  OBVIOUS

(* The root counts on, and a number is one as long as there are any *)
LEMMA NumberedInOrder ==
    ASSUME OrderInv, NEW bs \in Seq(Bcast)
    PROVE  InOrder(root, numbered(bs)) /\ Len(numbered(bs)) = Len(bs)
  <1> DEFINE run == numbered(bs)
             last == last_bcast[root]
  <1>1. /\ Len(bs) \in Nat /\ DOMAIN bs = 1 .. Len(bs)
        /\ \A i \in 1 .. Len(bs) : bs[i] \in Bcast
    BY LenProperties, ElementOfSeq
  <1>2. root \in Elem /\ MaxCollective \in Nat \ {0} /\ last \in 0 .. MaxCollective
    BY BroadcastAssumption DEF OrderInv, TypeOK
  <1>3. \A i \in 1 .. Len(bs) :
            run[i] = Copy(bs[i], ((last + i - 1) % MaxCollective) + 1, NoPe)
    BY <1>1 DEF numbered
  <1>4. \A i \in 1 .. Len(bs) :
            ((last + i - 1) % MaxCollective) + 1 \in 1 .. MaxCollective
    BY <1>1, <1>2
  <1>5. run \in [1 .. Len(bs) -> CopyPacket]
    BY <1>1, <1>3, <1>4 DEF numbered, Copy, CopyPacket
  <1>6. run \in Seq(CopyPacket) /\ Len(run) = Len(bs)
    BY <1>1, <1>5, FunctionIsSeq
  <1>7. ASSUME Fewer(root, run), NEW i \in 1 .. Len(run)
        PROVE  run[i].seq = last + i
    <2>1. last = Len(ran[root])
      BY <1>2, <1>7 DEF OrderInv, NumbersCount, Fewer
    <2>2. last + i - 1 \in 0 .. (MaxCollective - 1)
      BY <1>1, <1>2, <1>6, <1>7, <2>1 DEF Fewer
    <2>3. (last + i - 1) % MaxCollective = last + i - 1
      BY <1>2, <2>2, SmallRemainder
    <2>4. \A b, k : Copy(b, k, NoPe).seq = k
      BY DEF Copy
    <2>5. run[i].seq = ((last + i - 1) % MaxCollective) + 1
      <3>1. run[i] = Copy(bs[i], ((last + i - 1) % MaxCollective) + 1, NoPe)
        BY <1>3, <1>6
      <3> QED
        BY <2>4, <3>1
    <2>6. run[i].seq = (last + i - 1) + 1
      BY <2>3, <2>5
    <2> QED
      BY <1>2, <1>6, <2>6
  <1> QED
    BY <1>6, <1>7 DEF InOrder

(* A copy in turn is the next one *)
LEMMA AppendInOrder ==
    ASSUME OrderInv, NEW e \in Elem, e # root, NEW run, InOrder(e, run),
           NEW n \in Agreed, InTurn(n, LastSeq(e, run))
    PROVE  InOrder(e, Append(run, n))
  <1>1. run \in Seq(CopyPacket) /\ run \in Seq(Agreed) /\ n \in CopyPacket
    BY DEF InOrder, Agreed, SentCopy, CopyPacket
  <1>2. Len(run) \in Nat /\ (run = <<>> <=> Len(run) = 0)
    BY <1>1, LenProperties, EmptySeq
  <1>3. Append(run, n) \in Seq(CopyPacket) /\ Append(run, n) \in Seq(Agreed)
    BY <1>1, AppendFacts
  <1>4. ASSUME Few
        PROVE  \A i \in 1 .. Len(Append(run, n)) :
                  Append(run, n)[i].seq = last_bcast[e] + i
    <2>1. \A i \in 1 .. Len(run) : run[i].seq = last_bcast[e] + i
      BY <1>4 DEF InOrder, Fewer
    <2>2. /\ last_bcast[e] = Len(ran[e]) /\ Len(ran[e]) <= Len(ran[root])
          /\ Len(ran[root]) \in Nat /\ Len(ran[e]) \in Nat
      <3>1. ran[e] \in Seq(Bcast) /\ ran[root] \in Seq(Bcast)
        BY BroadcastAssumption DEF OrderInv, TypeOK
      <3>2. Len(ran[e]) \in Nat /\ Len(ran[root]) \in Nat
        BY <3>1, LenProperties
      <3> QED
        BY <1>4, <3>2 DEF OrderInv, NumbersCount, PrefixAgreement, IsPrefixOfRoot
    <2>3. LastSeq(e, run) = last_bcast[e] + Len(run)
      <3>1. CASE run = <<>>
        BY <1>2, <2>2, <3>1 DEF LastSeq
      <3>2. CASE run # <<>>
        <4>1. Len(run) \in 1 .. Len(run)
          BY <1>2, <3>2
        <4> QED
          BY <2>1, <3>2, <4>1 DEF LastSeq
      <3> QED
        BY <3>1, <3>2
    <2>4. LastSeq(e, run) <= Len(ran[root])
      <3>1. CASE run = <<>>
        BY <2>2, <3>1 DEF LastSeq
      <3>2. CASE run # <<>>
        <4>1. Len(run) \in 1 .. Len(run)
          BY <1>2, <3>2
        <4>2. run[Len(run)] \in Agreed
          BY <1>1, <4>1, ElementOfSeq
        <4> QED
          BY <1>4, <3>2, <4>2 DEF LastSeq, Agreed
      <3> QED
        BY <3>1, <3>2
    <2>5. LastSeq(e, run) # MaxCollective
      BY <1>2, <1>4, <2>2, <2>3, <2>4, BroadcastAssumption DEF Few
    <2>6. n.seq = last_bcast[e] + Len(run) + 1
      BY <2>3, <2>5 DEF InTurn, next_collective_
    <2>7. /\ Len(Append(run, n)) = Len(run) + 1
          /\ \A i \in 1 .. Len(run) : Append(run, n)[i] = run[i]
          /\ Append(run, n)[Len(run) + 1] = n
      BY <1>1, AppendFacts
    <2> SUFFICES ASSUME NEW i \in 1 .. (Len(run) + 1)
                 PROVE  Append(run, n)[i].seq = last_bcast[e] + i
      BY <2>7
    <2>8. CASE i \in 1 .. Len(run)
      BY <2>1, <2>7, <2>8
    <2>9. CASE i = Len(run) + 1
      <3>1. Append(run, n)[i] = n
        BY <2>7, <2>9
      <3>2. last_bcast[e] + i = last_bcast[e] + Len(run) + 1
        <4>1. last_bcast[e] \in Nat
          BY <2>2
        <4>2. \A a, b \in Nat : a + (b + 1) = a + b + 1
          OBVIOUS
        <4> QED
          BY <1>2, <2>9, <4>1, <4>2
      <3> QED
        BY <2>6, <3>1, <3>2
    <2> QED
      BY <1>2, <2>8, <2>9
  <1> QED
    BY <1>3, <1>4 DEF InOrder, Fewer

(* e runs the copies in run, which are its next ones *)
LEMMA RunAllOK ==
    ASSUME OrderInv, NEW p \in PE, NEW e \in Elem, NEW run, InOrder(e, run),
           NEW net, NetOK(net, Agreed), RunAll(p, e, run, net)
    PROVE  /\ last_bcast' \in [Elem -> 0 .. MaxCollective]
           /\ ran' \in [Elem -> Seq(Bcast)]
           /\ Agreed \subseteq Agreed'
           /\ PrefixAgreement' /\ NumbersCount'
           /\ NetOK(queue', Agreed')
  <1> DEFINE bs == [i \in DOMAIN run |-> run[i].bcast]
  <1>1. /\ run \in Seq(CopyPacket)
        /\ Len(run) \in Nat /\ DOMAIN run = 1 .. Len(run)
        /\ \A i \in 1 .. Len(run) : run[i] \in CopyPacket
    BY LenProperties, ElementOfSeq DEF InOrder
  <1>2. bs \in Seq(Bcast) /\ Len(bs) = Len(run) /\ \A i \in 1 .. Len(run) : bs[i] = run[i].bcast
    <2>1. bs \in [1 .. Len(run) -> Bcast]
      BY <1>1 DEF CopyPacket
    <2> QED
      BY <1>1, <2>1, FunctionIsSeq
  <1>3. root \in Elem /\ MaxCollective \in Nat \ {0}
    BY BroadcastAssumption
  <1>4. /\ ran \in [Elem -> Seq(Bcast)] /\ last_bcast \in [Elem -> 0 .. MaxCollective]
        /\ \A f \in Elem : Len(ran[f]) \in Nat
    BY LenProperties DEF OrderInv, TypeOK
  <1>5. ran' = [ran EXCEPT ![e] = ran[e] \o bs]
    BY <1>4 DEF RunAll
  <1> HIDE DEF bs
  <1>6. /\ ran[e] \o bs \in Seq(Bcast) /\ Len(ran[e] \o bs) = Len(ran[e]) + Len(run)
        /\ \A j \in 1 .. Len(ran[e]) : (ran[e] \o bs)[j] = ran[e][j]
        /\ \A j \in 1 .. Len(run) : (ran[e] \o bs)[Len(ran[e]) + j] = run[j].bcast
    <2>1. ran[e] \in Seq(Bcast) /\ bs \in Seq(Bcast)
      BY <1>2, <1>4
    <2>2. /\ ran[e] \o bs \in Seq(Bcast) /\ Len(ran[e] \o bs) = Len(ran[e]) + Len(bs)
          /\ \A j \in 1 .. Len(ran[e]) : (ran[e] \o bs)[j] = ran[e][j]
          /\ \A j \in 1 .. Len(bs) : (ran[e] \o bs)[Len(ran[e]) + j] = bs[j]
      BY <2>1, ConcatFacts
    <2>3. \A j \in 1 .. Len(run) : (ran[e] \o bs)[Len(ran[e]) + j] = run[j].bcast
      <3> SUFFICES ASSUME NEW j \in 1 .. Len(run)
                   PROVE  (ran[e] \o bs)[Len(ran[e]) + j] = run[j].bcast
        OBVIOUS
      <3>1. (ran[e] \o bs)[Len(ran[e]) + j] = bs[j]
        BY <1>2, <2>2
      <3>2. bs[j] = run[j].bcast
        BY <1>2
      <3> QED
        BY <3>1, <3>2
    <2>4. Len(ran[e] \o bs) = Len(ran[e]) + Len(run)
      BY <1>2, <2>2
    <2> QED
      BY <2>2, <2>3, <2>4
  <1>7. ran' \in [Elem -> Seq(Bcast)]
    BY <1>4, <1>5, <1>6
  <1>8. last_bcast' \in [Elem -> 0 .. MaxCollective]
    <2>1. CASE run = <<>>
      BY <1>4, <2>1 DEF RunAll
    <2>2. CASE run # <<>>
      <3>1. Len(run) \in 1 .. Len(run)
        BY <1>1, <2>2, EmptySeq
      <3>2. run[Len(run)].seq \in 0 .. MaxCollective
        BY <1>1, <1>3, <3>1 DEF CopyPacket
      <3> QED
        BY <1>4, <2>2, <3>2 DEF RunAll
    <2> QED
      BY <2>1, <2>2
  <1>9. /\ ran'[e] = ran[e] \o bs
        /\ \A f \in Elem \ {e} : ran'[f] = ran[f]
    BY <1>4, <1>5
  <1>10. /\ Len(ran'[root]) \in Nat /\ Len(ran[root]) <= Len(ran'[root])
         /\ \A i \in 1 .. Len(ran[root]) : ran'[root][i] = ran[root][i]
    <2>1. CASE e = root
      BY <1>1, <1>3, <1>4, <1>6, <1>9, <2>1
    <2>2. CASE e # root
      BY <1>3, <1>4, <1>9, <2>2
    <2> QED
      BY <2>1, <2>2
  <1>11. Few' => Fewer(e, run)
    <2>1. Few' => Few
      BY <1>3, <1>4, <1>10 DEF Few
    <2>2. CASE e = root
      BY <1>6, <1>9, <2>1, <2>2 DEF Few, Fewer
    <2>3. CASE e # root
      BY <2>1, <2>3 DEF Fewer
    <2> QED
      BY <2>2, <2>3
  <1>12. Agreed \subseteq Agreed'
    <2> SUFFICES ASSUME NEW n \in Agreed, Few'
                 PROVE  n.seq <= Len(ran'[root]) /\ ran'[root][n.seq] = n.bcast
      BY DEF Agreed
    <2>1. n.seq \in 1 .. MaxCollective /\ n.seq <= Len(ran[root]) /\ ran[root][n.seq] = n.bcast
      BY <1>11 DEF Fewer, Agreed, SentCopy
    <2>2. n.seq \in 1 .. Len(ran[root])
      BY <1>3, <1>4, <2>1
    <2> QED
      BY <1>3, <1>4, <1>10, <2>1, <2>2
  <1>13. ASSUME Few'
         PROVE  /\ last_bcast[e] = Len(ran[e])
                /\ \A i \in 1 .. Len(run) :
                      /\ run[i].seq = Len(ran[e]) + i
                      /\ Len(ran[e]) + i <= Len(ran'[root])
                      /\ ran'[root][Len(ran[e]) + i] = run[i].bcast
    <2>1. last_bcast[e] = Len(ran[e])
      BY <1>11, <1>13 DEF Fewer, OrderInv, NumbersCount
    <2>2. \A i \in 1 .. Len(run) : run[i].seq = Len(ran[e]) + i
      BY <1>11, <1>13, <2>1 DEF InOrder
    <2>3. CASE e = root
      <3>1. Len(ran'[root]) = Len(ran[e]) + Len(run)
        BY <1>6, <1>9, <2>3
      <3>2. \A i \in 1 .. Len(run) : Len(ran[e]) + i <= Len(ran'[root])
        BY <1>1, <1>4, <3>1
      <3>3. \A i \in 1 .. Len(run) : ran'[root][Len(ran[e]) + i] = run[i].bcast
        BY <1>6, <1>9, <2>3
      <3> QED
        BY <2>1, <2>2, <3>2, <3>3
    <2>4. CASE e # root
      <3>1. run \in Seq(Agreed)
        BY <2>4 DEF InOrder
      <3>2. \A i \in 1 .. Len(run) : run[i] \in Agreed
        BY <3>1, ElementOfSeq
      <3>3. ran'[root] = ran[root]
        BY <1>3, <1>9, <2>4
      <3> QED
        BY <1>11, <1>13, <2>1, <2>2, <3>2, <3>3 DEF Agreed, Fewer
    <2> QED
      BY <2>3, <2>4
  <1>14. PrefixAgreement'
    <2> SUFFICES ASSUME Few', NEW f \in Elem PROVE IsPrefixOfRoot(f)'
      BY DEF PrefixAgreement
    <2>1. /\ Len(ran[f]) <= Len(ran[root])
          /\ \A i \in 1 .. Len(ran[f]) : ran[f][i] = ran[root][i]
      BY <1>11 DEF Fewer, OrderInv, PrefixAgreement, IsPrefixOfRoot
    <2>2. /\ Len(ran[f]) <= Len(ran'[root])
          /\ \A i \in 1 .. Len(ran[f]) : ran[f][i] = ran'[root][i]
      BY <1>3, <1>4, <1>10, <2>1
    <2>3. CASE f # e
      BY <1>9, <2>2, <2>3 DEF IsPrefixOfRoot
    <2>4. CASE f = e
      <3>1. Len(ran'[e]) = Len(ran[e]) + Len(run)
        BY <1>6, <1>9
      <3>2. Len(ran'[e]) <= Len(ran'[root])
        <4>1. CASE Len(run) = 0
          BY <1>4, <1>10, <2>2, <2>4, <3>1, <4>1
        <4>2. CASE Len(run) # 0
          <5>1. Len(run) \in 1 .. Len(run)
            BY <1>1, <4>2
          <5> QED
            BY <1>13, <3>1, <5>1
        <4> QED
          BY <4>1, <4>2
      <3>3. ASSUME NEW i \in 1 .. Len(ran'[e])
            PROVE  ran'[e][i] = ran'[root][i]
        <4>1. CASE i <= Len(ran[e])
          <5>1. i \in 1 .. Len(ran[e])
            BY <1>1, <1>4, <3>1, <4>1
          <5> QED
            BY <1>6, <1>9, <2>2, <2>4, <5>1
        <4>2. CASE i > Len(ran[e])
          <5>1. PICK k \in 1 .. Len(run) : i = Len(ran[e]) + k
            <6>1. i - Len(ran[e]) \in 1 .. Len(run) /\ i = Len(ran[e]) + (i - Len(ran[e]))
              BY <1>1, <1>4, <3>1, <4>2
            <6> QED
              BY <6>1
          <5>2. ran'[e][i] = run[k].bcast
            BY <1>6, <1>9, <5>1
          <5> QED
            BY <1>13, <5>1, <5>2
        <4> QED
          BY <1>1, <1>4, <3>1, <4>1, <4>2
      <3> QED
        BY <2>4, <3>2, <3>3 DEF IsPrefixOfRoot
    <2> QED
      BY <2>3, <2>4
  <1>15. NumbersCount'
    <2> SUFFICES ASSUME Few', NEW f \in Elem PROVE last_bcast'[f] = Len(ran'[f])
      BY DEF NumbersCount
    <2>1. last_bcast[f] = Len(ran[f])
      BY <1>11 DEF Fewer, OrderInv, NumbersCount
    <2>2. CASE f # e
      BY <1>4, <1>9, <2>1, <2>2 DEF RunAll
    <2>3. CASE f = e /\ run = <<>>
      <3>1. Len(run) = 0
        BY <2>3, EmptySeq
      <3> QED
        BY <1>4, <1>6, <1>9, <2>1, <2>3, <3>1 DEF RunAll
    <2>4. CASE f = e /\ run # <<>>
      <3>1. Len(run) \in 1 .. Len(run)
        BY <1>1, <2>4, EmptySeq
      <3>2. last_bcast'[e] = run[Len(run)].seq
        BY <1>4, <2>4 DEF RunAll
      <3> QED
        BY <1>6, <1>9, <1>13, <2>4, <3>1, <3>2
    <2> QED
      BY <2>2, <2>3, <2>4
  <1>16. NetOK(queue', Agreed')
    <2>1. ASSUME NEW c \in children[e]
          PROVE  c \in Elem /\ c # root /\ CopiesTo(p, c, run) \in Seq(Agreed')
      <3>1. c \in Elem /\ c # root
        BY BroadcastAssumption
      <3>2. ASSUME NEW i \in 1 .. Len(run)
            PROVE  [run[i] EXCEPT !.sender = p] \in Agreed'
        <4>1. [run[i] EXCEPT !.sender = p] \in SentCopy
          BY <1>1 DEF CopyPacket, SentCopy
        <4>2. /\ [run[i] EXCEPT !.sender = p].seq = run[i].seq
              /\ [run[i] EXCEPT !.sender = p].bcast = run[i].bcast
          BY <1>1 DEF CopyPacket
        <4>3. Few' => /\ run[i].seq <= Len(ran'[root])
                      /\ ran'[root][run[i].seq] = run[i].bcast
          BY <1>13
        <4> QED
          BY <4>1, <4>2, <4>3 DEF Agreed
      <3>3. CopiesTo(p, c, run) = [i \in 1 .. Len(run) |-> [run[i] EXCEPT !.sender = p]]
        BY <1>1 DEF CopiesTo
      <3>4. CopiesTo(p, c, run) \in [1 .. Len(run) -> Agreed']
        BY <3>2, <3>3
      <3> QED
        BY <1>1, <3>1, <3>4, FunctionIsSeq
    <2>2. ASSUME NEW r \in Route
          PROVE  queue'[r] \in Seq(Fit(r.idx, Agreed'))
      <3>1. net[r] \in Seq(Fit(r.idx, Agreed'))
        <4>1. NetOK(net, Agreed')
          BY <1>12, NetGrows
        <4> QED
          BY <4>1 DEF NetOK
      <3>2. CASE r.from = p /\ r.idx \in children[e] /\ r.to = lookup(p, r.idx)
        <4>1. queue'[r] = net[r] \o CopiesTo(p, r.idx, run)
          BY <3>2 DEF RunAll
        <4>2. Agreed' \subseteq Fit(r.idx, Agreed')
          BY <2>1, <3>2, RootIndex DEF Fit, CopiesFor
        <4>3. CopiesTo(p, r.idx, run) \in Seq(Agreed')
          BY <2>1, <3>2
        <4>4. CopiesTo(p, r.idx, run) \in Seq(Fit(r.idx, Agreed'))
          BY <4>2, <4>3, SeqMonotonic
        <4> QED
          BY <3>1, <4>1, <4>4, ConcatFacts
      <3>3. CASE ~(r.from = p /\ r.idx \in children[e] /\ r.to = lookup(p, r.idx))
        BY <3>1, <3>3 DEF RunAll
      <3> QED
        BY <3>2, <3>3
    <2>3. queue' = [r \in Route |-> queue'[r]]
      BY DEF RunAll
    <2> QED
      BY <2>2, <2>3 DEF NetOK
  <1> QED
    BY <1>7, <1>8, <1>12, <1>14, <1>15, <1>16

-----------------------------------------------------------------------------
(* Flushing *)

(* What every handler leaves behind *)
Delivered ==
    /\ last_bcast' \in [Elem -> 0 .. MaxCollective]
    /\ ran' \in [Elem -> Seq(Bcast)]
    /\ PrefixAgreement' /\ NumbersCount'
    /\ NetOK(queue', Agreed')
    /\ BuffersOK(buffers', Agreed')
    /\ fault' \in [PE -> Fault]

LEMMA NothingRun ==
    ASSUME OrderInv, UNCHANGED <<last_bcast, ran>>, fault' \in [PE -> Fault],
           NetOK(queue', Agreed), BuffersOK(buffers', Agreed)
    PROVE  Delivered
  <1>1. Agreed' = Agreed
    BY DEF Agreed, Few
  <1>2. PrefixAgreement' /\ NumbersCount'
    BY DEF OrderInv, PrefixAgreement, NumbersCount, IsPrefixOfRoot, Few
  <1> QED
    BY <1>1, <1>2 DEF Delivered, OrderInv, TypeOK

LEMMA FlushHereOK ==
    ASSUME OrderInv, NEW p \in PE, NEW e \in Elem, NEW run, InOrder(e, run),
           NEW net, NetOK(net, Agreed), FlushHere(p, e, run, net)
    PROVE  Delivered
  <1>1. /\ BuffersOK(buffers, Agreed) /\ fault \in [PE -> Fault]
        /\ \A f \in Fault : [fault EXCEPT ![p] = f] \in [PE -> Fault]
    BY DEF OrderInv, TypeOK
  <1>2. ASSUME RunAll(p, e, run, net), UNCHANGED buffers, fault' \in [PE -> Fault]
        PROVE  Delivered
    <2>1. BuffersOK(buffers, Agreed')
      BY <1>1, <1>2, RunAllOK, BuffersGrow
    <2> QED
      BY <1>2, <2>1, RunAllOK DEF Delivered
  <1>3. CASE FlushClear(p, e, run, net)
    BY <1>1, <1>2, <1>3 DEF FlushClear
  <1>4. CASE FlushLoop(p, e, run, net)
    BY <1>1, <1>2, <1>4 DEF FlushLoop, Fault
  <1>5. CASE FlushCrash(p, e, run, net)
    <2>1. PICK i \in DOMAIN buffers[p][e] :
              /\ InTurn(buffers[p][e][i], LastSeq(e, run))
              /\ RunAll(p, e, Append(run, buffers[p][e][i]), net)
              /\ buffers' = [buffers EXCEPT ![p][e] = RemoveAt(buffers[p][e], i)]
      BY <1>1, <1>5 DEF FlushCrash, BuffersOK
    <2>2. buffers[p][e] \in Seq(CopiesFor(e, Agreed))
      BY <1>1 DEF BuffersOK
    <2>3. buffers[p][e][i] \in CopiesFor(e, Agreed)
      BY <2>2, LenProperties, ElementOfSeq
    <2>4. e # root /\ buffers[p][e][i] \in Agreed
      BY <2>3 DEF CopiesFor
    <2>5. InOrder(e, Append(run, buffers[p][e][i]))
      BY <2>1, <2>4, AppendInOrder
    <2>6. RemoveAt(buffers[p][e], i) \in Seq(CopiesFor(e, Agreed))
      BY <2>2, RemoveAtFacts
    <2>7. BuffersOK(buffers', Agreed)
      BY <1>1, <2>1, <2>6, RebufferOK
    <2>8. /\ last_bcast' \in [Elem -> 0 .. MaxCollective]
          /\ ran' \in [Elem -> Seq(Bcast)]
          /\ Agreed \subseteq Agreed'
          /\ PrefixAgreement' /\ NumbersCount'
          /\ NetOK(queue', Agreed')
      BY <2>1, <2>5, RunAllOK
    <2>9. BuffersOK(buffers', Agreed')
      BY <2>7, <2>8, BuffersGrow
    <2>10. fault' \in [PE -> Fault]
      BY <1>1, <1>5 DEF FlushCrash, Fault
    <2> QED
      BY <2>8, <2>9, <2>10 DEF Delivered
  <1> QED
    BY <1>3, <1>4, <1>5 DEF FlushHere

LEMMA FlushAwayOK ==
    ASSUME OrderInv, NEW p \in PE, NEW e \in Elem,
           NEW net, NetOK(net, Agreed), FlushAway(p, e, net)
    PROVE  Delivered
  <1>1. BuffersOK(buffers, Agreed) /\ fault \in [PE -> Fault]
    BY DEF OrderInv, TypeOK
  <1>2. buffers[p][e] \in Seq(CopiesFor(e, Agreed))
    BY <1>1 DEF BuffersOK
  <1>3. forwarded_by(p, buffers[p][e]) \in Seq(CopiesFor(e, Agreed))
    <2>1. CASE e = root
      <3>1. buffers[p][e] = <<>>
        <4>1. Len(buffers[p][e]) \in Nat /\ DOMAIN buffers[p][e] = 1 .. Len(buffers[p][e])
          BY <1>2, LenProperties
        <4>2. \A i \in 1 .. Len(buffers[p][e]) : FALSE
          BY <1>2, <2>1, ElementOfSeq DEF CopiesFor
        <4>3. Len(buffers[p][e]) = 0
          <5>1. Len(buffers[p][e]) # 0 => 1 \in 1 .. Len(buffers[p][e])
            BY <4>1
          <5> QED
            BY <4>2, <5>1
        <4> QED
          BY <1>2, <4>3, EmptySeq
      <3>2. forwarded_by(p, <<>>) = <<>>
        BY DEF forwarded_by
      <3> QED
        BY <3>1, <3>2, EmptySeq
    <2>2. CASE e # root
      BY <1>2, <2>2, ForwardedOK DEF CopiesFor
    <2> QED
      BY <2>1, <2>2
  <1>4. CASE NoIdea(p, e)'
    <2>1. queue' = net /\ buffers' = [buffers EXCEPT ![p][e] = buffers[p][e]]
      BY <1>4 DEF FlushAway, Reroute
    <2>2. BuffersOK(buffers', Agreed)
      BY <1>1, <1>2, <2>1, RebufferOK
    <2> QED
      BY <1>1, <2>1, <2>2, NothingRun DEF FlushAway
  <1>5. CASE ~NoIdea(p, e)'
    <2>1. /\ queue' = Emit(net, p, lookup(p, e)', e, forwarded_by(p, buffers[p][e]))
          /\ buffers' = [buffers EXCEPT ![p][e] = <<>>]
      BY <1>5 DEF FlushAway, Reroute
    <2>2. forwarded_by(p, buffers[p][e]) \in Seq(Fit(e, Agreed))
      <3>1. CopiesFor(e, Agreed) \subseteq Fit(e, Agreed)
        BY RootIndex DEF Fit
      <3> QED
        BY <1>3, <3>1, SeqMonotonic
    <2>3. NetOK(queue', Agreed)
      BY <2>1, <2>2, EmitOK
    <2>4. BuffersOK(buffers', Agreed)
      BY <1>1, <2>1, RebufferOK, EmptySeq
    <2> QED
      BY <1>1, <2>3, <2>4, NothingRun DEF FlushAway
  <1> QED
    BY <1>4, <1>5

LEMMA FlushBuffersOK ==
    ASSUME OrderInv, NEW p \in PE, NEW e \in Elem,
           NEW net, NetOK(net, Agreed), FlushBuffers(p, e, net)
    PROVE  Delivered
  BY NothingInOrder, FlushHereOK, FlushAwayOK DEF FlushBuffers

-----------------------------------------------------------------------------
(* The invariant holds *)

LEMMA OrderInit == Init => OrderInv
  <1> SUFFICES ASSUME Init PROVE OrderInv
    OBVIOUS
  <1>1. /\ root \in Elem /\ created \in [Elem -> PE] /\ Inserting \subseteq PE
        /\ MaxCollective \in Nat \ {0} /\ MaxHops \in Nat
    BY BroadcastAssumption
  <1>2. Agreed \subseteq SentCopy
    BY DEF Agreed
  <1>3. NetOK(queue, Agreed)
    <2>1. ASSUME NEW r \in Route
          PROVE  queue[r] \in Seq(Fit(r.idx, Agreed))
      <3>1. CASE CreationUpdate(r)
        <4>1. Location(r.from) \in Fit(r.idx, Agreed)
          BY <3>1, RootIndex DEF CreationUpdate, Fit, Moves, Location, Route
        <4>2. <<Location(r.from)>> \in Seq(Fit(r.idx, Agreed))
          BY <4>1
        <4> QED
          BY <3>1, <4>2 DEF Init
      <3>2. CASE ~CreationUpdate(r)
        BY <3>2, EmptySeq DEF Init
      <3> QED
        BY <3>1, <3>2
    <2> QED
      BY <2>1 DEF NetOK, Init
  <1>4. BuffersOK(buffers, Agreed)
    BY EmptySeq DEF BuffersOK, Init
  <1>5. queue \in [Route -> Seq(Packet)] /\ buffers \in [PE -> [Elem -> Seq(CopyPacket)]]
    BY <1>2, <1>3, <1>4, NetType, BuffersType
  <1>6. /\ ran \in [Elem -> Seq(Bcast)] /\ collective_buffer \in [PE -> Seq(Bcast)]
        /\ fault \in [PE -> Fault]
    BY EmptySeq DEF Init, Fault
  <1>7. LocmgrTypeOK
    BY DEF Init, LocmgrInit, LocmgrTypeOK
  <1>8. TypeOK
    BY <1>1, <1>5, <1>6, <1>7 DEF Init, TypeOK
  <1>9. PrefixAgreement /\ NumbersCount
    <2>1. \A e \in Elem : ran[e] = <<>> /\ last_bcast[e] = 0 /\ Len(ran[e]) = 0
      BY EmptySeq DEF Init
    <2>2. \A i \in 1 .. 0 : FALSE
      OBVIOUS
    <2> QED
      BY <1>1, <2>1, <2>2 DEF PrefixAgreement, NumbersCount, IsPrefixOfRoot
  <1> QED
    BY <1>3, <1>4, <1>8, <1>9 DEF OrderInv

(* A step that delivers, and keeps the types of the rest *)
LEMMA OrderKept ==
    ASSUME OrderInv, Delivered, LocmgrTypeOK',
           chares' \in [PE -> SUBSET Elem],
           collective_buffer' \in [PE -> Seq(Bcast)],
           is_inserting' \subseteq PE, posted' \subseteq Bcast,
           hop' \in [Elem -> 0 .. MaxHops]
    PROVE  OrderInv'
  <1>1. Agreed' \subseteq SentCopy
    BY DEF Agreed
  <1>2. queue' \in [Route -> Seq(Packet)] /\ buffers' \in [PE -> [Elem -> Seq(CopyPacket)]]
    BY <1>1, NetType, BuffersType DEF Delivered
  <1>3. TypeOK'
    BY <1>2 DEF TypeOK, Delivered
  <1> QED
    BY <1>3 DEF OrderInv, Delivered

LEMMA OrderStep == OrderInv /\ [Next]_vars => OrderInv'
  <1> SUFFICES ASSUME OrderInv, [Next]_vars PROVE OrderInv'
    OBVIOUS
  <1> USE DEF tables
  <1>1. /\ TypeOK /\ NetOK(queue, Agreed) /\ BuffersOK(buffers, Agreed)
        /\ LocmgrTypeOK
        /\ chares \in [PE -> SUBSET Elem]
        /\ collective_buffer \in [PE -> Seq(Bcast)]
        /\ is_inserting \subseteq PE /\ posted \subseteq Bcast
        /\ hop \in [Elem -> 0 .. MaxHops] /\ fault \in [PE -> Fault]
        /\ root \in Elem
    BY BroadcastAssumption DEF OrderInv, TypeOK
  <1>2. UNCHANGED tables => LocmgrTypeOK'
    BY <1>1 DEF LocmgrTypeOK
  <1>3. /\ \A b \in Bcast : Post(b) \in Posts
        /\ \A pe \in PE : Location(pe) \in Moves
        /\ Chare \in Moves
    BY DEF Post, Posts, Location, Moves
  <1>4. /\ \A A : Fit(bcast_root, A) = Posts
        /\ \A e \in Elem : \A A : /\ Moves \subseteq Fit(e, A)
                                  /\ CopiesFor(e, A) \subseteq Fit(e, A)
    BY RootIndex DEF Fit
  <1>5. ASSUME NEW p \in PE, NEW b \in Bcast, Broadcast(p, b)
        PROVE  OrderInv'
    <2>1. <<Post(b)>> \in Seq(Fit(bcast_root, Agreed))
      BY <1>3, <1>4
    <2>2. NetOK(queue', Agreed)
      BY <1>1, <1>5, <2>1, EmitOK DEF Broadcast
    <2>3. Delivered
      BY <1>1, <1>5, <2>2, NothingRun DEF Broadcast
    <2> QED
      BY <1>1, <1>2, <1>5, <2>3, OrderKept DEF Broadcast
  <1>6. ASSUME NEW p \in PE, NEW e \in Elem, NEW dst \in PE, Emigrate(p, e, dst)
        PROVE  OrderInv'
    <2> DEFINE left == Emit(queue, p, dst, e, <<Chare>>)
               away == IF p = home_pe(e) THEN left
                       ELSE Emit(left, p, home_pe(e), e, <<Location(dst)>>)
    <2>1. <<Chare>> \in Seq(Fit(e, Agreed)) /\ <<Location(dst)>> \in Seq(Fit(e, Agreed))
      BY <1>3, <1>4
    <2>2. NetOK(left, Agreed)
      BY <1>1, <2>1, EmitOK
    <2>3. NetOK(away, Agreed)
      <3> HIDE DEF left
      <3>1. NetOK(Emit(left, p, home_pe(e), e, <<Location(dst)>>), Agreed)
        BY <2>1, <2>2, EmitOK
      <3> QED
        BY <2>2, <3>1
    <2>4. FlushBuffers(p, e, away)
      BY <1>6 DEF Emigrate
    <2> HIDE DEF away
    <2>5. Delivered
      BY <2>3, <2>4, FlushBuffersOK
    <2>6. LocmgrTypeOK'
      BY <1>1, <1>6, UpdateLocationType DEF Emigrate
    <2>7. hop' \in [Elem -> 0 .. MaxHops]
      BY <1>1, <1>6, BroadcastAssumption DEF Emigrate
    <2>8. chares' \in [PE -> SUBSET Elem]
      BY <1>1, <1>6 DEF Emigrate
    <2> QED
      BY <1>1, <1>6, <2>5, <2>6, <2>7, <2>8, OrderKept DEF Emigrate
  <1>7. ASSUME NEW p \in PE, InsertionComplete(p)
        PROVE  OrderInv'
    <2> DEFINE waiting == collective_buffer[p]
               posts == [i \in DOMAIN waiting |-> Post(waiting[i])]
    <2>1. waiting \in Seq(Bcast)
      BY <1>1
    <2>2. collective_buffer' \in [PE -> Seq(Bcast)]
      BY <1>1, <1>7, EmptySeq DEF InsertionComplete
    <2>3. posts \in Seq(Fit(bcast_root, Agreed))
      <3>1. Len(waiting) \in Nat /\ DOMAIN waiting = 1 .. Len(waiting)
        BY <2>1, LenProperties
      <3>2. posts \in [1 .. Len(waiting) -> Posts]
        BY <1>3, <2>1, <3>1, ElementOfSeq
      <3> QED
        BY <1>4, <3>1, <3>2, FunctionIsSeq
    <2>4. Delivered
      <3>1. CASE FlushHere(p, root, numbered(waiting), queue)
        BY <1>1, <2>1, <3>1, NumberedInOrder, FlushHereOK
      <3>2. CASE /\ fault' = IF waiting = <<>> THEN fault
                             ELSE [fault EXCEPT ![p] = "loop"]
                 /\ UNCHANGED <<queue, collective_buffer, last_bcast, ran, buffers>>
        <4>1. fault' \in [PE -> Fault]
          BY <1>1, <3>2 DEF Fault
        <4> QED
          BY <1>1, <3>2, <4>1, NothingRun
      <3>3. CASE /\ queue' = Emit(queue, p, lookup(p, root), bcast_root, posts)
                 /\ UNCHANGED <<last_bcast, ran, buffers, fault>>
        <4> HIDE DEF posts
        <4>1. NetOK(queue', Agreed)
          BY <1>1, <2>3, <3>3, EmitOK
        <4> QED
          BY <1>1, <3>3, <4>1, NothingRun
      <3> QED
        BY <1>7, <3>1, <3>2, <3>3 DEF InsertionComplete
    <2> QED
      BY <1>1, <1>2, <1>7, <2>2, <2>4, OrderKept DEF InsertionComplete
  <1>8. ASSUME NEW r \in Route, NEW i \in DOMAIN queue[r]
        PROVE  /\ r.to \in PE
               /\ r.idx \in Elem \cup {bcast_root}
               /\ queue[r][i] \in Fit(r.idx, Agreed)
               /\ NetOK(Without(r, i), Agreed)
               /\ queue[r][i].type = "post" => queue[r][i].bcast \in Bcast
               /\ queue[r][i].type = "location" =>
                     r.idx \in Elem /\ queue[r][i].pe \in PE
               /\ queue[r][i].type = "chare" => r.idx \in Elem
               /\ queue[r][i].type = "copy" =>
                     r.idx \in Elem /\ r.idx # root /\ queue[r][i] \in Agreed
    <2>1. queue[r][i] \in Fit(r.idx, Agreed) /\ NetOK(Without(r, i), Agreed)
      BY <1>1, <1>8, ReceivedFits, WithoutOK
    <2>2. r.to \in PE /\ r.idx \in Elem \cup {bcast_root}
      BY DEF Route
    <2>3. \A n \in Agreed : n.type = "copy"
      BY DEF Agreed, SentCopy
    <2>4. CASE r.idx = bcast_root
      BY <2>1, <2>2, <2>4 DEF Fit, Posts
    <2>5. CASE r.idx # bcast_root
      BY <2>1, <2>2, <2>3, <2>5 DEF Fit, Moves, CopiesFor, Chare
    <2> QED
      BY <2>1, <2>2, <2>4, <2>5
  <1>9. ASSUME NEW r \in Route, NEW i \in DOMAIN queue[r], ReceivePost(r, i)
        PROVE  OrderInv'
    <2> DEFINE p == r.to
               b == queue[r][i].bcast
               net == Without(r, i)
    <2>1. p \in PE /\ b \in Bcast /\ NetOK(net, Agreed)
      BY <1>8, <1>9 DEF ReceivePost, Receives
    <2>2. \/ /\ FlushHere(p, root, numbered(<<b>>), net)
             /\ UNCHANGED collective_buffer
          \/ /\ collective_buffer' = [collective_buffer EXCEPT
                                         ![p] = Append(collective_buffer[p], b)]
             /\ queue' = net
             /\ UNCHANGED <<last_bcast, ran, buffers, fault>>
          \/ /\ queue' = Emit(net, p, lookup(p, root), bcast_root, <<Post(b)>>)
             /\ UNCHANGED <<collective_buffer, last_bcast, ran, buffers, fault>>
      BY <1>1, <1>9, <2>1 DEF ReceivePost
    <2> HIDE DEF p, b, net
    <2>3. <<b>> \in Seq(Bcast) /\ <<Post(b)>> \in Seq(Fit(bcast_root, Agreed))
      BY <1>3, <1>4, <2>1
    <2>4. Delivered
      <3>1. CASE FlushHere(p, root, numbered(<<b>>), net)
        BY <1>1, <2>1, <2>3, <3>1, NumberedInOrder, FlushHereOK
      <3>2. CASE queue' = net /\ UNCHANGED <<last_bcast, ran, buffers, fault>>
        BY <1>1, <2>1, <3>2, NothingRun
      <3>3. CASE /\ queue' = Emit(net, p, lookup(p, root), bcast_root, <<Post(b)>>)
                 /\ UNCHANGED <<last_bcast, ran, buffers, fault>>
        <4>1. NetOK(queue', Agreed)
          BY <2>1, <2>3, <3>3, EmitOK
        <4> QED
          BY <1>1, <3>3, <4>1, NothingRun
      <3> QED
        BY <2>2, <3>1, <3>2, <3>3
    <2>5. collective_buffer' \in [PE -> Seq(Bcast)]
      <3>1. Append(collective_buffer[p], b) \in Seq(Bcast)
        BY <1>1, <2>1, AppendFacts
      <3> QED
        BY <1>1, <2>1, <2>2, <3>1
    <2> QED
      BY <1>1, <1>2, <1>9, <2>4, <2>5, OrderKept DEF ReceivePost
  <1>10. ASSUME NEW r \in Route, NEW i \in DOMAIN queue[r], ReceiveCopy(r, i)
         PROVE  OrderInv'
    <2> DEFINE p == r.to
               e == r.idx
               n == queue[r][i]
               net == Without(r, i)
    <2>1. p \in PE /\ e \in Elem /\ e # root /\ n \in Agreed /\ NetOK(net, Agreed)
      BY <1>8, <1>10 DEF ReceiveCopy, Receives
    <2>2. \/ handle_broadcast_message(p, e, n, routing_update(p, e, n, net))
          \/ /\ queue' = net
             /\ buffers' = [buffers EXCEPT ![p][e] = Append(buffers[p][e], n)]
             /\ UNCHANGED <<last_bcast, ran, fault>>
          \/ /\ queue' = Emit(net, p, lookup(p, e), e, forwarded_by(p, <<n>>))
             /\ UNCHANGED <<buffers, last_bcast, ran, fault>>
      BY <1>1, <1>10, <2>1 DEF ReceiveCopy, BuffersOK
    <2> HIDE DEF p, e, n, net
    <2>3. NetOK(routing_update(p, e, n, net), Agreed)
      <3>1. <<Location(p)>> \in Seq(Fit(e, Agreed))
        BY <1>3, <1>4, <2>1
      <3>2. NetOK(Emit(net, p, n.sender, e, <<Location(p)>>), Agreed)
        BY <2>1, <3>1, EmitOK
      <3> QED
        BY <2>1, <3>2 DEF routing_update
    <2>4. BuffersOK([buffers EXCEPT ![p][e] = Append(buffers[p][e], n)], Agreed)
      <3>1. buffers[p][e] \in Seq(CopiesFor(e, Agreed)) /\ n \in CopiesFor(e, Agreed)
        BY <1>1, <2>1 DEF BuffersOK, CopiesFor
      <3>2. Append(buffers[p][e], n) \in Seq(CopiesFor(e, Agreed))
        BY <3>1, AppendFacts
      <3> QED
        BY <1>1, <2>1, <3>2, RebufferOK
    <2>5. Delivered
      <3>1. CASE InTurn(n, last_bcast[e]) /\ FlushHere(p, e, <<n>>, routing_update(p, e, n, net))
        <4>1. LastSeq(e, <<>>) = last_bcast[e]
          BY DEF LastSeq
        <4>2. Append(<<>>, n) = <<n>>
          OBVIOUS
        <4>3. InOrder(e, <<n>>)
          BY <2>1, <3>1, <4>1, <4>2, NothingInOrder, AppendInOrder
        <4> QED
          BY <2>1, <2>3, <3>1, <4>3, FlushHereOK
      <3>2. CASE OutOfTurn(p, e, n, routing_update(p, e, n, net))
        <4>1. buffers' = [buffers EXCEPT ![p][e] = Append(buffers[p][e], n)]
          BY <1>1, <2>1, <3>2 DEF OutOfTurn, BuffersOK
        <4> QED
          BY <1>1, <2>3, <2>4, <3>2, <4>1, NothingRun DEF OutOfTurn
      <3>3. CASE /\ queue' = net
                 /\ buffers' = [buffers EXCEPT ![p][e] = Append(buffers[p][e], n)]
                 /\ UNCHANGED <<last_bcast, ran, fault>>
        BY <1>1, <2>1, <2>4, <3>3, NothingRun
      <3>4. CASE /\ queue' = Emit(net, p, lookup(p, e), e, forwarded_by(p, <<n>>))
                 /\ UNCHANGED <<buffers, last_bcast, ran, fault>>
        <4>1. <<n>> \in Seq(Agreed)
          BY <2>1
        <4>2. forwarded_by(p, <<n>>) \in Seq(Fit(e, Agreed))
          <5>1. forwarded_by(p, <<n>>) \in Seq(CopiesFor(e, Agreed))
            BY <2>1, <4>1, ForwardedOK DEF CopiesFor
          <5> QED
            BY <1>4, <2>1, <5>1, SeqMonotonic
        <4>3. NetOK(queue', Agreed)
          BY <2>1, <3>4, <4>2, EmitOK
        <4> QED
          BY <1>1, <3>4, <4>3, NothingRun
      <3> QED
        BY <2>2, <3>1, <3>2, <3>3, <3>4 DEF handle_broadcast_message
    <2> QED
      BY <1>1, <1>2, <1>10, <2>5, OrderKept DEF ReceiveCopy
  <1>11. ASSUME NEW r \in Route, NEW i \in DOMAIN queue[r], ReceiveLocation(r, i)
         PROVE  OrderInv'
    <2>1. r.to \in PE /\ r.idx \in Elem /\ queue[r][i].pe \in PE /\ NetOK(Without(r, i), Agreed)
      BY <1>8, <1>11 DEF ReceiveLocation, Receives
    <2>2. LocmgrTypeOK'
      BY <1>1, <1>11, <2>1, UpdateLocationType DEF ReceiveLocation
    <2>3. Delivered
      BY <1>11, <2>1, FlushBuffersOK DEF ReceiveLocation
    <2> QED
      BY <1>1, <1>11, <2>2, <2>3, OrderKept DEF ReceiveLocation
  <1>12. ASSUME NEW r \in Route, NEW i \in DOMAIN queue[r], ReceiveChare(r, i)
         PROVE  OrderInv'
    <2>1. r.to \in PE /\ r.idx \in Elem /\ NetOK(Without(r, i), Agreed)
      BY <1>8, <1>12 DEF ReceiveChare, Receives
    <2>2. LocmgrTypeOK'
      BY <1>1, <1>12, <2>1, UpdateLocationType DEF ReceiveChare
    <2>3. Delivered
      BY <1>12, <2>1, FlushBuffersOK DEF ReceiveChare
    <2>4. chares' \in [PE -> SUBSET Elem]
      BY <1>1, <1>12, <2>1 DEF ReceiveChare
    <2> QED
      BY <1>1, <1>12, <2>2, <2>3, <2>4, OrderKept DEF ReceiveChare
  <1>13. CASE UNCHANGED vars
    <2>1. Delivered
      BY <1>1, <1>13, NothingRun DEF vars
    <2> QED
      BY <1>1, <1>2, <1>13, <2>1, OrderKept DEF vars
  <1> QED
    BY <1>5, <1>6, <1>7, <1>9, <1>10, <1>11, <1>12, <1>13 DEF Next

(* Packets, buffers and tables are well formed: no path of numbering,      *)
(* forwarding, buffering and flushing makes a packet that is not one, and  *)
(* numbers stay between 1 and MaxCollective across the wrap.               *)
THEOREM BroadcastTypeCorrect == Spec => []TypeOK
  <1>1. OrderInv => TypeOK
    BY DEF OrderInv
  <1> QED
    BY <1>1, OrderInit, OrderStep, PTL DEF Spec

(* While the root has run fewer broadcasts than there are numbers, every   *)
(* element has run a prefix of what the root has, in any order of packets, *)
(* with any migrations, and even where flushes fail (collection.hpp:342).  *)
THEOREM BroadcastsAgree == Spec => []PrefixAgreement
  <1>1. OrderInv => PrefixAgreement
    BY DEF OrderInv
  <1> QED
    BY <1>1, OrderInit, OrderStep, PTL DEF Spec

=============================================================================
