--------------------------- MODULE ReductionProofs --------------------------
(***************************************************************************)
(* Theorems about Reduction, for every spanning tree, number of PEs,       *)
(* reductions, tags and migrations, and every order of contributions and   *)
(* messages.                                                               *)
(***************************************************************************)
EXTENDS Reduction, Facts

-----------------------------------------------------------------------------
(* The location tables *)

LEMMA HomePE ==
    ASSUME NEW e \in Elem
    PROVE  home_pe(e) \in PE
  BY NumPesAssumption, ElemAssumption DEF home_pe, PE

LEMMA LookupPE ==
    ASSUME LocmgrTypeOK, NEW p \in PE, NEW e \in Elem
    PROVE  lookup(p, e) \in PE
  BY HomePE DEF LocmgrTypeOK, lookup, lookup_cache

LEMMA UpdateLocationType ==
    ASSUME LocmgrTypeOK, NEW p \in PE, NEW e \in Elem, NEW pe \in PE,
           update_location(p, e, pe)
    PROVE  LocmgrTypeOK'
  <1>1. ASSUME NEW table \in [PE -> [Elem -> PE \cup {NoPe}]]
        PROVE  [table EXCEPT ![p][e] = pe] \in [PE -> [Elem -> PE \cup {NoPe}]]
    OBVIOUS
  <1> QED
    BY <1>1 DEF LocmgrTypeOK, update_location

(* Wherever a message is sent, there is a PE *)
LEMMA WherePE ==
    ASSUME LocmgrTypeOK', NEW p \in PE, NEW e \in Elem
    PROVE  where(p)[e] \in PE
  BY HomePE DEF where, LocmgrTypeOK, lookup, lookup_cache

-----------------------------------------------------------------------------
(* Messages that are picked from others *)

(* What is picked hits a set T at most as often as the messages do, and    *)
(* only where it was picked.                                               *)
LEMMA PickedFacts ==
    ASSUME NEW S, NEW ms \in Seq(S), NEW I, NEW T
    PROVE  /\ Picked(ms, I) \in Seq(S)
           /\ (\A i \in DOMAIN ms : i \in I => ms[i] \notin T)
                 => NoHit(Picked(ms, I), T)
           /\ \A i \in DOMAIN ms :
                 Hits(ms, T) = {i} /\ i \in I => OneHit(Picked(ms, I), T)
  <1> DEFINE ss == [i \in DOMAIN ms |-> IF i \in I THEN <<ms[i]>> ELSE <<>>]
             n == Len(ms)
  <1>1. n \in Nat /\ DOMAIN ms = 1 .. n /\ ms \in [1 .. n -> S]
    BY LenProperties
  <1> HIDE DEF n
  <1>2. ss \in [1 .. n -> Seq(S)]
    BY <1>1
  <1>3. Picked(ms, I) = FlattenSeq(ss)
    BY DEF Picked
  <1>4. \A i \in 1 .. n :
           /\ i \in I /\ ms[i] \in T => OneHit(ss[i], T)
           /\ ~(i \in I /\ ms[i] \in T) => NoHit(ss[i], T)
    <2> SUFFICES ASSUME NEW i \in 1 .. n
                 PROVE  /\ i \in I /\ ms[i] \in T => OneHit(ss[i], T)
                        /\ ~(i \in I /\ ms[i] \in T) => NoHit(ss[i], T)
      OBVIOUS
    <2>1. CASE i \in I
      <3>1. ss[i] = <<ms[i]>>
        BY <1>1, <2>1
      <3> QED
        BY <2>1, <3>1, SingleHits
    <2>2. CASE i \notin I
      <3>1. ss[i] = <<>>
        BY <1>1, <2>2
      <3> QED
        BY <2>2, <3>1, EmptyHits
    <2> QED
      BY <2>1, <2>2
  <1> HIDE DEF ss
  <1>5. Picked(ms, I) \in Seq(S)
    BY <1>1, <1>2, <1>3, FlattenType
  <1>6. ASSUME \A i \in DOMAIN ms : i \in I => ms[i] \notin T
        PROVE  NoHit(FlattenSeq(ss), T)
    <2>1. \A i \in 1 .. n : NoHit(ss[i], T)
      BY <1>1, <1>4, <1>6
    <2> QED
      BY <1>1, <1>2, <2>1, FlattenHits
  <1>7. ASSUME NEW i \in DOMAIN ms, Hits(ms, T) = {i}, i \in I
        PROVE  OneHit(FlattenSeq(ss), T)
    <2>1. OneHit(ss[i], T)
      BY <1>1, <1>4, <1>7 DEF Hits
    <2>2. \A j \in (1 .. n) \ {i} : NoHit(ss[j], T)
      BY <1>1, <1>4, <1>7 DEF Hits
    <2> QED
      BY <1>1, <1>2, <2>1, <2>2, FlattenHits
  <1> QED
    BY <1>3, <1>5, <1>6, <1>7

-----------------------------------------------------------------------------
(* The rounds of a reducer *)

LEMMA ExpectedType ==
    ASSUME NEW e \in Elem
    PROVE  expected(e) \in Nat \ {0}
  <1>1. children(e) \in SUBSET Elem
    BY DEF children
  <1>2. Cardinality(children(e)) \in Nat
    BY <1>1, ReductionAssumption, FS_Subset, FS_CardinalityType
  <1> QED
    BY <1>2 DEF expected

(* Every round takes the next expected(e) messages, and the rest is left *)
LEMMA RoundFacts ==
    ASSUME NEW S, NEW e \in Elem, NEW got \in Seq(S)
    PROVE  LET n == Len(got)
               d == expected(e)
               q == Rounds(e, got)
           IN  /\ n \in Nat /\ d \in Nat \ {0} /\ q \in Nat
               /\ q * d \in Nat /\ q * d <= n
               /\ Left(e, got) \in Seq(S)
               /\ DOMAIN Left(e, got) = 1 .. (n - q * d)
               /\ \A j \in 1 .. (n - q * d) : Left(e, got)[j] = got[q * d + j]
               /\ \A i \in 1 .. q :
                     /\ (i - 1) * d \in Nat /\ (i - 1) * d + d <= q * d
                     /\ Round(e, got, i) \in Seq(S)
                     /\ DOMAIN Round(e, got, i) = 1 .. d
                     /\ \A j \in 1 .. d : Round(e, got, i)[j] = got[(i - 1) * d + j]
  <1> DEFINE n == Len(got)
             d == expected(e)
             q == Rounds(e, got)
  <1>1. n \in Nat /\ DOMAIN got = 1 .. n /\ \A i \in 1 .. n : got[i] \in S
    BY LenProperties, ElementOfSeq
  <1>2. d \in Nat \ {0}
    BY ExpectedType
  <1>3. q = n \div d
    BY DEF Rounds
  <1>4. Left(e, got) = SubSeq(got, q * d + 1, n)
    BY DEF Left
  <1>5. \A i \in 1 .. q : Round(e, got, i) = SubSeq(got, (i - 1) * d + 1, i * d)
    BY DEF Round
  <1> HIDE DEF n, d, q
  <1>6. q \in Nat /\ q * d \in Nat /\ q * d <= n
    BY <1>1, <1>2, <1>3, DivisionFacts, ProductNat
  <1>7. /\ Left(e, got) \in Seq(S)
        /\ DOMAIN Left(e, got) = 1 .. (n - q * d)
        /\ \A j \in 1 .. (n - q * d) : Left(e, got)[j] = got[q * d + j]
    <2> DEFINE a == q * d
    <2>1. a \in Nat /\ a <= n
      BY <1>6
    <2> HIDE DEF a
    <2>2. \A i \in (a + 1) .. n : got[i] \in S
      BY <1>1, <2>1
    <2>3. /\ SubSeq(got, a + 1, n) \in Seq(S)
          /\ Len(SubSeq(got, a + 1, n)) = n - a
          /\ \A j \in 1 .. (n - a) : SubSeq(got, a + 1, n)[j] = got[a + j]
      <3>1. /\ SubSeq(got, a + 1, n) \in Seq(S)
            /\ Len(SubSeq(got, a + 1, n)) =
                  IF a + 1 <= n THEN n - (a + 1) + 1 ELSE 0
            /\ \A j \in 1 .. (n - (a + 1) + 1) :
                  SubSeq(got, a + 1, n)[j] = got[(a + 1) + j - 1]
        BY <1>1, <2>1, <2>2, SubSeqProperties
      <3>2. n - (a + 1) + 1 = n - a
        BY <1>1, <2>1
      <3>3. \A j \in 1 .. (n - a) : (a + 1) + j - 1 = a + j
        BY <1>1, <2>1
      <3> QED
        BY <1>1, <2>1, <3>1, <3>2, <3>3
    <2>4. DOMAIN SubSeq(got, a + 1, n) = 1 .. (n - a)
      BY <2>3, LenProperties
    <2> QED
      BY <1>4, <2>3, <2>4 DEF a
  <1>8. ASSUME NEW i \in 1 .. q
        PROVE  /\ (i - 1) * d \in Nat /\ (i - 1) * d + d <= q * d
               /\ Round(e, got, i) \in Seq(S)
               /\ DOMAIN Round(e, got, i) = 1 .. d
               /\ \A j \in 1 .. d : Round(e, got, i)[j] = got[(i - 1) * d + j]
    <2> DEFINE a == (i - 1) * d
    <2>1. a \in Nat /\ i * d = a + d /\ a + d <= q * d
      <3>1. i - 1 \in Nat /\ i \in Nat /\ i <= q /\ d \in Nat
        BY <1>2, <1>6
      <3>2. a \in Nat
        BY <3>1, ProductNat
      <3>3. i * d = a + d
        <4>1. ((i - 1) + 1) * d = (i - 1) * d + d
          BY <3>1, ProductNext
        <4>2. (i - 1) + 1 = i
          BY <3>1
        <4> QED
          BY <4>1, <4>2
      <3>4. i * d <= q * d
        BY <1>6, <3>1, ProductMonotone
      <3> QED
        BY <3>2, <3>3, <3>4
    <2>2. Round(e, got, i) = SubSeq(got, a + 1, a + d)
      BY <1>5, <2>1
    <2> HIDE DEF a
    <2>3. a + d <= n /\ \A j \in (a + 1) .. (a + d) : got[j] \in S
      BY <1>1, <1>2, <1>6, <2>1
    <2>4. /\ SubSeq(got, a + 1, a + d) \in Seq(S)
          /\ Len(SubSeq(got, a + 1, a + d)) = d
          /\ \A j \in 1 .. d : SubSeq(got, a + 1, a + d)[j] = got[a + j]
      <3>1. /\ SubSeq(got, a + 1, a + d) \in Seq(S)
            /\ Len(SubSeq(got, a + 1, a + d)) =
                  IF a + 1 <= a + d THEN (a + d) - (a + 1) + 1 ELSE 0
            /\ \A j \in 1 .. ((a + d) - (a + 1) + 1) :
                  SubSeq(got, a + 1, a + d)[j] = got[(a + 1) + j - 1]
        BY <1>2, <2>1, <2>3, SubSeqProperties
      <3>2. (a + d) - (a + 1) + 1 = d /\ a + 1 <= a + d
        BY <1>2, <2>1
      <3>3. \A j \in 1 .. d : (a + 1) + j - 1 = a + j
        BY <1>2, <2>1
      <3> QED
        BY <3>1, <3>2, <3>3
    <2>5. DOMAIN SubSeq(got, a + 1, a + d) = 1 .. d
      BY <2>4, LenProperties
    <2> QED
      BY <2>1, <2>2, <2>4, <2>5 DEF a
  <1> QED
    BY <1>1, <1>2, <1>6, <1>7, <1>8 DEF n, d, q

-----------------------------------------------------------------------------
(* One step of every kind takes messages ms on p from somewhere, leaves    *)
(* packs in the network, old in the buffers of p and phase in the          *)
(* collective buffers, and delivers ms.                                    *)
Delivers(p, ms, packs, old, phase) ==
    /\ \/ /\ collective_buffer' = [phase EXCEPT ![p] = @ \o Here(p, ms)]
          /\ net' = packs \cup Forwarded(p, ms)
          /\ UNCHANGED <<received, results>>
       \/ /\ Reduce(p, ms, packs \cup Forwarded(p, ms))
          /\ collective_buffer' = phase
    /\ buffer_(p, ms, old)

(* What Reduce completes, and what it does *)
Done(p, ms) ==
    UNION {Complete(e, k, Meets(e, k, ms)) : e \in chares'[p], k \in Number}

LEMMA ReduceIs ==
    ASSUME NEW p, NEW ms, NEW packs, Reduce(p, ms, packs)
    PROVE  /\ received' = [e \in Elem |-> received'[e]]
           /\ \A e \in Elem :
                 received'[e] =
                    IF e \in chares'[p]
                    THEN [k \in Number |-> Left(e, Meets(e, k, ms))]
                    ELSE IF e \in chares[p] THEN no_reducers ELSE received[e]
           /\ results' = results \cup
                 {Result(m) : m \in {d \in Done(p, ms) : d.idx = root}}
           /\ net' = packs \cup
                 {Upward(p, m) : m \in {d \in Done(p, ms) : d.idx # root}}
  <1> DEFINE met == [e \in chares'[p] |-> [k \in Number |-> Meets(e, k, ms)]]
             finished == UNION {Complete(e, k, met[e][k]) :
                                   e \in chares'[p], k \in Number}
  <1>1. /\ received' = [e \in Elem |->
              CASE e \in chares'[p] -> [k \in Number |-> Left(e, met[e][k])]
                [] e \in chares[p] \ chares'[p] -> no_reducers
                [] OTHER -> received[e]]
        /\ results' = results \cup {Result(m) : m \in {d \in finished : d.idx = root}}
        /\ net' = packs \cup {Upward(p, m) : m \in {d \in finished : d.idx # root}}
    <2>1. Combine(p, met, packs)
      <3> HIDE DEF met
      <3> QED
        BY DEF Reduce, met
    <2> HIDE DEF met
    <2> QED
      BY <2>1 DEF Combine
  <1>2. \A e \in chares'[p], k \in Number : met[e][k] = Meets(e, k, ms)
    OBVIOUS
  <1>3. finished = Done(p, ms)
    <2> HIDE DEF met
    <2> QED
      BY <1>2 DEF Done
  <1>4. \A e \in chares'[p] :
           [k \in Number |-> Left(e, met[e][k])]
              = [k \in Number |-> Left(e, Meets(e, k, ms))]
    <2> HIDE DEF met
    <2> QED
      BY <1>2
  <1> HIDE DEF finished, met
  <1>5. received' = [e \in Elem |-> received'[e]]
    BY <1>1
  <1>6. ASSUME NEW e \in Elem
        PROVE  received'[e] =
                  IF e \in chares'[p]
                  THEN [k \in Number |-> Left(e, Meets(e, k, ms))]
                  ELSE IF e \in chares[p] THEN no_reducers ELSE received[e]
    <2>1. received'[e] =
             CASE e \in chares'[p] -> [k \in Number |-> Left(e, met[e][k])]
               [] e \in chares[p] \ chares'[p] -> no_reducers
               [] OTHER -> received[e]
      BY <1>1
    <2> QED
      BY <1>4, <2>1
  <1> QED
    BY <1>1, <1>3, <1>5, <1>6

LEMMA MeetsType ==
    ASSUME TypeOK, NEW e \in Elem, NEW k \in Number, NEW ms \in Seq(Messages)
    PROVE  Meets(e, k, ms) \in Seq(Messages)
  <1>1. received[e][k] \in Seq(Messages)
    BY DEF TypeOK
  <1>2. \A I : Picked(ms, I) \in Seq(Messages)
    BY PickedFacts
  <1> QED
    BY <1>1, <1>2, ConcatProperties DEF Meets

(* The contributions of a combined message are those of its parts *)
LEMMA CombinedType ==
    ASSUME NEW e \in Elem, NEW k \in Number, NEW s \in Seq(Messages), s # <<>>
    PROVE  /\ combined(e, k, s) \in Messages
           /\ combined(e, k, s).idx = e
           /\ combined(e, k, s).redn = k
           /\ combined(e, k, s).parts = UNION {s[i].parts : i \in DOMAIN s}
  <1>1. DOMAIN s = 1 .. Len(s) /\ Len(s) \in Nat \ {0}
    BY LenProperties, EmptySeq
  <1>2. \A i \in DOMAIN s : s[i] \in Messages
    BY <1>1, ElementOfSeq
  <1>3. Last(s) \in Messages
    BY <1>1, <1>2 DEF Last
  <1>4. Last(s).cont \in Redn /\ \A i \in DOMAIN s : s[i].parts \subseteq Contribution
    BY <1>2, <1>3 DEF Messages
  <1>5. UNION {s[i].parts : i \in DOMAIN s} \in SUBSET Contribution
    BY <1>4
  <1> QED
    BY <1>4, <1>5 DEF combined, Message, Messages

LEMMA CompleteType ==
    ASSUME NEW e \in Elem, NEW k \in Number, NEW s \in Seq(Messages),
           NEW i \in 1 .. Rounds(e, s)
    PROVE  /\ Round(e, s, i) \in Seq(Messages)
           /\ Round(e, s, i) # <<>>
           /\ combined(e, k, Round(e, s, i)) \in Messages
           /\ combined(e, k, Round(e, s, i)).idx = e
  <1>1. /\ Round(e, s, i) \in Seq(Messages) /\ expected(e) \in Nat \ {0}
        /\ DOMAIN Round(e, s, i) = 1 .. expected(e)
    BY RoundFacts
  <1>2. Round(e, s, i) # <<>>
    BY <1>1
  <1> QED
    BY <1>1, <1>2, CombinedType

LEMMA DoneType ==
    ASSUME TypeOK, NEW p \in PE, chares'[p] \subseteq Elem,
           NEW ms \in Seq(Messages)
    PROVE  Done(p, ms) \subseteq Messages
  <1>1. ASSUME NEW e \in chares'[p], NEW k \in Number
        PROVE  Complete(e, k, Meets(e, k, ms)) \subseteq Messages
    BY MeetsType, CompleteType DEF Complete
  <1> QED
    BY <1>1 DEF Done

LEMMA ReduxType ==
    ASSUME NEW m \in Messages, NEW q \in PE
    PROVE  Redux(m, q) \in Packet
  BY DEF Redux, Packet, Messages

LEMMA ForwardedType ==
    ASSUME LocmgrTypeOK', NEW p \in PE, NEW ms \in Seq(Messages)
    PROVE  Forwarded(p, ms) \subseteq Packet
  <1>1. ToSet(ms) \subseteq Messages
    BY LenProperties, ElementOfSeq DEF ToSet
  <1>2. \A m \in ToSet(ms) : where(p)[m.idx] \in PE
    BY <1>1, WherePE DEF Messages
  <1> QED
    BY <1>1, <1>2, ReduxType DEF Forwarded

LEMMA UpwardType ==
    ASSUME LocmgrTypeOK', NEW p \in PE, NEW m \in Messages, m.idx # root
    PROVE  Upward(p, m) \in Packet
  <1>1. parent[m.idx] \in Elem
    BY ReductionAssumption DEF Messages
  <1>2. [m EXCEPT !.idx = parent[m.idx]] \in Messages
    BY <1>1 DEF Messages
  <1> QED
    BY <1>1, <1>2, ReduxType, WherePE DEF Upward

LEMMA NoReducersType == no_reducers \in [Number -> Seq(Messages)]
  BY EmptySeq DEF no_reducers

LEMMA DeliversType ==
    ASSUME TypeOK, LocmgrTypeOK', chares' \in [PE -> SUBSET Elem],
           NEW p \in PE, NEW ms \in Seq(Messages), NEW packs \in SUBSET Packet,
           NEW old \in [Elem -> Seq(Messages)], NEW phase \in [PE -> Seq(Messages)],
           Delivers(p, ms, packs, old, phase)
    PROVE  /\ received' \in [Elem -> [Number -> Seq(Messages)]]
           /\ buffers' \in [PE -> [Elem -> Seq(Messages)]]
           /\ collective_buffer' \in [PE -> Seq(Messages)]
           /\ net' \subseteq Packet
           /\ results' \subseteq [to : Redn, parts : SUBSET Contribution]
  <1>1. \A I : Picked(ms, I) \in Seq(Messages)
    BY PickedFacts
  <1>2. Forwarded(p, ms) \subseteq Packet
    BY ForwardedType
  <1>3. buffers' \in [PE -> [Elem -> Seq(Messages)]]
    <2>1. \A e \in Elem : old[e] \o Picked(ms, {i \in DOMAIN ms :
                              ms[i].idx = e /\ Waits(p, ms[i])}) \in Seq(Messages)
      BY <1>1, ConcatProperties
    <2>2. buffers \in [PE -> [Elem -> Seq(Messages)]]
      BY DEF TypeOK
    <2> QED
      BY <2>1, <2>2 DEF Delivers, buffer_
  <1>4. CASE /\ collective_buffer' = [phase EXCEPT ![p] = @ \o Here(p, ms)]
             /\ net' = packs \cup Forwarded(p, ms)
             /\ UNCHANGED <<received, results>>
    <2>1. phase[p] \o Here(p, ms) \in Seq(Messages)
      BY <1>1, ConcatProperties DEF Here
    <2>2. collective_buffer' \in [PE -> Seq(Messages)]
      BY <1>4, <2>1
    <2> QED
      BY <1>2, <1>3, <1>4, <2>2 DEF TypeOK
  <1>5. CASE /\ Reduce(p, ms, packs \cup Forwarded(p, ms))
             /\ collective_buffer' = phase
    <2>1. Done(p, ms) \subseteq Messages
      BY DoneType
    <2>2. \A e \in chares'[p], k \in Number :
             Left(e, Meets(e, k, ms)) \in Seq(Messages)
      <3> SUFFICES ASSUME NEW e \in chares'[p], NEW k \in Number
                   PROVE  Left(e, Meets(e, k, ms)) \in Seq(Messages)
        OBVIOUS
      <3>1. Meets(e, k, ms) \in Seq(Messages)
        BY MeetsType
      <3> QED
        BY <3>1, RoundFacts
    <2>3. received' \in [Elem -> [Number -> Seq(Messages)]]
      <3>1. \A e \in Elem : received'[e] \in [Number -> Seq(Messages)]
        <4> SUFFICES ASSUME NEW e \in Elem
                     PROVE  received'[e] \in [Number -> Seq(Messages)]
          OBVIOUS
        <4>1. CASE e \in chares'[p]
          <5>1. received'[e] = [k \in Number |-> Left(e, Meets(e, k, ms))]
            BY <1>5, <4>1, ReduceIs
          <5> QED
            BY <2>2, <4>1, <5>1
        <4>2. CASE e \notin chares'[p]
          <5>1. received'[e] = no_reducers \/ received'[e] = received[e]
            BY <1>5, <4>2, ReduceIs
          <5> QED
            BY <5>1, NoReducersType DEF TypeOK
        <4> QED
          BY <4>1, <4>2
      <3>2. received' = [e \in Elem |-> received'[e]]
        BY <1>5, ReduceIs
      <3> QED
        BY <3>1, <3>2
    <2>4. results' \subseteq [to : Redn, parts : SUBSET Contribution]
      BY <1>5, <2>1, ReduceIs DEF TypeOK, Result, Messages
    <2>5. net' \subseteq Packet
      BY <1>2, <1>5, <2>1, ReduceIs, UpwardType
    <2> QED
      BY <1>3, <1>5, <2>3, <2>4, <2>5
  <1> QED
    BY <1>3, <1>4, <1>5 DEF Delivers

-----------------------------------------------------------------------------
(* Every step that handles messages is a delivery *)

LEMMA PickedNothing ==
    ASSUME NEW S, NEW ms \in Seq(S), NEW I, \A i \in DOMAIN ms : i \notin I
    PROVE  Picked(ms, I) = <<>>
  <1>1. Picked(ms, I) \in Seq(S) /\ NoHit(Picked(ms, I), S)
    BY PickedFacts
  <1> DEFINE s == Picked(ms, I)
  <1> HIDE DEF s
  <1>2. s \in Seq(S) /\ NoHit(s, S)
    BY <1>1 DEF s
  <1>3. \A i \in 1 .. Len(s) : s[i] \in S /\ i \in DOMAIN s
    BY <1>2, ElementOfSeq, LenProperties
  <1>4. Len(s) = 0
    <2>1. Len(s) \in Nat
      BY <1>2, LenProperties
    <2>2. Len(s) # 0 => 1 \in 1 .. Len(s)
      BY <2>1
    <2> QED
      BY <1>2, <1>3, <2>2 DEF NoHit, Hits
  <1>5. s = <<>>
    BY <1>2, <1>4, EmptySeq
  <1> QED
    BY <1>5 DEF s

LEMMA ContributeDelivers ==
    ASSUME TypeOK, NEW p \in PE, NEW e \in Elem, NEW r \in Redn, Contribute(p, e, r)
    PROVE  LET m == Message(e, number(r), {<<e, r>>}, r)
           IN  /\ m \in Messages
               /\ Delivers(p, <<m>>, net, buffers[p], collective_buffer)
  <1> DEFINE m == Message(e, number(r), {<<e, r>>}, r)
             ms == <<m>>
  <1>1. m \in Messages /\ m.idx = e
    <2>1. number(r) \in Number /\ <<e, r>> \in Contribution
      BY DEF Number, Contribution
    <2> QED
      BY <2>1 DEF Message, Messages
  <1>2. m.idx \in chares'[p]
    BY <1>1 DEF Contribute
  <1>3. handle_reduction_message_(p, ms, net) /\ buffers' = buffers
    BY DEF Contribute
  <1> HIDE DEF m
  <1>4. ms \in Seq(Messages) /\ DOMAIN ms = {1} /\ ms[1] = m /\ ToSet(ms) = {m}
    BY <1>1 DEF ToSet
  <1> HIDE DEF ms
  <1>5. net \cup Forwarded(p, ms) = net
    BY <1>2, <1>4 DEF Forwarded, Goes
  <1>6. \A f \in Elem : Picked(ms, {i \in DOMAIN ms : ms[i].idx = f /\ Waits(p, ms[i])}) = <<>>
    <2> SUFFICES ASSUME NEW f \in Elem
                 PROVE  Picked(ms, {i \in DOMAIN ms : ms[i].idx = f /\ Waits(p, ms[i])}) = <<>>
      OBVIOUS
    <2> DEFINE I == {i \in DOMAIN ms : ms[i].idx = f /\ Waits(p, ms[i])}
    <2>1. \A i \in DOMAIN ms : i \notin I
      BY <1>2, <1>4 DEF Waits
    <2> HIDE DEF I
    <2>2. Picked(ms, I) = <<>>
      BY <1>4, <2>1, PickedNothing
    <2> QED
      BY <2>2 DEF I
  <1>7. buffer_(p, ms, buffers[p])
    <2>1. \A f \in Elem : buffers[p][f] \in Seq(Messages)
      BY DEF TypeOK
    <2>2. \A f \in Elem : buffers[p][f] \o <<>> = buffers[p][f]
      BY <2>1, ConcatEmptySeq
    <2>3. [f \in Elem |-> buffers[p][f] \o
              Picked(ms, {i \in DOMAIN ms : ms[i].idx = f /\ Waits(p, ms[i])})]
             = buffers[p]
      BY <1>6, <2>2 DEF TypeOK
    <2>4. [buffers EXCEPT ![p] = buffers[p]] = buffers
      BY DEF TypeOK
    <2> QED
      BY <1>3, <2>3, <2>4 DEF buffer_
  <1>8. Delivers(p, ms, net, buffers[p], collective_buffer)
    <2>1. CASE p \in is_inserting /\ SetAside(p, ms, net)
      BY <1>5, <1>7, <2>1 DEF SetAside, Delivers
    <2>2. CASE Reduce(p, ms, net) /\ UNCHANGED collective_buffer
      BY <1>5, <1>7, <2>2 DEF Delivers
    <2> QED
      BY <1>3, <2>1, <2>2 DEF handle_reduction_message_
  <1> QED
    BY <1>1, <1>8 DEF ms, m

LEMMA DeliverNowDelivers ==
    ASSUME NEW p, NEW m, NEW packs, deliver_now(p, m, packs)
    PROVE  Delivers(p, <<m>>, packs, buffers[p], collective_buffer)
  BY DEF deliver_now, handle_reduction_message_, SetAside, Delivers

LEMMA FlushDelivers ==
    ASSUME NEW p, NEW e, NEW packs, flush_buffers(p, e, packs)
    PROVE  Delivers(p, buffers[p][e], packs, [buffers[p] EXCEPT ![e] = <<>>],
                    collective_buffer)
  BY DEF flush_buffers, handle_reduction_message_, SetAside, Delivers

LEMMA InsertionCompleteDelivers ==
    ASSUME NEW p, InsertionComplete(p)
    PROVE  Delivers(p, collective_buffer[p], net, buffers[p],
                    [collective_buffer EXCEPT ![p] = <<>>])
  BY DEF InsertionComplete, Waiting, Delivers

-----------------------------------------------------------------------------
(* Type correctness *)

LEMMA TypeInit == Init => TypeOK
  <1> SUFFICES ASSUME Init
               PROVE  TypeOK
    OBVIOUS
  <1>1. LocmgrTypeOK
    BY DEF Init, LocmgrInit, LocmgrTypeOK
  <1>2. \A n \in net : n \in Packet
    <2>1. \A e \in Elem : Location(e, home_pe(e), created[e], 0) \in Packet
      BY HomePE, ReductionAssumption DEF Location, Packet
    <2> QED
      BY <2>1 DEF Init
  <1>3. received \in [Elem -> [Number -> Seq(Messages)]]
    BY NoReducersType DEF Init
  <1>4. /\ buffers \in [PE -> [Elem -> Seq(Messages)]]
        /\ collective_buffer \in [PE -> Seq(Messages)]
    BY EmptySeq DEF Init
  <1> QED
    BY <1>1, <1>2, <1>3, <1>4, ReductionAssumption DEF Init, TypeOK

LEMMA TypeStep == TypeOK /\ [Next]_vars => TypeOK'
  <1> SUFFICES ASSUME TypeOK, [Next]_vars
               PROVE  TypeOK'
    OBVIOUS
  <1>0. /\ LocmgrTypeOK /\ net \subseteq Packet
        /\ chares \in [PE -> SUBSET Elem]
        /\ \A p \in PE : buffers[p] \in [Elem -> Seq(Messages)]
        /\ collective_buffer \in [PE -> Seq(Messages)]
        /\ \A S : <<>> \in Seq(S)
    BY EmptySeq DEF TypeOK
  <1>1. ASSUME NEW p \in PE, NEW e \in Elem, NEW r \in Redn, Contribute(p, e, r)
        PROVE  TypeOK'
    <2>1. LocmgrTypeOK' /\ chares' \in [PE -> SUBSET Elem]
      BY <1>0, <1>1 DEF Contribute, tables, LocmgrTypeOK
    <2> DEFINE m == Message(e, number(r), {<<e, r>>}, r)
    <2>2. m \in Messages /\ Delivers(p, <<m>>, net, buffers[p], collective_buffer)
      BY <1>1, ContributeDelivers
    <2> HIDE DEF m
    <2>3. <<m>> \in Seq(Messages)
      BY <2>2
    <2>4. made' \subseteq Contribution
      BY <1>1 DEF Contribute, TypeOK, Contribution
    <2>5. /\ received' \in [Elem -> [Number -> Seq(Messages)]]
          /\ buffers' \in [PE -> [Elem -> Seq(Messages)]]
          /\ collective_buffer' \in [PE -> Seq(Messages)]
          /\ net' \subseteq Packet
          /\ results' \subseteq [to : Redn, parts : SUBSET Contribution]
      BY <1>0, <2>1, <2>2, <2>3, DeliversType
    <2> QED
      BY <1>1, <2>1, <2>4, <2>5 DEF Contribute, TypeOK
  <1>2. ASSUME NEW p \in PE, NEW e \in Elem, NEW packs \in SUBSET Packet,
               LocmgrTypeOK', chares' \in [PE -> SUBSET Elem],
               is_inserting' \subseteq PE, made' = made, hop' \in [Elem -> 0 .. MaxHops],
               flush_buffers(p, e, packs)
        PROVE  TypeOK'
    <2>1. buffers[p][e] \in Seq(Messages)
      BY <1>0
    <2>2. [buffers[p] EXCEPT ![e] = <<>>] \in [Elem -> Seq(Messages)]
      BY <1>0
    <2>3. Delivers(p, buffers[p][e], packs, [buffers[p] EXCEPT ![e] = <<>>],
                   collective_buffer)
      BY <1>2, FlushDelivers
    <2>4. /\ received' \in [Elem -> [Number -> Seq(Messages)]]
          /\ buffers' \in [PE -> [Elem -> Seq(Messages)]]
          /\ collective_buffer' \in [PE -> Seq(Messages)]
          /\ net' \subseteq Packet
          /\ results' \subseteq [to : Redn, parts : SUBSET Contribution]
      BY <1>0, <1>2, <2>1, <2>2, <2>3, DeliversType
    <2> QED
      BY <1>2, <2>4 DEF TypeOK
  <1>3. ASSUME NEW p \in PE, NEW e \in Elem, NEW dst \in PE, Emigrate(p, e, dst)
        PROVE  TypeOK'
    <2>1. LocmgrTypeOK'
      BY <1>0, <1>3, UpdateLocationType DEF Emigrate
    <2>2. chares' \in [PE -> SUBSET Elem]
      BY <1>0, <1>3 DEF Emigrate
    <2>3. hop[e] + 1 \in 0 .. MaxHops /\ hop' \in [Elem -> 0 .. MaxHops]
      BY <1>3, ReductionAssumption DEF Emigrate, TypeOK
    <2>4. Chare(e, dst) \in Packet /\ Location(e, home_pe(e), dst, hop[e] + 1) \in Packet
      BY <2>3, HomePE DEF Chare, Location, Packet
    <2>5. \E packs \in SUBSET Packet : flush_buffers(p, e, packs)
      <3> DEFINE left == net \cup {Chare(e, dst)}
      <3>1. /\ left \in SUBSET Packet
            /\ left \cup {Location(e, home_pe(e), dst, hop[e] + 1)} \in SUBSET Packet
        BY <1>0, <2>4
      <3>2. flush_buffers(p, e, IF p = home_pe(e) THEN left
               ELSE left \cup {Location(e, home_pe(e), dst, hop[e] + 1)})
        BY <1>3 DEF Emigrate
      <3> QED
        BY <3>1, <3>2
    <2>6. is_inserting' \subseteq PE /\ made' = made
      BY <1>3 DEF Emigrate, TypeOK
    <2> QED
      BY <1>2, <2>1, <2>2, <2>3, <2>5, <2>6
  <1>4. ASSUME NEW p \in PE, InsertionComplete(p)
        PROVE  TypeOK'
    <2>1. LocmgrTypeOK' /\ chares' \in [PE -> SUBSET Elem]
      BY <1>0, <1>4 DEF InsertionComplete, tables, LocmgrTypeOK
    <2>2. Delivers(p, collective_buffer[p], net, buffers[p],
                   [collective_buffer EXCEPT ![p] = <<>>])
      BY <1>4, InsertionCompleteDelivers
    <2>3. /\ collective_buffer[p] \in Seq(Messages)
          /\ [collective_buffer EXCEPT ![p] = <<>>] \in [PE -> Seq(Messages)]
      BY <1>0
    <2>4. /\ received' \in [Elem -> [Number -> Seq(Messages)]]
          /\ buffers' \in [PE -> [Elem -> Seq(Messages)]]
          /\ collective_buffer' \in [PE -> Seq(Messages)]
          /\ net' \subseteq Packet
          /\ results' \subseteq [to : Redn, parts : SUBSET Contribution]
      BY <1>0, <2>1, <2>2, <2>3, DeliversType
    <2> QED
      BY <1>4, <2>1, <2>4 DEF InsertionComplete, TypeOK
  <1>5. ASSUME NEW n \in net, ReceiveRedux(n)
        PROVE  TypeOK'
    <2>1. LocmgrTypeOK' /\ chares' \in [PE -> SUBSET Elem]
      BY <1>0, <1>5 DEF ReceiveRedux, tables, LocmgrTypeOK
    <2>2. n.to \in PE /\ n.msg \in Messages /\ net \ {n} \in SUBSET Packet
      BY <1>0, <1>5 DEF ReceiveRedux, Packet
    <2>3. Delivers(n.to, <<n.msg>>, net \ {n}, buffers[n.to], collective_buffer)
      BY <1>5, DeliverNowDelivers DEF ReceiveRedux
    <2>4. <<n.msg>> \in Seq(Messages) /\ buffers[n.to] \in [Elem -> Seq(Messages)]
      BY <1>0, <2>2
    <2>5. /\ received' \in [Elem -> [Number -> Seq(Messages)]]
          /\ buffers' \in [PE -> [Elem -> Seq(Messages)]]
          /\ collective_buffer' \in [PE -> Seq(Messages)]
          /\ net' \subseteq Packet
          /\ results' \subseteq [to : Redn, parts : SUBSET Contribution]
      BY <1>0, <2>1, <2>2, <2>3, <2>4, DeliversType
    <2> QED
      BY <1>5, <2>1, <2>5 DEF ReceiveRedux, TypeOK
  <1>6. ASSUME NEW n \in net, ReceiveLocation(n)
        PROVE  TypeOK'
    <2>1. n.to \in PE /\ n.idx \in Elem /\ n.pe \in PE /\ net \ {n} \in SUBSET Packet
      BY <1>0, <1>6 DEF ReceiveLocation, Packet
    <2>2. LocmgrTypeOK'
      BY <1>0, <1>6, <2>1, UpdateLocationType DEF ReceiveLocation
    <2>3. /\ chares' \in [PE -> SUBSET Elem] /\ is_inserting' \subseteq PE
          /\ made' = made /\ hop' \in [Elem -> 0 .. MaxHops]
          /\ flush_buffers(n.to, n.idx, net \ {n})
      BY <1>6 DEF ReceiveLocation, TypeOK
    <2> QED
      BY <1>2, <2>1, <2>2, <2>3
  <1>7. ASSUME NEW n \in net, ReceiveChare(n)
        PROVE  TypeOK'
    <2>1. n.to \in PE /\ n.idx \in Elem /\ net \ {n} \in SUBSET Packet
      BY <1>0, <1>7 DEF ReceiveChare, Packet
    <2>2. LocmgrTypeOK'
      BY <1>0, <1>7, <2>1, UpdateLocationType DEF ReceiveChare
    <2>3. chares' \in [PE -> SUBSET Elem]
      BY <1>0, <1>7, <2>1 DEF ReceiveChare
    <2>4. /\ is_inserting' \subseteq PE
          /\ made' = made /\ hop' \in [Elem -> 0 .. MaxHops]
          /\ flush_buffers(n.to, n.idx, net \ {n})
      BY <1>7 DEF ReceiveChare, TypeOK
    <2> QED
      BY <1>2, <2>1, <2>2, <2>3, <2>4
  <1>8. CASE UNCHANGED vars
    BY <1>8 DEF vars, tables, TypeOK, LocmgrTypeOK
  <1> QED
    BY <1>1, <1>3, <1>4, <1>5, <1>6, <1>7, <1>8 DEF Next

(* Every variable of Reduction keeps its type, for every tree and every    *)
(* program that contributes and migrates: a message that is combined from  *)
(* those of a round is again a message to the chare, with a number some    *)
(* reduction has (collection.hpp:282).                                     *)
THEOREM TypeCorrect == Spec => []TypeOK
  <1> QED
    BY TypeInit, TypeStep, PTL DEF Spec

-----------------------------------------------------------------------------
(* Where a contribution is.  There are five kinds of places.               *)

Has(c) == {m \in Messages : c \in m.parts}

PacketHits(ps, c) == {n \in ps : n.type = "redux" /\ c \in n.msg.parts}
ResultHits(xs, c) == {x \in xs : c \in x.parts}

NoPacket(ps, c) == PacketHits(ps, c) = {}
OnePacket(ps, c) == \E n \in ps : PacketHits(ps, c) = {n}

NoResult(xs, c) == ResultHits(xs, c) = {}
OneResult(xs, c) == \E x \in xs : ResultHits(xs, c) = {x}

NoReducer(rs, c) == \A e \in Elem, k \in Number : NoHit(rs[e][k], Has(c))
OneReducer(rs, c) ==
    \E e \in Elem, k \in Number :
        /\ OneHit(rs[e][k], Has(c))
        /\ \A f \in Elem, l \in Number : f # e \/ l # k => NoHit(rs[f][l], Has(c))

NoBuffer(bs, c) == \A p \in PE, e \in Elem : NoHit(bs[p][e], Has(c))
OneBuffer(bs, c) ==
    \E p \in PE, e \in Elem :
        /\ OneHit(bs[p][e], Has(c))
        /\ \A q \in PE, f \in Elem : q # p \/ f # e => NoHit(bs[q][f], Has(c))

NoPhase(fs, c) == \A p \in PE : NoHit(fs[p], Has(c))
OnePhase(fs, c) ==
    \E p \in PE : OneHit(fs[p], Has(c)) /\ \A q \in PE \ {p} : NoHit(fs[q], Has(c))

Nowhere(ps, xs, rs, bs, fs, c) ==
    /\ NoPacket(ps, c) /\ NoResult(xs, c)
    /\ NoReducer(rs, c) /\ NoBuffer(bs, c) /\ NoPhase(fs, c)

Once(ps, xs, rs, bs, fs, c) ==
    \/ /\ OnePacket(ps, c) /\ NoResult(xs, c)
       /\ NoReducer(rs, c) /\ NoBuffer(bs, c) /\ NoPhase(fs, c)
    \/ /\ NoPacket(ps, c) /\ OneResult(xs, c)
       /\ NoReducer(rs, c) /\ NoBuffer(bs, c) /\ NoPhase(fs, c)
    \/ /\ NoPacket(ps, c) /\ NoResult(xs, c)
       /\ OneReducer(rs, c) /\ NoBuffer(bs, c) /\ NoPhase(fs, c)
    \/ /\ NoPacket(ps, c) /\ NoResult(xs, c)
       /\ NoReducer(rs, c) /\ OneBuffer(bs, c) /\ NoPhase(fs, c)
    \/ /\ NoPacket(ps, c) /\ NoResult(xs, c)
       /\ NoReducer(rs, c) /\ NoBuffer(bs, c) /\ OnePhase(fs, c)

(* A contribution that has been made is in one place, and it is there      *)
(* once; others are nowhere.                                               *)
Conserved ==
    \A c \in Contribution :
        IF c \in made
        THEN Once(net, results, received, buffers, collective_buffer, c)
        ELSE Nowhere(net, results, received, buffers, collective_buffer, c)

-----------------------------------------------------------------------------
(* In a reducer, a contribution stays or leaves in one combined message *)

LEMMA LeftOrCombined ==
    ASSUME NEW e \in Elem, NEW k \in Number, NEW s \in Seq(Messages), NEW c
    PROVE  /\ NoHit(s, Has(c)) =>
                 /\ NoHit(Left(e, s), Has(c))
                 /\ \A d \in Complete(e, k, s) : c \notin d.parts
           /\ OneHit(s, Has(c)) =>
                 \/ /\ OneHit(Left(e, s), Has(c))
                    /\ \A d \in Complete(e, k, s) : c \notin d.parts
                 \/ /\ NoHit(Left(e, s), Has(c))
                    /\ \E d \in Complete(e, k, s) :
                          {x \in Complete(e, k, s) : c \in x.parts} = {d}
  <1> DEFINE T == Has(c)
             n == Len(s)
             d == expected(e)
             q == Rounds(e, s)
             a == q * d
             left == Left(e, s)
             Rd(i) == Round(e, s, i)
             out(i) == combined(e, k, Rd(i))
  <1>1. n \in Nat /\ DOMAIN s = 1 .. n /\ \A j \in 1 .. n : s[j] \in Messages
    BY LenProperties, ElementOfSeq
  <1>2. /\ d \in Nat \ {0} /\ q \in Nat /\ a \in Nat /\ a <= n
        /\ left \in Seq(Messages) /\ DOMAIN left = 1 .. (n - a)
        /\ \A j \in 1 .. (n - a) : left[j] = s[a + j]
        /\ \A i \in 1 .. q :
              /\ (i - 1) * d \in Nat /\ (i - 1) * d + d <= a
              /\ Rd(i) \in Seq(Messages) /\ DOMAIN Rd(i) = 1 .. d
              /\ \A j \in 1 .. d : Rd(i)[j] = s[(i - 1) * d + j]
    BY RoundFacts
  <1>3. Complete(e, k, s) = {out(i) : i \in 1 .. q}
    BY DEF Complete
  <1>4. \A i \in 1 .. q : out(i).parts = UNION {Rd(i)[j].parts : j \in DOMAIN Rd(i)}
    <2> SUFFICES ASSUME NEW i \in 1 .. q
                 PROVE  out(i).parts = UNION {Rd(i)[j].parts : j \in DOMAIN Rd(i)}
      OBVIOUS
    <2>1. Rd(i) \in Seq(Messages) /\ Rd(i) # <<>>
      BY <1>2, CompleteType
    <2> HIDE DEF Rd
    <2> QED
      BY <2>1, CombinedType
  <1> HIDE DEF n, d, q, a, left, Rd, out
  \* A message of a round, or of the rest, is one of s
  <1>5. \A i \in 1 .. q, j \in 1 .. d :
           (i - 1) * d + j \in 1 .. n /\ Rd(i)[j] = s[(i - 1) * d + j]
    <2> SUFFICES ASSUME NEW i \in 1 .. q, NEW j \in 1 .. d
                 PROVE  (i - 1) * d + j \in 1 .. n
      BY <1>2
    <2> DEFINE b == (i - 1) * d
    <2>1. b \in Nat /\ b + d <= a
      BY <1>2
    <2> HIDE DEF b
    <2>2. b + j \in 1 .. n
      BY <1>1, <1>2, <2>1
    <2> QED
      BY <2>2 DEF b
  <1>6. \A j \in 1 .. (n - a) : a + j \in 1 .. n /\ left[j] = s[a + j]
    BY <1>1, <1>2
  <1>7. \A i \in 1 .. q : c \in out(i).parts <=> \E j \in 1 .. d : Rd(i)[j] \in T
    <2> SUFFICES ASSUME NEW i \in 1 .. q
                 PROVE  c \in out(i).parts <=> \E j \in 1 .. d : Rd(i)[j] \in T
      OBVIOUS
    <2>1. \A j \in 1 .. d : Rd(i)[j] \in Messages
      BY <1>1, <1>5
    <2>2. DOMAIN Rd(i) = 1 .. d
      BY <1>2
    <2>3. c \in out(i).parts <=> \E j \in 1 .. d : c \in Rd(i)[j].parts
      <3> HIDE DEF T
      <3>1. out(i).parts = UNION {Rd(i)[j].parts : j \in 1 .. d}
        BY <1>4, <2>2
      <3> QED
        BY <3>1
    <2> QED
      BY <2>1, <2>3 DEF Has
  <1>8. ASSUME NoHit(s, T)
        PROVE  /\ NoHit(left, T)
               /\ \A i \in 1 .. q : c \notin out(i).parts
    <2>1. \A j \in 1 .. n : s[j] \notin T
      BY <1>1, <1>8 DEF NoHit, Hits
    <2>2. NoHit(left, T)
      BY <1>2, <1>6, <2>1 DEF NoHit, Hits
    <2>3. \A i \in 1 .. q : c \notin out(i).parts
      BY <1>5, <1>7, <2>1
    <2> QED
      BY <2>2, <2>3
  <1>9. ASSUME OneHit(s, T)
        PROVE  \/ /\ OneHit(left, T)
                  /\ \A i \in 1 .. q : c \notin out(i).parts
               \/ /\ NoHit(left, T)
                  /\ \E i \in 1 .. q : /\ c \in out(i).parts
                                       /\ \A j \in (1 .. q) \ {i} : c \notin out(j).parts
    <2>1. PICK h \in 1 .. n : s[h] \in T /\ \A j \in 1 .. n : s[j] \in T => j = h
      BY <1>1, <1>9 DEF OneHit, Hits
    <2>2. CASE h > a
      <3>1. h - a \in 1 .. (n - a) /\ a + (h - a) = h
        BY <1>1, <1>2, <2>2
      <3>2. left[h - a] \in T
        BY <1>6, <2>1, <3>1
      <3>3. \A j \in 1 .. (n - a) : left[j] \in T => j = h - a
        <4> SUFFICES ASSUME NEW j \in 1 .. (n - a), left[j] \in T
                     PROVE  j = h - a
          OBVIOUS
        <4>1. a + j = h
          BY <1>6, <2>1
        <4> QED
          BY <1>1, <1>2, <4>1
      <3>4. OneHit(left, T)
        BY <1>2, <3>1, <3>2, <3>3 DEF OneHit, Hits
      <3>5. ASSUME NEW i \in 1 .. q, NEW j \in 1 .. d
            PROVE  Rd(i)[j] \notin T
        <4> DEFINE b == (i - 1) * d
        <4>1. b \in Nat /\ b + d <= a
          BY <1>2
        <4> HIDE DEF b
        <4>2. b + j # h
          BY <1>2, <2>2, <4>1
        <4>3. b + j \in 1 .. n /\ Rd(i)[j] = s[b + j]
          BY <1>5 DEF b
        <4> QED
          BY <2>1, <4>2, <4>3
      <3> QED
        BY <1>7, <3>4, <3>5
    <2>3. CASE h <= a
      <3>1. NoHit(left, T)
        <4>1. \A j \in 1 .. (n - a) : a + j # h
          BY <1>1, <1>2, <2>3
        <4>2. \A j \in 1 .. (n - a) : left[j] \notin T
          BY <1>6, <2>1, <4>1
        <4> QED
          BY <1>2, <4>2 DEF NoHit, Hits
      <3> DEFINE r == (h - 1) \div d
                 b == r * d
      <3>2. h - 1 \in Nat
        OBVIOUS
      <3>3. r \in Nat /\ b \in Nat /\ b <= h - 1 /\ h - 1 < b + d
        BY <1>2, <3>2, DivisionFacts, ProductNat
      <3>4. r < q
        <4>1. q <= r => q * d <= r * d
          BY <1>2, <3>3, ProductMonotone
        <4> HIDE DEF r
        <4>2. q * d = a /\ r * d = b
          BY DEF a
        <4> HIDE DEF b
        <4> QED
          BY <1>2, <2>3, <3>3, <4>1, <4>2
      <3>5. r + 1 \in 1 .. q /\ (r + 1) - 1 = r /\ h - b \in 1 .. d /\ b + (h - b) = h
        <4> HIDE DEF r, b
        <4> QED
          BY <1>2, <3>3, <3>4
      <3> HIDE DEF r
      <3>6. Rd(r + 1)[h - b] = s[h]
        <4>1. \A i \in 1 .. q, j \in 1 .. d : Rd(i)[j] = s[(i - 1) * d + j]
          BY <1>5
        <4>2. Rd(r + 1)[h - b] = s[((r + 1) - 1) * d + (h - b)]
          BY <3>5, <4>1
        <4>3. ((r + 1) - 1) * d + (h - b) = h
          BY <3>5
        <4> QED
          BY <4>2, <4>3
      <3>7. c \in out(r + 1).parts
        BY <1>7, <2>1, <3>5, <3>6
      <3>8. ASSUME NEW i \in (1 .. q) \ {r + 1}, c \in out(i).parts
            PROVE  FALSE
        <4>1. PICK j \in 1 .. d : Rd(i)[j] \in T
          BY <1>7, <3>8
        <4>2. (i - 1) * d + j = h
          BY <1>5, <2>1, <4>1
        <4>3. i - 1 \in Nat /\ (i - 1) * d < h /\ h <= (i - 1) * d + d
          <5> DEFINE b2 == (i - 1) * d
          <5>1. b2 \in Nat
            BY <1>2
          <5>2. b2 + j = h
            BY <4>2
          <5> HIDE DEF b2
          <5>3. b2 < h /\ h <= b2 + d
            BY <1>2, <5>1, <5>2
          <5> QED
            BY <5>3 DEF b2
        <4>4. r * d < h /\ h <= r * d + d
          <5> HIDE DEF b
          <5>1. b < h /\ h <= b + d
            BY <1>2, <3>3
          <5> QED
            BY <5>1 DEF b
        <4>5. \A u \in Nat : u * d < h /\ h <= u * d + d => u = r
          <5>1. h \in Nat /\ d \in Nat /\ r \in Nat
            BY <1>1, <1>2, <3>3
          <5> QED
            BY <4>4, <5>1, OneBlock
        <4>6. i - 1 = r
          BY <4>3, <4>5
        <4> QED
          BY <3>3, <3>8, <4>6
      <3> QED
        BY <3>1, <3>5, <3>7, <3>8
    <2> QED
      BY <1>1, <1>2, <2>2, <2>3
  <1>10. ASSUME NEW i \in 1 .. q, c \in out(i).parts,
                \A j \in (1 .. q) \ {i} : c \notin out(j).parts
         PROVE  \E x \in Complete(e, k, s) :
                   {y \in Complete(e, k, s) : c \in y.parts} = {x}
    <2>1. out(i) \in Complete(e, k, s)
      BY <1>3
    <2>2. \A y \in Complete(e, k, s) : c \in y.parts => y = out(i)
      BY <1>3, <1>10
    <2> QED
      BY <1>10, <2>1, <2>2
  <1>11. (\A i \in 1 .. q : c \notin out(i).parts)
            => \A x \in Complete(e, k, s) : c \notin x.parts
    BY <1>3
  <1> QED
    BY <1>8, <1>9, <1>10, <1>11 DEF left

LEMMA MeetsHits ==
    ASSUME TypeOK, NEW e \in Elem, NEW k \in Number, NEW ms \in Seq(Messages), NEW c
    PROVE  LET met == {i \in DOMAIN ms : ms[i].idx = e /\ ms[i].redn = k}
           IN  /\ NoHit(received[e][k], Has(c)) /\ (\A i \in met : ms[i] \notin Has(c))
                     => NoHit(Meets(e, k, ms), Has(c))
               /\ OneHit(received[e][k], Has(c)) /\ (\A i \in met : ms[i] \notin Has(c))
                     => OneHit(Meets(e, k, ms), Has(c))
               /\ \A i \in met :
                     NoHit(received[e][k], Has(c)) /\ Hits(ms, Has(c)) = {i}
                        => OneHit(Meets(e, k, ms), Has(c))
  <1> DEFINE met == {i \in DOMAIN ms : ms[i].idx = e /\ ms[i].redn = k}
             picked == Picked(ms, met)
             T == Has(c)
  <1>1. received[e][k] \in Seq(Messages)
    BY DEF TypeOK
  <1>2. Meets(e, k, ms) = received[e][k] \o picked
    BY DEF Meets
  <1>0. met \subseteq DOMAIN ms
    OBVIOUS
  <1> HIDE DEF met, T
  <1>3. /\ picked \in Seq(Messages)
        /\ (\A i \in DOMAIN ms : i \in met => ms[i] \notin T) => NoHit(picked, T)
        /\ \A i \in DOMAIN ms : Hits(ms, T) = {i} /\ i \in met => OneHit(picked, T)
    BY PickedFacts
  <1> HIDE DEF picked
  <1>4. /\ (\A i \in met : ms[i] \notin T) => NoHit(picked, T)
        /\ \A i \in met : Hits(ms, T) = {i} => OneHit(picked, T)
    BY <1>0, <1>3
  <1>5. /\ NoHit(received[e][k], T) /\ NoHit(picked, T) => NoHit(Meets(e, k, ms), T)
        /\ OneHit(received[e][k], T) /\ NoHit(picked, T) => OneHit(Meets(e, k, ms), T)
        /\ NoHit(received[e][k], T) /\ OneHit(picked, T) => OneHit(Meets(e, k, ms), T)
    BY <1>1, <1>2, <1>3, ConcatHits
  <1> QED
    BY <1>4, <1>5 DEF met, T

(* The messages that take part in reductions on p *)
Taking(p, ms) == {i \in DOMAIN ms : ms[i].idx \in chares'[p]}

(* What Reduce makes of a contribution *)
LEMMA ReduceHits ==
    ASSUME TypeOK, NEW p \in PE, chares'[p] \subseteq Elem,
           \A e \in Elem : e \in chares[p] /\ e \notin chares'[p]
                              => received[e] = no_reducers,
           NEW ms \in Seq(Messages), NEW packs, Reduce(p, ms, packs), NEW c
    PROVE  LET hits == {d \in Done(p, ms) : c \in d.parts}
           IN  /\ NoReducer(received, c) /\ (\A i \in Taking(p, ms) : ms[i] \notin Has(c))
                     => NoReducer(received', c) /\ hits = {}
               /\ \/ /\ OneReducer(received, c)
                     /\ \A i \in Taking(p, ms) : ms[i] \notin Has(c)
                  \/ /\ NoReducer(received, c)
                     /\ \E i \in Taking(p, ms) : Hits(ms, Has(c)) = {i}
                  => \/ OneReducer(received', c) /\ hits = {}
                     \/ NoReducer(received', c) /\ \E d \in Done(p, ms) : hits = {d}
  <1> DEFINE T == Has(c)
             hits == {d \in Done(p, ms) : c \in d.parts}
             comp(e, k) == Complete(e, k, Meets(e, k, ms))
             \* what is in a reducer before its rounds are taken
             pre(e, k) == IF e \in chares'[p] THEN Meets(e, k, ms) ELSE received[e][k]
  <1>1. \A e \in Elem, k \in Number :
           /\ e \in chares'[p] => received'[e][k] = Left(e, Meets(e, k, ms))
           /\ e \notin chares'[p] => received'[e][k] = received[e][k]
    <2> SUFFICES ASSUME NEW e \in Elem, NEW k \in Number
                 PROVE  /\ e \in chares'[p] => received'[e][k] = Left(e, Meets(e, k, ms))
                        /\ e \notin chares'[p] => received'[e][k] = received[e][k]
      OBVIOUS
    <2>1. received'[e] = IF e \in chares'[p]
                         THEN [l \in Number |-> Left(e, Meets(e, l, ms))]
                         ELSE IF e \in chares[p] THEN no_reducers ELSE received[e]
      BY ReduceIs
    <2> QED
      BY <2>1
  <1>2. Done(p, ms) = UNION {comp(e, k) : e \in chares'[p], k \in Number}
    BY DEF Done
  <1>3. \A e \in chares'[p], k \in Number :
           /\ NoHit(pre(e, k), T) =>
                 /\ NoHit(received'[e][k], T)
                 /\ \A d \in comp(e, k) : c \notin d.parts
           /\ OneHit(pre(e, k), T) =>
                 \/ /\ OneHit(received'[e][k], T)
                    /\ \A d \in comp(e, k) : c \notin d.parts
                 \/ /\ NoHit(received'[e][k], T)
                    /\ \E d \in comp(e, k) : {x \in comp(e, k) : c \in x.parts} = {d}
    <2> SUFFICES ASSUME NEW e \in chares'[p], NEW k \in Number
                 PROVE  /\ NoHit(pre(e, k), T) =>
                              /\ NoHit(received'[e][k], T)
                              /\ \A d \in comp(e, k) : c \notin d.parts
                        /\ OneHit(pre(e, k), T) =>
                              \/ /\ OneHit(received'[e][k], T)
                                 /\ \A d \in comp(e, k) : c \notin d.parts
                              \/ /\ NoHit(received'[e][k], T)
                                 /\ \E d \in comp(e, k) :
                                       {x \in comp(e, k) : c \in x.parts} = {d}
      OBVIOUS
    <2>1. Meets(e, k, ms) \in Seq(Messages) /\ pre(e, k) = Meets(e, k, ms)
      BY MeetsType
    <2>2. received'[e][k] = Left(e, Meets(e, k, ms))
      BY <1>1
    <2> QED
      BY <2>1, <2>2, LeftOrCombined
  <1>4. \A e \in Elem, k \in Number : e \notin chares'[p] =>
           received'[e][k] = pre(e, k)
    BY <1>1
  <1> HIDE DEF T, comp, pre
  <1>5. ASSUME \A e \in Elem, k \in Number : NoHit(pre(e, k), T)
        PROVE  NoReducer(received', c) /\ hits = {}
    <2>1. \A e \in Elem, k \in Number : NoHit(received'[e][k], T)
      BY <1>3, <1>4, <1>5
    <2>2. \A d \in Done(p, ms) : c \notin d.parts
      BY <1>2, <1>3, <1>5
    <2> QED
      BY <2>1, <2>2 DEF NoReducer, T
  <1>6. ASSUME NEW e \in Elem, NEW k \in Number, OneHit(pre(e, k), T),
               \A f \in Elem, l \in Number : f # e \/ l # k => NoHit(pre(f, l), T)
        PROVE  \/ OneReducer(received', c) /\ hits = {}
               \/ NoReducer(received', c) /\ \E d \in Done(p, ms) : hits = {d}
    <2>1. \A f \in Elem, l \in Number : f # e \/ l # k =>
             /\ NoHit(received'[f][l], T)
             /\ f \in chares'[p] => \A d \in comp(f, l) : c \notin d.parts
      BY <1>3, <1>4, <1>6
    <2>2. CASE OneHit(received'[e][k], T)
               /\ (e \in chares'[p] => \A d \in comp(e, k) : c \notin d.parts)
      <3>1. OneReducer(received', c)
        BY <2>1, <2>2 DEF OneReducer, T
      <3>2. \A f \in chares'[p], l \in Number : \A d \in comp(f, l) : c \notin d.parts
        BY <2>1, <2>2
      <3>3. \A d \in Done(p, ms) : c \notin d.parts
        BY <1>2, <3>2
      <3> QED
        BY <3>1, <3>3
    <2>3. CASE /\ e \in chares'[p] /\ NoHit(received'[e][k], T)
               /\ \E d \in comp(e, k) : {x \in comp(e, k) : c \in x.parts} = {d}
      <3>1. \A f \in Elem, l \in Number : NoHit(received'[f][l], T)
        BY <2>1, <2>3
      <3>2. NoReducer(received', c)
        BY <3>1 DEF NoReducer, T
      <3>3. PICK d \in comp(e, k) : {x \in comp(e, k) : c \in x.parts} = {d}
        BY <2>3
      <3>4. d \in Done(p, ms) /\ c \in d.parts
        BY <1>2, <2>3, <3>3
      <3>5. \A x \in Done(p, ms) : c \in x.parts => x = d
        <4> SUFFICES ASSUME NEW x \in Done(p, ms), c \in x.parts
                     PROVE  x = d
          OBVIOUS
        <4>1. PICK f \in chares'[p] : \E l \in Number : x \in comp(f, l)
          BY <1>2
        <4>2. PICK l \in Number : x \in comp(f, l)
          BY <4>1
        <4>3. f = e /\ l = k
          BY <2>1, <4>2
        <4> QED
          BY <3>3, <4>2, <4>3
      <3> QED
        BY <3>2, <3>4, <3>5
    <2>4. CASE e \notin chares'[p]
      BY <1>4, <1>6, <2>2, <2>4
    <2> QED
      BY <1>3, <1>6, <2>2, <2>3, <2>4
  \* What is in a reducer before its rounds, from what was there and ms
  <1>7. \A e \in Elem, k \in Number :
           LET met == {i \in DOMAIN ms : ms[i].idx = e /\ ms[i].redn = k}
           IN  /\ e \notin chares'[p] => pre(e, k) = received[e][k]
               /\ e \in chares'[p] =>
                     /\ met \subseteq Taking(p, ms)
                     /\ NoHit(received[e][k], T) /\ (\A i \in met : ms[i] \notin T)
                           => NoHit(pre(e, k), T)
                     /\ OneHit(received[e][k], T) /\ (\A i \in met : ms[i] \notin T)
                           => OneHit(pre(e, k), T)
                     /\ \A i \in met : NoHit(received[e][k], T) /\ Hits(ms, T) = {i}
                           => OneHit(pre(e, k), T)
    <2> SUFFICES ASSUME NEW e \in Elem, NEW k \in Number
                 PROVE  LET met == {i \in DOMAIN ms : ms[i].idx = e /\ ms[i].redn = k}
                        IN  /\ e \notin chares'[p] => pre(e, k) = received[e][k]
                            /\ e \in chares'[p] =>
                                  /\ met \subseteq Taking(p, ms)
                                  /\ NoHit(received[e][k], T)
                                     /\ (\A i \in met : ms[i] \notin T)
                                        => NoHit(pre(e, k), T)
                                  /\ OneHit(received[e][k], T)
                                     /\ (\A i \in met : ms[i] \notin T)
                                        => OneHit(pre(e, k), T)
                                  /\ \A i \in met :
                                        NoHit(received[e][k], T) /\ Hits(ms, T) = {i}
                                           => OneHit(pre(e, k), T)
      OBVIOUS
    <2>1. e \notin chares'[p] => pre(e, k) = received[e][k]
      BY DEF pre
    <2>2. e \in chares'[p] => pre(e, k) = Meets(e, k, ms)
      BY DEF pre
    <2> QED
      BY <2>1, <2>2, MeetsHits DEF T, Taking
  <1>8. ASSUME NoReducer(received, c), \A i \in Taking(p, ms) : ms[i] \notin T
        PROVE  \A e \in Elem, k \in Number : NoHit(pre(e, k), T)
    <2> SUFFICES ASSUME NEW e \in Elem, NEW k \in Number
                 PROVE  NoHit(pre(e, k), T)
      OBVIOUS
    <2>1. NoHit(received[e][k], T)
      BY <1>8 DEF NoReducer, T
    <2> QED
      BY <1>7, <1>8, <2>1
  <1>9. ASSUME OneReducer(received, c), \A i \in Taking(p, ms) : ms[i] \notin T
        PROVE  \E e \in Elem, k \in Number :
                  /\ OneHit(pre(e, k), T)
                  /\ \A f \in Elem, l \in Number : f # e \/ l # k => NoHit(pre(f, l), T)
    <2>1. PICK e \in Elem, k \in Number :
             /\ OneHit(received[e][k], T)
             /\ \A f \in Elem, l \in Number : f # e \/ l # k => NoHit(received[f][l], T)
      BY <1>9 DEF OneReducer, T
    <2>2. OneHit(pre(e, k), T)
      BY <1>7, <1>9, <2>1
    <2>3. \A f \in Elem, l \in Number : f # e \/ l # k => NoHit(pre(f, l), T)
      BY <1>7, <1>9, <2>1
    <2> QED
      BY <2>2, <2>3
  <1>10. ASSUME NoReducer(received, c), NEW i \in Taking(p, ms), Hits(ms, T) = {i}
         PROVE  \E e \in Elem, k \in Number :
                   /\ OneHit(pre(e, k), T)
                   /\ \A f \in Elem, l \in Number : f # e \/ l # k => NoHit(pre(f, l), T)
    <2> DEFINE e == ms[i].idx
               k == ms[i].redn
    <2>1. /\ i \in DOMAIN ms /\ e \in chares'[p] /\ e \in Elem /\ k \in Number
      <3>1. i \in DOMAIN ms /\ ms[i].idx \in chares'[p]
        BY DEF Taking
      <3>2. ms[i] \in Messages
        BY <3>1, LenProperties, ElementOfSeq
      <3> QED
        BY <3>1, <3>2 DEF Messages
    <2>2. \A f \in Elem, l \in Number : NoHit(received[f][l], T)
      BY <1>10 DEF NoReducer, T
    <2>3. \A j \in DOMAIN ms : j # i => ms[j] \notin T
      BY <1>10 DEF Hits
    <2>4. OneHit(pre(e, k), T)
      <3> HIDE DEF e, k
      <3>1. i \in {j \in DOMAIN ms : ms[j].idx = e /\ ms[j].redn = k}
        BY <2>1 DEF e, k
      <3> QED
        BY <1>7, <1>10, <2>1, <2>2, <3>1
    <2>5. \A f \in Elem, l \in Number : f # e \/ l # k => NoHit(pre(f, l), T)
      <3> SUFFICES ASSUME NEW f \in Elem, NEW l \in Number, f # e \/ l # k
                   PROVE  NoHit(pre(f, l), T)
        OBVIOUS
      <3>1. \A j \in {j \in DOMAIN ms : ms[j].idx = f /\ ms[j].redn = l} : ms[j] \notin T
        BY <2>3
      <3> HIDE DEF e, k
      <3> QED
        BY <1>7, <2>2, <3>1
    <2> HIDE DEF e, k
    <2> QED
      BY <2>1, <2>4, <2>5
  <1>11. NoReducer(received, c) /\ (\A i \in Taking(p, ms) : ms[i] \notin T)
            => NoReducer(received', c) /\ hits = {}
    BY <1>5, <1>8
  <1>12. \/ /\ OneReducer(received, c)
            /\ \A i \in Taking(p, ms) : ms[i] \notin T
         \/ /\ NoReducer(received, c)
            /\ \E i \in Taking(p, ms) : Hits(ms, T) = {i}
         => \/ OneReducer(received', c) /\ hits = {}
            \/ NoReducer(received', c) /\ \E d \in Done(p, ms) : hits = {d}
    <2> HIDE DEF hits
    <2> QED
      BY <1>6, <1>9, <1>10
  <1> QED
    BY <1>11, <1>12 DEF T

-----------------------------------------------------------------------------
(* What becomes of a contribution in a delivery *)

LEMMA BufferHits ==
    ASSUME TypeOK, NEW p \in PE, NEW ms \in Seq(Messages),
           NEW old \in [Elem -> Seq(Messages)], buffer_(p, ms, old), NEW c
    PROVE  LET base == [buffers EXCEPT ![p] = old]
               none == \A i \in DOMAIN ms : Waits(p, ms[i]) => ms[i] \notin Has(c)
           IN  /\ NoBuffer(base, c) /\ none => NoBuffer(buffers', c)
               /\ OneBuffer(base, c) /\ none => OneBuffer(buffers', c)
               /\ \A i \in DOMAIN ms :
                     NoBuffer(base, c) /\ Hits(ms, Has(c)) = {i} /\ Waits(p, ms[i])
                        => OneBuffer(buffers', c)
  <1> DEFINE T == Has(c)
             base == [buffers EXCEPT ![p] = old]
             none == \A i \in DOMAIN ms : Waits(p, ms[i]) => ms[i] \notin T
             I(e) == {i \in DOMAIN ms : ms[i].idx = e /\ Waits(p, ms[i])}
             picked(e) == Picked(ms, I(e))
  <1>1. \A e \in Elem : buffers'[p][e] = old[e] \o picked(e) /\ base[p][e] = old[e]
    BY DEF buffer_, TypeOK
  <1>2. \A q \in PE, e \in Elem : q # p => buffers'[q][e] = base[q][e]
    BY DEF buffer_, TypeOK
  <1>3. \A e \in Elem : \A i \in I(e) : i \in DOMAIN ms /\ Waits(p, ms[i]) /\ ms[i].idx = e
    OBVIOUS
  <1>4. \A i \in DOMAIN ms : Waits(p, ms[i]) => ms[i].idx \in Elem /\ i \in I(ms[i].idx)
    <2>1. \A i \in DOMAIN ms : ms[i] \in Messages
      BY LenProperties, ElementOfSeq
    <2> QED
      BY <2>1 DEF Messages
  <1> HIDE DEF I, T
  <1>5. \A e \in Elem :
           /\ picked(e) \in Seq(Messages)
           /\ (\A i \in DOMAIN ms : i \in I(e) => ms[i] \notin T) => NoHit(picked(e), T)
           /\ \A i \in DOMAIN ms : Hits(ms, T) = {i} /\ i \in I(e) => OneHit(picked(e), T)
    BY PickedFacts
  <1> HIDE DEF picked
  <1>6. \A e \in Elem :
           /\ NoHit(old[e], T) /\ NoHit(picked(e), T) => NoHit(buffers'[p][e], T)
           /\ OneHit(old[e], T) /\ NoHit(picked(e), T) => OneHit(buffers'[p][e], T)
           /\ NoHit(old[e], T) /\ OneHit(picked(e), T) => OneHit(buffers'[p][e], T)
    <2> SUFFICES ASSUME NEW e \in Elem
                 PROVE  /\ NoHit(old[e], T) /\ NoHit(picked(e), T)
                              => NoHit(buffers'[p][e], T)
                        /\ OneHit(old[e], T) /\ NoHit(picked(e), T)
                              => OneHit(buffers'[p][e], T)
                        /\ NoHit(old[e], T) /\ OneHit(picked(e), T)
                              => OneHit(buffers'[p][e], T)
      OBVIOUS
    <2>1. old[e] \in Seq(Messages) /\ picked(e) \in Seq(Messages)
      BY <1>5
    <2>2. buffers'[p][e] = old[e] \o picked(e)
      BY <1>1
    <2> QED
      BY <2>1, <2>2, ConcatHits
  <1> HIDE DEF base
  <1>7. none => \A e \in Elem : NoHit(picked(e), T)
    BY <1>3, <1>5
  <1>8. ASSUME NoBuffer(base, c), none
        PROVE  NoBuffer(buffers', c)
    <2>1. \A q \in PE, e \in Elem : NoHit(base[q][e], T)
      BY <1>8 DEF NoBuffer, T
    <2>2. \A q \in PE, e \in Elem : NoHit(buffers'[q][e], T)
      BY <1>1, <1>2, <1>6, <1>7, <1>8, <2>1
    <2> QED
      BY <2>2 DEF NoBuffer, T
  <1>9. ASSUME OneBuffer(base, c), none
        PROVE  OneBuffer(buffers', c)
    <2>1. PICK q \in PE, e \in Elem :
             /\ OneHit(base[q][e], T)
             /\ \A r \in PE, f \in Elem : r # q \/ f # e => NoHit(base[r][f], T)
      BY <1>9 DEF OneBuffer, T
    <2>2. OneHit(buffers'[q][e], T)
      BY <1>1, <1>2, <1>6, <1>7, <1>9, <2>1
    <2>3. \A r \in PE, f \in Elem : r # q \/ f # e => NoHit(buffers'[r][f], T)
      BY <1>1, <1>2, <1>6, <1>7, <1>9, <2>1
    <2> QED
      BY <2>2, <2>3 DEF OneBuffer, T
  <1>10. ASSUME NEW i \in DOMAIN ms, NoBuffer(base, c), Hits(ms, T) = {i},
                Waits(p, ms[i])
         PROVE  OneBuffer(buffers', c)
    <2> DEFINE e == ms[i].idx
    <2>1. e \in Elem /\ i \in I(e)
      BY <1>4, <1>10
    <2>2. \A q \in PE, f \in Elem : NoHit(base[q][f], T)
      BY <1>10 DEF NoBuffer, T
    <2>3. \A f \in Elem : f # e => NoHit(picked(f), T)
      <3> SUFFICES ASSUME NEW f \in Elem, f # e
                   PROVE  NoHit(picked(f), T)
        OBVIOUS
      <3>1. \A j \in DOMAIN ms : j \in I(f) => ms[j] \notin T
        BY <1>3, <1>10 DEF Hits
      <3> QED
        BY <1>5, <3>1
    <2> HIDE DEF e
    <2>4. OneHit(picked(e), T)
      BY <1>5, <1>10, <2>1
    <2>5. OneHit(buffers'[p][e], T)
      BY <1>1, <1>6, <2>1, <2>2, <2>4
    <2>6. \A q \in PE, f \in Elem : q # p \/ f # e => NoHit(buffers'[q][f], T)
      BY <1>1, <1>2, <1>6, <2>2, <2>3
    <2> QED
      BY <2>1, <2>5, <2>6 DEF OneBuffer, T
  <1> QED
    BY <1>8, <1>9, <1>10 DEF base, T

SetAsideIn(p, ms, phase) == [phase EXCEPT ![p] = @ \o Here(p, ms)]

LEMMA PhaseHits ==
    ASSUME NEW p \in PE, NEW ms \in Seq(Messages),
           NEW phase \in [PE -> Seq(Messages)], NEW c
    PROVE  LET none == \A i \in Taking(p, ms) : ms[i] \notin Has(c)
               fs == SetAsideIn(p, ms, phase)
           IN  /\ NoPhase(phase, c) /\ none => NoPhase(fs, c)
               /\ OnePhase(phase, c) /\ none => OnePhase(fs, c)
               /\ \A i \in Taking(p, ms) :
                     NoPhase(phase, c) /\ Hits(ms, Has(c)) = {i} => OnePhase(fs, c)
  <1> DEFINE T == Has(c)
             I == Taking(p, ms)
             picked == Picked(ms, I)
             none == \A i \in I : ms[i] \notin T
             fs == SetAsideIn(p, ms, phase)
  <1>0. I \subseteq DOMAIN ms
    BY DEF Taking
  <1>1. Here(p, ms) = picked
    BY DEF Here, Taking
  <1> HIDE DEF I, T
  <1>2. /\ picked \in Seq(Messages)
        /\ (\A i \in DOMAIN ms : i \in I => ms[i] \notin T) => NoHit(picked, T)
        /\ \A i \in DOMAIN ms : Hits(ms, T) = {i} /\ i \in I => OneHit(picked, T)
    BY PickedFacts
  <1> HIDE DEF picked
  <1>3. fs[p] = phase[p] \o picked /\ \A q \in PE \ {p} : fs[q] = phase[q]
    BY <1>1 DEF SetAsideIn
  <1> HIDE DEF fs
  <1>4. /\ NoHit(phase[p], T) /\ NoHit(picked, T) => NoHit(fs[p], T)
        /\ OneHit(phase[p], T) /\ NoHit(picked, T) => OneHit(fs[p], T)
        /\ NoHit(phase[p], T) /\ OneHit(picked, T) => OneHit(fs[p], T)
    <2>1. phase[p] \in Seq(Messages)
      OBVIOUS
    <2> QED
      BY <1>2, <1>3, <2>1, ConcatHits
  <1>5. none => NoHit(picked, T)
    BY <1>2
  <1>6. NoPhase(phase, c) /\ none => NoPhase(fs, c)
    BY <1>3, <1>4, <1>5 DEF NoPhase, T
  <1>7. ASSUME OnePhase(phase, c), none
        PROVE  OnePhase(fs, c)
    <2>1. PICK q \in PE : OneHit(phase[q], T) /\ \A r \in PE \ {q} : NoHit(phase[r], T)
      BY <1>7 DEF OnePhase, T
    <2>2. OneHit(fs[q], T) /\ \A r \in PE \ {q} : NoHit(fs[r], T)
      BY <1>3, <1>4, <1>5, <1>7, <2>1
    <2> QED
      BY <2>2 DEF OnePhase, T
  <1>8. ASSUME NEW i \in I, NoPhase(phase, c), Hits(ms, T) = {i}
        PROVE  OnePhase(fs, c)
    <2>1. OneHit(picked, T)
      BY <1>0, <1>2, <1>8
    <2>2. \A q \in PE : NoHit(phase[q], T)
      BY <1>8 DEF NoPhase, T
    <2>3. OneHit(fs[p], T) /\ \A r \in PE \ {p} : NoHit(fs[r], T)
      BY <1>3, <1>4, <2>1, <2>2
    <2> QED
      BY <2>3 DEF OnePhase, T
  <1> QED
    BY <1>6, <1>7, <1>8 DEF I, T, fs

LEMMA ForwardHits ==
    ASSUME NEW p \in PE, NEW ms \in Seq(Messages), NEW c
    PROVE  /\ (\A i \in DOMAIN ms : Goes(p, ms[i]) => ms[i] \notin Has(c))
                 => NoPacket(Forwarded(p, ms), c)
           /\ \A i \in DOMAIN ms :
                 Hits(ms, Has(c)) = {i} /\ Goes(p, ms[i])
                    => OnePacket(Forwarded(p, ms), c)
  <1> DEFINE pack(m) == Redux(m, where(p)[m.idx])
  <1>1. \A i \in DOMAIN ms : ms[i] \in Messages
    BY LenProperties, ElementOfSeq
  <1>2. \A m : pack(m).type = "redux" /\ pack(m).msg = m
    BY DEF Redux
  <1>3. Forwarded(p, ms) = {pack(m) : m \in {ms[i] : i \in {j \in DOMAIN ms : Goes(p, ms[j])}}}
    BY DEF Forwarded, ToSet
  <1> HIDE DEF pack
  <1>4. \A n \in Forwarded(p, ms) :
           \E i \in DOMAIN ms : Goes(p, ms[i]) /\ n = pack(ms[i])
    BY <1>3
  <1>5. \A i \in DOMAIN ms : Goes(p, ms[i]) => pack(ms[i]) \in Forwarded(p, ms)
    BY <1>3
  <1>6. ASSUME \A i \in DOMAIN ms : Goes(p, ms[i]) => ms[i] \notin Has(c)
        PROVE  NoPacket(Forwarded(p, ms), c)
    BY <1>1, <1>2, <1>4, <1>6 DEF NoPacket, PacketHits, Has
  <1>7. ASSUME NEW i \in DOMAIN ms, Hits(ms, Has(c)) = {i}, Goes(p, ms[i])
        PROVE  OnePacket(Forwarded(p, ms), c)
    <2>1. ms[i] \in Has(c) /\ \A j \in DOMAIN ms : ms[j] \in Has(c) => j = i
      BY <1>7 DEF Hits
    <2>2. pack(ms[i]) \in PacketHits(Forwarded(p, ms), c)
      BY <1>2, <1>5, <1>7, <2>1 DEF PacketHits, Has
    <2>3. ASSUME NEW n \in PacketHits(Forwarded(p, ms), c)
          PROVE  n = pack(ms[i])
      <3>1. n \in Forwarded(p, ms) /\ c \in n.msg.parts
        BY <2>3 DEF PacketHits
      <3>2. PICK j \in DOMAIN ms : Goes(p, ms[j]) /\ n = pack(ms[j])
        BY <1>4, <3>1
      <3>3. ms[j] \in Has(c)
        BY <1>1, <1>2, <3>1, <3>2 DEF Has
      <3> QED
        BY <2>1, <3>2, <3>3
    <2>4. pack(ms[i]) \in Forwarded(p, ms)
      BY <1>5, <1>7
    <2> QED
      BY <2>2, <2>3, <2>4 DEF OnePacket
  <1> QED
    BY <1>6, <1>7

(* Packets and results from two sources *)
LEMMA UnionHits ==
    ASSUME NEW a, NEW b, NEW c
    PROVE  /\ NoPacket(a, c) /\ NoPacket(b, c) => NoPacket(a \cup b, c)
           /\ OnePacket(a, c) /\ NoPacket(b, c) => OnePacket(a \cup b, c)
           /\ NoPacket(a, c) /\ OnePacket(b, c) => OnePacket(a \cup b, c)
           /\ NoResult(a, c) /\ NoResult(b, c) => NoResult(a \cup b, c)
           /\ OneResult(a, c) /\ NoResult(b, c) => OneResult(a \cup b, c)
           /\ NoResult(a, c) /\ OneResult(b, c) => OneResult(a \cup b, c)
  <1>1. PacketHits(a \cup b, c) = PacketHits(a, c) \cup PacketHits(b, c)
    BY DEF PacketHits
  <1>2. ResultHits(a \cup b, c) = ResultHits(a, c) \cup ResultHits(b, c)
    BY DEF ResultHits
  <1> QED
    BY <1>1, <1>2 DEF NoPacket, OnePacket, NoResult, OneResult

(* A combined message goes up, or is a result *)
LEMMA DoneHits ==
    ASSUME NEW p \in PE, NEW ds \in SUBSET Messages, NEW c
    PROVE  LET hits == {d \in ds : c \in d.parts}
               ups == {Upward(p, m) : m \in {d \in ds : d.idx # root}}
               outs == {Result(m) : m \in {d \in ds : d.idx = root}}
           IN  /\ hits = {} => NoPacket(ups, c) /\ NoResult(outs, c)
               /\ (\E d \in ds : hits = {d}) =>
                     \/ OnePacket(ups, c) /\ NoResult(outs, c)
                     \/ NoPacket(ups, c) /\ OneResult(outs, c)
  <1> DEFINE hits == {d \in ds : c \in d.parts}
             ups == {Upward(p, m) : m \in {d \in ds : d.idx # root}}
             outs == {Result(m) : m \in {d \in ds : d.idx = root}}
  <1>1. \A m \in Messages : Upward(p, m).type = "redux" /\ Upward(p, m).msg.parts = m.parts
    BY DEF Upward, Redux, Messages
  <1>2. \A m \in Messages : Result(m).parts = m.parts
    BY DEF Result
  <1>3. \A n \in ups : \E d \in ds : d.idx # root /\ n = Upward(p, d) /\ d \in Messages
    OBVIOUS
  <1>4. \A x \in outs : \E d \in ds : d.idx = root /\ x = Result(d) /\ d \in Messages
    OBVIOUS
  <1>5. \A d \in ds : /\ d \in Messages
                      /\ d.idx # root => Upward(p, d) \in ups
                      /\ d.idx = root => Result(d) \in outs
    OBVIOUS
  <1> HIDE DEF ups, outs
  <1>6. hits = {} => NoPacket(ups, c) /\ NoResult(outs, c)
    BY <1>1, <1>2, <1>3, <1>4 DEF NoPacket, NoResult, PacketHits, ResultHits
  <1>7. ASSUME NEW d \in ds, hits = {d}
        PROVE  \/ OnePacket(ups, c) /\ NoResult(outs, c)
               \/ NoPacket(ups, c) /\ OneResult(outs, c)
    <2>1. c \in d.parts /\ \A x \in ds : c \in x.parts => x = d
      BY <1>7
    <2>2. CASE d.idx = root
      <3>1. NoPacket(ups, c)
        BY <1>1, <1>3, <2>1, <2>2 DEF NoPacket, PacketHits
      <3>2. OneResult(outs, c)
        BY <1>2, <1>4, <1>5, <2>1, <2>2 DEF OneResult, ResultHits
      <3> QED
        BY <3>1, <3>2
    <2>3. CASE d.idx # root
      <3>1. NoResult(outs, c)
        BY <1>2, <1>4, <2>1, <2>3 DEF NoResult, ResultHits
      <3>2. OnePacket(ups, c)
        BY <1>1, <1>3, <1>5, <2>1, <2>3 DEF OnePacket, PacketHits
      <3> QED
        BY <3>1, <3>2
    <2> QED
      BY <2>2, <2>3
  <1> QED
    BY <1>6, <1>7 DEF ups, outs

(* A message is taken, goes on or waits *)
LEMMA OneFate ==
    ASSUME NEW p \in PE, NEW ms \in Seq(Messages), NEW c, NEW i \in DOMAIN ms,
           Hits(ms, Has(c)) = {i}
    PROVE  /\ \A j \in DOMAIN ms : ms[j] \in Has(c) => j = i
           /\ \/ /\ i \in Taking(p, ms)
                 /\ \A j \in DOMAIN ms : Goes(p, ms[j]) => ms[j] \notin Has(c)
                 /\ \A j \in DOMAIN ms : Waits(p, ms[j]) => ms[j] \notin Has(c)
              \/ /\ Goes(p, ms[i])
                 /\ \A j \in Taking(p, ms) : ms[j] \notin Has(c)
                 /\ \A j \in DOMAIN ms : Waits(p, ms[j]) => ms[j] \notin Has(c)
              \/ /\ Waits(p, ms[i])
                 /\ \A j \in Taking(p, ms) : ms[j] \notin Has(c)
                 /\ \A j \in DOMAIN ms : Goes(p, ms[j]) => ms[j] \notin Has(c)
  <1>1. \A j \in DOMAIN ms : ms[j] \in Has(c) => j = i
    BY DEF Hits
  <1>2. \A j \in Taking(p, ms) : j \in DOMAIN ms
    BY DEF Taking
  <1>3. CASE ms[i].idx \in chares'[p]
    <2>1. i \in Taking(p, ms)
      BY <1>3 DEF Taking
    <2>2. ~Goes(p, ms[i]) /\ ~Waits(p, ms[i])
      BY <1>3 DEF Goes, Waits
    <2> QED
      BY <1>1, <2>1, <2>2
  <1>4. CASE ms[i].idx \notin chares'[p] /\ NoIdea(p, ms[i].idx)
    <2>1. i \notin Taking(p, ms)
      BY <1>4 DEF Taking
    <2>2. ~Goes(p, ms[i]) /\ Waits(p, ms[i])
      BY <1>4 DEF Goes, Waits
    <2> QED
      BY <1>1, <1>2, <2>1, <2>2
  <1>5. CASE ms[i].idx \notin chares'[p] /\ ~NoIdea(p, ms[i].idx)
    <2>1. i \notin Taking(p, ms)
      BY <1>5 DEF Taking
    <2>2. Goes(p, ms[i]) /\ ~Waits(p, ms[i])
      BY <1>5 DEF Goes, Waits
    <2> QED
      BY <1>1, <1>2, <2>1, <2>2
  <1> QED
    BY <1>3, <1>4, <1>5

(* In a delivery of the messages ms, a contribution that is in another     *)
(* place stays or goes up, and one that is in a message of ms gets to one  *)
(* place.                                                                  *)
LEMMA DeliverHits ==
    ASSUME TypeOK, NEW p \in PE, chares'[p] \subseteq Elem,
           \A e \in Elem : e \in chares[p] /\ e \notin chares'[p]
                              => received[e] = no_reducers,
           NEW ms \in Seq(Messages), NEW packs,
           NEW old \in [Elem -> Seq(Messages)], NEW phase \in [PE -> Seq(Messages)],
           Delivers(p, ms, packs, old, phase), NEW c,
           NEW base, base = [buffers EXCEPT ![p] = old]
    PROVE  /\ Nowhere(packs, results, received, base, phase, c) /\ NoHit(ms, Has(c))
                 => Nowhere(net', results', received', buffers', collective_buffer', c)
           /\ \/ Once(packs, results, received, base, phase, c) /\ NoHit(ms, Has(c))
              \/ Nowhere(packs, results, received, base, phase, c) /\ OneHit(ms, Has(c))
              => Once(net', results', received', buffers', collective_buffer', c)
  <1> DEFINE T == Has(c)
             fwd == Forwarded(p, ms)
             notaken == \A i \in Taking(p, ms) : ms[i] \notin T
             nogoing == \A i \in DOMAIN ms : Goes(p, ms[i]) => ms[i] \notin T
             nowaiting == \A i \in DOMAIN ms : Waits(p, ms[i]) => ms[i] \notin T
             taken == \E i \in Taking(p, ms) : Hits(ms, T) = {i}
             going == \E i \in DOMAIN ms : Hits(ms, T) = {i} /\ Goes(p, ms[i])
             waiting == \E i \in DOMAIN ms : Hits(ms, T) = {i} /\ Waits(p, ms[i])
  <1>1. NoHit(ms, T) => notaken /\ nogoing /\ nowaiting
    BY DEF NoHit, Hits, Taking
  <1>2. OneHit(ms, T) => \/ taken /\ nogoing /\ nowaiting
                         \/ notaken /\ going /\ nowaiting
                         \/ notaken /\ nogoing /\ waiting
    BY OneFate DEF OneHit
  <1>3. /\ NoBuffer(base, c) /\ nowaiting => NoBuffer(buffers', c)
        /\ OneBuffer(base, c) /\ nowaiting => OneBuffer(buffers', c)
        /\ NoBuffer(base, c) /\ waiting => OneBuffer(buffers', c)
    BY BufferHits DEF Delivers
  <1>4. /\ nogoing => NoPacket(fwd, c)
        /\ going => OnePacket(fwd, c)
    BY ForwardHits
  <1>5. CASE /\ collective_buffer' = [phase EXCEPT ![p] = @ \o Here(p, ms)]
             /\ net' = packs \cup fwd
             /\ UNCHANGED <<received, results>>
    <2>1. /\ NoPhase(phase, c) /\ notaken => NoPhase(collective_buffer', c)
          /\ OnePhase(phase, c) /\ notaken => OnePhase(collective_buffer', c)
          /\ NoPhase(phase, c) /\ taken => OnePhase(collective_buffer', c)
      <3>1. collective_buffer' = SetAsideIn(p, ms, phase)
        BY <1>5 DEF SetAsideIn
      <3> QED
        BY <3>1, PhaseHits
    <2> HIDE DEF fwd, T, notaken, nogoing, nowaiting, taken, going, waiting
    <2>2. /\ NoPacket(packs, c) /\ nogoing => NoPacket(net', c)
          /\ OnePacket(packs, c) /\ nogoing => OnePacket(net', c)
          /\ NoPacket(packs, c) /\ going => OnePacket(net', c)
      BY <1>4, <1>5, UnionHits
    <2>3. received' = received /\ results' = results
      BY <1>5
    <2>4. Nowhere(packs, results, received, base, phase, c) /\ NoHit(ms, T)
             => Nowhere(net', results', received', buffers', collective_buffer', c)
      BY <1>1, <1>3, <2>1, <2>2, <2>3 DEF Nowhere
    <2>5. Once(packs, results, received, base, phase, c) /\ NoHit(ms, T)
             => Once(net', results', received', buffers', collective_buffer', c)
      BY <1>1, <1>3, <2>1, <2>2, <2>3 DEF Once
    <2>6. Nowhere(packs, results, received, base, phase, c) /\ OneHit(ms, T)
             => Once(net', results', received', buffers', collective_buffer', c)
      BY <1>2, <1>3, <2>1, <2>2, <2>3 DEF Nowhere, Once
    <2> QED
      BY <2>4, <2>5, <2>6 DEF T
  <1>6. CASE /\ Reduce(p, ms, packs \cup fwd)
             /\ collective_buffer' = phase
    <2> DEFINE ds == Done(p, ms)
               hits == {d \in ds : c \in d.parts}
               ups == {Upward(p, m) : m \in {d \in ds : d.idx # root}}
               outs == {Result(m) : m \in {d \in ds : d.idx = root}}
               nocomb == NoPacket(ups, c) /\ NoResult(outs, c)
               comb == \/ OnePacket(ups, c) /\ NoResult(outs, c)
                       \/ NoPacket(ups, c) /\ OneResult(outs, c)
    <2>1. /\ NoReducer(received, c) /\ notaken => NoReducer(received', c) /\ hits = {}
          /\ \/ OneReducer(received, c) /\ notaken
             \/ NoReducer(received, c) /\ taken
             => \/ OneReducer(received', c) /\ hits = {}
                \/ NoReducer(received', c) /\ \E d \in ds : hits = {d}
      BY <1>6, ReduceHits
    <2>2. ds \in SUBSET Messages
      BY DoneType
    <2>3. /\ hits = {} => nocomb
          /\ (\E d \in ds : hits = {d}) => comb
      <3> HIDE DEF ds
      <3> QED
        BY <2>2, DoneHits
    <2>4. results' = results \cup outs /\ net' = (packs \cup fwd) \cup ups
      BY <1>6, ReduceIs
    <2> HIDE DEF fwd, T, notaken, nogoing, nowaiting, taken, going, waiting
    <2> HIDE DEF ds, hits, ups, outs
    <2>5. /\ NoReducer(received, c) /\ notaken => NoReducer(received', c) /\ nocomb
          /\ \/ OneReducer(received, c) /\ notaken
             \/ NoReducer(received, c) /\ taken
             => \/ OneReducer(received', c) /\ nocomb
                \/ NoReducer(received', c) /\ comb
      BY <2>1, <2>3
    <2>6. /\ NoPacket(packs, c) /\ nogoing => NoPacket(packs \cup fwd, c)
          /\ OnePacket(packs, c) /\ nogoing => OnePacket(packs \cup fwd, c)
          /\ NoPacket(packs, c) /\ going => OnePacket(packs \cup fwd, c)
      BY <1>4, UnionHits
    <2>7. /\ NoPacket(packs \cup fwd, c) /\ NoPacket(ups, c) => NoPacket(net', c)
          /\ OnePacket(packs \cup fwd, c) /\ NoPacket(ups, c) => OnePacket(net', c)
          /\ NoPacket(packs \cup fwd, c) /\ OnePacket(ups, c) => OnePacket(net', c)
      BY <2>4, UnionHits
    <2>8. /\ NoResult(results, c) /\ NoResult(outs, c) => NoResult(results', c)
          /\ OneResult(results, c) /\ NoResult(outs, c) => OneResult(results', c)
          /\ NoResult(results, c) /\ OneResult(outs, c) => OneResult(results', c)
      BY <2>4, UnionHits
    <2>9. collective_buffer' = phase
      BY <1>6
    <2>10. Nowhere(packs, results, received, base, phase, c) /\ NoHit(ms, T)
              => Nowhere(net', results', received', buffers', collective_buffer', c)
      BY <1>1, <1>3, <2>5, <2>6, <2>7, <2>8, <2>9 DEF Nowhere
    <2>11. Once(packs, results, received, base, phase, c) /\ NoHit(ms, T)
              => Once(net', results', received', buffers', collective_buffer', c)
      BY <1>1, <1>3, <2>5, <2>6, <2>7, <2>8, <2>9 DEF Once
    <2>12. Nowhere(packs, results, received, base, phase, c) /\ OneHit(ms, T)
              => Once(net', results', received', buffers', collective_buffer', c)
      BY <1>2, <1>3, <2>5, <2>6, <2>7, <2>8, <2>9 DEF Nowhere, Once
    <2> QED
      BY <2>10, <2>11, <2>12 DEF T
  <1> QED
    BY <1>5, <1>6 DEF Delivers

-----------------------------------------------------------------------------
(* The messages a handler takes in hand are no longer where they were *)

LEMMA FromBuffer ==
    ASSUME TypeOK, NEW p \in PE, NEW e \in Elem, NEW c
    PROVE  LET base == [buffers EXCEPT ![p] = [buffers[p] EXCEPT ![e] = <<>>]]
           IN  /\ NoBuffer(buffers, c)
                     => NoBuffer(base, c) /\ NoHit(buffers[p][e], Has(c))
               /\ OneBuffer(buffers, c)
                     => \/ OneBuffer(base, c) /\ NoHit(buffers[p][e], Has(c))
                        \/ NoBuffer(base, c) /\ OneHit(buffers[p][e], Has(c))
  <1> DEFINE T == Has(c)
             base == [buffers EXCEPT ![p] = [buffers[p] EXCEPT ![e] = <<>>]]
  <1>1. \A q \in PE, f \in Elem :
           base[q][f] = IF q = p /\ f = e THEN <<>> ELSE buffers[q][f]
    BY DEF TypeOK
  <1> HIDE DEF base, T
  <1>2. NoHit(<<>>, T)
    BY EmptyHits
  <1>3. NoBuffer(buffers, c) => NoBuffer(base, c) /\ NoHit(buffers[p][e], T)
    BY <1>1, <1>2 DEF NoBuffer, T
  <1>4. ASSUME OneBuffer(buffers, c)
        PROVE  \/ OneBuffer(base, c) /\ NoHit(buffers[p][e], T)
               \/ NoBuffer(base, c) /\ OneHit(buffers[p][e], T)
    <2>1. PICK q \in PE, f \in Elem :
             /\ OneHit(buffers[q][f], T)
             /\ \A r \in PE, g \in Elem : r # q \/ g # f => NoHit(buffers[r][g], T)
      BY <1>4 DEF OneBuffer, T
    <2>2. CASE q = p /\ f = e
      <3>1. \A r \in PE, g \in Elem : NoHit(base[r][g], T)
        BY <1>1, <1>2, <2>1, <2>2
      <3> QED
        BY <2>1, <2>2, <3>1 DEF NoBuffer, T
    <2>3. CASE q # p \/ f # e
      <3>1. NoHit(buffers[p][e], T)
        BY <2>1, <2>3
      <3>2. OneHit(base[q][f], T)
        BY <1>1, <2>1, <2>3
      <3>3. \A r \in PE, g \in Elem : r # q \/ g # f => NoHit(base[r][g], T)
        BY <1>1, <1>2, <2>1
      <3> QED
        BY <3>1, <3>2, <3>3 DEF OneBuffer, T
    <2> QED
      BY <2>2, <2>3
  <1> QED
    BY <1>3, <1>4 DEF base, T

LEMMA FromPhase ==
    ASSUME TypeOK, NEW p \in PE, NEW c
    PROVE  LET phase == [collective_buffer EXCEPT ![p] = <<>>]
           IN  /\ NoPhase(collective_buffer, c)
                     => NoPhase(phase, c) /\ NoHit(collective_buffer[p], Has(c))
               /\ OnePhase(collective_buffer, c)
                     => \/ OnePhase(phase, c) /\ NoHit(collective_buffer[p], Has(c))
                        \/ NoPhase(phase, c) /\ OneHit(collective_buffer[p], Has(c))
  <1> DEFINE T == Has(c)
             phase == [collective_buffer EXCEPT ![p] = <<>>]
  <1>1. \A q \in PE : phase[q] = IF q = p THEN <<>> ELSE collective_buffer[q]
    BY DEF TypeOK
  <1> HIDE DEF phase, T
  <1>2. NoHit(<<>>, T)
    BY EmptyHits
  <1>3. NoPhase(collective_buffer, c)
           => NoPhase(phase, c) /\ NoHit(collective_buffer[p], T)
    BY <1>1, <1>2 DEF NoPhase, T
  <1>4. ASSUME OnePhase(collective_buffer, c)
        PROVE  \/ OnePhase(phase, c) /\ NoHit(collective_buffer[p], T)
               \/ NoPhase(phase, c) /\ OneHit(collective_buffer[p], T)
    <2>1. PICK q \in PE : /\ OneHit(collective_buffer[q], T)
                          /\ \A r \in PE \ {q} : NoHit(collective_buffer[r], T)
      BY <1>4 DEF OnePhase, T
    <2>2. CASE q = p
      <3>1. \A r \in PE : NoHit(phase[r], T)
        BY <1>1, <1>2, <2>1, <2>2
      <3> QED
        BY <2>1, <2>2, <3>1 DEF NoPhase, T
    <2>3. CASE q # p
      <3>1. NoHit(collective_buffer[p], T) /\ OneHit(phase[q], T)
        BY <1>1, <2>1, <2>3
      <3>2. \A r \in PE \ {q} : NoHit(phase[r], T)
        BY <1>1, <1>2, <2>1
      <3> QED
        BY <3>1, <3>2 DEF OnePhase, T
    <2> QED
      BY <2>2, <2>3
  <1> QED
    BY <1>3, <1>4 DEF phase, T

LEMMA FromNet ==
    ASSUME TypeOK, NEW n \in net, n.type = "redux", n.msg \in Messages, NEW c
    PROVE  /\ NoPacket(net, c) => NoPacket(net \ {n}, c) /\ NoHit(<<n.msg>>, Has(c))
           /\ OnePacket(net, c)
                 => \/ OnePacket(net \ {n}, c) /\ NoHit(<<n.msg>>, Has(c))
                    \/ NoPacket(net \ {n}, c) /\ OneHit(<<n.msg>>, Has(c))
  <1>1. PacketHits(net \ {n}, c) = PacketHits(net, c) \ {n}
    BY DEF PacketHits
  <1>2. n.msg \in Has(c) <=> n \in PacketHits(net, c)
    BY DEF PacketHits, Has
  <1>3. /\ n.msg \in Has(c) => OneHit(<<n.msg>>, Has(c))
        /\ n.msg \notin Has(c) => NoHit(<<n.msg>>, Has(c))
    BY SingleHits
  <1>4. NoPacket(net, c) => NoPacket(net \ {n}, c) /\ NoHit(<<n.msg>>, Has(c))
    BY <1>1, <1>2, <1>3 DEF NoPacket
  <1>5. ASSUME NEW x \in net, PacketHits(net, c) = {x}
        PROVE  \/ OnePacket(net \ {n}, c) /\ NoHit(<<n.msg>>, Has(c))
               \/ NoPacket(net \ {n}, c) /\ OneHit(<<n.msg>>, Has(c))
    <2>1. CASE x = n
      <3>1. PacketHits(net \ {n}, c) = {}
        BY <1>1, <1>5, <2>1
      <3> QED
        BY <1>2, <1>3, <1>5, <2>1, <3>1 DEF NoPacket
    <2>2. CASE x # n
      <3>1. PacketHits(net \ {n}, c) = {x} /\ x \in net \ {n}
        BY <1>1, <1>5, <2>2
      <3> QED
        BY <1>2, <1>3, <1>5, <2>2, <3>1 DEF OnePacket
    <2> QED
      BY <2>1, <2>2
  <1> QED
    BY <1>4, <1>5 DEF OnePacket

(* Updates and migrating chares carry no contribution *)
LEMMA OtherPackets ==
    ASSUME NEW ps, NEW qs, NEW c,
           \A n \in ps : n.type = "redux" => n \in qs,
           \A n \in qs : n.type = "redux" => n \in ps
    PROVE  /\ NoPacket(ps, c) => NoPacket(qs, c)
           /\ OnePacket(ps, c) => OnePacket(qs, c)
  <1>1. PacketHits(ps, c) = PacketHits(qs, c)
    BY DEF PacketHits
  <1>2. \A n : PacketHits(qs, c) = {n} => n \in qs
    BY DEF PacketHits
  <1> QED
    BY <1>1, <1>2 DEF NoPacket, OnePacket

-----------------------------------------------------------------------------
(* A step takes messages in hand *)

AllIn(G) ==
    /\ received \in [Elem -> [Number -> Seq(G)]]
    /\ buffers \in [PE -> [Elem -> Seq(G)]]
    /\ collective_buffer \in [PE -> Seq(G)]
    /\ \A n \in net : n.type = "redux" => n.msg \in G

Own(e, r) == Message(e, number(r), {<<e, r>>}, r)

(* The chares of p stay, but for those whose reducers are empty; a         *)
(* contribution is in one place, or once in the messages in hand.          *)
InHand(p, ms, packs, old, phase) ==
    /\ chares'[p] \subseteq Elem
    /\ \A e \in Elem : e \in chares[p] /\ e \notin chares'[p]
                          => received[e] = no_reducers
    /\ Delivers(p, ms, packs, old, phase)
    /\ \A c \in Contribution :
          LET base == [buffers EXCEPT ![p] = old]
              nowhere == Nowhere(packs, results, received, base, phase, c)
              once == Once(packs, results, received, base, phase, c)
          IN IF c \in made'
             THEN \/ once /\ NoHit(ms, Has(c))
                  \/ nowhere /\ OneHit(ms, Has(c))
             ELSE nowhere /\ NoHit(ms, Has(c))

(* The messages in hand are in G if all messages are *)
Handed(G) ==
    \E p \in PE, ms \in Seq(G), packs \in SUBSET (Packet \cup net),
       old \in [Elem -> Seq(G)], phase \in [PE -> Seq(G)] :
        /\ \A n \in packs : n.type = "redux" => n \in net
        /\ \/ made' = made
           \/ \E e \in Elem, r \in Redn :
                 ms = <<Own(e, r)>> /\ made' = made \cup {<<e, r>>}
        /\ InHand(p, ms, packs, old, phase)

LEMMA FlushInHand ==
    ASSUME TypeOK, Conserved, NEW G \in SUBSET Messages, AllIn(G),
           NEW p \in PE, NEW e \in Elem, NEW packs \in SUBSET (Packet \cup net),
           chares'[p] \subseteq Elem,
           \A f \in Elem : f \in chares[p] /\ f \notin chares'[p]
                              => received[f] = no_reducers,
           \A n \in net : n.type = "redux" => n \in packs,
           \A n \in packs : n.type = "redux" => n \in net,
           flush_buffers(p, e, packs), made' = made
    PROVE  Handed(G)
  <1> DEFINE old == [buffers[p] EXCEPT ![e] = <<>>]
             base == [buffers EXCEPT ![p] = old]
             ms == buffers[p][e]
  <1>1. /\ ms \in Seq(G) /\ old \in [Elem -> Seq(G)]
        /\ collective_buffer \in [PE -> Seq(G)]
    BY EmptySeq DEF AllIn
  <1>2. Delivers(p, ms, packs, old, collective_buffer)
    BY FlushDelivers
  <1>3. ASSUME NEW c \in Contribution
        PROVE  LET nowhere == Nowhere(packs, results, received, base, collective_buffer, c)
                   once == Once(packs, results, received, base, collective_buffer, c)
               IN IF c \in made'
                  THEN \/ once /\ NoHit(ms, Has(c))
                       \/ nowhere /\ OneHit(ms, Has(c))
                  ELSE nowhere /\ NoHit(ms, Has(c))
    <2>1. /\ NoPacket(net, c) => NoPacket(packs, c)
          /\ OnePacket(net, c) => OnePacket(packs, c)
      BY OtherPackets
    <2>2. /\ NoBuffer(buffers, c) => NoBuffer(base, c) /\ NoHit(ms, Has(c))
          /\ OneBuffer(buffers, c) => \/ OneBuffer(base, c) /\ NoHit(ms, Has(c))
                                      \/ NoBuffer(base, c) /\ OneHit(ms, Has(c))
      BY FromBuffer
    <2> HIDE DEF base, old, ms
    <2>3. Nowhere(net, results, received, buffers, collective_buffer, c)
             => /\ Nowhere(packs, results, received, base, collective_buffer, c)
                /\ NoHit(ms, Has(c))
      BY <2>1, <2>2 DEF Nowhere
    <2>4. Once(net, results, received, buffers, collective_buffer, c)
             => \/ /\ Once(packs, results, received, base, collective_buffer, c)
                   /\ NoHit(ms, Has(c))
                \/ /\ Nowhere(packs, results, received, base, collective_buffer, c)
                   /\ OneHit(ms, Has(c))
      BY <2>1, <2>2 DEF Nowhere, Once
    <2> QED
      BY <2>3, <2>4 DEF Conserved
  <1>4. InHand(p, ms, packs, old, collective_buffer)
    <2> HIDE DEF ms, old
    <2> QED
      BY <1>2, <1>3 DEF InHand, old
  <1> HIDE DEF ms, old
  <1> QED
    BY <1>1, <1>4 DEF Handed

LEMMA StepHanded ==
    ASSUME TypeOK, Conserved, Next, NEW G \in SUBSET Messages, AllIn(G),
           \A e \in Elem, r \in Redn : Own(e, r) \in G
    PROVE  Handed(G)
  <1>0. /\ net \subseteq Packet
        /\ chares \in [PE -> SUBSET Elem]
        /\ \A p \in PE : buffers[p] \in [Elem -> Seq(G)]
        /\ \A p \in PE : [buffers EXCEPT ![p] = buffers[p]] = buffers
        /\ collective_buffer \in [PE -> Seq(G)]
    BY DEF TypeOK, AllIn
  <1>1. ASSUME NEW p \in PE, NEW e \in Elem, NEW r \in Redn, Contribute(p, e, r)
        PROVE  Handed(G)
    <2> DEFINE m == Own(e, r)
               ms == <<m>>
    <2>1. m \in Messages /\ Delivers(p, ms, net, buffers[p], collective_buffer)
      BY <1>1, ContributeDelivers DEF Own
    <2>2. m.parts = {<<e, r>>}
      BY DEF Own, Message
    <2>3. chares' = chares /\ <<e, r>> \notin made /\ made' = made \cup {<<e, r>>}
      BY <1>1 DEF Contribute
    <2> HIDE DEF m
    <2>4. m \in G /\ ms \in Seq(G)
      BY DEF m
    <2>5. \A c : /\ c = <<e, r>> => OneHit(ms, Has(c))
                 /\ c # <<e, r>> => NoHit(ms, Has(c))
      BY <2>1, <2>2, SingleHits DEF Has
    <2> HIDE DEF ms
    <2>6. InHand(p, ms, net, buffers[p], collective_buffer)
      <3>1. chares'[p] \subseteq Elem /\ chares'[p] = chares[p]
        BY <1>0, <2>3
      <3>2. [buffers EXCEPT ![p] = buffers[p]] = buffers
        BY <1>0
      <3>3. ASSUME NEW c \in Contribution
            PROVE  LET nowhere == Nowhere(net, results, received, buffers,
                                          collective_buffer, c)
                       once == Once(net, results, received, buffers,
                                    collective_buffer, c)
                   IN IF c \in made'
                      THEN \/ once /\ NoHit(ms, Has(c))
                           \/ nowhere /\ OneHit(ms, Has(c))
                      ELSE nowhere /\ NoHit(ms, Has(c))
        BY <2>3, <2>5 DEF Conserved
      <3> QED
        BY <2>1, <3>1, <3>2, <3>3 DEF InHand
    <2>7. ms = <<Own(e, r)>>
      BY DEF ms, m
    <2> QED
      BY <1>0, <2>3, <2>4, <2>6, <2>7 DEF Handed
  <1>2. ASSUME NEW p \in PE, NEW e \in Elem, NEW dst \in PE, Emigrate(p, e, dst)
        PROVE  Handed(G)
    <2> DEFINE left == net \cup {Chare(e, dst)}
               packs == IF p = home_pe(e) THEN left
                        ELSE left \cup {Location(e, home_pe(e), dst, hop[e] + 1)}
    <2>1. flush_buffers(p, e, packs) /\ made' = made
      BY <1>2 DEF Emigrate
    <2>2. /\ Chare(e, dst).type # "redux"
          /\ Location(e, home_pe(e), dst, hop[e] + 1).type # "redux"
      BY DEF Chare, Location
    <2>3. /\ \A n \in net : n.type = "redux" => n \in packs
          /\ \A n \in packs : n.type = "redux" => n \in net
      BY <2>2
    <2>4. chares'[p] = chares[p] \ {e} /\ received[e] = no_reducers
      BY <1>0, <1>2 DEF Emigrate, chare_can_migrate_
    <2>5. chares'[p] \subseteq Elem
          /\ \A f \in Elem : f \in chares[p] /\ f \notin chares'[p]
                                => received[f] = no_reducers
      BY <1>0, <2>4
    <2>6. packs \in SUBSET (Packet \cup net)
      <3>1. hop[e] + 1 \in 0 .. MaxHops
        BY <1>2, ReductionAssumption DEF Emigrate, TypeOK
      <3>2. /\ Chare(e, dst) \in Packet
            /\ Location(e, home_pe(e), dst, hop[e] + 1) \in Packet
        BY <3>1, HomePE DEF Chare, Location, Packet
      <3> QED
        BY <3>2
    <2> HIDE DEF packs
    <2> QED
      BY <2>1, <2>3, <2>5, <2>6, FlushInHand
  <1>3. ASSUME NEW p \in PE, InsertionComplete(p)
        PROVE  Handed(G)
    <2> DEFINE ms == collective_buffer[p]
               phase == [collective_buffer EXCEPT ![p] = <<>>]
    <2>1. Delivers(p, ms, net, buffers[p], phase)
      BY <1>3, InsertionCompleteDelivers
    <2>2. chares' = chares /\ made' = made
      BY <1>3 DEF InsertionComplete
    <2>3. ms \in Seq(G) /\ phase \in [PE -> Seq(G)]
      BY <1>0, EmptySeq
    <2>4. ASSUME NEW c \in Contribution
          PROVE  LET nowhere == Nowhere(net, results, received, buffers, phase, c)
                     once == Once(net, results, received, buffers, phase, c)
                 IN IF c \in made'
                    THEN \/ once /\ NoHit(ms, Has(c))
                         \/ nowhere /\ OneHit(ms, Has(c))
                    ELSE nowhere /\ NoHit(ms, Has(c))
      <3>1. /\ NoPhase(collective_buffer, c) => NoPhase(phase, c) /\ NoHit(ms, Has(c))
            /\ OnePhase(collective_buffer, c)
                  => \/ OnePhase(phase, c) /\ NoHit(ms, Has(c))
                     \/ NoPhase(phase, c) /\ OneHit(ms, Has(c))
        BY FromPhase
      <3> HIDE DEF ms, phase
      <3>2. Nowhere(net, results, received, buffers, collective_buffer, c)
               => Nowhere(net, results, received, buffers, phase, c) /\ NoHit(ms, Has(c))
        BY <3>1 DEF Nowhere
      <3>3. Once(net, results, received, buffers, collective_buffer, c)
               => \/ /\ Once(net, results, received, buffers, phase, c)
                     /\ NoHit(ms, Has(c))
                  \/ /\ Nowhere(net, results, received, buffers, phase, c)
                     /\ OneHit(ms, Has(c))
        BY <3>1 DEF Nowhere, Once
      <3> QED
        BY <2>2, <3>2, <3>3 DEF Conserved
    <2> HIDE DEF ms, phase
    <2>5. InHand(p, ms, net, buffers[p], phase)
      <3>1. chares'[p] \subseteq Elem /\ chares'[p] = chares[p]
        BY <1>0, <2>2
      <3>2. [buffers EXCEPT ![p] = buffers[p]] = buffers
        BY <1>0
      <3> QED
        BY <2>1, <2>4, <3>1, <3>2 DEF InHand
    <2> QED
      BY <1>0, <2>2, <2>3, <2>5 DEF Handed
  <1>4. ASSUME NEW n \in net, ReceiveRedux(n)
        PROVE  Handed(G)
    <2> DEFINE p == n.to
               ms == <<n.msg>>
               packs == net \ {n}
    <2>1. p \in PE /\ n.msg \in Messages /\ n.type = "redux"
      BY <1>0, <1>4 DEF ReceiveRedux, Packet
    <2>2. Delivers(p, ms, packs, buffers[p], collective_buffer)
      BY <1>4, DeliverNowDelivers DEF ReceiveRedux
    <2>3. chares' = chares /\ made' = made
      BY <1>4 DEF ReceiveRedux
    <2>4. ms \in Seq(G)
      <3>1. n.msg \in G
        BY <2>1 DEF AllIn
      <3> QED
        BY <3>1
    <2>5. ASSUME NEW c \in Contribution
          PROVE  LET nowhere == Nowhere(packs, results, received, buffers,
                                        collective_buffer, c)
                     once == Once(packs, results, received, buffers,
                                  collective_buffer, c)
                 IN IF c \in made'
                    THEN \/ once /\ NoHit(ms, Has(c))
                         \/ nowhere /\ OneHit(ms, Has(c))
                    ELSE nowhere /\ NoHit(ms, Has(c))
      <3>1. /\ NoPacket(net, c) => NoPacket(packs, c) /\ NoHit(ms, Has(c))
            /\ OnePacket(net, c) => \/ OnePacket(packs, c) /\ NoHit(ms, Has(c))
                                    \/ NoPacket(packs, c) /\ OneHit(ms, Has(c))
        BY <2>1, FromNet
      <3> HIDE DEF ms, packs, p
      <3>2. Nowhere(net, results, received, buffers, collective_buffer, c)
               => /\ Nowhere(packs, results, received, buffers, collective_buffer, c)
                  /\ NoHit(ms, Has(c))
        BY <3>1 DEF Nowhere
      <3>3. Once(net, results, received, buffers, collective_buffer, c)
               => \/ /\ Once(packs, results, received, buffers, collective_buffer, c)
                     /\ NoHit(ms, Has(c))
                  \/ /\ Nowhere(packs, results, received, buffers, collective_buffer, c)
                     /\ OneHit(ms, Has(c))
        BY <3>1 DEF Nowhere, Once
      <3> QED
        BY <2>3, <3>2, <3>3 DEF Conserved
    <2>6. packs \in SUBSET (Packet \cup net) /\ \A o \in packs : o \in net
      OBVIOUS
    <2> HIDE DEF ms, packs, p
    <2>7. InHand(p, ms, packs, buffers[p], collective_buffer)
      <3>1. chares'[p] \subseteq Elem /\ chares'[p] = chares[p]
        BY <1>0, <2>1, <2>3
      <3>2. [buffers EXCEPT ![p] = buffers[p]] = buffers
        BY <1>0, <2>1
      <3> QED
        BY <2>2, <2>5, <3>1, <3>2 DEF InHand
    <2> QED
      BY <1>0, <2>1, <2>3, <2>4, <2>6, <2>7 DEF Handed
  <1>5. ASSUME NEW n \in net, ReceiveLocation(n)
        PROVE  Handed(G)
    <2>1. n.to \in PE /\ n.idx \in Elem /\ n.type # "redux"
      BY <1>0, <1>5 DEF ReceiveLocation, Packet
    <2>2. /\ flush_buffers(n.to, n.idx, net \ {n})
          /\ chares' = chares /\ made' = made
      BY <1>5 DEF ReceiveLocation
    <2>3. chares'[n.to] \subseteq Elem
      BY <1>0, <2>1, <2>2
    <2> QED
      BY <2>1, <2>2, <2>3, FlushInHand
  <1>6. ASSUME NEW n \in net, ReceiveChare(n)
        PROVE  Handed(G)
    <2>1. n.to \in PE /\ n.idx \in Elem /\ n.type # "redux"
      BY <1>0, <1>6 DEF ReceiveChare, Packet
    <2>2. flush_buffers(n.to, n.idx, net \ {n}) /\ made' = made
      BY <1>6 DEF ReceiveChare
    <2>3. chares'[n.to] = chares[n.to] \cup {n.idx}
      BY <1>0, <1>6, <2>1 DEF ReceiveChare
    <2>4. chares'[n.to] \subseteq Elem
      BY <1>0, <2>1, <2>3
    <2> QED
      BY <2>1, <2>2, <2>3, <2>4, FlushInHand
  <1> QED
    BY <1>1, <1>2, <1>3, <1>4, <1>5, <1>6 DEF Next

-----------------------------------------------------------------------------
(* No step drops or repeats a contribution *)

LEMMA ConservedInit == Init => Conserved
  <1> SUFFICES ASSUME Init, NEW c \in Contribution
               PROVE  Nowhere(net, results, received, buffers, collective_buffer, c)
    BY DEF Init, Conserved
  <1>1. NoHit(<<>>, Has(c))
    BY EmptyHits
  <1>2. NoPacket(net, c) /\ NoResult(results, c)
    BY DEF Init, NoPacket, PacketHits, Location, NoResult, ResultHits
  <1>3. NoReducer(received, c) /\ NoBuffer(buffers, c) /\ NoPhase(collective_buffer, c)
    BY <1>1 DEF Init, no_reducers, NoReducer, NoBuffer, NoPhase
  <1> QED
    BY <1>2, <1>3 DEF Nowhere

LEMMA InHandConserves ==
    ASSUME TypeOK, NEW p \in PE, NEW ms \in Seq(Messages), NEW packs,
           NEW old \in [Elem -> Seq(Messages)], NEW phase \in [PE -> Seq(Messages)],
           InHand(p, ms, packs, old, phase)
    PROVE  Conserved'
  <1> SUFFICES ASSUME NEW c \in Contribution
               PROVE  IF c \in made'
                      THEN Once(net', results', received', buffers',
                                collective_buffer', c)
                      ELSE Nowhere(net', results', received', buffers',
                                   collective_buffer', c)
    BY DEF Conserved
  <1> DEFINE base == [buffers EXCEPT ![p] = old]
  <1>1. /\ chares'[p] \subseteq Elem /\ Delivers(p, ms, packs, old, phase)
        /\ \A e \in Elem : e \in chares[p] /\ e \notin chares'[p]
                              => received[e] = no_reducers
    BY DEF InHand
  <1>2. IF c \in made'
        THEN \/ Once(packs, results, received, base, phase, c) /\ NoHit(ms, Has(c))
             \/ Nowhere(packs, results, received, base, phase, c) /\ OneHit(ms, Has(c))
        ELSE Nowhere(packs, results, received, base, phase, c) /\ NoHit(ms, Has(c))
    BY DEF InHand
  <1>3. base = [buffers EXCEPT ![p] = old]
    OBVIOUS
  <1> HIDE DEF base
  <1>4. /\ Nowhere(packs, results, received, base, phase, c) /\ NoHit(ms, Has(c))
              => Nowhere(net', results', received', buffers', collective_buffer', c)
        /\ \/ Once(packs, results, received, base, phase, c) /\ NoHit(ms, Has(c))
           \/ Nowhere(packs, results, received, base, phase, c) /\ OneHit(ms, Has(c))
           => Once(net', results', received', buffers', collective_buffer', c)
    BY <1>1, <1>3, DeliverHits
  <1> QED
    BY <1>2, <1>4

LEMMA AllInMessages == TypeOK => AllIn(Messages)
  BY DEF TypeOK, AllIn, Packet

LEMMA ConservedStep == TypeOK /\ Conserved /\ [Next]_vars => Conserved'
  <1> SUFFICES ASSUME TypeOK, Conserved, [Next]_vars
               PROVE  Conserved'
    OBVIOUS
  <1>1. CASE Next
    <2>1. \A e \in Elem, r \in Redn : Own(e, r) \in Messages
      BY DEF Own, Message, Messages, Number, Contribution
    <2>2. Handed(Messages)
      BY <1>1, <2>1, AllInMessages, StepHanded
    <2> QED
      BY <2>2, InHandConserves DEF Handed
  <1>2. CASE UNCHANGED vars
    BY <1>2 DEF vars, tables, Conserved
  <1> QED
    BY <1>1, <1>2

-----------------------------------------------------------------------------
(* Places of a kind with no, or one, holding of a contribution *)

NoneOf(hs, c) == {h \in hs : c \in h.parts} = {}
OneOf(hs, c) == \E h \in hs : {x \in hs : c \in x.parts} = {h}

LEMMA HeldHits ==
    ASSUME NEW place, NEW s \in Seq(Messages), NEW c
    PROVE  /\ NoHit(s, Has(c)) => NoneOf(Held(place, s), c)
           /\ OneHit(s, Has(c)) => OneOf(Held(place, s), c)
  <1> DEFINE at(i) == [in |-> place, at |-> i, parts |-> s[i].parts]
             hs == Held(place, s)
  <1>1. hs = {at(i) : i \in DOMAIN s} /\ \A i \in DOMAIN s : at(i).parts = s[i].parts
    BY DEF Held
  <1>2. \A i \in DOMAIN s : s[i] \in Messages
    BY LenProperties, ElementOfSeq
  <1> HIDE DEF at, hs
  <1>3. \A i \in DOMAIN s : c \in at(i).parts <=> i \in Hits(s, Has(c))
    BY <1>1, <1>2 DEF Hits, Has
  <1>4. NoHit(s, Has(c)) => NoneOf(hs, c)
    BY <1>1, <1>3 DEF NoHit, NoneOf
  <1>5. ASSUME NEW i \in DOMAIN s, Hits(s, Has(c)) = {i}
        PROVE  OneOf(hs, c)
    <2>1. at(i) \in hs /\ c \in at(i).parts
      BY <1>1, <1>3, <1>5
    <2>2. \A x \in hs : c \in x.parts => x = at(i)
      BY <1>1, <1>3, <1>5
    <2> QED
      BY <2>1, <2>2 DEF OneOf
  <1> QED
    BY <1>4, <1>5 DEF OneHit, hs

(* The five kinds of holdings *)
InNet == {[in |-> <<"net", n.to>>, at |-> 0, parts |-> n.msg.parts] :
             n \in {o \in net : o.type = "redux"}}
InReducers == UNION {Held(<<"reducer", e, k>>, received[e][k]) :
                        e \in Elem, k \in Number}
InBuffers == UNION {Held(<<"buffer", p, e>>, buffers[p][e]) : p \in PE, e \in Elem}
InPhases == UNION {Held(<<"phase", p>>, collective_buffer[p]) : p \in PE}
InResults == {[in |-> <<"result", x.to>>, at |-> 0, parts |-> x.parts] : x \in results}

LEMMA NetHeld ==
    ASSUME NEW c
    PROVE  /\ NoPacket(net, c) => NoneOf(InNet, c)
           /\ OnePacket(net, c) => OneOf(InNet, c)
  <1> DEFINE at(n) == [in |-> <<"net", n.to>>, at |-> 0, parts |-> n.msg.parts]
  <1>1. InNet = {at(n) : n \in {o \in net : o.type = "redux"}}
    BY DEF InNet
  <1>2. \A n : at(n).parts = n.msg.parts
    OBVIOUS
  <1> HIDE DEF at
  <1>3. NoPacket(net, c) => NoneOf(InNet, c)
    BY <1>1, <1>2 DEF NoPacket, PacketHits, NoneOf
  <1>4. ASSUME NEW n \in net, PacketHits(net, c) = {n}
        PROVE  OneOf(InNet, c)
    <2>1. at(n) \in InNet /\ c \in at(n).parts
      BY <1>1, <1>2, <1>4 DEF PacketHits
    <2>2. \A x \in InNet : c \in x.parts => x = at(n)
      BY <1>1, <1>2, <1>4 DEF PacketHits
    <2> QED
      BY <2>1, <2>2 DEF OneOf
  <1> QED
    BY <1>3, <1>4 DEF OnePacket

LEMMA ResultsHeld ==
    ASSUME NEW c
    PROVE  /\ NoResult(results, c) => NoneOf(InResults, c)
           /\ OneResult(results, c) => OneOf(InResults, c)
  <1> DEFINE at(x) == [in |-> <<"result", x.to>>, at |-> 0, parts |-> x.parts]
  <1>1. InResults = {at(x) : x \in results}
    BY DEF InResults
  <1>2. \A x : at(x).parts = x.parts
    OBVIOUS
  <1> HIDE DEF at
  <1>3. NoResult(results, c) => NoneOf(InResults, c)
    BY <1>1, <1>2 DEF NoResult, ResultHits, NoneOf
  <1>4. ASSUME NEW x \in results, ResultHits(results, c) = {x}
        PROVE  OneOf(InResults, c)
    <2>1. at(x) \in InResults /\ c \in at(x).parts
      BY <1>1, <1>2, <1>4 DEF ResultHits
    <2>2. \A y \in InResults : c \in y.parts => y = at(x)
      BY <1>1, <1>2, <1>4 DEF ResultHits
    <2> QED
      BY <2>1, <2>2 DEF OneOf
  <1> QED
    BY <1>3, <1>4 DEF OneResult

LEMMA ReducersHeld ==
    ASSUME TypeOK, NEW c
    PROVE  /\ NoReducer(received, c) => NoneOf(InReducers, c)
           /\ OneReducer(received, c) => OneOf(InReducers, c)
  <1> DEFINE at(e, k) == Held(<<"reducer", e, k>>, received[e][k])
  <1>1. InReducers = UNION {at(e, k) : e \in Elem, k \in Number}
    BY DEF InReducers
  <1>2. \A e \in Elem, k \in Number :
           /\ NoHit(received[e][k], Has(c)) => NoneOf(at(e, k), c)
           /\ OneHit(received[e][k], Has(c)) => OneOf(at(e, k), c)
    BY HeldHits DEF TypeOK
  <1> HIDE DEF at
  <1>3. NoReducer(received, c) => NoneOf(InReducers, c)
    BY <1>1, <1>2 DEF NoReducer, NoneOf
  <1>4. ASSUME OneReducer(received, c)
        PROVE  OneOf(InReducers, c)
    <2>1. PICK e \in Elem, k \in Number :
             /\ OneHit(received[e][k], Has(c))
             /\ \A f \in Elem, l \in Number :
                   f # e \/ l # k => NoHit(received[f][l], Has(c))
      BY <1>4 DEF OneReducer
    <2>2. PICK h \in at(e, k) : {x \in at(e, k) : c \in x.parts} = {h}
      BY <1>2, <2>1 DEF OneOf
    <2>3. \A f \in Elem, l \in Number : f # e \/ l # k => NoneOf(at(f, l), c)
      BY <1>2, <2>1
    <2>4. h \in InReducers /\ c \in h.parts
      BY <1>1, <2>2
    <2>5. \A x \in InReducers : c \in x.parts => x = h
      BY <1>1, <2>2, <2>3 DEF NoneOf
    <2> QED
      BY <2>4, <2>5 DEF OneOf
  <1> QED
    BY <1>3, <1>4

LEMMA BuffersHeld ==
    ASSUME TypeOK, NEW c
    PROVE  /\ NoBuffer(buffers, c) => NoneOf(InBuffers, c)
           /\ OneBuffer(buffers, c) => OneOf(InBuffers, c)
  <1> DEFINE at(p, e) == Held(<<"buffer", p, e>>, buffers[p][e])
  <1>1. InBuffers = UNION {at(p, e) : p \in PE, e \in Elem}
    BY DEF InBuffers
  <1>2. \A p \in PE, e \in Elem :
           /\ NoHit(buffers[p][e], Has(c)) => NoneOf(at(p, e), c)
           /\ OneHit(buffers[p][e], Has(c)) => OneOf(at(p, e), c)
    BY HeldHits DEF TypeOK
  <1> HIDE DEF at
  <1>3. NoBuffer(buffers, c) => NoneOf(InBuffers, c)
    BY <1>1, <1>2 DEF NoBuffer, NoneOf
  <1>4. ASSUME OneBuffer(buffers, c)
        PROVE  OneOf(InBuffers, c)
    <2>1. PICK p \in PE, e \in Elem :
             /\ OneHit(buffers[p][e], Has(c))
             /\ \A q \in PE, f \in Elem : q # p \/ f # e => NoHit(buffers[q][f], Has(c))
      BY <1>4 DEF OneBuffer
    <2>2. PICK h \in at(p, e) : {x \in at(p, e) : c \in x.parts} = {h}
      BY <1>2, <2>1 DEF OneOf
    <2>3. \A q \in PE, f \in Elem : q # p \/ f # e => NoneOf(at(q, f), c)
      BY <1>2, <2>1
    <2>4. h \in InBuffers /\ c \in h.parts
      BY <1>1, <2>2
    <2>5. \A x \in InBuffers : c \in x.parts => x = h
      BY <1>1, <2>2, <2>3 DEF NoneOf
    <2> QED
      BY <2>4, <2>5 DEF OneOf
  <1> QED
    BY <1>3, <1>4

LEMMA PhasesHeld ==
    ASSUME TypeOK, NEW c
    PROVE  /\ NoPhase(collective_buffer, c) => NoneOf(InPhases, c)
           /\ OnePhase(collective_buffer, c) => OneOf(InPhases, c)
  <1> DEFINE at(p) == Held(<<"phase", p>>, collective_buffer[p])
  <1>1. InPhases = UNION {at(p) : p \in PE}
    BY DEF InPhases
  <1>2. \A p \in PE : /\ NoHit(collective_buffer[p], Has(c)) => NoneOf(at(p), c)
                      /\ OneHit(collective_buffer[p], Has(c)) => OneOf(at(p), c)
    BY HeldHits DEF TypeOK
  <1> HIDE DEF at
  <1>3. NoPhase(collective_buffer, c) => NoneOf(InPhases, c)
    BY <1>1, <1>2 DEF NoPhase, NoneOf
  <1>4. ASSUME OnePhase(collective_buffer, c)
        PROVE  OneOf(InPhases, c)
    <2>1. PICK p \in PE : /\ OneHit(collective_buffer[p], Has(c))
                          /\ \A q \in PE \ {p} : NoHit(collective_buffer[q], Has(c))
      BY <1>4 DEF OnePhase
    <2>2. PICK h \in at(p) : {x \in at(p) : c \in x.parts} = {h}
      BY <1>2, <2>1 DEF OneOf
    <2>3. \A q \in PE \ {p} : NoneOf(at(q), c)
      BY <1>2, <2>1
    <2>4. h \in InPhases /\ c \in h.parts
      BY <1>1, <2>2
    <2>5. \A x \in InPhases : c \in x.parts => x = h
      BY <1>1, <2>2, <2>3 DEF NoneOf
    <2> QED
      BY <2>4, <2>5 DEF OneOf
  <1> QED
    BY <1>3, <1>4

LEMMA TogetherHeld ==
    ASSUME NEW a, NEW b, NEW c
    PROVE  /\ NoneOf(a, c) /\ NoneOf(b, c) => NoneOf(a \cup b, c)
           /\ OneOf(a, c) /\ NoneOf(b, c) => OneOf(a \cup b, c)
           /\ NoneOf(a, c) /\ OneOf(b, c) => OneOf(a \cup b, c)
  <1>1. {h \in a \cup b : c \in h.parts}
           = {h \in a : c \in h.parts} \cup {h \in b : c \in h.parts}
    OBVIOUS
  <1> QED
    BY <1>1 DEF NoneOf, OneOf

LEMMA ConservedImplies == TypeOK /\ Conserved => ContributionConserved
  <1> SUFFICES ASSUME TypeOK, Conserved, NEW c \in Contribution
               PROVE  Cardinality({h \in Holdings : c \in h.parts})
                         = IF c \in made THEN 1 ELSE 0
    BY DEF ContributionConserved
  <1> DEFINE a == InNet \cup InReducers
             b == a \cup InBuffers
             d == b \cup InPhases
             hs == d \cup InResults
  <1>1. Holdings = hs
    BY DEF Holdings, InNet, InReducers, InBuffers, InPhases, InResults
  <1>2. /\ NoneOf(InNet, c) /\ NoneOf(InReducers, c) => NoneOf(a, c)
        /\ OneOf(InNet, c) /\ NoneOf(InReducers, c) => OneOf(a, c)
        /\ NoneOf(InNet, c) /\ OneOf(InReducers, c) => OneOf(a, c)
    BY TogetherHeld
  <1> HIDE DEF a
  <1>3. /\ NoneOf(a, c) /\ NoneOf(InBuffers, c) => NoneOf(b, c)
        /\ OneOf(a, c) /\ NoneOf(InBuffers, c) => OneOf(b, c)
        /\ NoneOf(a, c) /\ OneOf(InBuffers, c) => OneOf(b, c)
    BY TogetherHeld
  <1> HIDE DEF b
  <1>4. /\ NoneOf(b, c) /\ NoneOf(InPhases, c) => NoneOf(d, c)
        /\ OneOf(b, c) /\ NoneOf(InPhases, c) => OneOf(d, c)
        /\ NoneOf(b, c) /\ OneOf(InPhases, c) => OneOf(d, c)
    BY TogetherHeld
  <1> HIDE DEF d
  <1>5. /\ NoneOf(d, c) /\ NoneOf(InResults, c) => NoneOf(hs, c)
        /\ OneOf(d, c) /\ NoneOf(InResults, c) => OneOf(hs, c)
        /\ NoneOf(d, c) /\ OneOf(InResults, c) => OneOf(hs, c)
    BY TogetherHeld
  <1> HIDE DEF hs
  <1>6. CASE c \notin made
    <2>1. Nowhere(net, results, received, buffers, collective_buffer, c)
      BY <1>6 DEF Conserved
    <2>2. NoneOf(hs, c)
      BY <1>2, <1>3, <1>4, <1>5, <2>1, NetHeld, ReducersHeld, BuffersHeld, PhasesHeld,
         ResultsHeld DEF Nowhere
    <2>3. {h \in Holdings : c \in h.parts} = {}
      BY <1>1, <2>2 DEF NoneOf
    <2> QED
      BY <1>6, <2>3, FS_EmptySet
  <1>7. CASE c \in made
    <2>1. Once(net, results, received, buffers, collective_buffer, c)
      BY <1>7 DEF Conserved
    <2>2. OneOf(hs, c)
      BY <1>2, <1>3, <1>4, <1>5, <2>1, NetHeld, ReducersHeld, BuffersHeld, PhasesHeld,
         ResultsHeld DEF Once
    <2>3. PICK x : {h \in Holdings : c \in h.parts} = {x}
      BY <1>1, <2>2 DEF OneOf
    <2> QED
      BY <1>7, <2>3, FS_Singleton
  <1> QED
    BY <1>6, <1>7

(* A contribution that was made is always in exactly one message, reducer, *)
(* buffer or result, for every spanning tree, every tag and every order of *)
(* migrations, the end of the insertion phase included: no step drops or   *)
(* repeats one (chare.hpp:120 keeps a chare where its reducers hold        *)
(* messages; collection.hpp:282).                                          *)
THEOREM ContributionsConserved == Spec => []ContributionConserved
  <1>1. TypeOK /\ Conserved /\ [Next]_vars => (TypeOK /\ Conserved)'
    BY TypeStep, ConservedStep
  <1> QED
    BY TypeInit, ConservedInit, <1>1, ConservedImplies, PTL DEF Spec

-----------------------------------------------------------------------------
(* The spanning tree.  Under(e) is what lies below e, with e itself: the   *)
(* least set of elements with e and, with any element, its children.       *)

Closed(S) == \A g \in S : children(g) \subseteq S
Under(e) == {f \in Elem : \A S \in SUBSET Elem : e \in S /\ Closed(S) => f \in S}

(* Every element is below the root, as the tree builder leaves them *)
Spanning == Under(root) = Elem

LEMMA UnderSelf ==
    ASSUME NEW e \in Elem
    PROVE  e \in Under(e) /\ Closed(Under(e)) /\ Under(e) \in SUBSET Elem
  <1>1. e \in Under(e) /\ Under(e) \in SUBSET Elem
    BY DEF Under
  <1>2. ASSUME NEW g \in Under(e), NEW f \in children(g)
        PROVE  f \in Under(e)
    <2>1. f \in Elem
      BY DEF children
    <2>2. \A S \in SUBSET Elem : e \in S /\ Closed(S) => f \in S
      BY DEF Under, Closed
    <2> QED
      BY <2>1, <2>2 DEF Under
  <1> QED
    BY <1>1, <1>2 DEF Closed

(* What is under a chare is the chare itself and what is under a child *)
LEMMA UnderIs ==
    ASSUME NEW e \in Elem
    PROVE  Under(e) = {e} \cup (UNION {Under(f) : f \in children(e)})
  <1> DEFINE T == {e} \cup (UNION {Under(f) : f \in children(e)})
  <1>1. children(e) \in SUBSET Elem
    BY DEF children
  <1>2. T \in SUBSET Elem /\ e \in T
    BY <1>1, UnderSelf
  <1>3. Closed(T)
    <2> SUFFICES ASSUME NEW g \in T, NEW f \in children(g)
                 PROVE  f \in T
      BY DEF Closed
    <2>1. CASE g = e
      BY <1>1, <2>1, UnderSelf
    <2>2. CASE g # e
      <3>1. PICK h \in children(e) : g \in Under(h)
        BY <2>2
      <3>2. f \in Under(h)
        BY <1>1, <3>1, UnderSelf DEF Closed
      <3> QED
        BY <3>1, <3>2
    <2> QED
      BY <2>1, <2>2
  <1>4. Under(e) \subseteq T
    <2> HIDE DEF T
    <2> QED
      BY <1>2, <1>3 DEF Under
  <1>5. ASSUME NEW f \in children(e)
        PROVE  Under(f) \subseteq Under(e)
    BY DEF Under, Closed
  <1> QED
    BY <1>4, <1>5, UnderSelf

(* In a tree that spans the chares, none is its own child *)
LEMMA NotOwnChild ==
    ASSUME Spanning, NEW e \in Elem
    PROVE  e \notin children(e)
  <1> SUFFICES ASSUME e \in children(e)
               PROVE  FALSE
    OBVIOUS
  <1> DEFINE S == Elem \ {e}
  <1>1. e # root /\ parent[e] = e
    BY DEF children
  <1>2. Closed(S)
    BY <1>1 DEF Closed, children
  <1>3. root \in S /\ S \in SUBSET Elem
    BY <1>1, ReductionAssumption
  <1>4. e \in Under(root)
    BY DEF Spanning
  <1>5. e \in S
    <2> HIDE DEF S
    <2> QED
      BY <1>2, <1>3, <1>4 DEF Under
  <1> QED
    BY <1>5

-----------------------------------------------------------------------------
(* A message whose parts belong together: the contribution of the chare it *)
(* is for, or those of all chares under one of its children; all to the    *)
(* reduction of its continuation, whose number it has.                     *)

FromSelf(m) == m.parts = {<<m.idx, m.cont>>}
FromChild(m, f) == f \in children(m.idx) /\ m.parts = Under(f) \X {m.cont}
Good == {m \in Messages : /\ m.redn = number(m.cont)
                          /\ FromSelf(m) \/ \E f \in Elem : FromChild(m, f)}
GoodFor(e, k) == {m \in Good : m.idx = e /\ m.redn = k}

(* The chare a message comes from *)
From(m, f) == (f = m.idx /\ FromSelf(m)) \/ FromChild(m, f)

(* What a reducer may hold while one reduction at a time has its number *)
Together(e, k, got) ==
    /\ got \in Seq(GoodFor(e, k))
    /\ \A i, j \in DOMAIN got : got[i].cont = got[j].cont
    /\ \A c \in Contribution : NoHit(got, Has(c)) \/ OneHit(got, Has(c))

LEMMA OwnIsGood ==
    ASSUME NEW e \in Elem, NEW r \in Redn
    PROVE  Own(e, r) \in Good
  BY DEF Own, Message, Good, Messages, Number, Contribution, FromSelf

LEMMA GoodFrom ==
    ASSUME NEW e \in Elem, NEW k \in Number, NEW m \in GoodFor(e, k)
    PROVE  /\ m \in Messages /\ m.idx = e /\ m.cont \in Redn /\ number(m.cont) = k
           /\ \E f \in {e} \cup children(e) : From(m, f)
           /\ \A f \in {e} \cup children(e) : From(m, f) => m \in Has(<<f, m.cont>>)
  <1>1. m \in Messages /\ m \in Good /\ m.idx = e /\ m.cont \in Redn /\ number(m.cont) = k
    BY DEF GoodFor, Good, Messages
  <1>2. \E f \in {e} \cup children(e) : From(m, f)
    BY <1>1 DEF Good, From, FromSelf, FromChild
  <1>3. ASSUME NEW f \in {e} \cup children(e), From(m, f)
        PROVE  <<f, m.cont>> \in m.parts
    <2>1. f \in Elem
      BY DEF children
    <2> QED
      BY <1>1, <1>3, <2>1, UnderSelf DEF From, FromSelf, FromChild
  <1> QED
    BY <1>1, <1>2, <1>3 DEF Has

(* Such messages come from different chares: there are never more of them  *)
(* than the reducer waits for, and when they are as many, they bring what  *)
(* is under the chare.                                                     *)
LEMMA TogetherFacts ==
    ASSUME Spanning, NEW e \in Elem, NEW k \in Number, NEW got, Together(e, k, got)
    PROVE  /\ Len(got) <= expected(e)
           /\ Len(got) = expected(e) =>
                 \A i \in DOMAIN got :
                    UNION {got[j].parts : j \in DOMAIN got} = Under(e) \X {got[i].cont}
  <1> DEFINE n == Len(got)
             T == {e} \cup children(e)
             from == [i \in 1 .. n |-> CHOOSE f \in T : From(got[i], f)]
  <1>1. /\ got \in Seq(GoodFor(e, k)) /\ n \in Nat /\ DOMAIN got = 1 .. n
        /\ \A i \in 1 .. n : got[i] \in GoodFor(e, k)
    <2>1. got \in Seq(GoodFor(e, k))
      BY DEF Together
    <2> QED
      BY <2>1, LenProperties, ElementOfSeq
  <1>2. /\ IsFiniteSet(T) /\ Cardinality(T) = expected(e)
    <2>1. children(e) \in SUBSET Elem
      BY DEF children
    <2>2. IsFiniteSet(children(e)) /\ e \notin children(e)
      BY <2>1, ReductionAssumption, FS_Subset, NotOwnChild
    <2> QED
      BY <2>2, FS_AddElement DEF expected
  <1>3. IsFiniteSet(1 .. n) /\ Cardinality(1 .. n) = n
    <2> HIDE DEF n
    <2>1. /\ IsFiniteSet(1 .. n)
          /\ Cardinality(1 .. n) = IF 1 > n THEN 0 ELSE n - 1 + 1
      BY <1>1, FS_Interval
    <2> QED
      BY <1>1, <2>1
  <1> HIDE DEF n, T
  <1>4. \A i \in 1 .. n : from[i] \in T /\ From(got[i], from[i])
    <2> SUFFICES ASSUME NEW i \in 1 .. n
                 PROVE  from[i] \in T /\ From(got[i], from[i])
      OBVIOUS
    <2>1. \E f \in T : From(got[i], f)
      BY <1>1, GoodFrom DEF T
    <2> QED
      BY <2>1
  <1>5. from \in [1 .. n -> T]
    BY <1>4
  <1> HIDE DEF from
  <1>6. ASSUME NEW i \in 1 .. n, NEW j \in 1 .. n, from[i] = from[j]
        PROVE  i = j
    <2> DEFINE c == <<from[i], got[i].cont>>
    <2>1. /\ got[i] \in Has(c)
          /\ got[j] \in Has(<<from[j], got[j].cont>>)
          /\ got[i].cont \in Redn
      BY <1>1, <1>4, GoodFrom DEF T
    <2>2. got[j].cont = got[i].cont
      BY <1>1 DEF Together
    <2>3. got[j] \in Has(c)
      BY <1>6, <2>1, <2>2
    <2>4. c \in Contribution
      BY <1>4, <2>1 DEF Contribution, T, children
    <2> HIDE DEF c
    <2>5. NoHit(got, Has(c)) \/ OneHit(got, Has(c))
      BY <2>4 DEF Together
    <2> QED
      BY <1>1, <2>1, <2>3, <2>5 DEF NoHit, OneHit, Hits
  <1>7. from \in Injection(1 .. n, T)
    BY <1>5, <1>6 DEF Injection, IsInjective
  <1>8. n <= expected(e) /\ (n = expected(e) => from \in Surjection(1 .. n, T))
    BY <1>2, <1>3, <1>7, FS_Injection
  <1>9. ASSUME n = expected(e), NEW i \in DOMAIN got
        PROVE  UNION {got[j].parts : j \in DOMAIN got} = Under(e) \X {got[i].cont}
    <2> DEFINE r == got[i].cont
               all == UNION {got[j].parts : j \in DOMAIN got}
    <2>1. \A j \in 1 .. n : got[j].cont = r /\ got[j].idx = e
      BY <1>1, <1>9, GoodFrom DEF Together
    <2>2. \A f \in T : \E j \in 1 .. n : from[j] = f
      BY <1>8, <1>9 DEF Surjection
    <2> HIDE DEF r
    <2>3. \A j \in 1 .. n : \/ from[j] = e /\ got[j].parts = {<<e, r>>}
                            \/ from[j] \in children(e)
                               /\ got[j].parts = Under(from[j]) \X {r}
      BY <1>4, <2>1 DEF From, FromSelf, FromChild
    <2>4. Under(e) = {e} \cup (UNION {Under(f) : f \in children(e)})
      BY UnderIs
    <2>5. e \notin children(e)
      BY NotOwnChild
    <2>6. \A j \in 1 .. n : got[j].parts \subseteq Under(e) \X {r}
      BY <2>3, <2>4
    <2>7. ASSUME NEW g \in Under(e)
          PROVE  \E j \in 1 .. n : <<g, r>> \in got[j].parts
      <3>1. CASE g = e
        <4>1. PICK j \in 1 .. n : from[j] = e
          BY <2>2 DEF T
        <4> QED
          BY <2>3, <2>5, <3>1, <4>1
      <3>2. CASE g # e
        <4>1. PICK f \in children(e) : g \in Under(f)
          BY <2>4, <3>2
        <4>2. PICK j \in 1 .. n : from[j] = f
          BY <2>2 DEF T
        <4> QED
          BY <2>3, <2>5, <4>1, <4>2
      <3> QED
        BY <3>1, <3>2
    <2> QED
      BY <1>1, <2>6, <2>7 DEF r
  <1> QED
    BY <1>8, <1>9 DEF n

(* What is under chare e contributed to reduction s *)
WholeOf(m, e, s) == m = Message(e, number(s), Under(e) \X {s}, s)
PartsOf(got) == UNION {got[j].parts : j \in DOMAIN got}

(* What a reducer that is full makes of them *)
LEMMA TogetherCompletes ==
    ASSUME Spanning, NEW e \in Elem, NEW k \in Number, NEW got, Together(e, k, got),
           NEW d \in Complete(e, k, got)
    PROVE  /\ Len(got) = expected(e)
           /\ \E i \in DOMAIN got :
                 /\ got[i].cont \in Redn /\ number(got[i].cont) = k
                 /\ WholeOf(d, e, got[i].cont)
           /\ d.parts = PartsOf(got)
  <1> DEFINE n == Len(got)
             x == expected(e)
             q == Rounds(e, got)
             a == q * x
             Rd(i) == Round(e, got, i)
  <1>1. /\ got \in Seq(GoodFor(e, k)) /\ DOMAIN got = 1 .. n
        /\ \A i \in 1 .. n : got[i] \in GoodFor(e, k)
    <2>1. got \in Seq(GoodFor(e, k))
      BY DEF Together
    <2> QED
      BY <2>1, LenProperties, ElementOfSeq
  <1>2. /\ n \in Nat /\ x \in Nat \ {0} /\ q \in Nat /\ a \in Nat /\ a <= n
        /\ \A i \in 1 .. q :
              /\ (i - 1) * x \in Nat /\ (i - 1) * x + x <= a
              /\ Rd(i) \in Seq(GoodFor(e, k)) /\ DOMAIN Rd(i) = 1 .. x
              /\ \A j \in 1 .. x : Rd(i)[j] = got[(i - 1) * x + j]
    <2> DEFINE R == GoodFor(e, k)
    <2>1. got \in Seq(R)
      BY <1>1
    <2> HIDE DEF R
    <2>2. /\ n \in Nat /\ x \in Nat \ {0} /\ q \in Nat /\ a \in Nat /\ a <= n
          /\ \A i \in 1 .. q :
                /\ (i - 1) * x \in Nat /\ (i - 1) * x + x <= a
                /\ Rd(i) \in Seq(R) /\ DOMAIN Rd(i) = 1 .. x
                /\ \A j \in 1 .. x : Rd(i)[j] = got[(i - 1) * x + j]
      BY <2>1, RoundFacts
    <2> QED
      BY <2>2 DEF R
  <1>3. PICK i \in 1 .. q : d = combined(e, k, Rd(i))
    BY DEF Complete
  <1>4. n <= x
    BY TogetherFacts
  <1> DEFINE b == (i - 1) * x
             s == Rd(i)
  <1>5. /\ b \in Nat /\ b + x <= a
        /\ s \in Seq(GoodFor(e, k)) /\ DOMAIN s = 1 .. x
        /\ \A j \in 1 .. x : s[j] = got[b + j]
    BY <1>2
  <1>6. n = x /\ s = got
    <2> HIDE DEF n, x, q, a, b, s
    <2>1. n = x /\ b = 0
      BY <1>2, <1>4, <1>5
    <2>2. \A j \in 1 .. n : s[j] = got[j]
      BY <1>2, <1>5, <2>1
    <2>3. Len(s) = n
      BY <1>2, <1>5, <2>1, LenProperties
    <2>4. s = got
      BY <1>1, <1>5, <2>2, <2>3, SeqEqual DEF n
    <2> QED
      BY <2>1, <2>4
  <1>7. /\ n \in 1 .. n /\ Last(got) = got[n]
        /\ got[n] \in GoodFor(e, k)
    <2>1. n \in 1 .. n
      <3> HIDE DEF n, x
      <3> QED
        BY <1>2, <1>6
    <2> QED
      BY <1>1, <2>1 DEF Last
  <1>8. d = Message(e, k, PartsOf(got), got[n].cont)
    BY <1>3, <1>6, <1>7 DEF combined, PartsOf
  <1>9. PartsOf(got) = Under(e) \X {got[n].cont}
    BY <1>1, <1>6, <1>7, TogetherFacts DEF PartsOf
  <1>10. got[n].cont \in Redn /\ number(got[n].cont) = k
    BY <1>7, GoodFrom
  <1>11. d.parts = PartsOf(got) /\ WholeOf(d, e, got[n].cont)
    BY <1>8, <1>9, <1>10 DEF Message, WholeOf
  <1> QED
    BY <1>1, <1>6, <1>7, <1>10, <1>11

(* What is picked is of the kind it is picked for *)
LEMMA PickedIn ==
    ASSUME NEW S, NEW ms \in Seq(S), NEW I, NEW R,
           \A i \in DOMAIN ms : i \in I => ms[i] \in R
    PROVE  Picked(ms, I) \in Seq(R)
  <1> DEFINE ss == [i \in DOMAIN ms |-> IF i \in I THEN <<ms[i]>> ELSE <<>>]
             n == Len(ms)
  <1>1. n \in Nat /\ DOMAIN ms = 1 .. n
    BY LenProperties
  <1> HIDE DEF n
  <1>2. \A i \in 1 .. n : (IF i \in I THEN <<ms[i]>> ELSE <<>>) \in Seq(R)
    <2> SUFFICES ASSUME NEW i \in 1 .. n
                 PROVE  (IF i \in I THEN <<ms[i]>> ELSE <<>>) \in Seq(R)
      OBVIOUS
    <2>1. CASE i \in I
      <3>1. ms[i] \in R
        BY <1>1, <2>1
      <3> QED
        BY <2>1, <3>1
    <2>2. CASE i \notin I
      BY <2>2, EmptySeq
    <2> QED
      BY <2>1, <2>2
  <1>3. ss \in [1 .. n -> Seq(R)]
    BY <1>1, <1>2
  <1>4. Picked(ms, I) = FlattenSeq(ss)
    BY DEF Picked
  <1> HIDE DEF ss
  <1> QED
    BY <1>1, <1>3, <1>4, FlattenType

-----------------------------------------------------------------------------
(* Reductions with one number do not overlap.  A reduction is pending when *)
(* a chare has contributed and there is no result.                         *)

Begun(ms, r) == \E e \in Elem : <<e, r>> \in ms
Ended(xs, r) == \E x \in xs : x.to = r
Pending(ms, xs, r) == Begun(ms, r) /\ ~Ended(xs, r)
Apart(ms, xs) ==
    \A r, s \in Redn : /\ Pending(ms, xs, r) /\ Pending(ms, xs, s)
                       /\ number(r) = number(s)
                       => r = s

(* The step begins no reduction while another with its number is pending   *)
OneAtATime ==
    \A c \in made' \ made : \A r \in Redn \ {c[2]} :
        number(r) = number(c[2]) /\ Begun(made, r) => Ended(results, r)

LEMMA StayApart ==
    ASSUME TypeOK, Apart(made, results), OneAtATime,
           \/ made' = made
           \/ \E e \in Elem, r \in Redn : made' = made \cup {<<e, r>>}
    PROVE  Apart(made', results)
  <1> SUFFICES ASSUME NEW r \in Redn, NEW s \in Redn, r # s,
                      Pending(made', results, r), Pending(made', results, s),
                      number(r) = number(s)
               PROVE  FALSE
    BY DEF Apart
  <1>1. CASE made' = made
    BY <1>1 DEF Apart, Pending, Begun
  <1>2. ASSUME NEW e \in Elem, NEW t \in Redn, made' = made \cup {<<e, t>>},
               <<e, t>> \notin made
        PROVE  FALSE
    <2>1. <<e, t>> \in made' \ made /\ <<e, t>>[2] = t
      BY <1>2
    <2>2. \A u \in Redn \ {t} : Begun(made', u) => Begun(made, u)
      BY <1>2 DEF Begun
    <2>3. \A u \in Redn \ {t} : number(u) = number(t) /\ Begun(made, u)
                                   => Ended(results, u)
      BY <2>1 DEF OneAtATime
    <2>4. CASE r = t \/ s = t
      BY <2>2, <2>3, <2>4 DEF Pending
    <2>5. CASE r # t /\ s # t
      BY <2>2, <2>5 DEF Pending, Apart
    <2> QED
      BY <2>4, <2>5
  <1> QED
    BY <1>1, <1>2

-----------------------------------------------------------------------------
(* Where good messages are: those in a reducer are for it, and it is not   *)
(* full.                                                                   *)
Placed ==
    /\ AllIn(Good)
    /\ \A e \in Elem, k \in Number :
          received[e][k] \in Seq(GoodFor(e, k)) /\ Len(received[e][k]) < expected(e)

LEMMA GoodSeq ==
    ASSUME NEW ms \in Seq(Good)
    PROVE  ms \in Seq(Messages)
  <1>1. \A i \in 1 .. Len(ms) : ms[i] \in Messages
    BY LenProperties, ElementOfSeq DEF Good
  <1> QED
    BY <1>1, LenProperties, FunctionIsSeq

(* A contribution that meets others in a reducer meets them once, and has  *)
(* not been in a result.                                                   *)
LEMMA MeetsOnce ==
    ASSUME TypeOK, NEW p \in PE, NEW ms \in Seq(Messages), NEW packs,
           NEW old, NEW phase, InHand(p, ms, packs, old, phase),
           NEW e \in Elem, NEW k \in Number, NEW c \in Contribution
    PROVE  \/ NoHit(Meets(e, k, ms), Has(c))
           \/ OneHit(Meets(e, k, ms), Has(c)) /\ c \in made' /\ NoResult(results, c)
  <1> DEFINE met == {i \in DOMAIN ms : ms[i].idx = e /\ ms[i].redn = k}
             base == [buffers EXCEPT ![p] = old]
             got == Meets(e, k, ms)
             T == Has(c)
  <1>1. IF c \in made'
        THEN \/ Once(packs, results, received, base, phase, c) /\ NoHit(ms, T)
             \/ Nowhere(packs, results, received, base, phase, c) /\ OneHit(ms, T)
        ELSE Nowhere(packs, results, received, base, phase, c) /\ NoHit(ms, T)
    BY DEF InHand
  <1>2. met \subseteq DOMAIN ms
    OBVIOUS
  <1>3. /\ NoHit(received[e][k], T) /\ (\A i \in met : ms[i] \notin T) => NoHit(got, T)
        /\ OneHit(received[e][k], T) /\ (\A i \in met : ms[i] \notin T) => OneHit(got, T)
        /\ \A i \in met : NoHit(received[e][k], T) /\ Hits(ms, T) = {i} => OneHit(got, T)
    BY MeetsHits
  <1> HIDE DEF met, got, T, base
  <1>4. NoHit(ms, T) => \A i \in met : ms[i] \notin T
    BY <1>2 DEF NoHit, Hits
  <1>5. OneHit(ms, T) => \/ \A i \in met : ms[i] \notin T
                         \/ \E i \in met : Hits(ms, T) = {i}
    BY <1>2 DEF OneHit, Hits
  <1>6. NoReducer(received, c) => NoHit(received[e][k], T)
    BY DEF NoReducer, T
  <1>7. OneReducer(received, c) => NoHit(received[e][k], T) \/ OneHit(received[e][k], T)
    BY DEF OneReducer, T
  <1>8. Nowhere(packs, results, received, base, phase, c)
           => NoHit(received[e][k], T) /\ NoResult(results, c)
    BY <1>6 DEF Nowhere
  <1>9. Once(packs, results, received, base, phase, c)
           => \/ NoHit(received[e][k], T)
              \/ OneHit(received[e][k], T) /\ NoResult(results, c)
    BY <1>6, <1>7 DEF Once
  <1> QED
    BY <1>1, <1>3, <1>4, <1>5, <1>8, <1>9 DEF got, T

LEMMA MeetsTogether ==
    ASSUME TypeOK, Placed, ResultsWhole, Apart(made', results),
           NEW p \in PE, NEW ms \in Seq(Good), NEW packs, NEW old, NEW phase,
           InHand(p, ms, packs, old, phase), NEW e \in Elem, NEW k \in Number
    PROVE  /\ Together(e, k, Meets(e, k, ms))
           /\ \A i \in DOMAIN Meets(e, k, ms) : \A c \in Meets(e, k, ms)[i].parts :
                 c \in Contribution /\ c \in made' /\ NoResult(results, c)
  <1> DEFINE got == Meets(e, k, ms)
             picked == Picked(ms, {i \in DOMAIN ms : ms[i].idx = e /\ ms[i].redn = k})
  <1>1. DOMAIN ms = 1 .. Len(ms) /\ \A i \in DOMAIN ms : ms[i] \in Good
    BY LenProperties, ElementOfSeq
  <1>2. picked \in Seq(GoodFor(e, k))
    <2>1. \A i \in DOMAIN ms : i \in {j \in DOMAIN ms : ms[j].idx = e /\ ms[j].redn = k}
                                  => ms[i] \in GoodFor(e, k)
      BY <1>1 DEF GoodFor
    <2> QED
      BY <2>1, PickedIn
  <1>3. got = received[e][k] \o picked
    BY DEF Meets
  <1> HIDE DEF picked
  <1>4. got \in Seq(GoodFor(e, k))
    BY <1>2, <1>3, ConcatProperties DEF Placed
  <1>5. DOMAIN got = 1 .. Len(got) /\ \A i \in DOMAIN got : got[i] \in GoodFor(e, k)
    <2> HIDE DEF got
    <2> QED
      BY <1>4, LenProperties, ElementOfSeq
  <1>6. ms \in Seq(Messages)
    BY GoodSeq
  <1>7. \A c \in Contribution :
           \/ NoHit(got, Has(c))
           \/ OneHit(got, Has(c)) /\ c \in made' /\ NoResult(results, c)
    BY <1>6, MeetsOnce
  <1> HIDE DEF got
  <1>8. ASSUME NEW i \in DOMAIN got, NEW c \in got[i].parts
        PROVE  c \in Contribution /\ c \in made' /\ NoResult(results, c)
    <2>1. got[i] \in Messages
      BY <1>5, GoodFrom
    <2>2. c \in Contribution /\ got[i] \in Has(c)
      BY <2>1 DEF Messages, Has
    <2>3. ~NoHit(got, Has(c))
      BY <2>2 DEF NoHit, Hits
    <2> QED
      BY <1>7, <2>2, <2>3
  <1>9. \A i \in DOMAIN got : /\ got[i].cont \in Redn /\ number(got[i].cont) = k
                              /\ Pending(made', results, got[i].cont)
    <2> SUFFICES ASSUME NEW i \in DOMAIN got
                 PROVE  /\ got[i].cont \in Redn /\ number(got[i].cont) = k
                        /\ Pending(made', results, got[i].cont)
      OBVIOUS
    <2>1. /\ got[i].cont \in Redn /\ number(got[i].cont) = k
          /\ \E f \in {e} \cup children(e) : From(got[i], f)
          /\ \A f \in {e} \cup children(e) :
                From(got[i], f) => got[i] \in Has(<<f, got[i].cont>>)
      BY <1>5, GoodFrom
    <2>2. PICK f \in {e} \cup children(e) : got[i] \in Has(<<f, got[i].cont>>)
      BY <2>1
    <2>3. f \in Elem /\ <<f, got[i].cont>> \in got[i].parts
      BY <2>2 DEF Has, children
    <2>4. /\ <<f, got[i].cont>> \in made' /\ NoResult(results, <<f, got[i].cont>>)
      BY <1>8, <2>3
    <2>5. Begun(made', got[i].cont)
      BY <2>3, <2>4 DEF Begun
    <2>6. ASSUME NEW x \in results, x.to = got[i].cont
          PROVE  FALSE
      <3>1. x.parts = Elem \X {x.to}
        BY DEF ResultsWhole
      <3>2. <<f, got[i].cont>> \in x.parts
        BY <2>3, <2>6, <3>1
      <3> QED
        BY <2>4, <3>2 DEF NoResult, ResultHits
    <2> QED
      BY <2>1, <2>5, <2>6 DEF Pending, Ended
  <1>10. \A i, j \in DOMAIN got : got[i].cont = got[j].cont
    BY <1>9 DEF Apart
  <1>11. Together(e, k, got)
    BY <1>4, <1>7, <1>10 DEF Together
  <1> QED
    BY <1>8, <1>11 DEF got

(* What a step completes is everything under a chare, for one reduction    *)
Filled(e, s, got) ==
    Len(got) = expected(e) /\ \A i \in DOMAIN got : got[i].cont = s

LEMMA DoneWhole ==
    ASSUME Spanning, TypeOK, Placed, ResultsWhole, Apart(made', results),
           NEW p \in PE, NEW ms \in Seq(Good), NEW packs, NEW old, NEW phase,
           InHand(p, ms, packs, old, phase), NEW m \in Done(p, ms)
    PROVE  \E f \in Elem, s \in Redn :
              /\ f \in chares'[p] /\ WholeOf(m, f, s)
              /\ \A g \in Under(f) : <<g, s>> \in made' /\ NoResult(results, <<g, s>>)
              /\ Filled(f, s, Meets(f, number(s), ms))
  <1>1. PICK f \in chares'[p] : \E k \in Number : m \in Complete(f, k, Meets(f, k, ms))
    BY DEF Done
  <1>2. PICK k \in Number : m \in Complete(f, k, Meets(f, k, ms))
    BY <1>1
  <1>3. f \in Elem
    BY DEF InHand
  <1> DEFINE got == Meets(f, k, ms)
  <1>4. /\ Together(f, k, got)
        /\ \A i \in DOMAIN got : \A c \in got[i].parts :
              c \in Contribution /\ c \in made' /\ NoResult(results, c)
    BY <1>3, MeetsTogether
  <1> HIDE DEF got
  <1>5. m \in Complete(f, k, got)
    BY <1>2 DEF got
  <1>6. /\ Len(got) = expected(f) /\ m.parts = PartsOf(got)
        /\ \E i \in DOMAIN got : /\ got[i].cont \in Redn /\ number(got[i].cont) = k
                                /\ WholeOf(m, f, got[i].cont)
    BY <1>3, <1>4, <1>5, TogetherCompletes
  <1>7. PICK i \in DOMAIN got : /\ got[i].cont \in Redn /\ number(got[i].cont) = k
                               /\ WholeOf(m, f, got[i].cont)
    BY <1>6
  <1> DEFINE s == got[i].cont
  <1>8. m.parts = Under(f) \X {s}
    BY <1>7 DEF Message, WholeOf
  <1>9. \A g \in Under(f) : <<g, s>> \in m.parts
    BY <1>8
  <1>10. \A j \in DOMAIN got : got[j].cont = s
    BY <1>4 DEF Together
  <1> HIDE DEF s
  <1>11. \A c \in m.parts : c \in made' /\ NoResult(results, c)
    <2> SUFFICES ASSUME NEW c \in m.parts
                 PROVE  c \in made' /\ NoResult(results, c)
      OBVIOUS
    <2>1. PICK j \in DOMAIN got : c \in got[j].parts
      BY <1>6 DEF PartsOf
    <2> QED
      BY <1>4, <2>1
  <1>12. s \in Redn /\ number(s) = k /\ WholeOf(m, f, s)
    BY <1>7 DEF s
  <1>13. Meets(f, number(s), ms) = got
    BY <1>12 DEF got
  <1>14. Filled(f, s, Meets(f, number(s), ms))
    BY <1>6, <1>10, <1>13 DEF Filled
  <1> QED
    BY <1>3, <1>9, <1>11, <1>12, <1>14

(* A combined message is good for the parent of its chare *)
LEMMA UpwardGood ==
    ASSUME NEW p, NEW f \in Elem, NEW s \in Redn, f # root,
           NEW m \in Messages, WholeOf(m, f, s)
    PROVE  Upward(p, m).msg \in Good
  <1> DEFINE up == Message(parent[f], number(s), Under(f) \X {s}, s)
  <1>1. [m EXCEPT !.idx = parent[m.idx]] = up
    <2>1. /\ m.idx = f /\ m.redn = number(s)
          /\ m.parts = Under(f) \X {s} /\ m.cont = s
      BY DEF Message, WholeOf
    <2> QED
      BY <2>1 DEF Message, Messages
  <1>2. Upward(p, m).msg = up
    BY <1>1 DEF Upward, Redux
  <1>3. parent[f] \in Elem /\ f \in children(parent[f])
    BY ReductionAssumption DEF children
  <1>4. Under(f) \in SUBSET Elem
    BY UnderSelf
  <1>5. up \in Messages
    BY <1>3, <1>4 DEF Message, Messages, Number, Contribution
  <1>6. /\ up.idx = parent[f] /\ up.cont = s /\ up.redn = number(s)
        /\ up.parts = Under(f) \X {s}
    BY DEF Message
  <1> HIDE DEF up
  <1>7. FromChild(up, f)
    BY <1>3, <1>6 DEF FromChild
  <1>8. up \in Good
    BY <1>5, <1>6, <1>7 DEF Good
  <1> QED
    BY <1>2, <1>8

(* A delivery of good messages leaves good messages *)
LEMMA PlacedDelivers ==
    ASSUME Spanning, TypeOK, Placed, ResultsWhole, Apart(made', results),
           NEW p \in PE, NEW ms \in Seq(Good), NEW packs,
           NEW old \in [Elem -> Seq(Good)], NEW phase \in [PE -> Seq(Good)],
           \A n \in packs : n.type = "redux" => n \in net,
           InHand(p, ms, packs, old, phase)
    PROVE  Placed'
  <1>1. \A I : Picked(ms, I) \in Seq(Good)
    <2> SUFFICES ASSUME NEW I
                 PROVE  Picked(ms, I) \in Seq(Good)
      OBVIOUS
    <2>1. \A i \in DOMAIN ms : i \in I => ms[i] \in Good
      BY LenProperties, ElementOfSeq
    <2> QED
      BY <2>1, PickedIn
  <1>2. \A n \in packs : n.type = "redux" => n.msg \in Good
    BY DEF Placed, AllIn
  <1>3. \A n \in Forwarded(p, ms) : n.msg \in Good
    <2>1. ToSet(ms) \subseteq Good
      BY LenProperties, ElementOfSeq DEF ToSet
    <2> QED
      BY <2>1 DEF Forwarded, Redux
  <1>4. buffers' \in [PE -> [Elem -> Seq(Good)]]
    <2>1. \A e \in Elem : old[e] \o Picked(ms, {i \in DOMAIN ms :
                              ms[i].idx = e /\ Waits(p, ms[i])}) \in Seq(Good)
      BY <1>1, ConcatProperties
    <2>2. buffers \in [PE -> [Elem -> Seq(Good)]]
      BY DEF Placed, AllIn
    <2> QED
      BY <2>1, <2>2 DEF InHand, Delivers, buffer_
  <1>5. CASE /\ collective_buffer' = [phase EXCEPT ![p] = @ \o Here(p, ms)]
             /\ net' = packs \cup Forwarded(p, ms)
             /\ UNCHANGED <<received, results>>
    <2>1. phase[p] \o Here(p, ms) \in Seq(Good)
      BY <1>1, ConcatProperties DEF Here
    <2>2. collective_buffer' \in [PE -> Seq(Good)]
      BY <1>5, <2>1
    <2>3. \A n \in net' : n.type = "redux" => n.msg \in Good
      BY <1>2, <1>3, <1>5
    <2>4. AllIn(Good)'
      <3>1. received' \in [Elem -> [Number -> Seq(Good)]]
        BY <1>5 DEF Placed, AllIn
      <3> QED
        BY <1>4, <2>2, <2>3, <3>1 DEF AllIn
    <2> QED
      BY <1>5, <2>4 DEF Placed
  <1>6. CASE /\ Reduce(p, ms, packs \cup Forwarded(p, ms))
             /\ collective_buffer' = phase
    <2>1. \A e \in Elem :
             received'[e] = IF e \in chares'[p]
                            THEN [k \in Number |-> Left(e, Meets(e, k, ms))]
                            ELSE IF e \in chares[p] THEN no_reducers ELSE received[e]
      BY <1>6, ReduceIs
    <2>2. ASSUME NEW e \in Elem, NEW k \in Number
          PROVE  /\ received'[e][k] \in Seq(GoodFor(e, k))
                 /\ Len(received'[e][k]) < expected(e)
      <3>1. CASE e \in chares'[p]
        <4> DEFINE got == Meets(e, k, ms)
                   left == Left(e, got)
                   R == GoodFor(e, k)
                   n == Len(got)
                   d == expected(e)
                   q == Rounds(e, got)
                   a == q * d
        <4>1. received'[e][k] = left
          BY <2>1, <3>1
        <4>2. Together(e, k, got)
          BY MeetsTogether
        <4>3. got \in Seq(R)
          <5> HIDE DEF got
          <5> QED
            BY <4>2 DEF Together
        <4> HIDE DEF got, R
        <4>4. /\ n \in Nat /\ d \in Nat \ {0} /\ a \in Nat /\ a <= n
              /\ left \in Seq(R) /\ DOMAIN left = 1 .. (n - a)
          BY <4>3, RoundFacts
        <4>5. n < a + d
          <5>1. n < (n \div d) * d + d
            BY <4>4, DivisionFacts
          <5> QED
            BY <5>1 DEF Rounds
        <4> HIDE DEF left, n, d, q, a
        <4>6. Len(left) = n - a
          <5> DEFINE z == n - a
          <5>1. z \in Nat /\ DOMAIN left = 1 .. z
            BY <4>4
          <5> HIDE DEF z
          <5>2. Len(left) \in Nat /\ DOMAIN left = 1 .. Len(left)
            BY <4>4, LenProperties
          <5>3. Len(left) = z
            BY <5>1, <5>2
          <5> QED
            BY <5>3 DEF z
        <4>7. Len(left) < d
          BY <4>4, <4>5, <4>6
        <4> QED
          BY <4>1, <4>4, <4>7 DEF R, d
      <3>2. CASE e \notin chares'[p] /\ e \in chares[p]
        <4>1. received'[e][k] = <<>>
          BY <2>1, <3>2 DEF no_reducers
        <4>2. expected(e) \in Nat \ {0}
          BY ExpectedType
        <4> QED
          BY <4>1, <4>2, EmptySeq
      <3>3. CASE e \notin chares'[p] /\ e \notin chares[p]
        <4>1. received'[e][k] = received[e][k]
          BY <2>1, <3>3
        <4> QED
          BY <4>1 DEF Placed
      <3> QED
        BY <3>1, <3>2, <3>3
    <2>3. received' \in [Elem -> [Number -> Seq(Good)]]
      <3>1. \A e \in Elem, k \in Number : received'[e][k] \in Seq(Good)
        <4> SUFFICES ASSUME NEW e \in Elem, NEW k \in Number
                     PROVE  received'[e][k] \in Seq(Good)
          OBVIOUS
        <4>1. GoodFor(e, k) \subseteq Good
          BY DEF GoodFor
        <4>2. received'[e][k] \in Seq(GoodFor(e, k))
          BY <2>2
        <4> HIDE DEF Placed
        <4> QED
          BY <4>1, <4>2, LenProperties, ElementOfSeq, FunctionIsSeq
      <3>2. \A e \in Elem : received'[e] = [k \in Number |-> received'[e][k]]
        <4> SUFFICES ASSUME NEW e \in Elem
                     PROVE  received'[e] = [k \in Number |-> received'[e][k]]
          OBVIOUS
        <4>1. received[e] = [k \in Number |-> received[e][k]]
          BY DEF TypeOK
        <4>2. no_reducers = [k \in Number |-> no_reducers[k]]
          BY DEF no_reducers
        <4> QED
          BY <2>1, <4>1, <4>2
      <3>3. received' = [e \in Elem |-> received'[e]]
        BY <1>6, ReduceIs
      <3>4. \A e \in Elem : received'[e] \in [Number -> Seq(Good)]
        BY <3>1, <3>2
      <3> QED
        BY <3>3, <3>4
    <2>4. ASSUME NEW n \in net', n.type = "redux"
          PROVE  n.msg \in Good
      <3>1. n \in packs \/ n \in Forwarded(p, ms)
            \/ \E m \in Done(p, ms) : m.idx # root /\ n = Upward(p, m)
        BY <1>6, ReduceIs
      <3>2. ASSUME NEW m \in Done(p, ms), m.idx # root, n = Upward(p, m)
            PROVE  n.msg \in Good
        <4>1. \E f \in Elem, s \in Redn : WholeOf(m, f, s)
          BY DoneWhole
        <4>2. PICK f \in Elem, s \in Redn : WholeOf(m, f, s)
          BY <4>1
        <4>3. m.idx = f
          BY <4>2 DEF Message, WholeOf
        <4>4. m \in Messages
          <5>1. ms \in Seq(Messages)
            BY GoodSeq
          <5>2. chares'[p] \subseteq Elem
            BY DEF InHand
          <5> QED
            BY <5>1, <5>2, DoneType
        <4> QED
          BY <3>2, <4>2, <4>3, <4>4, UpwardGood
      <3> QED
        BY <1>2, <1>3, <2>4, <3>1, <3>2
    <2>5. collective_buffer' \in [PE -> Seq(Good)]
      BY <1>6
    <2>6. AllIn(Good)'
      BY <1>4, <2>3, <2>4, <2>5 DEF AllIn
    <2> QED
      BY <2>2, <2>6 DEF Placed
  <1> QED
    BY <1>5, <1>6 DEF InHand, Delivers

-----------------------------------------------------------------------------
(* Seen from outside, a step is one of Gather *)

Gathering ==
    TypeOK /\ Conserved /\ Placed /\ Apart(made, results) /\ ResultsWhole

(* The reductions whose results a delivery of ms on p produces *)
Produced(p, ms) == {s \in Redn : \E m \in Done(p, ms) : WholeOf(m, root, s)}

LEMMA DoneProduces ==
    ASSUME Spanning, TypeOK, Placed, ResultsWhole, Apart(made', results),
           NEW p \in PE, NEW ms \in Seq(Good), NEW packs, NEW old, NEW phase,
           InHand(p, ms, packs, old, phase),
           results' = results \cup
              {Result(m) : m \in {d \in Done(p, ms) : d.idx = root}}
    PROVE  Abstract!Produces(Produced(p, ms))
  <1> DEFINE R == Produced(p, ms)
             roots == {d \in Done(p, ms) : d.idx = root}
  <1>1. ASSUME NEW m \in roots
        PROVE  \E s \in R : Result(m) = Abstract!Result(s)
    <2>1. m \in Done(p, ms) /\ m.idx = root
      OBVIOUS
    <2>2. \E f \in Elem, s \in Redn : WholeOf(m, f, s)
      BY <2>1, DoneWhole
    <2>3. PICK f \in Elem, s \in Redn : WholeOf(m, f, s)
      BY <2>2
    <2>4. f = root /\ m.cont = s /\ m.parts = Under(f) \X {s}
      BY <2>1, <2>3 DEF WholeOf, Message
    <2>5. s \in R
      BY <2>1, <2>3, <2>4 DEF Produced
    <2>6. Result(m) = Abstract!Result(s)
      BY <2>4 DEF Result, Spanning, Abstract!Result, Abstract!All
    <2> QED
      BY <2>5, <2>6
  <1>2. ASSUME NEW s \in R
        PROVE  /\ \E m \in roots : Result(m) = Abstract!Result(s)
               /\ Abstract!All(s) \subseteq made'
               /\ Abstract!Result(s) \notin results
    <2>1. PICK m \in Done(p, ms) : WholeOf(m, root, s)
      BY DEF Produced
    <2>2. s \in Redn
      BY DEF Produced
    <2>3. m.idx = root /\ m.cont = s /\ m.parts = Elem \X {s}
      BY <2>1 DEF WholeOf, Message, Spanning
    <2>4. m \in roots /\ Result(m) = Abstract!Result(s)
      BY <2>3 DEF Result, Abstract!Result, Abstract!All
    <2>5. \E f \in Elem, t \in Redn :
             /\ WholeOf(m, f, t)
             /\ \A g \in Under(f) : <<g, t>> \in made' /\ NoResult(results, <<g, t>>)
      BY DoneWhole
    <2>6. PICK f \in Elem, t \in Redn :
             /\ WholeOf(m, f, t)
             /\ \A g \in Under(f) : <<g, t>> \in made' /\ NoResult(results, <<g, t>>)
      BY <2>5
    <2>7. f = root /\ t = s
      BY <2>3, <2>6 DEF WholeOf, Message
    <2>8. \A g \in Elem : <<g, s>> \in made' /\ NoResult(results, <<g, s>>)
      BY <2>6, <2>7 DEF Spanning
    <2>9. Abstract!All(s) \subseteq made'
      BY <2>8 DEF Abstract!All
    <2>10. Abstract!Result(s) \notin results
      <3>1. NoResult(results, <<root, s>>)
        BY <2>8, ReductionAssumption
      <3>2. <<root, s>> \in Abstract!Result(s).parts
        BY ReductionAssumption DEF Abstract!Result, Abstract!All
      <3> QED
        BY <3>1, <3>2 DEF NoResult, ResultHits
    <2> QED
      BY <2>4, <2>9, <2>10
  <1> HIDE DEF R, roots
  <1>3. {Result(m) : m \in roots} = {Abstract!Result(s) : s \in R}
    BY <1>1, <1>2
  <1>4. results' = results \cup {Abstract!Result(s) : s \in R}
    BY <1>3 DEF roots
  <1> QED
    BY <1>2, <1>4 DEF Abstract!Produces, R

(* A contribution completes at most the reduction it is for, as no other   *)
(* reducer of the root is full                                             *)
LEMMA OwnProduces ==
    ASSUME Spanning, TypeOK, Placed, ResultsWhole, Apart(made', results),
           NEW e \in Elem, NEW r \in Redn, NEW p \in PE, NEW packs, NEW old, NEW phase,
           InHand(p, <<Own(e, r)>>, packs, old, phase),
           NEW s \in Produced(p, <<Own(e, r)>>)
    PROVE  s = r
  <1> DEFINE own == Own(e, r)
             ms == <<own>>
  <1>1. own \in Good /\ own \in Messages /\ own.idx = e /\ own.redn = number(r)
        /\ own.cont = r
    BY OwnIsGood DEF Good, Own, Message
  <1> HIDE DEF own
  <1>2. ms \in Seq(Good) /\ ms \in Seq(Messages) /\ Len(ms) = 1 /\ ms[1] = own
        /\ DOMAIN ms = 1 .. 1
    BY <1>1
  <1> HIDE DEF ms
  <1>3. InHand(p, ms, packs, old, phase) /\ s \in Produced(p, ms)
    BY DEF ms, own
  <1>4. PICK m \in Done(p, ms) : WholeOf(m, root, s)
    BY <1>3 DEF Produced
  <1>5. \E f \in Elem, t \in Redn :
           WholeOf(m, f, t) /\ Filled(f, t, Meets(f, number(t), ms))
    BY <1>2, <1>3, DoneWhole
  <1>6. PICK f \in Elem, t \in Redn :
           WholeOf(m, f, t) /\ Filled(f, t, Meets(f, number(t), ms))
    BY <1>5
  <1>7. t = s
    BY <1>4, <1>6 DEF WholeOf, Message
  <1> DEFINE k == number(t)
             I == {i \in DOMAIN ms : ms[i].idx = f /\ ms[i].redn = k}
             old_ones == received[f][k]
             picked == Picked(ms, I)
             got == Meets(f, k, ms)
  <1>8. old_ones \in Seq(Messages) /\ Len(old_ones) < expected(f) /\ k \in Number
    BY DEF TypeOK, Placed, Number
  <1>9. Len(got) = expected(f) /\ \A i \in DOMAIN got : got[i].cont = t
    BY <1>6 DEF Filled
  <1>10. got = old_ones \o picked
    BY DEF Meets
  <1>11. 1 \in I
    <2> SUFFICES ASSUME 1 \notin I
                 PROVE  FALSE
      OBVIOUS
    <2>1. \A i \in DOMAIN ms : i \notin I
      BY <1>2
    <2> HIDE DEF I, old_ones, got
    <2>2. picked = <<>>
      BY <1>2, <2>1, PickedNothing
    <2>3. got = old_ones
      BY <1>8, <1>10, <2>2
    <2> QED
      BY <1>8, <1>9, <2>3, ExpectedType
  <1> HIDE DEF I, old_ones, got, k
  <1> DEFINE T == {own}
  <1>12. Hits(ms, T) = {1} /\ 1 \in DOMAIN ms
    BY <1>2 DEF Hits
  <1> HIDE DEF T
  <1>13. picked \in Seq(Messages) /\ OneHit(picked, T)
    BY <1>2, <1>11, <1>12, PickedFacts
  <1> HIDE DEF picked
  <1>14. PICK i \in DOMAIN picked : picked[i] = own
    BY <1>13 DEF OneHit, Hits, T
  <1>15. /\ Len(old_ones) \in Nat /\ Len(picked) \in Nat
         /\ DOMAIN picked = 1 .. Len(picked)
         /\ got \in Seq(Messages) /\ Len(got) = Len(old_ones) + Len(picked)
         /\ DOMAIN got = 1 .. Len(got)
    BY <1>8, <1>10, <1>13, ConcatProperties, LenProperties
  <1>16. got[Len(old_ones) + i] = own
    BY <1>8, <1>10, <1>13, <1>14, <1>15, ConcatProperties
  <1>17. Len(old_ones) + i \in DOMAIN got
    BY <1>15
  <1> QED
    BY <1>1, <1>7, <1>9, <1>16, <1>17

LEMMA GatherStep ==
    ASSUME Spanning, Gathering, Next, OneAtATime
    PROVE  Abstract!Next /\ Placed' /\ Apart(made', results') /\ ResultsWhole'
  <1>0. TypeOK /\ Conserved /\ Placed /\ Apart(made, results) /\ ResultsWhole
    BY DEF Gathering
  <1>1. Handed(Good)
    <2>1. Good \in SUBSET Messages
      BY DEF Good
    <2> QED
      BY <1>0, <2>1, OwnIsGood, StepHanded DEF Placed
  <1>2. PICK p \in PE, ms \in Seq(Good), packs \in SUBSET (Packet \cup net),
             old \in [Elem -> Seq(Good)], phase \in [PE -> Seq(Good)] :
           /\ \A n \in packs : n.type = "redux" => n \in net
           /\ \/ made' = made
              \/ \E e \in Elem, r \in Redn :
                    ms = <<Own(e, r)>> /\ made' = made \cup {<<e, r>>}
           /\ InHand(p, ms, packs, old, phase)
    BY <1>1 DEF Handed
  <1>3. Apart(made', results)
    BY <1>0, <1>2, StayApart
  <1>4. Placed'
    BY <1>0, <1>2, <1>3, PlacedDelivers
  <1>5. \/ results' = results
        \/ results' = results \cup {Result(m) : m \in {d \in Done(p, ms) : d.idx = root}}
    BY <1>2, ReduceIs DEF InHand, Delivers
  <1>6. results' = results \/ Abstract!Produces(Produced(p, ms))
    BY <1>0, <1>2, <1>3, <1>5, DoneProduces
  <1>7. ResultsWhole'
    <2>1. \A x \in results' : x \in results \/ \E s \in Redn : x = Abstract!Result(s)
      BY <1>6 DEF Abstract!Produces, Produced
    <2>2. ASSUME NEW x \in results'
          PROVE  x.parts = Elem \X {x.to}
      <3>1. CASE x \in results
        BY <1>0, <3>1 DEF ResultsWhole
      <3>2. ASSUME NEW s \in Redn, x = Abstract!Result(s)
            PROVE  x.parts = Elem \X {x.to}
        <4>1. x.to = s
          BY <3>2 DEF Abstract!Result
        <4> QED
          BY <3>2, <4>1 DEF Abstract!Result, Abstract!All
      <3> QED
        BY <2>1, <3>1, <3>2
    <2> QED
      BY <2>2 DEF ResultsWhole
  <1>8. Apart(made', results')
    <2>1. \A x \in results : x \in results'
      BY <1>5
    <2>2. \A r \in Redn : Pending(made', results', r) => Pending(made', results, r)
      BY <2>1 DEF Pending, Ended
    <2> QED
      BY <1>3, <2>2 DEF Apart
  <1>9. Abstract!Next
    <2>1. \E R \in SUBSET Produced(p, ms) :
             Abstract!Produces(R) /\ (results' = results \/ R = Produced(p, ms))
      <3>1. CASE results' = results
        <4>1. Abstract!Produces({})
          BY <3>1 DEF Abstract!Produces
        <4> QED
          BY <3>1, <4>1
      <3>2. CASE Abstract!Produces(Produced(p, ms))
        BY <3>2
      <3> QED
        BY <1>6, <3>1, <3>2
    <2>2. Produced(p, ms) \in SUBSET Redn
      BY DEF Produced
    <2>3. CASE made' = made
      BY <2>1, <2>2, <2>3 DEF Abstract!Next, Abstract!Produce
    <2>4. ASSUME NEW e \in Elem, NEW r \in Redn, ms = <<Own(e, r)>>,
                 made' = made \cup {<<e, r>>}, <<e, r>> \notin made
          PROVE  Abstract!Contribute(e, r)
      <3>1. \A s \in Produced(p, ms) : s = r
        BY <1>0, <1>2, <1>3, <2>4, OwnProduces
      <3>2. results' = results \/ Abstract!Produces({r}) \/ Abstract!Produces({})
        <4>1. Produced(p, ms) = {r} \/ Produced(p, ms) = {}
          BY <3>1
        <4> QED
          BY <1>6, <4>1
      <3>3. Abstract!Produces({}) => results' = results
        BY DEF Abstract!Produces
      <3> QED
        BY <2>4, <3>2, <3>3 DEF Abstract!Contribute
    <2> QED
      BY <1>2, <2>3, <2>4 DEF Abstract!Next
  <1> QED
    BY <1>4, <1>7, <1>8, <1>9

LEMMA GatheringInit == Init => Gathering /\ Abstract!Init
  <1> SUFFICES ASSUME Init
               PROVE  Gathering /\ Abstract!Init
    OBVIOUS
  <1>1. TypeOK /\ Conserved
    BY TypeInit, ConservedInit
  <1>2. AllIn(Good)
    <2>1. /\ received = [e \in Elem |-> [k \in Number |-> <<>>]]
          /\ buffers = [p \in PE |-> [e \in Elem |-> <<>>]]
          /\ collective_buffer = [p \in PE |-> <<>>]
          /\ \A n \in net : n.type # "redux"
      BY DEF Init, no_reducers, Location
    <2>2. <<>> \in Seq(Good)
      BY EmptySeq
    <2> QED
      BY <2>1, <2>2 DEF AllIn
  <1>3. \A e \in Elem, k \in Number :
           received[e][k] \in Seq(GoodFor(e, k)) /\ Len(received[e][k]) < expected(e)
    <2> SUFFICES ASSUME NEW e \in Elem, NEW k \in Number
                 PROVE  received[e][k] \in Seq(GoodFor(e, k))
                        /\ Len(received[e][k]) < expected(e)
      OBVIOUS
    <2>1. received[e][k] = <<>>
      BY DEF Init, no_reducers
    <2> QED
      BY <2>1, EmptySeq, ExpectedType
  <1>4. Apart(made, results) /\ ResultsWhole /\ Abstract!Init
    BY DEF Init, Apart, Pending, Begun, ResultsWhole, Abstract!Init
  <1> QED
    BY <1>1, <1>2, <1>3, <1>4 DEF Gathering, Placed

LEMMA GatheringStep ==
    ASSUME Spanning
    PROVE  Gathering /\ [Next /\ OneAtATime]_vars
              => Gathering' /\ [Abstract!Next]_<<made, results>>
  <1> SUFFICES ASSUME Gathering, [Next /\ OneAtATime]_vars
               PROVE  Gathering' /\ [Abstract!Next]_<<made, results>>
    OBVIOUS
  <1>0. TypeOK /\ Conserved
    BY DEF Gathering
  <1>1. CASE Next /\ OneAtATime
    <2>1. Abstract!Next /\ Placed' /\ Apart(made', results') /\ ResultsWhole'
      BY <1>1, GatherStep
    <2>2. TypeOK' /\ Conserved'
      BY <1>0, <1>1, TypeStep, ConservedStep
    <2> QED
      BY <2>1, <2>2 DEF Gathering
  <1>2. CASE UNCHANGED vars
    <2>1. TypeOK' /\ Conserved'
      BY <1>0, <1>2, TypeStep, ConservedStep
    <2>2. UNCHANGED <<received, buffers, collective_buffer, net, made, results>>
      BY <1>2 DEF vars
    <2> QED
      BY <2>1, <2>2 DEF Gathering, Placed, AllIn, ResultsWhole
  <1> QED
    BY <1>1, <1>2

(* Reductions implement Gather for every tree that spans the chares, every *)
(* placement, migration and order of messages, in an application that      *)
(* begins a reduction only when none with its number is pending.  The      *)
(* condition is needed: the run of ResultsWhole shows what happens without *)
(* it, as collection.hpp:274 gives all untagged reductions one number.     *)
THEOREM TurnsImplementGather ==
    ASSUME Spanning
    PROVE  Init /\ [][Next /\ OneAtATime]_vars => ImplementsGather /\ []ResultsWhole
  <1>1. Init => Gathering /\ Abstract!Init
    BY GatheringInit
  <1>2. Gathering /\ [Next /\ OneAtATime]_vars
           => Gathering' /\ [Abstract!Next]_<<made, results>>
    BY GatheringStep
  <1>3. Gathering => ResultsWhole
    BY DEF Gathering
  <1> QED
    BY <1>1, <1>2, <1>3, PTL DEF ImplementsGather, Abstract!Spec, Abstract!gvars

(* When every reduction has a number of its own, as distinct tags give it, *)
(* no order among the contributions is needed.                             *)
THEOREM TaggedImplementGather ==
    ASSUME Spanning, \A r, s \in Redn : number(r) = number(s) => r = s
    PROVE  Spec => ImplementsGather /\ []ResultsWhole
  <1>1. TypeOK' /\ [Next]_vars => [Next /\ OneAtATime]_vars
    <2> SUFFICES ASSUME TypeOK', Next
                 PROVE  OneAtATime
      OBVIOUS
    <2>1. \A c \in made' : c[2] \in Redn
      BY DEF TypeOK, Contribution
    <2> QED
      BY <2>1 DEF OneAtATime
  <1>2. Spec => []TypeOK
    BY TypeCorrect
  <1>3. Spec => Init /\ [][Next /\ OneAtATime]_vars
    BY <1>1, <1>2, PTL DEF Spec
  <1> QED
    BY <1>3, TurnsImplementGather, PTL
=============================================================================
