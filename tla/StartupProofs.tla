---------------------------- MODULE StartupProofs ---------------------------
(***************************************************************************)
(* Where the elements of collections are created, that no message is lost  *)
(* or handled twice, and that no assertion fails, for every program, number*)
(* of PEs and order of messages.                                           *)
(***************************************************************************)
EXTENDS Startup, Facts

-----------------------------------------------------------------------------
(* The constructor's walk *)

(* The options of each collection are such that the walk meets every index *)
(* they describe, and no other.  WalksCoverGrids checks it for small ones. *)
WalksCover ==
    \A c \in User :
        ToSet(visited(Spec_of(c).opts)) =
            IF Seeded(c) THEN Grid(Spec_of(c).opts) ELSE {}

(* What a PE makes of the walk is its share of the plan *)
LEMMA HereIsShare ==
    ASSUME WalksCover, NEW p \in PE, NEW c \in User
    PROVE  Here(p, c) = {i \in Planned[c] : home_pe(i) = p}
  <1> DEFINE range == visited(Spec_of(c).opts)
             met == {encode(t) : t \in ToSet(range)}
  <1>1. DOMAIN seeds[c] = DOMAIN range /\ \A i \in DOMAIN range : seeds[c][i] = encode(range[i])
    BY DEF seeds
  <1>2. Here(p, c) = {j \in met : home_pe(j) = p}
    BY <1>1 DEF Here, Mine, ToSet
  <1>3. met = Planned[c]
    BY DEF WalksCover, Planned
  <1> QED
    BY <1>2, <1>3

(* The detectors are not one of the program's collections *)
LEMMA SysApart == sys \notin User
  <1>1. \A c \in User : c.pe \in PE
    BY DEF User, Id
  <1> QED
    BY <1>1, NumPesAssumption DEF sys, Id, PE

-----------------------------------------------------------------------------
(* The tables are tables, and each branch has its share *)
Tables ==
    /\ collection_table = [p \in PE |-> collection_table[p]]
    /\ chares = [p \in PE |-> [c \in Col |-> chares[p][c]]]

PlacedInv == Tables /\ SeedsPlaced

(* A PE that makes branches, of c or of the detectors, keeps the invariant *)
LEMMA MakePlaces ==
    ASSUME WalksCover, PlacedInv, NEW p \in PE, NEW d \in User,
           NEW new \in SUBSET Col, Make(p, d, new)
    PROVE  PlacedInv'
  <1>1. Tables'
    BY DEF PlacedInv, Tables, Make
  <1>2. ASSUME NEW q \in PE, NEW c \in User, c \in collection_table'[q]
        PROVE  chares'[q][c] = {i \in Planned[c] : home_pe(i) = q}
    <2>1. c \in Col /\ c # sys
      BY SysApart DEF Col
    <2>2. CASE q = p /\ c \in new
      <3>1. chares'[q][c] = Here(p, c)
        BY <2>1, <2>2 DEF Make, PlacedInv, Tables
      <3> QED
        BY <2>2, <3>1, HereIsShare
    <2>3. CASE ~(q = p /\ c \in new)
      <3>1. c \in collection_table[q] /\ chares'[q][c] = chares[q][c]
        BY <1>2, <2>1, <2>3 DEF Make, PlacedInv, Tables
      <3> QED
        BY <3>1 DEF PlacedInv, SeedsPlaced
    <2> QED
      BY <2>2, <2>3
  <1> QED
    BY <1>1, <1>2 DEF PlacedInv, SeedsPlaced, Planned

LEMMA PlacedInit == Init => PlacedInv
  BY DEF Init, PlacedInv, Tables, SeedsPlaced

LEMMA PlacedStep ==
    ASSUME WalksCover, PlacedInv, [Next]_vars
    PROVE  PlacedInv'
  <1>1. ASSUME UNCHANGED <<collection_table, chares>>
        PROVE  PlacedInv'
    BY <1>1 DEF PlacedInv, Tables, SeedsPlaced
  <1>2. ASSUME NEW p \in PE, NEW c \in User, ReceiveCreation(p, c)
        PROVE  PlacedInv'
    BY <1>2, MakePlaces DEF ReceiveCreation, NewDetector, Col
  <1>3. ASSUME NEW p \in PE, NEW c \in Arrays, ReceiveStatus(p, c)
        PROVE  PlacedInv'
    BY <1>1, <1>3, MakePlaces DEF ReceiveStatus, NewDetector, Col, Arrays, branches
  <1>4. ASSUME NEW p \in PE, Work(p) \/ CallExit(p)
        PROVE  PlacedInv'
    BY <1>1, <1>4 DEF Work, CallExit, Construct, Send, DoneInserting, branches
  <1>5. ASSUME NEW p \in PE, NEW c \in Arrays, ReceiveReady(p, c)
        PROVE  PlacedInv'
    BY <1>1, <1>5 DEF ReceiveReady
  <1>6. ASSUME NEW p \in PE, NEW q \in PE,
               \/ ReceiveBroadcastExit(p) \/ ReceiveExit(q, p)
               \/ KeepEarly(q, p) \/ ReceiveLetter(q, p) \/ ReceiveRedux(q, p)
        PROVE  PlacedInv'
    BY <1>1, <1>6 DEF ReceiveBroadcastExit, ReceiveExit, exit, KeepEarly,
                      ReceiveLetter, ReceiveRedux, branches
  <1>7. CASE UNCHANGED vars
    BY <1>1, <1>7 DEF vars, branches
  <1> QED
    BY <1>2, <1>3, <1>4, <1>5, <1>6, <1>7 DEF Next, Turn

(* Every PE that has a branch of a collection has those of its elements    *)
(* that are at home there, and no others, however the creation messages    *)
(* are ordered and whatever has come before them (collection.hpp:45); the  *)
(* one condition is that the walk over the options meets their indices.    *)
THEOREM SeedsArePlaced ==
    ASSUME WalksCover
    PROVE  Spec => []SeedsPlaced
  <1>1. Init => PlacedInv
    BY PlacedInit
  <1>2. PlacedInv /\ [Next]_vars => PlacedInv'
    BY PlacedStep
  <1>3. PlacedInv => SeedsPlaced
    BY DEF PlacedInv
  <1> QED
    BY <1>1, <1>2, <1>3, PTL DEF Spec

-----------------------------------------------------------------------------
(* The messages about letters.  A letter's messages are for its collection,*)
(* and go to one element or are a broadcast, as the letter says.           *)

Bcast(l) == Idx[l] = bcast_root

Mail ==
    [type : {"entry", "post"}, col : User, letter : Letter, packed : BOOLEAN]
    \cup [type : {"copy"}, col : User, letter : Letter, packed : BOOLEAN,
          seq : Nat]

Proper ==
    {m \in Mail : /\ m.col = To[m.letter]
                  /\ m.type = "entry" <=> ~Bcast(m.letter)}

Others ==
    [type : {"redux"}, col : {sys}, target : Col, from : PE]
    \cup [type : {"status"}, col : Arrays]
    \cup [type : {"exit"}, is_broadcast : BOOLEAN]

Anything == Proper \cup Others

InCol(c) == {m \in Anything : m.type # "exit" /\ m.col = c}

About(l) ==
    {m \in Proper : m.type \in {"entry", "post", "copy"} /\ m.letter = l}

LEMMA ProperFields ==
    ASSUME NEW m \in Proper
    PROVE  /\ m \in Anything /\ m.letter \in Letter /\ m.col \in User
           /\ m.col = To[m.letter]
           /\ m.type \in {"entry", "post", "copy"}
           /\ m.type = "entry" <=> ~Bcast(m.letter)
           /\ m.packed \in BOOLEAN
           /\ m.type = "copy" => m.seq \in Nat
           /\ "letter" \in DOMAIN m
           /\ m \in About(m.letter)
  BY DEF Proper, Mail, Anything, About

LEMMA OtherFields ==
    ASSUME NEW m \in Others
    PROVE  /\ m \in Anything /\ m.type \in {"redux", "status", "exit"}
           /\ m.type = "redux" => m.col = sys /\ m.target \in Col /\ m.from \in PE
           /\ m.type = "status" => m.col \in Arrays
           /\ "letter" \notin DOMAIN m
  BY DEF Others, Anything

LEMMA AboutIs ==
    ASSUME NEW m \in Anything, NEW l
    PROVE  /\ m \in About(l) <=> m.type \in {"entry", "post", "copy"} /\ m.letter = l
           /\ m \in About(l) => m \in Proper
           /\ m.type \in {"entry", "post", "copy"} => m \in Proper
  BY OtherFields DEF About, Anything

(* What arrives is about the same letter *)
LEMMA Packed ==
    ASSUME NEW m \in Proper
    PROVE  /\ pack_message(m) \in Proper
           /\ pack_message(m).letter = m.letter
           /\ pack_message(m).type = m.type
           /\ m.type = "copy" => pack_message(m).seq = m.seq
  BY DEF pack_message, Proper, Mail

LEMMA Sent ==
    ASSUME NEW p, NEW q, NEW m \in Anything
    PROVE  /\ send_helper_(p, q, m) \in Anything
           /\ send_helper_(p, q, m).type = m.type
           /\ m \in Proper => /\ send_helper_(p, q, m) \in Proper
                              /\ send_helper_(p, q, m).letter = m.letter
           /\ m \notin Proper => send_helper_(p, q, m) = m
  <1>1. CASE m \in Proper
    BY <1>1, Packed, ProperFields DEF send_helper_
  <1>2. CASE m \notin Proper
    BY <1>2, OtherFields DEF Anything, send_helper_
  <1> QED
    BY <1>1, <1>2

(* The messages a program begins with *)
LEMMA Letters ==
    ASSUME NEW l \in Letter
    PROVE  /\ From[l] \in PE /\ To[l] \in User
           /\ MessageOf(l) \in About(l)
           /\ MessageOf(l).type # "copy"
           /\ ~Bcast(l) => Idx[l] \in Nat
  <1>1. From[l] \in PE /\ To[l] \in User /\ (Idx[l] \in Nat \/ Idx[l] = bcast_root)
    BY StartupAssumption
  <1> QED
    BY <1>1 DEF MessageOf, Entry, Post, About, Proper, Mail, Bcast

-----------------------------------------------------------------------------
(* Counting *)

LEMMA CountIs ==
    ASSUME NEW s \in Seq(Anything), NEW l
    PROVE  /\ Count(s, l) = HitCount(s, About(l))
           /\ Count(s, l) \in Nat
           /\ Count(s, l) = 0 <=> NoHit(s, About(l))
           /\ Count(s, l) = 1 <=> OneHit(s, About(l))
  <1>1. \A i \in DOMAIN s : s[i] \in Anything
    BY LenProperties, ElementOfSeq
  <1>2. Hits(s, About(l)) =
          {i \in DOMAIN s : s[i].type \in {"entry", "post", "copy"} /\ s[i].letter = l}
    BY <1>1, AboutIs DEF Hits
  <1>3. Count(s, l) = HitCount(s, About(l))
    BY <1>2 DEF Count, HitCount
  <1> QED
    BY <1>3, HitCountType

LEMMA CountEmpty ==
    ASSUME NEW l
    PROVE  Count(<<>>, l) = 0
  <1>1. <<>> \in Seq(Anything)
    OBVIOUS
  <1> QED
    BY <1>1, CountIs, HitCountEmpty

LEMMA CountOne ==
    ASSUME NEW m \in Anything, NEW l
    PROVE  Count(<<m>>, l) = IF m \in About(l) THEN 1 ELSE 0
  <1>1. <<m>> \in Seq(Anything)
    OBVIOUS
  <1> QED
    BY <1>1, CountIs, HitCountSingle

LEMMA CountConcat ==
    ASSUME NEW s \in Seq(Anything), NEW t \in Seq(Anything), NEW l
    PROVE  /\ s \o t \in Seq(Anything)
           /\ Count(s \o t, l) = Count(s, l) + Count(t, l)
  <1> DEFINE u == s \o t
  <1>1. u \in Seq(Anything)
    BY ConcatProperties
  <1>2. HitCount(u, About(l)) = HitCount(s, About(l)) + HitCount(t, About(l))
    BY HitCountConcat
  <1> HIDE DEF u
  <1>3. Count(u, l) = Count(s, l) + Count(t, l)
    BY <1>1, <1>2, CountIs
  <1> QED
    BY <1>1, <1>3 DEF u

LEMMA CountTail ==
    ASSUME NEW s \in Seq(Anything), s # <<>>, NEW l
    PROVE  /\ Tail(s) \in Seq(Anything) /\ Head(s) \in Anything
           /\ Count(s, l) = Count(Tail(s), l) + Count(<<Head(s)>>, l)
  <1> DEFINE t == Tail(s)
             h == <<Head(s)>>
  <1>1. /\ Tail(s) \in Seq(Anything) /\ Head(s) \in Anything
        /\ HitCount(s, About(l)) = HitCount(t, About(l)) + HitCount(h, About(l))
    BY HitCountTail
  <1>2. t \in Seq(Anything) /\ h \in Seq(Anything)
    BY <1>1
  <1> HIDE DEF h, t
  <1>3. Count(s, l) = Count(t, l) + Count(h, l)
    BY <1>1, <1>2, CountIs
  <1> QED
    BY <1>1, <1>3 DEF h, t

(* The same letters in the same places *)
Alike(s, t) ==
    /\ DOMAIN s = DOMAIN t
    /\ \A i \in DOMAIN s : \A l : s[i] \in About(l) <=> t[i] \in About(l)

LEMMA CountAlike ==
    ASSUME NEW s \in Seq(Anything), NEW t \in Seq(Anything), NEW l, Alike(s, t)
    PROVE  Count(s, l) = Count(t, l)
  BY CountIs, HitCountSame DEF Alike

-----------------------------------------------------------------------------
(* The messages on their way to a PE *)

Nets == [PE -> [PE -> Seq(Anything)]]
Sendings == [PE -> Seq(Anything)]

ArrivingIn(net, p, l) == [q \in PE |-> Count(net[q][p], l)]
Arriving(net, p, l) == SumFunction(ArrivingIn(net, p, l))

LEMMA FinitePEs == IsFiniteSet(PE)
  BY NumPesAssumption, FS_Interval DEF PE

LEMMA SumOfPEs ==
    ASSUME NEW f, DOMAIN f = PE
    PROVE  SumFunction(f) = SumOver(f, PE)
  BY SumFunctionIs

LEMMA ArrivingType ==
    ASSUME NEW net \in Nets, NEW p \in PE, NEW l
    PROVE  /\ \A q \in PE : ArrivingIn(net, p, l)[q] \in Nat
           /\ DOMAIN ArrivingIn(net, p, l) = PE
           /\ Arriving(net, p, l) = SumOver(ArrivingIn(net, p, l), PE)
  <1>1. \A q \in PE : net[q][p] \in Seq(Anything)
    BY DEF Nets
  <1>2. \A q \in PE : ArrivingIn(net, p, l)[q] \in Nat
    BY <1>1, CountIs DEF ArrivingIn
  <1>3. DOMAIN ArrivingIn(net, p, l) = PE
    BY DEF ArrivingIn
  <1> QED
    BY <1>2, <1>3, SumOfPEs DEF Arriving

(* One column of the network changes in one place *)
LEMMA ArrivingChange ==
    ASSUME NEW net \in Nets, NEW new \in Nets, NEW q \in PE, NEW p \in PE, NEW l,
           \A r \in PE \ {q} : new[r][p] = net[r][p]
    PROVE  Arriving(new, p, l) =
               Arriving(net, p, l) + (Count(new[q][p], l) - Count(net[q][p], l))
  <1> DEFINE f == ArrivingIn(net, p, l)
             e == ArrivingIn(new, p, l)
  <1>1. /\ Arriving(net, p, l) = SumOver(f, PE) /\ Arriving(new, p, l) = SumOver(e, PE)
        /\ \A r \in PE : f[r] \in Int /\ e[r] \in Int
    BY ArrivingType
  <1>2. \A r \in PE \ {q} : e[r] = f[r]
    BY DEF ArrivingIn
  <1>3. e[q] = Count(new[q][p], l) /\ f[q] = Count(net[q][p], l)
    BY DEF ArrivingIn
  <1> HIDE DEF f, e
  <1>4. SumOver(e, PE) = SumOver(f, PE) + (e[q] - f[q])
    BY <1>1, <1>2, FinitePEs, SumOverChange
  <1> QED
    BY <1>1, <1>3, <1>4

LEMMA ArrivingSame ==
    ASSUME NEW net \in Nets, NEW new \in Nets, NEW p \in PE, NEW l,
           \A r \in PE : new[r][p] = net[r][p]
    PROVE  Arriving(new, p, l) = Arriving(net, p, l)
  <1>1. ArrivingIn(new, p, l) = ArrivingIn(net, p, l)
    BY DEF ArrivingIn
  <1> QED
    BY <1>1 DEF Arriving

LEMMA ArrivingNat ==
    ASSUME NEW net \in Nets, NEW p \in PE, NEW l
    PROVE  /\ Arriving(net, p, l) \in Nat
           /\ \A q \in PE : Count(net[q][p], l) <= Arriving(net, p, l)
  <1> DEFINE f == ArrivingIn(net, p, l)
  <1>1. Arriving(net, p, l) = SumOver(f, PE) /\ \A q \in PE : f[q] \in Nat
    BY ArrivingType
  <1> HIDE DEF f
  <1>2. /\ SumOver(f, PE) \in Nat
        /\ \A q \in PE : f[q] <= SumOver(f, PE)
    BY <1>1, FinitePEs, SumOverNat
  <1> QED
    BY <1>1, <1>2 DEF f, ArrivingIn

-----------------------------------------------------------------------------
(* Sending, and taking the next message *)

Arrived(p, q, s) == [i \in DOMAIN s |-> send_helper_(p, q, s[i])]

LEMMA ArrivedAlike ==
    ASSUME NEW s \in Seq(Anything), NEW p, NEW q
    PROVE  /\ Arrived(p, q, s) \in Seq(Anything)
           /\ Alike(s, Arrived(p, q, s))
  <1> DEFINE t == Arrived(p, q, s)
  <1>1. Len(s) \in Nat /\ DOMAIN s = 1 .. Len(s)
    BY LenProperties
  <1>2. \A i \in DOMAIN s : s[i] \in Anything
    BY <1>1, ElementOfSeq
  <1>3. t \in [1 .. Len(s) -> Anything]
    BY <1>1, <1>2, Sent DEF Arrived
  <1>4. \A i \in DOMAIN s : t[i] = send_helper_(p, q, s[i])
    BY DEF Arrived
  <1>5. DOMAIN t = DOMAIN s
    BY DEF Arrived
  <1> HIDE DEF t
  <1>6. t \in Seq(Anything)
    BY <1>1, <1>3, FunctionIsSeq
  <1>7. ASSUME NEW i \in DOMAIN s, NEW l
        PROVE  s[i] \in About(l) <=> t[i] \in About(l)
    <2>1. s[i] \in Anything /\ t[i] = send_helper_(p, q, s[i])
      BY <1>2, <1>4
    <2> QED
      BY <2>1, Sent, AboutIs
  <1>8. Alike(s, t)
    BY <1>5, <1>7 DEF Alike
  <1> QED
    BY <1>6, <1>8 DEF t

LEMMA EmitRow ==
    ASSUME NEW net \in Nets, NEW p \in PE, NEW out \in Sendings
    PROVE  /\ \A q, r \in PE : q # p => Emit(net, p, out)[q][r] = net[q][r]
           /\ \A r \in PE : Emit(net, p, out)[p][r] = net[p][r] \o Arrived(p, r, out[r])
           /\ Emit(net, p, out) = [q \in PE |-> [r \in PE |-> Emit(net, p, out)[q][r]]]
  BY DEF Nets, Sendings, Emit, Arrived

LEMMA EmitType ==
    ASSUME NEW net \in Nets, NEW p \in PE, NEW out \in Sendings
    PROVE  Emit(net, p, out) \in Nets
  <1> DEFINE new == Emit(net, p, out)
  <1>1. /\ \A q, r \in PE : q # p => new[q][r] = net[q][r]
        /\ \A r \in PE : new[p][r] = net[p][r] \o Arrived(p, r, out[r])
        /\ new = [q \in PE |-> [r \in PE |-> new[q][r]]]
    BY EmitRow
  <1>2. \A r \in PE : net[p][r] \o Arrived(p, r, out[r]) \in Seq(Anything)
    BY ArrivedAlike, ConcatProperties DEF Nets, Sendings
  <1> HIDE DEF new
  <1>3. \A q, r \in PE : new[q][r] \in Seq(Anything)
    BY <1>1, <1>2 DEF Nets
  <1>4. new \in Nets
    BY <1>1, <1>3 DEF Nets
  <1> QED
    BY <1>4 DEF new

LEMMA EmitArriving ==
    ASSUME NEW net \in Nets, NEW p \in PE, NEW out \in Sendings, NEW r \in PE, NEW l
    PROVE  Arriving(Emit(net, p, out), r, l) = Arriving(net, r, l) + Count(out[r], l)
  <1> DEFINE new == Emit(net, p, out)
             s == net[p][r]
             t == Arrived(p, r, out[r])
  <1>1. new \in Nets
    BY EmitType
  <1>0. /\ \A q, x \in PE : q # p => new[q][x] = net[q][x]
        /\ \A x \in PE : new[p][x] = net[p][x] \o Arrived(p, x, out[x])
    BY ONLY EmitRow, net \in Nets, p \in PE, out \in Sendings
  <1>2. /\ \A q \in PE \ {p} : new[q][r] = net[q][r]
        /\ new[p][r] = s \o t
    <2> HIDE DEF new
    <2> QED
      BY <1>0
  <1>3. out[r] \in Seq(Anything) /\ s \in Seq(Anything)
    BY DEF Sendings, Nets
  <1>4. t \in Seq(Anything) /\ Alike(out[r], t)
    BY <1>3, ArrivedAlike
  <1> HIDE DEF new, s, t
  <1>5. Count(t, l) = Count(out[r], l) /\ Count(t, l) \in Nat /\ Count(s, l) \in Nat
    BY <1>3, <1>4, CountAlike, CountIs
  <1>6. Count(s \o t, l) = Count(s, l) + Count(t, l)
    BY <1>3, <1>4, CountConcat
  <1>7. Arriving(new, r, l) =
            Arriving(net, r, l) + (Count(new[p][r], l) - Count(net[p][r], l))
    <2>1. \A a \in PE \ {p} : new[a][r] = net[a][r]
      BY <1>2
    <2> QED
      BY ONLY <1>1, <2>1, ArrivingChange, net \in Nets, p \in PE, r \in PE
  <1>8. Count(new[p][r], l) - Count(net[p][r], l) = Count(out[r], l)
    BY <1>2, <1>5, <1>6 DEF s
  <1> QED
    BY <1>7, <1>8 DEF new

(* The network without its next message from q to p *)
Behind(net, q, p) == [net EXCEPT ![q][p] = Tail(@)]

LEMMA BehindArriving ==
    ASSUME NEW net \in Nets, NEW q \in PE, NEW p \in PE, net[q][p] # <<>>
    PROVE  /\ Behind(net, q, p) \in Nets
           /\ Head(net[q][p]) \in Anything
           /\ \A l : \A r \in PE :
                 Arriving(net, r, l) =
                    Arriving(Behind(net, q, p), r, l)
                    + (IF r = p THEN Count(<<Head(net[q][p])>>, l) ELSE 0)
  <1> DEFINE new == Behind(net, q, p)
             s == net[q][p]
  <1>1. s \in Seq(Anything) /\ s # <<>>
    BY DEF Nets
  <1>2. Tail(s) \in Seq(Anything) /\ Head(s) \in Anything
    BY <1>1, HeadTailProperties
  <1>3. /\ new \in Nets /\ new[q][p] = Tail(s)
        /\ \A a, r \in PE : ~(a = q /\ r = p) => new[a][r] = net[a][r]
    BY <1>2 DEF Nets, Behind
  <1> HIDE DEF new
  <1>4. ASSUME NEW l, NEW r \in PE
        PROVE  Arriving(net, r, l) = Arriving(new, r, l)
                   + (IF r = p THEN Count(<<Head(s)>>, l) ELSE 0)
    <2>1. Arriving(new, r, l) \in Nat /\ Arriving(net, r, l) \in Nat
      BY <1>3, ArrivingNat
    <2>2. CASE r # p
      <3>1. Arriving(new, r, l) = Arriving(net, r, l)
        BY <1>3, <2>2, ArrivingSame
      <3> QED
        BY <2>1, <2>2, <3>1
    <2>3. CASE r = p
      <3> DEFINE h == <<Head(s)>>
      <3>1. h \in Seq(Anything)
        BY <1>2
      <3>2. Count(s, l) = Count(Tail(s), l) + Count(h, l)
        BY <1>1, CountTail
      <3> HIDE DEF h, s
      <3>3. /\ Count(s, l) \in Nat /\ Count(Tail(s), l) \in Nat /\ Count(h, l) \in Nat
        BY <1>1, <1>2, <3>1, CountIs
      <3>0. new \in Nets /\ \A a \in PE \ {q} : new[a][p] = net[a][p]
        BY <1>3
      <3>4. Arriving(new, p, l) =
                Arriving(net, p, l) + (Count(new[q][p], l) - Count(net[q][p], l))
        BY ONLY <3>0, ArrivingChange, net \in Nets, q \in PE, p \in PE
      <3>5. Arriving(new, p, l) = Arriving(net, p, l) + (Count(Tail(s), l) - Count(s, l))
        BY <1>3, <3>4 DEF s
      <3>6. Arriving(net, p, l) = Arriving(new, p, l) + Count(h, l)
        BY <2>1, <2>3, <3>2, <3>3, <3>5
      <3> QED
        BY <2>3, <3>6 DEF h, s
    <2> QED
      BY <2>2, <2>3
  <1> QED
    BY <1>2, <1>3, <1>4 DEF new

-----------------------------------------------------------------------------
(* The messages a handler has in hand *)

LEMMA InColFields ==
    ASSUME NEW c, NEW m \in InCol(c)
    PROVE  /\ m \in Anything /\ m.col = c /\ m.type # "exit"
           /\ m.type \in {"entry", "post", "copy"} =>
                 m \in Proper /\ c = To[m.letter]
           /\ m \in Proper => m.type \in {"entry", "post", "copy"}
  BY AboutIs, ProperFields DEF InCol

LEMMA InColSeq ==
    ASSUME NEW c, NEW s \in Seq(InCol(c))
    PROVE  /\ s \in Seq(Anything)
           /\ Len(s) \in Nat /\ DOMAIN s = 1 .. Len(s)
           /\ \A i \in DOMAIN s : s[i] \in InCol(c)
  <1>1. Len(s) \in Nat /\ DOMAIN s = 1 .. Len(s)
    BY LenProperties
  <1>2. \A i \in DOMAIN s : s[i] \in InCol(c)
    BY <1>1, ElementOfSeq
  <1>3. InCol(c) \subseteq Anything
    BY DEF InCol
  <1>4. s \in [1 .. Len(s) -> Anything]
    <2>1. s \in [1 .. Len(s) -> InCol(c)]
      BY LenProperties
    <2> QED
      BY <1>3, <2>1
  <1> QED
    BY <1>1, <1>2, <1>4, FunctionIsSeq

LEMMA SomewhereInCol ==
    ASSUME NEW c, NEW s \in Seq(InCol(c)), NEW l, To[l] # c
    PROVE  Count(s, l) = 0
  <1>1. s \in Seq(Anything) /\ \A i \in DOMAIN s : s[i] \in InCol(c)
    BY InColSeq
  <1>2. \A i \in DOMAIN s : s[i] \notin About(l)
    BY <1>1, InColFields DEF About
  <1> QED
    BY <1>1, <1>2, CountIs DEF NoHit, Hits

(* The root's numbering changes only what posts look like *)
LEMMA NumberedIs ==
    ASSUME NEW p \in PE, NEW c \in User, NEW hs \in Seq(InCol(c)),
           last_bcast[p][c] \in Nat
    PROVE  /\ numbered(p, c, hs) \in Seq(InCol(c))
           /\ Alike(hs, numbered(p, c, hs))
           /\ \A i \in DOMAIN hs :
                 /\ RootHere(p, c) => numbered(p, c, hs)[i].type # "post"
                 /\ ~(hs[i].type = "post" /\ RootHere(p, c)) =>
                       numbered(p, c, hs)[i] = hs[i]
                 /\ hs[i].type = "post" /\ RootHere(p, c) =>
                       numbered(p, c, hs)[i].type = "copy"
  <1> DEFINE ms == numbered(p, c, hs)
             nr(i) == last_bcast[p][c] + Cardinality({j \in 1 .. i : hs[j].type = "post"})
  <1>1. /\ hs \in Seq(Anything) /\ Len(hs) \in Nat /\ DOMAIN hs = 1 .. Len(hs)
        /\ \A i \in DOMAIN hs : hs[i] \in InCol(c)
    BY InColSeq
  <1>2. ASSUME NEW i \in DOMAIN hs
        PROVE  nr(i) \in Nat
    <2>1. IsFiniteSet(1 .. i)
      BY <1>1, FS_Interval
    <2>2. {j \in 1 .. i : hs[j].type = "post"} \in SUBSET (1 .. i)
      OBVIOUS
    <2>3. Cardinality({j \in 1 .. i : hs[j].type = "post"}) \in Nat
      BY <2>1, <2>2, FS_Subset, FS_CardinalityType
    <2> QED
      BY <2>3
  <1>3. /\ DOMAIN ms = DOMAIN hs
        /\ \A i \in DOMAIN hs :
              ms[i] = IF hs[i].type = "post" /\ RootHere(p, c)
                      THEN Copy(hs[i], nr(i)) ELSE hs[i]
        /\ ms = [i \in 1 .. Len(hs) |-> ms[i]]
    BY <1>1 DEF numbered
  <1> HIDE DEF ms, nr
  <1>4. ASSUME NEW i \in DOMAIN hs, hs[i].type = "post"
        PROVE  /\ Copy(hs[i], nr(i)) \in InCol(c)
               /\ Copy(hs[i], nr(i)).type = "copy"
               /\ \A l : hs[i] \in About(l) <=> Copy(hs[i], nr(i)) \in About(l)
    <2>1. hs[i] \in Proper /\ hs[i] \in InCol(c)
      BY <1>1, <1>4, InColFields
    <2>2. hs[i].col \in User /\ hs[i].letter \in Letter /\ hs[i].packed \in BOOLEAN
          /\ hs[i].col = To[hs[i].letter] /\ Bcast(hs[i].letter)
      BY <1>4, <2>1, ProperFields
    <2>3. Copy(hs[i], nr(i)) \in Mail
      BY <1>2, <2>2 DEF Copy, Mail
    <2>4. Copy(hs[i], nr(i)) \in Proper
      BY <2>2, <2>3 DEF Proper, Copy
    <2>5. Copy(hs[i], nr(i)).type = "copy" /\ Copy(hs[i], nr(i)).letter = hs[i].letter
          /\ Copy(hs[i], nr(i)).col = hs[i].col
      BY DEF Copy
    <2> QED
      BY <1>4, <2>1, <2>4, <2>5 DEF About, InCol, Anything
  <1>5. \A i \in DOMAIN hs : ms[i] \in InCol(c)
    BY <1>1, <1>3, <1>4
  <1>6. ms \in Seq(InCol(c))
    <2>1. ms \in [1 .. Len(hs) -> InCol(c)]
      BY <1>1, <1>3, <1>5
    <2> QED
      BY <1>1, <2>1, FunctionIsSeq
  <1>7. Alike(hs, ms)
    BY <1>3, <1>4 DEF Alike
  <1>8. \A i \in DOMAIN hs :
                 /\ RootHere(p, c) => ms[i].type # "post"
                 /\ ~(hs[i].type = "post" /\ RootHere(p, c)) => ms[i] = hs[i]
                 /\ hs[i].type = "post" /\ RootHere(p, c) => ms[i].type = "copy"
    BY <1>3, <1>4
  <1> QED
    BY <1>6, <1>7, <1>8 DEF ms

(* What becomes of the i-th message *)
LEMMA HomeOfLetter ==
    ASSUME NEW l \in Letter, ~Bcast(l)
    PROVE  home_pe(Idx[l]) \in PE
  <1>1. Idx[l] \in Nat
    BY Letters
  <1> QED
    BY <1>1, NumPesAssumption DEF home_pe, PE

LEMMA OneFate ==
    ASSUME NEW p \in PE, NEW c \in User, NEW ms \in Seq(InCol(c)), NEW i \in DOMAIN ms
    PROVE  /\ ms[i] \in Proper =>
                \/ Runs(p, c, ms, i)
                \/ Stays(p, c, ms, i)
                \/ \E q \in PE : Goes(p, c, ms, i, q)
           /\ ~(Runs(p, c, ms, i) /\ Stays(p, c, ms, i))
           /\ \A q \in PE : Goes(p, c, ms, i, q) =>
                /\ ~Runs(p, c, ms, i) /\ ~Stays(p, c, ms, i)
                /\ ms[i].type # "copy"
                /\ \A r \in PE : Goes(p, c, ms, i, r) => r = q
           /\ Runs(p, c, ms, i) \/ Stays(p, c, ms, i) =>
                ms[i] \in Proper /\ ms[i].type # "post"
           /\ CopyRuns(p, c, ms, i) <=> Runs(p, c, ms, i) /\ ms[i].type = "copy"
  <1>1. ms[i] \in InCol(c)
    BY InColSeq
  <1>2. ms[i] \in Proper => ms[i].type \in {"entry", "post", "copy"}
    BY <1>1, InColFields
  <1>3. ms[i].type \in {"entry", "post", "copy"} => ms[i] \in Proper
    BY <1>1, InColFields
  <1>4. 0 \in PE
    BY NumPesAssumption DEF PE
  <1> QED
    BY <1>2, <1>3, <1>4 DEF Runs, Stays, Goes, CopyRuns

(* What is sent to q of it *)
Parcel(p, c, ms, i, q) ==
    IF CopyRuns(p, c, ms, i) /\ q \in span_tree_children(p)
    THEN <<pack_message(ms[i])>>
    ELSE IF Goes(p, c, ms, i, q) THEN <<ms[i]>> ELSE <<>>

Parcels(p, c, ms, q) == [i \in DOMAIN ms |-> Parcel(p, c, ms, i, q)]

LEMMA ParcelIs ==
    ASSUME NEW p \in PE, NEW c \in User, NEW ms \in Seq(InCol(c)), NEW i \in DOMAIN ms,
           NEW q \in PE
    PROVE  /\ Parcel(p, c, ms, i, q) \in Seq(Anything)
           /\ \/ Parcel(p, c, ms, i, q) = <<>>
              \/ Parcel(p, c, ms, i, q) = <<ms[i]>>
              \/ /\ CopyRuns(p, c, ms, i)
                 /\ Parcel(p, c, ms, i, q) = <<pack_message(ms[i])>>
           /\ \A l : ms[i] \notin About(l) => NoHit(Parcel(p, c, ms, i, q), About(l))
           /\ \A l : ms[i] \in About(l) =>
                IF \/ CopyRuns(p, c, ms, i) /\ q \in span_tree_children(p)
                   \/ Goes(p, c, ms, i, q)
                THEN OneHit(Parcel(p, c, ms, i, q), About(l))
                ELSE NoHit(Parcel(p, c, ms, i, q), About(l))
  <1>1. ms[i] \in Anything
    BY InColSeq, InColFields
  <1>2. CopyRuns(p, c, ms, i) => ms[i] \in Proper
    BY OneFate
  <1>3. CopyRuns(p, c, ms, i) =>
            /\ pack_message(ms[i]) \in Anything
            /\ \A l : pack_message(ms[i]) \in About(l) <=> ms[i] \in About(l)
    BY <1>2, Packed, ProperFields DEF About, Anything
  <1> QED
    BY <1>1, <1>3, EmptyHits, SingleHits DEF Parcel

LEMMA OutgoingIs ==
    ASSUME NEW p \in PE, NEW c \in User, NEW ms \in Seq(InCol(c))
    PROVE  /\ outgoing(p, c, ms) \in Sendings
           /\ \A q \in PE : outgoing(p, c, ms)[q] = FlattenSeq(Parcels(p, c, ms, q))
           /\ \A q \in PE : Parcels(p, c, ms, q) \in [1 .. Len(ms) -> Seq(Anything)]
  <1>1. Len(ms) \in Nat /\ DOMAIN ms = 1 .. Len(ms)
    BY InColSeq
  <1>2. \A q \in PE : Parcels(p, c, ms, q) \in [1 .. Len(ms) -> Seq(Anything)]
    BY <1>1, ParcelIs DEF Parcels
  <1>3. outgoing(p, c, ms) = [q \in PE |-> FlattenSeq(Parcels(p, c, ms, q))]
    BY DEF outgoing, Parcels, Parcel
  <1>4. \A q \in PE : FlattenSeq(Parcels(p, c, ms, q)) \in Seq(Anything)
    BY <1>1, <1>2, FlattenType
  <1> QED
    BY <1>2, <1>3, <1>4 DEF Sendings

LEMMA NoneOutgoing ==
    ASSUME NEW p \in PE, NEW c \in User, NEW ms \in Seq(InCol(c)), NEW q \in PE, NEW T,
           \A i \in DOMAIN ms : NoHit(Parcel(p, c, ms, i, q), T)
    PROVE  NoHit(outgoing(p, c, ms)[q], T)
  <1> DEFINE ss == Parcels(p, c, ms, q)
  <1>1. Len(ms) \in Nat /\ DOMAIN ms = 1 .. Len(ms)
    BY InColSeq
  <1>2. ss \in [1 .. Len(ms) -> Seq(Anything)] /\ outgoing(p, c, ms)[q] = FlattenSeq(ss)
    BY OutgoingIs
  <1>3. \A i \in 1 .. Len(ms) : NoHit(ss[i], T)
    BY <1>1 DEF Parcels
  <1> HIDE DEF ss
  <1> QED
    BY <1>1, <1>2, <1>3, FlattenHits

LEMMA CountOutgoing ==
    ASSUME NEW p \in PE, NEW c \in User, NEW ms \in Seq(InCol(c)), NEW q \in PE, NEW l
    PROVE  /\ NoHit(ms, About(l)) => Count(outgoing(p, c, ms)[q], l) = 0
           /\ \A i \in DOMAIN ms : Hits(ms, About(l)) = {i} =>
                 Count(outgoing(p, c, ms)[q], l) =
                    IF \/ CopyRuns(p, c, ms, i) /\ q \in span_tree_children(p)
                       \/ Goes(p, c, ms, i, q)
                    THEN 1 ELSE 0
  <1> DEFINE ss == Parcels(p, c, ms, q)
             out == outgoing(p, c, ms)[q]
             Off(i) == \/ CopyRuns(p, c, ms, i) /\ q \in span_tree_children(p)
                       \/ Goes(p, c, ms, i, q)
  <1>1. Len(ms) \in Nat /\ DOMAIN ms = 1 .. Len(ms)
    BY InColSeq
  <1>2. /\ ss \in [1 .. Len(ms) -> Seq(Anything)] /\ out = FlattenSeq(ss)
        /\ out \in Seq(Anything)
    BY OutgoingIs DEF Sendings
  <1>3. \A i \in 1 .. Len(ms) :
           /\ ms[i] \notin About(l) => NoHit(ss[i], About(l))
           /\ ms[i] \in About(l) /\ Off(i) => OneHit(ss[i], About(l))
           /\ ms[i] \in About(l) /\ ~Off(i) => NoHit(ss[i], About(l))
    BY <1>1, ParcelIs DEF Parcels
  <1> HIDE DEF ss, out, Off
  <1>4. ASSUME NoHit(ms, About(l))
        PROVE  Count(out, l) = 0
    <2>1. \A i \in 1 .. Len(ms) : NoHit(ss[i], About(l))
      BY <1>1, <1>3, <1>4 DEF NoHit, Hits
    <2>2. NoHit(out, About(l))
      BY <1>1, <1>2, <2>1, FlattenHits
    <2> QED
      BY <1>2, <2>2, CountIs
  <1>5. ASSUME NEW i \in DOMAIN ms, Hits(ms, About(l)) = {i}
        PROVE  Count(out, l) = IF Off(i) THEN 1 ELSE 0
    <2>1. ms[i] \in About(l) /\ \A k \in (1 .. Len(ms)) \ {i} : ms[k] \notin About(l)
      BY <1>1, <1>5 DEF Hits
    <2>2. \A k \in (1 .. Len(ms)) \ {i} : NoHit(ss[k], About(l))
      BY <1>3, <2>1
    <2>3. CASE Off(i)
      <3>1. OneHit(ss[i], About(l)) /\ i \in 1 .. Len(ms)
        BY <1>1, <1>3, <2>1, <2>3
      <3>2. OneHit(out, About(l))
        BY <1>1, <1>2, <2>2, <3>1, FlattenHits
      <3> QED
        BY <1>2, <2>3, <3>2, CountIs
    <2>4. CASE ~Off(i)
      <3>1. \A k \in 1 .. Len(ms) : NoHit(ss[k], About(l))
        BY <1>1, <1>3, <2>1, <2>2, <2>4
      <3>2. NoHit(out, About(l))
        BY <1>1, <1>2, <3>1, FlattenHits
      <3> QED
        BY <1>2, <2>4, <3>2, CountIs
    <2> QED
      BY <2>3, <2>4
  <1> QED
    BY <1>4, <1>5 DEF out, Off

-----------------------------------------------------------------------------
(* What Process does with the letter l *)

Asides == {b \in [PE -> [Col -> SUBSET Proper]] :
               \A p \in PE, c \in Col : IsFiniteSet(b[p][c])}
AsideOf(bufs, p, l) == {m \in bufs[p][To[l]] : m.letter = l}

RunAt(p, c, ms) == {i \in DOMAIN ms : Runs(p, c, ms, i)}
StayAt(p, c, ms) == {i \in DOMAIN ms : Stays(p, c, ms, i)}

LEMMA ProcessIs ==
    ASSUME buffers \in Asides, ran \in [PE -> SUBSET Letter],
           NEW p \in PE, NEW c \in User, NEW ms \in Seq(InCol(c)), NEW bad,
           Process(p, c, ms, bad)
    PROVE  /\ buffers' \in Asides
           /\ ran' \in [PE -> SUBSET Letter]
           /\ \A q \in PE \ {p} : buffers'[q] = buffers[q] /\ ran'[q] = ran[q]
           /\ \A d \in Col \ {c} : buffers'[p][d] = buffers[p][d]
           /\ buffers'[p][c] = buffers[p][c] \cup {ms[i] : i \in StayAt(p, c, ms)}
           /\ ran'[p] = ran[p] \cup {ms[i].letter : i \in RunAt(p, c, ms)}
  <1> DEFINE new == {ms[i] : i \in StayAt(p, c, ms)}
             done == {ms[i].letter : i \in RunAt(p, c, ms)}
  <1>1. Len(ms) \in Nat /\ DOMAIN ms = 1 .. Len(ms)
    BY InColSeq
  <1>2. new \subseteq Proper /\ done \subseteq Letter
    BY OneFate, ProperFields DEF StayAt, RunAt
  <1>3. IsFiniteSet(new)
    <2> DEFINE S == StayAt(p, c, ms)
               f == [i \in S |-> ms[i]]
    <2>1. IsFiniteSet(S)
      <3>1. S \in SUBSET (1 .. Len(ms))
        BY <1>1 DEF StayAt
      <3>2. IsFiniteSet(1 .. Len(ms))
        BY <1>1, FS_Interval
      <3> HIDE DEF S
      <3> QED
        BY <3>1, <3>2, FS_Subset
    <2>2. f \in Surjection(S, new)
      BY DEF Surjection
    <2> HIDE DEF f, S, new
    <2> QED
      BY <2>1, <2>2, FS_Surjection
  <1>4. c \in Col
    BY DEF Col
  <1>5. /\ buffers' = [buffers EXCEPT ![p][c] = @ \cup new]
        /\ ran' = [ran EXCEPT ![p] = @ \cup done]
    BY DEF Process, StayAt, RunAt
  <1> HIDE DEF new, done
  <1>6. /\ \A q \in PE \ {p} : buffers'[q] = buffers[q] /\ ran'[q] = ran[q]
        /\ \A d \in Col \ {c} : buffers'[p][d] = buffers[p][d]
        /\ buffers'[p][c] = buffers[p][c] \cup new
        /\ ran'[p] = ran[p] \cup done
    BY <1>4, <1>5 DEF Asides
  <1>7. IsFiniteSet(buffers[p][c] \cup new)
    BY <1>3, <1>4, FS_Union DEF Asides
  <1>8. buffers' \in [PE -> [Col -> SUBSET Proper]]
    BY <1>2, <1>4, <1>5 DEF Asides
  <1>9. \A q \in PE, d \in Col : IsFiniteSet(buffers'[q][d])
    BY <1>6, <1>7 DEF Asides
  <1>10. ran' \in [PE -> SUBSET Letter]
    BY <1>2, <1>5
  <1> QED
    BY <1>6, <1>8, <1>9, <1>10 DEF Asides, new, done

(* It has none of l, or runs it, puts it aside or sends it on *)
SameAside(p, l) ==
    AsideOf(buffers', p, l) = AsideOf(buffers, p, l)
SameRan(p, l) == l \in ran'[p] <=> l \in ran[p]

Sends(p, c, ms, l, R) ==
    \A r \in PE : Count(outgoing(p, c, ms)[r], l) = IF r \in R THEN 1 ELSE 0

HasNone(p, c, ms, l) ==
    /\ Count(ms, l) = 0 /\ Sends(p, c, ms, l, {})
    /\ SameAside(p, l) /\ SameRan(p, l)
HasRun(p, c, ms, l) ==
    /\ Count(ms, l) = 1
    /\ Sends(p, c, ms, l, IF Bcast(l) THEN span_tree_children(p) ELSE {})
    /\ SameAside(p, l) /\ l \in ran'[p]
HasPutAside(p, c, ms, l) ==
    /\ Count(ms, l) = 1 /\ Sends(p, c, ms, l, {})
    /\ \E x : AsideOf(buffers', p, l) = {x}
    /\ SameRan(p, l)
HasSentOn(p, c, ms, l) ==
    /\ Count(ms, l) = 1
    /\ \E z \in PE : Sends(p, c, ms, l, {z})
    /\ SameAside(p, l) /\ SameRan(p, l)

LEMMA Fate ==
    ASSUME buffers \in Asides, ran \in [PE -> SUBSET Letter],
           NEW p \in PE, NEW c \in User, NEW ms \in Seq(InCol(c)), NEW bad,
           Process(p, c, ms, bad), NEW l \in Letter,
           Count(ms, l) \in {0, 1},
           Count(ms, l) = 1 => AsideOf(buffers, p, l) = {}
    PROVE  \/ HasNone(p, c, ms, l) \/ HasRun(p, c, ms, l)
           \/ HasPutAside(p, c, ms, l) \/ HasSentOn(p, c, ms, l)
  <1>1. /\ \A d \in Col \ {c} : buffers'[p][d] = buffers[p][d]
        /\ buffers'[p][c] = buffers[p][c] \cup {ms[i] : i \in StayAt(p, c, ms)}
        /\ ran'[p] = ran[p] \cup {ms[i].letter : i \in RunAt(p, c, ms)}
    BY ProcessIs
  <1>2. /\ ms \in Seq(Anything)
        /\ \A i \in DOMAIN ms : ms[i] \in InCol(c)
    BY InColSeq
  <1>3. To[l] \in User /\ To[l] \in Col
    BY Letters DEF Col
  <1>4. \A i \in DOMAIN ms : ms[i] \in About(l) <=> ms[i] \in Proper /\ ms[i].letter = l
    BY <1>2, ProperFields, AboutIs, InColFields
  <1>5. \A i \in StayAt(p, c, ms) \cup RunAt(p, c, ms) :
            i \in DOMAIN ms /\ ms[i] \in Proper /\ ms[i].type # "post"
    BY OneFate DEF StayAt, RunAt
  <1>6. CASE Count(ms, l) = 0
    <2>1. NoHit(ms, About(l))
      BY <1>2, <1>6, CountIs
    <2>2. \A i \in DOMAIN ms : ms[i] \notin About(l)
      BY <2>1 DEF NoHit, Hits
    <2>3. Sends(p, c, ms, l, {})
      BY <2>1, CountOutgoing DEF Sends
    <2>4. SameAside(p, l)
      <3>1. \A i \in StayAt(p, c, ms) : ms[i].letter # l
        BY <1>4, <1>5, <2>2
      <3> QED
        BY <1>1, <1>3, <3>1 DEF SameAside, AsideOf
    <2>5. SameRan(p, l)
      <3>1. \A i \in RunAt(p, c, ms) : ms[i].letter # l
        BY <1>4, <1>5, <2>2
      <3> QED
        BY <1>1, <3>1 DEF SameRan
    <2> QED
      BY <1>6, <2>3, <2>4, <2>5 DEF HasNone
  <1>7. CASE Count(ms, l) = 1
    <2>1. PICK i \in DOMAIN ms : Hits(ms, About(l)) = {i}
      BY <1>2, <1>7, CountIs DEF OneHit
    <2>2. /\ ms[i] \in About(l) /\ ms[i] \in Proper /\ ms[i].letter = l
          /\ \A j \in DOMAIN ms \ {i} : ms[j] \notin About(l)
      BY <1>4, <2>1 DEF Hits
    <2>3. c = To[l]
      BY <1>2, <2>2, InColFields, ProperFields
    <2>4. ms[i].type = "entry" <=> ~Bcast(l)
      BY <2>2, ProperFields
    <2>5. \A r \in PE : Count(outgoing(p, c, ms)[r], l) =
                    IF \/ CopyRuns(p, c, ms, i) /\ r \in span_tree_children(p)
                       \/ Goes(p, c, ms, i, r)
                    THEN 1 ELSE 0
      BY <2>1, CountOutgoing
    <2>6. AsideOf(buffers, p, l) = {}
      BY <1>7
    <2>7. \A j \in StayAt(p, c, ms) \cup RunAt(p, c, ms) : ms[j].letter = l => j = i
      BY <1>4, <1>5, <2>2
    <2>8. i \notin StayAt(p, c, ms) => SameAside(p, l)
      BY <1>1, <2>3, <2>7 DEF SameAside, AsideOf
    <2>9. i \notin RunAt(p, c, ms) => SameRan(p, l)
      BY <1>1, <2>7 DEF SameRan
    <2>10. CASE Runs(p, c, ms, i)
      <3>1. /\ i \notin StayAt(p, c, ms)
            /\ \A r \in PE : ~Goes(p, c, ms, i, r)
            /\ CopyRuns(p, c, ms, i) <=> Bcast(l)
        BY <2>4, <2>10, OneFate DEF StayAt, Runs
      <3>2. l \in ran'[p]
        BY <1>1, <2>2, <2>10 DEF RunAt
      <3>3. Sends(p, c, ms, l, IF Bcast(l) THEN span_tree_children(p) ELSE {})
        BY <2>5, <3>1 DEF Sends
      <3> QED
        BY <1>7, <2>8, <3>1, <3>2, <3>3 DEF HasRun
    <2>11. CASE Stays(p, c, ms, i)
      <3>1. /\ i \in StayAt(p, c, ms) /\ i \notin RunAt(p, c, ms)
            /\ ~CopyRuns(p, c, ms, i)
            /\ \A r \in PE : ~Goes(p, c, ms, i, r)
        BY <2>11, OneFate DEF StayAt, RunAt
      <3>2. Sends(p, c, ms, l, {})
        BY <2>5, <3>1 DEF Sends
      <3>3. AsideOf(buffers', p, l) = {ms[i]}
        BY <1>1, <2>2, <2>3, <2>6, <2>7, <3>1 DEF AsideOf
      <3> QED
        BY <1>7, <2>9, <3>1, <3>2, <3>3 DEF HasPutAside
    <2>12. ASSUME NEW z \in PE, Goes(p, c, ms, i, z)
           PROVE  HasSentOn(p, c, ms, l)
      <3>1. /\ i \notin StayAt(p, c, ms) /\ i \notin RunAt(p, c, ms)
            /\ ~CopyRuns(p, c, ms, i)
            /\ \A r \in PE : Goes(p, c, ms, i, r) <=> r = z
        BY <2>12, OneFate DEF StayAt, RunAt
      <3>2. Sends(p, c, ms, l, {z})
        BY <2>5, <3>1 DEF Sends
      <3> QED
        BY <1>7, <2>8, <2>9, <3>1, <3>2 DEF HasSentOn
    <2>13. \/ Runs(p, c, ms, i) \/ Stays(p, c, ms, i)
           \/ \E z \in PE : Goes(p, c, ms, i, z)
      BY <2>2, OneFate
    <2> QED
      BY <2>10, <2>11, <2>12, <2>13
  <1> QED
    BY <1>6, <1>7

-----------------------------------------------------------------------------
(* Where the messages about a letter are *)

Early == {e \in [PE -> [Col -> Seq(Anything)]] :
              \A p \in PE, c \in Col : e[p][c] \in Seq(InCol(c))}

Shape ==
    /\ queue \in Nets
    /\ collection_buffer \in Early
    /\ buffers \in Asides
    /\ ran \in [PE -> SUBSET Letter]
    /\ last_bcast \in [PE -> [Col -> Nat]]

(* A message a broadcast should not have: a copy before the root has run   *)
(* it, or a post after that.                                               *)
Wrong(l, done) ==
    {m \in About(l) : Bcast(l) /\ ~(m.type = "copy" <=> l \in done)}

NowhereIn(net, early_, l, T) ==
    \A p \in PE : /\ NoHit(early_[p][To[l]], T)
                  /\ \A q \in PE : NoHit(net[q][p], T)

Once(l) == \E p \in PE : At(p, l) = 1 /\ \A q \in PE \ {p} : At(q, l) = 0

Fine(l) ==
    /\ l \notin sent => \A p \in PE : At(p, l) = 0
    /\ l \in sent /\ ~Bcast(l) => Once(l)
    /\ l \in sent /\ Bcast(l) => (l \notin ran[0] /\ Once(l)) \/ Passed(l)
    /\ NowhereIn(queue, collection_buffer, l, Wrong(l, ran[0]))

Conserved == \A l \in Letter : Fine(l)

(* Under way to p, or early there *)
Afoot(net, early_, p, l) == Arriving(net, p, l) + Count(early_[p][To[l]], l)

LEMMA TreeIs ==
    ASSUME NEW p \in PE
    PROVE  /\ 0 \in PE /\ 0 \notin span_tree_children(p)
           /\ p \notin span_tree_children(p)
           /\ span_tree_children(p) \subseteq PE
           /\ \A q \in PE \ {0} : /\ q \in span_tree_children(p) <=> span_tree_parent(q) = p
                                  /\ span_tree_parent(q) \in PE
  <1>1. ASSUME NEW q \in PE, q > 0
        PROVE  (q - 1) \div Branch \in Nat /\ (q - 1) \div Branch < q
    <2> DEFINE d == (q - 1) \div Branch
    <2>1. q - 1 \in Nat /\ Branch \in Nat \ {0} /\ q \in Nat
      BY <1>1, NumPesAssumption, BranchAssumption DEF PE
    <2>2. d \in Nat /\ d * Branch <= q - 1
      BY <2>1, DivisionFacts
    <2> HIDE DEF d
    <2>3. d * 1 <= d * Branch
      BY <2>1, <2>2
    <2>4. d < q
      BY <2>1, <2>2, <2>3
    <2> QED
      BY <2>2, <2>4 DEF d
  <1>2. 0 \in PE /\ PE \subseteq Nat /\ \A q \in PE, n \in Nat : n < q => n \in PE
    BY NumPesAssumption DEF PE
  <1> QED
    BY <1>1, <1>2 DEF span_tree_children, span_tree_parent

LEMMA AfootNat ==
    ASSUME NEW net \in Nets, NEW early_ \in Early, NEW p \in PE, NEW l \in Letter
    PROVE  /\ Afoot(net, early_, p, l) \in Nat
           /\ Arriving(net, p, l) \in Nat
           /\ early_[p][To[l]] \in Seq(Anything)
           /\ Count(early_[p][To[l]], l) \in Nat
  <1>1. To[l] \in Col
    BY Letters DEF Col
  <1>2. early_[p][To[l]] \in Seq(Anything)
    BY <1>1 DEF Early
  <1>3. Count(early_[p][To[l]], l) \in Nat /\ Arriving(net, p, l) \in Nat
    BY <1>2, CountIs, ArrivingNat
  <1> QED
    BY <1>2, <1>3 DEF Afoot

(* Where nothing is afoot, there is nothing *)
LEMMA NothingAfoot ==
    ASSUME NEW net \in Nets, NEW early_ \in Early, NEW l \in Letter,
           \A p \in PE : Afoot(net, early_, p, l) = 0,
           NEW T \in SUBSET About(l)
    PROVE  NowhereIn(net, early_, l, T)
  <1>2. ASSUME NEW p \in PE
        PROVE  /\ NoHit(early_[p][To[l]], About(l))
               /\ \A q \in PE : NoHit(net[q][p], About(l))
    <2>1. Arriving(net, p, l) = 0 /\ Count(early_[p][To[l]], l) = 0
      <3>1. Arriving(net, p, l) \in Nat /\ Count(early_[p][To[l]], l) \in Nat
        BY AfootNat
      <3> QED
        BY <3>1 DEF Afoot
    <2>2. /\ early_[p][To[l]] \in Seq(Anything)
          /\ \A q \in PE : net[q][p] \in Seq(Anything)
      BY AfootNat DEF Nets
    <2>3. \A q \in PE : Count(net[q][p], l) \in Nat /\ Count(net[q][p], l) <= 0
      BY <2>1, <2>2, ArrivingNat, CountIs
    <2>4. \A q \in PE : Count(net[q][p], l) = 0
      BY <2>3
    <2> QED
      BY <2>1, <2>2, <2>4, CountIs
  <1> QED
    BY <1>2 DEF NowhereIn, NoHit, Hits

(* A message to one element is never wrong *)
LEMMA NoWrong ==
    ASSUME NEW l, ~Bcast(l), NEW net, NEW early_, NEW done
    PROVE  NowhereIn(net, early_, l, Wrong(l, done))
  BY DEF NowhereIn, Wrong, NoHit, Hits

(* All messages stay on their PEs, and nobody has run the letter *)
LEMMA Unmoved ==
    ASSUME NEW l, Fine(l), l \in sent' <=> l \in sent,
           \A r \in PE : At(r, l)' = At(r, l) /\ (l \in ran'[r] <=> l \in ran[r]),
           NowhereIn(queue', collection_buffer', l, Wrong(l, ran'[0]))
    PROVE  Fine(l)'
  <1>1. Once(l) => Once(l)'
    BY DEF Once
  <1>3. 0 \in PE
    BY NumPesAssumption DEF PE
  <1>4. \A q \in PE \ {0} : span_tree_parent(q) \in PE
    BY <1>3, TreeIs
  <1>2. Passed(l) => Passed(l)'
    BY <1>3, <1>4 DEF Passed
  <1> QED
    BY <1>1, <1>2, <1>3 DEF Fine, Bcast

-----------------------------------------------------------------------------
(* A handler takes the messages hs of c in hand, which leaves net and      *)
(* early_, and sends on what Process does not keep.                        *)

HandOver(p, c, hs, net, early_, l) ==
    /\ \A r \in PE : Afoot(queue, collection_buffer, r, l) =
                         Afoot(net, early_, r, l) + (IF r = p THEN Count(hs, l) ELSE 0)
    /\ \A r \in PE : Afoot(queue', collection_buffer', r, l) =
                         Afoot(net, early_, r, l)
                         + Count(outgoing(p, c, numbered(p, c, hs))[r], l)
    /\ \A done : NowhereIn(queue, collection_buffer, l, Wrong(l, done)) =>
                    /\ NowhereIn(net, early_, l, Wrong(l, done))
                    /\ NoHit(hs, Wrong(l, done))
    /\ \A done :
          /\ NowhereIn(net, early_, l, Wrong(l, done))
          /\ \A r \in PE : NoHit(outgoing(p, c, numbered(p, c, hs))[r], Wrong(l, done))
          => NowhereIn(queue', collection_buffer', l, Wrong(l, done))

(* What is sent on is wrong only if it was in hand *)
LEMMA WrongOutgoing ==
    ASSUME NEW p \in PE, NEW c \in User, NEW ms \in Seq(InCol(c)), NEW l, NEW done,
           \A i \in DOMAIN ms : ms[i] \notin Wrong(l, done), NEW r \in PE
    PROVE  NoHit(outgoing(p, c, ms)[r], Wrong(l, done))
  <1>1. ASSUME NEW i \in DOMAIN ms
        PROVE  NoHit(Parcel(p, c, ms, i, r), Wrong(l, done))
    <2>1. ms[i] \notin Wrong(l, done)
      OBVIOUS
    <2>2. ASSUME CopyRuns(p, c, ms, i)
          PROVE  pack_message(ms[i]) \notin Wrong(l, done)
      <3>1. ms[i] \in Proper
        BY <2>2, OneFate
      <3> QED
        BY <2>1, <3>1, Packed, ProperFields, AboutIs DEF Wrong
    <2> QED
      BY <2>1, <2>2, ParcelIs, EmptyHits, SingleHits
  <1> QED
    BY <1>1, NoneOutgoing

LEMMA AsideNat ==
    ASSUME NEW bufs \in Asides, NEW p \in PE, NEW l \in Letter
    PROVE  /\ IsFiniteSet(AsideOf(bufs, p, l))
           /\ Cardinality(AsideOf(bufs, p, l)) \in Nat
           /\ Cardinality(AsideOf(bufs, p, l)) = 0 <=> AsideOf(bufs, p, l) = {}
  <1>1. To[l] \in Col
    BY Letters DEF Col
  <1>2. IsFiniteSet(bufs[p][To[l]])
    BY <1>1 DEF Asides
  <1>3. AsideOf(bufs, p, l) \in SUBSET bufs[p][To[l]]
    BY DEF AsideOf
  <1>4. IsFiniteSet(AsideOf(bufs, p, l))
    BY <1>2, <1>3, FS_Subset
  <1> QED
    BY <1>4, FS_CardinalityType, FS_EmptySet

AtNow(p, l) ==
    At(p, l) = Afoot(queue, collection_buffer, p, l)
               + Cardinality(AsideOf(buffers, p, l))
               + IF l \in ran[p] THEN 1 ELSE 0

LEMMA AtIs ==
    ASSUME NEW p \in PE, NEW l \in Letter
    PROVE  AtNow(p, l) /\ AtNow(p, l)'
  BY DEF AtNow, At, incoming, Afoot, Arriving, ArrivingIn, AsideOf

(* What is in hand: at most one message of a letter, which nobody has run *)
(* or put aside on this PE.                                                *)
InHand(p, c, hs, net, early_, l) ==
    /\ At(p, l) = 1 /\ l \in sent /\ l \notin ran[p]
    /\ Count(numbered(p, c, hs), l) = 1
    /\ Afoot(net, early_, p, l) = 0
    /\ AsideOf(buffers, p, l) = {}

LEMMA HandIs ==
    ASSUME queue \in Nets, collection_buffer \in Early, buffers \in Asides,
           last_bcast \in [PE -> [Col -> Nat]],
           NEW l \in Letter, Fine(l), NEW p \in PE, NEW c \in User,
           NEW hs \in Seq(InCol(c)), NEW net \in Nets, NEW early_ \in Early,
           HandOver(p, c, hs, net, early_, l)
    PROVE  /\ Count(numbered(p, c, hs), l) = 0 \/ InHand(p, c, hs, net, early_, l)
           /\ Count(hs, l) = Count(numbered(p, c, hs), l)
           /\ numbered(p, c, hs) \in Seq(InCol(c))
  <1> DEFINE ms == numbered(p, c, hs)
             a == Afoot(queue, collection_buffer, p, l)
             b == Afoot(net, early_, p, l)
             d == Cardinality(AsideOf(buffers, p, l))
             e == IF l \in ran[p] THEN 1 ELSE 0
  <1>1. ms \in Seq(InCol(c)) /\ Alike(hs, ms)
    <2>1. last_bcast[p][c] \in Nat
      BY DEF Col
    <2> QED
      BY <2>1, NumberedIs
  <1>2. hs \in Seq(Anything) /\ ms \in Seq(Anything)
    BY <1>1, InColSeq
  <1>3. Count(hs, l) = Count(ms, l) /\ Count(ms, l) \in Nat
    <2> HIDE DEF ms
    <2> QED
      BY <1>1, <1>2, CountAlike, CountIs
  <1>4. a \in Nat /\ b \in Nat
    BY AfootNat
  <1>5. d \in Nat /\ (d = 0 <=> AsideOf(buffers, p, l) = {})
    BY AsideNat
  <1>6. At(p, l) = a + d + e /\ e \in {0, 1} /\ (e = 0 => l \notin ran[p])
    BY AtIs DEF AtNow
  <1>7. At(p, l) \in {0, 1} /\ (l \notin sent => At(p, l) = 0)
    BY DEF Fine, Once, Passed
  <1>8. a = b + Count(hs, l)
    BY DEF HandOver
  <1> HIDE DEF ms, a, b, d, e
  <1>9. ASSUME Count(ms, l) # 0
        PROVE  /\ Count(ms, l) = 1 /\ b = 0 /\ d = 0
               /\ l \notin ran[p] /\ At(p, l) = 1 /\ l \in sent
    <2>1. a \in Nat \ {0} /\ a = b + Count(ms, l)
      BY <1>3, <1>4, <1>8, <1>9
    <2>2. At(p, l) = 1 /\ a = 1 /\ d = 0 /\ e = 0
      BY <1>5, <1>6, <1>7, <2>1
    <2>3. Count(ms, l) = 1 /\ b = 0
      BY <1>3, <1>4, <1>9, <2>1, <2>2
    <2> QED
      BY <1>6, <1>7, <2>2, <2>3
  <1> QED
    BY <1>1, <1>3, <1>5, <1>9 DEF InHand, ms, b, d

(* Where its messages are after the step *)
LEMMA HandMoves ==
    ASSUME queue \in Nets, collection_buffer \in Early, buffers \in Asides,
           buffers' \in Asides, ran \in [PE -> SUBSET Letter],
           NEW l \in Letter, NEW p \in PE, NEW c \in User,
           NEW hs \in Seq(InCol(c)), NEW net \in Nets, NEW early_ \in Early,
           HandOver(p, c, hs, net, early_, l),
           \A q \in PE \ {p} : buffers'[q] = buffers[q] /\ ran'[q] = ran[q],
           NEW R \in SUBSET PE, Sends(p, c, numbered(p, c, hs), l, R)
    PROVE  /\ \A r \in PE \ {p} :
                 /\ At(r, l)' = At(r, l) + IF r \in R THEN 1 ELSE 0
                 /\ l \in ran'[r] <=> l \in ran[r]
           /\ At(p, l)' = Afoot(net, early_, p, l) + (IF p \in R THEN 1 ELSE 0)
                          + Cardinality(AsideOf(buffers', p, l))
                          + IF l \in ran'[p] THEN 1 ELSE 0
  <1> DEFINE a(r) == Afoot(queue, collection_buffer, r, l)
             b(r) == Afoot(net, early_, r, l)
             n(r) == Afoot(queue', collection_buffer', r, l)
             d(r) == Cardinality(AsideOf(buffers, r, l))
             x(r) == Cardinality(AsideOf(buffers', r, l))
             e(r) == IF l \in ran[r] THEN 1 ELSE 0
             f(r) == IF l \in ran'[r] THEN 1 ELSE 0
             k(r) == IF r \in R THEN 1 ELSE 0
  <1>1. \A r \in PE : n(r) = b(r) + k(r)
    BY DEF HandOver, Sends
  <1>2. \A r \in PE \ {p} : a(r) = b(r)
    <2>1. \A r \in PE : b(r) \in Nat
      BY AfootNat
    <2>2. \A r \in PE \ {p} : a(r) = b(r) + 0
      BY DEF HandOver
    <2> HIDE DEF a, b
    <2> QED
      BY <2>1, <2>2
  <1>3. \A r \in PE : /\ At(r, l) = a(r) + d(r) + e(r)
                      /\ At(r, l)' = n(r) + x(r) + f(r)
    BY AtIs DEF AtNow, AsideOf
  <1>4. \A r \in PE \ {p} : x(r) = d(r) /\ f(r) = e(r) /\ (l \in ran'[r] <=> l \in ran[r])
    BY DEF AsideOf
  <1>5. \A r \in PE : b(r) \in Nat /\ d(r) \in Nat /\ x(r) \in Nat /\ k(r) \in {0, 1}
                      /\ e(r) \in {0, 1}
    BY AfootNat, AsideNat
  <1> HIDE DEF a, b, n, d, x, e, f, k
  <1>6. \A r \in PE \ {p} : At(r, l)' = At(r, l) + k(r)
    BY <1>1, <1>2, <1>3, <1>4, <1>5
  <1>7. At(p, l)' = b(p) + k(p) + x(p) + f(p)
    BY <1>1, <1>3
  <1> QED
    BY <1>4, <1>6, <1>7 DEF b, x, f, k

LEMMA QuietOutgoing ==
    ASSUME NEW p \in PE, NEW c \in User, NEW ms \in Seq(InCol(c)), NEW l,
           Sends(p, c, ms, l, {}), NEW done, NEW r \in PE
    PROVE  NoHit(outgoing(p, c, ms)[r], Wrong(l, done))
  <1>1. Count(outgoing(p, c, ms)[r], l) = 0 /\ outgoing(p, c, ms)[r] \in Seq(Anything)
    BY OutgoingIs DEF Sends, Sendings
  <1>2. NoHit(outgoing(p, c, ms)[r], About(l))
    BY <1>1, CountIs
  <1> QED
    BY <1>2 DEF NoHit, Hits, Wrong

(* Whatever a handler does with the letter, the invariant is kept *)
LEMMA Handled ==
    ASSUME queue \in Nets, collection_buffer \in Early, buffers \in Asides,
           ran \in [PE -> SUBSET Letter], last_bcast \in [PE -> [Col -> Nat]],
           NEW l \in Letter, Fine(l), NEW p \in PE, NEW c \in User,
           \A i \in chares'[p][c] : home_pe(i) = p,
           NEW hs \in Seq(InCol(c)), NEW net \in Nets, NEW early_ \in Early,
           HandOver(p, c, hs, net, early_, l),
           NEW bad, Process(p, c, numbered(p, c, hs), bad), sent' = sent
    PROVE  Fine(l)'
  <1> DEFINE ms == numbered(p, c, hs)
  <1>1. /\ Count(ms, l) = 0 \/ InHand(p, c, hs, net, early_, l)
        /\ Count(hs, l) = Count(ms, l)
        /\ ms \in Seq(InCol(c)) /\ ms \in Seq(Anything)
    BY HandIs, InColSeq
  <1>2. /\ buffers' \in Asides
        /\ \A q \in PE \ {p} : buffers'[q] = buffers[q] /\ ran'[q] = ran[q]
    BY <1>1, ProcessIs
  <1>3. \/ HasNone(p, c, ms, l) \/ HasRun(p, c, ms, l)
        \/ HasPutAside(p, c, ms, l) \/ HasSentOn(p, c, ms, l)
    <2>1. Count(ms, l) \in {0, 1} /\ (Count(ms, l) = 1 => AsideOf(buffers, p, l) = {})
      BY <1>1 DEF InHand
    <2> HIDE DEF ms
    <2> QED
      BY <1>1, <2>1, Fate DEF ms
  <1>4. \A R \in SUBSET PE : Sends(p, c, ms, l, R) =>
           /\ \A r \in PE \ {p} :
                 /\ At(r, l)' = At(r, l) + IF r \in R THEN 1 ELSE 0
                 /\ l \in ran'[r] <=> l \in ran[r]
           /\ At(p, l)' = Afoot(net, early_, p, l) + (IF p \in R THEN 1 ELSE 0)
                          + Cardinality(AsideOf(buffers', p, l))
                          + IF l \in ran'[p] THEN 1 ELSE 0
    BY <1>2, HandMoves
  <1>5. NowhereIn(net, early_, l, Wrong(l, ran[0])) /\ NoHit(hs, Wrong(l, ran[0]))
    BY DEF Fine, HandOver
  <1>6. \A done : /\ NowhereIn(net, early_, l, Wrong(l, done))
                  /\ \A r \in PE : NoHit(outgoing(p, c, ms)[r], Wrong(l, done))
                  => NowhereIn(queue', collection_buffer', l, Wrong(l, done))
    BY DEF HandOver
  <1>7. 0 \in PE
    BY NumPesAssumption DEF PE
  <1>8. At(p, l) \in Nat /\ \A r \in PE : At(r, l) \in {0, 1}
    <2>1. \A r \in PE : At(r, l) \in {0, 1}
      BY DEF Fine, Once, Passed
    <2> QED
      BY <2>1
  <1> HIDE DEF ms
  <1>9. ASSUME Sends(p, c, ms, l, {}), SameRan(p, l), At(p, l)' = At(p, l)
        PROVE  Fine(l)'
    <2>1. \A r \in PE : At(r, l)' = At(r, l) /\ (l \in ran'[r] <=> l \in ran[r])
      <3>1. /\ \A r \in PE \ {p} : At(r, l)' = At(r, l) + IF r \in {} THEN 1 ELSE 0
            /\ \A r \in PE \ {p} : l \in ran'[r] <=> l \in ran[r]
        BY <1>4, <1>9
      <3>2. ASSUME NEW r \in PE \ {p}
            PROVE  At(r, l)' = At(r, l)
        <4>1. At(r, l)' = At(r, l) + 0 /\ At(r, l) \in {0, 1}
          BY <1>8, <3>1
        <4> QED
          BY <4>1
      <3> QED
        BY <1>9, <3>1, <3>2 DEF SameRan
    <2>2. \A r \in PE : NoHit(outgoing(p, c, ms)[r], Wrong(l, ran[0]))
      BY <1>1, <1>9, QuietOutgoing
    <2>3. NowhereIn(queue', collection_buffer', l, Wrong(l, ran[0]))
      BY <1>5, <1>6, <2>2
    <2>4. Wrong(l, ran'[0]) = Wrong(l, ran[0])
      BY <1>7, <2>1 DEF Wrong
    <2> QED
      BY <2>1, <2>3, <2>4, Unmoved
  <1>10. CASE HasNone(p, c, ms, l)
    <2>1. At(p, l)' = At(p, l)
      <3> DEFINE b == Afoot(net, early_, p, l)
                 d == Cardinality(AsideOf(buffers, p, l))
                 e == IF l \in ran[p] THEN 1 ELSE 0
      <3>1. b \in Nat /\ d \in Nat /\ e \in Nat
        BY AfootNat, AsideNat
      <3>2. At(p, l)' = b + 0 + d + e
        BY <1>4, <1>10 DEF HasNone, SameAside, SameRan
      <3>3. At(p, l) = (b + Count(hs, l)) + d + e
        BY AtIs DEF AtNow, HandOver
      <3>4. Count(hs, l) = 0
        BY <1>1, <1>10 DEF HasNone
      <3> HIDE DEF b, d, e
      <3> QED
        BY <3>1, <3>2, <3>3, <3>4
    <2> QED
      BY <1>9, <1>10, <2>1 DEF HasNone
  <1>11. CASE HasPutAside(p, c, ms, l)
    <2>1. At(p, l)' = At(p, l)
      <3>1. InHand(p, c, hs, net, early_, l)
        BY <1>1, <1>11 DEF HasPutAside
      <3>2. Cardinality(AsideOf(buffers', p, l)) = 1
        BY <1>11, FS_Singleton DEF HasPutAside
      <3>3. l \notin ran'[p]
        BY <1>11, <3>1 DEF HasPutAside, SameRan, InHand
      <3>4. At(p, l)' = 0 + 0 + 1 + 0
        BY <1>4, <1>11, <3>1, <3>2, <3>3 DEF HasPutAside, InHand
      <3> QED
        BY <3>1, <3>4 DEF InHand
    <2> QED
      BY <1>9, <1>11, <2>1 DEF HasPutAside
  <1>12. ASSUME InHand(p, c, hs, net, early_, l)
         PROVE  /\ \E i \in DOMAIN ms : Hits(ms, About(l)) = {i}
                /\ ~Bcast(l) => Once(l)
                /\ Bcast(l) /\ l \notin ran[0] => Once(l)
                /\ Bcast(l) /\ l \in ran[0] => Passed(l) /\ p # 0
                /\ \A x \in PE : At(x, l) = 1 /\ (\A r \in PE \ {x} : At(r, l) = 0) => x = p
                /\ l \in sent /\ l \in sent'
    <2>1. \E i \in DOMAIN ms : Hits(ms, About(l)) = {i}
      BY <1>1, <1>12, CountIs DEF InHand, OneHit, ms
    <2>2. At(p, l) = 1 /\ l \in sent /\ l \notin ran[p]
      BY <1>12 DEF InHand
    <2> QED
      BY <1>7, <2>1, <2>2 DEF Fine, Passed
  <1>13. ASSUME InHand(p, c, hs, net, early_, l), NEW i \in DOMAIN ms,
                Hits(ms, About(l)) = {i}, Bcast(l)
         PROVE  /\ i \in DOMAIN hs
                /\ ms[i] \in About(l) /\ ms[i].type \in {"post", "copy"}
                /\ hs[i].type \in {"post", "copy"}
                /\ hs[i].type = "copy" <=> l \in ran[0]
                /\ hs[i].type = "post" /\ ms[i].type = "copy" => p = 0
                /\ hs[i].type = "copy" => ms[i].type = "copy"
                /\ \A done : (ms[i].type = "copy" <=> l \in done) =>
                       \A j \in DOMAIN ms : ms[j] \notin Wrong(l, done)
    <2>1. last_bcast[p][c] \in Nat
      BY DEF Col
    <2>2. /\ Alike(hs, ms)
          /\ \A j \in DOMAIN hs :
                 /\ ~(hs[j].type = "post" /\ RootHere(p, c)) => ms[j] = hs[j]
                 /\ hs[j].type = "post" /\ RootHere(p, c) => ms[j].type = "copy"
      BY <2>1, NumberedIs DEF ms
    <2>3. /\ i \in DOMAIN hs /\ ms[i] \in About(l) /\ hs[i] \in About(l)
          /\ \A j \in DOMAIN ms \ {i} : ms[j] \notin About(l)
      BY <1>13, <2>2 DEF Alike, Hits
    <2>4. \A m \in About(l) : m.type \in {"post", "copy"} /\ m \in Anything
      BY <1>13, ProperFields DEF About
    <2>5. hs[i].type = "copy" <=> l \in ran[0]
      BY <1>5, <1>13, <2>3 DEF NoHit, Hits, Wrong
    <2>6. RootHere(p, c) => p = 0
      BY NumPesAssumption DEF RootHere, home_pe, PE
    <2>7. \A done : (ms[i].type = "copy" <=> l \in done) =>
                       \A j \in DOMAIN ms : ms[j] \notin Wrong(l, done)
      BY <2>3 DEF Wrong
    <2> QED
      BY <2>2, <2>3, <2>4, <2>5, <2>6, <2>7
  <1>14. CASE HasSentOn(p, c, ms, l)
    <2>1. InHand(p, c, hs, net, early_, l)
      BY <1>1, <1>14 DEF HasSentOn
    <2>2. PICK z \in PE : Sends(p, c, ms, l, {z})
      BY <1>14 DEF HasSentOn
    <2>3. /\ \A r \in PE \ {p} : At(r, l)' = At(r, l) + IF r = z THEN 1 ELSE 0
          /\ At(p, l)' = IF p = z THEN 1 ELSE 0
          /\ \A r \in PE : l \in ran'[r] <=> l \in ran[r]
      <3>1. AsideOf(buffers', p, l) = {} /\ l \notin ran'[p] /\ Afoot(net, early_, p, l) = 0
            /\ l \notin ran[p]
        BY <1>14, <2>1 DEF HasSentOn, InHand, SameAside, SameRan
      <3>2. Cardinality(AsideOf(buffers', p, l)) = 0
        BY <3>1, FS_EmptySet
      <3>3. /\ \A r \in PE \ {p} : /\ At(r, l)' = At(r, l) + IF r \in {z} THEN 1 ELSE 0
                                   /\ l \in ran'[r] <=> l \in ran[r]
            /\ At(p, l)' = 0 + (IF p \in {z} THEN 1 ELSE 0) + 0 + 0
        BY <1>4, <2>2, <3>1, <3>2
      <3> QED
        BY <3>1, <3>3
    <2>4. Once(l) => Once(l)'
      <3>1. Once(l) => \A r \in PE \ {p} : At(r, l) = 0
        BY <1>12, <2>1 DEF Once
      <3>2. ASSUME Once(l), NEW r \in PE
            PROVE  At(r, l)' = IF r = z THEN 1 ELSE 0
        <4>1. CASE r = p
          BY <2>3, <4>1
        <4>2. CASE r # p
          <5>1. At(r, l) = 0 /\ At(r, l)' = At(r, l) + IF r = z THEN 1 ELSE 0
            BY <2>3, <3>1, <3>2, <4>2
          <5> QED
            BY <5>1
        <4> QED
          BY <4>1, <4>2
      <3> QED
        BY <3>2 DEF Once
    <2>5. CASE ~Bcast(l)
      BY <1>12, <2>1, <2>4, <2>5, NoWrong DEF Fine, Bcast
    <2>6. CASE Bcast(l)
      <3>1. PICK i \in DOMAIN ms : Hits(ms, About(l)) = {i}
        BY <1>12, <2>1
      <3>2. ms[i].type # "copy"
        <4>1. Count(outgoing(p, c, ms)[z], l) = 1
          BY <2>2 DEF Sends
        <4>2. CopyRuns(p, c, ms, i) \/ Goes(p, c, ms, i, z)
          <5>2. ms \in Seq(InCol(c))
            BY <1>1
          <5>1. Count(outgoing(p, c, ms)[z], l) =
                    IF \/ CopyRuns(p, c, ms, i) /\ z \in span_tree_children(p)
                       \/ Goes(p, c, ms, i, z)
                    THEN 1 ELSE 0
            BY ONLY <5>2, <3>1, CountOutgoing, p \in PE, c \in User, z \in PE, i \in DOMAIN ms
          <5> QED
            BY <4>1, <5>1
        <4>3. ~CopyRuns(p, c, ms, i)
          <5>1. ASSUME CopyRuns(p, c, ms, i)
                PROVE  l \in ran'[p]
            <6>1. i \in RunAt(p, c, ms) /\ ms[i].letter = l
              BY <3>1, <5>1 DEF CopyRuns, RunAt, Hits, About
            <6> QED
              BY <1>1, <6>1, ProcessIs DEF ms
          <5> QED
            BY <1>14, <2>1, <5>1 DEF HasSentOn, SameRan, InHand
        <4> QED
          BY <1>1, <4>2, <4>3, OneFate
      <3>3. l \notin ran[0] /\ \A j \in DOMAIN ms : ms[j] \notin Wrong(l, ran[0])
        BY <1>13, <2>1, <2>6, <3>1, <3>2
      <3>4. NowhereIn(queue', collection_buffer', l, Wrong(l, ran[0]))
        BY <1>1, <1>5, <1>6, <3>3, WrongOutgoing
      <3>5. Wrong(l, ran'[0]) = Wrong(l, ran[0]) /\ l \notin ran'[0]
        BY <1>7, <2>3, <3>3 DEF Wrong
      <3>6. Once(l)'
        BY <1>12, <2>1, <2>4, <2>6, <3>3
      <3> QED
        BY <1>12, <2>1, <2>6, <3>4, <3>5, <3>6 DEF Fine, Bcast
    <2> QED
      BY <2>5, <2>6
  <1>15. CASE HasRun(p, c, ms, l)
    <2>1. InHand(p, c, hs, net, early_, l)
      BY <1>1, <1>15 DEF HasRun
    <2> DEFINE R == IF Bcast(l) THEN span_tree_children(p) ELSE {}
    <2>2. /\ R \in SUBSET PE /\ p \notin R /\ 0 \notin R
          /\ \A q \in PE \ {0} : /\ Bcast(l) => (q \in R <=> span_tree_parent(q) = p)
                                 /\ span_tree_parent(q) \in PE
      BY TreeIs
    <2>3. Sends(p, c, ms, l, R)
      BY <1>15 DEF HasRun
    <2>0. ~Bcast(l) => R = {}
      OBVIOUS
    <2> HIDE DEF R
    <2>4. /\ \A r \in PE \ {p} : /\ At(r, l)' = At(r, l) + IF r \in R THEN 1 ELSE 0
                                 /\ l \in ran'[r] <=> l \in ran[r]
          /\ At(p, l)' = 1 /\ l \in ran'[p]
      <3>1. AsideOf(buffers', p, l) = {} /\ l \in ran'[p] /\ Afoot(net, early_, p, l) = 0
        BY <1>15, <2>1 DEF HasRun, InHand, SameAside
      <3>2. Cardinality(AsideOf(buffers', p, l)) = 0
        BY <3>1, FS_EmptySet
      <3>3. At(p, l)' = 0 + 0 + 0 + 1
        BY <1>4, <2>2, <2>3, <3>1, <3>2
      <3>4. \A r \in PE \ {p} :
               /\ At(r, l)' = At(r, l) + IF r \in R THEN 1 ELSE 0
               /\ l \in ran'[r] <=> l \in ran[r]
        BY <1>4, <2>2, <2>3
      <3>5. At(p, l)' = 1
        BY <3>3
      <3> QED
        BY <3>1, <3>4, <3>5
    <2>5. CASE ~Bcast(l)
      <3>1. \A r \in PE \ {p} : At(r, l) = 0
        BY <1>12, <2>1, <2>5 DEF Once
      <3>2. Once(l)'
        BY <2>0, <2>4, <2>5, <3>1 DEF Once
      <3> QED
        BY <1>12, <2>1, <2>5, <3>2, NoWrong DEF Fine, Bcast
    <2>6. CASE Bcast(l)
      <3>1. PICK i \in DOMAIN ms : Hits(ms, About(l)) = {i}
        BY <1>12, <2>1
      <3>2. ms[i].type = "copy"
        <4>1. ASSUME ms[i].type # "copy"
              PROVE  FALSE
          <5>1. ms[i].type = "post"
            BY <1>13, <2>1, <2>6, <3>1, <4>1
          <5>2. l \notin ran'[p]
            <6>1. \A j \in RunAt(p, c, ms) : ms[j].letter # l
              <7>1. \A j \in RunAt(p, c, ms) :
                        j \in DOMAIN ms /\ ms[j] \in Proper /\ ms[j].type # "post"
                BY <1>1, OneFate DEF RunAt
              <7>2. \A j \in RunAt(p, c, ms) : ms[j].letter = l => j = i
                BY <3>1, <7>1, ProperFields DEF Hits
              <7> QED
                BY <5>1, <7>1, <7>2
            <6>2. ran'[p] = ran[p] \cup {ms[j].letter : j \in RunAt(p, c, ms)}
              BY <1>1, ProcessIs DEF ms
            <6> QED
              BY <2>1, <6>1, <6>2 DEF InHand
          <5> QED
            BY <2>4, <5>2
        <4> QED
          BY <4>1
      <3>3. CASE l \notin ran[0]
        <4>1. p = 0
          BY <1>13, <2>1, <2>6, <3>1, <3>2, <3>3
        <4>2. \A r \in PE \ {0} : At(r, l) = 0 /\ l \notin ran[r]
          <5>1. \A r \in PE \ {0} : At(r, l) = 0
            BY <1>12, <2>1, <2>6, <3>3, <4>1 DEF Once
          <5>2. ASSUME NEW r \in PE \ {0}, l \in ran[r]
                PROVE  FALSE
            <6> DEFINE a == Afoot(queue, collection_buffer, r, l)
                       d == Cardinality(AsideOf(buffers, r, l))
            <6>1. At(r, l) = a + d + 1
              BY <5>2, AtIs DEF AtNow
            <6>2. a \in Nat /\ d \in Nat
              BY AfootNat, AsideNat
            <6> HIDE DEF a, d
            <6> QED
              BY <5>1, <6>1, <6>2
          <5> QED
            BY <5>1, <5>2
        <4>3. /\ l \in ran'[0] /\ At(0, l)' = 1
              /\ \A r \in PE \ {0} :
                    At(r, l)' = IF l \in ran'[span_tree_parent(r)] THEN 1 ELSE 0
          <5>1. \A r \in PE \ {0} : At(r, l)' = IF span_tree_parent(r) = 0 THEN 1 ELSE 0
            BY <2>2, <2>4, <2>6, <4>1, <4>2
          <5>2. \A r \in PE : l \in ran'[r] <=> r = 0
            BY <2>4, <4>1, <4>2
          <5> QED
            BY <2>2, <2>4, <4>1, <5>1, <5>2
        <4>4. Passed(l)'
          BY <4>3 DEF Passed
        <4>5. NowhereIn(net, early_, l, Wrong(l, ran'[0]))
          <5>1. ASSUME NEW r \in PE
                PROVE  Afoot(net, early_, r, l) = 0
            <6>1. CASE r = p
              BY <2>1, <6>1 DEF InHand
            <6>2. CASE r # p
              <7> DEFINE a == Afoot(queue, collection_buffer, r, l)
                         b == Afoot(net, early_, r, l)
                         d == Cardinality(AsideOf(buffers, r, l))
              <7>1. At(r, l) = a + d + 0
                BY <4>1, <4>2, <6>2, AtIs DEF AtNow
              <7>2. a = b + 0
                BY <6>2 DEF HandOver
              <7>3. a \in Nat /\ b \in Nat /\ d \in Nat /\ At(r, l) = 0
                BY <4>1, <4>2, <6>2, AfootNat, AsideNat
              <7> HIDE DEF a, b, d
              <7>4. b = 0
                BY <7>1, <7>2, <7>3
              <7> QED
                BY <7>4 DEF b
            <6> QED
              BY <6>1, <6>2
          <5>2. Wrong(l, ran'[0]) \in SUBSET About(l)
            BY DEF Wrong
          <5> QED
            BY <5>1, <5>2, NothingAfoot
        <4>6. \A j \in DOMAIN ms : ms[j] \notin Wrong(l, ran'[0])
          BY <1>13, <2>1, <2>6, <3>1, <3>2, <4>3
        <4>7. NowhereIn(queue', collection_buffer', l, Wrong(l, ran'[0]))
          BY <1>1, <1>6, <4>5, <4>6, WrongOutgoing
        <4> QED
          BY <1>12, <2>1, <2>6, <4>4, <4>7 DEF Fine, Bcast
      <3>4. CASE l \in ran[0]
        <4>1. Passed(l) /\ p # 0
          BY <1>12, <2>1, <2>6, <3>4
        <4>2. Passed(l)'
          <5>1. l \in ran'[0] /\ At(0, l)' = 1
            <6>1. At(0, l)' = At(0, l) + 0 /\ At(0, l) = 1 /\ l \in ran'[0]
              BY <1>7, <2>2, <2>4, <3>4, <4>1 DEF Passed
            <6> QED
              BY <6>1
          <5>2. ASSUME NEW r \in PE \ {0}
                PROVE  At(r, l)' = IF l \in ran'[span_tree_parent(r)] THEN 1 ELSE 0
            <6>1. At(r, l) = IF l \in ran[span_tree_parent(r)] THEN 1 ELSE 0
              BY <4>1 DEF Passed
            <6>2. CASE r = p
              <7>1. At(r, l)' = 1 /\ At(r, l) = 1
                BY <2>1, <2>4, <6>2 DEF InHand
              <7>2. span_tree_parent(r) # p
                BY <2>2, <2>6, <6>2
              <7> QED
                BY <2>2, <2>4, <6>1, <7>1, <7>2
            <6>3. CASE r # p /\ span_tree_parent(r) = p
              <7>1. r \in R /\ l \notin ran[p] /\ l \in ran'[p]
                BY <2>1, <2>2, <2>4, <2>6, <6>3 DEF InHand
              <7>2. At(r, l)' = At(r, l) + 1 /\ At(r, l) = 0
                BY <2>4, <6>1, <6>3, <7>1
              <7> QED
                BY <6>3, <7>1, <7>2
            <6>4. CASE r # p /\ span_tree_parent(r) # p
              <7>1. At(r, l)' = At(r, l) + 0
                BY <2>2, <2>4, <2>6, <6>4
              <7> QED
                BY <2>2, <2>4, <6>1, <6>4, <7>1
            <6> QED
              BY <6>2, <6>3, <6>4
          <5> QED
            BY <5>1, <5>2 DEF Passed
        <4>3. l \in ran'[0] <=> l \in ran[0]
          BY <1>7, <2>4, <4>1
        <4>4. \A j \in DOMAIN ms : ms[j] \notin Wrong(l, ran[0])
          BY <1>13, <2>1, <2>6, <3>1, <3>2, <3>4
        <4>5. NowhereIn(queue', collection_buffer', l, Wrong(l, ran[0]))
          BY <1>1, <1>5, <1>6, <4>4, WrongOutgoing
        <4>6. Wrong(l, ran'[0]) = Wrong(l, ran[0])
          BY <4>3 DEF Wrong
        <4> QED
          BY <1>12, <2>1, <2>6, <4>2, <4>5, <4>6 DEF Fine, Bcast
      <3> QED
        BY <3>3, <3>4
    <2> QED
      BY <2>5, <2>6
  <1> QED
    BY <1>3, <1>10, <1>11, <1>14, <1>15

-----------------------------------------------------------------------------
(* Messages come to the PEs, and leave them *)

Reaches(net, early_, new, later, out, l) ==
    /\ \A r \in PE : Afoot(new, later, r, l) =
                         Afoot(net, early_, r, l) + Count(out[r], l)
    /\ \A done : /\ NowhereIn(net, early_, l, Wrong(l, done))
                 /\ \A r \in PE : NoHit(out[r], Wrong(l, done))
                 => NowhereIn(new, later, l, Wrong(l, done))

Leaves(net, early_, new, later, out, l) ==
    /\ \A r \in PE : Afoot(net, early_, r, l) =
                         Afoot(new, later, r, l) + Count(out[r], l)
    /\ \A done : NowhereIn(net, early_, l, Wrong(l, done)) =>
                    /\ NowhereIn(new, later, l, Wrong(l, done))
                    /\ \A r \in PE : NoHit(out[r], Wrong(l, done))

LEMMA OnlyToIs ==
    ASSUME NEW q, NEW ms \in Seq(Anything)
    PROVE  /\ OnlyTo(q, ms) \in Sendings
           /\ \A r \in PE : OnlyTo(q, ms)[r] = IF r = q THEN ms ELSE <<>>
           /\ Nothing \in Sendings
           /\ \A r \in PE : Nothing[r] = <<>>
  <1>1. <<>> \in Seq(Anything)
    OBVIOUS
  <1> QED
    BY <1>1 DEF OnlyTo, Nothing, Sendings

LEMMA ArrivedWrong ==
    ASSUME NEW s \in Seq(Anything), NEW p, NEW q, NEW l, NEW done,
           NoHit(s, Wrong(l, done))
    PROVE  NoHit(Arrived(p, q, s), Wrong(l, done))
  <1>1. \A i \in DOMAIN s : s[i] \in Anything /\ s[i] \notin Wrong(l, done)
    BY LenProperties, ElementOfSeq DEF NoHit, Hits
  <1>2. \A m \in Anything : m \notin Wrong(l, done) =>
                               send_helper_(p, q, m) \notin Wrong(l, done)
    BY Sent, AboutIs DEF Wrong
  <1> QED
    BY <1>1, <1>2 DEF NoHit, Hits, Arrived

LEMMA EmitReaches ==
    ASSUME NEW net \in Nets, NEW early_ \in Early, NEW p \in PE, NEW out \in Sendings,
           NEW l \in Letter
    PROVE  Reaches(net, early_, Emit(net, p, out), early_, out, l)
  <1> DEFINE new == Emit(net, p, out)
  <1>1. ASSUME NEW r \in PE
        PROVE  Afoot(new, early_, r, l) = Afoot(net, early_, r, l) + Count(out[r], l)
    <2> DEFINE a == Arriving(net, r, l)
               b == Arriving(new, r, l)
               d == Count(early_[r][To[l]], l)
               k == Count(out[r], l)
    <2>1. b = a + k
      BY EmitArriving
    <2>2. a \in Nat /\ d \in Nat
      BY AfootNat
    <2>3. k \in Nat
      BY CountIs DEF Sendings
    <2> HIDE DEF a, b, d, k
    <2>4. b + d = (a + d) + k
      BY <2>1, <2>2, <2>3
    <2> QED
      BY <2>4 DEF a, b, d, k, Afoot
  <1>2. ASSUME NEW done, NowhereIn(net, early_, l, Wrong(l, done)),
               \A r \in PE : NoHit(out[r], Wrong(l, done))
        PROVE  NowhereIn(new, early_, l, Wrong(l, done))
    <2>1. /\ \A q, r \in PE : q # p => new[q][r] = net[q][r]
          /\ \A r \in PE : new[p][r] = net[p][r] \o Arrived(p, r, out[r])
      BY ONLY EmitRow, net \in Nets, p \in PE, out \in Sendings
    <2> HIDE DEF new
    <2>2. ASSUME NEW r \in PE
          PROVE  NoHit(new[p][r], Wrong(l, done))
      <3> DEFINE s == net[p][r]
                 t == Arrived(p, r, out[r])
      <3>1. out[r] \in Seq(Anything) /\ s \in Seq(Anything)
        BY DEF Nets, Sendings
      <3>2. t \in Seq(Anything) /\ NoHit(t, Wrong(l, done))
        BY <1>2, <3>1, ArrivedAlike, ArrivedWrong
      <3>3. NoHit(s, Wrong(l, done)) /\ new[p][r] = s \o t
        BY <1>2, <2>1 DEF NowhereIn
      <3> HIDE DEF s, t
      <3> QED
        BY <3>1, <3>2, <3>3, ConcatHits
    <2> QED
      BY <1>2, <2>1, <2>2 DEF NowhereIn
  <1> QED
    BY <1>1, <1>2 DEF Reaches

LEMMA AppendEarly ==
    ASSUME NEW early_ \in Early, NEW p \in PE, NEW c \in Col, NEW m \in InCol(c),
           NEW later, later = [early_ EXCEPT ![p][c] = Append(@, m)]
    PROVE  later \in Early
  <1>1. Append(early_[p][c], m) \in Seq(InCol(c))
    BY AppendProperties DEF Early
  <1>2. Append(early_[p][c], m) \in Seq(Anything)
    BY <1>1, InColSeq
  <1> QED
    BY <1>1, <1>2 DEF Early

LEMMA AppendReaches ==
    ASSUME NEW net \in Nets, NEW early_ \in Early, NEW p \in PE, NEW c \in Col,
           NEW m \in InCol(c), NEW l \in Letter,
           NEW later, later = [early_ EXCEPT ![p][c] = Append(@, m)]
    PROVE  Reaches(net, early_, net, later, OnlyTo(p, <<m>>), l)
  <1> DEFINE s == early_[p][c]
             t == Append(s, m)
             h == <<m>>
  <1>0. m \in Anything
    BY InColFields
  <1>1. s \in Seq(InCol(c)) /\ s \in Seq(Anything)
    BY DEF Early
  <1>2. h \in Seq(Anything) /\ t = s \o h
    BY <1>0, <1>1, AppendProperties, AppendIsConcat
  <1>3. t \in Seq(Anything)
    BY <1>0, <1>1, AppendProperties
  <1> HIDE DEF t
  <1>4. /\ later[p][c] = t
        /\ \A r \in PE, d \in Col : ~(r = p /\ d = c) => later[r][d] = early_[r][d]
    BY <1>3 DEF Early, t
  <1>5. later \in Early
    BY AppendEarly
  <1>6. To[l] \in Col
    BY Letters DEF Col
  <1>7. \A r \in PE : OnlyTo(p, h)[r] = IF r = p THEN h ELSE <<>>
    BY <1>2, OnlyToIs
  <1>8. To[l] # c => Count(h, l) = 0
    <2>1. To[l] # c => m \notin About(l)
      BY InColFields, ProperFields DEF About
    <2> QED
      BY <1>0, <2>1, CountOne
  <1> HIDE DEF h
  <1>9. ASSUME NEW r \in PE
        PROVE  Afoot(net, later, r, l) = Afoot(net, early_, r, l)
                                         + Count(OnlyTo(p, h)[r], l)
    <2>1. Afoot(net, early_, r, l) \in Nat
      BY AfootNat
    <2>2. CASE r # p \/ To[l] # c
      <3>1. later[r][To[l]] = early_[r][To[l]]
        BY <1>4, <1>6, <2>2
      <3>2. Count(OnlyTo(p, h)[r], l) = 0
        BY <1>7, <1>8, <2>2, CountEmpty
      <3>3. Afoot(net, later, r, l) = Afoot(net, early_, r, l)
        BY <3>1 DEF Afoot
      <3> QED
        BY <2>1, <3>2, <3>3
    <2>3. CASE r = p /\ To[l] = c
      <3> DEFINE a == Arriving(net, r, l)
                 x == Count(s, l)
                 y == Count(h, l)
      <3>1. Count(t, l) = x + y
        BY <1>1, <1>2, CountConcat
      <3>2. a \in Nat /\ x \in Nat /\ y \in Nat
        BY <1>1, <1>2, CountIs, ArrivingNat
      <3>3. Afoot(net, early_, r, l) = a + x
        BY <2>3 DEF Afoot
      <3>4. Afoot(net, later, r, l) = a + (x + y)
        BY <1>4, <2>3, <3>1 DEF Afoot
      <3>5. Count(OnlyTo(p, h)[r], l) = y
        BY <1>7, <2>3
      <3> HIDE DEF a, x, y
      <3> QED
        BY <3>2, <3>3, <3>4, <3>5
    <2> QED
      BY <2>2, <2>3
  <1>10. ASSUME NEW done, NowhereIn(net, early_, l, Wrong(l, done)),
                \A r \in PE : NoHit(OnlyTo(p, h)[r], Wrong(l, done))
         PROVE  NowhereIn(net, later, l, Wrong(l, done))
    <2>1. NoHit(h, Wrong(l, done))
      BY <1>7, <1>10
    <2>2. NoHit(early_[p][To[l]], Wrong(l, done))
      BY <1>10 DEF NowhereIn
    <2>3. To[l] = c => NoHit(t, Wrong(l, done))
      BY <1>1, <1>2, <2>1, <2>2, ConcatHits
    <2> QED
      BY <1>4, <1>6, <1>10, <2>3 DEF NowhereIn
  <1> QED
    BY <1>5, <1>9, <1>10 DEF Reaches, h

LEMMA BehindLeaves ==
    ASSUME NEW net \in Nets, NEW early_ \in Early, NEW q \in PE, NEW p \in PE,
           net[q][p] # <<>>, NEW l \in Letter
    PROVE  Leaves(net, early_, Behind(net, q, p), early_,
                  OnlyTo(p, <<Head(net[q][p])>>), l)
  <1> DEFINE new == Behind(net, q, p)
             s == net[q][p]
             h == <<Head(s)>>
             out == OnlyTo(p, h)
  <1>1. s \in Seq(Anything) /\ s # <<>>
    BY DEF Nets
  <1>2. Tail(s) \in Seq(Anything) /\ h \in Seq(Anything)
    BY <1>1, HeadTailProperties
  <1>3. \A r \in PE : out[r] = IF r = p THEN h ELSE <<>>
    BY <1>2, OnlyToIs
  <1>4. new \in Nets /\ \A r \in PE :
            Arriving(net, r, l) = Arriving(new, r, l) + (IF r = p THEN Count(h, l) ELSE 0)
    BY BehindArriving
  <1>5. /\ new[q][p] = Tail(s)
        /\ \A a, r \in PE : ~(a = q /\ r = p) => new[a][r] = net[a][r]
    BY DEF Nets, Behind
  <1> HIDE DEF new, s, h, out
  <1>6. ASSUME NEW r \in PE
        PROVE  Afoot(net, early_, r, l) = Afoot(new, early_, r, l) + Count(out[r], l)
    <2> DEFINE a == Arriving(net, r, l)
               b == Arriving(new, r, l)
               d == Count(early_[r][To[l]], l)
               k == Count(out[r], l)
    <2>1. a = b + k
      BY <1>3, <1>4, CountEmpty
    <2>2. b \in Nat /\ d \in Nat
      BY <1>4, AfootNat
    <2>3. k \in Nat
      BY <1>2, <1>3, CountIs, CountEmpty
    <2> HIDE DEF a, b, d, k
    <2>4. a + d = (b + d) + k
      BY <2>1, <2>2, <2>3
    <2> QED
      BY <2>4 DEF a, b, d, k, Afoot
  <1>7. ASSUME NEW done, NowhereIn(net, early_, l, Wrong(l, done))
        PROVE  /\ NowhereIn(new, early_, l, Wrong(l, done))
               /\ \A r \in PE : NoHit(out[r], Wrong(l, done))
    <2> DEFINE T == Wrong(l, done)
    <2>1. NoHit(s, T)
      BY <1>7 DEF NowhereIn, s
    <2>2. /\ HitCount(s, T) = HitCount(Tail(s), T) + HitCount(h, T)
          /\ HitCount(s, T) = 0
      BY <1>1, <2>1, HitCountTail, HitCountType DEF h
    <2>3. HitCount(Tail(s), T) \in Nat /\ HitCount(h, T) \in Nat
      BY <1>2, HitCountType
    <2>4. HitCount(Tail(s), T) = 0 /\ HitCount(h, T) = 0
      BY <2>2, <2>3
    <2>5. NoHit(Tail(s), T) /\ NoHit(h, T)
      BY <1>2, <2>4, HitCountType
    <2> HIDE DEF T
    <2>6. \A r \in PE : NoHit(out[r], T)
      BY <1>3, <2>5, EmptyHits
    <2>7. NowhereIn(new, early_, l, T)
      BY <1>5, <1>7, <2>5 DEF NowhereIn, T
    <2> QED
      BY <2>6, <2>7 DEF T
  <1> QED
    BY <1>6, <1>7 DEF Leaves, new, out, h, s

(* A branch takes what has waited for it *)
LEMMA FlushLeaves ==
    ASSUME NEW net \in Nets, NEW early_ \in Early, NEW later \in Early, NEW p \in PE,
           NEW c \in User, later[p][c] = <<>>,
           \A r \in PE, d \in User : ~(r = p /\ d = c) => later[r][d] = early_[r][d],
           NEW l \in Letter
    PROVE  Leaves(net, early_, net, later, OnlyTo(p, early_[p][c]), l)
  <1> DEFINE s == early_[p][c]
             out == OnlyTo(p, s)
  <1>1. s \in Seq(InCol(c)) /\ s \in Seq(Anything)
    BY DEF Early, Col
  <1>2. \A r \in PE : out[r] = IF r = p THEN s ELSE <<>>
    BY <1>1, OnlyToIs
  <1>3. To[l] \in User
    BY Letters
  <1>4. To[l] # c => Count(s, l) = 0
    BY <1>1, SomewhereInCol
  <1> HIDE DEF out
  <1>5. ASSUME NEW r \in PE
        PROVE  Afoot(net, early_, r, l) = Afoot(net, later, r, l) + Count(out[r], l)
    <2>1. Afoot(net, later, r, l) \in Nat
      BY AfootNat
    <2>2. CASE r # p \/ To[l] # c
      <3>1. later[r][To[l]] = early_[r][To[l]]
        BY <1>3, <2>2
      <3>2. Count(out[r], l) = 0
        BY <1>2, <1>4, <2>2, CountEmpty
      <3>3. Afoot(net, later, r, l) = Afoot(net, early_, r, l)
        BY <3>1 DEF Afoot
      <3> QED
        BY <2>1, <3>2, <3>3
    <2>3. CASE r = p /\ To[l] = c
      <3> DEFINE a == Arriving(net, r, l)
      <3>1. a \in Nat
        BY ArrivingNat
      <3>2. Afoot(net, early_, r, l) = a + Count(s, l)
        BY <2>3 DEF Afoot
      <3>3. Afoot(net, later, r, l) = a + 0
        BY <2>3, CountEmpty DEF Afoot
      <3>4. Count(out[r], l) = Count(s, l)
        BY <1>2, <2>3
      <3> HIDE DEF a
      <3> QED
        BY <3>1, <3>2, <3>3, <3>4
    <2> QED
      BY <2>2, <2>3
  <1>6. ASSUME NEW done, NowhereIn(net, early_, l, Wrong(l, done))
        PROVE  /\ NowhereIn(net, later, l, Wrong(l, done))
               /\ \A r \in PE : NoHit(out[r], Wrong(l, done))
    <2>1. NoHit(s, Wrong(l, done))
      <3>1. To[l] = c => NoHit(s, Wrong(l, done))
        BY <1>6 DEF NowhereIn
      <3>2. To[l] # c => NoHit(s, About(l))
        BY <1>1, <1>4, CountIs
      <3> QED
        BY <3>1, <3>2 DEF NoHit, Hits, Wrong
    <2>2. \A r \in PE : NoHit(out[r], Wrong(l, done))
      BY <1>2, <2>1, EmptyHits
    <2>3. \A r \in PE : NoHit(later[r][To[l]], Wrong(l, done))
      BY <1>3, <1>6, EmptyHits DEF NowhereIn
    <2> QED
      BY <1>6, <2>2, <2>3 DEF NowhereIn
  <1> QED
    BY <1>5, <1>6 DEF Leaves, out

-----------------------------------------------------------------------------
(* Steps that do no more than carry messages *)

SameMail(net, early_, new, later, l) ==
    /\ \A r \in PE : Afoot(new, later, r, l) = Afoot(net, early_, r, l)
    /\ \A done : NowhereIn(net, early_, l, Wrong(l, done)) =>
                    NowhereIn(new, later, l, Wrong(l, done))

LEMMA SameMailSteps ==
    ASSUME NEW net, NEW early_, NEW mid, NEW between, NEW new, NEW later, NEW l,
           SameMail(net, early_, mid, between, l), SameMail(mid, between, new, later, l)
    PROVE  SameMail(net, early_, new, later, l)
  BY DEF SameMail

LEMMA TakenAndKept ==
    ASSUME NEW net, NEW early_, NEW mid, NEW between, NEW new, NEW later, NEW l,
           NEW out, Leaves(net, early_, mid, between, out, l),
           Reaches(mid, between, new, later, out, l)
    PROVE  SameMail(net, early_, new, later, l)
  BY DEF SameMail, Leaves, Reaches

(* What says nothing of any letter *)
Wordless == {w \in Sendings : \A r \in PE, l \in Letter : Count(w[r], l) = 0}

LEMMA SilentHits ==
    ASSUME NEW l, NEW w \in Sendings, NEW r \in PE, Count(w[r], l) = 0, NEW done
    PROVE  NoHit(w[r], Wrong(l, done))
  <1>1. w[r] \in Seq(Anything)
    BY DEF Sendings
  <1>2. NoHit(w[r], About(l))
    BY <1>1, CountIs
  <1> QED
    BY <1>2 DEF NoHit, Hits, Wrong

LEMMA SilentReaches ==
    ASSUME NEW net \in Nets, NEW early_ \in Early, NEW new, NEW later,
           NEW w \in Sendings, NEW l \in Letter, \A r \in PE : Count(w[r], l) = 0,
           Reaches(net, early_, new, later, w, l)
    PROVE  SameMail(net, early_, new, later, l)
  <1>1. ASSUME NEW r \in PE
        PROVE  Afoot(new, later, r, l) = Afoot(net, early_, r, l)
    <2>1. Afoot(new, later, r, l) = Afoot(net, early_, r, l) + 0
      BY DEF Reaches
    <2> QED
      BY <2>1, AfootNat
  <1>2. \A r \in PE : \A done : NoHit(w[r], Wrong(l, done))
    BY SilentHits
  <1> QED
    BY <1>1, <1>2 DEF SameMail, Reaches

LEMMA WordlessLeaves ==
    ASSUME NEW net \in Nets, NEW early_ \in Early, NEW new \in Nets, NEW later \in Early,
           NEW w \in Wordless, NEW l \in Letter,
           Leaves(net, early_, new, later, w, l)
    PROVE  SameMail(net, early_, new, later, l)
  <1>1. ASSUME NEW r \in PE
        PROVE  Afoot(new, later, r, l) = Afoot(net, early_, r, l)
    <2>1. Afoot(net, early_, r, l) = Afoot(new, later, r, l) + 0
      BY DEF Leaves, Wordless
    <2> QED
      BY <2>1, AfootNat
  <1> QED
    BY <1>1 DEF SameMail, Leaves

Joined(w, o) == [q \in PE |-> w[q] \o o[q]]

LEMMA JoinedIs ==
    ASSUME NEW w \in Wordless, NEW o \in Sendings
    PROVE  /\ Joined(w, o) \in Sendings
           /\ \A r \in PE, l \in Letter : Count(Joined(w, o)[r], l) = Count(o[r], l)
           /\ \A r \in PE, l \in Letter : \A done :
                 NoHit(o[r], Wrong(l, done)) => NoHit(Joined(w, o)[r], Wrong(l, done))
           /\ o \in Wordless => Joined(w, o) \in Wordless
  <1>1. \A r \in PE : w[r] \in Seq(Anything) /\ o[r] \in Seq(Anything)
    BY DEF Wordless, Sendings
  <1>2. Joined(w, o) \in Sendings
    BY <1>1, ConcatProperties DEF Joined, Sendings
  <1>3. ASSUME NEW r \in PE, NEW l \in Letter
        PROVE  Count(Joined(w, o)[r], l) = Count(o[r], l)
    <2> DEFINE s == w[r]
               t == o[r]
    <2>1. s \in Seq(Anything) /\ t \in Seq(Anything) /\ Count(s, l) = 0
      BY <1>1 DEF Wordless
    <2>2. Joined(w, o)[r] = s \o t
      BY DEF Joined
    <2> HIDE DEF s, t
    <2>3. Count(s \o t, l) = Count(s, l) + Count(t, l)
      BY <2>1, CountConcat
    <2>4. Count(t, l) \in Nat
      BY <2>1, CountIs
    <2>5. Count(Joined(w, o)[r], l) = Count(t, l)
      BY <2>1, <2>2, <2>3, <2>4
    <2> QED
      BY <2>5 DEF t
  <1>4. ASSUME NEW r \in PE, NEW l \in Letter, NEW done, NoHit(o[r], Wrong(l, done))
        PROVE  NoHit(Joined(w, o)[r], Wrong(l, done))
    <2> DEFINE s == w[r]
               t == o[r]
    <2>1. /\ s \in Seq(Anything) /\ t \in Seq(Anything)
          /\ NoHit(s, Wrong(l, done)) /\ NoHit(t, Wrong(l, done))
      BY <1>1, <1>4, SilentHits DEF Wordless
    <2>2. Joined(w, o)[r] = s \o t
      BY DEF Joined
    <2> HIDE DEF s, t
    <2> QED
      BY <2>1, <2>2, ConcatHits
  <1>5. o \in Wordless => Joined(w, o) \in Wordless
    BY <1>2, <1>3 DEF Wordless
  <1> QED
    BY <1>2, <1>3, <1>4, <1>5

LEMMA JoinedReaches ==
    ASSUME NEW net, NEW early_, NEW new, NEW later,
           NEW w \in Wordless, NEW o \in Sendings, NEW l \in Letter,
           Reaches(net, early_, new, later, Joined(w, o), l)
    PROVE  Reaches(net, early_, new, later, o, l)
  BY JoinedIs DEF Reaches

LEMMA WordlessOnly ==
    ASSUME NEW q, NEW ms \in Seq(Anything), \A l \in Letter : Count(ms, l) = 0
    PROVE  OnlyTo(q, ms) \in Wordless /\ Nothing \in Wordless
  <1>1. /\ OnlyTo(q, ms) \in Sendings /\ Nothing \in Sendings
        /\ \A r \in PE : OnlyTo(q, ms)[r] = IF r = q THEN ms ELSE <<>>
        /\ \A r \in PE : Nothing[r] = <<>>
    BY OnlyToIs
  <1>2. \A r \in PE, l \in Letter : Count(OnlyTo(q, ms)[r], l) = 0
    <2>1. ASSUME NEW r \in PE, NEW l \in Letter
          PROVE  Count(OnlyTo(q, ms)[r], l) = 0
      <3>1. OnlyTo(q, ms)[r] = ms \/ OnlyTo(q, ms)[r] = <<>>
        BY <1>1
      <3> QED
        BY <3>1, CountEmpty
    <2> QED
      BY <2>1
  <1>3. \A r \in PE, l \in Letter : Count(Nothing[r], l) = 0
    BY <1>1, CountEmpty
  <1> QED
    BY <1>1, <1>2, <1>3 DEF Wordless

LEMMA WordlessOne ==
    ASSUME NEW q, NEW m \in Others
    PROVE  OnlyTo(q, <<m>>) \in Wordless
  <1>1. m \in Anything /\ \A l : m \notin About(l)
    BY OtherFields DEF About
  <1> DEFINE h == <<m>>
  <1>2. h \in Seq(Anything) /\ \A l \in Letter : Count(h, l) = 0
    BY <1>1, CountOne
  <1> HIDE DEF h
  <1>3. OnlyTo(q, h) \in Wordless
    BY <1>2, WordlessOnly
  <1> QED
    BY <1>3 DEF h

(* Nothing the detectors send or have waiting is about a letter *)
LEMMA WaitedWordless ==
    ASSUME collection_buffer \in Early, NEW p \in PE
    PROVE  waited(p) \in Wordless /\ Nothing \in Wordless
  <1>1. sys \in Col /\ collection_buffer[p][sys] \in Seq(InCol(sys))
    BY DEF Early, Col
  <1>2. \A l \in Letter : Count(collection_buffer[p][sys], l) = 0
    BY <1>1, Letters, SysApart, SomewhereInCol
  <1>3. collection_buffer[p][sys] \in Seq(Anything)
    BY <1>1 DEF Early
  <1> QED
    BY <1>2, <1>3, WordlessOnly DEF waited, early

LEMMA UpwardWordless ==
    ASSUME NEW p \in PE, NEW c \in Col, NEW contributions
    PROVE  upward(p, c, contributions) \in Wordless
  <1>1. Redux(c, p) \in Others
    BY DEF Redux, Others
  <1>2. <<>> \in Seq(Anything) /\ \A l \in Letter : Count(<<>>, l) = 0
    BY CountEmpty
  <1> QED
    BY <1>1, <1>2, WordlessOne, WordlessOnly DEF upward

LEMMA Carried ==
    ASSUME NEW l \in Letter, Fine(l), buffers' = buffers, ran' = ran,
           l \in sent' <=> l \in sent,
           SameMail(queue, collection_buffer, queue', collection_buffer', l)
    PROVE  Fine(l)'
  <1>1. ASSUME NEW r \in PE
        PROVE  At(r, l)' = At(r, l)
    <2>1. Afoot(queue', collection_buffer', r, l) = Afoot(queue, collection_buffer, r, l)
      BY DEF SameMail
    <2>2. /\ At(r, l)' = Afoot(queue', collection_buffer', r, l)
                         + Cardinality(AsideOf(buffers', r, l))
                         + IF l \in ran'[r] THEN 1 ELSE 0
          /\ At(r, l) = Afoot(queue, collection_buffer, r, l)
                        + Cardinality(AsideOf(buffers, r, l))
                        + IF l \in ran[r] THEN 1 ELSE 0
      BY AtIs DEF AtNow, AsideOf
    <2> QED
      BY <2>1, <2>2
  <1>2. NowhereIn(queue', collection_buffer', l, Wrong(l, ran'[0]))
    BY DEF Fine, SameMail
  <1> QED
    BY <1>1, <1>2, Unmoved

LEMMA Posted ==
    ASSUME queue \in Nets, collection_buffer \in Early, buffers \in Asides,
           NEW l \in Letter, Fine(l), buffers' = buffers, ran' = ran,
           l \notin sent, l \in sent', NEW z \in PE,
           Reaches(queue, collection_buffer, queue', collection_buffer',
                   OnlyTo(z, <<MessageOf(l)>>), l)
    PROVE  Fine(l)'
  <1> DEFINE h == <<MessageOf(l)>>
             out == OnlyTo(z, h)
  <1>1. /\ MessageOf(l) \in About(l) /\ MessageOf(l) \in Anything
        /\ MessageOf(l).type # "copy"
    BY Letters, AboutIs DEF About, Anything
  <1>2. Count(h, l) = 1 /\ h \in Seq(Anything)
    BY <1>1, CountOne
  <1>3. \A r \in PE : out[r] = IF r = z THEN h ELSE <<>>
    BY <1>2, OnlyToIs
  <1>4. \A r \in PE : At(r, l) = 0
    BY DEF Fine
  <1>5. ASSUME NEW r \in PE
        PROVE  At(r, l)' = (IF r = z THEN 1 ELSE 0) /\ l \notin ran[r]
    <2> DEFINE a == Afoot(queue, collection_buffer, r, l)
               b == Afoot(queue', collection_buffer', r, l)
               d == Cardinality(AsideOf(buffers, r, l))
               e == IF l \in ran[r] THEN 1 ELSE 0
               k == IF r = z THEN 1 ELSE 0
    <2>1. b = a + k
      BY <1>2, <1>3, CountEmpty DEF Reaches
    <2>2. At(r, l) = a + d + e /\ At(r, l)' = b + d + e
      BY AtIs DEF AtNow, AsideOf
    <2>3. a \in Nat /\ d \in Nat /\ e \in {0, 1} /\ (e = 0 => l \notin ran[r]) /\ k \in Nat
      BY AfootNat, AsideNat
    <2>4. At(r, l) = 0
      BY <1>4
    <2> HIDE DEF a, b, d, e, k
    <2>5. a = 0 /\ d = 0 /\ e = 0
      BY <2>2, <2>3, <2>4
    <2>6. At(r, l)' = k
      BY <2>1, <2>2, <2>3, <2>5
    <2> QED
      BY <2>3, <2>5, <2>6 DEF k
  <1>6. Once(l)'
    BY <1>5 DEF Once
  <1>7. 0 \in PE
    BY NumPesAssumption DEF PE
  <1>8. NowhereIn(queue', collection_buffer', l, Wrong(l, ran[0]))
    <2>1. MessageOf(l) \notin Wrong(l, ran[0])
      BY <1>1, <1>5, <1>7 DEF Wrong
    <2>2. \A r \in PE : NoHit(out[r], Wrong(l, ran[0]))
      BY <1>3, <2>1, EmptyHits, SingleHits
    <2> QED
      BY <2>2 DEF Fine, Reaches
  <1>9. l \notin ran'[0] /\ Wrong(l, ran'[0]) = Wrong(l, ran[0])
    BY <1>5, <1>7
  <1> QED
    BY <1>6, <1>8, <1>9 DEF Fine

-----------------------------------------------------------------------------
(* The tables, and the elements on their home PEs *)
Homes ==
    /\ Tables
    /\ \A p \in PE, c \in User : \A i \in chares[p][c] : home_pe(i) = p

LEMMA MakeHomes ==
    ASSUME Homes, NEW p \in PE, NEW d \in User, NEW new \in SUBSET Col, Make(p, d, new)
    PROVE  Homes'
  <1>1. Tables'
    BY DEF Homes, Tables, Make
  <1>2. ASSUME NEW q \in PE, NEW c \in User, NEW i \in chares'[q][c]
        PROVE  home_pe(i) = q
    <2>1. c \in Col /\ c # sys
      BY SysApart DEF Col
    <2>2. CASE q = p /\ c \in new
      <3>1. chares'[q][c] = Here(p, c)
        BY <2>1, <2>2 DEF Make, Homes, Tables
      <3> QED
        BY <1>2, <2>2, <3>1 DEF Here, Mine
    <2>3. CASE ~(q = p /\ c \in new)
      <3>1. chares'[q][c] = chares[q][c]
        BY <2>1, <2>3 DEF Make, Homes, Tables
      <3> QED
        BY <1>2, <3>1 DEF Homes
    <2> QED
      BY <2>2, <2>3
  <1> QED
    BY <1>1, <1>2 DEF Homes

LEMMA HomesInit == Init => Homes
  BY DEF Init, Homes, Tables, Col

LEMMA HomesStep ==
    ASSUME Homes, [Next]_vars
    PROVE  Homes'
  <1>1. ASSUME UNCHANGED <<collection_table, chares>>
        PROVE  Homes'
    BY <1>1 DEF Homes, Tables
  <1>2. ASSUME NEW p \in PE, NEW c \in User, ReceiveCreation(p, c)
        PROVE  Homes'
    BY <1>2, MakeHomes DEF ReceiveCreation, NewDetector, Col
  <1>3. ASSUME NEW p \in PE, NEW c \in Arrays, ReceiveStatus(p, c)
        PROVE  Homes'
    BY <1>1, <1>3, MakeHomes DEF ReceiveStatus, NewDetector, Col, Arrays, branches
  <1>4. ASSUME NEW p \in PE, Work(p) \/ CallExit(p)
        PROVE  Homes'
    BY <1>1, <1>4 DEF Work, CallExit, Construct, Send, DoneInserting, branches
  <1>5. ASSUME NEW p \in PE, NEW c \in Arrays, ReceiveReady(p, c)
        PROVE  Homes'
    BY <1>1, <1>5 DEF ReceiveReady
  <1>6. ASSUME NEW p \in PE, NEW q \in PE,
               \/ ReceiveBroadcastExit(p) \/ ReceiveExit(q, p)
               \/ KeepEarly(q, p) \/ ReceiveLetter(q, p) \/ ReceiveRedux(q, p)
        PROVE  Homes'
    BY <1>1, <1>6 DEF ReceiveBroadcastExit, ReceiveExit, exit, KeepEarly,
                      ReceiveLetter, ReceiveRedux, branches
  <1>7. CASE UNCHANGED vars
    BY <1>1, <1>7 DEF vars, branches
  <1> QED
    BY <1>2, <1>3, <1>4, <1>5, <1>6, <1>7 DEF Next, Turn

-----------------------------------------------------------------------------
(* The steps *)

LEMMA MailStep ==
    ASSUME Shape, Conserved, UNCHANGED <<buffers, last_bcast, ran>>,
           \A l \in Letter : l \in sent' <=> l \in sent,
           queue' \in Nets, collection_buffer' \in Early,
           \A l \in Letter : SameMail(queue, collection_buffer,
                                      queue', collection_buffer', l)
    PROVE  Shape' /\ Conserved'
  <1>1. Shape'
    BY DEF Shape
  <1>2. ASSUME NEW l \in Letter
        PROVE  Fine(l)'
    BY Carried DEF Conserved
  <1> QED
    BY <1>1, <1>2 DEF Conserved

LEMMA IdleStep ==
    ASSUME Shape, Conserved, UNCHANGED <<queue, collection_buffer, buffers, last_bcast, ran>>,
           \A l \in Letter : l \in sent' <=> l \in sent
    PROVE  Shape' /\ Conserved'
  <1>1. \A l \in Letter : SameMail(queue, collection_buffer, queue', collection_buffer', l)
    BY DEF SameMail
  <1>2. queue' \in Nets /\ collection_buffer' \in Early
    BY DEF Shape
  <1> QED
    BY <1>1, <1>2, MailStep

(* The PE takes what is not about a letter, and sends such messages *)
LEMMA DetectorStep ==
    ASSUME Shape, Conserved, UNCHANGED <<buffers, last_bcast, ran, sent>>,
           NEW net \in Nets, NEW p \in PE, NEW w \in Wordless,
           queue' = Emit(net, p, w), collection_buffer' \in Early,
           \A l \in Letter : SameMail(queue, collection_buffer,
                                      net, collection_buffer', l)
    PROVE  Shape' /\ Conserved'
  <1>1. w \in Sendings /\ \A l \in Letter : \A r \in PE : Count(w[r], l) = 0
    BY DEF Wordless
  <1>2. queue' \in Nets
    BY <1>1, EmitType
  <1>3. ASSUME NEW l \in Letter
        PROVE  SameMail(queue, collection_buffer, queue', collection_buffer', l)
    <2> DEFINE e == collection_buffer'
               new == queue'
    <2>1. new = Emit(net, p, w) /\ e \in Early
      OBVIOUS
    <2> HIDE DEF new, e
    <2>2. Reaches(net, e, new, e, w, l)
      BY <1>1, <2>1, EmitReaches
    <2>3. SameMail(net, e, new, e, l)
      BY <1>1, <2>1, <2>2, SilentReaches
    <2>4. SameMail(queue, collection_buffer, net, e, l)
      BY DEF e
    <2>5. SameMail(queue, collection_buffer, new, e, l)
      BY <2>3, <2>4, SameMailSteps
    <2> QED
      BY <2>5 DEF new, e
  <1> QED
    BY <1>2, <1>3, MailStep

LEMMA TakenIs ==
    ASSUME Shape, NEW q \in PE, NEW p \in PE, queue[q][p] # <<>>
    PROVE  /\ Taken(q, p) = Behind(queue, q, p)
           /\ Behind(queue, q, p) \in Nets
           /\ Head(queue[q][p]) \in Anything
           /\ \A l \in Letter :
                 Leaves(queue, collection_buffer, Behind(queue, q, p), collection_buffer,
                        OnlyTo(p, <<Head(queue[q][p])>>), l)
           /\ Head(queue[q][p]).type \in {"redux", "exit"} =>
                 \A l \in Letter : SameMail(queue, collection_buffer,
                                            Behind(queue, q, p), collection_buffer, l)
  <1>1. Taken(q, p) = Behind(queue, q, p)
    BY DEF Taken, Behind
  <1>2. queue \in Nets /\ collection_buffer \in Early
    BY DEF Shape
  <1>3. Behind(queue, q, p) \in Nets /\ Head(queue[q][p]) \in Anything
    BY <1>2, BehindArriving
  <1>4. \A l \in Letter :
             Leaves(queue, collection_buffer, Behind(queue, q, p), collection_buffer,
                    OnlyTo(p, <<Head(queue[q][p])>>), l)
    BY <1>2, BehindLeaves
  <1>5. ASSUME Head(queue[q][p]).type \in {"redux", "exit"}, NEW l \in Letter
        PROVE  SameMail(queue, collection_buffer,
                        Behind(queue, q, p), collection_buffer, l)
    <2>1. Head(queue[q][p]) \in Others
      BY <1>3, <1>5, ProperFields DEF Anything
    <2>2. OnlyTo(p, <<Head(queue[q][p])>>) \in Wordless
      BY <2>1, WordlessOne
    <2> QED
      BY <1>2, <1>3, <1>4, <2>2, WordlessLeaves
  <1> QED
    BY <1>1, <1>3, <1>4, <1>5

LEMMA ExitStep ==
    ASSUME Shape, Conserved, NEW p \in PE, CallExit(p)
    PROVE  Shape' /\ Conserved'
  <1>1. CASE UNCHANGED queue
    BY <1>1, IdleStep DEF CallExit, work
  <1>2. ASSUME NEW q \in PE, queue' = Emit(queue, p, OnlyTo(q, <<Exit(FALSE)>>))
        PROVE  Shape' /\ Conserved'
    <2>1. Exit(FALSE) \in Others
      BY DEF Exit, Others
    <2>2. OnlyTo(q, <<Exit(FALSE)>>) \in Wordless
      BY <2>1, WordlessOne
    <2>3. /\ UNCHANGED <<buffers, last_bcast, ran, sent>>
          /\ collection_buffer' = collection_buffer
          /\ queue \in Nets /\ collection_buffer' \in Early
      BY DEF CallExit, work, Shape
    <2>4. \A l \in Letter : SameMail(queue, collection_buffer,
                                     queue, collection_buffer', l)
      BY <2>3 DEF SameMail
    <2> QED
      BY <1>2, <2>2, <2>3, <2>4, DetectorStep
  <1> QED
    BY <1>1, <1>2 DEF CallExit

LEMMA ReceiveExitStep ==
    ASSUME Shape, Conserved, NEW p \in PE, NEW q \in PE, ReceiveExit(q, p)
    PROVE  Shape' /\ Conserved'
  <1>1. /\ queue[q][p] # <<>> /\ Head(queue[q][p]).type = "exit"
        /\ queue' = Taken(q, p)
        /\ UNCHANGED <<buffers, last_bcast, ran, sent, collection_buffer>>
    BY DEF ReceiveExit, NextOf, exit, work
  <1>2. /\ queue' \in Nets
        /\ \A l \in Letter : SameMail(queue, collection_buffer,
                                      queue', collection_buffer', l)
    BY <1>1, TakenIs
  <1>3. collection_buffer' \in Early
    BY <1>1 DEF Shape
  <1> QED
    BY <1>1, <1>2, <1>3, MailStep

LEMMA ReceiveReduxStep ==
    ASSUME Shape, Conserved, NEW p \in PE, NEW q \in PE, ReceiveRedux(q, p)
    PROVE  Shape' /\ Conserved'
  <1> DEFINE m == Head(queue[q][p])
  <1>1. /\ queue[q][p] # <<>> /\ m.type = "redux"
        /\ queue' = Emit(Taken(q, p), p, upward(p, m.target, {m.from}))
        /\ UNCHANGED <<buffers, last_bcast, ran, sent, collection_buffer>>
    BY DEF ReceiveRedux, NextOf, work
  <1>2. /\ Taken(q, p) \in Nets /\ m \in Anything
        /\ \A l \in Letter : SameMail(queue, collection_buffer,
                                      Taken(q, p), collection_buffer', l)
    BY <1>1, TakenIs
  <1>3. m.target \in Col
    <2>1. m \in Others
      BY <1>1, <1>2, ProperFields DEF Anything
    <2> QED
      BY <1>1, <2>1, OtherFields
  <1>4. upward(p, m.target, {m.from}) \in Wordless
    BY <1>3, UpwardWordless
  <1>5. collection_buffer' \in Early
    BY <1>1 DEF Shape
  <1> HIDE DEF m
  <1> QED
    BY <1>1, <1>2, <1>4, <1>5, DetectorStep

LEMMA KeepEarlyStep ==
    ASSUME Shape, Conserved, NEW p \in PE, NEW q \in PE, KeepEarly(q, p)
    PROVE  Shape' /\ Conserved'
  <1> DEFINE m == Head(queue[q][p])
  <1>1. /\ queue[q][p] # <<>> /\ m.type \in {"entry", "post", "copy", "redux"}
        /\ queue' = Taken(q, p)
        /\ collection_buffer' = [collection_buffer EXCEPT ![p][m.col] = Append(@, m)]
        /\ UNCHANGED <<buffers, last_bcast, ran, sent>>
    BY DEF KeepEarly, NextOf, work
  <1>2. /\ queue' = Behind(queue, q, p) /\ queue' \in Nets /\ m \in Anything
        /\ \A l \in Letter :
                 Leaves(queue, collection_buffer, queue', collection_buffer,
                        OnlyTo(p, <<m>>), l)
    BY <1>1, TakenIs
  <1>3. m.col \in Col /\ m \in InCol(m.col)
    BY <1>1, <1>2, ProperFields, OtherFields DEF Anything, InCol, Col
  <1>4. collection_buffer \in Early
    BY DEF Shape
  <1> HIDE DEF m
  <1>5. collection_buffer' \in Early
    BY <1>1, <1>3, <1>4, AppendEarly
  <1>6. ASSUME NEW l \in Letter
        PROVE  SameMail(queue, collection_buffer, queue', collection_buffer', l)
    <2> DEFINE e == collection_buffer'
               new == queue'
    <2>1. new \in Nets /\ e = [collection_buffer EXCEPT ![p][m.col] = Append(@, m)]
      BY <1>1, <1>2
    <2>2. Leaves(queue, collection_buffer, new, collection_buffer, OnlyTo(p, <<m>>), l)
      BY <1>2
    <2> HIDE DEF new, e
    <2>3. Reaches(new, collection_buffer, new, e, OnlyTo(p, <<m>>), l)
      BY <1>3, <1>4, <2>1, AppendReaches
    <2>4. SameMail(queue, collection_buffer, new, e, l)
      BY <2>2, <2>3, TakenAndKept
    <2> QED
      BY <2>4 DEF e, new
  <1> QED
    BY <1>1, <1>2, <1>5, <1>6, MailStep

LEMMA SendStep ==
    ASSUME Shape, Conserved, NEW p \in PE, NEW l \in Letter, Send(p, l)
    PROVE  Shape' /\ Conserved'
  <1> DEFINE c == To[l]
             m == MessageOf(l)
             h == <<m>>
  <1>1. /\ l \notin sent /\ sent' = sent \cup {l}
        /\ UNCHANGED <<buffers, last_bcast, ran>>
    BY DEF Send, work
  <1>2. queue \in Nets /\ collection_buffer \in Early /\ buffers \in Asides
    BY DEF Shape
  <1>3. /\ m \in About(l) /\ m \in Anything /\ m \in InCol(c) /\ c \in Col
        /\ h \in Seq(Anything)
    <2>1. m \in About(l) /\ c \in User
      BY Letters
    <2>2. m \in Proper /\ m.letter = l
      BY <2>1 DEF About
    <2>3. m.col = c /\ m.type \in {"entry", "post", "copy"}
      BY <2>2, ProperFields
    <2> QED
      BY <2>1, <2>2, <2>3 DEF InCol, Col, Anything
  <1>4. \A k \in Letter \ {l} : m \notin About(k)
    BY <1>3 DEF About
  <1> HIDE DEF m
  <1>5. \E z \in PE : /\ queue' \in Nets /\ collection_buffer' \in Early
                      /\ \A k \in Letter : Reaches(queue, collection_buffer,
                            queue', collection_buffer', OnlyTo(z, h), k)
    <2>1. CASE c \notin collection_table[p]
      <3>1. /\ collection_buffer' = [collection_buffer EXCEPT ![p][c] = Append(@, m)]
            /\ queue' = queue
        BY <2>1 DEF Send, m
      <3>2. collection_buffer' \in Early
        BY <1>2, <1>3, <3>1, AppendEarly
      <3>3. ASSUME NEW k \in Letter
            PROVE  Reaches(queue, collection_buffer, queue', collection_buffer',
                           OnlyTo(p, h), k)
        <4> DEFINE e == collection_buffer'
        <4>1. e = [collection_buffer EXCEPT ![p][c] = Append(@, m)]
          BY <3>1
        <4> HIDE DEF e
        <4>2. Reaches(queue, collection_buffer, queue, e, OnlyTo(p, h), k)
          BY <1>2, <1>3, <4>1, AppendReaches
        <4> QED
          BY <3>1, <4>2 DEF e
      <3> QED
        BY <1>2, <3>1, <3>2, <3>3
    <2>2. CASE c \in collection_table[p]
      <3> DEFINE z == IF Bcast(l) THEN p ELSE home_pe(Idx[l])
      <3>1. /\ queue' = Emit(queue, p, OnlyTo(z, h))
            /\ collection_buffer' = collection_buffer
        BY <2>2 DEF Send, Bcast, m
      <3>2. z \in PE
        BY HomeOfLetter
      <3> HIDE DEF z, h
      <3>3. OnlyTo(z, h) \in Sendings
        BY <1>3, OnlyToIs
      <3>4. queue' \in Nets
        BY <1>2, <3>1, <3>3, EmitType
      <3>5. ASSUME NEW k \in Letter
            PROVE  Reaches(queue, collection_buffer, queue', collection_buffer',
                           OnlyTo(z, h), k)
        <4>1. Reaches(queue, collection_buffer, Emit(queue, p, OnlyTo(z, h)),
                      collection_buffer, OnlyTo(z, h), k)
          BY <1>2, <3>3, EmitReaches
        <4> QED
          BY <3>1, <4>1
      <3> QED
        BY <1>2, <3>1, <3>2, <3>4, <3>5
    <2> QED
      BY <2>1, <2>2
  <1>6. PICK z \in PE : /\ queue' \in Nets /\ collection_buffer' \in Early
                        /\ \A k \in Letter : Reaches(queue, collection_buffer,
                              queue', collection_buffer', OnlyTo(z, h), k)
    BY <1>5
  <1>7. Fine(l)'
    BY <1>1, <1>2, <1>6, Posted DEF Conserved, m
  <1>8. ASSUME NEW k \in Letter \ {l}
        PROVE  Fine(k)'
    <2>1. OnlyTo(z, h) \in Sendings /\ \A r \in PE : Count(OnlyTo(z, h)[r], k) = 0
      <3>1. Count(h, k) = 0
        BY <1>3, <1>4, CountOne
      <3> HIDE DEF h
      <3>2. /\ OnlyTo(z, h) \in Sendings
            /\ \A r \in PE : OnlyTo(z, h)[r] = IF r = z THEN h ELSE <<>>
        BY <1>3, OnlyToIs
      <3>3. ASSUME NEW r \in PE
            PROVE  Count(OnlyTo(z, h)[r], k) = 0
        <4>1. OnlyTo(z, h)[r] = h \/ OnlyTo(z, h)[r] = <<>>
          BY <3>2
        <4> QED
          BY <3>1, <4>1, CountEmpty
      <3> QED
        BY <3>2, <3>3
    <2>2. SameMail(queue, collection_buffer, queue', collection_buffer', k)
      <3> DEFINE e == collection_buffer'
                 new == queue'
                 out == OnlyTo(z, h)
      <3>1. Reaches(queue, collection_buffer, new, e, out, k)
        BY <1>6
      <3> HIDE DEF e, new, out
      <3>2. out \in Sendings /\ \A r \in PE : Count(out[r], k) = 0
        BY <2>1 DEF out
      <3>3. SameMail(queue, collection_buffer, new, e, k)
        BY <1>2, <3>1, <3>2, SilentReaches
      <3> QED
        BY <3>3 DEF e, new
    <2>3. k \in sent' <=> k \in sent
      BY <1>1
    <2>4. Fine(k) /\ buffers' = buffers /\ ran' = ran
      BY <1>1 DEF Conserved
    <2> QED
      BY <2>2, <2>3, <2>4, Carried
  <1> QED
    BY <1>1, <1>6, <1>7, <1>8 DEF Shape, Conserved

LEMMA MakeEarly ==
    ASSUME collection_buffer \in Early, NEW p \in PE, NEW c \in User,
           NEW new \in SUBSET Col, Make(p, c, new)
    PROVE  /\ collection_buffer' \in Early
           /\ \A r \in PE, d \in Col :
                 collection_buffer'[r][d] =
                     IF r = p /\ d \in new THEN <<>> ELSE collection_buffer[r][d]
  <1>1. /\ \A r \in PE, d \in Col :
              collection_buffer'[r][d] =
                  IF r = p /\ d \in new THEN <<>> ELSE collection_buffer[r][d]
        /\ collection_buffer' = [r \in PE |-> [d \in Col |-> collection_buffer'[r][d]]]
    BY DEF Make, Early
  <1>2. <<>> \in Seq(Anything) /\ \A d \in Col : <<>> \in Seq(InCol(d))
    OBVIOUS
  <1>3. \A r \in PE, d \in Col : /\ collection_buffer'[r][d] \in Seq(Anything)
                               /\ collection_buffer'[r][d] \in Seq(InCol(d))
    BY <1>1, <1>2 DEF Early
  <1>4. collection_buffer' \in [PE -> [Col -> Seq(Anything)]]
    BY <1>1, <1>3
  <1> QED
    BY <1>1, <1>3, <1>4 DEF Early

LEMMA ReceiveStatusStep ==
    ASSUME Shape, Conserved, Tables, NEW p \in PE, NEW c \in Arrays, ReceiveStatus(p, c)
    PROVE  Shape' /\ Conserved'
  <1>1. UNCHANGED <<buffers, last_bcast, ran, sent>> /\ c \in User /\ c \in Col
    BY DEF ReceiveStatus, work, Arrays, Col
  <1>2. queue \in Nets /\ collection_buffer \in Early
    BY DEF Shape
  <1>3. CASE c \notin collection_table[p]
    <2> DEFINE m == Status(c)
               h == <<m>>
    <2>1. /\ collection_buffer' = [collection_buffer EXCEPT ![p][c] = Append(@, m)]
          /\ queue' = queue
      BY <1>3 DEF ReceiveStatus
    <2>2. m \in Others /\ m \in InCol(c)
      BY DEF Status, Others, InCol, Anything
    <2>3. OnlyTo(p, h) \in Wordless
      BY <2>2, WordlessOne
    <2> HIDE DEF m
    <2>4. collection_buffer' \in Early
      BY <1>1, <1>2, <2>1, <2>2, AppendEarly
    <2>5. ASSUME NEW l \in Letter
          PROVE  SameMail(queue, collection_buffer, queue', collection_buffer', l)
      <3> DEFINE e == collection_buffer'
      <3>1. e = [collection_buffer EXCEPT ![p][c] = Append(@, m)]
        BY <2>1
      <3> HIDE DEF e
      <3>2. Reaches(queue, collection_buffer, queue, e, OnlyTo(p, h), l)
        BY <1>1, <1>2, <2>2, <3>1, AppendReaches
      <3>3. /\ OnlyTo(p, h) \in Sendings
            /\ \A r \in PE : Count(OnlyTo(p, h)[r], l) = 0
        BY <2>3 DEF Wordless
      <3> HIDE DEF h
      <3>4. SameMail(queue, collection_buffer, queue, e, l)
        BY <1>2, <3>2, <3>3, SilentReaches
      <3> QED
        BY <2>1, <3>4 DEF e
    <2>6. queue' \in Nets
      BY <1>2, <2>1
    <2> QED
      BY <1>1, <2>4, <2>5, <2>6, MailStep
  <1>4. CASE c \in collection_table[p]
    <2> DEFINE w == waited(p)
               u == upward(p, c, {p})
    <2>1. /\ Make(p, c, NewDetector(p))
          /\ queue' = Emit(queue, p, Joined(w, u))
      BY <1>4 DEF ReceiveStatus, Joined
    <2>2. w \in Wordless /\ u \in Wordless
      BY <1>1, <1>2, WaitedWordless, UpwardWordless
    <2> HIDE DEF w, u
    <2>3. Joined(w, u) \in Wordless
      BY <2>2, JoinedIs DEF Wordless
    <2>4. /\ collection_buffer' \in Early
          /\ \A r \in PE, d \in User : collection_buffer'[r][d] = collection_buffer[r][d]
      <3>1. \A d \in User : d \in Col /\ d \notin NewDetector(p)
        BY SysApart DEF NewDetector, Col
      <3>2. NewDetector(p) \in SUBSET Col
        BY DEF NewDetector, Col
      <3> QED
        BY <1>1, <1>2, <2>1, <3>1, <3>2, MakeEarly
    <2>5. ASSUME NEW l \in Letter
          PROVE  SameMail(queue, collection_buffer, queue, collection_buffer', l)
      <3>1. To[l] \in User
        BY Letters
      <3>2. \A r \in PE : collection_buffer'[r][To[l]] = collection_buffer[r][To[l]]
        BY <2>4, <3>1
      <3> QED
        BY <3>2 DEF SameMail, Afoot, NowhereIn
    <2> QED
      BY <1>1, <1>2, <2>1, <2>3, <2>4, <2>5, DetectorStep
  <1> QED
    BY <1>3, <1>4

LEMMA ProcessShape ==
    ASSUME buffers \in Asides, ran \in [PE -> SUBSET Letter],
           last_bcast \in [PE -> [Col -> Nat]],
           NEW p \in PE, NEW c \in User, NEW ms \in Seq(InCol(c)), NEW bad,
           Process(p, c, ms, bad)
    PROVE  /\ buffers' \in Asides /\ ran' \in [PE -> SUBSET Letter]
           /\ last_bcast' \in [PE -> [Col -> Nat]]
  <1> DEFINE copies == {i \in RunAt(p, c, ms) : ms[i].type = "copy"}
  <1>1. Len(ms) \in Nat /\ DOMAIN ms = 1 .. Len(ms)
    BY InColSeq
  <1>2. copies \in SUBSET (1 .. Len(ms))
    BY <1>1 DEF RunAt
  <1>3. IsFiniteSet(1 .. Len(ms))
    BY <1>1, FS_Interval
  <1>4. last_bcast' = [last_bcast EXCEPT ![p][c] = @ + Cardinality(copies)]
    BY DEF Process, RunAt
  <1> HIDE DEF copies
  <1>5. Cardinality(copies) \in Nat
    BY <1>2, <1>3, FS_Subset, FS_CardinalityType
  <1>6. last_bcast' \in [PE -> [Col -> Nat]]
    <2> DEFINE n == Cardinality(copies)
    <2>1. c \in Col
      BY DEF Col
    <2> HIDE DEF n
    <2>2. n \in Nat /\ last_bcast' = [last_bcast EXCEPT ![p][c] = @ + n]
      BY <1>4, <1>5 DEF n
    <2>3. last_bcast[p][c] + n \in Nat
      BY <2>1, <2>2
    <2> QED
      BY <2>1, <2>2, <2>3
  <1> QED
    BY <1>6, ProcessIs

LEMMA HandOverIs ==
    ASSUME NEW p \in PE, NEW c \in User, NEW hs \in Seq(InCol(c)), NEW net, NEW early_,
           NEW l, Leaves(queue, collection_buffer, net, early_, OnlyTo(p, hs), l),
           Reaches(net, early_, queue', collection_buffer',
                   outgoing(p, c, numbered(p, c, hs)), l)
    PROVE  HandOver(p, c, hs, net, early_, l)
  <1>1. hs \in Seq(Anything)
    BY InColSeq
  <1>2. \A r \in PE : OnlyTo(p, hs)[r] = IF r = p THEN hs ELSE <<>>
    BY <1>1, OnlyToIs
  <1>3. \A r \in PE : Count(OnlyTo(p, hs)[r], l) = IF r = p THEN Count(hs, l) ELSE 0
    BY <1>2, CountEmpty
  <1>4. \A done : (\A r \in PE : NoHit(OnlyTo(p, hs)[r], Wrong(l, done)))
                     => NoHit(hs, Wrong(l, done))
    BY <1>2
  <1> QED
    BY <1>3, <1>4 DEF HandOver, Leaves, Reaches

LEMMA ReceiveLetterStep ==
    ASSUME Shape, Conserved, Homes', NEW p \in PE, NEW q \in PE, ReceiveLetter(q, p)
    PROVE  Shape' /\ Conserved'
  <1> DEFINE m == Head(queue[q][p])
             c == m.col
             hs == <<m>>
             net == Behind(queue, q, p)
             out == outgoing(p, c, numbered(p, c, hs))
  <1>1. /\ queue[q][p] # <<>> /\ m.type \in {"entry", "post", "copy"}
        /\ queue' = Emit(Taken(q, p), p, out)
        /\ Process(p, c, numbered(p, c, hs), FALSE)
        /\ collection_buffer' = collection_buffer /\ sent' = sent
    BY DEF ReceiveLetter, NextOf
  <1>2. /\ Taken(q, p) = net /\ net \in Nets /\ m \in Anything
        /\ \A l \in Letter :
                 Leaves(queue, collection_buffer, net, collection_buffer, OnlyTo(p, hs), l)
    BY <1>1, TakenIs
  <1>3. c \in User /\ m \in InCol(c)
    BY <1>1, <1>2, AboutIs, ProperFields DEF InCol
  <1>4. hs \in Seq(InCol(c))
    BY <1>3
  <1>5. /\ queue \in Nets /\ collection_buffer \in Early /\ buffers \in Asides
        /\ ran \in [PE -> SUBSET Letter] /\ last_bcast \in [PE -> [Col -> Nat]]
    BY DEF Shape
  <1>6. \A i \in chares'[p][c] : home_pe(i) = p
    BY <1>3 DEF Homes
  <1> HIDE DEF hs, c, net
  <1>7. numbered(p, c, hs) \in Seq(InCol(c))
    BY <1>3, <1>4, <1>5, NumberedIs DEF Col
  <1>8. out \in Sendings
    BY <1>3, <1>7, OutgoingIs
  <1> HIDE DEF out
  <1>9. queue' \in Nets /\ queue' = Emit(net, p, out)
    BY <1>1, <1>2, <1>8, EmitType
  <1>10. ASSUME NEW l \in Letter
         PROVE  Fine(l)'
    <2>1. Reaches(net, collection_buffer, Emit(net, p, out), collection_buffer, out, l)
      BY <1>2, <1>5, <1>8, EmitReaches
    <2>2. Reaches(net, collection_buffer, queue', collection_buffer', out, l)
      BY <1>1, <1>9, <2>1
    <2>3. HandOver(p, c, hs, net, collection_buffer, l)
      BY <1>2, <1>3, <1>4, <2>2, HandOverIs DEF out
    <2>4. Fine(l)
      BY DEF Conserved
    <2> QED
      BY <1>1, <1>2, <1>3, <1>4, <1>5, <1>6, <2>3, <2>4, Handled
  <1>11. buffers' \in Asides /\ ran' \in [PE -> SUBSET Letter]
         /\ last_bcast' \in [PE -> [Col -> Nat]]
    BY <1>1, <1>3, <1>5, <1>7, ProcessShape
  <1> QED
    BY <1>1, <1>5, <1>9, <1>10, <1>11 DEF Shape, Conserved

LEMMA ReceiveCreationStep ==
    ASSUME Shape, Conserved, Homes', NEW p \in PE, NEW c \in User, ReceiveCreation(p, c)
    PROVE  Shape' /\ Conserved'
  <1> DEFINE counts == Contributes(p, c)
             new == {c} \cup (IF counts THEN NewDetector(p) ELSE {})
             own == IF counts THEN {p} ELSE {}
             hs == collection_buffer[p][c]
             ms == numbered(p, c, hs)
             bad == Collide(p, c) \/ c \in collection_table[p]
             w == [q \in PE |-> IF counts THEN waited(p)[q] ELSE <<>>]
             u == upward(p, c, own)
             out == outgoing(p, c, ms)
             all == Joined(Joined(w, u), out)
  <1>1. /\ Make(p, c, new) /\ Process(p, c, ms, bad) /\ sent' = sent
    BY DEF ReceiveCreation, flush
  <1>2. queue' = Emit(queue, p, all)
    BY DEF ReceiveCreation, flush, Joined
  <1>3. /\ queue \in Nets /\ collection_buffer \in Early /\ buffers \in Asides
        /\ ran \in [PE -> SUBSET Letter] /\ last_bcast \in [PE -> [Col -> Nat]]
        /\ c \in Col
    BY DEF Shape, Col
  <1>4. hs \in Seq(InCol(c))
    BY <1>3 DEF Early
  <1>5. \A i \in chares'[p][c] : home_pe(i) = p
    BY DEF Homes
  <1>6. new \in SUBSET Col /\ c \in new /\ \A d \in User : d \in Col /\ (d \in new => d = c)
    BY <1>3, SysApart DEF NewDetector, Col
  <1>7. w \in Wordless
    <2>1. waited(p) \in Wordless /\ Nothing \in Wordless
      BY <1>3, WaitedWordless
    <2>2. Nothing = [q \in PE |-> <<>>]
      BY DEF Nothing
    <2>3. waited(p) = [q \in PE |-> waited(p)[q]]
      BY <2>1 DEF Wordless, Sendings
    <2>4. w = IF counts THEN waited(p) ELSE Nothing
      <3> HIDE DEF counts
      <3> QED
        BY <2>2, <2>3
    <2> QED
      BY <2>1, <2>4
  <1>8. u \in Wordless
    BY <1>3, UpwardWordless
  <1> HIDE DEF new, hs, w, u, bad
  <1>9. ms \in Seq(InCol(c))
    BY <1>3, <1>4, NumberedIs
  <1>10. out \in Sendings
    <2> HIDE DEF ms
    <2> QED
      BY <1>9, OutgoingIs
  <1> HIDE DEF out, ms
  <1>11. Joined(w, u) \in Wordless
    BY <1>7, <1>8, JoinedIs DEF Wordless
  <1>12. all \in Sendings
    BY <1>10, <1>11, JoinedIs
  <1> HIDE DEF all
  <1>13. queue' \in Nets
    BY <1>2, <1>3, <1>12, EmitType
  <1>14. /\ collection_buffer' \in Early
         /\ \A r \in PE, d \in Col :
               collection_buffer'[r][d] =
                   IF r = p /\ d \in new THEN <<>> ELSE collection_buffer[r][d]
    BY <1>1, <1>3, <1>6, MakeEarly
  <1>15. /\ collection_buffer'[p][c] = <<>>
         /\ \A r \in PE, d \in User :
               ~(r = p /\ d = c) => collection_buffer'[r][d] = collection_buffer[r][d]
    BY <1>3, <1>6, <1>14
  <1>16. ASSUME NEW l \in Letter
         PROVE  Fine(l)'
    <2> DEFINE e == collection_buffer'
    <2>0. /\ e \in Early /\ e[p][c] = <<>>
          /\ \A r \in PE, d \in User :
                ~(r = p /\ d = c) => e[r][d] = collection_buffer[r][d]
      BY <1>14, <1>15
    <2> HIDE DEF e
    <2>1. Leaves(queue, collection_buffer, queue, e, OnlyTo(p, hs), l)
      BY <1>3, <2>0, FlushLeaves DEF hs
    <2>2. Reaches(queue, e, Emit(queue, p, all), e, all, l)
      BY <1>3, <1>12, <2>0, EmitReaches
    <2>3. Reaches(queue, e, Emit(queue, p, all), e, out, l)
      BY <1>10, <1>11, <2>2, JoinedReaches DEF all
    <2>4. Reaches(queue, e, queue', collection_buffer', out, l)
      BY <1>2, <2>3 DEF e
    <2>5. HandOver(p, c, hs, queue, e, l)
      BY <1>4, <2>1, <2>4, HandOverIs DEF out, ms
    <2>6. Fine(l) /\ Process(p, c, numbered(p, c, hs), bad)
      BY <1>1 DEF Conserved, ms
    <2> QED
      BY <1>1, <1>3, <1>4, <1>5, <2>0, <2>5, <2>6, Handled
  <1>17. buffers' \in Asides /\ ran' \in [PE -> SUBSET Letter]
         /\ last_bcast' \in [PE -> [Col -> Nat]]
    BY <1>1, <1>3, <1>9, ProcessShape
  <1> QED
    BY <1>13, <1>14, <1>16, <1>17 DEF Shape, Conserved

-----------------------------------------------------------------------------
(* Conservation *)

SoundInv == Homes /\ Shape /\ Conserved

LEMMA SoundInit == Init => SoundInv
  <1> SUFFICES ASSUME Init
               PROVE  SoundInv
    OBVIOUS
  <1>1. Homes
    BY HomesInit
  <1>2. /\ collection_buffer = [p \in PE |-> [c \in Col |-> <<>>]]
        /\ buffers = [p \in PE |-> [c \in Col |-> {}]]
        /\ last_bcast = [p \in PE |-> [c \in Col |-> 0]]
        /\ queue = [p \in PE |-> [q \in PE |-> <<>>]]
        /\ sent = {} /\ ran = [p \in PE |-> {}]
    BY DEF Init
  <1>3. <<>> \in Seq(Anything) /\ \A c \in Col : <<>> \in Seq(InCol(c))
    OBVIOUS
  <1>4. Shape
    BY <1>2, <1>3, FS_EmptySet DEF Shape, Nets, Early, Asides
  <1>5. ASSUME NEW l \in Letter
        PROVE  Fine(l)
    <2>1. To[l] \in Col
      BY Letters DEF Col
    <2>2. ASSUME NEW r \in PE
          PROVE  At(r, l) = 0
      <3>1. \A q \in PE : ArrivingIn(queue, r, l)[q] = 0
        BY <1>2, CountEmpty DEF ArrivingIn
      <3>2. Arriving(queue, r, l) = 0
        <4> DEFINE f == ArrivingIn(queue, r, l)
        <4>1. Arriving(queue, r, l) = SumOver(f, PE) /\ \A q \in PE : f[q] = 0
          BY <1>4, <3>1, ArrivingType DEF Shape
        <4> HIDE DEF f
        <4> QED
          BY <4>1, FinitePEs, SumOverZero
      <3>3. Count(collection_buffer[r][To[l]], l) = 0
        BY <1>2, <2>1, CountEmpty
      <3>4. AsideOf(buffers, r, l) = {} /\ l \notin ran[r]
        BY <1>2, <2>1 DEF AsideOf
      <3>5. Cardinality(AsideOf(buffers, r, l)) = 0
        BY <3>4, FS_EmptySet
      <3>6. At(r, l) = (0 + 0) + 0 + 0
        BY <3>2, <3>3, <3>4, <3>5, AtIs DEF AtNow, Afoot
      <3> QED
        BY <3>6
    <2>3. NowhereIn(queue, collection_buffer, l, Wrong(l, ran[0]))
      BY <1>2, <2>1, EmptyHits DEF NowhereIn
    <2> QED
      BY <1>2, <2>2, <2>3 DEF Fine
  <1> QED
    BY <1>1, <1>4, <1>5 DEF SoundInv, Conserved

LEMMA SoundStep ==
    ASSUME SoundInv, [Next]_vars
    PROVE  SoundInv'
  <1>1. Homes'
    BY HomesStep DEF SoundInv
  <1>2. Shape /\ Conserved /\ Tables
    BY DEF SoundInv, Homes
  <1>3. ASSUME UNCHANGED <<queue, collection_buffer, buffers, last_bcast, ran, sent>>
        PROVE  Shape' /\ Conserved'
    BY <1>2, <1>3, IdleStep
  <1>4. ASSUME NEW p \in PE, Construct(p)
        PROVE  Shape' /\ Conserved'
    BY <1>3, <1>4 DEF Construct, work
  <1>5. ASSUME NEW c \in Arrays, DoneInserting(c)
        PROVE  Shape' /\ Conserved'
    <2>1. c \notin Letter
      BY StartupAssumption
    <2>2. /\ UNCHANGED <<queue, collection_buffer, buffers, last_bcast, ran>>
          /\ sent' = sent \cup {c}
      BY <1>5 DEF DoneInserting, work
    <2>3. \A l \in Letter : l \in sent' <=> l \in sent
      BY <2>1, <2>2
    <2> QED
      BY <1>2, <2>2, <2>3, IdleStep
  <1>6. ASSUME NEW p \in PE, CallExit(p)
        PROVE  Shape' /\ Conserved'
    BY <1>2, <1>6, ExitStep
  <1>7. ASSUME NEW p \in PE, NEW l \in Letter, Send(p, l)
        PROVE  Shape' /\ Conserved'
    BY <1>2, <1>7, SendStep
  <1>8. ASSUME NEW p \in PE, NEW c \in User, ReceiveCreation(p, c)
        PROVE  Shape' /\ Conserved'
    BY <1>1, <1>2, <1>8, ReceiveCreationStep
  <1>9. ASSUME NEW p \in PE, NEW c \in Arrays, ReceiveStatus(p, c)
        PROVE  Shape' /\ Conserved'
    BY <1>2, <1>9, ReceiveStatusStep
  <1>10. ASSUME NEW p \in PE, NEW c \in Arrays, ReceiveReady(p, c)
         PROVE  Shape' /\ Conserved'
    BY <1>3, <1>10 DEF ReceiveReady
  <1>11. ASSUME NEW p \in PE, ReceiveBroadcastExit(p)
         PROVE  Shape' /\ Conserved'
    BY <1>3, <1>11 DEF ReceiveBroadcastExit, exit, work
  <1>12. ASSUME NEW p \in PE, NEW q \in PE, ReceiveExit(q, p)
         PROVE  Shape' /\ Conserved'
    BY <1>2, <1>12, ReceiveExitStep
  <1>13. ASSUME NEW p \in PE, NEW q \in PE, KeepEarly(q, p)
         PROVE  Shape' /\ Conserved'
    BY <1>2, <1>13, KeepEarlyStep
  <1>14. ASSUME NEW p \in PE, NEW q \in PE, ReceiveLetter(q, p)
         PROVE  Shape' /\ Conserved'
    BY <1>1, <1>2, <1>14, ReceiveLetterStep
  <1>15. ASSUME NEW p \in PE, NEW q \in PE, ReceiveRedux(q, p)
         PROVE  Shape' /\ Conserved'
    BY <1>2, <1>15, ReceiveReduxStep
  <1>16. ASSUME UNCHANGED vars
         PROVE  Shape' /\ Conserved'
    BY <1>3, <1>16 DEF vars, work
  <1>17. Shape' /\ Conserved'
    BY <1>4, <1>5, <1>6, <1>7, <1>8, <1>9, <1>10, <1>11, <1>12, <1>13, <1>14,
       <1>15, <1>16 DEF Next, Work, Turn
  <1> QED
    BY <1>1, <1>17 DEF SoundInv

(* A letter on one PE, and only there, is counted once *)
LEMMA OnceIsOne ==
    ASSUME NEW l, Once(l)
    PROVE  Total(l) = 1
  <1> DEFINE f == [p \in PE |-> At(p, l)]
             e == [p \in PE |-> 0]
  <1>1. PICK p \in PE : At(p, l) = 1 /\ \A q \in PE \ {p} : At(q, l) = 0
    BY DEF Once
  <1>2. /\ DOMAIN f = PE /\ f[p] = 1
        /\ \A q \in PE \ {p} : f[q] = e[q]
        /\ \A q \in PE : e[q] = 0
    BY <1>1
  <1>3. Total(l) = SumFunction(f)
    BY DEF Total
  <1> HIDE DEF f, e
  <1>4. SumFunction(f) = SumOver(f, PE)
    BY <1>2, SumOfPEs
  <1>5. SumOver(e, PE) = 0
    BY <1>2, FinitePEs, SumOverZero
  <1>6. /\ \A q \in PE : e[q] \in Int
        /\ f[p] \in Int
        /\ \A q \in PE \ {p} : f[q] = e[q]
    BY <1>2
  <1>7. SumOver(f, PE) = SumOver(e, PE) + (f[p] - e[p])
    BY ONLY <1>6, FinitePEs, SumOverChange, p \in PE
  <1> QED
    BY <1>2, <1>3, <1>4, <1>5, <1>7

(* A message for an element is in one place until it has been run, and a   *)
(* broadcast has one message for each branch below one that has run it,    *)
(* whatever comes first: the message, the creation of its collection on    *)
(* the PE it reaches, or the detectors (core.cpp:127, 27).                 *)
THEOREM MessagesConserved == Spec => []MessageConserved
  <1>1. Init => SoundInv
    BY SoundInit
  <1>2. SoundInv /\ [Next]_vars => SoundInv'
    BY SoundStep
  <1>3. SoundInv => MessageConserved
    BY OnceIsOne DEF SoundInv, Conserved, Fine, MessageConserved, OnWay, Bcast
  <1> QED
    BY <1>1, <1>2, <1>3, PTL DEF Spec

-----------------------------------------------------------------------------
(* Messages with consecutive numbers, the first one after b *)

Before(s, T, i) == Cardinality(Hits(s, T) \cap (1 .. i))
Chain(s, T, b) == \A i \in Hits(s, T) : s[i].seq = b + Before(s, T, i)

LEMMA BeforeIs ==
    ASSUME NEW S, NEW s \in Seq(S), NEW T, NEW i \in 0 .. Len(s)
    PROVE  /\ Before(s, T, i) \in Nat
           /\ Before(s, T, i) = HitCount(SubSeq(s, 1, i), T)
           /\ Before(s, T, Len(s)) = HitCount(s, T)
  <1> DEFINE r == SubSeq(s, 1, i)
  <1>1. Len(s) \in Nat /\ DOMAIN s = 1 .. Len(s) /\ \A j \in 1 .. Len(s) : s[j] \in S
    BY LenProperties, ElementOfSeq
  <1>2. /\ r \in Seq(S) /\ Len(r) = i
        /\ \A j \in 1 .. i : r[j] = s[j]
    <2>1. \A j \in 1 .. i : s[j] \in S
      BY <1>1
    <2>2. /\ r \in Seq(S) /\ Len(r) = IF 1 <= i THEN i - 1 + 1 ELSE 0
          /\ \A j \in 1 .. i - 1 + 1 : r[j] = s[1 + j - 1]
      BY <1>1, <2>1, SubSeqProperties
    <2> HIDE DEF r
    <2>3. i - 1 + 1 = i /\ \A j \in 1 .. i : 1 + j - 1 = j
      BY <1>1
    <2> QED
      BY <1>1, <2>2, <2>3
  <1> HIDE DEF r
  <1>3. DOMAIN r = 1 .. i
    BY <1>2, LenProperties
  <1>4. Hits(r, T) = Hits(s, T) \cap (1 .. i)
    <2>1. 1 .. i \subseteq 1 .. Len(s)
      BY <1>1
    <2> QED
      BY <1>1, <1>2, <1>3, <2>1 DEF Hits
  <1>5. Hits(s, T) \cap (1 .. Len(s)) = Hits(s, T)
    BY <1>1 DEF Hits
  <1>6. HitCount(r, T) \in Nat
    BY <1>2, HitCountType
  <1> QED
    BY <1>4, <1>5, <1>6 DEF Before, HitCount, r

LEMMA BeforeFirst ==
    ASSUME NEW s, NEW t, NEW T, NEW i, Hits(s, T) \cap (1 .. i) = Hits(t, T) \cap (1 .. i)
    PROVE  Before(s, T, i) = Before(t, T, i)
  BY DEF Before

LEMMA ChainConcat ==
    ASSUME NEW S, NEW s \in Seq(S), NEW t \in Seq(S), NEW T, NEW b \in Nat
    PROVE  Chain(s \o t, T, b) <=> Chain(s, T, b) /\ Chain(t, T, b + HitCount(s, T))
  <1> DEFINE n == Len(s)
             m == Len(t)
             u == s \o t
  <1>1. /\ n \in Nat /\ DOMAIN s = 1 .. n
        /\ m \in Nat /\ DOMAIN t = 1 .. m
    BY LenProperties
  <1>2. /\ u \in Seq(S) /\ Len(u) = n + m
        /\ \A j \in 1 .. n : u[j] = s[j]
        /\ \A j \in 1 .. m : u[n + j] = t[j]
    BY ConcatFacts
  <1>3. DOMAIN u = 1 .. (n + m)
    BY <1>2, LenProperties
  <1> HIDE DEF n, m, u
  <1>4. ASSUME NEW i \in 1 .. n
        PROVE  /\ i \in Hits(u, T) <=> i \in Hits(s, T)
               /\ u[i] = s[i]
               /\ Before(u, T, i) = Before(s, T, i)
    <2>1. \A j \in 1 .. i : j \in 1 .. n /\ j \in 1 .. (n + m)
      BY <1>1
    <2>2. i \in 1 .. i
      BY <1>1
    <2>3. Hits(u, T) \cap (1 .. i) = Hits(s, T) \cap (1 .. i)
      BY <1>1, <1>2, <1>3, <2>1 DEF Hits
    <2>4. i \in Hits(u, T) <=> i \in Hits(s, T)
      BY <2>2, <2>3
    <2> QED
      BY <1>2, <2>3, <2>4, BeforeFirst
  <1>5. ASSUME NEW j \in 1 .. m
        PROVE  /\ n + j \in Hits(u, T) <=> j \in Hits(t, T)
               /\ u[n + j] = t[j]
               /\ Before(u, T, n + j) = HitCount(s, T) + Before(t, T, j)
    <2> DEFINE r == SubSeq(t, 1, j)
               v == s \o r
    <2>1. n + j \in 1 .. (n + m) /\ n + j \in 0 .. Len(u) /\ j \in 0 .. Len(t)
      BY <1>1, <1>2 DEF m
    <2>2. u[n + j] = t[j]
      BY <1>2
    <2>3. n + j \in Hits(u, T) <=> j \in Hits(t, T)
      BY <1>1, <1>3, <2>1, <2>2 DEF Hits
    <2>4. Before(t, T, j) = HitCount(r, T)
      BY <2>1, BeforeIs
    <2>5. /\ r \in Seq(S) /\ Len(r) = j
          /\ \A k \in 1 .. j : r[k] = t[k]
      <3>1. \A k \in 1 .. j : t[k] \in S
        BY <1>1, ElementOfSeq DEF m
      <3>2. /\ r \in Seq(S) /\ Len(r) = IF 1 <= j THEN j - 1 + 1 ELSE 0
            /\ \A k \in 1 .. j - 1 + 1 : r[k] = t[1 + k - 1]
        BY <1>1, <3>1, SubSeqProperties
      <3> HIDE DEF r
      <3>3. j - 1 + 1 = j /\ 1 <= j /\ \A k \in 1 .. j : 1 + k - 1 = k
        BY <1>1
      <3>4. Len(r) = j /\ \A k \in 1 .. j : r[k] = t[1 + k - 1]
        BY <3>2, <3>3
      <3>5. ASSUME NEW k \in 1 .. j
            PROVE  r[k] = t[k]
        <4>1. r[k] = t[1 + k - 1] /\ 1 + k - 1 = k
          BY <3>3, <3>4
        <4> QED
          BY <4>1
      <3> QED
        BY <3>2, <3>4, <3>5
    <2> HIDE DEF r
    <2>6. /\ v \in Seq(S) /\ Len(v) = n + j
          /\ \A k \in 1 .. n : v[k] = s[k]
          /\ \A k \in 1 .. j : v[n + k] = r[k]
      <3>0. r \in Seq(S)
        BY <2>5
      <3>1. /\ v \in Seq(S) /\ Len(v) = Len(s) + Len(r)
            /\ \A k \in 1 .. Len(s) : v[k] = s[k]
            /\ \A k \in 1 .. Len(r) : v[Len(s) + k] = r[k]
        BY <3>0, ConcatFacts
      <3>2. Len(s) = n /\ Len(r) = j
        BY <2>5 DEF n
      <3> HIDE DEF v
      <3> QED
        BY <3>1, <3>2
    <2>7. DOMAIN v = 1 .. (n + j)
      BY <2>6, LenProperties
    <2>8. HitCount(v, T) = HitCount(s, T) + HitCount(r, T)
      BY <2>5, HitCountConcat
    <2> HIDE DEF v
    <2>9. ASSUME NEW k \in 1 .. (n + j)
          PROVE  k \in 1 .. (n + m) /\ v[k] = u[k]
      <3>1. k \in 1 .. (n + m)
        BY <1>1
      <3>2. CASE k \in 1 .. n
        BY <1>2, <2>6, <3>1, <3>2
      <3>3. CASE ~(k \in 1 .. n)
        <4>1. PICK x \in 1 .. j : k = n + x
          <5>1. k - n \in 1 .. j /\ k = n + (k - n)
            BY <1>1, <3>3
          <5> QED
            BY <5>1
        <4>2. x \in 1 .. m
          BY <1>1
        <4> QED
          BY <1>2, <2>5, <2>6, <3>1, <4>1, <4>2
      <3> QED
        BY <3>2, <3>3
    <2>10. Hits(v, T) = Hits(u, T) \cap (1 .. (n + j))
      BY <1>3, <2>7, <2>9 DEF Hits
    <2> QED
      BY <2>2, <2>3, <2>4, <2>8, <2>10 DEF Before, HitCount
  <1>6. \A i \in 1 .. (n + m) : i \in 1 .. n \/ \E j \in 1 .. m : i = n + j
    <2> SUFFICES ASSUME NEW i \in 1 .. (n + m), i \notin 1 .. n
                 PROVE  i - n \in 1 .. m /\ i = n + (i - n)
      OBVIOUS
    <2> QED
      BY <1>1
  <1>7. HitCount(s, T) \in Nat /\ \A j \in 1 .. m : Before(t, T, j) \in Nat
    <2>1. \A j \in 1 .. m : j \in 0 .. Len(t)
      BY <1>1 DEF m
    <2> QED
      BY <2>1, HitCountType, BeforeIs
  <1>8. Hits(s, T) \subseteq 1 .. n /\ Hits(t, T) \subseteq 1 .. m
        /\ Hits(u, T) \subseteq 1 .. (n + m)
    BY <1>1, <1>3 DEF Hits
  <1>9. \A j \in 1 .. m : b + (HitCount(s, T) + Before(t, T, j)) =
                              (b + HitCount(s, T)) + Before(t, T, j)
    BY <1>7
  <1>10. ASSUME Chain(u, T, b)
         PROVE  Chain(s, T, b) /\ Chain(t, T, b + HitCount(s, T))
    <2>1. Chain(s, T, b)
      <3> SUFFICES ASSUME NEW i \in Hits(s, T)
                   PROVE  s[i].seq = b + Before(s, T, i)
        BY DEF Chain
      <3>1. i \in 1 .. n
        BY <1>8
      <3>2. u[i].seq = b + Before(u, T, i)
        BY <1>4, <1>10, <3>1 DEF Chain
      <3> QED
        BY <1>4, <3>1, <3>2
    <2>2. Chain(t, T, b + HitCount(s, T))
      <3> SUFFICES ASSUME NEW j \in Hits(t, T)
                   PROVE  t[j].seq = (b + HitCount(s, T)) + Before(t, T, j)
        BY DEF Chain
      <3>1. j \in 1 .. m
        BY <1>8
      <3>2. u[n + j].seq = b + Before(u, T, n + j)
        BY <1>5, <1>10, <3>1 DEF Chain
      <3> QED
        BY <1>5, <1>9, <3>1, <3>2
    <2> QED
      BY <2>1, <2>2
  <1>11. ASSUME Chain(s, T, b), Chain(t, T, b + HitCount(s, T))
         PROVE  Chain(u, T, b)
    <2> SUFFICES ASSUME NEW i \in Hits(u, T)
                 PROVE  u[i].seq = b + Before(u, T, i)
      BY DEF Chain
    <2>1. i \in 1 .. (n + m)
      BY <1>8
    <2>2. CASE i \in 1 .. n
      BY <1>4, <1>11, <2>2 DEF Chain
    <2>3. ASSUME NEW j \in 1 .. m, i = n + j
          PROVE  u[i].seq = b + Before(u, T, i)
      BY <1>5, <1>9, <1>11, <2>3 DEF Chain
    <2> QED
      BY <1>6, <2>1, <2>2, <2>3
  <1> QED
    BY <1>10, <1>11 DEF u

LEMMA ChainNone ==
    ASSUME NEW s, NEW T, NoHit(s, T), NEW b
    PROVE  Chain(s, T, b)
  BY DEF Chain, NoHit

LEMMA ChainOne ==
    ASSUME NEW x, NEW T, NEW b \in Nat
    PROVE  Chain(<<x>>, T, b) <=> (x \in T => x.seq = b + 1)
  <1> DEFINE s == <<x>>
  <1>1. DOMAIN s = 1 .. 1 /\ s[1] = x /\ s \in Seq({x}) /\ Len(s) = 1
    OBVIOUS
  <1> HIDE DEF s
  <1>2. \A i \in 1 .. 1 : i = 1
    OBVIOUS
  <1>3. CASE x \notin T
    <2>1. NoHit(s, T)
      BY <1>1, <1>2, <1>3 DEF NoHit, Hits
    <2> QED
      BY <1>3, <2>1, ChainNone DEF s
  <1>4. CASE x \in T
    <2>1. Hits(s, T) = {1}
      BY <1>1, <1>2, <1>4 DEF Hits
    <2>2. Before(s, T, 1) = 1
      <3>1. {1} \cap (1 .. 1) = {1}
        OBVIOUS
      <3> QED
        BY <2>1, <3>1, FS_Singleton DEF Before
    <2>3. Chain(s, T, b) <=> x.seq = b + 1
      BY <1>1, <2>1, <2>2 DEF Chain
    <2> QED
      BY <1>4, <2>3 DEF s
  <1> QED
    BY <1>3, <1>4

(* The same numbers in the same places *)
LEMMA ChainSame ==
    ASSUME NEW s, NEW t, NEW T, NEW b, DOMAIN s = DOMAIN t,
           \A i \in DOMAIN s : s[i] \in T <=> t[i] \in T,
           \A i \in DOMAIN s : s[i] \in T => t[i].seq = s[i].seq
    PROVE  Chain(s, T, b) <=> Chain(t, T, b)
  <1>1. Hits(s, T) = Hits(t, T)
    BY DEF Hits
  <1>2. \A i : Before(s, T, i) = Before(t, T, i)
    BY <1>1 DEF Before
  <1>3. \A i \in Hits(s, T) : t[i].seq = s[i].seq
    BY DEF Hits
  <1> QED
    BY <1>1, <1>2, <1>3 DEF Chain

(* The first message is the next one *)
LEMMA ChainTail ==
    ASSUME NEW S, NEW s \in Seq(S), s # <<>>, NEW T, NEW b \in Nat, Chain(s, T, b)
    PROVE  /\ Head(s) \in T => /\ Head(s).seq = b + 1
                               /\ Chain(Tail(s), T, b + 1)
                               /\ HitCount(s, T) = HitCount(Tail(s), T) + 1
           /\ Head(s) \notin T => /\ Chain(Tail(s), T, b)
                                  /\ HitCount(s, T) = HitCount(Tail(s), T)
  <1> DEFINE t == Tail(s)
             x == Head(s)
             h == <<Head(s)>>
  <1>1. Tail(s) \in Seq(S) /\ Head(s) \in S /\ s = h \o t
    BY HeadTailProperties
  <1>2. h \in Seq(S) /\ t \in Seq(S)
    BY <1>1
  <1>3. HitCount(h, T) = IF x \in T THEN 1 ELSE 0
    BY HitCountSingle
  <1>4. Chain(h, T, b) <=> (x \in T => x.seq = b + 1)
    BY ChainOne
  <1> HIDE DEF h, t, x
  <1>5. Chain(h, T, b) /\ Chain(t, T, b + HitCount(h, T))
    BY <1>1, <1>2, ChainConcat
  <1>6. HitCount(s, T) = HitCount(h, T) + HitCount(t, T) /\ HitCount(t, T) \in Nat
    BY <1>1, <1>2, HitCountConcat, HitCountType
  <1>7. x \in T => x.seq = b + 1 /\ Chain(t, T, b + 1) /\ HitCount(s, T) = HitCount(t, T) + 1
    BY <1>3, <1>4, <1>5, <1>6
  <1>8. x \notin T => Chain(t, T, b) /\ HitCount(s, T) = HitCount(t, T)
    <2>1. b + 0 = b
      OBVIOUS
    <2> QED
      BY <1>3, <1>5, <1>6, <2>1
  <1> QED
    BY <1>7, <1>8 DEF t, x

(* Each message in a chain has those with lower numbers before it *)
LEMMA ChainTurns ==
    ASSUME NEW S, NEW s \in Seq(S), NEW T, NEW b \in Nat, Chain(s, T, b),
           NEW i \in Hits(s, T)
    PROVE  s[i].seq = b + 1 + Cardinality({j \in 1 .. (i - 1) :
                                              s[j] \in T /\ s[j].seq < s[i].seq})
  <1> DEFINE H(k) == Hits(s, T) \cap (1 .. k)
             L == {j \in 1 .. (i - 1) : s[j] \in T /\ s[j].seq < s[i].seq}
  <1>1. Len(s) \in Nat /\ DOMAIN s = 1 .. Len(s) /\ Hits(s, T) \subseteq 1 .. Len(s)
    BY LenProperties DEF Hits
  <1>2. IsFiniteSet(Hits(s, T))
    BY HitCountType
  <1>3. i \in 1 .. Len(s)
    BY <1>1
  <1>4. \A k : IsFiniteSet(H(k)) /\ Cardinality(H(k)) \in Nat
    BY <1>2, FS_Subset, FS_CardinalityType
  <1>5. ASSUME NEW j \in Hits(s, T), j < i
        PROVE  s[j].seq < s[i].seq
    <2>1. j \in 1 .. Len(s)
      BY <1>1
    <2>2. H(j) \in SUBSET H(i) /\ i \in H(i) /\ i \notin H(j)
      BY <1>3, <1>5, <2>1
    <2>3. Cardinality(H(j)) <= Cardinality(H(i)) /\ Cardinality(H(j)) # Cardinality(H(i))
      <3> HIDE DEF H
      <3> QED
        BY <1>4, <2>2, FS_Subset
    <2>4. s[j].seq = b + Cardinality(H(j)) /\ s[i].seq = b + Cardinality(H(i))
      BY DEF Chain, Before
    <2> HIDE DEF H
    <2> QED
      BY <1>4, <2>3, <2>4
  <1>6. L = H(i - 1)
    <2>1. \A j \in 1 .. (i - 1) : j \in 1 .. Len(s) /\ j < i
      BY <1>1, <1>3
    <2>2. \A j \in 1 .. (i - 1) : j \in Hits(s, T) <=> s[j] \in T
      BY <1>1, <2>1 DEF Hits
    <2> QED
      BY <1>5, <2>1, <2>2
  <1>7. H(i) = H(i - 1) \cup {i} /\ i \notin H(i - 1)
    BY <1>1, <1>3
  <1>8. Cardinality(H(i)) = Cardinality(H(i - 1)) + 1
    <2> HIDE DEF H
    <2> QED
      BY <1>4, <1>7, FS_AddElement
  <1>9. s[i].seq = b + Cardinality(H(i))
    BY DEF Chain, Before
  <1>10. Cardinality(H(i - 1)) \in Nat
    BY <1>4
  <1> HIDE DEF H, L
  <1>11. s[i].seq = b + 1 + Cardinality(L)
    BY <1>6, <1>8, <1>9, <1>10
  <1> QED
    BY <1>11 DEF L

(* The parts of a sequence hold the messages of ms, each in its turn *)
LEMMA FlattenChain ==
    ASSUME NEW S, NEW ms \in Seq(S), NEW R, NEW ss \in [1 .. Len(ms) -> Seq(R)], NEW T,
           NEW b \in Nat, Chain(ms, T, b),
           \A i \in 1 .. Len(ms) : ms[i] \notin T => NoHit(ss[i], T),
           \A i \in 1 .. Len(ms) : ms[i] \in T =>
               \E x \in T : ss[i] = <<x>> /\ x.seq = ms[i].seq
    PROVE  Chain(FlattenSeq(ss), T, b) /\ HitCount(FlattenSeq(ss), T) = HitCount(ms, T)
  <1> DEFINE n == Len(ms)
             nr(i) == Before(ms, T, i)
             all == FlattenSeq(ss)
  <1>1. n \in Nat /\ DOMAIN ms = 1 .. n
    BY LenProperties
  <1>2. all \in Seq(R)
    BY <1>1, FlattenType
  <1>3. \A i \in 0 .. n : nr(i) \in Nat
    BY BeforeIs
  <1>4. nr(0) = 0
    <2>1. 1 .. 0 = {}
      OBVIOUS
    <2> QED
      BY <2>1, FS_EmptySet DEF Before
  <1>5. nr(n) = HitCount(ms, T)
    <2>1. 0 \in 0 .. Len(ms)
      BY <1>1
    <2> QED
      BY <2>1, BeforeIs
  <1>6. ASSUME NEW i \in 1 .. n
        PROVE  /\ ms[i] \in T => nr(i) = nr(i - 1) + 1
               /\ ms[i] \notin T => nr(i) = nr(i - 1)
    <2> DEFINE H == Hits(ms, T) \cap (1 .. (i - 1))
               G == Hits(ms, T) \cap (1 .. i)
    <2>1. i \in Nat /\ 1 .. i = (1 .. (i - 1)) \cup {i} /\ i \notin 1 .. (i - 1)
      BY <1>1
    <2>2. ms[i] \in T <=> i \in Hits(ms, T)
      BY <1>1 DEF Hits
    <2>3. IsFiniteSet(H)
      <3>1. IsFiniteSet(Hits(ms, T))
        BY HitCountType
      <3> QED
        BY <3>1, FS_Subset
    <2>4. ms[i] \in T => G = H \cup {i} /\ i \notin H
      BY <2>1, <2>2
    <2>5. ms[i] \notin T => G = H
      BY <2>1, <2>2
    <2>6. nr(i) = Cardinality(G) /\ nr(i - 1) = Cardinality(H)
      BY DEF Before
    <2> HIDE DEF H, G, nr
    <2> QED
      BY <2>3, <2>4, <2>5, <2>6, FS_AddElement
  <1>7. \A i \in 1 .. n : ms[i] \in T => ms[i].seq = b + nr(i)
    BY <1>1 DEF Chain, Hits
  <1> HIDE DEF nr
  <1>8. CASE n = 0
    <2>1. ms = <<>> /\ ss = <<>>
      BY <1>1, <1>8, EmptySeq DEF n
    <2>2. Len(all) = 0
      BY <2>1 DEF FlattenSeq
    <2>3. NoHit(all, T)
      BY <1>2, <2>2, LenProperties DEF NoHit, Hits
    <2>4. HitCount(all, T) = 0
      BY <1>2, <2>3, HitCountType
    <2> QED
      BY <1>4, <1>5, <1>8, <2>3, <2>4, ChainNone
  <1>9. CASE n # 0
    <2>1. PICK g : Flattens(g, ss, R, n) /\ all = g[n]
      <3>1. n \in Nat \ {0}
        BY <1>1, <1>9
      <3> QED
        BY <3>1, FlattenSteps
    <2>2. /\ \A i \in 1 .. n : g[i] \in Seq(R)
          /\ \A i \in 1 .. n : g[i] = IF i = 1 THEN ss[i] ELSE g[i - 1] \o ss[i]
      BY <2>1 DEF Flattens
    <2> HIDE DEF all
    <2> DEFINE Good(i) == Chain(g[i], T, b) /\ HitCount(g[i], T) = nr(i)
    <2>3. ASSUME NEW i \in 1 .. n
          PROVE  /\ ss[i] \in Seq(R)
                 /\ nr(i) = nr(i - 1) + HitCount(ss[i], T)
                 /\ nr(i - 1) \in Nat /\ HitCount(ss[i], T) \in Nat
                 /\ Chain(ss[i], T, b + nr(i - 1))
      <3>1. ss[i] \in Seq(R) /\ nr(i) \in Nat /\ nr(i - 1) \in Nat
        BY <1>1, <1>3
      <3>2. CASE ms[i] \in T
        <4>1. PICK x \in T : ss[i] = <<x>> /\ x.seq = ms[i].seq
          BY <3>2
        <4>2. HitCount(ss[i], T) = 1
          BY <4>1, HitCountSingle
        <4>3. x.seq = (b + nr(i - 1)) + 1 /\ b + nr(i - 1) \in Nat
          BY <1>6, <1>7, <3>1, <3>2, <4>1
        <4>4. Chain(ss[i], T, b + nr(i - 1))
          BY <4>1, <4>3, ChainOne
        <4> QED
          BY <1>6, <3>1, <3>2, <4>2, <4>4
      <3>3. CASE ms[i] \notin T
        <4>1. NoHit(ss[i], T)
          BY <3>3
        <4>2. HitCount(ss[i], T) = 0
          BY <3>1, <4>1, HitCountType
        <4> QED
          BY <1>6, <3>1, <3>3, <4>1, <4>2, ChainNone
      <3> QED
        BY <3>2, <3>3
    <2>4. ASSUME NEW i \in 1 .. n, i # 1 => Good(i - 1)
          PROVE  Good(i)
      <3>1. CASE i = 1
        <4>1. g[i] = ss[i] /\ nr(i - 1) = 0
          BY <1>4, <2>2, <3>1
        <4>2. b + 0 = b
          OBVIOUS
        <4> QED
          BY <2>3, <4>1, <4>2
      <3>2. CASE i # 1
        <4>1. i - 1 \in 1 .. n
          BY <1>1, <3>2
        <4>2. /\ g[i - 1] \in Seq(R) /\ g[i] = g[i - 1] \o ss[i]
              /\ ss[i] \in Seq(R)
          BY <2>2, <2>3, <3>2, <4>1
        <4>3. Chain(g[i - 1], T, b) /\ HitCount(g[i - 1], T) = nr(i - 1)
          BY <2>4, <3>2
        <4>4. HitCount(g[i], T) = nr(i - 1) + HitCount(ss[i], T)
          BY <4>2, <4>3, HitCountConcat
        <4>5. Chain(ss[i], T, b + HitCount(g[i - 1], T))
          BY <2>3, <4>3
        <4>6. Chain(g[i], T, b)
          BY <4>2, <4>3, <4>5, ChainConcat
        <4> QED
          BY <2>3, <4>4, <4>6
      <3> QED
        BY <3>1, <3>2
    <2>5. \A i \in 1 .. n : Good(i)
      <3> DEFINE Bad == {i \in 1 .. n : ~Good(i)}
      <3>1. SUFFICES ASSUME Bad # {}
                     PROVE  FALSE
        OBVIOUS
      <3>2. Bad \in SUBSET Nat
        OBVIOUS
      <3> HIDE DEF Good
      <3>3. PICK i \in Bad : \A k \in Bad : i <= k
        BY <3>1, <3>2, SmallestInSet
      <3>4. i # 1 => i - 1 \in 1 .. n /\ i - 1 \notin Bad
        BY <1>1, <3>3
      <3> QED
        BY <2>4, <3>3, <3>4
    <2>6. n \in 1 .. n
      BY <1>1, <1>9
    <2> QED
      BY <1>5, <2>1, <2>5, <2>6 DEF all
  <1> QED
    BY <1>8, <1>9 DEF all

-----------------------------------------------------------------------------
(* Messages of a kind T, which the network does not touch *)

Stable(T) ==
    \A m \in Anything : \A p, q :
        /\ send_helper_(p, q, m) \in T <=> m \in T
        /\ m \in T => send_helper_(p, q, m).seq = m.seq

Copies(c) == {m \in Proper : m.type = "copy" /\ m.col = c}
Token(c, q) == {Redux(c, q)}

LEMMA CopiesStable ==
    ASSUME NEW c
    PROVE  Stable(Copies(c))
  <1> SUFFICES ASSUME NEW m \in Anything, NEW p, NEW q
               PROVE  /\ send_helper_(p, q, m) \in Copies(c) <=> m \in Copies(c)
                      /\ m \in Copies(c) => send_helper_(p, q, m).seq = m.seq
    BY DEF Stable
  <1>1. CASE m \in Proper
    <2>1. pack_message(m).col = m.col
      BY <1>1, ProperFields DEF pack_message, Proper, Mail
    <2> QED
      BY <1>1, <2>1, Packed DEF send_helper_, Copies
  <1>2. CASE m \notin Proper
    <2>1. send_helper_(p, q, m) = m
      BY <1>2, Sent
    <2> QED
      BY <1>2, <2>1 DEF Copies
  <1> QED
    BY <1>1, <1>2

LEMMA TokenStable ==
    ASSUME NEW c, NEW d
    PROVE  Stable(Token(c, d))
  <1> SUFFICES ASSUME NEW m \in Anything, NEW p, NEW q
               PROVE  /\ send_helper_(p, q, m) \in Token(c, d) <=> m \in Token(c, d)
                      /\ m \in Token(c, d) => send_helper_(p, q, m).seq = m.seq
    BY DEF Stable
  <1>1. \A x \in Token(c, d) : x.type = "redux"
    BY DEF Token, Redux
  <1>2. CASE m \in Proper
    <2>1. m.type # "redux" /\ send_helper_(p, q, m).type # "redux"
      BY <1>2, ProperFields, Sent
    <2> QED
      BY <1>1, <2>1
  <1>3. CASE m \notin Proper
    BY <1>3, Sent
  <1> QED
    BY <1>2, <1>3

(* t holds the same messages of the kind as s, in the same order *)
Same(T, s, t) ==
    /\ HitCount(t, T) = HitCount(s, T)
    /\ \A b \in Nat : Chain(s, T, b) => Chain(t, T, b)

LEMMA SameTwice ==
    ASSUME NEW T, NEW s, NEW t, NEW u, Same(T, s, t), Same(T, t, u)
    PROVE  Same(T, s, u)
  BY DEF Same

LEMMA SameItself ==
    ASSUME NEW T, NEW s
    PROVE  Same(T, s, s)
  BY DEF Same

LEMMA SameConcat ==
    ASSUME NEW S, NEW s \in Seq(S), NEW t \in Seq(S), NEW T, NoHit(t, T)
    PROVE  Same(T, s, s \o t)
  <1>1. HitCount(t, T) = 0 /\ HitCount(s, T) \in Nat
    BY HitCountType
  <1>2. HitCount(s \o t, T) = HitCount(s, T) + HitCount(t, T)
    BY HitCountConcat
  <1>3. \A b \in Nat : Chain(s, T, b) => Chain(s \o t, T, b)
    BY ChainConcat, ChainNone
  <1> QED
    BY <1>1, <1>2, <1>3 DEF Same

LEMMA SameAppend ==
    ASSUME NEW S, NEW s \in Seq(S), NEW x \in S, NEW T, x \notin T
    PROVE  Same(T, s, Append(s, x))
  <1>1. Append(s, x) = s \o <<x>> /\ <<x>> \in Seq(S)
    BY AppendProperties
  <1>2. NoHit(<<x>>, T)
    BY SingleHits
  <1> QED
    BY <1>1, <1>2, SameConcat

LEMMA SameTail ==
    ASSUME NEW S, NEW s \in Seq(S), s # <<>>, NEW T, Head(s) \notin T
    PROVE  Same(T, s, Tail(s))
  <1>1. HitCount(s, T) = HitCount(Tail(s), T) + HitCount(<<Head(s)>>, T)
        /\ Tail(s) \in Seq(S)
    BY HitCountTail
  <1>2. HitCount(<<Head(s)>>, T) = 0 /\ HitCount(Tail(s), T) \in Nat
    BY <1>1, HitCountSingle, HitCountType
  <1>3. \A b \in Nat : Chain(s, T, b) => Chain(Tail(s), T, b)
    BY ChainTail
  <1> QED
    BY <1>1, <1>2, <1>3 DEF Same

LEMMA ArrivedSame ==
    ASSUME NEW T, Stable(T), NEW s \in Seq(Anything), NEW p, NEW q
    PROVE  /\ Same(T, s, Arrived(p, q, s))
           /\ Arrived(p, q, s) \in Seq(Anything)
  <1> DEFINE t == Arrived(p, q, s)
  <1>1. \A i \in DOMAIN s : s[i] \in Anything
    BY LenProperties, ElementOfSeq
  <1>2. DOMAIN t = DOMAIN s /\ \A i \in DOMAIN s : t[i] = send_helper_(p, q, s[i])
    BY DEF Arrived
  <1> HIDE DEF t
  <1>3. \A i \in DOMAIN s : s[i] \in T <=> t[i] \in T
    BY <1>1, <1>2 DEF Stable
  <1>4. \A i \in DOMAIN s : s[i] \in T => t[i].seq = s[i].seq
    BY <1>1, <1>2 DEF Stable
  <1>5. HitCount(s, T) = HitCount(t, T)
    BY <1>2, <1>3, HitCountSame
  <1>6. \A b \in Nat : Chain(s, T, b) => Chain(t, T, b)
    BY <1>2, <1>3, <1>4, ChainSame
  <1> QED
    BY <1>5, <1>6, ArrivedAlike DEF Same, t

(* What sending does to the channels *)
LEMMA EmitFor ==
    ASSUME NEW T, Stable(T), NEW net \in Nets, NEW p \in PE, NEW out \in Sendings,
           NEW r \in PE
    PROVE  /\ \A q \in PE : q # p => Emit(net, p, out)[q][r] = net[q][r]
           /\ HitCount(Emit(net, p, out)[p][r], T) =
                  HitCount(net[p][r], T) + HitCount(out[r], T)
           /\ HitCount(net[p][r], T) \in Nat /\ HitCount(out[r], T) \in Nat
           /\ \A b \in Nat : /\ Chain(net[p][r], T, b)
                             /\ Chain(out[r], T, b + HitCount(net[p][r], T))
                             => Chain(Emit(net, p, out)[p][r], T, b)
           /\ NoHit(out[r], T) => Same(T, net[p][r], Emit(net, p, out)[p][r])
  <1> DEFINE new == Emit(net, p, out)
             s == net[p][r]
             o == out[r]
             t == Arrived(p, r, o)
  <1>1. /\ \A q, x \in PE : q # p => new[q][x] = net[q][x]
        /\ \A x \in PE : new[p][x] = net[p][x] \o Arrived(p, x, out[x])
    BY ONLY EmitRow, net \in Nets, p \in PE, out \in Sendings
  <1>2. s \in Seq(Anything) /\ o \in Seq(Anything)
    BY DEF Nets, Sendings
  <1>3. Same(T, o, t) /\ t \in Seq(Anything)
    BY <1>2, ArrivedSame
  <1>4. new[p][r] = s \o t /\ \A q \in PE : q # p => new[q][r] = net[q][r]
    BY <1>1
  <1> HIDE DEF new, s, o, t
  <1>5. /\ HitCount(s, T) \in Nat /\ HitCount(t, T) \in Nat
        /\ HitCount(s \o t, T) = HitCount(s, T) + HitCount(t, T)
    BY <1>2, <1>3, HitCountConcat, HitCountType
  <1>6. HitCount(t, T) = HitCount(o, T)
    BY <1>3 DEF Same
  <1>7. ASSUME NEW b \in Nat, Chain(s, T, b), Chain(o, T, b + HitCount(s, T))
        PROVE  Chain(s \o t, T, b)
    <2>1. Chain(t, T, b + HitCount(s, T))
      BY <1>3, <1>5, <1>7 DEF Same
    <2> QED
      BY <1>2, <1>3, <1>7, <2>1, ChainConcat
  <1>8. ASSUME NoHit(o, T)
        PROVE  Same(T, s, s \o t)
    <2>1. HitCount(o, T) = 0
      BY <1>2, <1>8, HitCountType
    <2>2. NoHit(t, T)
      BY <1>3, <1>6, <2>1, HitCountType
    <2> QED
      BY <1>2, <1>3, <2>2, SameConcat
  <1> QED
    BY <1>4, <1>5, <1>6, <1>7, <1>8 DEF new, s, o

-----------------------------------------------------------------------------
(* A channel and the messages that have waited at its end: between them    *)
(* they have the messages of a kind from low + 1 to high, in order.        *)

Link(T, in, wait, low, high) ==
    /\ Chain(wait, T, low)
    /\ Chain(in, T, low + HitCount(wait, T))
    /\ high = low + HitCount(wait, T) + HitCount(in, T)

LEMMA LinkSame ==
    ASSUME NEW T, NEW in \in Seq(Anything), NEW wait \in Seq(Anything), NEW low \in Nat,
           NEW high, Link(T, in, wait, low, high),
           NEW in2, NEW wait2, Same(T, in, in2), Same(T, wait, wait2)
    PROVE  Link(T, in2, wait2, low, high)
  <1>1. low + HitCount(wait, T) \in Nat
    BY HitCountType
  <1> QED
    BY <1>1 DEF Link, Same

(* More is sent *)
LEMMA LinkGrows ==
    ASSUME NEW T, NEW in \in Seq(Anything), NEW wait \in Seq(Anything), NEW low \in Nat,
           NEW high, Link(T, in, wait, low, high),
           NEW out, Chain(out, T, high), HitCount(out, T) \in Nat,
           NEW in2, HitCount(in2, T) = HitCount(in, T) + HitCount(out, T),
           \A b \in Nat : Chain(in, T, b) /\ Chain(out, T, b + HitCount(in, T))
                             => Chain(in2, T, b)
    PROVE  Link(T, in2, wait, low, high + HitCount(out, T))
  <1>1. HitCount(wait, T) \in Nat /\ HitCount(in, T) \in Nat
    BY HitCountType
  <1>2. low + HitCount(wait, T) \in Nat
    BY <1>1
  <1>3. high = (low + HitCount(wait, T)) + HitCount(in, T)
    BY <1>1 DEF Link
  <1>4. Chain(in2, T, low + HitCount(wait, T))
    BY <1>2, <1>3 DEF Link
  <1>5. high + HitCount(out, T) = low + HitCount(wait, T) + HitCount(in2, T)
    BY <1>1, <1>3
  <1> QED
    BY <1>4, <1>5 DEF Link

(* What has waited is handled *)
LEMMA LinkFlush ==
    ASSUME NEW T, NEW in \in Seq(Anything), NEW wait \in Seq(Anything), NEW low \in Nat,
           NEW high, Link(T, in, wait, low, high)
    PROVE  Link(T, in, <<>>, low + HitCount(wait, T), high) /\ Chain(wait, T, low)
  <1> DEFINE k == low + HitCount(wait, T)
  <1>1. HitCount(wait, T) \in Nat /\ HitCount(in, T) \in Nat
    BY HitCountType
  <1>2. HitCount(<<>>, T) = 0 /\ Chain(<<>>, T, k)
    BY HitCountEmpty, EmptyHits, ChainNone
  <1>3. k \in Nat /\ Chain(in, T, k) /\ high = k + HitCount(in, T) /\ Chain(wait, T, low)
    BY <1>1 DEF Link
  <1> HIDE DEF k
  <1>4. k + 0 = k /\ high = k + 0 + HitCount(in, T)
    BY <1>1, <1>3
  <1>5. Link(T, in, <<>>, k, high)
    BY <1>2, <1>3, <1>4 DEF Link
  <1> QED
    BY <1>3, <1>5 DEF k

(* The next message is handled *)
LEMMA LinkHead ==
    ASSUME NEW T, NEW in \in Seq(Anything), in # <<>>, NEW low \in Nat,
           NEW high, Link(T, in, <<>>, low, high)
    PROVE  /\ Chain(<<Head(in)>>, T, low)
           /\ Link(T, Tail(in), <<>>, low + HitCount(<<Head(in)>>, T), high)
  <1> DEFINE h == <<Head(in)>>
             t == Tail(in)
             x == Head(in)
             n == HitCount(h, T)
  <1>1. /\ t \in Seq(Anything) /\ x \in Anything
        /\ HitCount(in, T) = HitCount(t, T) + HitCount(h, T)
    BY HitCountTail
  <1>2. HitCount(<<>>, T) = 0 /\ \A b : Chain(<<>>, T, b)
    BY HitCountEmpty, EmptyHits, ChainNone
  <1>3. n = (IF x \in T THEN 1 ELSE 0) /\ (Chain(h, T, low) <=> (x \in T => x.seq = low + 1))
    BY HitCountSingle, ChainOne
  <1>4. HitCount(t, T) \in Nat /\ low + 0 = low
    <2>1. t \in Seq(Anything)
      BY <1>1
    <2> HIDE DEF t
    <2> QED
      BY <2>1, HitCountType
  <1>5. Chain(in, T, low) /\ high = low + HitCount(in, T)
    <2>1. Chain(in, T, low + 0) /\ high = low + 0 + HitCount(in, T)
      BY <1>2 DEF Link
    <2> QED
      BY <1>4, <2>1
  <1>6. /\ x \in T => x.seq = low + 1 /\ Chain(t, T, low + 1)
        /\ x \notin T => Chain(t, T, low)
    BY <1>5, ChainTail
  <1> HIDE DEF h, t, x
  <1>7. Chain(t, T, low + n) /\ low + n \in Nat /\ n \in Nat
    BY <1>3, <1>4, <1>6
  <1>8. high = (low + n) + 0 + HitCount(t, T) /\ (low + n) + 0 = low + n
    BY <1>1, <1>4, <1>5, <1>7
  <1>9. Link(T, t, <<>>, low + n, high)
    BY <1>2, <1>7, <1>8 DEF Link
  <1> QED
    BY <1>3, <1>6, <1>9 DEF h, t, x

(* The next message has to wait *)
LEMMA LinkKeep ==
    ASSUME NEW T, NEW in \in Seq(Anything), in # <<>>, NEW wait \in Seq(Anything),
           NEW low \in Nat, NEW high, Link(T, in, wait, low, high)
    PROVE  Link(T, Tail(in), Append(wait, Head(in)), low, high)
  <1> DEFINE h == <<Head(in)>>
             t == Tail(in)
             x == Head(in)
             n == HitCount(h, T)
             k == low + HitCount(wait, T)
             w == wait \o h
  <1>1. /\ t \in Seq(Anything) /\ x \in Anything
        /\ HitCount(in, T) = HitCount(t, T) + HitCount(h, T)
    BY HitCountTail
  <1>2. n = (IF x \in T THEN 1 ELSE 0)
    BY HitCountSingle
  <1>3. HitCount(t, T) \in Nat /\ HitCount(wait, T) \in Nat /\ k \in Nat
    <2>1. t \in Seq(Anything)
      BY <1>1
    <2> HIDE DEF t
    <2> QED
      BY <2>1, HitCountType
  <1>4. Chain(in, T, k) /\ Chain(wait, T, low) /\ high = k + HitCount(in, T)
    BY DEF Link
  <1>5. /\ x \in T => x.seq = k + 1 /\ Chain(t, T, k + 1)
        /\ x \notin T => Chain(t, T, k)
    BY <1>3, <1>4, ChainTail
  <1>6. Chain(h, T, k) <=> (x \in T => x.seq = k + 1)
    BY <1>3, ChainOne
  <1>7. Append(wait, x) = w /\ h \in Seq(Anything)
    BY <1>1, AppendProperties
  <1>8. HitCount(w, T) = HitCount(wait, T) + n
    BY <1>7, HitCountConcat
  <1>9. Chain(w, T, low)
    BY <1>4, <1>5, <1>6, <1>7, ChainConcat
  <1> HIDE DEF h, t, x, w, n
  <1>10. n \in Nat /\ low + HitCount(w, T) = k + n
    BY <1>2, <1>3, <1>8
  <1>11. Chain(t, T, low + HitCount(w, T))
    <2>1. k + 0 = k
      BY <1>3
    <2> HIDE DEF k
    <2> QED
      BY <1>2, <1>5, <1>10, <2>1
  <1>12. high = low + HitCount(w, T) + HitCount(t, T)
    <2> HIDE DEF k
    <2>1. high = (k + n) + HitCount(t, T)
      BY <1>1, <1>3, <1>4, <1>10 DEF n
    <2> QED
      BY <1>10, <2>1
  <1> QED
    BY <1>7, <1>9, <1>11, <1>12 DEF Link, t, x

-----------------------------------------------------------------------------
(* The broadcasts a handler has in hand *)

LEMMA CopiesHere ==
    ASSUME NEW c, NEW ms \in Seq(InCol(c))
    PROVE  \A i \in DOMAIN ms : ms[i].type = "copy" <=> ms[i] \in Copies(c)
  BY InColSeq, InColFields DEF Copies

(* Numbered by the root, or in the order they have come in *)
LEMMA NumberedChain ==
    ASSUME NEW p \in PE, NEW c \in User, NEW hs \in Seq(InCol(c)),
           last_bcast[p][c] \in Nat,
           RootHere(p, c) => HitCount(hs, Copies(c)) = 0,
           ~RootHere(p, c) => Chain(hs, Copies(c), last_bcast[p][c])
    PROVE  /\ numbered(p, c, hs) \in Seq(InCol(c))
           /\ Chain(numbered(p, c, hs), Copies(c), last_bcast[p][c])
           /\ ~RootHere(p, c) => numbered(p, c, hs) = hs
  <1> DEFINE ms == numbered(p, c, hs)
             T == Copies(c)
             nr(i) == last_bcast[p][c] + Cardinality({j \in 1 .. i : hs[j].type = "post"})
  <1>1. /\ hs \in Seq(Anything) /\ Len(hs) \in Nat /\ DOMAIN hs = 1 .. Len(hs)
        /\ \A i \in DOMAIN hs : hs[i] \in InCol(c)
    BY InColSeq
  <1>2. ms \in Seq(InCol(c))
    BY NumberedIs
  <1>3. /\ DOMAIN ms = DOMAIN hs
        /\ \A i \in DOMAIN hs :
              ms[i] = IF hs[i].type = "post" /\ RootHere(p, c)
                      THEN Copy(hs[i], nr(i)) ELSE hs[i]
        /\ ms = [i \in 1 .. Len(hs) |-> ms[i]]
    BY <1>1 DEF numbered
  <1> HIDE DEF ms, nr
  <1>4. CASE ~RootHere(p, c)
    <2>1. hs = [i \in 1 .. Len(hs) |-> hs[i]]
      BY <1>1, LenProperties
    <2>2. \A i \in 1 .. Len(hs) : ms[i] = hs[i]
      BY <1>1, <1>3, <1>4
    <2>3. ms = hs
      BY <1>3, <2>1, <2>2
    <2> QED
      BY <1>2, <1>4, <2>3 DEF ms
  <1>5. CASE RootHere(p, c)
    <2>1. \A i \in DOMAIN hs : hs[i].type # "copy"
      <3>1. NoHit(hs, T)
        BY <1>1, <1>5, HitCountType
      <3> QED
        BY <1>1, <3>1, CopiesHere DEF NoHit, Hits
    <2>0. ASSUME NEW i \in DOMAIN hs
          PROVE  /\ ms[i].type = "copy" <=> hs[i].type = "post"
                 /\ hs[i].type = "post" => ms[i].seq = nr(i)
      <3>1. ms[i] = IF hs[i].type = "post" THEN Copy(hs[i], nr(i)) ELSE hs[i]
        BY <1>3, <1>5
      <3>2. Copy(hs[i], nr(i)).type = "copy" /\ Copy(hs[i], nr(i)).seq = nr(i)
        BY DEF Copy
      <3>3. hs[i].type # "copy"
        BY <2>1
      <3> QED
        BY <3>1, <3>2, <3>3
    <2>2. \A i \in DOMAIN hs : ms[i] \in T <=> hs[i].type = "post"
      <3>1. \A i \in DOMAIN ms : ms[i].type = "copy" <=> ms[i] \in T
        BY <1>2, CopiesHere
      <3> HIDE DEF T
      <3> QED
        BY <1>3, <2>0, <3>1
    <2>3. ASSUME NEW i \in Hits(ms, T)
          PROVE  ms[i].seq = last_bcast[p][c] + Before(ms, T, i)
      <3>1. i \in DOMAIN hs /\ hs[i].type = "post"
        BY <1>3, <2>2, <2>3 DEF Hits
      <3>2. ms[i].seq = nr(i)
        BY <2>0, <3>1
      <3>3. 1 .. i \subseteq DOMAIN hs
        BY <1>1, <3>1
      <3>4. Hits(ms, T) \cap (1 .. i) = {j \in 1 .. i : hs[j].type = "post"}
        BY <1>3, <2>2, <3>3 DEF Hits
      <3> QED
        BY <3>2, <3>4 DEF nr, Before
    <2>4. Chain(ms, T, last_bcast[p][c])
      BY <2>3 DEF Chain
    <2> QED
      BY <1>2, <1>5, <2>4 DEF ms
  <1> QED
    BY <1>4, <1>5

(* They are all run *)
LEMMA CopiesRun ==
    ASSUME NEW p \in PE, NEW c \in User, NEW ms \in Seq(InCol(c)),
           last_bcast[p][c] \in Nat, Chain(ms, Copies(c), last_bcast[p][c])
    PROVE  \A i \in DOMAIN ms : ms[i].type = "copy" => Runs(p, c, ms, i)
  <1> SUFFICES ASSUME NEW i \in DOMAIN ms, ms[i].type = "copy"
               PROVE  InTurn(p, c, ms, i)
    BY DEF Runs
  <1> DEFINE T == Copies(c)
  <1>1. Len(ms) \in Nat /\ DOMAIN ms = 1 .. Len(ms)
    BY InColSeq
  <1>2. \A j \in DOMAIN ms : ms[j].type = "copy" <=> ms[j] \in T
    BY CopiesHere
  <1>3. i \in Hits(ms, T)
    BY <1>2 DEF Hits
  <1>4. ms[i].seq = last_bcast[p][c] + 1
                    + Cardinality({j \in 1 .. (i - 1) : ms[j] \in T /\ ms[j].seq < ms[i].seq})
    <2> HIDE DEF T
    <2> QED
      BY <1>3, ChainTurns DEF T
  <1>5. 1 .. (i - 1) \subseteq DOMAIN ms
    BY <1>1
  <1>6. {j \in 1 .. (i - 1) : ms[j] \in T /\ ms[j].seq < ms[i].seq} =
        {j \in 1 .. (i - 1) : ms[j].type = "copy" /\ ms[j].seq < ms[i].seq}
    BY <1>2, <1>5
  <1> QED
    BY <1>4, <1>6 DEF InTurn

LEMMA NoneFails ==
    ASSUME NEW p \in PE, NEW c \in User, NEW ms \in Seq(InCol(c)),
           \A i \in DOMAIN ms : ms[i].type = "copy" => Runs(p, c, ms, i),
           \A m \in buffers[p][c] : m.type # "copy"
    PROVE  ~Fails(p, c, ms)
  <1> SUFFICES ASSUME NEW i \in DOMAIN ms, Runs(p, c, ms, i)
               PROVE  /\ ~unpack_message(ms[i]).packed
                      /\ is_cloneable(pack_message(ms[i]))
                      /\ \A j \in 1 .. (i - 1) : ms[j].type = "copy" => Runs(p, c, ms, j)
    BY DEF Fails
  <1>1. Len(ms) \in Nat /\ DOMAIN ms = 1 .. Len(ms)
    BY InColSeq
  <1>2. 1 .. (i - 1) \subseteq DOMAIN ms
    BY <1>1
  <1>3. ms[i] \in Proper
    BY OneFate
  <1>4. ~unpack_message(ms[i]).packed
    BY <1>3 DEF unpack_message, Proper, Mail
  <1>5. is_cloneable(pack_message(ms[i]))
    BY <1>3 DEF is_cloneable, pack_message, Proper, Mail
  <1> QED
    BY <1>2, <1>4, <1>5

LEMMA LastIs ==
    ASSUME last_bcast \in [PE -> [Col -> Nat]],
           NEW p \in PE, NEW c \in User, NEW ms \in Seq(InCol(c)), NEW bad,
           Process(p, c, ms, bad),
           \A i \in DOMAIN ms : ms[i].type = "copy" => Runs(p, c, ms, i)
    PROVE  /\ last_bcast'[p][c] = last_bcast[p][c] + HitCount(ms, Copies(c))
           /\ \A q \in PE, d \in Col : ~(q = p /\ d = c) =>
                 last_bcast'[q][d] = last_bcast[q][d]
  <1> DEFINE run == {i \in DOMAIN ms : Runs(p, c, ms, i)}
             copies == {i \in run : ms[i].type = "copy"}
  <1>1. copies = Hits(ms, Copies(c))
    BY CopiesHere DEF Hits
  <1>2. last_bcast' = [last_bcast EXCEPT ![p][c] = @ + Cardinality(copies)]
    BY DEF Process
  <1>3. c \in Col
    BY DEF Col
  <1> HIDE DEF copies
  <1> QED
    BY <1>1, <1>2, <1>3 DEF HitCount

(* None is put aside *)
LEMMA NoneAside ==
    ASSUME buffers \in Asides, ran \in [PE -> SUBSET Letter],
           NEW p \in PE, NEW c \in User, NEW ms \in Seq(InCol(c)), NEW bad,
           Process(p, c, ms, bad),
           \A i \in DOMAIN ms : ms[i].type = "copy" => Runs(p, c, ms, i),
           \A m \in buffers[p][c] : m.type # "copy"
    PROVE  \A m \in buffers'[p][c] : m.type # "copy"
  <1>1. buffers'[p][c] = buffers[p][c] \cup {ms[i] : i \in StayAt(p, c, ms)}
    BY ProcessIs
  <1>2. \A i \in StayAt(p, c, ms) : i \in DOMAIN ms /\ ~Runs(p, c, ms, i)
    BY DEF StayAt, Stays
  <1> QED
    BY <1>1, <1>2

(* They are passed on to the children, and to nobody else *)
LEMMA OutgoingChain ==
    ASSUME NEW p \in PE, NEW c \in User, NEW ms \in Seq(InCol(c)), NEW b \in Nat,
           Chain(ms, Copies(c), b), NEW q \in PE,
           \A i \in DOMAIN ms : ms[i].type = "copy" => Runs(p, c, ms, i)
    PROVE  /\ q \in span_tree_children(p) =>
                 /\ Chain(outgoing(p, c, ms)[q], Copies(c), b)
                 /\ HitCount(outgoing(p, c, ms)[q], Copies(c)) = HitCount(ms, Copies(c))
           /\ q \notin span_tree_children(p) => NoHit(outgoing(p, c, ms)[q], Copies(c))
           /\ \A d \in User \ {c} : NoHit(outgoing(p, c, ms)[q], Copies(d))
           /\ \A d, r : NoHit(outgoing(p, c, ms)[q], Token(d, r))
  <1> DEFINE ss == Parcels(p, c, ms, q)
             out == outgoing(p, c, ms)[q]
             T == Copies(c)
  <1>1. Len(ms) \in Nat /\ DOMAIN ms = 1 .. Len(ms) /\ \A i \in DOMAIN ms : ms[i] \in InCol(c)
    BY InColSeq
  <1>2. /\ ss \in [1 .. Len(ms) -> Seq(Anything)] /\ out = FlattenSeq(ss)
        /\ out \in Seq(Anything)
    BY OutgoingIs DEF Sendings
  <1>3. \A i \in 1 .. Len(ms) : ss[i] = Parcel(p, c, ms, i, q)
    BY <1>1 DEF Parcels
  <1>4. ASSUME NEW i \in DOMAIN ms
        PROVE  /\ CopyRuns(p, c, ms, i) <=> ms[i] \in T
               /\ ms[i] \in T =>
                     /\ pack_message(ms[i]) \in T
                     /\ pack_message(ms[i]).seq = ms[i].seq
                     /\ ~Goes(p, c, ms, i, q)
               /\ Goes(p, c, ms, i, q) => ms[i] \in Proper /\ ms[i].type # "copy"
               /\ ms[i].col = c
    <2>1. ms[i].type = "copy" <=> ms[i] \in T
      BY CopiesHere
    <2>2. CopyRuns(p, c, ms, i) <=> ms[i] \in T
      BY <2>1 DEF CopyRuns
    <2>3. ms[i] \in T => pack_message(ms[i]) \in T /\ pack_message(ms[i]).seq = ms[i].seq
      <3>1. ms[i] \in T => ms[i] \in Proper /\ ms[i].type = "copy" /\ ms[i].col = c
        BY DEF Copies
      <3>2. ms[i] \in Proper => pack_message(ms[i]).col = ms[i].col
        BY ProperFields DEF pack_message, Proper, Mail
      <3> QED
        BY <3>1, <3>2, Packed DEF Copies
    <2>4. Goes(p, c, ms, i, q) => ms[i] \in Proper /\ ms[i].type # "copy"
      <3>1. Goes(p, c, ms, i, q) => ms[i].type \in {"post", "entry"}
        BY DEF Goes
      <3>2. ms[i].type \in {"post", "entry"} => ms[i] \in Proper /\ ms[i].type # "copy"
        BY <1>1, InColFields
      <3> QED
        BY <3>1, <3>2
    <2>5. ms[i].col = c
      BY <1>1, InColFields
    <2> QED
      BY <2>1, <2>2, <2>3, <2>4, <2>5
  <1>5. ASSUME NEW i \in 1 .. Len(ms)
        PROVE  /\ ms[i] \in T /\ q \in span_tree_children(p) =>
                     ss[i] = <<pack_message(ms[i])>>
               /\ ~(ms[i] \in T /\ q \in span_tree_children(p)) =>
                     ss[i] = <<>> \/ (ss[i] = <<ms[i]>> /\ Goes(p, c, ms, i, q))
    BY <1>1, <1>3, <1>4 DEF Parcel
  <1> HIDE DEF ss, out, T
  <1>6. ASSUME q \in span_tree_children(p)
        PROVE  Chain(out, T, b) /\ HitCount(out, T) = HitCount(ms, T)
    <2>1. \A i \in 1 .. Len(ms) : ms[i] \notin T => NoHit(ss[i], T)
      <3> SUFFICES ASSUME NEW i \in 1 .. Len(ms), ms[i] \notin T
                   PROVE  NoHit(ss[i], T)
        OBVIOUS
      <3>1. ss[i] = <<>> \/ ss[i] = <<ms[i]>>
        BY <1>5
      <3> QED
        BY <3>1, EmptyHits, SingleHits
    <2>2. \A i \in 1 .. Len(ms) : ms[i] \in T => \E x \in T : ss[i] = <<x>> /\ x.seq = ms[i].seq
      <3> SUFFICES ASSUME NEW i \in 1 .. Len(ms), ms[i] \in T
                   PROVE  \E x \in T : ss[i] = <<x>> /\ x.seq = ms[i].seq
        OBVIOUS
      <3>1. pack_message(ms[i]) \in T /\ pack_message(ms[i]).seq = ms[i].seq
        BY <1>1, <1>4
      <3>2. ss[i] = <<pack_message(ms[i])>>
        BY <1>5, <1>6
      <3> QED
        BY <3>1, <3>2
    <2>3. Chain(ms, T, b)
      BY DEF T
    <2> QED
      BY <1>2, <2>1, <2>2, <2>3, FlattenChain
  <1>7. ASSUME q \notin span_tree_children(p)
        PROVE  NoHit(out, T)
    <2>1. ASSUME NEW i \in 1 .. Len(ms)
          PROVE  NoHit(ss[i], T)
      <3>1. ss[i] = <<>> \/ (ss[i] = <<ms[i]>> /\ Goes(p, c, ms, i, q))
        BY <1>5, <1>7
      <3>2. ss[i] = <<ms[i]>> /\ Goes(p, c, ms, i, q) => ms[i] \notin T
        BY <1>1, <1>4
      <3> QED
        BY <3>1, <3>2, EmptyHits, SingleHits
    <2> QED
      BY <1>1, <1>2, <2>1, FlattenHits
  <1>8. ASSUME NEW X, \A m \in Proper : m.col = c => m \notin X
        PROVE  NoHit(out, X)
    <2>1. ASSUME NEW i \in 1 .. Len(ms)
          PROVE  NoHit(ss[i], X)
      <3>1. \/ ss[i] = <<>>
            \/ ss[i] = <<ms[i]>> /\ Goes(p, c, ms, i, q)
            \/ ss[i] = <<pack_message(ms[i])>> /\ ms[i] \in T
        BY <1>5
      <3>2. Goes(p, c, ms, i, q) => ms[i] \notin X
        BY <1>1, <1>4, <1>8
      <3>3. ms[i] \in T => pack_message(ms[i]) \notin X
        BY <1>1, <1>4, <1>8 DEF T, Copies
      <3> QED
        BY <3>1, <3>2, <3>3, EmptyHits, SingleHits
    <2> QED
      BY <1>1, <1>2, <2>1, FlattenHits
  <1>9. \A d \in User \ {c} : NoHit(out, Copies(d))
    BY <1>8 DEF Copies
  <1>10. \A d, r : NoHit(out, Token(d, r))
    <2>1. \A d, r : \A m \in Proper : m \notin Token(d, r)
      BY ProperFields DEF Token, Redux
    <2> QED
      BY <1>8, <2>1
  <1> QED
    BY <1>6, <1>7, <1>9, <1>10 DEF out, T

-----------------------------------------------------------------------------
(* Broadcasts on their way: copies for a PE come from its parent only, and *)
(* the PE has run those with lower numbers.                                *)

Ways(net, early_, last, c) ==
    \A p \in PE :
        /\ \A r \in PE : r # span_tree_parent(p) => HitCount(net[r][p], Copies(c)) = 0
        /\ p = 0 => HitCount(early_[p][c], Copies(c)) = 0
        /\ p # 0 => Link(Copies(c), net[span_tree_parent(p)][p], early_[p][c],
                         last[p][c], last[span_tree_parent(p)][c])

Lasts == [PE -> [Col -> Nat]]

LEMMA MailTypes ==
    ASSUME NEW net \in Nets, NEW early_ \in Early, NEW last \in Lasts,
           NEW p \in PE, NEW c \in Col
    PROVE  /\ \A q \in PE : net[q][p] \in Seq(Anything) /\ net[p][q] \in Seq(Anything)
           /\ early_[p][c] \in Seq(Anything) /\ early_[p][c] \in Seq(InCol(c))
           /\ last[p][c] \in Nat
  <1>1. early_[p][c] \in Seq(InCol(c))
    BY DEF Early
  <1>2. early_[p][c] \in Seq(Anything)
    BY DEF Early
  <1> QED
    BY <1>1, <1>2 DEF Nets, Lasts

LEMMA ParentIs ==
    ASSUME NEW p \in PE
    PROVE  /\ p # 0 => span_tree_parent(p) \in PE /\ span_tree_parent(p) # p
           /\ p = 0 => span_tree_parent(p) \notin PE
           /\ \A q \in PE : q \in span_tree_children(p) <=> q # 0 /\ span_tree_parent(q) = p
  <1>1. p # 0 => span_tree_parent(p) \in PE
    BY TreeIs
  <1>2. p = 0 => span_tree_parent(p) \notin PE
    BY NumPesAssumption DEF span_tree_parent, NoPe, PE
  <1>3. \A q \in PE : q \in span_tree_children(p) <=> q # 0 /\ span_tree_parent(q) = p
    BY TreeIs
  <1>4. p # 0 => span_tree_parent(p) # p
    BY <1>3, TreeIs
  <1> QED
    BY <1>1, <1>2, <1>3, <1>4

LEMMA WaysSame ==
    ASSUME NEW net \in Nets, NEW early_ \in Early, NEW last \in Lasts, NEW c \in User,
           Ways(net, early_, last, c), NEW new, NEW later, NEW after,
           \A r, p \in PE : Same(Copies(c), net[r][p], new[r][p]),
           \A p \in PE : Same(Copies(c), early_[p][c], later[p][c]),
           \A p \in PE : after[p][c] = last[p][c]
    PROVE  Ways(new, later, after, c)
  <1> DEFINE T == Copies(c)
  <1> SUFFICES ASSUME NEW p \in PE
               PROVE  /\ \A r \in PE : r # span_tree_parent(p) => HitCount(new[r][p], T) = 0
                      /\ p = 0 => HitCount(later[p][c], T) = 0
                      /\ p # 0 => Link(T, new[span_tree_parent(p)][p], later[p][c],
                                       after[p][c], after[span_tree_parent(p)][c])
    BY DEF Ways
  <1> HIDE DEF T
  <1>1. c \in Col
    BY DEF Col
  <1>2. \A r \in PE : HitCount(new[r][p], T) = HitCount(net[r][p], T)
    BY DEF Same, T
  <1>3. HitCount(later[p][c], T) = HitCount(early_[p][c], T)
    BY DEF Same, T
  <1>4. ASSUME p # 0
        PROVE  Link(T, new[span_tree_parent(p)][p], later[p][c],
                    after[p][c], after[span_tree_parent(p)][c])
    <2> DEFINE P == span_tree_parent(p)
    <2>1. P \in PE
      BY <1>4, ParentIs
    <2>2. Link(T, net[P][p], early_[p][c], last[p][c], last[P][c])
      BY <1>4 DEF Ways, T
    <2> HIDE DEF P
    <2>3. /\ net[P][p] \in Seq(Anything) /\ early_[p][c] \in Seq(Anything)
          /\ last[p][c] \in Nat
      BY <1>1, <2>1, MailTypes
    <2>4. Same(T, net[P][p], new[P][p]) /\ Same(T, early_[p][c], later[p][c])
      BY <2>1 DEF T
    <2>5. Link(T, new[P][p], later[p][c], last[p][c], last[P][c])
      BY <2>2, <2>3, <2>4, LinkSame
    <2>6. after[p][c] = last[p][c] /\ after[P][c] = last[P][c]
      BY <2>1
    <2> QED
      BY <2>5, <2>6 DEF P
  <1> QED
    BY <1>2, <1>3, <1>4 DEF Ways, T

(* Taking the next message from q to p away *)
LEMMA BehindIs ==
    ASSUME NEW net \in Nets, NEW q \in PE, NEW p \in PE, net[q][p] # <<>>
    PROVE  /\ Behind(net, q, p) \in Nets
           /\ Head(net[q][p]) \in Anything
           /\ \A r, s \in PE : ~(r = q /\ s = p) => Behind(net, q, p)[r][s] = net[r][s]
           /\ Behind(net, q, p)[q][p] = Tail(net[q][p])
  <1>1. Behind(net, q, p) \in Nets /\ Head(net[q][p]) \in Anything
    BY BehindArriving
  <1>2. \A r, s \in PE : ~(r = q /\ s = p) => Behind(net, q, p)[r][s] = net[r][s]
    BY DEF Behind, Nets
  <1>3. Behind(net, q, p)[q][p] = Tail(net[q][p])
    BY DEF Behind, Nets
  <1> QED
    BY <1>1, <1>2, <1>3

LEMMA BehindSame ==
    ASSUME NEW net \in Nets, NEW q \in PE, NEW p \in PE, net[q][p] # <<>>,
           NEW T, Head(net[q][p]) \notin T
    PROVE  \A r, s \in PE : Same(T, net[r][s], Behind(net, q, p)[r][s])
  <1>1. net[q][p] \in Seq(Anything)
    BY DEF Nets
  <1>2. Same(T, net[q][p], Tail(net[q][p]))
    BY <1>1, SameTail
  <1> QED
    BY <1>2, BehindIs, SameItself

(* Away from the parent's channel no copy is taken *)
LEMMA NoCopyNext ==
    ASSUME NEW net \in Nets, NEW q \in PE, NEW p \in PE, net[q][p] # <<>>, NEW T,
           HitCount(net[q][p], T) = 0
    PROVE  Head(net[q][p]) \notin T /\ HitCount(Tail(net[q][p]), T) = 0
  <1>1. net[q][p] \in Seq(Anything)
    BY DEF Nets
  <1>2. /\ Tail(net[q][p]) \in Seq(Anything)
        /\ HitCount(net[q][p], T) = HitCount(Tail(net[q][p]), T)
                                      + HitCount(<<Head(net[q][p])>>, T)
    BY <1>1, HitCountTail
  <1>3. HitCount(<<Head(net[q][p])>>, T) = IF Head(net[q][p]) \in T THEN 1 ELSE 0
    BY HitCountSingle
  <1>4. HitCount(Tail(net[q][p]), T) \in Nat
    BY <1>2, HitCountType
  <1> QED
    BY <1>2, <1>3, <1>4

(* A PE without a branch keeps what comes *)
LEMMA WaysKeep ==
    ASSUME NEW net \in Nets, NEW early_ \in Early, NEW last \in Lasts, NEW c \in User,
           Ways(net, early_, last, c), NEW q \in PE, NEW p \in PE, net[q][p] # <<>>,
           Head(net[q][p]) \in InCol(c), NEW later,
           later = [early_ EXCEPT ![p][c] = Append(@, Head(net[q][p]))]
    PROVE  Ways(Behind(net, q, p), later, last, c)
  <1> DEFINE T == Copies(c)
             new == Behind(net, q, p)
             m == Head(net[q][p])
  <1>1. c \in Col
    BY DEF Col
  <1>2. /\ \A s \in PE : s # p => later[s][c] = early_[s][c]
        /\ later[p][c] = Append(early_[p][c], m)
    BY <1>1 DEF Early
  <1>3. early_[p][c] \in Seq(Anything) /\ net[q][p] \in Seq(Anything)
    BY <1>1, MailTypes DEF Nets
  <1>4. /\ m \in Anything
        /\ \A r, s \in PE : ~(r = q /\ s = p) => new[r][s] = net[r][s]
        /\ new[q][p] = Tail(net[q][p])
    BY BehindIs
  <1>5. CASE m \notin T
    <2>1. \A r, s \in PE : Same(T, net[r][s], new[r][s])
      BY <1>5, BehindSame
    <2>2. \A s \in PE : Same(T, early_[s][c], later[s][c])
      BY <1>2, <1>3, <1>4, <1>5, SameAppend, SameItself
    <2> HIDE DEF new, m
    <2>3. Ways(new, later, last, c)
      BY <2>1, <2>2, WaysSame
    <2> QED
      BY <2>3 DEF new
  <1>6. CASE m \in T
    <2> HIDE DEF T, new, m
    <2>1. q = span_tree_parent(p) /\ p # 0
      <3>1. HitCount(net[q][p], T) # 0
        BY <1>6, NoCopyNext DEF m
      <3>2. q = span_tree_parent(p)
        BY <3>1 DEF Ways, T
      <3> QED
        BY <3>2, ParentIs
    <2>2. Link(T, net[q][p], early_[p][c], last[p][c], last[q][c])
      BY <2>1 DEF Ways, T
    <2>3. last[p][c] \in Nat
      BY <1>1, MailTypes
    <2>4. Link(T, Tail(net[q][p]), Append(early_[p][c], m), last[p][c], last[q][c])
      BY <1>3, <2>2, <2>3, LinkKeep DEF m
    <2>5. ASSUME NEW s \in PE
          PROVE  /\ \A r \in PE : r # span_tree_parent(s) => HitCount(new[r][s], T) = 0
                 /\ s = 0 => HitCount(later[s][c], T) = 0
                 /\ s # 0 => Link(T, new[span_tree_parent(s)][s], later[s][c],
                                  last[s][c], last[span_tree_parent(s)][c])
      <3>1. CASE s = p
        <4>1. \A r \in PE : r # q => HitCount(new[r][p], T) = 0
          BY <1>4, <2>1 DEF Ways, T
        <4>2. Link(T, new[q][p], later[p][c], last[p][c], last[q][c])
          BY <1>2, <1>4, <2>4
        <4> QED
          BY <2>1, <3>1, <4>1, <4>2
      <3>2. CASE s # p
        <4>1. later[s][c] = early_[s][c] /\ \A r \in PE : new[r][s] = net[r][s]
          BY <1>2, <1>4, <3>2
        <4>2. s # 0 => span_tree_parent(s) \in PE
          BY ParentIs
        <4> QED
          BY <4>1, <4>2 DEF Ways, T
      <3> QED
        BY <3>1, <3>2
    <2>6. Ways(new, later, last, c)
      BY <2>5 DEF Ways, T
    <2> QED
      BY <2>6 DEF new
  <1> QED
    BY <1>5, <1>6

(* p has taken the messages hs in hand, which leaves net and early_ *)
InHandWays(p, c, hs, net, early_) ==
    /\ \A r, s \in PE : s # p => net[r][s] = queue[r][s]
    /\ \A s \in PE : s # p => early_[s][c] = collection_buffer[s][c]
    /\ \A r \in PE : r # span_tree_parent(p) => HitCount(net[r][p], Copies(c)) = 0
    /\ p = 0 => HitCount(hs, Copies(c)) = 0 /\ HitCount(early_[p][c], Copies(c)) = 0
    /\ p # 0 => /\ Chain(hs, Copies(c), last_bcast[p][c])
                /\ Link(Copies(c), net[span_tree_parent(p)][p], early_[p][c],
                        last_bcast[p][c] + HitCount(hs, Copies(c)),
                        last_bcast[span_tree_parent(p)][c])

(* What it sends has what its children need of ms *)
Passes(p, c, ms, out) ==
    \A s \in PE :
        /\ s \in span_tree_children(p) =>
              /\ Chain(out[s], Copies(c), last_bcast[p][c])
              /\ HitCount(out[s], Copies(c)) = HitCount(ms, Copies(c))
        /\ s \notin span_tree_children(p) => HitCount(out[s], Copies(c)) = 0

LEMMA WaysHandled ==
    ASSUME queue \in Nets, collection_buffer \in Early, last_bcast \in Lasts,
           NEW p \in PE, NEW c \in User, Ways(queue, collection_buffer, last_bcast, c),
           NEW hs \in Seq(InCol(c)), NEW ms \in Seq(InCol(c)), p # 0 => ms = hs,
           NEW net \in Nets, NEW early_ \in Early, InHandWays(p, c, hs, net, early_),
           NEW out \in Sendings, Passes(p, c, ms, out), NEW after,
           after[p][c] = last_bcast[p][c] + HitCount(ms, Copies(c)),
           \A q \in PE : q # p => after[q][c] = last_bcast[q][c]
    PROVE  Ways(Emit(net, p, out), early_, after, c)
  <1> DEFINE T == Copies(c)
             new == Emit(net, p, out)
  <1>1. c \in Col /\ Stable(T)
    BY CopiesStable DEF Col
  <1>2. HitCount(ms, T) \in Nat /\ HitCount(hs, T) \in Nat
    BY InColSeq, HitCountType
  <1>3. \A r, s \in PE : r # p => new[r][s] = net[r][s]
    BY EmitRow
  <1>4. ASSUME NEW s \in PE
        PROVE  /\ HitCount(new[p][s], T) = HitCount(net[p][s], T) + HitCount(out[s], T)
               /\ HitCount(net[p][s], T) \in Nat /\ HitCount(out[s], T) \in Nat
               /\ \A b \in Nat : /\ Chain(net[p][s], T, b)
                                 /\ Chain(out[s], T, b + HitCount(net[p][s], T))
                                 => Chain(new[p][s], T, b)
    BY <1>1, EmitFor
  <1> HIDE DEF T, new
  <1>5. ASSUME NEW s \in PE
        PROVE  /\ \A r \in PE : r # span_tree_parent(s) => HitCount(new[r][s], T) = 0
               /\ s = 0 => HitCount(early_[s][c], T) = 0
               /\ s # 0 => Link(T, new[span_tree_parent(s)][s], early_[s][c],
                                after[s][c], after[span_tree_parent(s)][c])
    <2> DEFINE P == span_tree_parent(s)
    <2>1. /\ s # 0 => P \in PE /\ P # s
          /\ s \in span_tree_children(p) <=> s # 0 /\ P = p
      BY ParentIs
    <2> HIDE DEF P
    <2>2. ASSUME NEW r \in PE, r # P
          PROVE  HitCount(net[r][s], T) = 0
      <3>1. CASE s = p
        BY <2>2, <3>1 DEF InHandWays, P, T
      <3>2. CASE s # p
        <4>1. net[r][s] = queue[r][s]
          BY <3>2 DEF InHandWays
        <4> QED
          BY <2>2, <4>1 DEF Ways, P, T
      <3> QED
        BY <3>1, <3>2
    <2>3. ASSUME NEW r \in PE, r # P
          PROVE  HitCount(new[r][s], T) = 0
      <3>1. CASE r # p
        BY <1>3, <2>2, <2>3, <3>1
      <3>2. CASE r = p
        <4>1. s \notin span_tree_children(p)
          BY <2>1, <2>3, <3>2
        <4>2. HitCount(out[s], T) = 0
          BY <4>1 DEF Passes, T
        <4>3. HitCount(net[p][s], T) = 0
          BY <2>2, <2>3, <3>2
        <4> QED
          BY <1>4, <3>2, <4>2, <4>3
      <3> QED
        BY <3>1, <3>2
    <2>4. ASSUME s = 0
          PROVE  HitCount(early_[s][c], T) = 0
      <3>1. CASE s = p
        BY <2>4, <3>1 DEF InHandWays, T
      <3>2. CASE s # p
        <4>1. early_[s][c] = collection_buffer[s][c]
          BY <3>2 DEF InHandWays
        <4> QED
          BY <2>4, <4>1 DEF Ways, T
      <3> QED
        BY <3>1, <3>2
    <2>5. ASSUME s # 0
          PROVE  Link(T, new[P][s], early_[s][c], after[s][c], after[P][c])
      <3>1. P \in PE /\ P # s
        BY <2>1, <2>5
      <3>2. CASE s = p
        <4>1. Link(T, net[P][p], early_[p][c], last_bcast[p][c] + HitCount(hs, T),
                   last_bcast[P][c])
          BY <2>5, <3>2 DEF InHandWays, P, T
        <4>2. new[P][p] = net[P][p] /\ after[P][c] = last_bcast[P][c]
          BY <1>3, <3>1, <3>2
        <4>3. after[p][c] = last_bcast[p][c] + HitCount(hs, T)
          BY <2>5, <3>2 DEF T
        <4> QED
          BY <3>2, <4>1, <4>2, <4>3
      <3>3. CASE s # p
        <4>1. Link(T, queue[P][s], collection_buffer[s][c], last_bcast[s][c],
                   last_bcast[P][c])
          BY <2>5 DEF Ways, P, T
        <4>2. net[P][s] = queue[P][s] /\ early_[s][c] = collection_buffer[s][c]
          BY <3>1, <3>3 DEF InHandWays
        <4>3. after[s][c] = last_bcast[s][c]
          BY <3>3
        <4>4. CASE P # p
          BY <1>3, <3>1, <4>1, <4>2, <4>3, <4>4
        <4>5. CASE P = p
          <5>1. s \in span_tree_children(p)
            BY <2>1, <2>5, <4>5
          <5>2. Chain(out[s], T, last_bcast[p][c]) /\ HitCount(out[s], T) = HitCount(ms, T)
            BY <5>1 DEF Passes, T
          <5>3. /\ net[p][s] \in Seq(Anything) /\ early_[s][c] \in Seq(Anything)
                /\ last_bcast[s][c] \in Nat
            BY <1>1, MailTypes
          <5>4. Link(T, net[p][s], early_[s][c], last_bcast[s][c], last_bcast[p][c])
            BY <4>1, <4>2, <4>5
          <5>5. Link(T, new[p][s], early_[s][c], last_bcast[s][c],
                     last_bcast[p][c] + HitCount(out[s], T))
            <6> DEFINE in == net[p][s]
                       in2 == new[p][s]
                       o == out[s]
                       w == early_[s][c]
                       lo == last_bcast[s][c]
                       hi == last_bcast[p][c]
            <6>1. /\ in \in Seq(Anything) /\ w \in Seq(Anything) /\ lo \in Nat
                  /\ Link(T, in, w, lo, hi) /\ Chain(o, T, hi) /\ HitCount(o, T) \in Nat
                  /\ HitCount(in2, T) = HitCount(in, T) + HitCount(o, T)
                  /\ \A b \in Nat : Chain(in, T, b) /\ Chain(o, T, b + HitCount(in, T))
                                       => Chain(in2, T, b)
              BY <1>4, <5>2, <5>3, <5>4
            <6> HIDE DEF in, in2, o, w, lo, hi
            <6>2. Link(T, in2, w, lo, hi + HitCount(o, T))
              BY <6>1, LinkGrows
            <6> QED
              BY <6>2 DEF in, in2, o, w, lo, hi
          <5>6. after[P][c] = last_bcast[p][c] + HitCount(out[s], T)
            BY <4>5, <5>2 DEF T
          <5> QED
            BY <4>3, <4>5, <5>5, <5>6
        <4> QED
          BY <4>4, <4>5
      <3> QED
        BY <3>2, <3>3
    <2> QED
      BY <2>3, <2>4, <2>5 DEF P
  <1>6. Ways(new, early_, after, c)
    BY <1>5 DEF Ways, T
  <1> QED
    BY <1>6 DEF new

-----------------------------------------------------------------------------
(* Broadcasts are run in order everywhere *)

Streams ==
    \A c \in User :
        /\ Ways(queue, collection_buffer, last_bcast, c)
        /\ \A p \in PE : \A m \in buffers[p][c] : m.type # "copy"

(* What says nothing of a letter has no broadcast *)
LEMMA WordlessCopies ==
    ASSUME NEW w \in Wordless, NEW r \in PE, NEW c
    PROVE  w[r] \in Seq(Anything) /\ NoHit(w[r], Copies(c))
  <1>1. w[r] \in Seq(Anything) /\ \A l \in Letter : Count(w[r], l) = 0
    BY DEF Wordless, Sendings
  <1>2. \A l \in Letter : NoHit(w[r], About(l))
    BY <1>1, CountIs
  <1>3. ASSUME NEW i \in DOMAIN w[r], w[r][i] \in Copies(c)
        PROVE  FALSE
    <2>1. w[r][i] \in Proper
      BY <1>3 DEF Copies
    <2>2. w[r][i].letter \in Letter /\ w[r][i] \in About(w[r][i].letter)
      BY <2>1, ProperFields
    <2> QED
      BY <1>2, <2>2 DEF NoHit, Hits
  <1> QED
    BY <1>1, <1>3 DEF NoHit, Hits

(* Sending what has none of a kind *)
LEMMA EmitSame ==
    ASSUME NEW T, Stable(T), NEW net \in Nets, NEW p \in PE, NEW out \in Sendings,
           \A r \in PE : NoHit(out[r], T)
    PROVE  \A r, s \in PE : Same(T, net[r][s], Emit(net, p, out)[r][s])
  <1>1. \A r, s \in PE : r # p => Emit(net, p, out)[r][s] = net[r][s]
    BY EmitRow
  <1>2. \A s \in PE : Same(T, net[p][s], Emit(net, p, out)[p][s])
    BY EmitFor
  <1> QED
    BY <1>1, <1>2, SameItself

LEMMA StreamsQuiet ==
    ASSUME Shape, Streams, UNCHANGED <<buffers, last_bcast>>,
           \A c \in User : \A r, p \in PE : Same(Copies(c), queue[r][p], queue'[r][p]),
           \A c \in User : \A p \in PE :
               Same(Copies(c), collection_buffer[p][c], collection_buffer'[p][c])
    PROVE  Streams'
  <1>1. /\ queue \in Nets /\ collection_buffer \in Early /\ last_bcast \in Lasts
        /\ buffers' = buffers
    BY DEF Shape, Lasts
  <1>2. ASSUME NEW c \in User
        PROVE  Ways(queue', collection_buffer', last_bcast', c)
    <2> DEFINE new == queue'
               later == collection_buffer'
               after == last_bcast'
    <2>1. /\ Ways(queue, collection_buffer, last_bcast, c)
          /\ \A r, p \in PE : Same(Copies(c), queue[r][p], new[r][p])
          /\ \A p \in PE : Same(Copies(c), collection_buffer[p][c], later[p][c])
          /\ \A p \in PE : after[p][c] = last_bcast[p][c]
      BY DEF Streams
    <2> HIDE DEF new, later, after
    <2>2. Ways(new, later, after, c)
      BY <1>1, <2>1, WaysSame
    <2> QED
      BY <2>2 DEF new, later, after
  <1>3. \A c \in User : \A p \in PE : \A m \in buffers'[p][c] : m.type # "copy"
    BY <1>1 DEF Streams
  <1> QED
    BY <1>2, <1>3 DEF Streams, Ways

LEMMA StreamsIdle ==
    ASSUME Shape, Streams, UNCHANGED <<queue, collection_buffer, buffers, last_bcast>>
    PROVE  Streams'
  BY StreamsQuiet, SameItself

(* One message to one PE *)
LEMMA OnlyToNoHit ==
    ASSUME NEW q, NEW m \in Anything, NEW T, m \notin T
    PROVE  OnlyTo(q, <<m>>) \in Sendings /\ \A r \in PE : NoHit(OnlyTo(q, <<m>>)[r], T)
  <1> DEFINE h == <<m>>
  <1>1. h \in Seq(Anything) /\ NoHit(h, T)
    BY SingleHits
  <1> HIDE DEF h
  <1>2. /\ OnlyTo(q, h) \in Sendings
        /\ \A r \in PE : OnlyTo(q, h)[r] = IF r = q THEN h ELSE <<>>
    BY <1>1, OnlyToIs
  <1> QED
    BY <1>1, <1>2, EmptyHits DEF h

(* Only a message with that type is a broadcast *)
LEMMA CopyTypes ==
    ASSUME NEW c, NEW m
    PROVE  m \in Copies(c) => m.type = "copy" /\ m.col = c /\ m \in Proper
  BY DEF Copies

LEMMA StreamsSend ==
    ASSUME Shape, Streams, NEW p \in PE, NEW l \in Letter, Send(p, l)
    PROVE  Streams'
  <1> DEFINE d == To[l]
             m == MessageOf(l)
  <1>1. UNCHANGED <<buffers, last_bcast>>
    BY DEF Send, work
  <1>2. queue \in Nets /\ collection_buffer \in Early
    BY DEF Shape
  <1>3. d \in Col /\ m \in Anything /\ m.type # "copy"
    BY Letters, AboutIs DEF Col, Anything, About
  <1>4. \A c : m \notin Copies(c)
    BY <1>3, CopyTypes
  <1>5. CASE d \notin collection_table[p]
    <2>1. /\ collection_buffer' = [collection_buffer EXCEPT ![p][d] = Append(@, m)]
          /\ queue' = queue
      BY <1>5 DEF Send
    <2> HIDE DEF m, d
    <2>2. ASSUME NEW c \in User, NEW r \in PE
          PROVE  Same(Copies(c), collection_buffer[r][c], collection_buffer'[r][c])
      <3>1. c \in Col /\ collection_buffer[r][c] \in Seq(Anything)
        BY <1>2 DEF Col, Early
      <3>2. \/ collection_buffer'[r][c] = collection_buffer[r][c]
            \/ collection_buffer'[r][c] = Append(collection_buffer[r][c], m)
        BY <1>2, <1>3, <2>1, <3>1 DEF Early
      <3> QED
        BY <1>3, <1>4, <3>1, <3>2, SameAppend, SameItself
    <2> QED
      BY <1>1, <2>1, <2>2, StreamsQuiet, SameItself
  <1>6. CASE d \in collection_table[p]
    <2> DEFINE z == IF Idx[l] = bcast_root THEN p ELSE home_pe(Idx[l])
               out == OnlyTo(z, <<m>>)
    <2>1. queue' = Emit(queue, p, out) /\ collection_buffer' = collection_buffer
      BY <1>6 DEF Send
    <2> HIDE DEF m, z
    <2>2. out \in Sendings /\ \A c : \A r \in PE : NoHit(out[r], Copies(c))
      BY <1>3, <1>4, OnlyToNoHit
    <2> HIDE DEF out
    <2>3. \A c \in User : \A r, s \in PE :
              Same(Copies(c), queue[r][s], Emit(queue, p, out)[r][s])
      BY <1>2, <2>2, CopiesStable, EmitSame
    <2> QED
      BY <1>1, <2>1, <2>3, StreamsQuiet, SameItself
  <1> QED
    BY <1>5, <1>6

LEMMA StreamsExit ==
    ASSUME Shape, Streams, NEW p \in PE, CallExit(p)
    PROVE  Streams'
  <1>1. UNCHANGED <<buffers, last_bcast, collection_buffer>>
    BY DEF CallExit, work
  <1>2. CASE UNCHANGED queue
    BY <1>1, <1>2, StreamsIdle
  <1>3. ASSUME NEW q \in PE, queue' = Emit(queue, p, OnlyTo(q, <<Exit(FALSE)>>))
        PROVE  Streams'
    <2> DEFINE out == OnlyTo(q, <<Exit(FALSE)>>)
    <2>1. Exit(FALSE) \in Anything /\ Exit(FALSE).type # "copy"
      BY DEF Exit, Others, Anything
    <2>2. out \in Sendings /\ \A c : \A r \in PE : NoHit(out[r], Copies(c))
      BY <2>1, CopyTypes, OnlyToNoHit
    <2>3. queue' = Emit(queue, p, out) /\ queue \in Nets
      BY <1>3 DEF Shape
    <2> HIDE DEF out
    <2>4. \A c \in User : \A r, s \in PE :
              Same(Copies(c), queue[r][s], Emit(queue, p, out)[r][s])
      BY <2>2, <2>3, CopiesStable, EmitSame
    <2> QED
      BY <1>1, <2>3, <2>4, StreamsQuiet, SameItself
  <1> QED
    BY <1>2, <1>3 DEF CallExit

LEMMA StreamsReceiveExit ==
    ASSUME Shape, Streams, NEW p \in PE, NEW q \in PE, ReceiveExit(q, p)
    PROVE  Streams'
  <1>1. /\ queue[q][p] # <<>> /\ Head(queue[q][p]).type = "exit"
        /\ queue' = Taken(q, p)
        /\ UNCHANGED <<buffers, last_bcast, collection_buffer>>
    BY DEF ReceiveExit, NextOf, exit, work
  <1>2. queue' = Behind(queue, q, p) /\ queue \in Nets
    BY <1>1, TakenIs DEF Shape
  <1>3. \A c : Head(queue[q][p]) \notin Copies(c)
    BY <1>1, CopyTypes
  <1>4. \A c \in User : \A r, s \in PE :
            Same(Copies(c), queue[r][s], Behind(queue, q, p)[r][s])
    BY <1>1, <1>2, <1>3, BehindSame
  <1> QED
    BY <1>1, <1>2, <1>4, StreamsQuiet, SameItself

LEMMA StreamsReceiveRedux ==
    ASSUME Shape, Streams, NEW p \in PE, NEW q \in PE, ReceiveRedux(q, p)
    PROVE  Streams'
  <1> DEFINE m == Head(queue[q][p])
             net == Behind(queue, q, p)
             w == upward(p, m.target, {m.from})
  <1>1. /\ queue[q][p] # <<>> /\ m.type = "redux"
        /\ queue' = Emit(Taken(q, p), p, w)
        /\ UNCHANGED <<buffers, last_bcast, collection_buffer>>
    BY DEF ReceiveRedux, NextOf, work
  <1>2. /\ Taken(q, p) = net /\ net \in Nets /\ m \in Anything /\ queue \in Nets
    BY <1>1, TakenIs DEF Shape
  <1>3. m.target \in Col
    BY <1>1, <1>2, ProperFields, OtherFields DEF Anything
  <1>4. w \in Wordless
    BY <1>3, UpwardWordless
  <1>5. \A c : m \notin Copies(c)
    BY <1>1, CopyTypes
  <1> HIDE DEF w
  <1>6. w \in Sendings /\ \A c : \A r \in PE : NoHit(w[r], Copies(c))
    BY <1>4, WordlessCopies DEF Wordless
  <1>7. ASSUME NEW c \in User, NEW r \in PE, NEW s \in PE
        PROVE  Same(Copies(c), queue[r][s], queue'[r][s])
    <2>1. Same(Copies(c), queue[r][s], net[r][s])
      BY <1>1, <1>2, <1>5, BehindSame
    <2> HIDE DEF net
    <2>2. Same(Copies(c), net[r][s], Emit(net, p, w)[r][s])
      BY <1>2, <1>6, CopiesStable, EmitSame
    <2> QED
      BY <1>1, <1>2, <2>1, <2>2, SameTwice
  <1> QED
    BY <1>1, <1>7, StreamsQuiet, SameItself

LEMMA StreamsKeepEarly ==
    ASSUME Shape, Streams, NEW p \in PE, NEW q \in PE, KeepEarly(q, p)
    PROVE  Streams'
  <1> DEFINE m == Head(queue[q][p])
             net == Behind(queue, q, p)
  <1>1. /\ queue[q][p] # <<>> /\ m.type \in {"entry", "post", "copy", "redux"}
        /\ queue' = Taken(q, p)
        /\ collection_buffer' = [collection_buffer EXCEPT ![p][m.col] = Append(@, m)]
        /\ UNCHANGED <<buffers, last_bcast>>
    BY DEF KeepEarly, NextOf, work
  <1>2. queue' = net /\ net \in Nets /\ m \in Anything /\ queue \in Nets
    BY <1>1, TakenIs DEF Shape
  <1>3. m.col \in Col /\ m \in InCol(m.col)
    BY <1>1, <1>2, ProperFields, OtherFields DEF Anything, InCol, Col
  <1>4. collection_buffer \in Early /\ last_bcast \in Lasts
    BY DEF Shape, Lasts
  <1>5. ASSUME NEW c \in User
        PROVE  Ways(queue', collection_buffer', last_bcast', c)
    <2> DEFINE later == collection_buffer'
    <2>1. Ways(queue, collection_buffer, last_bcast, c) /\ c \in Col
      <3>1. Ways(queue, collection_buffer, last_bcast, c)
        BY ONLY Streams, c \in User DEF Streams
      <3> QED
        BY <3>1 DEF Col
    <2>2. CASE c = m.col
      <3>1. /\ later = [collection_buffer EXCEPT ![p][c] = Append(@, m)]
            /\ m \in InCol(c)
        BY <1>1, <1>3, <2>2
      <3> HIDE DEF later
      <3>2. Ways(net, later, last_bcast, c)
        BY <1>1, <1>2, <1>4, <2>1, <3>1, WaysKeep
      <3>3. queue' = net /\ last_bcast' = last_bcast
        BY <1>1, <1>2
      <3> QED
        BY ONLY <3>2, <3>3 DEF later
    <2>3. CASE c # m.col
      <3>1. m \notin Copies(c)
        BY <2>3, CopyTypes
      <3>2. \A r, s \in PE : Same(Copies(c), queue[r][s], net[r][s])
        BY <1>1, <1>2, <3>1, BehindSame
      <3>3. \A r \in PE : later[r][c] = collection_buffer[r][c]
        BY <1>1, <1>3, <1>4, <2>1, <2>3 DEF Early
      <3> HIDE DEF net, later, m
      <3>4. Ways(net, later, last_bcast, c)
        BY <1>2, <1>4, <2>1, <3>2, <3>3, SameItself, WaysSame
      <3> QED
        BY <1>1, <1>2, <3>4 DEF later
    <2> QED
      BY <2>2, <2>3
  <1>6. \A c \in User : \A r \in PE : \A n \in buffers'[r][c] : n.type # "copy"
    BY <1>1 DEF Streams
  <1> QED
    BY <1>5, <1>6 DEF Streams, Ways

(* The early messages for a collection after some branches have been made *)
LEMMA StreamsReceiveStatus ==
    ASSUME Shape, Streams, Tables, NEW p \in PE, NEW d \in Arrays, ReceiveStatus(p, d)
    PROVE  Streams'
  <1>1. UNCHANGED <<buffers, last_bcast>> /\ d \in User /\ d \in Col
    BY DEF ReceiveStatus, work, Arrays, Col
  <1>2. queue \in Nets /\ collection_buffer \in Early
    BY DEF Shape
  <1>3. CASE d \notin collection_table[p]
    <2> DEFINE m == Status(d)
    <2>1. /\ collection_buffer' = [collection_buffer EXCEPT ![p][d] = Append(@, m)]
          /\ queue' = queue
      BY <1>3 DEF ReceiveStatus
    <2>2. m \in Anything /\ m.type # "copy"
      BY DEF Status, Others, Anything
    <2>3. \A c : m \notin Copies(c)
      BY <2>2, CopyTypes
    <2> HIDE DEF m
    <2>4. ASSUME NEW c \in User, NEW r \in PE
          PROVE  Same(Copies(c), collection_buffer[r][c], collection_buffer'[r][c])
      <3>1. c \in Col /\ collection_buffer[r][c] \in Seq(Anything)
        BY <1>2 DEF Col, Early
      <3>2. \/ collection_buffer'[r][c] = collection_buffer[r][c]
            \/ collection_buffer'[r][c] = Append(collection_buffer[r][c], m)
        BY <1>1, <1>2, <2>1, <3>1 DEF Early
      <3> QED
        BY <2>2, <2>3, <3>1, <3>2, SameAppend, SameItself
    <2> QED
      BY <1>1, <2>1, <2>4, StreamsQuiet, SameItself
  <1>4. CASE d \in collection_table[p]
    <2> DEFINE w == waited(p)
               u == upward(p, d, {p})
    <2>1. /\ Make(p, d, NewDetector(p)) /\ queue' = Emit(queue, p, Joined(w, u))
      BY <1>4 DEF ReceiveStatus, Joined
    <2>2. w \in Wordless /\ u \in Wordless
      BY <1>1, <1>2, WaitedWordless, UpwardWordless
    <2> HIDE DEF w, u
    <2>3. Joined(w, u) \in Wordless
      BY <2>2, JoinedIs DEF Wordless
    <2>4. \A r \in PE, c \in User : collection_buffer'[r][c] = collection_buffer[r][c]
      <3>1. \A c \in User : c \in Col /\ c \notin NewDetector(p)
        BY SysApart DEF NewDetector, Col
      <3>2. NewDetector(p) \in SUBSET Col
        BY DEF NewDetector, Col
      <3> QED
        BY <1>1, <1>2, <2>1, <3>1, <3>2, MakeEarly
    <2> DEFINE out == Joined(w, u)
    <2>5. out \in Sendings /\ \A c : \A r \in PE : NoHit(out[r], Copies(c))
      <3> HIDE DEF out
      <3> QED
        BY <2>3, WordlessCopies DEF Wordless, out
    <2> HIDE DEF out
    <2>6. \A c \in User : \A r, s \in PE :
              Same(Copies(c), queue[r][s], Emit(queue, p, out)[r][s])
      BY <1>2, <2>5, CopiesStable, EmitSame
    <2> QED
      BY <1>1, <2>1, <2>4, <2>6, StreamsQuiet, SameItself DEF out
  <1> QED
    BY <1>3, <1>4

-----------------------------------------------------------------------------
(* Broadcasts are handled *)

(* The root is on PE 0 *)
LEMMA RootOnZero ==
    ASSUME NEW p \in PE, NEW c \in User, \A i \in chares'[p][c] : home_pe(i) = p
    PROVE  RootHere(p, c) => p = 0
  <1>1. home_pe(0) = 0
    BY NumPesAssumption DEF home_pe
  <1> QED
    BY <1>1 DEF RootHere

LEMMA JoinedPasses ==
    ASSUME NEW p \in PE, NEW c \in User, NEW ms \in Seq(InCol(c)), NEW w \in Wordless,
           NEW o \in Sendings, Passes(p, c, ms, o), last_bcast[p][c] \in Nat
    PROVE  Passes(p, c, ms, Joined(w, o))
  <1> DEFINE T == Copies(c)
             b == last_bcast[p][c]
  <1>1. ASSUME NEW s \in PE
        PROVE  /\ s \in span_tree_children(p) =>
                     /\ Chain(Joined(w, o)[s], T, b)
                     /\ HitCount(Joined(w, o)[s], T) = HitCount(ms, T)
               /\ s \notin span_tree_children(p) => HitCount(Joined(w, o)[s], T) = 0
    <2> DEFINE x == w[s]
               y == o[s]
    <2>1. x \in Seq(Anything) /\ NoHit(x, T) /\ y \in Seq(Anything)
      BY WordlessCopies DEF Sendings
    <2>2. Joined(w, o)[s] = x \o y
      BY DEF Joined
    <2>3. /\ s \in span_tree_children(p) =>
                Chain(y, T, b) /\ HitCount(y, T) = HitCount(ms, T)
          /\ s \notin span_tree_children(p) => HitCount(y, T) = 0
      BY DEF Passes
    <2> HIDE DEF x, y, T, b
    <2>4. HitCount(x, T) = 0 /\ HitCount(y, T) \in Nat
      BY <2>1, HitCountType
    <2>5. HitCount(x \o y, T) = HitCount(y, T)
      BY <2>1, <2>4, HitCountConcat
    <2>6. b \in Nat
      BY DEF b
    <2>7. Chain(x \o y, T, b) <=> Chain(x, T, b) /\ Chain(y, T, b + 0)
      BY <2>1, <2>4, <2>6, ChainConcat
    <2>8. Chain(x, T, b) /\ b + 0 = b
      BY <2>1, <2>6, ChainNone
    <2> QED
      BY <2>2, <2>3, <2>5, <2>7, <2>8
  <1> QED
    BY <1>1 DEF Passes

LEMMA StreamsHandled ==
    ASSUME Shape, Streams, NEW p \in PE, NEW c \in User, NEW hs \in Seq(InCol(c)),
           NEW net \in Nets, NEW early_ \in Early, InHandWays(p, c, hs, net, early_),
           NEW bad, Process(p, c, numbered(p, c, hs), bad),
           \A i \in chares'[p][c] : home_pe(i) = p, NEW w \in Wordless,
           queue' = Emit(net, p, Joined(w, outgoing(p, c, numbered(p, c, hs)))),
           \A r \in PE, d \in User : collection_buffer'[r][d] = early_[r][d],
           \A d \in User \ {c} : \A r, s \in PE : Same(Copies(d), queue[r][s], net[r][s]),
           \A d \in User \ {c} : \A r \in PE : early_[r][d] = collection_buffer[r][d]
    PROVE  Streams' /\ ~Fails(p, c, numbered(p, c, hs))
  <1> DEFINE T == Copies(c)
             ms == numbered(p, c, hs)
             b == last_bcast[p][c]
  <1>1. /\ queue \in Nets /\ collection_buffer \in Early /\ last_bcast \in Lasts
        /\ buffers \in Asides /\ ran \in [PE -> SUBSET Letter]
        /\ last_bcast \in [PE -> [Col -> Nat]]
    BY DEF Shape, Lasts
  <1>2. c \in Col /\ b \in Nat
    BY <1>1, MailTypes DEF Col
  <1>3. RootHere(p, c) => p = 0
    BY RootOnZero
  <1>4. Chain(hs, T, b) /\ (p = 0 => HitCount(hs, T) = 0)
    <2>1. CASE p = 0
      <3>1. HitCount(hs, T) = 0
        BY <2>1 DEF InHandWays
      <3>2. NoHit(hs, T)
        BY <3>1, HitCountType
      <3> QED
        BY <3>1, <3>2, ChainNone
    <2>2. CASE p # 0
      BY <2>2 DEF InHandWays
    <2> QED
      BY <2>1, <2>2
  <1>5. /\ ms \in Seq(InCol(c)) /\ Chain(ms, T, b)
        /\ ~RootHere(p, c) => ms = hs
    BY <1>2, <1>3, <1>4, NumberedChain
  <1>6. Process(p, c, ms, bad) /\ queue' = Emit(net, p, Joined(w, outgoing(p, c, ms)))
    OBVIOUS
  <1>7. \A m \in buffers[p][c] : m.type # "copy"
    BY DEF Streams
  <1> HIDE DEF ms
  <1>8. \A i \in DOMAIN ms : ms[i].type = "copy" => Runs(p, c, ms, i)
    BY <1>2, <1>5, CopiesRun
  <1>9. ~Fails(p, c, ms)
    BY <1>5, <1>7, <1>8, NoneFails
  <1>10. /\ last_bcast'[p][c] = b + HitCount(ms, T)
         /\ \A q \in PE, d \in Col : ~(q = p /\ d = c) =>
               last_bcast'[q][d] = last_bcast[q][d]
    BY <1>1, <1>5, <1>6, <1>8, LastIs
  <1>11. \A m \in buffers'[p][c] : m.type # "copy"
    BY <1>1, <1>5, <1>6, <1>7, <1>8, NoneAside
  <1>12. \A q \in PE, d \in User : ~(q = p /\ d = c) => buffers'[q][d] = buffers[q][d]
    BY <1>1, <1>6 DEF Process, Asides, Col
  <1> DEFINE o == outgoing(p, c, ms)
             out == Joined(w, o)
             after == last_bcast'
  <1>13. o \in Sendings
    BY <1>5, OutgoingIs
  <1>14. \A s \in PE :
           /\ s \in span_tree_children(p) =>
                 Chain(o[s], T, b) /\ HitCount(o[s], T) = HitCount(ms, T)
           /\ s \notin span_tree_children(p) => NoHit(o[s], T)
           /\ \A d \in User \ {c} : NoHit(o[s], Copies(d))
    BY <1>2, <1>5, <1>8, OutgoingChain
  <1> HIDE DEF o
  <1>15. Passes(p, c, ms, o)
    <2>1. \A s \in PE : NoHit(o[s], T) => HitCount(o[s], T) = 0
      BY <1>13, HitCountType DEF Sendings
    <2> QED
      BY <1>14, <2>1 DEF Passes
  <1>16. Passes(p, c, ms, out) /\ out \in Sendings
    BY <1>2, <1>5, <1>13, <1>15, JoinedPasses, JoinedIs
  <1>17. queue' = Emit(net, p, out)
    BY <1>6 DEF o
  <1>18. ASSUME NEW d \in User \ {c}, NEW s \in PE
         PROVE  NoHit(out[s], Copies(d))
    <2>1. out[s] = w[s] \o o[s] /\ o[s] \in Seq(Anything)
      BY <1>13 DEF Joined, Sendings
    <2>2. w[s] \in Seq(Anything) /\ NoHit(w[s], Copies(d)) /\ NoHit(o[s], Copies(d))
      BY <1>14, WordlessCopies
    <2> HIDE DEF out
    <2> QED
      BY <2>1, <2>2, ConcatHits
  <1>19. p # 0 => ms = hs
    BY <1>3, <1>5
  <1> HIDE DEF out
  <1>20. Ways(queue', collection_buffer', last_bcast', c)
    <2>1. /\ after[p][c] = last_bcast[p][c] + HitCount(ms, Copies(c))
          /\ \A q \in PE : q # p => after[q][c] = last_bcast[q][c]
      BY <1>2, <1>10
    <2>2. Ways(queue, collection_buffer, last_bcast, c)
      BY DEF Streams
    <2> HIDE DEF after
    <2>3. Ways(Emit(net, p, out), early_, after, c)
      BY <1>1, <1>5, <1>16, <1>19, <2>1, <2>2, WaysHandled
    <2>4. Ways(queue', early_, last_bcast', c)
      BY <1>17, <2>3 DEF after
    <2> QED
      BY <2>4 DEF Ways
  <1>21. ASSUME NEW d \in User \ {c}
         PROVE  Ways(queue', collection_buffer', last_bcast', d)
    <2> DEFINE later == collection_buffer'
               new == Emit(net, p, out)
    <2>1. ASSUME NEW r \in PE, NEW s \in PE
          PROVE  Same(Copies(d), queue[r][s], new[r][s])
      <3>1. Same(Copies(d), queue[r][s], net[r][s])
        OBVIOUS
      <3>2. Same(Copies(d), net[r][s], new[r][s])
        BY <1>16, <1>18, CopiesStable, EmitSame
      <3> HIDE DEF new
      <3> QED
        BY <3>1, <3>2, SameTwice
    <2>2. d \in Col
      BY DEF Col
    <2>3. \A r \in PE : after[r][d] = last_bcast[r][d]
      BY <1>10, <2>2
    <2>4. \A r \in PE : later[r][d] = collection_buffer[r][d]
      OBVIOUS
    <2>5. Ways(queue, collection_buffer, last_bcast, d)
      BY DEF Streams
    <2> HIDE DEF after, later, new
    <2>6. Ways(new, later, after, d)
      BY <1>1, <2>1, <2>3, <2>4, <2>5, SameItself, WaysSame
    <2> QED
      BY <1>17, <2>6 DEF new, later, after
  <1>22. \A d \in User : \A q \in PE : \A m \in buffers'[q][d] : m.type # "copy"
    BY <1>11, <1>12 DEF Streams
  <1> QED
    BY <1>9, <1>20, <1>21, <1>22 DEF Streams, Ways, ms

(* A branch has nothing waiting for it *)
Emptied ==
    \A p \in PE, c \in Col : c \in collection_table[p] => collection_buffer[p][c] = <<>>

LEMMA JoinedNothing ==
    ASSUME NEW o \in Sendings
    PROVE  Joined(Nothing, o) = o /\ Nothing \in Wordless
  <1>1. \A q \in PE : o[q] \in Seq(Anything)
    BY DEF Sendings
  <1>2. \A q \in PE : <<>> \o o[q] = o[q]
    BY <1>1
  <1>3. Nothing \in Wordless
    <2>1. <<>> \in Seq(Anything)
      OBVIOUS
    <2>2. Nothing \in Sendings /\ \A r \in PE : Nothing[r] = <<>>
      BY <2>1, OnlyToIs
    <2> QED
      BY <2>2, CountEmpty DEF Wordless
  <1>4. Joined(Nothing, o) = [q \in PE |-> o[q]]
    BY <1>2 DEF Joined, Nothing
  <1> QED
    BY <1>3, <1>4 DEF Sendings

LEMMA LetterInHand ==
    ASSUME Shape, Streams, Emptied, NEW p \in PE, NEW q \in PE, queue[q][p] # <<>>,
           NEW c \in User, Head(queue[q][p]) \in InCol(c), c \in collection_table[p]
    PROVE  InHandWays(p, c, <<Head(queue[q][p])>>, Behind(queue, q, p), collection_buffer)
  <1> DEFINE T == Copies(c)
             m == Head(queue[q][p])
             net == Behind(queue, q, p)
             P == span_tree_parent(p)
             early_ == collection_buffer
  <1>1. /\ queue \in Nets /\ early_ \in Early /\ last_bcast \in Lasts /\ c \in Col
        /\ Ways(queue, early_, last_bcast, c)
        /\ early_[p][c] = <<>>
    BY DEF Shape, Lasts, Streams, Emptied, Col
  <1>2. /\ \A r, s \in PE : ~(r = q /\ s = p) => net[r][s] = queue[r][s]
        /\ net[q][p] = Tail(queue[q][p])
    BY <1>1, BehindIs
  <1>3. last_bcast[p][c] \in Nat /\ queue[q][p] \in Seq(Anything)
    BY <1>1, MailTypes
  <1> HIDE DEF T, net, m, P
  <1>4. q # P => HitCount(queue[q][p], T) = 0
    BY <1>1 DEF Ways, T, P
  <1>5. q # P => m \notin T /\ HitCount(Tail(queue[q][p]), T) = 0
    BY <1>1, <1>4, NoCopyNext DEF m
  <1>6. q # P => HitCount(<<m>>, T) = 0 /\ Chain(<<m>>, T, last_bcast[p][c])
    <2>1. SUFFICES ASSUME q # P
                   PROVE  HitCount(<<m>>, T) = 0 /\ Chain(<<m>>, T, last_bcast[p][c])
      OBVIOUS
    <2>2. m \notin T
      BY <1>5, <2>1
    <2> QED
      BY <1>3, <2>2, HitCountSingle, ChainOne
  <1>7. \A r \in PE : r # P => HitCount(net[r][p], T) = 0
    BY <1>1, <1>2, <1>5 DEF Ways, T, P
  <1>8. p = 0 => q # P /\ HitCount(early_[p][c], T) = 0
    BY <1>1, ParentIs DEF Ways, T, P
  <1>9. ASSUME p # 0
        PROVE  /\ Chain(<<m>>, T, last_bcast[p][c])
               /\ Link(T, net[P][p], early_[p][c],
                       last_bcast[p][c] + HitCount(<<m>>, T), last_bcast[P][c])
    <2>1. P \in PE /\ Link(T, queue[P][p], <<>>, last_bcast[p][c], last_bcast[P][c])
      BY <1>1, <1>9, ParentIs DEF Ways, T, P
    <2>2. CASE q = P
      <3> DEFINE in == queue[q][p]
                 lo == last_bcast[p][c]
                 hi == last_bcast[P][c]
      <3>1. in \in Seq(Anything) /\ in # <<>> /\ lo \in Nat /\ Link(T, in, <<>>, lo, hi)
        BY <1>3, <2>1, <2>2
      <3> HIDE DEF in, lo, hi
      <3>2. /\ Chain(<<Head(in)>>, T, lo)
            /\ Link(T, Tail(in), <<>>, lo + HitCount(<<Head(in)>>, T), hi)
        BY <3>1, LinkHead
      <3>3. /\ Chain(<<m>>, T, lo)
            /\ Link(T, Tail(in), <<>>, lo + HitCount(<<m>>, T), hi)
        BY <3>2 DEF m, in
      <3> QED
        BY <1>1, <1>2, <2>2, <3>3 DEF in, lo, hi
    <2>3. CASE q # P
      <3>1. last_bcast[p][c] + HitCount(<<m>>, T) = last_bcast[p][c]
        BY <1>3, <1>6, <2>3
      <3>2. net[P][p] = queue[P][p]
        BY <1>2, <2>1, <2>3
      <3> QED
        BY <1>1, <1>6, <2>1, <2>3, <3>1, <3>2
    <2> QED
      BY <2>2, <2>3
  <1>10. \A r, s \in PE : s # p => net[r][s] = queue[r][s]
    BY <1>2
  <1> QED
    BY <1>6, <1>7, <1>8, <1>9, <1>10 DEF InHandWays, T, net, m, P

LEMMA StreamsReceiveLetter ==
    ASSUME Shape, Streams, Emptied, Homes', NEW p \in PE, NEW q \in PE,
           ReceiveLetter(q, p)
    PROVE  Streams' /\ fault' = fault
  <1> DEFINE m == Head(queue[q][p])
             c == m.col
             hs == <<m>>
             net == Behind(queue, q, p)
             out == outgoing(p, c, numbered(p, c, hs))
  <1>1. /\ queue[q][p] # <<>> /\ m.type \in {"entry", "post", "copy"}
        /\ queue' = Emit(Taken(q, p), p, out)
        /\ Process(p, c, numbered(p, c, hs), FALSE)
        /\ collection_buffer' = collection_buffer
        /\ c \in collection_table[p]
    BY DEF ReceiveLetter, NextOf
  <1>2. /\ Taken(q, p) = net /\ net \in Nets /\ m \in Anything /\ queue \in Nets
        /\ collection_buffer \in Early /\ last_bcast \in [PE -> [Col -> Nat]]
    BY <1>1, TakenIs DEF Shape
  <1>3. c \in User /\ m \in InCol(c)
    BY <1>1, <1>2, AboutIs, ProperFields DEF InCol
  <1>4. hs \in Seq(InCol(c))
    BY <1>3
  <1>5. \A i \in chares'[p][c] : home_pe(i) = p
    BY <1>3 DEF Homes
  <1>6. InHandWays(p, c, hs, net, collection_buffer)
    BY <1>1, <1>3, LetterInHand
  <1>7. ASSUME NEW d \in User \ {c}, NEW r \in PE, NEW s \in PE
        PROVE  Same(Copies(d), queue[r][s], net[r][s])
    <2>1. m \notin Copies(d)
      BY <1>7, CopyTypes
    <2> QED
      BY <1>1, <1>2, <2>1, BehindSame
  <1> HIDE DEF hs, c, net
  <1>8. numbered(p, c, hs) \in Seq(InCol(c))
    BY <1>2, <1>3, <1>4, NumberedIs DEF Col
  <1>9. out \in Sendings
    BY <1>3, <1>8, OutgoingIs
  <1> HIDE DEF out
  <1>10. Joined(Nothing, out) = out /\ Nothing \in Wordless
    BY <1>9, JoinedNothing
  <1>11. queue' = Emit(net, p, Joined(Nothing, out))
    BY <1>1, <1>2, <1>10
  <1>12. Streams' /\ ~Fails(p, c, numbered(p, c, hs))
    BY <1>1, <1>2, <1>3, <1>4, <1>5, <1>6, <1>7, <1>10, <1>11, StreamsHandled DEF out
  <1> QED
    BY <1>1, <1>12 DEF Process

(* What a handler that makes branches has sent, and what it leaves *)
LEMMA CreationSends ==
    ASSUME Shape, NEW p \in PE, NEW c \in User, ReceiveCreation(p, c)
    PROVE  \E w \in Wordless :
               /\ queue' = Emit(queue, p,
                     Joined(w, outgoing(p, c, numbered(p, c, collection_buffer[p][c]))))
               /\ \A q \in PE :
                     w[q] = (IF Contributes(p, c) THEN waited(p)[q] ELSE <<>>)
                            \o upward(p, c, IF Contributes(p, c) THEN {p} ELSE {})[q]
  <1> DEFINE counts == Contributes(p, c)
             own == IF counts THEN {p} ELSE {}
             hs == collection_buffer[p][c]
             v == [q \in PE |-> IF counts THEN waited(p)[q] ELSE <<>>]
             u == upward(p, c, own)
             out == outgoing(p, c, numbered(p, c, hs))
  <1>1. queue' = Emit(queue, p, Joined(Joined(v, u), out))
    BY DEF ReceiveCreation, flush, Joined
  <1>2. collection_buffer \in Early /\ c \in Col
    BY DEF Shape, Col
  <1>3. v \in Wordless
    <2>1. waited(p) \in Wordless /\ Nothing \in Wordless
      BY <1>2, WaitedWordless
    <2>2. Nothing = [q \in PE |-> <<>>]
      BY DEF Nothing
    <2>3. waited(p) = [q \in PE |-> waited(p)[q]]
      BY <2>1 DEF Wordless, Sendings
    <2>4. v = IF counts THEN waited(p) ELSE Nothing
      <3> HIDE DEF counts
      <3> QED
        BY <2>2, <2>3
    <2> QED
      BY <2>1, <2>4
  <1>4. u \in Wordless
    BY <1>2, UpwardWordless
  <1>5. \A q \in PE : Joined(v, u)[q] = (IF counts THEN waited(p)[q] ELSE <<>>) \o u[q]
    BY DEF Joined
  <1> HIDE DEF v, u, out
  <1>6. Joined(v, u) \in Wordless
    BY <1>3, <1>4, JoinedIs DEF Wordless
  <1> QED
    BY <1>1, <1>5, <1>6 DEF u, out

LEMMA StreamsReceiveCreation ==
    ASSUME Shape, Streams, Homes', NEW p \in PE, NEW c \in User, ReceiveCreation(p, c)
    PROVE  /\ Streams'
           /\ ~Collide(p, c) /\ c \notin collection_table[p] => fault' = fault
  <1> DEFINE counts == Contributes(p, c)
             new == {c} \cup (IF counts THEN NewDetector(p) ELSE {})
             hs == collection_buffer[p][c]
             ms == numbered(p, c, hs)
             bad == Collide(p, c) \/ c \in collection_table[p]
             T == Copies(c)
             P == span_tree_parent(p)
             lo == last_bcast[p][c]
  <1>1. /\ Make(p, c, new) /\ Process(p, c, ms, bad)
    BY DEF ReceiveCreation, flush
  <1>2. PICK w \in Wordless : queue' = Emit(queue, p, Joined(w, outgoing(p, c, ms)))
    BY CreationSends
  <1>3. /\ queue \in Nets /\ collection_buffer \in Early /\ last_bcast \in Lasts
        /\ c \in Col /\ Ways(queue, collection_buffer, last_bcast, c)
    BY DEF Shape, Col, Lasts, Streams
  <1>4. hs \in Seq(InCol(c)) /\ hs \in Seq(Anything) /\ lo \in Nat
    BY <1>3, MailTypes
  <1>5. \A i \in chares'[p][c] : home_pe(i) = p
    BY DEF Homes
  <1>6. new \in SUBSET Col /\ c \in new /\ \A d \in User : d \in Col /\ (d \in new => d = c)
    BY <1>3, SysApart DEF NewDetector, Col
  <1> HIDE DEF new, ms
  <1>7. PICK e : e = collection_buffer'
    OBVIOUS
  <1>8. /\ e \in Early
        /\ \A r \in PE, d \in Col :
               e[r][d] = IF r = p /\ d \in new THEN <<>> ELSE collection_buffer[r][d]
    BY <1>1, <1>3, <1>6, <1>7, MakeEarly
  <1>9. /\ e[p][c] = <<>>
        /\ \A r \in PE, d \in User :
               ~(r = p /\ d = c) => e[r][d] = collection_buffer[r][d]
    BY <1>3, <1>6, <1>8
  <1>10. InHandWays(p, c, hs, queue, e)
    <2> HIDE DEF T, P, lo, hs
    <2>1. \A r \in PE : r # P => HitCount(queue[r][p], T) = 0
      BY <1>3 DEF Ways, T, P
    <2>2. p = 0 => HitCount(hs, T) = 0 /\ HitCount(e[p][c], T) = 0
      BY <1>3, <1>9, HitCountEmpty DEF Ways, T, hs
    <2>3. ASSUME p # 0
          PROVE  /\ Chain(hs, T, lo)
                 /\ Link(T, queue[P][p], e[p][c], lo + HitCount(hs, T), last_bcast[P][c])
      <3> DEFINE in == queue[P][p]
                 hi == last_bcast[P][c]
      <3>1. P \in PE
        BY <2>3, ParentIs DEF P
      <3>2. in \in Seq(Anything) /\ Link(T, in, hs, lo, hi)
        BY <1>3, <2>3, <3>1, MailTypes DEF Ways, T, P, lo, hs
      <3> HIDE DEF in, hi
      <3>3. Link(T, in, <<>>, lo + HitCount(hs, T), hi) /\ Chain(hs, T, lo)
        BY <1>4, <3>2, LinkFlush
      <3> QED
        BY <1>9, <3>3 DEF in, hi
    <2>4. \A s \in PE : s # p => e[s][c] = collection_buffer[s][c]
      BY <1>9
    <2> QED
      BY <2>1, <2>2, <2>3, <2>4 DEF InHandWays, T, P, lo
  <1>11. \A d \in User \ {c} : \A r, s \in PE : Same(Copies(d), queue[r][s], queue[r][s])
    BY SameItself
  <1>12. \A r \in PE, d \in User : collection_buffer'[r][d] = e[r][d]
    BY <1>7
  <1>13. \A d \in User \ {c} : \A r \in PE : e[r][d] = collection_buffer[r][d]
    BY <1>9
  <1> HIDE DEF hs, bad
  <1>14. Streams' /\ ~Fails(p, c, numbered(p, c, hs))
    BY <1>1, <1>2, <1>3, <1>4, <1>5, <1>8, <1>10, <1>11, <1>12, <1>13,
       StreamsHandled DEF ms
  <1>15. Process(p, c, numbered(p, c, hs), bad)
    BY <1>1 DEF ms
  <1>16. ~bad => fault' = fault
    BY <1>14, <1>15 DEF Process
  <1> QED
    BY <1>14, <1>16 DEF bad

LEMMA StreamsInit ==
    ASSUME Init, Shape
    PROVE  Streams
  <1>1. /\ \A p \in PE, c \in User : /\ collection_buffer[p][c] = <<>>
                                     /\ buffers[p][c] = {} /\ last_bcast[p][c] = 0
        /\ \A p, q \in PE : queue[p][q] = <<>>
    BY DEF Init, Col
  <1>2. ASSUME NEW c \in User
        PROVE  Ways(queue, collection_buffer, last_bcast, c)
    <2> DEFINE T == Copies(c)
    <2>1. HitCount(<<>>, T) = 0 /\ NoHit(<<>>, T)
      BY HitCountEmpty, EmptyHits
    <2>2. \A b : Chain(<<>>, T, b)
      BY <2>1, ChainNone
    <2> HIDE DEF T
    <2>3. Link(T, <<>>, <<>>, 0, 0)
      BY <2>1, <2>2 DEF Link
    <2>4. \A p \in PE : p # 0 => span_tree_parent(p) \in PE
      BY ParentIs
    <2> QED
      BY <1>1, <2>1, <2>3, <2>4 DEF Ways, T
  <1> QED
    BY <1>1, <1>2 DEF Streams

-----------------------------------------------------------------------------
(* Creation, the buffers and the ends of insertion phases that are told.   *)
(* A collection is born when it has been constructed.                      *)

Born(c) == c.id \in 0 .. (local_collection_count[c.pe] - 1)

Births ==
    /\ local_collection_count \in [PE -> Nat]
    /\ is_inserting \in [PE -> SUBSET Col]
    /\ \A p \in PE, c \in User : c \in collection_table[p] => Born(c)
    /\ \A p \in PE, c \in User :
          Creation(c) \in heard[p] => Born(c) /\ c \notin collection_table[p]

(* An array is told of its end once, and not one that was constructed with *)
(* its elements; a PE without a branch has the message waiting             *)
Waits ==
    \A c \in Arrays :
        /\ Seeded(c) => c \notin sent
        /\ \A p \in PE :
              /\ Status(c) \in heard[p] => c \in sent
              /\ c \notin collection_table[p] =>
                    (Status(c) \in ToSet(collection_buffer[p][c])
                        <=> c \in sent /\ Status(c) \notin heard[p])

LEMMA Kinds ==
    ASSUME NEW c, NEW d, NEW b
    PROVE  /\ Creation(c) # Status(d) /\ Creation(c) # Ready(d) /\ Creation(c) # Exit(b)
           /\ Status(c) # Ready(d) /\ Status(c) # Exit(b) /\ Ready(c) # Exit(b)
           /\ Creation(c) = Creation(d) => c = d
           /\ Status(c) = Status(d) => c = d
           /\ Ready(c) = Ready(d) => c = d
  BY DEF Creation, Status, Ready, Exit

LEMMA HearIs ==
    ASSUME NEW p, NEW m, NEW new, Hear(p, m, new), NEW q \in PE, NEW x
    PROVE  x \in heard'[q] <=> (x \in heard[q] /\ ~(q = p /\ x = m)) \/ x \in new
  BY DEF Hear

LEMMA TellIs ==
    ASSUME NEW m, heard' = Tell(PE, m), NEW q \in PE, NEW x
    PROVE  x \in heard'[q] <=> x \in heard[q] \/ x = m
  BY DEF Tell

LEMMA EndsAre ==
    ASSUME NEW p, NEW c, NEW new, NEW x
    PROVE  x \in ends(p, c, new) <=> x = Ready(c) /\ Whole(p, c, new) /\ p = 0
  BY DEF ends

LEMMA MakeTable ==
    ASSUME Tables, Births, NEW p \in PE, NEW c, NEW new \in SUBSET Col, Make(p, c, new),
           NEW q \in PE
    PROVE  /\ collection_table'[q] =
                  IF q = p THEN collection_table[q] \cup new ELSE collection_table[q]
           /\ is_inserting'[q] =
                  IF q = p THEN is_inserting[q] \cup (new \cap Arrays)
                  ELSE is_inserting[q]
           /\ is_inserting' \in [PE -> SUBSET Col]
  <1>1. is_inserting' = [is_inserting EXCEPT ![p] = @ \cup (new \cap Arrays)]
    BY DEF Make
  <1>2. is_inserting \in [PE -> SUBSET Col]
    BY DEF Births
  <1>3. is_inserting[p] \cup (new \cap Arrays) \in SUBSET Col
    BY <1>2
  <1>4. is_inserting' \in [PE -> SUBSET Col]
    BY <1>1, <1>2, <1>3
  <1>5. is_inserting'[q] = IF q = p THEN is_inserting[q] \cup (new \cap Arrays)
                           ELSE is_inserting[q]
    BY <1>1, <1>2
  <1> QED
    BY <1>4, <1>5 DEF Make, Tables

(* Nothing but what is made has to do with the births *)
LEMMA BirthsSame ==
    ASSUME Births, UNCHANGED <<local_collection_count, collection_table>>,
           is_inserting' \in [PE -> SUBSET Col],
           \A p \in PE, c \in User : Creation(c) \in heard'[p] => Creation(c) \in heard[p]
    PROVE  Births'
  BY DEF Births, Born

LEMMA BirthsConstruct ==
    ASSUME Births, NEW p \in PE, Construct(p)
    PROVE  Births'
  <1>0. PICK new : new = Id(p, local_collection_count[p])
    OBVIOUS
  <1>1. /\ local_collection_count' = [local_collection_count EXCEPT ![p] = @ + 1]
        /\ heard' = Tell(PE, Creation(new))
        /\ collection_table' = collection_table /\ is_inserting' = is_inserting
        /\ local_collection_count \in [PE -> Nat]
    BY <1>0 DEF Construct, branches, Births
  <1>2. local_collection_count' \in [PE -> Nat]
    BY <1>1
  <1>3. ASSUME NEW c \in User, Born(c)
        PROVE  Born(c)'
    <2>1. c.pe \in PE
      BY DEF User, Id
    <2>2. \/ local_collection_count'[c.pe] = local_collection_count[c.pe]
          \/ local_collection_count'[c.pe] = local_collection_count[c.pe] + 1
      BY <1>1, <2>1
    <2>3. local_collection_count[c.pe] \in Nat
      BY <1>1, <2>1
    <2> QED
      BY <1>3, <2>2, <2>3 DEF Born
  <1>4. new.pe = p /\ new.id = local_collection_count[p]
    BY <1>0 DEF Id
  <1>5. local_collection_count[p] \in Nat
    BY <1>1
  <1>6. ~Born(new)
    BY <1>4, <1>5 DEF Born
  <1>7. Born(new)'
    <2>1. local_collection_count'[p] = local_collection_count[p] + 1
      BY <1>1
    <2> QED
      BY <1>4, <1>5, <2>1 DEF Born
  <1>8. ASSUME NEW q \in PE, NEW c \in User, Creation(c) \in heard'[q]
        PROVE  Born(c)' /\ c \notin collection_table'[q]
    <2>1. CASE Creation(c) \in heard[q]
      BY <1>1, <1>3, <2>1 DEF Births
    <2>2. CASE c = new
      BY <1>1, <1>6, <1>7, <2>2 DEF Births
    <2>3. Creation(c) \in heard[q] \/ Creation(c) = Creation(new)
      BY <1>1, <1>8, TellIs
    <2> QED
      BY <2>1, <2>2, <2>3, Kinds
  <1>9. \A q \in PE, c \in User : c \in collection_table'[q] => Born(c)'
    BY <1>1, <1>3 DEF Births
  <1> QED
    BY <1>1, <1>2, <1>8, <1>9 DEF Births

LEMMA BirthsCreation ==
    ASSUME Births, Tables, NEW p \in PE, NEW c \in User, ReceiveCreation(p, c)
    PROVE  Births' /\ c \notin collection_table[p]
  <1> DEFINE counts == Contributes(p, c)
             own == IF counts THEN {p} ELSE {}
             new == {c} \cup (IF counts THEN NewDetector(p) ELSE {})
  <1>1. /\ Make(p, c, new) /\ Creation(c) \in heard[p]
        /\ Hear(p, Creation(c), ends(p, c, own))
        /\ local_collection_count' = local_collection_count
    BY DEF ReceiveCreation
  <1>2. new \in SUBSET Col /\ \A d \in User : d \in new => d = c
    BY SysApart DEF NewDetector, Col
  <1> HIDE DEF new, own
  <1>3. Born(c) /\ c \notin collection_table[p]
    BY <1>1 DEF Births
  <1>4. \A q \in PE : collection_table'[q] =
            IF q = p THEN collection_table[q] \cup new ELSE collection_table[q]
    BY <1>1, <1>2, MakeTable
  <1>5. is_inserting' \in [PE -> SUBSET Col]
    BY <1>1, <1>2, MakeTable
  <1>6. \A q \in PE, d \in User : Creation(d) \in heard'[q] =>
            Creation(d) \in heard[q] /\ ~(q = p /\ d = c)
    BY <1>1, HearIs, EndsAre, Kinds
  <1>7. \A d \in User : Born(d) => Born(d)'
    BY <1>1 DEF Born
  <1>8. ASSUME NEW q \in PE, NEW d \in User, d \in collection_table'[q]
        PROVE  Born(d)'
    BY <1>2, <1>3, <1>4, <1>7, <1>8 DEF Births
  <1>9. ASSUME NEW q \in PE, NEW d \in User, Creation(d) \in heard'[q]
        PROVE  Born(d)' /\ d \notin collection_table'[q]
    BY <1>2, <1>4, <1>6, <1>7, <1>9 DEF Births
  <1>10. local_collection_count' \in [PE -> Nat]
    BY <1>1 DEF Births
  <1> QED
    BY <1>3, <1>5, <1>8, <1>9, <1>10 DEF Births

(* The messages about exits *)
LEMMA ExitHeard ==
    ASSUME NEW p \in PE, NEW b, exit(p, b), NEW q \in PE, NEW x, \A c : x # Exit(c)
    PROVE  x \in heard'[q] <=> x \in heard[q]
  BY DEF exit

LEMMA BirthsStep ==
    ASSUME Births, Tables, [Next]_vars
    PROVE  Births'
  <1>1. ASSUME UNCHANGED <<local_collection_count, collection_table>>,
               is_inserting' \in [PE -> SUBSET Col],
               \A p \in PE, c \in User : Creation(c) \in heard'[p] => Creation(c) \in heard[p]
        PROVE  Births'
    BY <1>1, BirthsSame
  <1>2. ASSUME UNCHANGED <<local_collection_count, collection_table, is_inserting, heard>>
        PROVE  Births'
    <2>1. is_inserting' \in [PE -> SUBSET Col]
      BY <1>2 DEF Births
    <2> QED
      BY <1>1, <1>2, <2>1
  <1>3. is_inserting \in [PE -> SUBSET Col]
    BY DEF Births
  <1>4. ASSUME NEW p \in PE, Construct(p)
        PROVE  Births'
    BY <1>4, BirthsConstruct
  <1>5. ASSUME NEW c \in Arrays, DoneInserting(c)
        PROVE  Births'
    <2>1. /\ UNCHANGED <<local_collection_count, collection_table, is_inserting>>
          /\ heard' = Tell(PE, Status(c))
      BY <1>5 DEF DoneInserting, branches
    <2>2. \A p \in PE, d \in User : Creation(d) \in heard'[p] => Creation(d) \in heard[p]
      BY <2>1, TellIs, Kinds
    <2> QED
      BY <1>1, <1>3, <2>1, <2>2
  <1>6. ASSUME NEW p \in PE, CallExit(p)
        PROVE  Births'
    <2>1. /\ UNCHANGED <<local_collection_count, collection_table, is_inserting>>
          /\ heard' = Tell(PE, Exit(TRUE)) \/ heard' = heard
      BY <1>6 DEF CallExit, branches
    <2>2. ASSUME NEW r \in PE, NEW d \in User, Creation(d) \in heard'[r]
          PROVE  Creation(d) \in heard[r]
      <3>1. Creation(d) # Exit(TRUE)
        BY Kinds
      <3> QED
        BY <2>1, <2>2, <3>1, TellIs
    <2> QED
      BY <1>1, <1>3, <2>1, <2>2
  <1>7. ASSUME NEW p \in PE, NEW l \in Letter, Send(p, l)
        PROVE  Births'
    BY <1>2, <1>7 DEF Send, branches
  <1>8. ASSUME NEW p \in PE, NEW c \in User, ReceiveCreation(p, c)
        PROVE  Births'
    BY <1>8, BirthsCreation
  <1>9. ASSUME NEW p \in PE, NEW c \in Arrays, ReceiveStatus(p, c)
        PROVE  Births'
    <2>1. /\ local_collection_count' = local_collection_count
          /\ \/ /\ collection_table' = collection_table /\ is_inserting' = is_inserting
                /\ Hear(p, Status(c), {})
             \/ Make(p, c, NewDetector(p)) /\ Hear(p, Status(c), ends(p, c, {p}))
      BY <1>9 DEF ReceiveStatus, branches
    <2>2. \A q \in PE, d \in User : Creation(d) \in heard'[q] => Creation(d) \in heard[q]
      BY <2>1, HearIs, EndsAre, Kinds
    <2>3. NewDetector(p) \in SUBSET Col /\ \A d \in User : d \notin NewDetector(p)
      BY SysApart DEF NewDetector, Col
    <2>4. is_inserting' \in [PE -> SUBSET Col]
      BY <1>3, <2>1, <2>3, MakeTable
    <2>5. \A q \in PE, d \in User : d \in collection_table'[q] <=> d \in collection_table[q]
      BY <2>1, <2>3, MakeTable
    <2> QED
      BY <2>1, <2>2, <2>4, <2>5 DEF Births, Born
  <1>10. ASSUME NEW p \in PE, NEW c \in Arrays, ReceiveReady(p, c)
         PROVE  Births'
    <2>1. /\ UNCHANGED <<local_collection_count, collection_table>>
          /\ is_inserting' = [is_inserting EXCEPT ![p] = @ \ {c}]
          /\ Hear(p, Ready(c), {})
      BY <1>10 DEF ReceiveReady
    <2>2. is_inserting' \in [PE -> SUBSET Col]
      BY <1>3, <2>1
    <2>3. \A r \in PE, d \in User : Creation(d) \in heard'[r] => Creation(d) \in heard[r]
      BY <2>1, HearIs
    <2> QED
      BY <1>1, <2>1, <2>2, <2>3
  <1>11. ASSUME NEW p \in PE, NEW b, exit(p, b)
         PROVE  Births'
    <2>1. UNCHANGED <<local_collection_count, collection_table, is_inserting>>
      BY <1>11 DEF exit, branches
    <2>2. \A r \in PE, d \in User : Creation(d) \in heard'[r] => Creation(d) \in heard[r]
      BY <1>11, ExitHeard, Kinds
    <2> QED
      BY <1>1, <1>3, <2>1, <2>2
  <1>12. ASSUME NEW p \in PE, NEW q \in PE, ReceiveExit(q, p)
         PROVE  Births'
    BY <1>11, <1>12 DEF ReceiveExit
  <1>13. ASSUME NEW p \in PE, NEW q \in PE, KeepEarly(q, p)
         PROVE  Births'
    BY <1>2, <1>13 DEF KeepEarly, branches
  <1>14. ASSUME NEW p \in PE, NEW q \in PE, ReceiveLetter(q, p)
         PROVE  Births'
    BY <1>2, <1>14 DEF ReceiveLetter, branches
  <1>15. ASSUME NEW p \in PE, NEW q \in PE, ReceiveRedux(q, p)
         PROVE  Births'
    <2> DEFINE m == Head(queue[q][p])
    <2>1. /\ UNCHANGED <<local_collection_count, collection_table, is_inserting>>
          /\ heard' = [r \in PE |-> heard[r] \cup ends(p, m.target, {m.from})]
      BY <1>15 DEF ReceiveRedux, branches
    <2> HIDE DEF m
    <2>2. \A r \in PE, d \in User : Creation(d) \in heard'[r] => Creation(d) \in heard[r]
      BY <2>1, EndsAre, Kinds
    <2> QED
      BY <1>1, <1>3, <2>1, <2>2
  <1>16. ASSUME UNCHANGED vars
         PROVE  Births'
    BY <1>2, <1>16 DEF vars, branches
  <1>17. ASSUME NEW p \in PE, ReceiveBroadcastExit(p)
         PROVE  Births'
    BY <1>11, <1>17 DEF ReceiveBroadcastExit
  <1> QED
    BY <1>4, <1>5, <1>6, <1>7, <1>8, <1>9, <1>10, <1>12, <1>13, <1>14,
       <1>15, <1>16, <1>17 DEF Next, Work, Turn

LEMMA EmptiedStep ==
    ASSUME Shape, Births, Tables, Emptied, [Next]_vars
    PROVE  Emptied'
  <1>1. ASSUME UNCHANGED <<collection_table, collection_buffer>>
        PROVE  Emptied'
    BY <1>1 DEF Emptied
  <1>2. collection_buffer \in Early
    BY DEF Shape
  <1>3. ASSUME NEW p \in PE, NEW d \in Col, NEW m, d \notin collection_table[p],
               collection_buffer' = [collection_buffer EXCEPT ![p][d] = Append(@, m)],
               collection_table' = collection_table
        PROVE  Emptied'
    BY <1>2, <1>3 DEF Emptied, Early
  <1>4. ASSUME NEW p \in PE, NEW c \in User, NEW new \in SUBSET Col, Make(p, c, new)
        PROVE  Emptied'
    <2>1. \A r \in PE, d \in Col :
              collection_buffer'[r][d] =
                  IF r = p /\ d \in new THEN <<>> ELSE collection_buffer[r][d]
      BY <1>2, <1>4, MakeEarly
    <2>2. \A q \in PE : collection_table'[q] =
              IF q = p THEN collection_table[q] \cup new ELSE collection_table[q]
      BY <1>4, MakeTable
    <2>3. ASSUME NEW r \in PE, NEW d \in Col, d \in collection_table'[r]
          PROVE  collection_buffer'[r][d] = <<>>
      <3>1. (r = p /\ d \in new) \/ d \in collection_table[r]
        BY <2>2, <2>3
      <3>2. d \in collection_table[r] => collection_buffer[r][d] = <<>>
        BY DEF Emptied
      <3> QED
        BY <2>1, <3>1, <3>2
    <2> QED
      BY <2>3 DEF Emptied
  <1>5. \A p \in PE : NewDetector(p) \in SUBSET Col
    BY DEF NewDetector, Col
  <1>6. ASSUME NEW p \in PE, NEW l \in Letter, Send(p, l)
        PROVE  Emptied'
    <2>1. To[l] \in Col
      BY Letters DEF Col
    <2> QED
      BY <1>1, <1>3, <1>6, <2>1 DEF Send, branches
  <1>7. ASSUME NEW p \in PE, NEW c \in User, ReceiveCreation(p, c)
        PROVE  Emptied'
    BY <1>4, <1>5, <1>7 DEF ReceiveCreation, Col
  <1>8. ASSUME NEW p \in PE, NEW c \in Arrays, ReceiveStatus(p, c)
        PROVE  Emptied'
    <2>1. c \in User /\ c \in Col
      BY DEF Arrays, Col
    <2> QED
      BY <1>1, <1>3, <1>4, <1>5, <1>8, <2>1 DEF ReceiveStatus, branches
  <1>9. ASSUME NEW p \in PE, NEW q \in PE, KeepEarly(q, p)
        PROVE  Emptied'
    <2> DEFINE m == Head(queue[q][p])
    <2>1. /\ queue[q][p] # <<>> /\ m.type \in {"entry", "post", "copy", "redux"}
          /\ m.col \notin collection_table[p] /\ collection_table' = collection_table
          /\ collection_buffer' = [collection_buffer EXCEPT ![p][m.col] = Append(@, m)]
      BY <1>9 DEF KeepEarly, NextOf, branches
    <2>2. m \in Anything
      BY <2>1, TakenIs
    <2>3. m.col \in Col
      BY <2>1, <2>2, ProperFields, OtherFields DEF Anything, Col
    <2> HIDE DEF m
    <2> QED
      BY <1>3, <2>1, <2>3
  <1>10. ASSUME NEW p \in PE, NEW q \in PE,
                \/ Construct(p) \/ CallExit(p) \/ ReceiveBroadcastExit(p)
                \/ ReceiveExit(q, p) \/ ReceiveLetter(q, p) \/ ReceiveRedux(q, p)
         PROVE  Emptied'
    BY <1>1, <1>10 DEF Construct, CallExit, ReceiveBroadcastExit, ReceiveExit, exit,
                       ReceiveLetter, ReceiveRedux, branches
  <1>11. ASSUME NEW p \in PE, NEW c \in Arrays, DoneInserting(c) \/ ReceiveReady(p, c)
         PROVE  Emptied'
    BY <1>1, <1>11 DEF DoneInserting, ReceiveReady, branches
  <1>12. ASSUME UNCHANGED vars
         PROVE  Emptied'
    BY <1>1, <1>12 DEF vars, branches
  <1> QED
    BY <1>6, <1>7, <1>8, <1>9, <1>10, <1>11, <1>12 DEF Next, Work, Turn

(* Nothing but what is made has to do with the ends that are told *)
LEMMA WaitsSame ==
    ASSUME Waits, \A c \in Arrays : c \in sent' <=> c \in sent,
           \A p \in PE, c \in Arrays : Status(c) \in heard'[p] <=> Status(c) \in heard[p],
           \A p \in PE, c \in Arrays : c \in collection_table[p] => c \in collection_table'[p],
           \A p \in PE, c \in Arrays : c \notin collection_table'[p] =>
               (Status(c) \in ToSet(collection_buffer'[p][c])
                   <=> Status(c) \in ToSet(collection_buffer[p][c]))
    PROVE  Waits'
  BY DEF Waits

(* One more message waits *)
LEMMA BufferHas ==
    ASSUME collection_buffer \in Early, NEW p \in PE, NEW d \in Col, NEW m \in Anything,
           collection_buffer' = [collection_buffer EXCEPT ![p][d] = Append(@, m)],
           NEW q \in PE, NEW c \in Col, NEW x
    PROVE  x \in ToSet(collection_buffer'[q][c]) <=>
               x \in ToSet(collection_buffer[q][c]) \/ (q = p /\ c = d /\ x = m)
  <1>1. collection_buffer[p][d] \in Seq(Anything)
    BY DEF Early
  <1>2. ToSet(Append(collection_buffer[p][d], m)) = ToSet(collection_buffer[p][d]) \cup {m}
    BY <1>1, ToSetAppend
  <1>3. CASE q = p /\ c = d
    <2>1. collection_buffer'[q][c] = Append(collection_buffer[p][d], m)
      BY <1>3 DEF Early
    <2> QED
      BY <1>2, <1>3, <2>1
  <1>4. CASE ~(q = p /\ c = d)
    <2>1. collection_buffer'[q][c] = collection_buffer[q][c]
      BY <1>4 DEF Early
    <2> QED
      BY <1>4, <2>1
  <1> QED
    BY <1>3, <1>4

LEMMA WaitsIdle ==
    ASSUME Waits, \A c \in Arrays : c \in sent' <=> c \in sent,
           \A p \in PE, c \in Arrays : Status(c) \in heard'[p] <=> Status(c) \in heard[p],
           UNCHANGED <<collection_table, collection_buffer>>
    PROVE  Waits'
  BY WaitsSame

LEMMA WaitsDone ==
    ASSUME Waits, NEW d \in Arrays, DoneInserting(d)
    PROVE  Waits'
  <1>1. /\ ~Seeded(d) /\ d \notin sent /\ sent' = sent \cup {d}
        /\ heard' = Tell(PE, Status(d))
        /\ UNCHANGED <<collection_table, collection_buffer>>
    BY DEF DoneInserting, branches
  <1>2. \A p \in PE, c \in Arrays :
            Status(c) \in heard'[p] <=> Status(c) \in heard[p] \/ c = d
    BY <1>1, TellIs, Kinds
  <1> QED
    BY <1>1, <1>2 DEF Waits

LEMMA WaitsSend ==
    ASSUME Shape, Waits, NEW p \in PE, NEW l \in Letter, Send(p, l)
    PROVE  Waits'
  <1> DEFINE d == To[l]
             m == MessageOf(l)
  <1>1. /\ sent' = sent \cup {l}
        /\ UNCHANGED <<collection_table, heard>>
    BY DEF Send, branches
  <1>2. collection_buffer \in Early
    BY DEF Shape
  <1>3. d \in Col /\ m \in Anything
    BY Letters, AboutIs DEF Col, Anything, About
  <1>4. \A c : Status(c) # m
    BY DEF Status, MessageOf, Post, Entry
  <1>5. \A c \in Arrays : c \in sent' <=> c \in sent
    BY <1>1, StartupAssumption
  <1>6. \/ collection_buffer' = collection_buffer
        \/ collection_buffer' = [collection_buffer EXCEPT ![p][d] = Append(@, m)]
    BY DEF Send
  <1> HIDE DEF m, d
  <1>7. ASSUME NEW q \in PE, NEW c \in Arrays
        PROVE  Status(c) \in ToSet(collection_buffer'[q][c])
                   <=> Status(c) \in ToSet(collection_buffer[q][c])
    <2>1. c \in Col
      BY DEF Arrays, Col
    <2>2. CASE collection_buffer' = [collection_buffer EXCEPT ![p][d] = Append(@, m)]
      <3> DEFINE x == Status(c)
      <3>1. x # m
        BY <1>4
      <3> HIDE DEF x
      <3>2. x \in ToSet(collection_buffer'[q][c]) <=>
                x \in ToSet(collection_buffer[q][c]) \/ (q = p /\ c = d /\ x = m)
        BY <1>2, <1>3, <2>1, <2>2, BufferHas
      <3> QED
        BY <3>1, <3>2 DEF x
    <2> QED
      BY <1>6, <2>2
  <1> QED
    BY <1>1, <1>5, <1>7, WaitsSame

LEMMA WaitsKeepEarly ==
    ASSUME Shape, Waits, NEW p \in PE, NEW q \in PE, KeepEarly(q, p)
    PROVE  Waits'
  <1> DEFINE m == Head(queue[q][p])
  <1>1. /\ queue[q][p] # <<>> /\ m.type \in {"entry", "post", "copy", "redux"}
        /\ collection_buffer' = [collection_buffer EXCEPT ![p][m.col] = Append(@, m)]
        /\ UNCHANGED <<collection_table, heard, sent>>
    BY DEF KeepEarly, NextOf, branches
  <1>2. collection_buffer \in Early
    BY DEF Shape
  <1>3. m \in Anything
    BY <1>1, TakenIs
  <1>4. m.col \in Col
    BY <1>1, <1>3, ProperFields, OtherFields DEF Anything, Col
  <1>5. \A c : Status(c) # m
    BY <1>1 DEF Status
  <1> HIDE DEF m
  <1>6. ASSUME NEW r \in PE, NEW c \in Arrays
        PROVE  Status(c) \in ToSet(collection_buffer'[r][c])
                   <=> Status(c) \in ToSet(collection_buffer[r][c])
    <2>1. c \in Col
      BY DEF Arrays, Col
    <2> DEFINE x == Status(c)
               d == m.col
    <2>2. x # m
      BY <1>5
    <2>3. collection_buffer' = [collection_buffer EXCEPT ![p][d] = Append(@, m)] /\ d \in Col
      BY <1>1, <1>4
    <2> HIDE DEF x, d
    <2>4. x \in ToSet(collection_buffer'[r][c]) <=>
              x \in ToSet(collection_buffer[r][c]) \/ (r = p /\ c = d /\ x = m)
      BY <1>2, <1>3, <2>1, <2>3, BufferHas
    <2> QED
      BY <2>2, <2>4 DEF x
  <1> QED
    BY <1>1, <1>6, WaitsSame

(* Branches are made *)
LEMMA WaitsMake ==
    ASSUME Shape, Births, Tables, Waits, NEW p \in PE, NEW d \in User,
           NEW new \in SUBSET Col, Make(p, d, new), sent' = sent,
           \A q \in PE, c \in Arrays : c \notin collection_table'[q] =>
               (Status(c) \in heard'[q] <=> Status(c) \in heard[q]),
           \A q \in PE, c \in Arrays : Status(c) \in heard'[q] => Status(c) \in heard[q]
    PROVE  Waits'
  <1>1. collection_buffer \in Early
    BY DEF Shape
  <1>2. ASSUME NEW q \in PE, NEW c \in Arrays, c \notin collection_table'[q]
        PROVE  c \notin collection_table[q]
               /\ collection_buffer'[q][c] = collection_buffer[q][c]
    <2>1. c \in Col
      BY DEF Arrays, Col
    <2>2. collection_table'[q] =
              IF q = p THEN collection_table[q] \cup new ELSE collection_table[q]
      BY MakeTable
    <2>3. collection_buffer'[q][c] =
              IF q = p /\ c \in new THEN <<>> ELSE collection_buffer[q][c]
      BY <1>1, <2>1, MakeEarly
    <2> QED
      BY <1>2, <2>2, <2>3
  <1> QED
    BY <1>2 DEF Waits

LEMMA WaitsStatus ==
    ASSUME Shape, Births, Tables, Waits, NEW p \in PE, NEW d \in Arrays,
           ReceiveStatus(p, d)
    PROVE  Waits'
  <1>1. /\ sent' = sent /\ Status(d) \in heard[p] /\ d \in User /\ d \in Col
        /\ collection_buffer \in Early
    BY DEF ReceiveStatus, Arrays, Col, Shape
  <1>2. CASE d \in collection_table[p]
    <2>1. /\ Make(p, d, NewDetector(p))
          /\ Hear(p, Status(d), ends(p, d, {p}))
      BY <1>2 DEF ReceiveStatus
    <2>2. NewDetector(p) \in SUBSET Col /\ \A c \in User : c \notin NewDetector(p)
      BY SysApart DEF NewDetector, Col
    <2>3. \A q \in PE, c \in Arrays :
              Status(c) \in heard'[q] <=> Status(c) \in heard[q] /\ ~(q = p /\ c = d)
      BY <2>1, HearIs, EndsAre, Kinds
    <2>4. \A q \in PE : collection_table'[q] =
              IF q = p THEN collection_table[q] \cup NewDetector(p) ELSE collection_table[q]
      BY <2>1, <2>2, MakeTable
    <2>5. d \in collection_table'[p]
      BY <1>2, <2>4
    <2>6. \A q \in PE, c \in Arrays : c \notin collection_table'[q] =>
              (Status(c) \in heard'[q] <=> Status(c) \in heard[q])
      BY <2>3, <2>5
    <2>7. \A q \in PE, c \in Arrays : Status(c) \in heard'[q] => Status(c) \in heard[q]
      BY <2>3
    <2> QED
      BY <1>1, <2>1, <2>2, <2>6, <2>7, WaitsMake
  <1>3. CASE d \notin collection_table[p]
    <2> DEFINE m == Status(d)
    <2>1. /\ collection_buffer' = [collection_buffer EXCEPT ![p][d] = Append(@, m)]
          /\ collection_table' = collection_table
          /\ Hear(p, m, {})
      BY <1>3 DEF ReceiveStatus, branches
    <2>2. m \in Anything
      BY DEF Status, Others, Anything
    <2>3. ASSUME NEW c \in Arrays, NEW q \in PE
          PROVE  /\ Status(c) \in heard'[q] <=>
                        Status(c) \in heard[q] /\ ~(q = p /\ c = d)
                 /\ Status(c) \in ToSet(collection_buffer'[q][c]) <=>
                        \/ Status(c) \in ToSet(collection_buffer[q][c])
                        \/ q = p /\ c = d
      <3> DEFINE x == Status(c)
      <3>1. x = m <=> c = d
        BY Kinds
      <3>2. c \in Col
        BY DEF Arrays, Col
      <3> HIDE DEF x, m
      <3>3. x \in heard'[q] <=> x \in heard[q] /\ ~(q = p /\ x = m)
        BY <2>1, HearIs
      <3>4. x \in ToSet(collection_buffer'[q][c]) <=>
                x \in ToSet(collection_buffer[q][c]) \/ (q = p /\ c = d /\ x = m)
        BY <1>1, <2>1, <2>2, <3>2, BufferHas
      <3> QED
        BY <3>1, <3>3, <3>4 DEF x
    <2>4. d \in sent
      BY <1>1 DEF Waits
    <2> QED
      BY <1>1, <2>1, <2>3, <2>4 DEF Waits
  <1> QED
    BY <1>2, <1>3

LEMMA WaitsCreation ==
    ASSUME Shape, Births, Tables, Waits, NEW p \in PE, NEW d \in User,
           ReceiveCreation(p, d)
    PROVE  Waits'
  <1> DEFINE counts == Contributes(p, d)
             own == IF counts THEN {p} ELSE {}
             new == {d} \cup (IF counts THEN NewDetector(p) ELSE {})
  <1>1. /\ Make(p, d, new) /\ sent' = sent
        /\ Hear(p, Creation(d), ends(p, d, own))
    BY DEF ReceiveCreation
  <1>2. new \in SUBSET Col
    BY DEF NewDetector, Col
  <1> HIDE DEF new, own
  <1>3. \A q \in PE, c \in Arrays : Status(c) \in heard'[q] <=> Status(c) \in heard[q]
    BY <1>1, HearIs, EndsAre, Kinds
  <1> QED
    BY <1>1, <1>2, <1>3, WaitsMake

LEMMA WaitsStep ==
    ASSUME Shape, Births, Tables, Waits, [Next]_vars
    PROVE  Waits'
  <1>1. ASSUME \A c \in Arrays : c \in sent' <=> c \in sent,
               \A p \in PE, c \in Arrays : Status(c) \in heard'[p] <=> Status(c) \in heard[p],
               UNCHANGED <<collection_table, collection_buffer>>
        PROVE  Waits'
    BY <1>1, WaitsIdle
  <1>2. ASSUME NEW p \in PE, Construct(p)
        PROVE  Waits'
    <2> DEFINE c == Id(p, local_collection_count[p])
    <2>1. /\ UNCHANGED <<collection_table, collection_buffer, sent>>
          /\ heard' = Tell(PE, Creation(c))
      BY <1>2 DEF Construct, branches
    <2> HIDE DEF c
    <2>2. \A q \in PE, d \in Arrays : Status(d) \in heard'[q] <=> Status(d) \in heard[q]
      BY <2>1, TellIs, Kinds
    <2> QED
      BY <1>1, <2>1, <2>2
  <1>3. ASSUME NEW p \in PE, CallExit(p)
        PROVE  Waits'
    <2>1. /\ UNCHANGED <<collection_table, collection_buffer, sent>>
          /\ heard' = Tell(PE, Exit(TRUE)) \/ heard' = heard
      BY <1>3 DEF CallExit, branches
    <2>2. ASSUME NEW r \in PE, NEW d \in Arrays
          PROVE  Status(d) \in heard'[r] <=> Status(d) \in heard[r]
      <3>1. Status(d) # Exit(TRUE)
        BY Kinds
      <3> QED
        BY <2>1, <3>1, TellIs
    <2> QED
      BY <1>1, <2>1, <2>2
  <1>4. ASSUME NEW p \in PE, NEW c \in Arrays, ReceiveReady(p, c)
        PROVE  Waits'
    <2>1. /\ UNCHANGED <<collection_table, collection_buffer, sent>>
          /\ Hear(p, Ready(c), {})
      BY <1>4 DEF ReceiveReady
    <2>2. \A q \in PE, d \in Arrays : Status(d) \in heard'[q] <=> Status(d) \in heard[q]
      BY <2>1, HearIs, Kinds
    <2> QED
      BY <1>1, <2>1, <2>2
  <1>5. ASSUME NEW p \in PE, NEW b, exit(p, b)
        PROVE  Waits'
    <2>1. UNCHANGED <<collection_table, collection_buffer, sent>>
      BY <1>5 DEF exit, branches
    <2>2. \A r \in PE, d \in Arrays : Status(d) \in heard'[r] <=> Status(d) \in heard[r]
      BY <1>5, ExitHeard, Kinds
    <2> QED
      BY <1>1, <2>1, <2>2
  <1>6. ASSUME NEW p \in PE, NEW q \in PE, ReceiveLetter(q, p)
        PROVE  Waits'
    BY <1>1, <1>6 DEF ReceiveLetter, branches
  <1>7. ASSUME NEW p \in PE, NEW q \in PE, ReceiveRedux(q, p)
        PROVE  Waits'
    <2> DEFINE m == Head(queue[q][p])
    <2>1. /\ UNCHANGED <<collection_table, collection_buffer, sent>>
          /\ heard' = [r \in PE |-> heard[r] \cup ends(p, m.target, {m.from})]
      BY <1>7 DEF ReceiveRedux, branches
    <2> HIDE DEF m
    <2>2. \A r \in PE, d \in Arrays : Status(d) \in heard'[r] <=> Status(d) \in heard[r]
      BY <2>1, EndsAre, Kinds
    <2> QED
      BY <1>1, <2>1, <2>2
  <1>8. ASSUME UNCHANGED vars
        PROVE  Waits'
    BY <1>1, <1>8 DEF vars, branches
  <1>9. ASSUME NEW p \in PE, ReceiveBroadcastExit(p)
        PROVE  Waits'
    BY <1>5, <1>9 DEF ReceiveBroadcastExit
  <1>10. ASSUME NEW p \in PE, NEW q \in PE, ReceiveExit(q, p)
         PROVE  Waits'
    BY <1>5, <1>10 DEF ReceiveExit
  <1> QED
    BY <1>2, <1>3, <1>4, <1>6, <1>7, <1>8, <1>9, <1>10, WaitsDone, WaitsSend,
       WaitsKeepEarly, WaitsStatus, WaitsCreation DEF Next, Work, Turn

-----------------------------------------------------------------------------
(* The wave that ends an insertion phase.  U has the PEs whose subtrees    *)
(* have contributed, D those that have contributed themselves, and comb    *)
(* what the reducers have.                                                 *)

Tree(U, D, comb) ==
    /\ \A p \in U : p \in D /\ span_tree_children(p) \subseteq U /\ comb[p] = {}
    /\ \A p \in PE \ U : /\ comb[p] \subseteq Contributors(p)
                         /\ comb[p] # Contributors(p)
                         /\ p \in comb[p] <=> p \in D
                         /\ comb[p] \cap span_tree_children(p) \subseteq U

(* The sum of q's subtree is on its way to its parent *)
Owed(q, U, comb) ==
    /\ q # 0 /\ q \in U
    /\ span_tree_parent(q) \notin U /\ q \notin comb[span_tree_parent(q)]

LEMMA ContributorsAre ==
    ASSUME NEW p \in PE, NEW q \in PE
    PROVE  /\ q \in Contributors(p) <=> q = p \/ q \in span_tree_children(p)
           /\ q \in span_tree_children(p) <=> q # 0 /\ span_tree_parent(q) = p
           /\ p \notin span_tree_children(p) /\ Contributors(p) \subseteq PE
           /\ q # 0 => span_tree_parent(q) \in PE /\ span_tree_parent(q) # q
  BY TreeIs, ParentIs DEF Contributors

(* Those in new join D, with p *)
Enters(p, new, U, D, D2) ==
    /\ new \cap span_tree_children(p) \subseteq U
    /\ p \in D2 <=> p \in D \/ p \in new
    /\ \A q \in PE \ {p} : q \in D2 <=> q \in D

(* The reducer of p gets them, and has not got all or has *)
Collects(p, new, comb, comb2) ==
    /\ comb[p] \cup new # Contributors(p) /\ comb2[p] = comb[p] \cup new
    /\ \A q \in PE \ {p} : comb2[q] = comb[q]
Completes(p, new, comb, comb2) ==
    /\ comb[p] \cup new = Contributors(p) /\ comb2[p] = {}
    /\ \A q \in PE \ {p} : comb2[q] = comb[q]

LEMMA TreePart ==
    ASSUME NEW U \in SUBSET PE, NEW D, NEW comb, Tree(U, D, comb), NEW p \in PE \ U,
           NEW new \in SUBSET Contributors(p), NEW D2, Enters(p, new, U, D, D2),
           NEW comb2, Collects(p, new, comb, comb2)
    PROVE  /\ Tree(U, D2, comb2)
           /\ \A q \in PE : Owed(q, U, comb2) <=> Owed(q, U, comb) /\ q \notin new
  <1>0. /\ new \cap span_tree_children(p) \subseteq U
        /\ p \in D2 <=> p \in D \/ p \in new
        /\ \A q \in PE \ {p} : q \in D2 <=> q \in D
        /\ comb[p] \cup new # Contributors(p) /\ comb2[p] = comb[p] \cup new
        /\ \A q \in PE \ {p} : comb2[q] = comb[q]
    BY DEF Enters, Collects
  <1>1. \A q \in U : q \in D2 /\ span_tree_children(q) \subseteq U /\ comb2[q] = {}
    BY <1>0 DEF Tree
  <1>2. ASSUME NEW q \in PE \ U
        PROVE  /\ comb2[q] \subseteq Contributors(q)
               /\ comb2[q] # Contributors(q)
               /\ q \in comb2[q] <=> q \in D2
               /\ comb2[q] \cap span_tree_children(q) \subseteq U
    <2>1. CASE q = p
      BY <1>0, <2>1 DEF Tree
    <2>2. CASE q # p
      BY <1>0, <1>2, <2>2 DEF Tree
    <2> QED
      BY <2>1, <2>2
  <1>3. ASSUME NEW q \in PE
        PROVE  Owed(q, U, comb2) <=> Owed(q, U, comb) /\ q \notin new
    <2>1. /\ q # 0 => span_tree_parent(q) \in PE
          /\ q \in new => q = p \/ (q # 0 /\ span_tree_parent(q) = p)
      BY ContributorsAre
    <2>2. CASE q # 0 /\ span_tree_parent(q) = p /\ q # p
      BY <1>0, <2>1, <2>2 DEF Owed
    <2>3. CASE q = p
      BY <1>0, <2>3 DEF Owed
    <2>4. CASE ~(q # 0 /\ span_tree_parent(q) = p) /\ q # p
      BY <1>0, <2>1, <2>4 DEF Owed
    <2> QED
      BY <2>2, <2>3, <2>4
  <1> QED
    BY <1>1, <1>2, <1>3 DEF Tree

LEMMA TreeWhole ==
    ASSUME NEW U \in SUBSET PE, NEW D, NEW comb, Tree(U, D, comb), NEW p \in PE \ U,
           NEW new \in SUBSET Contributors(p), NEW D2, Enters(p, new, U, D, D2),
           NEW comb2, Completes(p, new, comb, comb2)
    PROVE  /\ Tree(U \cup {p}, D2, comb2)
           /\ \A q \in PE : Owed(q, U \cup {p}, comb2) <=>
                               \/ Owed(q, U, comb) /\ q \notin new
                               \/ q = p /\ p # 0
  <1>0. /\ new \cap span_tree_children(p) \subseteq U
        /\ p \in D2 <=> p \in D \/ p \in new
        /\ \A q \in PE \ {p} : q \in D2 <=> q \in D
        /\ comb[p] \cup new = Contributors(p) /\ comb2[p] = {}
        /\ \A q \in PE \ {p} : comb2[q] = comb[q]
    BY DEF Enters, Completes
  <1>1. p \in D2 /\ span_tree_children(p) \subseteq U
    <2>1. p \in comb[p] \cup new
      BY <1>0 DEF Contributors
    <2>2. p \in comb[p] <=> p \in D
      BY DEF Tree
    <2>3. span_tree_children(p) \subseteq comb[p] \cup new
      BY <1>0 DEF Contributors
    <2>4. comb[p] \cap span_tree_children(p) \subseteq U
      BY DEF Tree
    <2> QED
      BY <1>0, <2>1, <2>2, <2>3, <2>4
  <1>2. ASSUME NEW q \in U \cup {p}
        PROVE  q \in D2 /\ span_tree_children(q) \subseteq U \cup {p} /\ comb2[q] = {}
    <2>1. CASE q = p
      BY <1>0, <1>1, <2>1
    <2>2. CASE q # p
      BY <1>0, <1>2, <2>2 DEF Tree
    <2> QED
      BY <2>1, <2>2
  <1>3. ASSUME NEW q \in PE \ (U \cup {p})
        PROVE  /\ comb2[q] \subseteq Contributors(q)
               /\ comb2[q] # Contributors(q)
               /\ q \in comb2[q] <=> q \in D2
               /\ comb2[q] \cap span_tree_children(q) \subseteq U \cup {p}
    BY <1>0, <1>3 DEF Tree
  <1>4. ASSUME NEW q \in PE
        PROVE  Owed(q, U \cup {p}, comb2) <=>
                   \/ Owed(q, U, comb) /\ q \notin new
                   \/ q = p /\ p # 0
    <2>1. /\ q # 0 => span_tree_parent(q) \in PE /\ span_tree_parent(q) # q
          /\ q \in new => q = p \/ (q # 0 /\ span_tree_parent(q) = p)
          /\ q # 0 /\ span_tree_parent(q) = p => q \in Contributors(p)
      BY ContributorsAre
    <2>2. CASE q # 0 /\ span_tree_parent(q) = p /\ q # p
      <3>1. q \in comb[p] \cup new
        BY <1>0, <2>1, <2>2
      <3> QED
        BY <1>0, <2>2, <3>1 DEF Owed
    <2>3. CASE q = p
      <3>1. p # 0 => span_tree_parent(p) \notin U
        <4>1. p # 0 => p \in span_tree_children(span_tree_parent(p))
          BY <2>1, <2>3, ParentIs
        <4> QED
          BY <4>1 DEF Tree
      <3>2. p # 0 => p \notin comb[span_tree_parent(p)]
        <4>1. p # 0 => p \in span_tree_children(span_tree_parent(p))
                       /\ span_tree_parent(p) \in PE
          BY <2>1, <2>3, ParentIs
        <4> QED
          BY <3>1, <4>1 DEF Tree
      <3> QED
        BY <1>0, <2>1, <2>3, <3>1, <3>2 DEF Owed
    <2>4. CASE ~(q # 0 /\ span_tree_parent(q) = p) /\ q # p
      BY <1>0, <2>1, <2>4 DEF Owed
    <2> QED
      BY <2>2, <2>3, <2>4
  <1> QED
    BY <1>2, <1>3, <1>4 DEF Tree

(* The root's subtree is everything *)
LEMMA ParentLess ==
    ASSUME NEW q \in PE, q # 0
    PROVE  span_tree_parent(q) < q
  <1>1. q \in Nat /\ q > 0 /\ q - 1 \in Nat
    BY NumPesAssumption DEF PE
  <1>2. Branch \in Nat \ {0}
    BY BranchAssumption
  <1> DEFINE d == (q - 1) \div Branch
  <1>3. d \in Nat /\ d * Branch <= q - 1
    BY <1>1, <1>2, DivisionFacts
  <1> HIDE DEF d
  <1>4. d <= d * Branch
    <2>1. 1 * d <= Branch * d
      BY <1>2, <1>3, ProductMonotone
    <2>2. Branch * d = d * Branch /\ 1 * d = d
      BY <1>2, <1>3
    <2> QED
      BY <2>1, <2>2
  <1>5. d * Branch \in Nat
    BY <1>2, <1>3, ProductNat
  <1>6. d < q
    BY <1>1, <1>3, <1>4, <1>5
  <1> QED
    BY <1>6 DEF d, span_tree_parent

LEMMA TreeFull ==
    ASSUME NEW U \in SUBSET PE, NEW D, NEW comb, Tree(U, D, comb), 0 \in U
    PROVE  U = PE
  <1> SUFFICES ASSUME PE \ U # {}
               PROVE  FALSE
    OBVIOUS
  <1>1. PE \ U \in SUBSET Nat
    BY NumPesAssumption DEF PE
  <1>2. PICK x \in PE \ U : \A y \in PE \ U : x <= y
    BY <1>1, SmallestInSet
  <1>3. x # 0 /\ span_tree_parent(x) < x /\ span_tree_parent(x) \in PE
    BY ParentLess, ParentIs
  <1>4. span_tree_parent(x) \in Nat /\ x \in Nat
    BY <1>3, NumPesAssumption DEF PE
  <1>5. span_tree_parent(x) \in U
    BY <1>2, <1>3, <1>4
  <1>6. x \in span_tree_children(span_tree_parent(x))
    BY <1>3, ParentIs
  <1> QED
    BY <1>5, <1>6 DEF Tree

(* The messages T that q sends to its parent: there are n of them, on the  *)
(* way, in the parent's message to itself after it has waited, or waiting. *)

Hold(net, early_, T, q, n) ==
    /\ \A r, s \in PE : ~(s = span_tree_parent(q) /\ r \in {q, s}) =>
                            HitCount(net[r][s], T) = 0
    /\ \A s \in PE : s # span_tree_parent(q) => HitCount(early_[s][sys], T) = 0
    /\ q # 0 =>
          HitCount(net[q][span_tree_parent(q)], T)
          + HitCount(net[span_tree_parent(q)][span_tree_parent(q)], T)
          + HitCount(early_[span_tree_parent(q)][sys], T) = n

LEMMA HoldSame ==
    ASSUME NEW net, NEW early_, NEW T, NEW q \in PE, NEW n, Hold(net, early_, T, q, n),
           NEW new, NEW later,
           \A r, s \in PE : HitCount(new[r][s], T) = HitCount(net[r][s], T),
           \A s \in PE : HitCount(later[s][sys], T) = HitCount(early_[s][sys], T)
    PROVE  Hold(new, later, T, q, n)
  <1>1. q # 0 => span_tree_parent(q) \in PE
    BY ParentIs
  <1> QED
    BY <1>1 DEF Hold

LEMMA SysCol == sys \in Col
  BY DEF Col

LEMMA TallyTypes ==
    ASSUME NEW net \in Nets, NEW early_ \in Early, NEW T, NEW r \in PE, NEW s \in PE
    PROVE  /\ HitCount(net[r][s], T) \in Nat /\ HitCount(early_[s][sys], T) \in Nat
           /\ net[r][s] \in Seq(Anything) /\ early_[s][sys] \in Seq(Anything)
  <1>1. net[r][s] \in Seq(Anything) /\ early_[s][sys] \in Seq(Anything)
    BY SysCol DEF Nets, Early
  <1> QED
    BY <1>1, HitCountType

(* p lets go of what has waited, and sends k more *)
LEMMA HoldMoves ==
    ASSUME NEW net \in Nets, NEW early_ \in Early, NEW later \in Early, NEW T, Stable(T),
           NEW q \in PE, NEW n \in Nat, Hold(net, early_, T, q, n),
           NEW p \in PE, NEW out \in Sendings, NEW a, NEW b, NEW k \in Nat,
           \A s \in PE : a[s] \in Nat /\ b[s] \in Nat,
           \A s \in PE : HitCount(out[s], T) = a[s] + b[s],
           \A s \in PE \ {p} : a[s] = 0,
           a[p] + HitCount(later[p][sys], T) = HitCount(early_[p][sys], T),
           \A s \in PE \ {p} : later[s][sys] = early_[s][sys],
           \A s \in PE : ~(q = p /\ s = span_tree_parent(p)) => b[s] = 0,
           q = p /\ p # 0 => b[span_tree_parent(p)] = k
    PROVE  /\ q # p => Hold(Emit(net, p, out), later, T, q, n)
           /\ q = p => Hold(Emit(net, p, out), later, T, q, n + k)
  <1> DEFINE new == Emit(net, p, out)
             P == span_tree_parent(q)
  <1>1. \A r, s \in PE : r # p => new[r][s] = net[r][s]
    BY EmitRow
  <1>2. \A s \in PE : HitCount(new[p][s], T) = HitCount(net[p][s], T) + (a[s] + b[s])
    BY EmitFor
  <1> HIDE DEF new
  <1>3. /\ \A r, s \in PE : HitCount(net[r][s], T) \in Nat
        /\ \A s \in PE : HitCount(early_[s][sys], T) \in Nat
        /\ \A s \in PE : HitCount(later[s][sys], T) \in Nat
    BY TallyTypes
  <1>4. q # 0 => P \in PE /\ P # q
    BY ParentIs
  <1>5. p # P => a[p] = 0 /\ HitCount(later[p][sys], T) = 0
    <2>1. p # P => HitCount(early_[p][sys], T) = 0
      BY DEF Hold
    <2>2. a[p] \in Nat /\ HitCount(later[p][sys], T) \in Nat
      BY <1>3
    <2> QED
      BY <2>1, <2>2
  <1>6. \A s \in PE : s # P => HitCount(later[s][sys], T) = 0
    BY <1>5 DEF Hold
  <1>7. ASSUME NEW r \in PE, NEW s \in PE, ~(s = P /\ r \in {q, s})
        PROVE  HitCount(new[r][s], T) = 0
    <2>1. HitCount(net[r][s], T) = 0
      BY <1>7 DEF Hold
    <2>2. CASE r # p
      BY <1>1, <2>1, <2>2
    <2>3. CASE r = p
      <3>1. a[s] = 0
        BY <1>5, <1>7, <2>3
      <3>2. b[s] = 0
        BY <1>7, <2>3
      <3> QED
        BY <1>2, <2>1, <2>3, <3>1, <3>2
    <2> QED
      BY <2>2, <2>3
  <1>8. ASSUME q # 0, q # p
        PROVE  HitCount(new[q][P], T) + HitCount(new[P][P], T)
               + HitCount(later[P][sys], T) = n
    <2>1. P \in PE
      BY <1>4, <1>8
    <2>2. new[q][P] = net[q][P]
      BY <1>1, <1>8, <2>1
    <2>3. HitCount(new[P][P], T) + HitCount(later[P][sys], T) =
              HitCount(net[P][P], T) + HitCount(early_[P][sys], T)
      <3>1. CASE P # p
        BY <1>1, <2>1, <3>1
      <3>2. CASE P = p
        <4>1. b[p] = 0 /\ a[p] \in Nat
          BY <1>8
        <4>2. HitCount(new[p][p], T) = HitCount(net[p][p], T) + a[p]
          BY <1>2, <4>1
        <4>3. /\ HitCount(net[p][p], T) \in Nat /\ HitCount(later[p][sys], T) \in Nat
              /\ HitCount(early_[p][sys], T) \in Nat
          BY <1>3
        <4> QED
          BY <3>2, <4>1, <4>2, <4>3
      <3> QED
        BY <3>1, <3>2
    <2>4. HitCount(net[q][P], T) + HitCount(net[P][P], T) + HitCount(early_[P][sys], T) = n
      BY <1>8 DEF Hold
    <2> DEFINE u == HitCount(net[q][P], T)
               v == HitCount(net[P][P], T)
               w == HitCount(early_[P][sys], T)
               v2 == HitCount(new[P][P], T)
               w2 == HitCount(later[P][sys], T)
    <2>5. u \in Nat /\ v \in Nat /\ w \in Nat /\ w2 \in Nat
      BY <1>3, <2>1
    <2>6. v2 \in Nat
      <3>1. CASE P # p
        BY <1>1, <1>3, <2>1, <3>1
      <3>2. CASE P = p
        BY <1>2, <1>3, <3>2
      <3> QED
        BY <3>1, <3>2
    <2>7. v2 + w2 = v + w /\ u + v + w = n
      BY <2>3, <2>4
    <2>8. HitCount(new[q][P], T) = u
      BY <2>2
    <2> HIDE DEF u, v, w, v2, w2
    <2>9. u + v2 + w2 = n
      BY <2>5, <2>6, <2>7
    <2> QED
      BY <2>8, <2>9 DEF v2, w2
  <1>9. ASSUME q # 0, q = p
        PROVE  HitCount(new[q][P], T) + HitCount(new[P][P], T)
               + HitCount(later[P][sys], T) = n + k
    <2>1. P \in PE /\ P # p
      BY <1>4, <1>9
    <2>2. a[P] = 0 /\ b[P] = k
      BY <1>9, <2>1
    <2>3. HitCount(new[q][P], T) = HitCount(net[q][P], T) + k
      BY <1>2, <1>9, <2>1, <2>2
    <2>4. new[P][P] = net[P][P] /\ later[P][sys] = early_[P][sys]
      BY <1>1, <2>1
    <2>5. HitCount(net[q][P], T) + HitCount(net[P][P], T) + HitCount(early_[P][sys], T) = n
      BY <1>9 DEF Hold
    <2> DEFINE u == HitCount(net[q][P], T)
               v == HitCount(net[P][P], T)
               w == HitCount(early_[P][sys], T)
    <2>6. u \in Nat /\ v \in Nat /\ w \in Nat /\ u + v + w = n
      BY <1>3, <2>1, <2>5
    <2>7. /\ HitCount(new[q][P], T) = u + k /\ HitCount(new[P][P], T) = v
          /\ HitCount(later[P][sys], T) = w
      BY <2>3, <2>4
    <2> HIDE DEF u, v, w
    <2>8. (u + k) + v + w = n + k
      BY <2>6
    <2> QED
      BY <2>7, <2>8
  <1>10. q # p => Hold(new, later, T, q, n)
    BY <1>6, <1>7, <1>8 DEF Hold
  <1>11. q = p => Hold(new, later, T, q, n + k)
    BY <1>6, <1>7, <1>9 DEF Hold
  <1> QED
    BY <1>10, <1>11 DEF new

(* A message that is not one of them is taken *)
LEMMA HoldPast ==
    ASSUME NEW net \in Nets, NEW early_ \in Early, NEW T, NEW q \in PE, NEW n,
           Hold(net, early_, T, q, n),
           NEW x \in PE, NEW p \in PE, net[x][p] # <<>>, Head(net[x][p]) \notin T
    PROVE  Hold(Behind(net, x, p), early_, T, q, n)
  <1>1. \A r, s \in PE : HitCount(Behind(net, x, p)[r][s], T) = HitCount(net[r][s], T)
    BY BehindSame DEF Same
  <1> QED
    BY <1>1, HoldSame

(* One of them is taken from the way *)
LEMMA HoldTaken ==
    ASSUME NEW net \in Nets, NEW early_ \in Early, NEW T, NEW q \in PE, NEW n \in Nat,
           Hold(net, early_, T, q, n),
           NEW x \in PE, NEW p \in PE, net[x][p] # <<>>, Head(net[x][p]) \in T
    PROVE  /\ q # 0 /\ p = span_tree_parent(q) /\ n - 1 \in Nat
           /\ Hold(Behind(net, x, p), early_, T, q, n - 1)
  <1> DEFINE P == span_tree_parent(q)
  <1>0. PICK new : new = Behind(net, x, p)
    OBVIOUS
  <1>1. /\ HitCount(net[x][p], T) = HitCount(new[x][p], T) + 1
        /\ HitCount(new[x][p], T) \in Nat
        /\ \A r, s \in PE : ~(r = x /\ s = p) => new[r][s] = net[r][s]
    <2> DEFINE h == net[x][p]
    <2>0. h \in Seq(Anything)
      BY TallyTypes
    <2>1. /\ h \in Seq(Anything) /\ h # <<>>
          /\ new[x][p] = Tail(h)
          /\ \A r, s \in PE : ~(r = x /\ s = p) => new[r][s] = net[r][s]
      BY <1>0, <2>0, BehindIs
    <2>2. Head(h) \in T
      OBVIOUS
    <2> HIDE DEF h
    <2>3. /\ Tail(h) \in Seq(Anything)
          /\ HitCount(h, T) = HitCount(Tail(h), T) + HitCount(<<Head(h)>>, T)
      BY <2>1, HitCountTail
    <2>4. HitCount(<<Head(h)>>, T) = 1
      BY <2>2, HitCountSingle
    <2>5. HitCount(Tail(h), T) \in Nat
      BY <2>3, HitCountType
    <2>6. HitCount(h, T) = HitCount(new[x][p], T) + 1
      BY <2>1, <2>3, <2>4
    <2> QED
      BY <2>1, <2>5, <2>6 DEF h
  <1>2. HitCount(net[x][p], T) # 0
    BY <1>1
  <1>3. p = P /\ x \in {q, p}
    BY <1>2 DEF Hold
  <1>4. q # 0
    BY <1>3, ParentIs
  <1>5. P # q
    BY <1>4, ParentIs
  <1>6. /\ HitCount(net[q][p], T) \in Nat /\ HitCount(net[p][p], T) \in Nat
        /\ HitCount(early_[p][sys], T) \in Nat
        /\ HitCount(net[q][p], T) + HitCount(net[p][p], T) + HitCount(early_[p][sys], T) = n
    BY <1>3, <1>4, TallyTypes DEF Hold
  <1>7. HitCount(new[q][p], T) + HitCount(new[p][p], T) + HitCount(early_[p][sys], T) = n - 1
        /\ n - 1 \in Nat
    <2> DEFINE u == HitCount(net[q][p], T)
               v == HitCount(net[p][p], T)
               w == HitCount(early_[p][sys], T)
               u2 == HitCount(new[q][p], T)
               v2 == HitCount(new[p][p], T)
    <2>1. \/ u = u2 + 1 /\ u2 \in Nat /\ v2 = v
          \/ v = v2 + 1 /\ v2 \in Nat /\ u2 = u
      <3>1. CASE x = q
        <4>1. new[p][p] = net[p][p]
          BY <1>1, <1>3, <1>5, <3>1
        <4> QED
          BY <1>1, <3>1, <4>1
      <3>2. CASE x = p
        <4>1. new[q][p] = net[q][p]
          BY <1>1, <1>3, <1>5, <3>2
        <4> QED
          BY <1>1, <3>2, <4>1
      <3> QED
        BY <1>3, <3>1, <3>2
    <2>2. u \in Nat /\ v \in Nat /\ w \in Nat /\ u + v + w = n
      BY <1>6
    <2> HIDE DEF u, v, w, u2, v2
    <2>3. u2 + v2 + w = n - 1 /\ n - 1 \in Nat
      BY <2>1, <2>2
    <2> QED
      BY <2>3 DEF u2, v2, w
  <1>8. \A r, s \in PE : ~(s = P /\ r \in {q, s}) => HitCount(new[r][s], T) = 0
    BY <1>1, <1>3 DEF Hold
  <1>9. Hold(new, early_, T, q, n - 1)
    BY <1>3, <1>7, <1>8 DEF Hold
  <1> QED
    BY <1>0, <1>3, <1>4, <1>7, <1>9

(* It has to wait for the detector *)
LEMMA HoldKept ==
    ASSUME NEW net \in Nets, NEW early_ \in Early, NEW T, NEW q \in PE, NEW n \in Nat,
           Hold(net, early_, T, q, n),
           NEW x \in PE, NEW p \in PE, net[x][p] # <<>>, Head(net[x][p]) \in Anything,
           NEW d \in Col, Head(net[x][p]) \in T => d = sys,
           NEW later, later = [early_ EXCEPT ![p][d] = Append(@, Head(net[x][p]))]
    PROVE  Hold(Behind(net, x, p), later, T, q, n)
  <1> DEFINE m == Head(net[x][p])
             new == Behind(net, x, p)
  <1>1. early_[p][sys] \in Seq(Anything) /\ sys \in Col
    BY TallyTypes, SysCol
  <1>2. /\ \A s \in PE \ {p} : later[s][sys] = early_[s][sys]
        /\ d # sys => later[p][sys] = early_[p][sys]
        /\ d = sys => later[p][sys] = Append(early_[p][sys], m)
    BY <1>1 DEF Early
  <1>3. CASE m \notin T
    <2>1. HitCount(later[p][sys], T) = HitCount(early_[p][sys], T)
      <3>1. Same(T, early_[p][sys], Append(early_[p][sys], m))
        BY <1>1, <1>3, SameAppend
      <3> QED
        BY <1>2, <3>1 DEF Same
    <2>2. \A s \in PE : HitCount(later[s][sys], T) = HitCount(early_[s][sys], T)
      BY <1>2, <2>1
    <2>3. \A r, s \in PE : HitCount(new[r][s], T) = HitCount(net[r][s], T)
      BY <1>3, BehindSame DEF Same
    <2> HIDE DEF new
    <2>4. Hold(new, later, T, q, n)
      BY ONLY <2>2, <2>3, HoldSame, q \in PE, Hold(net, early_, T, q, n)
    <2> QED
      BY <2>4 DEF new
  <1>4. CASE m \in T
    <2> HIDE DEF m, new
    <2>1. /\ q # 0 /\ p = span_tree_parent(q) /\ n - 1 \in Nat
          /\ Hold(new, early_, T, q, n - 1)
      BY <1>4, HoldTaken DEF m, new
    <2>2. HitCount(later[p][sys], T) = HitCount(early_[p][sys], T) + 1
      <3> DEFINE s == early_[p][sys]
                 t == <<m>>
      <3>0. s \in Seq(Anything) /\ m \in Anything
        BY <1>1 DEF m
      <3>1. Append(s, m) = s \o t
        BY ONLY <3>0, AppendIsConcat
      <3>2. s \in Seq(Anything) /\ t \in Seq(Anything) /\ HitCount(t, T) = 1
        BY <1>1, <1>4, HitCountSingle DEF m
      <3>3. later[p][sys] = s \o t
        BY <1>2, <1>4, <3>1 DEF m
      <3> HIDE DEF s, t
      <3>4. HitCount(s \o t, T) = HitCount(s, T) + HitCount(t, T)
        BY <3>2, HitCountConcat
      <3> QED
        BY <3>2, <3>3, <3>4 DEF s
    <2>3. /\ HitCount(new[q][p], T) + HitCount(new[p][p], T)
                + HitCount(early_[p][sys], T) = n - 1
          /\ \A r, s \in PE : ~(s = p /\ r \in {q, s}) => HitCount(new[r][s], T) = 0
          /\ \A s \in PE : s # p => HitCount(early_[s][sys], T) = 0
      BY <2>1 DEF Hold
    <2>4. new \in Nets
      BY BehindIs DEF new
    <2>5. HitCount(new[q][p], T) + HitCount(new[p][p], T)
              + HitCount(later[p][sys], T) = n
      <3> DEFINE u == HitCount(new[q][p], T)
                 v == HitCount(new[p][p], T)
                 w == HitCount(early_[p][sys], T)
      <3>1. u \in Nat /\ v \in Nat /\ w \in Nat
        BY <2>4, TallyTypes
      <3>2. u + v + w = n - 1
        BY <2>3
      <3> HIDE DEF u, v, w
      <3>3. u + v + (w + 1) = n
        BY <3>1, <3>2
      <3> QED
        BY <2>2, <3>3 DEF u, v, w
    <2>6. \A s \in PE : s # p => HitCount(later[s][sys], T) = 0
      BY <1>2, <2>3
    <2>7. Hold(new, later, T, q, n)
      BY <2>1, <2>3, <2>5, <2>6 DEF Hold
    <2> QED
      BY <2>7 DEF new
  <1> QED
    BY <1>3, <1>4

LEMMA UpwardTokens ==
    ASSUME NEW p \in PE, NEW c, NEW new, NEW d, NEW q \in PE, NEW s \in PE
    PROVE  /\ d = c /\ q = p /\ p # 0 /\ Whole(p, c, new) /\ s = span_tree_parent(p) =>
                 HitCount(upward(p, c, new)[s], Token(d, q)) = 1
           /\ ~(d = c /\ q = p /\ p # 0 /\ Whole(p, c, new) /\ s = span_tree_parent(p)) =>
                 HitCount(upward(p, c, new)[s], Token(d, q)) = 0
  <1> DEFINE m == Redux(c, p)
             T == Token(d, q)
  <1>1. m \in T <=> d = c /\ q = p
    BY DEF Token, Redux
  <1> HIDE DEF m, T
  <1>2. HitCount(<<m>>, T) = IF m \in T THEN 1 ELSE 0
    BY HitCountSingle
  <1>3. HitCount(<<>>, T) = 0
    BY HitCountEmpty
  <1>4. CASE Whole(p, c, new) /\ p # 0
    <2>1. upward(p, c, new)[s] = IF s = span_tree_parent(p) THEN <<m>> ELSE <<>>
      BY <1>4, ParentIs DEF upward, OnlyTo, Nothing, m
    <2>2. CASE s = span_tree_parent(p)
      <3>1. HitCount(upward(p, c, new)[s], T) = HitCount(<<m>>, T)
        BY <2>1, <2>2
      <3> QED
        BY <1>1, <1>2, <1>4, <2>2, <3>1 DEF T
    <2>3. CASE s # span_tree_parent(p)
      BY <1>3, <2>1, <2>3 DEF T
    <2> QED
      BY <2>2, <2>3
  <1>5. CASE ~(Whole(p, c, new) /\ p # 0)
    <2>1. upward(p, c, new)[s] = <<>>
      BY <1>5 DEF upward, Nothing
    <2> QED
      BY <1>3, <1>5, <2>1 DEF T
  <1> QED
    BY <1>4, <1>5

(* What has waited for the detector goes to its PE, or stays *)
LetsGo(p, wt, later) ==
    \/ wt = Nothing /\ later[p][sys] = collection_buffer[p][sys]
    \/ wt = OnlyTo(p, early(p)) /\ later[p][sys] = <<>>

LEMMA DetectorSends ==
    ASSUME collection_buffer \in Early, NEW net \in Nets, NEW later \in Early,
           NEW p \in PE, NEW c, NEW new, NEW out \in Sendings, NEW wt, LetsGo(p, wt, later),
           \A s \in PE \ {p} : later[s][sys] = collection_buffer[s][sys],
           NEW d, NEW q \in PE, NEW n \in Nat,
           Hold(net, collection_buffer, Token(d, q), q, n),
           \A s \in PE : HitCount(out[s], Token(d, q)) =
                             HitCount(wt[s], Token(d, q))
                             + HitCount(upward(p, c, new)[s], Token(d, q))
    PROVE  /\ d = c /\ q = p /\ p # 0 /\ Whole(p, c, new) =>
                 Hold(Emit(net, p, out), later, Token(d, q), q, n + 1)
           /\ ~(d = c /\ q = p /\ p # 0 /\ Whole(p, c, new)) =>
                 Hold(Emit(net, p, out), later, Token(d, q), q, n)
  <1> DEFINE T == Token(d, q)
             sends == d = c /\ q = p /\ p # 0 /\ Whole(p, c, new)
             a == [s \in PE |-> HitCount(wt[s], T)]
             b == [s \in PE |-> HitCount(upward(p, c, new)[s], T)]
             k == IF sends THEN 1 ELSE 0
             P == span_tree_parent(p)
  <1>1. /\ sends => b[P] = 1
        /\ \A s \in PE : ~(sends /\ s = P) => b[s] = 0
        /\ \A s \in PE : b[s] \in Nat
    <2>1. \A s \in PE : /\ sends /\ s = P => b[s] = 1
                        /\ ~(sends /\ s = P) => b[s] = 0
      BY UpwardTokens
    <2>2. sends => P \in PE
      BY ParentIs
    <2> HIDE DEF b, P, sends
    <2> QED
      BY <2>1, <2>2
  <1>2. early(p) \in Seq(Anything) /\ collection_buffer[p][sys] = early(p)
    BY TallyTypes DEF early
  <1>3. /\ \A s \in PE : a[s] \in Nat
        /\ \A s \in PE \ {p} : a[s] = 0
        /\ a[p] + HitCount(later[p][sys], T) = HitCount(collection_buffer[p][sys], T)
    <2>1. HitCount(<<>>, T) = 0 /\ HitCount(early(p), T) \in Nat
      BY <1>2, HitCountEmpty, HitCountType
    <2>2. CASE wt = Nothing /\ later[p][sys] = collection_buffer[p][sys]
      <3>1. \A s \in PE : wt[s] = <<>>
        BY <2>2 DEF Nothing
      <3>2. \A s \in PE : a[s] = 0
        BY <2>1, <3>1
      <3> HIDE DEF a, T
      <3> QED
        BY <1>2, <2>1, <2>2, <3>2
    <2>3. CASE wt = OnlyTo(p, early(p)) /\ later[p][sys] = <<>>
      <3>1. \A s \in PE : wt[s] = IF s = p THEN early(p) ELSE <<>>
        BY <1>2, <2>3, OnlyToIs
      <3>2. /\ \A s \in PE \ {p} : a[s] = 0
            /\ a[p] = HitCount(early(p), T)
        BY <2>1, <3>1
      <3> HIDE DEF a, T
      <3>3. HitCount(later[p][sys], T) = 0
        BY <2>1, <2>3
      <3> QED
        BY <1>2, <2>1, <3>2, <3>3
    <2> QED
      BY <2>2, <2>3 DEF LetsGo
  <1>4. \A s \in PE : HitCount(out[s], T) = a[s] + b[s]
    OBVIOUS
  <1>5. Stable(T)
    BY TokenStable
  <1>6. k \in Nat /\ (sends => k = 1) /\ (~sends => k = 0)
    OBVIOUS
  <1>7. /\ \A s \in PE : ~(q = p /\ s = P) => b[s] = 0
        /\ q = p /\ p # 0 => b[P] = k
    <2>1. q = p /\ p # 0 => P \in PE
      BY ParentIs
    <2>2. sends => q = p
      OBVIOUS
    <2> HIDE DEF b, P, k, sends
    <2> QED
      BY <1>1, <1>6, <2>1, <2>2
  <1>8. Hold(net, collection_buffer, T, q, n)
    OBVIOUS
  <1> DEFINE A == Emit(net, p, out)
  <1>9. \A s \in PE : a[s] \in Nat /\ b[s] \in Nat
    BY <1>1, <1>3
  <1> HIDE DEF T, a, b, k, sends
  <1>10. /\ q # p => Hold(A, later, T, q, n)
         /\ q = p => Hold(A, later, T, q, n + k)
    BY <1>3, <1>4, <1>5, <1>6, <1>7, <1>8, <1>9, HoldMoves
  <1> HIDE DEF A
  <1>11. (sends => n + k = n + 1) /\ (~sends => n + k = n) /\ (sends => q = p)
    BY <1>6 DEF sends
  <1>12. (sends => Hold(A, later, T, q, n + 1)) /\ (~sends => Hold(A, later, T, q, n))
    BY <1>10, <1>11
  <1> QED
    BY <1>12 DEF sends, A, T

(* p's branch has said that its elements are all there *)
Contributed(p, c) ==
    /\ c \in Arrays /\ c \in collection_table[p]
    /\ Seeded(c) \/ (c \in sent /\ Status(c) \notin heard[p])

Gave(c) == {p \in PE : Contributed(p, c)}
Parts(c) == [p \in PE |-> combined[p][c]]

Due(q, U, comb) == IF Owed(q, U, comb) THEN 1 ELSE 0
Share(q, U, comb, new) == IF Owed(q, U, comb) /\ q \notin new THEN 1 ELSE 0

(* The root's callback tells that an array has all its elements when every *)
(* subtree has contributed                                                 *)
Told(c, U) ==
    /\ \A p \in PE : Ready(c) \in heard[p] => 0 \in U /\ c \in is_inserting[p]
    /\ \A p \in PE : c \in Arrays /\ 0 \notin U /\ c \in collection_table[p] =>
                         c \in is_inserting[p]

Sweep(c, U) ==
    /\ Tree(U, Gave(c), Parts(c))
    /\ \A q \in PE : Hold(queue, collection_buffer, Token(c, q), q, Due(q, U, Parts(c)))
    /\ Told(c, U)

Ends ==
    /\ combined \in [PE -> [Col -> SUBSET PE]]
    /\ \A c \in Col : \E U \in SUBSET PE : Sweep(c, U)

LEMMA DueNat ==
    ASSUME NEW q, NEW U, NEW comb, NEW new
    PROVE  /\ Due(q, U, comb) \in Nat /\ Share(q, U, comb, new) \in Nat
           /\ Owed(q, U, comb) => Due(q, U, comb) = 1
           /\ ~Owed(q, U, comb) => Due(q, U, comb) = 0
           /\ Owed(q, U, comb) /\ q \notin new => Share(q, U, comb, new) = 1
           /\ ~(Owed(q, U, comb) /\ q \notin new) => Share(q, U, comb, new) = 0
  BY DEF Due, Share

(* What an addition of new contributions to p's reducer is about *)
Adds(c, p, new, U, D, D2, comb2) ==
    /\ Tree(U, D, Parts(c))
    /\ Enters(p, new, U, D, D2)
    /\ \A q \in PE : comb2[q] = combined'[q][c]

Shares(c, new, U, net, early_) ==
    \A q \in PE : Hold(net, early_, Token(c, q), q, Share(q, U, Parts(c), new))

Forwards(c, p, new, net, early_, net2, later) ==
    \A q \in PE : \A n \in Nat : Hold(net, early_, Token(c, q), q, n) =>
        /\ q = p /\ p # 0 /\ Whole(p, c, new) => Hold(net2, later, Token(c, q), q, n + 1)
        /\ ~(q = p /\ p # 0 /\ Whole(p, c, new)) => Hold(net2, later, Token(c, q), q, n)

Swept(c, U2, D2, comb2, net2, later) ==
    /\ Tree(U2, D2, comb2)
    /\ \A q \in PE : Hold(net2, later, Token(c, q), q, Due(q, U2, comb2))

(* The reducer of p gets new contributions *)
LEMMA Contribution ==
    ASSUME combined \in [PE -> [Col -> SUBSET PE]], NEW c \in Col,
           NEW U \in SUBSET PE, NEW p \in PE \ U, NEW new \in SUBSET Contributors(p),
           Combine(p, c, new), NEW D, NEW D2, NEW comb2, Adds(c, p, new, U, D, D2, comb2),
           NEW net, NEW early_, NEW net2, NEW later, Shares(c, new, U, net, early_),
           Forwards(c, p, new, net, early_, net2, later)
    PROVE  \E U2 \in SUBSET PE :
               /\ Swept(c, U2, D2, comb2, net2, later)
               /\ 0 \in U2 <=> 0 \in U \/ (p = 0 /\ Whole(p, c, new))
  <1>1. Tree(U, D, Parts(c))
    BY DEF Adds
  <1>2. Enters(p, new, U, D, D2)
    BY DEF Adds
  <1>3. \A q \in PE : comb2[q] = combined'[q][c]
    BY DEF Adds
  <1>4. \A q \in PE : Hold(net, early_, Token(c, q), q, Share(q, U, Parts(c), new))
    BY DEF Shares
  <1>5. \A q \in PE : \A n \in Nat : Hold(net, early_, Token(c, q), q, n) =>
            /\ q = p /\ p # 0 /\ Whole(p, c, new) => Hold(net2, later, Token(c, q), q, n + 1)
            /\ ~(q = p /\ p # 0 /\ Whole(p, c, new)) => Hold(net2, later, Token(c, q), q, n)
    BY DEF Forwards
  <1>0. PICK comb : comb = Parts(c)
    OBVIOUS
  <1>6. /\ \A q \in PE : comb[q] = combined[q][c]
        /\ Whole(p, c, new) <=> comb[p] \cup new = Contributors(p)
    BY <1>0 DEF Parts, Whole
  <1>7. /\ \A q \in PE \ {p} : comb2[q] = comb[q]
        /\ Whole(p, c, new) => comb2[p] = {}
        /\ ~Whole(p, c, new) => comb2[p] = comb[p] \cup new
    <2>1. combined' = [combined EXCEPT ![p][c] =
                          IF Whole(p, c, new) THEN {} ELSE combined[p][c] \cup new]
      BY DEF Combine
    <2> QED
      BY <1>3, <1>6, <2>1
  <1>8. Tree(U, D, comb)
    BY <1>0, <1>1
  <1>9. \A q \in PE : Hold(net, early_, Token(c, q), q, Share(q, U, comb, new))
    BY <1>0, <1>4
  <1>10. ~Owed(p, U, comb)
    BY DEF Owed
  <1>11. CASE ~Whole(p, c, new)
    <2>1. Collects(p, new, comb, comb2)
      BY <1>6, <1>7, <1>11 DEF Collects
    <2>2. /\ Tree(U, D2, comb2)
          /\ \A q \in PE : Owed(q, U, comb2) <=> Owed(q, U, comb) /\ q \notin new
      <3>1. U \in SUBSET PE /\ p \in PE \ U /\ new \in SUBSET Contributors(p)
        OBVIOUS
      <3> QED
        BY ONLY <1>2, <1>8, <2>1, <3>1, TreePart
    <2>3. \A q \in PE : Owed(q, U, comb2) <=> Owed(q, U, comb) /\ q \notin new
      BY ONLY <2>2, Zenon
    <2>4. Tree(U, D2, comb2)
      BY ONLY <2>2, Zenon
    <2>5. ASSUME NEW q \in PE
          PROVE  Hold(net2, later, Token(c, q), q, Due(q, U, comb2))
      <3>0. Owed(q, U, comb2) <=> Owed(q, U, comb) /\ q \notin new
        BY ONLY <2>3, q \in PE, Zenon
      <3>1. Due(q, U, comb2) = Share(q, U, comb, new) /\ Share(q, U, comb, new) \in Nat
        BY ONLY <3>0 DEF Due, Share
      <3>2. Hold(net, early_, Token(c, q), q, Share(q, U, comb, new))
        BY <1>9
      <3> QED
        BY <1>5, <1>11, <3>1, <3>2
    <2>6. 0 \in U <=> 0 \in U \/ (p = 0 /\ Whole(p, c, new))
      BY <1>11
    <2>7. Swept(c, U, D2, comb2, net2, later)
      BY <2>4, <2>5, <2>6 DEF Swept
    <2> QED
      BY <2>5, <2>6, <2>7
  <1>12. CASE Whole(p, c, new)
    <2>0. PICK U2 : U2 = U \cup {p}
      OBVIOUS
    <2>1. /\ Tree(U2, D2, comb2)
          /\ \A q \in PE : Owed(q, U2, comb2) <=>
                               \/ Owed(q, U, comb) /\ q \notin new
                               \/ q = p /\ p # 0
      <3>1. Completes(p, new, comb, comb2)
        BY <1>6, <1>7, <1>12 DEF Completes
      <3> QED
        <4>1. /\ Tree(U \cup {p}, D2, comb2)
              /\ \A q \in PE : Owed(q, U \cup {p}, comb2) <=>
                                  \/ Owed(q, U, comb) /\ q \notin new
                                  \/ q = p /\ p # 0
          BY ONLY <1>2, <1>8, <3>1, TreeWhole, U \in SUBSET PE, p \in PE \ U,
                  new \in SUBSET Contributors(p)
        <4> QED
          BY ONLY <2>0, <4>1
    <2>2. U2 \in SUBSET PE /\ (0 \in U2 <=> 0 \in U \/ (p = 0 /\ Whole(p, c, new)))
      BY <1>12, <2>0
    <2>3. ASSUME NEW q \in PE
          PROVE  Hold(net2, later, Token(c, q), q, Due(q, U2, comb2))
      <3>1. /\ Share(q, U, comb, new) \in Nat
            /\ Hold(net, early_, Token(c, q), q, Share(q, U, comb, new))
        BY <1>9, DueNat
      <3>2. CASE q = p /\ p # 0
        <4>1. Share(q, U, comb, new) = 0 /\ Due(q, U2, comb2) = 1
          BY <1>10, <2>1, <3>2, DueNat
        <4>2. Hold(net2, later, Token(c, q), q, 0 + 1)
          BY <1>5, <1>12, <3>1, <3>2, <4>1
        <4>3. 0 + 1 = 1
          OBVIOUS
        <4> QED
          BY <4>1, <4>2, <4>3
      <3>3. CASE ~(q = p /\ p # 0)
        <4>1. Due(q, U2, comb2) = Share(q, U, comb, new)
          BY <2>1, <3>3 DEF Due, Share
        <4>2. Hold(net2, later, Token(c, q), q, Share(q, U, comb, new))
          BY <1>5, <1>12, <3>1, <3>3
        <4> QED
          BY <4>1, <4>2
      <3> QED
        BY <3>2, <3>3
    <2>4. Swept(c, U2, D2, comb2, net2, later)
      BY <2>1, <2>2, <2>3 DEF Swept
    <2> QED
      BY <2>2, <2>3, <2>4
  <1> QED
    BY <1>11, <1>12

(* Then the root may have told everybody *)
LEMMA Telling ==
    ASSUME NEW c, NEW U, NEW U2 \in SUBSET PE, NEW comb2, NEW p \in PE \ U,
           NEW whole \in BOOLEAN, Told(c, U), Tree(U2, Gave(c)', comb2),
           0 \in U2 <=> 0 \in U \/ (p = 0 /\ whole),
           \A r \in PE : Ready(c) \in heard'[r] => Ready(c) \in heard[r] \/ (p = 0 /\ whole),
           \A r \in PE : c \in is_inserting[r] => c \in is_inserting'[r],
           \A r \in PE : c \in Arrays /\ c \in collection_table'[r] =>
               c \in collection_table[r] \/ c \in is_inserting'[r]
    PROVE  Told(c, U2)'
  <1>1. ASSUME NEW r \in PE, Ready(c) \in heard'[r]
        PROVE  0 \in U2 /\ c \in is_inserting'[r]
    <2>1. CASE Ready(c) \in heard[r]
      BY <2>1 DEF Told
    <2>2. CASE p = 0 /\ whole
      <3>1. 0 \in U2 /\ 0 \notin U
        BY <2>2
      <3>2. U2 = PE
        BY <3>1, TreeFull
      <3>3. r \in Gave(c)'
        BY <3>2 DEF Tree
      <3>4. c \in Arrays /\ c \in collection_table'[r]
        BY <3>3 DEF Gave, Contributed
      <3> QED
        BY <3>1, <3>4 DEF Told
    <2> QED
      BY <1>1, <2>1, <2>2
  <1>2. ASSUME NEW r \in PE, c \in Arrays, 0 \notin U2, c \in collection_table'[r]
        PROVE  c \in is_inserting'[r]
    BY <1>2 DEF Told
  <1> QED
    BY <1>1, <1>2 DEF Told

-----------------------------------------------------------------------------
(* The steps that have nothing to do with contributions *)

LEMMA SweepAfter ==
    ASSUME NEW c, NEW U, NEW D2, D2 = Gave(c)', NEW comb2, comb2 = Parts(c)',
           NEW net, net = queue', NEW early_, early_ = collection_buffer',
           Tree(U, D2, comb2),
           \A q \in PE : Hold(net, early_, Token(c, q), q, Due(q, U, comb2)),
           Told(c, U)'
    PROVE  Sweep(c, U)'
  <1>1. Tree(U, Gave(c), Parts(c))'
    BY DEF Tree
  <1>2. \A q \in PE : Hold(queue, collection_buffer, Token(c, q), q, Due(q, U, Parts(c)))'
    BY DEF Hold, Due, Owed
  <1> QED
    BY <1>1, <1>2 DEF Sweep

LEMMA EndsQuiet ==
    ASSUME Ends, combined' = combined,
           \A p \in PE, c \in Col : Contributed(p, c)' <=> Contributed(p, c),
           NEW net, net = queue', NEW early_, early_ = collection_buffer',
           \A c \in Col, q \in PE : \A n \in Nat :
               Hold(queue, collection_buffer, Token(c, q), q, n) =>
                   Hold(net, early_, Token(c, q), q, n),
           \A c \in Col : \A U \in SUBSET PE : Told(c, U) => Told(c, U)'
    PROVE  Ends'
  <1>1. combined' \in [PE -> [Col -> SUBSET PE]]
    BY DEF Ends
  <1>2. ASSUME NEW c \in Col
        PROVE  \E U \in SUBSET PE : Sweep(c, U)'
    <2>1. PICK U \in SUBSET PE : Sweep(c, U)
      BY DEF Ends
    <2>2. /\ Tree(U, Gave(c), Parts(c)) /\ Told(c, U)
          /\ \A q \in PE : Hold(queue, collection_buffer, Token(c, q), q, Due(q, U, Parts(c)))
      BY <2>1 DEF Sweep
    <2>3. Gave(c)' = Gave(c)
      BY DEF Gave
    <2>4. Parts(c)' = Parts(c)
      BY DEF Parts
    <2>5. \A q \in PE : Hold(net, early_, Token(c, q), q, Due(q, U, Parts(c)))
      BY <2>2, DueNat
    <2>6. Told(c, U)'
      BY <2>2
    <2>7. Sweep(c, U)'
      BY <2>2, <2>3, <2>4, <2>5, <2>6, SweepAfter
    <2> QED
      BY <2>7
  <1> QED
    BY <1>1, <1>2 DEF Ends

LEMMA ToldSame ==
    ASSUME NEW c, NEW U, Told(c, U),
           \A p \in PE : Ready(c) \in heard'[p] => Ready(c) \in heard[p],
           \A p \in PE : c \in is_inserting[p] => c \in is_inserting'[p],
           \A p \in PE : c \in Arrays /\ c \in collection_table'[p] =>
               c \in collection_table[p] \/ c \in is_inserting'[p]
    PROVE  Told(c, U)'
  BY DEF Told

(* Nothing but the mail changes, or what is heard of other things *)
LEMMA EndsCarried ==
    ASSUME Ends, UNCHANGED <<combined, collection_table, is_inserting>>,
           \A c \in Arrays : c \in sent' <=> c \in sent,
           \A p \in PE : \A c : Status(c) \in heard'[p] <=> Status(c) \in heard[p],
           \A p \in PE : \A c : Ready(c) \in heard'[p] => Ready(c) \in heard[p],
           NEW net, net = queue', NEW early_, early_ = collection_buffer',
           \A c \in Col, q \in PE : \A n \in Nat :
               Hold(queue, collection_buffer, Token(c, q), q, n) =>
                   Hold(net, early_, Token(c, q), q, n)
    PROVE  Ends'
  <1>1. \A p \in PE, c \in Col : Contributed(p, c)' <=> Contributed(p, c)
    BY DEF Contributed
  <1>2. \A c \in Col : \A U \in SUBSET PE : Told(c, U) => Told(c, U)'
    BY ToldSame
  <1> QED
    BY <1>1, <1>2, EndsQuiet

(* One message that is no contribution is sent *)
LEMMA HoldSendings ==
    ASSUME NEW net \in Nets, NEW early_, NEW p \in PE, NEW out \in Sendings, NEW T, Stable(T),
           \A r \in PE : NoHit(out[r], T), NEW q \in PE, NEW n, Hold(net, early_, T, q, n)
    PROVE  Hold(Emit(net, p, out), early_, T, q, n)
  <1> DEFINE new == Emit(net, p, out)
  <1>1. \A r, s \in PE : HitCount(new[r][s], T) = HitCount(net[r][s], T)
    BY EmitSame DEF Same
  <1> HIDE DEF new
  <1>2. Hold(new, early_, T, q, n)
    BY <1>1, HoldSame
  <1> QED
    BY <1>2 DEF new

LEMMA NoToken ==
    ASSUME NEW m, m.type # "redux", NEW c, NEW q
    PROVE  m \notin Token(c, q)
  BY DEF Token, Redux

LEMMA HoldAppended ==
    ASSUME NEW early_ \in Early, NEW m \in Anything, NEW later,
           \A s \in PE : \/ later[s][sys] = early_[s][sys]
                         \/ later[s][sys] = Append(early_[s][sys], m),
           NEW T, m \notin T, NEW net, NEW q \in PE, NEW n, Hold(net, early_, T, q, n)
    PROVE  Hold(net, later, T, q, n)
  <1>1. ASSUME NEW s \in PE
        PROVE  HitCount(later[s][sys], T) = HitCount(early_[s][sys], T)
    <2>1. early_[s][sys] \in Seq(Anything)
      BY SysCol DEF Early
    <2>2. Same(T, early_[s][sys], Append(early_[s][sys], m))
      BY <2>1, SameAppend
    <2> QED
      BY <2>2 DEF Same
  <1> QED
    BY <1>1, HoldSame

LEMMA BufferGrows ==
    ASSUME NEW early_ \in Early, NEW p \in PE, NEW d \in Col, NEW m,
           NEW later, later = [early_ EXCEPT ![p][d] = Append(@, m)], NEW s \in PE
    PROVE  \/ later[s][sys] = early_[s][sys]
           \/ later[s][sys] = Append(early_[s][sys], m)
  BY SysCol DEF Early

LEMMA OutgoingNoToken ==
    ASSUME NEW p \in PE, NEW c \in User, NEW ms \in Seq(InCol(c)), NEW s \in PE,
           NEW d, NEW q
    PROVE  NoHit(outgoing(p, c, ms)[s], Token(d, q))
  <1> DEFINE T == Token(d, q)
  <1>1. ASSUME NEW i \in DOMAIN ms
        PROVE  NoHit(Parcel(p, c, ms, i, s), T)
    <2>1. ms[i] \in InCol(c)
      BY InColSeq
    <2>2. CASE CopyRuns(p, c, ms, i) /\ s \in span_tree_children(p)
      <3>1. ms[i] \in Proper /\ ms[i].type = "copy"
        BY <2>1, <2>2, InColFields DEF CopyRuns
      <3>2. pack_message(ms[i]).type # "redux"
        BY <3>1, Packed
      <3>3. pack_message(ms[i]) \notin T
        BY <3>2, NoToken
      <3>4. Parcel(p, c, ms, i, s) = <<pack_message(ms[i])>>
        BY <2>2 DEF Parcel
      <3> HIDE DEF T
      <3> QED
        BY <3>3, <3>4, SingleHits
    <2>3. CASE ~(CopyRuns(p, c, ms, i) /\ s \in span_tree_children(p))
               /\ Goes(p, c, ms, i, s)
      <3>1. ms[i].type # "redux"
        BY <2>3 DEF Goes
      <3>2. ms[i] \notin T
        BY <3>1, NoToken
      <3>3. Parcel(p, c, ms, i, s) = <<ms[i]>>
        BY <2>3 DEF Parcel
      <3> HIDE DEF T
      <3> QED
        BY <3>2, <3>3, SingleHits
    <2>4. CASE ~(CopyRuns(p, c, ms, i) /\ s \in span_tree_children(p))
               /\ ~Goes(p, c, ms, i, s)
      BY <2>4, EmptyHits DEF Parcel
    <2> QED
      BY <2>2, <2>3, <2>4
  <1> HIDE DEF T
  <1>2. NoHit(outgoing(p, c, ms)[s], T)
    BY <1>1, NoneOutgoing
  <1> QED
    BY <1>2 DEF T

LEMMA EndsSend ==
    ASSUME Shape, Ends, NEW p \in PE, NEW l \in Letter, Send(p, l)
    PROVE  Ends'
  <1> DEFINE d == To[l]
             m == MessageOf(l)
  <1>1. /\ UNCHANGED <<combined, collection_table, is_inserting, heard>>
        /\ \A c \in Arrays : c \in sent' <=> c \in sent
    BY StartupAssumption DEF Send, branches
  <1>2. queue \in Nets /\ collection_buffer \in Early
    BY DEF Shape
  <1>3. d \in Col /\ m \in Anything /\ m.type # "redux"
    BY Letters, AboutIs DEF Col, Anything, About
  <1>4. \A c, q : m \notin Token(c, q)
    BY <1>3, NoToken
  <1>5. CASE d \notin collection_table[p]
    <2>1. /\ collection_buffer' = [collection_buffer EXCEPT ![p][d] = Append(@, m)]
          /\ queue' = queue
      BY <1>5 DEF Send
    <2> DEFINE later == collection_buffer'
    <2>2. ASSUME NEW c \in Col, NEW q \in PE, NEW n \in Nat,
                 Hold(queue, collection_buffer, Token(c, q), q, n)
          PROVE  Hold(queue, later, Token(c, q), q, n)
      <3>1. later = [collection_buffer EXCEPT ![p][d] = Append(@, m)]
        BY <2>1
      <3> DEFINE T == Token(c, q)
      <3>2. m \notin T /\ m \in Anything /\ d \in Col
        BY <1>3, <1>4
      <3>3. Hold(queue, collection_buffer, T, q, n)
        BY <2>2
      <3> HIDE DEF later, d, m, T
      <3>4. Hold(queue, later, T, q, n)
        <4>1. \A s \in PE : \/ later[s][sys] = collection_buffer[s][sys]
                             \/ later[s][sys] = Append(collection_buffer[s][sys], m)
          BY <1>2, <3>1, <3>2, BufferGrows
        <4> QED
          BY ONLY <1>2, <4>1, <3>2, <3>3, HoldAppended, q \in PE
      <3> QED
        BY <3>4 DEF T
    <2> HIDE DEF d, m
    <2> QED
      BY <1>1, <2>1, <2>2, EndsCarried
  <1>6. CASE d \in collection_table[p]
    <2> DEFINE z == IF Idx[l] = bcast_root THEN p ELSE home_pe(Idx[l])
               out == OnlyTo(z, <<m>>)
    <2>1. queue' = Emit(queue, p, out) /\ collection_buffer' = collection_buffer
      BY <1>6 DEF Send
    <2> HIDE DEF m, z
    <2>2. out \in Sendings /\ \A c, q : \A r \in PE : NoHit(out[r], Token(c, q))
      BY <1>3, <1>4, OnlyToNoHit
    <2> HIDE DEF out
    <2> DEFINE net == Emit(queue, p, out)
    <2>3. ASSUME NEW c \in Col, NEW q \in PE, NEW n \in Nat,
                 Hold(queue, collection_buffer, Token(c, q), q, n)
          PROVE  Hold(net, collection_buffer, Token(c, q), q, n)
      BY <1>2, <2>2, <2>3, TokenStable, HoldSendings
    <2> HIDE DEF net, d
    <2>4. queue' = net
      BY <2>1 DEF net
    <2> QED
      BY <1>1, <2>1, <2>3, <2>4, EndsCarried
  <1> QED
    BY <1>5, <1>6

LEMMA EndsExit ==
    ASSUME Shape, Ends, NEW p \in PE, CallExit(p)
    PROVE  Ends'
  <1>1. /\ UNCHANGED <<combined, collection_table, is_inserting, sent, collection_buffer>>
    BY DEF CallExit, branches
  <1>2. /\ \A r \in PE : \A c : Status(c) \in heard'[r] <=> Status(c) \in heard[r]
        /\ \A r \in PE : \A c : Ready(c) \in heard'[r] => Ready(c) \in heard[r]
    <2>1. CASE UNCHANGED heard
      BY <2>1
    <2>2. CASE heard' = Tell(PE, Exit(TRUE))
      <3>1. \A c : Status(c) # Exit(TRUE) /\ Ready(c) # Exit(TRUE)
        BY Kinds
      <3>2. \A r \in PE : \A x : x \in heard'[r] <=> x \in heard[r] \/ x = Exit(TRUE)
        BY <2>2, TellIs
      <3> QED
        BY <3>1, <3>2
    <2> QED
      BY <2>1, <2>2 DEF CallExit
  <1>3. CASE UNCHANGED queue
    BY <1>1, <1>2, <1>3, EndsCarried
  <1>4. ASSUME NEW z \in PE, queue' = Emit(queue, p, OnlyTo(z, <<Exit(FALSE)>>))
        PROVE  Ends'
    <2> DEFINE out == OnlyTo(z, <<Exit(FALSE)>>)
    <2>1. Exit(FALSE) \in Anything /\ Exit(FALSE).type # "redux"
      BY DEF Exit, Others, Anything
    <2>2. out \in Sendings /\ \A c, q : \A r \in PE : NoHit(out[r], Token(c, q))
      BY <2>1, NoToken, OnlyToNoHit
    <2>3. queue' = Emit(queue, p, out) /\ queue \in Nets
      BY <1>4 DEF Shape
    <2> HIDE DEF out
    <2> DEFINE net == Emit(queue, p, out)
    <2>4. ASSUME NEW c \in Col, NEW q \in PE, NEW n \in Nat,
                 Hold(queue, collection_buffer, Token(c, q), q, n)
          PROVE  Hold(net, collection_buffer, Token(c, q), q, n)
      BY <2>2, <2>3, <2>4, TokenStable, HoldSendings
    <2> HIDE DEF net
    <2>5. queue' = net
      BY <2>3 DEF net
    <2> QED
      BY <1>1, <1>2, <2>4, <2>5, EndsCarried
  <1> QED
    BY <1>3, <1>4 DEF CallExit

(* The PE takes a message that is no contribution *)
LEMMA HoldTook ==
    ASSUME Shape, NEW q \in PE, NEW p \in PE, queue[q][p] # <<>>,
           Head(queue[q][p]).type # "redux", NEW c, NEW r \in PE, NEW n,
           Hold(queue, collection_buffer, Token(c, r), r, n)
    PROVE  Hold(Behind(queue, q, p), collection_buffer, Token(c, r), r, n)
  <1>1. queue \in Nets /\ collection_buffer \in Early
    BY DEF Shape
  <1>2. Head(queue[q][p]) \notin Token(c, r)
    BY NoToken
  <1> QED
    BY <1>1, <1>2, HoldPast

LEMMA EndsReceiveExit ==
    ASSUME Shape, Ends, NEW p \in PE, NEW b, exit(p, b),
           \/ UNCHANGED queue
           \/ \E q \in PE : /\ queue[q][p] # <<>> /\ Head(queue[q][p]).type = "exit"
                            /\ queue' = Taken(q, p)
    PROVE  Ends'
  <1>1. /\ UNCHANGED <<combined, collection_table, is_inserting, sent, collection_buffer>>
    BY DEF exit, branches
  <1>2. /\ \A r \in PE : \A c : Status(c) \in heard'[r] <=> Status(c) \in heard[r]
        /\ \A r \in PE : \A c : Ready(c) \in heard'[r] => Ready(c) \in heard[r]
    BY Kinds, ExitHeard
  <1>3. CASE UNCHANGED queue
    BY <1>1, <1>2, <1>3, EndsCarried
  <1>4. ASSUME NEW q \in PE, queue[q][p] # <<>>, Head(queue[q][p]).type = "exit",
               queue' = Taken(q, p)
        PROVE  Ends'
    <2> DEFINE net == Behind(queue, q, p)
    <2>1. queue' = net
      BY <1>4, TakenIs
    <2>2. ASSUME NEW c \in Col, NEW r \in PE, NEW n \in Nat,
                 Hold(queue, collection_buffer, Token(c, r), r, n)
          PROVE  Hold(net, collection_buffer, Token(c, r), r, n)
      BY <1>4, <2>2, HoldTook
    <2> HIDE DEF net
    <2> QED
      BY <1>1, <1>2, <2>1, <2>2, EndsCarried
  <1> QED
    BY <1>3, <1>4

LEMMA EndsReceiveLetter ==
    ASSUME Shape, Ends, NEW p \in PE, NEW q \in PE, ReceiveLetter(q, p)
    PROVE  Ends'
  <1> DEFINE m == Head(queue[q][p])
             c == m.col
             hs == <<m>>
             net == Behind(queue, q, p)
             out == outgoing(p, c, numbered(p, c, hs))
             new == Emit(net, p, out)
  <1>1. /\ queue[q][p] # <<>> /\ m.type \in {"entry", "post", "copy"}
        /\ queue' = Emit(Taken(q, p), p, out)
        /\ UNCHANGED <<combined, collection_table, is_inserting, sent, heard,
                       collection_buffer>>
    BY DEF ReceiveLetter, NextOf, branches
  <1>2. /\ Taken(q, p) = net /\ net \in Nets /\ m \in Anything
        /\ last_bcast \in [PE -> [Col -> Nat]]
    BY <1>1, TakenIs DEF Shape
  <1>3. c \in User /\ m \in InCol(c)
    BY <1>1, <1>2, AboutIs, ProperFields DEF InCol
  <1>4. hs \in Seq(InCol(c))
    BY <1>3
  <1>5. m.type # "redux"
    BY <1>1
  <1> HIDE DEF hs, c, net
  <1>6. numbered(p, c, hs) \in Seq(InCol(c))
    BY <1>2, <1>3, <1>4, NumberedIs DEF Col
  <1>7. out \in Sendings /\ \A d, r : \A s \in PE : NoHit(out[s], Token(d, r))
    BY <1>3, <1>6, OutgoingIs, OutgoingNoToken
  <1> HIDE DEF out
  <1>8. ASSUME NEW d \in Col, NEW r \in PE, NEW n \in Nat,
               Hold(queue, collection_buffer, Token(d, r), r, n)
        PROVE  Hold(new, collection_buffer, Token(d, r), r, n)
    <2>1. Hold(net, collection_buffer, Token(d, r), r, n)
      BY <1>1, <1>5, <1>8, HoldTook DEF net
    <2> QED
      BY <1>2, <1>7, <2>1, TokenStable, HoldSendings
  <1> HIDE DEF new
  <1>9. queue' = new
    BY <1>1, <1>2 DEF new
  <1> HIDE DEF m
  <1> QED
    BY <1>1, <1>8, <1>9, EndsCarried

LEMMA EndsKeepEarly ==
    ASSUME Shape, Ends, NEW p \in PE, NEW q \in PE, KeepEarly(q, p)
    PROVE  Ends'
  <1> DEFINE m == Head(queue[q][p])
             net == Behind(queue, q, p)
             later == collection_buffer'
  <1>1. /\ queue[q][p] # <<>> /\ m.type \in {"entry", "post", "copy", "redux"}
        /\ queue' = Taken(q, p)
        /\ later = [collection_buffer EXCEPT ![p][m.col] = Append(@, m)]
        /\ UNCHANGED <<combined, collection_table, is_inserting, sent, heard>>
    BY DEF KeepEarly, NextOf, branches
  <1>7. later = [collection_buffer EXCEPT ![p][m.col] = Append(@, m)]
    BY <1>1
  <1>2. queue' = net /\ m \in Anything /\ queue \in Nets /\ collection_buffer \in Early
    BY <1>1, TakenIs DEF Shape
  <1>3. m.col \in Col
    BY <1>1, <1>2, ProperFields, OtherFields DEF Anything, Col
  <1>4. \A c, r : m \in Token(c, r) => m.col = sys
    BY DEF Token, Redux
  <1> HIDE DEF net, later
  <1>5. ASSUME NEW c \in Col, NEW r \in PE, NEW n \in Nat,
               Hold(queue, collection_buffer, Token(c, r), r, n)
        PROVE  Hold(net, later, Token(c, r), r, n)
    <2> DEFINE T == Token(c, r)
               d == m.col
    <2>1. Hold(queue, collection_buffer, T, r, n)
      BY <1>5
    <2>2. d \in Col /\ (m \in T => d = sys)
      BY <1>3, <1>4
    <2>3. later = [collection_buffer EXCEPT ![p][d] = Append(@, m)]
      BY ONLY <1>7
    <2> HIDE DEF T, d
    <2>4. Hold(net, later, T, r, n)
      BY <1>1, <1>2, <2>1, <2>2, <2>3, HoldKept DEF net
    <2> QED
      BY <2>4 DEF T
  <1>6. net = queue' /\ later = collection_buffer'
    BY <1>2 DEF later
  <1> HIDE DEF m
  <1> QED
    BY <1>1, <1>5, <1>6, EndsCarried

LEMMA EndsConstruct ==
    ASSUME Ends, NEW p \in PE, Construct(p)
    PROVE  Ends'
  <1> DEFINE m == Creation(Id(p, local_collection_count[p]))
  <1>1. /\ UNCHANGED <<combined, collection_table, is_inserting, sent, queue,
                       collection_buffer>>
        /\ heard' = Tell(PE, m)
    BY DEF Construct, branches
  <1>2. \A c : Status(c) # m /\ Ready(c) # m
    BY Kinds
  <1> HIDE DEF m
  <1>3. \A r \in PE : \A x : x \in heard'[r] <=> x \in heard[r] \/ x = m
    BY <1>1, TellIs
  <1>4. /\ \A r \in PE : \A c : Status(c) \in heard'[r] <=> Status(c) \in heard[r]
        /\ \A r \in PE : \A c : Ready(c) \in heard'[r] => Ready(c) \in heard[r]
    BY <1>2, <1>3
  <1> QED
    BY <1>1, <1>4, EndsCarried

(* An array that is told of its end has not contributed yet *)
LEMMA EndsDone ==
    ASSUME Ends, NEW d \in Arrays, DoneInserting(d)
    PROVE  Ends'
  <1>1. /\ UNCHANGED <<combined, collection_table, is_inserting, queue,
                       collection_buffer>>
        /\ heard' = Tell(PE, Status(d)) /\ sent' = sent \cup {d}
        /\ ~Seeded(d) /\ d \notin sent
    BY DEF DoneInserting, branches
  <1>2. /\ \A c : Status(c) = Status(d) => c = d
        /\ \A c : Ready(c) # Status(d)
    BY Kinds
  <1>3. \A r \in PE : \A x : x \in heard'[r] <=> x \in heard[r] \/ x = Status(d)
    BY <1>1, TellIs
  <1>4. ASSUME NEW r \in PE, NEW c \in Col
        PROVE  Contributed(r, c)' <=> Contributed(r, c)
    <2>1. CASE c = d
      <3>1. Status(c) \in heard'[r]
        BY <1>3, <2>1
      <3> QED
        BY <1>1, <2>1, <3>1 DEF Contributed
    <2>2. CASE c # d
      <3>1. Status(c) \in heard'[r] <=> Status(c) \in heard[r]
        BY <1>2, <1>3, <2>2
      <3> QED
        BY <1>1, <2>2, <3>1 DEF Contributed
    <2> QED
      BY <2>1, <2>2
  <1>5. \A r \in PE : \A c : Ready(c) \in heard'[r] => Ready(c) \in heard[r]
    BY <1>2, <1>3
  <1>6. \A c \in Col : \A U \in SUBSET PE : Told(c, U) => Told(c, U)'
    BY <1>1, <1>5, ToldSame
  <1> QED
    BY <1>1, <1>4, <1>6, EndsQuiet

(* The end of the insertion phase is taken note of *)
LEMMA EndsReady ==
    ASSUME Ends, Births, NEW p \in PE, NEW d \in Arrays, ReceiveReady(p, d)
    PROVE  Ends' /\ fault' = fault
  <1>1. /\ UNCHANGED <<combined, collection_table, sent, queue, collection_buffer>>
        /\ Ready(d) \in heard[p]
        /\ Hear(p, Ready(d), {})
        /\ is_inserting' = [is_inserting EXCEPT ![p] = @ \ {d}]
        /\ fault' = IF d \in is_inserting[p] THEN fault ELSE fault \cup {p}
    BY DEF ReceiveReady
  <1>2. \A r \in PE : \A x : x \in heard'[r] <=>
                                 x \in heard[r] /\ ~(r = p /\ x = Ready(d))
    BY <1>1, HearIs
  <1>3. \A c : Status(c) # Ready(d)
    BY Kinds
  <1>4. \A r \in PE, c \in Col : Contributed(r, c)' <=> Contributed(r, c)
    BY <1>1, <1>2, <1>3 DEF Contributed
  <1>5. \A r \in PE : \A c : c \in is_inserting'[r] <=>
                             c \in is_inserting[r] /\ ~(r = p /\ c = d)
    BY <1>1 DEF Births
  <1>6. ASSUME NEW c \in Col, NEW U \in SUBSET PE, Told(c, U)
        PROVE  Told(c, U)'
    <2>1. ASSUME NEW r \in PE, Ready(c) \in heard'[r]
          PROVE  0 \in U /\ c \in is_inserting'[r]
      <3>1. Ready(c) \in heard[r] /\ ~(r = p /\ c = d)
        BY <1>2, <2>1
      <3> QED
        BY <1>5, <1>6, <3>1 DEF Told
    <2>2. ASSUME NEW r \in PE, c \in Arrays, 0 \notin U, c \in collection_table'[r]
          PROVE  c \in is_inserting'[r]
      <3>1. c # d
        BY <1>1, <1>6, <2>2 DEF Told
      <3>2. c \in is_inserting[r]
        BY <1>1, <1>6, <2>2 DEF Told
      <3> QED
        BY <1>5, <3>1, <3>2
    <2> QED
      BY <2>1, <2>2 DEF Told
  <1>7. Ends'
    BY <1>1, <1>4, <1>6, EndsQuiet
  <1>8. d \in is_inserting[p]
    <2>1. d \in Col
      BY DEF Arrays, Col
    <2>2. PICK U \in SUBSET PE : Sweep(d, U)
      BY <2>1 DEF Ends
    <2> QED
      BY <1>1, <2>2 DEF Sweep, Told
  <1> QED
    BY <1>1, <1>7, <1>8

(* A PE without a branch is told of the end of the array *)
LEMMA EndsStatusEarly ==
    ASSUME Shape, Ends, NEW p \in PE, NEW d \in Arrays, ReceiveStatus(p, d),
           d \notin collection_table[p]
    PROVE  Ends'
  <1> DEFINE later == collection_buffer'
             m == Status(d)
  <1>1. /\ UNCHANGED <<combined, collection_table, is_inserting, sent, queue>>
        /\ Hear(p, m, {})
        /\ later = [collection_buffer EXCEPT ![p][d] = Append(@, m)]
    BY DEF ReceiveStatus, branches
  <1>2. /\ \A c : Status(c) = m => c = d
        /\ \A c : Ready(c) # m
        /\ m \in Anything /\ m.type # "redux" /\ d \in Col
    BY Kinds DEF Status, Others, Anything, Arrays, Col
  <1>3. \A c, r : m \notin Token(c, r)
    BY <1>2, NoToken
  <1> HIDE DEF later, m
  <1>4. \A r \in PE : \A x : x \in heard'[r] <=> x \in heard[r] /\ ~(r = p /\ x = m)
    BY <1>1, HearIs
  <1>5. \A r \in PE, c \in Col : Contributed(r, c)' <=> Contributed(r, c)
    BY <1>1, <1>2, <1>4 DEF Contributed
  <1>6. \A c \in Col : \A U \in SUBSET PE : Told(c, U) => Told(c, U)'
    BY <1>1, <1>4, ToldSame
  <1>7. collection_buffer \in Early
    BY DEF Shape
  <1>8. \A s \in PE : \/ later[s][sys] = collection_buffer[s][sys]
                      \/ later[s][sys] = Append(collection_buffer[s][sys], m)
    BY <1>1, <1>2, <1>7, BufferGrows
  <1>9. ASSUME NEW c \in Col, NEW r \in PE, NEW n \in Nat,
               Hold(queue, collection_buffer, Token(c, r), r, n)
        PROVE  Hold(queue, later, Token(c, r), r, n)
    BY <1>2, <1>3, <1>7, <1>8, <1>9, HoldAppended
  <1>10. later = collection_buffer'
    BY DEF later
  <1> QED
    BY <1>1, <1>5, <1>6, <1>9, <1>10, EndsQuiet

-----------------------------------------------------------------------------
(* The steps that contribute *)

(* What a contribution changes *)
Gives(p, c, new) ==
    /\ Combine(p, c, new)
    /\ Contributed(p, c)' <=> Contributed(p, c) \/ p \in new
    /\ \A r \in PE \ {p} : Contributed(r, c)' <=> Contributed(r, c)
    /\ \A d \in Col \ {c} : \A r \in PE : Contributed(r, d)' <=> Contributed(r, d)
    /\ \A r \in PE : \A d : Ready(d) \in heard'[r] =>
           Ready(d) \in heard[r] \/ (d = c /\ p = 0 /\ Whole(p, c, new))
    /\ \A r \in PE : \A d : d \in is_inserting[r] => d \in is_inserting'[r]
    /\ \A r \in PE, d \in Arrays : d \in collection_table'[r] =>
           d \in collection_table[r] \/ d \in is_inserting'[r]

(* What is sent: what has waited, and the message to the parent *)
Carries(p, c, new, wt, out) ==
    \A d \in Col, q \in PE, s \in PE :
        HitCount(out[s], Token(d, q)) =
            HitCount(wt[s], Token(d, q)) + HitCount(upward(p, c, new)[s], Token(d, q))

Flushes(p, wt, later) ==
    /\ LetsGo(p, wt, later)
    /\ \A s \in PE \ {p} : later[s][sys] = collection_buffer[s][sys]

KeepsOthers(c, net) ==
    \A d \in Col \ {c}, q \in PE : \A n \in Nat :
        Hold(queue, collection_buffer, Token(d, q), q, n) =>
            Hold(net, collection_buffer, Token(d, q), q, n)

LEMMA EndsContributed ==
    ASSUME Ends, collection_buffer \in Early, NEW p \in PE, NEW c \in Col,
           NEW U \in SUBSET PE, Tree(U, Gave(c), Parts(c)), Told(c, U), p \notin U,
           NEW new \in SUBSET Contributors(p), new \cap span_tree_children(p) \subseteq U,
           Gives(p, c, new), NEW net \in Nets, NEW out \in Sendings,
           queue' = Emit(net, p, out), NEW later \in Early, later = collection_buffer',
           NEW wt, Flushes(p, wt, later), Carries(p, c, new, wt, out),
           Shares(c, new, U, net, collection_buffer), KeepsOthers(c, net)
    PROVE  Ends'
  <1>31. Combine(p, c, new)
    BY DEF Gives
  <1>32. Contributed(p, c)' <=> Contributed(p, c) \/ p \in new
    BY DEF Gives
  <1>33. \A r \in PE \ {p} : Contributed(r, c)' <=> Contributed(r, c)
    BY DEF Gives
  <1>34. \A d \in Col \ {c} : \A r \in PE : Contributed(r, d)' <=> Contributed(r, d)
    BY DEF Gives
  <1>35. \A r \in PE : \A d : Ready(d) \in heard'[r] =>
             Ready(d) \in heard[r] \/ (d = c /\ p = 0 /\ Whole(p, c, new))
    BY DEF Gives
  <1>36. \A r \in PE : \A d : d \in is_inserting[r] => d \in is_inserting'[r]
    BY DEF Gives
  <1>37. \A r \in PE, d \in Arrays : d \in collection_table'[r] =>
             d \in collection_table[r] \/ d \in is_inserting'[r]
    BY DEF Gives
  <1>38. \A d \in Col, q \in PE, s \in PE :
            HitCount(out[s], Token(d, q)) =
                HitCount(wt[s], Token(d, q)) + HitCount(upward(p, c, new)[s], Token(d, q))
    BY DEF Carries
  <1>39. LetsGo(p, wt, later)
    BY DEF Flushes
  <1>40. \A s \in PE \ {p} : later[s][sys] = collection_buffer[s][sys]
    BY DEF Flushes
  <1>41. \A d \in Col \ {c}, q \in PE : \A n \in Nat :
            Hold(queue, collection_buffer, Token(d, q), q, n) =>
                Hold(net, collection_buffer, Token(d, q), q, n)
    BY DEF KeepsOthers
  <1> DEFINE net2 == Emit(net, p, out)
  <1>1. combined \in [PE -> [Col -> SUBSET PE]]
    BY DEF Ends
  <1>2. combined' = [combined EXCEPT ![p][c] =
                        IF Whole(p, c, new) THEN {} ELSE combined[p][c] \cup new]
    BY <1>31 DEF Combine
  <1>3. combined' \in [PE -> [Col -> SUBSET PE]]
    <2>1. new \in SUBSET PE
      BY ContributorsAre
    <2> QED
      BY <1>1, <1>2, <2>1
  <1>4. \A r \in PE, d \in Col \ {c} : combined'[r][d] = combined[r][d]
    BY <1>1, <1>2
  <1>5. ASSUME NEW d \in Col, NEW q \in PE, NEW n \in Nat,
               Hold(net, collection_buffer, Token(d, q), q, n)
        PROVE  /\ d = c /\ q = p /\ p # 0 /\ Whole(p, c, new) =>
                     Hold(net2, later, Token(d, q), q, n + 1)
               /\ ~(d = c /\ q = p /\ p # 0 /\ Whole(p, c, new)) =>
                     Hold(net2, later, Token(d, q), q, n)
    <2>1. \A s \in PE : HitCount(out[s], Token(d, q)) =
                            HitCount(wt[s], Token(d, q))
                            + HitCount(upward(p, c, new)[s], Token(d, q))
      BY <1>38
    <2> QED
      BY ONLY <1>39, <1>40, <1>5, <2>1, DetectorSends, collection_buffer \in Early,
              net \in Nets, later \in Early, p \in PE, out \in Sendings
  <1> HIDE DEF net2
  <1>6. net2 = queue'
    BY DEF net2
  <1>7. ASSUME NEW d \in Col \ {c}
        PROVE  \E V \in SUBSET PE : Sweep(d, V)'
    <2>1. PICK V \in SUBSET PE : Sweep(d, V)
      BY DEF Ends
    <2>2. /\ Tree(V, Gave(d), Parts(d)) /\ Told(d, V)
          /\ \A q \in PE : Hold(queue, collection_buffer, Token(d, q), q, Due(q, V, Parts(d)))
      BY <2>1 DEF Sweep
    <2>3. Gave(d)' = Gave(d)
      BY <1>34 DEF Gave
    <2>4. Parts(d)' = Parts(d)
      BY <1>4 DEF Parts
    <2>5. ASSUME NEW q \in PE
          PROVE  Hold(net2, later, Token(d, q), q, Due(q, V, Parts(d)))
      <3>1. Due(q, V, Parts(d)) \in Nat
        BY DueNat
      <3>2. Hold(net, collection_buffer, Token(d, q), q, Due(q, V, Parts(d)))
        BY <1>41, <2>2, <3>1
      <3> QED
        BY <1>5, <3>1, <3>2
    <2>6. Told(d, V)'
      <3>1. \A r \in PE : Ready(d) \in heard'[r] => Ready(d) \in heard[r]
        BY <1>35
      <3>2. \A r \in PE : d \in Arrays /\ d \in collection_table'[r] =>
                d \in collection_table[r] \/ d \in is_inserting'[r]
        BY <1>37
      <3> QED
        BY <1>36, <2>2, <3>1, <3>2, ToldSame
    <2>7. Sweep(d, V)'
      BY <1>6, <2>2, <2>3, <2>4, <2>5, <2>6, SweepAfter
    <2> QED
      BY <2>7
  <1>8. \E V \in SUBSET PE : Sweep(c, V)'
    <2>1. PICK D2 : D2 = Gave(c)'
      OBVIOUS
    <2>2. PICK comb2 : comb2 = Parts(c)'
      OBVIOUS
    <2>3. Adds(c, p, new, U, Gave(c), D2, comb2)
      <3>1. /\ p \in D2 <=> p \in Gave(c) \/ p \in new
            /\ \A r \in PE \ {p} : r \in D2 <=> r \in Gave(c)
        BY <1>32, <1>33, <2>1 DEF Gave
      <3>2. \A q \in PE : comb2[q] = combined'[q][c]
        BY <2>2 DEF Parts
      <3> QED
        BY <3>1, <3>2 DEF Adds, Enters
    <2>5. Forwards(c, p, new, net, collection_buffer, net2, later)
      BY <1>5 DEF Forwards
    <2>6. PICK V \in SUBSET PE :
              /\ Swept(c, V, D2, comb2, net2, later)
              /\ 0 \in V <=> 0 \in U \/ (p = 0 /\ Whole(p, c, new))
      BY <1>1, <1>31, <2>3, <2>5, Contribution
    <2>7. Told(c, V)'
      <3> DEFINE whole == Whole(p, c, new)
      <3>1. /\ whole \in BOOLEAN /\ p \in PE \ U
            /\ 0 \in V <=> 0 \in U \/ (p = 0 /\ whole)
        BY <2>6 DEF Whole
      <3>2. \A r \in PE : Ready(c) \in heard'[r] =>
                Ready(c) \in heard[r] \/ (p = 0 /\ whole)
        BY <1>35
      <3>3. \A r \in PE : c \in is_inserting[r] => c \in is_inserting'[r]
        BY <1>36
      <3>4. \A r \in PE : c \in Arrays /\ c \in collection_table'[r] =>
                c \in collection_table[r] \/ c \in is_inserting'[r]
        BY <1>37
      <3>5. Tree(V, Gave(c)', comb2)
        BY <2>1, <2>6 DEF Swept
      <3> HIDE DEF whole
      <3> QED
        BY ONLY Told(c, U), <3>1, <3>2, <3>3, <3>4, <3>5, Telling
    <2>8. Sweep(c, V)'
      BY <1>6, <2>1, <2>2, <2>6, <2>7, SweepAfter DEF Swept
    <2> QED
      BY <2>8
  <1> QED
    BY <1>3, <1>7, <1>8 DEF Ends

LEMMA NotYet ==
    ASSUME NEW U, NEW comb, NEW c, Tree(U, Gave(c), comb), NEW p \in PE, ~Contributed(p, c)
    PROVE  p \notin U
  BY DEF Tree, Gave

LEMMA ReduxIs ==
    ASSUME NEW m \in Anything, m.type = "redux"
    PROVE  /\ m.target \in Col /\ m.from \in PE
           /\ \A c, q : m \in Token(c, q) <=> c = m.target /\ q = m.from
  <1>1. m \notin Proper /\ m \in Others
    BY ProperFields DEF Anything
  <1>2. m \in [type : {"redux"}, col : {sys}, target : Col, from : PE]
    BY <1>1 DEF Others
  <1>3. m = Redux(m.target, m.from)
    BY <1>2 DEF Redux
  <1>4. \A c, q : Redux(m.target, m.from) = Redux(c, q) => c = m.target /\ q = m.from
    BY DEF Redux
  <1> QED
    BY <1>2, <1>3, <1>4 DEF Token

LEMMA EndsRedux ==
    ASSUME Shape, Ends, NEW p \in PE, NEW x \in PE, ReceiveRedux(x, p)
    PROVE  Ends'
  <1>0. PICK m, c, y : m = Head(queue[x][p]) /\ c = m.target /\ y = m.from
    OBVIOUS
  <1> DEFINE net == Behind(queue, x, p)
             out == upward(p, c, {y})
             later == collection_buffer'
  <1>1. /\ queue[x][p] # <<>> /\ m.type = "redux"
        /\ queue' = Emit(Taken(x, p), p, out)
        /\ Combine(p, c, {y})
        /\ heard' = [r \in PE |-> heard[r] \cup ends(p, c, {y})]
        /\ UNCHANGED <<collection_table, is_inserting, sent, collection_buffer>>
    BY <1>0 DEF ReceiveRedux, NextOf, branches
  <1>2. /\ Taken(x, p) = net /\ net \in Nets /\ m \in Anything /\ queue \in Nets
        /\ collection_buffer \in Early
    BY <1>0, <1>1, TakenIs DEF Shape
  <1>3. c \in Col /\ y \in PE /\ \A d, q : m \in Token(d, q) <=> d = c /\ q = y
    BY <1>0, <1>1, <1>2, ReduxIs
  <1>4. out \in Sendings
    BY <1>3, UpwardWordless DEF Wordless
  <1>5. PICK U \in SUBSET PE : Sweep(c, U)
    BY <1>3 DEF Ends
  <1>6. /\ Tree(U, Gave(c), Parts(c)) /\ Told(c, U)
        /\ \A q \in PE : Hold(queue, collection_buffer, Token(c, q), q, Due(q, U, Parts(c)))
    BY <1>5 DEF Sweep
  <1>7. /\ y # 0 /\ p = span_tree_parent(y) /\ Due(y, U, Parts(c)) - 1 \in Nat
        /\ Hold(net, collection_buffer, Token(c, y), y, Due(y, U, Parts(c)) - 1)
    <2> DEFINE T == Token(c, y)
               n == Due(y, U, Parts(c))
    <2>1. m \in T /\ n \in Nat /\ Hold(queue, collection_buffer, T, y, n)
      BY <1>3, <1>6, DueNat
    <2>2. queue[x][p] # <<>> /\ Head(queue[x][p]) \in T
      BY <1>0, <1>1, <2>1
    <2>3. queue \in Nets /\ collection_buffer \in Early /\ y \in PE
      BY <1>2, <1>3
    <2> HIDE DEF T, n
    <2>4. /\ y # 0 /\ p = span_tree_parent(y) /\ n - 1 \in Nat
          /\ Hold(Behind(queue, x, p), collection_buffer, T, y, n - 1)
      BY ONLY <2>1, <2>2, <2>3, HoldTaken, x \in PE, p \in PE
    <2> QED
      BY <2>4 DEF T, n
  <1>8. Owed(y, U, Parts(c))
    <2>1. ~(0 - 1 \in Nat)
      OBVIOUS
    <2> QED
      BY <1>7, <2>1, DueNat
  <1>9. y \in U /\ p \notin U /\ y \in span_tree_children(p) /\ y # p
    BY <1>3, <1>7, <1>8, ParentIs DEF Owed
  <1>10. {y} \in SUBSET Contributors(p) /\ {y} \cap span_tree_children(p) \subseteq U
    BY <1>9 DEF Contributors
  <1>11. \A q \in PE : Hold(net, collection_buffer, Token(c, q), q,
                            Share(q, U, Parts(c), {y}))
    <2> SUFFICES ASSUME NEW q \in PE
                 PROVE  Hold(net, collection_buffer, Token(c, q), q,
                             Share(q, U, Parts(c), {y}))
      OBVIOUS
    <2>1. CASE q = y
      <3>1. Share(q, U, Parts(c), {y}) = 0 /\ Due(y, U, Parts(c)) = 1
        BY <1>8, <2>1, DueNat
      <3>2. Due(y, U, Parts(c)) - 1 = 0
        BY <3>1
      <3> QED
        BY <1>7, <2>1, <3>1, <3>2
    <2>2. CASE q # y
      <3>1. Share(q, U, Parts(c), {y}) = Due(q, U, Parts(c))
        BY <2>2 DEF Share, Due
      <3>2. m \notin Token(c, q)
        BY <1>3, <2>2
      <3>3. Hold(net, collection_buffer, Token(c, q), q, Due(q, U, Parts(c)))
        BY <1>1, <1>2, <1>6, <3>2, <1>0, HoldPast
      <3> QED
        BY <3>1, <3>3
    <2> QED
      BY <2>1, <2>2
  <1>12. ASSUME NEW d \in Col \ {c}, NEW q \in PE, NEW n \in Nat,
                Hold(queue, collection_buffer, Token(d, q), q, n)
         PROVE  Hold(net, collection_buffer, Token(d, q), q, n)
    <2>1. m \notin Token(d, q)
      BY <1>3
    <2> QED
      BY <1>1, <1>2, <1>12, <2>1, <1>0, HoldPast
  <1> HIDE DEF net
  <1>13. \A d \in Col, q \in PE, s \in PE :
             HitCount(out[s], Token(d, q)) =
                 HitCount(Nothing[s], Token(d, q))
                 + HitCount(upward(p, c, {y})[s], Token(d, q))
    <2> SUFFICES ASSUME NEW d \in Col, NEW q \in PE, NEW s \in PE
                 PROVE  HitCount(out[s], Token(d, q)) =
                            HitCount(Nothing[s], Token(d, q)) + HitCount(out[s], Token(d, q))
      OBVIOUS
    <2>1. Nothing[s] = <<>>
      BY DEF Nothing
    <2>2. HitCount(<<>>, Token(d, q)) = 0
      BY HitCountEmpty
    <2>3. HitCount(out[s], Token(d, q)) \in Nat
      <3>1. out[s] \in Seq(Anything)
        BY <1>4 DEF Sendings
      <3> QED
        BY <3>1, HitCountType
    <2> QED
      BY <2>1, <2>2, <2>3
  <1>14. \A r \in PE : \A z : z \in heard'[r] <=>
             z \in heard[r] \/ (z = Ready(c) /\ Whole(p, c, {y}) /\ p = 0)
    BY <1>1, EndsAre
  <1>15. /\ \A d : Ready(d) = Ready(c) => d = c
         /\ \A d : Status(d) # Ready(c)
    BY Kinds
  <1>16. \A r \in PE, d \in Col : Contributed(r, d)' <=> Contributed(r, d)
    BY <1>1, <1>14, <1>15 DEF Contributed
  <1>17. /\ Contributed(p, c)' <=> Contributed(p, c) \/ p \in {y}
         /\ \A r \in PE \ {p} : Contributed(r, c)' <=> Contributed(r, c)
         /\ \A d \in Col \ {c} : \A r \in PE : Contributed(r, d)' <=> Contributed(r, d)
    BY <1>3, <1>9, <1>16
  <1>18. /\ \A r \in PE : \A d : Ready(d) \in heard'[r] =>
               Ready(d) \in heard[r] \/ (d = c /\ p = 0 /\ Whole(p, c, {y}))
         /\ \A r \in PE : \A d : d \in is_inserting[r] => d \in is_inserting'[r]
         /\ \A r \in PE, d \in Arrays : d \in collection_table'[r] =>
               d \in collection_table[r] \/ d \in is_inserting'[r]
    BY <1>1, <1>14, <1>15
  <1>19. /\ LetsGo(p, Nothing, later) /\ later \in Early
         /\ \A s \in PE \ {p} : later[s][sys] = collection_buffer[s][sys]
    BY <1>1, <1>2 DEF LetsGo
  <1>20. queue' = Emit(net, p, out)
    BY <1>1, <1>2
  <1> HIDE DEF out, later
  <1>21. later = collection_buffer'
    BY DEF later
  <1>22. Gives(p, c, {y})
    BY <1>1, <1>17, <1>18 DEF Gives
  <1>23. Carries(p, c, {y}, Nothing, out)
    BY <1>13 DEF Carries
  <1>24. Flushes(p, Nothing, later)
    BY <1>19 DEF Flushes
  <1>25. Shares(c, {y}, U, net, collection_buffer) /\ KeepsOthers(c, net)
    BY <1>11, <1>12 DEF Shares, KeepsOthers
  <1> QED
    BY <1>2, <1>3, <1>4, <1>6, <1>9, <1>10, <1>19, <1>20, <1>21, <1>22, <1>23,
       <1>24, <1>25, EndsContributed

(* What has waited for the detector *)
LEMMA LetsGoWaited ==
    ASSUME NEW p \in PE, NEW later,
           later[p][sys] = IF sys \in collection_table[p] THEN collection_buffer[p][sys]
                           ELSE <<>>
    PROVE  LetsGo(p, waited(p), later)
  BY DEF LetsGo, waited, NewDetector

(* A PE makes branches, and may contribute for its own *)
LEMMA EndsMade ==
    ASSUME Shape, Births, Tables, Ends, NEW p \in PE, NEW c \in User, ~Contributed(p, c),
           NEW new \in SUBSET Col, Make(p, c, new), NEW own \in SUBSET {p},
           Combine(p, c, own), NEW m, Hear(p, m, ends(p, c, own)),
           Contributed(p, c)' <=> p \in own,
           \A r \in PE \ {p} : Contributed(r, c)' <=> Contributed(r, c),
           \A d \in Col \ {c} : \A r \in PE : Contributed(r, d)' <=> Contributed(r, d),
           NEW out \in Sendings, queue' = Emit(queue, p, out), NEW later,
           later = collection_buffer', NEW wt, LetsGo(p, wt, later),
           Carries(p, c, own, wt, out)
    PROVE  Ends'
  <1>1. c \in Col /\ queue \in Nets /\ collection_buffer \in Early
    BY DEF Col, Shape
  <1>2. PICK U \in SUBSET PE : Sweep(c, U)
    BY <1>1 DEF Ends
  <1>3. /\ Tree(U, Gave(c), Parts(c)) /\ Told(c, U)
        /\ \A q \in PE : Hold(queue, collection_buffer, Token(c, q), q, Due(q, U, Parts(c)))
    BY <1>2 DEF Sweep
  <1>4. p \notin U
    BY <1>3, NotYet
  <1>5. own \in SUBSET Contributors(p)
    BY ContributorsAre
  <1>6. own \cap span_tree_children(p) \subseteq U
    BY ContributorsAre
  <1>7. later \in Early
    BY <1>1, MakeEarly
  <1>8. \A s \in PE \ {p} : later[s][sys] = collection_buffer[s][sys]
    BY <1>1, MakeEarly, SysCol
  <1>9. Flushes(p, wt, later)
    BY <1>8 DEF Flushes
  <1>10. \A r \in PE : \A x : x \in heard'[r] <=>
             (x \in heard[r] /\ ~(r = p /\ x = m))
             \/ (x = Ready(c) /\ Whole(p, c, own) /\ p = 0)
    BY HearIs, EndsAre
  <1>11. \A d : Ready(d) = Ready(c) => d = c
    BY Kinds
  <1>12. \A r \in PE : \A d : Ready(d) \in heard'[r] =>
             Ready(d) \in heard[r] \/ (d = c /\ p = 0 /\ Whole(p, c, own))
    BY <1>10, <1>11
  <1>13. \A r \in PE : \A d : d \in is_inserting[r] => d \in is_inserting'[r]
    BY MakeTable
  <1>14. \A r \in PE, d \in Arrays : d \in collection_table'[r] =>
             d \in collection_table[r] \/ d \in is_inserting'[r]
    BY MakeTable
  <1>15. Contributed(p, c)' <=> Contributed(p, c) \/ p \in own
    OBVIOUS
  <1>16. Gives(p, c, own)
    BY <1>12, <1>13, <1>14, <1>15 DEF Gives
  <1>17. ASSUME NEW q \in PE
         PROVE  Hold(queue, collection_buffer, Token(c, q), q, Share(q, U, Parts(c), own))
    <2>1. Owed(q, U, Parts(c)) => q \notin own
      BY <1>4 DEF Owed
    <2>2. Share(q, U, Parts(c), own) = Due(q, U, Parts(c))
      BY <2>1 DEF Share, Due
    <2> QED
      BY <1>3, <2>2
  <1>18. Shares(c, own, U, queue, collection_buffer) /\ KeepsOthers(c, queue)
    BY <1>17 DEF Shares, KeepsOthers
  <1> QED
    BY <1>1, <1>3, <1>4, <1>5, <1>6, <1>7, <1>9, <1>16, <1>18, EndsContributed

LEMMA EndsStatusHere ==
    ASSUME Shape, Births, Tables, Waits, Ends, NEW p \in PE, NEW c \in Arrays,
           ReceiveStatus(p, c), c \in collection_table[p]
    PROVE  Ends'
  <1> DEFINE own == {p}
             new == NewDetector(p)
             m == Status(c)
             out == [q \in PE |-> waited(p)[q] \o upward(p, c, own)[q]]
  <1>1. /\ Make(p, c, new) /\ Combine(p, c, own) /\ queue' = Emit(queue, p, out)
        /\ Hear(p, m, ends(p, c, own)) /\ sent' = sent /\ m \in heard[p]
    BY DEF ReceiveStatus
  <1>2. c \in User /\ c \in Col /\ collection_buffer \in Early
    BY DEF Arrays, Col, Shape
  <1>3. new \in SUBSET Col /\ \A d \in User : d \notin new
    BY SysApart DEF NewDetector, Col
  <1>4. c \in sent /\ ~Seeded(c)
    BY <1>1 DEF Waits
  <1>5. ~Contributed(p, c)
    BY <1>1, <1>4 DEF Contributed
  <1>6. /\ waited(p) \in Sendings /\ upward(p, c, own) \in Sendings
    BY <1>2, WaitedWordless, UpwardWordless DEF Wordless
  <1>7. /\ \A s \in PE : waited(p)[s] \in Seq(Anything)
        /\ \A s \in PE : upward(p, c, own)[s] \in Seq(Anything)
    BY <1>6 DEF Sendings
  <1>8. out \in Sendings
    <2>1. \A s \in PE : out[s] \in Seq(Anything)
      <3> SUFFICES ASSUME NEW s \in PE
                   PROVE  waited(p)[s] \o upward(p, c, own)[s] \in Seq(Anything)
        OBVIOUS
      <3>1. waited(p)[s] \in Seq(Anything) /\ upward(p, c, own)[s] \in Seq(Anything)
        BY <1>7
      <3> HIDE DEF own
      <3> QED
        BY <3>1
    <2>2. out = [s \in PE |-> out[s]]
      OBVIOUS
    <2> HIDE DEF out
    <2> QED
      BY <2>1, <2>2 DEF Sendings
  <1>9. PICK later : later = collection_buffer'
    OBVIOUS
  <1>10. later[p][sys] = IF sys \in collection_table[p] THEN collection_buffer[p][sys]
                         ELSE <<>>
    <2>1. later[p][sys] = IF p = p /\ sys \in new THEN <<>> ELSE collection_buffer[p][sys]
      BY <1>1, <1>2, <1>3, <1>9, MakeEarly, SysCol
    <2>2. sys \in new <=> sys \notin collection_table[p]
      BY DEF NewDetector
    <2> HIDE DEF new
    <2> QED
      BY <2>1, <2>2
  <1>11. LetsGo(p, waited(p), later)
    BY <1>10, LetsGoWaited
  <1>12. Carries(p, c, own, waited(p), out)
    <2> SUFFICES ASSUME NEW d \in Col, NEW q \in PE, NEW s \in PE
                 PROVE  HitCount(out[s], Token(d, q)) =
                            HitCount(waited(p)[s], Token(d, q))
                            + HitCount(upward(p, c, own)[s], Token(d, q))
      BY DEF Carries
    <2>1. out[s] = waited(p)[s] \o upward(p, c, own)[s]
      OBVIOUS
    <2>2. waited(p)[s] \in Seq(Anything) /\ upward(p, c, own)[s] \in Seq(Anything)
      BY <1>7
    <2> HIDE DEF out, own
    <2> QED
      BY <2>1, <2>2, HitCountConcat
  <1> HIDE DEF out, new, m
  <1>13. \A r \in PE : \A d : d \in User => (d \in collection_table'[r] <=> d \in collection_table[r])
    BY <1>1, <1>2, <1>3, MakeTable
  <1>14. \A r \in PE : \A d : Status(d) \in heard'[r] <=>
             Status(d) \in heard[r] /\ ~(r = p /\ d = c)
    BY <1>1, HearIs, EndsAre, Kinds DEF m
  <1>15. \A r \in PE : \A d : d \in Arrays => d \in User
    BY DEF Arrays
  <1>16. \A r \in PE, d \in Col : ~(r = p /\ d = c) =>
             (Contributed(r, d)' <=> Contributed(r, d))
    BY <1>1, <1>13, <1>14, <1>15 DEF Contributed
  <1>17. Contributed(p, c)'
    BY <1>1, <1>4, <1>13, <1>14, <1>15 DEF Contributed
  <1>18. Contributed(p, c)' <=> p \in own
    BY <1>17
  <1>19. \A r \in PE \ {p} : Contributed(r, c)' <=> Contributed(r, c)
    BY <1>2, <1>16
  <1>20. \A d \in Col \ {c} : \A r \in PE : Contributed(r, d)' <=> Contributed(r, d)
    BY <1>16
  <1>21. own \in SUBSET {p}
    OBVIOUS
  <1> HIDE DEF own
  <1> QED
    BY <1>1, <1>2, <1>3, <1>5, <1>8, <1>9, <1>11, <1>12, <1>18, <1>19, <1>20, <1>21,
       EndsMade

LEMMA EndsStatus ==
    ASSUME Shape, Births, Tables, Waits, Ends, NEW p \in PE, NEW c \in Arrays,
           ReceiveStatus(p, c)
    PROVE  Ends'
  BY EndsStatusEarly, EndsStatusHere

(* A branch is made when its collection has been created, and with its     *)
(* elements, or with the end of its array waiting, it contributes at once  *)
LEMMA EndsCreation ==
    ASSUME Shape, Births, Tables, Waits, Ends, NEW p \in PE, NEW c \in User,
           ReceiveCreation(p, c)
    PROVE  Ends'
  <1> DEFINE counts == Contributes(p, c)
             own == IF counts THEN {p} ELSE {}
             new == {c} \cup (IF counts THEN NewDetector(p) ELSE {})
             m == Creation(c)
             hs == collection_buffer[p][c]
             o == outgoing(p, c, numbered(p, c, hs))
             wt == IF counts THEN waited(p) ELSE Nothing
  <1>1. /\ Make(p, c, new) /\ Combine(p, c, own)
        /\ Hear(p, m, ends(p, c, own)) /\ sent' = sent
    BY DEF ReceiveCreation
  <1>2. /\ c \in Col /\ collection_buffer \in Early /\ last_bcast[p][c] \in Nat
        /\ hs \in Seq(InCol(c))
    BY DEF Col, Shape, Early
  <1>3. c \notin collection_table[p]
    BY BirthsCreation
  <1>4. ~Contributed(p, c)
    BY <1>3 DEF Contributed
  <1>5. PICK w \in Wordless :
            /\ queue' = Emit(queue, p, Joined(w, o))
            /\ \A q \in PE : w[q] = (IF counts THEN waited(p)[q] ELSE <<>>)
                                    \o upward(p, c, own)[q]
    BY CreationSends
  <1>6. numbered(p, c, hs) \in Seq(InCol(c))
    BY <1>2, NumberedIs
  <1>7. o \in Sendings /\ \A s \in PE : \A d, q : NoHit(o[s], Token(d, q))
    <2> DEFINE ns == numbered(p, c, hs)
    <2>1. ns \in Seq(InCol(c))
      BY <1>6
    <2> HIDE DEF ns
    <2> QED
      BY <2>1, OutgoingIs, OutgoingNoToken DEF ns
  <1>8. wt \in Sendings
    BY <1>2, WaitedWordless DEF Wordless
  <1>9. upward(p, c, own) \in Sendings
    BY <1>2, UpwardWordless DEF Wordless
  <1>10. \A q \in PE : w[q] = wt[q] \o upward(p, c, own)[q]
    <2>1. \A q \in PE : Nothing[q] = <<>>
      BY DEF Nothing
    <2> HIDE DEF counts, own
    <2> QED
      BY <1>5, <2>1
  <1> HIDE DEF o, wt
  <1>11. PICK out : out = Joined(w, o)
    OBVIOUS
  <1>12. out \in Sendings /\ queue' = Emit(queue, p, out)
    BY <1>5, <1>7, <1>11, JoinedIs
  <1>13. Carries(p, c, own, wt, out)
    <2> SUFFICES ASSUME NEW d \in Col, NEW q \in PE, NEW s \in PE
                 PROVE  HitCount(out[s], Token(d, q)) =
                            HitCount(wt[s], Token(d, q))
                            + HitCount(upward(p, c, own)[s], Token(d, q))
      BY DEF Carries
    <2> DEFINE T == Token(d, q)
               u == upward(p, c, own)[s]
    <2>1. out[s] = w[s] \o o[s] /\ w[s] = wt[s] \o u
      BY <1>10, <1>11 DEF Joined
    <2>2. /\ w[s] \in Seq(Anything) /\ o[s] \in Seq(Anything)
          /\ wt[s] \in Seq(Anything) /\ u \in Seq(Anything)
      BY <1>7, <1>8, <1>9 DEF Wordless, Sendings
    <2>3. NoHit(o[s], T)
      BY <1>7
    <2> HIDE DEF T, u
    <2>4. HitCount(out[s], T) = HitCount(w[s], T) + HitCount(o[s], T)
      <3>1. HitCount(w[s] \o o[s], T) = HitCount(w[s], T) + HitCount(o[s], T)
        BY ONLY <2>2, HitCountConcat
      <3> QED
        BY <2>1, <3>1
    <2>5. HitCount(w[s], T) = HitCount(wt[s], T) + HitCount(u, T)
      <3>1. HitCount(wt[s] \o u, T) = HitCount(wt[s], T) + HitCount(u, T)
        BY ONLY <2>2, HitCountConcat
      <3> QED
        BY <2>1, <3>1
    <2>6. HitCount(o[s], T) = 0 /\ HitCount(w[s], T) \in Nat
      BY <2>2, <2>3, HitCountType
    <2>7. HitCount(out[s], T) = HitCount(w[s], T)
      BY <2>4, <2>6
    <2> QED
      BY <2>5, <2>7 DEF T, u
  <1>14. PICK later : later = collection_buffer'
    OBVIOUS
  <1>15. new \in SUBSET Col /\ \A d \in User : d \in new <=> d = c
    BY <1>2, SysApart DEF NewDetector, Col
  <1>16. sys \in new <=> counts /\ sys \notin collection_table[p]
    BY SysApart DEF NewDetector
  <1>17. LetsGo(p, wt, later)
    <2>1. later[p][sys] = IF p = p /\ sys \in new THEN <<>> ELSE collection_buffer[p][sys]
      BY <1>1, <1>2, <1>14, <1>15, MakeEarly, SysCol
    <2> HIDE DEF new, counts
    <2>2. CASE counts
      <3>1. later[p][sys] = IF sys \in collection_table[p] THEN collection_buffer[p][sys]
                            ELSE <<>>
        BY <1>16, <2>1, <2>2
      <3>2. wt = waited(p)
        BY <2>2 DEF wt
      <3> QED
        BY <3>1, <3>2, LetsGoWaited
    <2>3. CASE ~counts
      <3>1. later[p][sys] = collection_buffer[p][sys] /\ wt = Nothing
        BY <1>16, <2>1, <2>3 DEF wt
      <3> QED
        BY <3>1 DEF LetsGo
    <2> QED
      BY <2>2, <2>3
  <1>18. counts <=> c \in Arrays /\ (Seeded(c) \/ (c \in sent /\ Status(c) \notin heard[p]))
    <2>1. c \in Arrays => (Status(c) \in ToSet(hs) <=> c \in sent /\ Status(c) \notin heard[p])
      BY <1>3 DEF Waits
    <2> QED
      BY <2>1 DEF Contributes
  <1>19. own \in SUBSET {p} /\ (p \in own <=> counts)
    OBVIOUS
  <1> HIDE DEF own, new, counts, m
  <1>20. \A r \in PE : \A d : d \in User =>
            (d \in collection_table'[r] <=> d \in collection_table[r] \/ (r = p /\ d = c))
    <2>1. new \in SUBSET Col /\ Make(p, c, new)
      BY <1>1, <1>15
    <2>2. \A r \in PE : collection_table'[r] =
              IF r = p THEN collection_table[r] \cup new ELSE collection_table[r]
      BY <2>1, MakeTable
    <2> QED
      BY <1>15, <2>2
  <1>21. \A r \in PE : \A d : Status(d) \in heard'[r] <=> Status(d) \in heard[r]
    BY <1>1, HearIs, EndsAre, Kinds DEF m
  <1>22. \A d : d \in Arrays => d \in User
    BY DEF Arrays
  <1>23. \A r \in PE, d \in Col : ~(r = p /\ d = c) =>
             (Contributed(r, d)' <=> Contributed(r, d))
    BY <1>1, <1>20, <1>21, <1>22 DEF Contributed
  <1>24. Contributed(p, c)' <=> counts
    BY <1>1, <1>18, <1>20, <1>21 DEF Contributed
  <1>25. Contributed(p, c)' <=> p \in own
    BY <1>19, <1>24
  <1>26. \A r \in PE \ {p} : Contributed(r, c)' <=> Contributed(r, c)
    BY <1>2, <1>23
  <1>27. \A d \in Col \ {c} : \A r \in PE : Contributed(r, d)' <=> Contributed(r, d)
    BY <1>23
  <1> QED
    BY <1>1, <1>2, <1>4, <1>12, <1>13, <1>14, <1>15, <1>17, <1>19, <1>25, <1>26,
       <1>27, EndsMade

-----------------------------------------------------------------------------
(* Nothing fails *)

(* The walk over the options of each collection ends, and meets no index   *)
(* twice.  WalksCoverGrids checks it for small options.                    *)
WalksOnce == \A c \in User : IsFiniteSet(DOMAIN seeds[c]) /\ IsInjective(seeds[c])

LEMMA NoCollision ==
    ASSUME WalksOnce, NEW p \in PE, NEW c \in User
    PROVE  ~Collide(p, c)
  <1> DEFINE s == seeds[c]
             M == Mine(p, c)
             H == Here(p, c)
             f == [i \in M |-> s[i]]
  <1>1. /\ IsFiniteSet(DOMAIN s)
        /\ \A i, j \in DOMAIN s : s[i] = s[j] => i = j
    BY DEF WalksOnce, IsInjective
  <1>2. M \subseteq DOMAIN s /\ H = {s[i] : i \in M}
    BY DEF Mine, Here
  <1>3. IsFiniteSet(M)
    BY <1>1, <1>2, FS_Subset
  <1> HIDE DEF s, M, H
  <1>4. f \in [M -> H] /\ \A h \in H : \E i \in M : f[i] = h
    BY <1>2
  <1>5. \A i, j \in M : f[i] = f[j] => i = j
    BY <1>1, <1>2
  <1>6. f \in Bijection(M, H)
    <2> HIDE DEF f
    <2>1. f \in Injection(M, H)
      BY <1>4, <1>5 DEF Injection, IsInjective
    <2>2. f \in Surjection(M, H)
      BY <1>4 DEF Surjection
    <2> QED
      BY <2>1, <2>2 DEF Bijection
  <1>7. Cardinality(H) = Cardinality(M)
    <2>1. ExistsBijection(M, H)
      <3> HIDE DEF f
      <3> QED
        BY <1>6 DEF ExistsBijection
    <2> QED
      BY <1>3, <2>1, FS_Bijection
  <1> QED
    BY <1>7 DEF Collide, M, H

LEMMA StreamsStep ==
    ASSUME SoundInv, Streams, Births, Emptied, Homes', [Next]_vars
    PROVE  Streams'
  <1>1. Shape /\ Tables
    BY DEF SoundInv, Homes
  <1>2. ASSUME UNCHANGED <<queue, collection_buffer, buffers, last_bcast>>
        PROVE  Streams'
    BY <1>1, <1>2, StreamsIdle
  <1>3. ASSUME NEW p \in PE, Construct(p) \/ ReceiveBroadcastExit(p)
        PROVE  Streams'
    BY <1>2, <1>3 DEF Construct, ReceiveBroadcastExit, exit, work
  <1>4. ASSUME NEW c \in Arrays, DoneInserting(c)
        PROVE  Streams'
    BY <1>2, <1>4 DEF DoneInserting, work
  <1>5. ASSUME NEW p \in PE, NEW c \in Arrays, ReceiveReady(p, c)
        PROVE  Streams'
    BY <1>2, <1>5 DEF ReceiveReady
  <1>6. ASSUME UNCHANGED vars
        PROVE  Streams'
    BY <1>2, <1>6 DEF vars, work
  <1>7. ASSUME NEW p \in PE, NEW l \in Letter, Send(p, l)
        PROVE  Streams'
    BY <1>1, <1>7, StreamsSend
  <1>8. ASSUME NEW p \in PE, CallExit(p)
        PROVE  Streams'
    BY <1>1, <1>8, StreamsExit
  <1>9. ASSUME NEW p \in PE, NEW c \in User, ReceiveCreation(p, c)
        PROVE  Streams'
    BY <1>1, <1>9, StreamsReceiveCreation
  <1>10. ASSUME NEW p \in PE, NEW c \in Arrays, ReceiveStatus(p, c)
         PROVE  Streams'
    BY <1>1, <1>10, StreamsReceiveStatus
  <1>11. ASSUME NEW p \in PE, NEW q \in PE, ReceiveExit(q, p)
         PROVE  Streams'
    BY <1>1, <1>11, StreamsReceiveExit
  <1>12. ASSUME NEW p \in PE, NEW q \in PE, KeepEarly(q, p)
         PROVE  Streams'
    BY <1>1, <1>12, StreamsKeepEarly
  <1>13. ASSUME NEW p \in PE, NEW q \in PE, ReceiveLetter(q, p)
         PROVE  Streams'
    BY <1>1, <1>13, StreamsReceiveLetter
  <1>14. ASSUME NEW p \in PE, NEW q \in PE, ReceiveRedux(q, p)
         PROVE  Streams'
    BY <1>1, <1>14, StreamsReceiveRedux
  <1> QED
    BY <1>3, <1>4, <1>5, <1>6, <1>7, <1>8, <1>9, <1>10, <1>11, <1>12, <1>13, <1>14
    DEF Next, Work, Turn

LEMMA EndsIdle ==
    ASSUME Ends, UNCHANGED vars
    PROVE  Ends'
  <1>1. /\ combined' = combined
        /\ UNCHANGED <<collection_table, is_inserting, sent, heard, queue, collection_buffer>>
    BY DEF vars, branches
  <1> QED
    BY <1>1, EndsCarried

LEMMA EndsStep ==
    ASSUME Shape, Births, Tables, Waits, Ends, [Next]_vars
    PROVE  Ends'
  <1>1. ASSUME UNCHANGED vars
        PROVE  Ends'
    BY <1>1, EndsIdle
  <1>2. ASSUME NEW p \in PE, Construct(p)
        PROVE  Ends'
    BY <1>2, EndsConstruct
  <1>3. ASSUME NEW p \in PE, NEW l \in Letter, Send(p, l)
        PROVE  Ends'
    BY <1>3, EndsSend
  <1>4. ASSUME NEW c \in Arrays, DoneInserting(c)
        PROVE  Ends'
    BY <1>4, EndsDone
  <1>5. ASSUME NEW p \in PE, CallExit(p)
        PROVE  Ends'
    BY <1>5, EndsExit
  <1>6. ASSUME NEW p \in PE, NEW c \in User, ReceiveCreation(p, c)
        PROVE  Ends'
    BY <1>6, EndsCreation
  <1>7. ASSUME NEW p \in PE, NEW c \in Arrays, ReceiveStatus(p, c)
        PROVE  Ends'
    BY <1>7, EndsStatus
  <1>8. ASSUME NEW p \in PE, NEW c \in Arrays, ReceiveReady(p, c)
        PROVE  Ends'
    BY <1>8, EndsReady
  <1>9. ASSUME NEW p \in PE, ReceiveBroadcastExit(p)
        PROVE  Ends'
    <2>1. exit(p, TRUE) /\ UNCHANGED queue
      BY <1>9 DEF ReceiveBroadcastExit
    <2> QED
      BY <2>1, EndsReceiveExit
  <1>10. ASSUME NEW p \in PE, NEW q \in PE, ReceiveExit(q, p)
         PROVE  Ends'
    <2>1. PICK b : b = Head(queue[q][p]).is_broadcast
      OBVIOUS
    <2>2. /\ exit(p, b) /\ queue[q][p] # <<>> /\ Head(queue[q][p]).type = "exit"
          /\ queue' = Taken(q, p)
      BY <1>10, <2>1 DEF ReceiveExit, NextOf
    <2> QED
      BY <2>2, EndsReceiveExit
  <1>11. ASSUME NEW p \in PE, NEW q \in PE, KeepEarly(q, p)
         PROVE  Ends'
    BY <1>11, EndsKeepEarly
  <1>12. ASSUME NEW p \in PE, NEW q \in PE, ReceiveLetter(q, p)
         PROVE  Ends'
    BY <1>12, EndsReceiveLetter
  <1>13. ASSUME NEW p \in PE, NEW q \in PE, ReceiveRedux(q, p)
         PROVE  Ends'
    BY <1>13, EndsRedux
  <1> QED
    BY <1>1, <1>2, <1>3, <1>4, <1>5, <1>6, <1>7, <1>8, <1>9, <1>10, <1>11, <1>12, <1>13
    DEF Next, Work, Turn

(* What could fail: a branch that is made, a letter that is handled, and   *)
(* the end of an insertion phase                                           *)
LEMMA FaultStep ==
    ASSUME WalksOnce, SoundInv, Streams, Births, Emptied, Waits, Ends, Homes',
           [Next]_vars
    PROVE  fault' = fault
  <1>1. Shape /\ Tables
    BY DEF SoundInv, Homes
  <1>2. ASSUME NEW p \in PE, Construct(p) \/ ReceiveBroadcastExit(p) \/ CallExit(p)
        PROVE  fault' = fault
    BY <1>2 DEF Construct, ReceiveBroadcastExit, CallExit, exit, work
  <1>3. ASSUME NEW p \in PE, NEW l \in Letter, Send(p, l)
        PROVE  fault' = fault
    BY <1>3 DEF Send, work
  <1>4. ASSUME NEW c \in Arrays, DoneInserting(c)
        PROVE  fault' = fault
    BY <1>4 DEF DoneInserting, work
  <1>5. ASSUME NEW p \in PE, NEW c \in User, ReceiveCreation(p, c)
        PROVE  fault' = fault
    <2>1. c \notin collection_table[p]
      BY <1>1, <1>5, BirthsCreation
    <2>2. ~Collide(p, c)
      BY NoCollision
    <2> QED
      BY <1>1, <1>5, <2>1, <2>2, StreamsReceiveCreation
  <1>6. ASSUME NEW p \in PE, NEW c \in Arrays, ReceiveStatus(p, c)
        PROVE  fault' = fault
    BY <1>6 DEF ReceiveStatus, work
  <1>7. ASSUME NEW p \in PE, NEW c \in Arrays, ReceiveReady(p, c)
        PROVE  fault' = fault
    BY <1>7, EndsReady
  <1>8. ASSUME NEW p \in PE, NEW q \in PE, ReceiveExit(q, p)
        PROVE  fault' = fault
    BY <1>8 DEF ReceiveExit, exit, work
  <1>9. ASSUME NEW p \in PE, NEW q \in PE, KeepEarly(q, p)
        PROVE  fault' = fault
    BY <1>9 DEF KeepEarly, work
  <1>10. ASSUME NEW p \in PE, NEW q \in PE, ReceiveLetter(q, p)
         PROVE  fault' = fault
    BY <1>1, <1>10, StreamsReceiveLetter
  <1>11. ASSUME NEW p \in PE, NEW q \in PE, ReceiveRedux(q, p)
         PROVE  fault' = fault
    BY <1>11 DEF ReceiveRedux, work
  <1>12. ASSUME UNCHANGED vars
         PROVE  fault' = fault
    BY <1>12 DEF vars, work
  <1> QED
    BY <1>2, <1>3, <1>4, <1>5, <1>6, <1>7, <1>8, <1>9, <1>10, <1>11, <1>12
    DEF Next, Work, Turn

LEMMA QuietInit ==
    ASSUME Init
    PROVE  Births /\ Emptied /\ Waits /\ NoFault
  <1>1. /\ local_collection_count = [p \in PE |-> 0] /\ sent = {} /\ fault = {}
        /\ collection_table = [p \in PE |-> {}]
        /\ is_inserting = [p \in PE |-> {}]
        /\ collection_buffer = [p \in PE |-> [c \in Col |-> <<>>]]
        /\ heard = [p \in PE |-> {}]
    BY DEF Init
  <1>2. \A p \in PE, c \in Arrays : ToSet(collection_buffer[p][c]) = {}
    BY <1>1 DEF ToSet, Arrays, Col
  <1>3. Births
    BY <1>1 DEF Births
  <1>4. Emptied
    BY <1>1 DEF Emptied
  <1>5. Waits
    BY <1>1, <1>2 DEF Waits
  <1> QED
    BY <1>1, <1>3, <1>4, <1>5 DEF NoFault

LEMMA EndsInit ==
    ASSUME Init
    PROVE  Ends
  <1>1. /\ combined = [p \in PE |-> [c \in Col |-> {}]]
        /\ collection_table = [p \in PE |-> {}]
        /\ heard = [p \in PE |-> {}]
        /\ \A p, q \in PE : queue[p][q] = <<>>
        /\ \A p \in PE : collection_buffer[p][sys] = <<>>
    BY SysCol DEF Init
  <1>2. ASSUME NEW c \in Col
        PROVE  Sweep(c, {})
    <2>1. Tree({}, Gave(c), Parts(c))
      <3>1. \A p \in PE : Parts(c)[p] = {} /\ p \notin Gave(c)
        BY <1>1 DEF Parts, Gave, Contributed
      <3>2. \A p \in PE : Contributors(p) # {}
        BY DEF Contributors
      <3> QED
        BY <3>1, <3>2 DEF Tree
    <2>2. ASSUME NEW q \in PE
          PROVE  Hold(queue, collection_buffer, Token(c, q), q, Due(q, {}, Parts(c)))
      <3>1. Due(q, {}, Parts(c)) = 0
        BY DueNat DEF Owed
      <3>2. q # 0 => span_tree_parent(q) \in PE
        BY ParentIs
      <3>3. HitCount(<<>>, Token(c, q)) = 0
        BY HitCountEmpty
      <3> QED
        BY <1>1, <3>1, <3>2, <3>3 DEF Hold
    <2>3. Told(c, {})
      BY <1>1 DEF Told
    <2> QED
      BY <2>1, <2>2, <2>3 DEF Sweep
  <1>3. combined \in [PE -> [Col -> SUBSET PE]]
    BY <1>1
  <1> QED
    BY <1>2, <1>3 DEF Ends

(* What the messages and tables are like while nothing fails *)
NoFaultInv ==
    SoundInv /\ Streams /\ Births /\ Emptied /\ Waits /\ Ends /\ NoFault

(* No assertion fails, in whichever order creation messages, contributions *)
(* and the ends of phases come: no branch is made twice, the elements of a *)
(* collection differ, its broadcasts are handled in order, and every array *)
(* that is told the end of its phase is there and still in it, because the *)
(* root calls back once, after every PE has contributed (core.cpp:148,     *)
(* collection_bridge.hpp:436, impl/message.hpp:152).                       *)
THEOREM NothingFails ==
    ASSUME WalksOnce
    PROVE  Spec => []NoFault
  <1>1. Init => NoFaultInv
    <2> SUFFICES ASSUME Init
                 PROVE  NoFaultInv
      OBVIOUS
    <2>1. SoundInv
      BY SoundInit
    <2>2. Streams
      BY <2>1, StreamsInit DEF SoundInv
    <2> QED
      BY <2>1, <2>2, QuietInit, EndsInit DEF NoFaultInv
  <1>2. NoFaultInv /\ [Next]_vars => NoFaultInv'
    <2> SUFFICES ASSUME NoFaultInv, [Next]_vars
                 PROVE  NoFaultInv'
      OBVIOUS
    <2>1. /\ SoundInv /\ Streams /\ Births /\ Emptied /\ Waits /\ Ends /\ NoFault
          /\ Shape /\ Tables
      BY DEF NoFaultInv, SoundInv, Homes
    <2>2. SoundInv'
      BY <2>1, SoundStep
    <2>3. Homes'
      BY <2>2 DEF SoundInv
    <2>4. Streams'
      BY <2>1, <2>3, StreamsStep
    <2>5. Births'
      BY <2>1, BirthsStep
    <2>6. Emptied'
      BY <2>1, EmptiedStep
    <2>7. Waits'
      BY <2>1, WaitsStep
    <2>8. Ends'
      BY <2>1, EndsStep
    <2>9. fault' = fault
      BY <2>1, <2>3, FaultStep
    <2>10. NoFault'
      BY <2>1, <2>9 DEF NoFault
    <2> QED
      BY <2>2, <2>4, <2>5, <2>6, <2>7, <2>8, <2>10 DEF NoFaultInv
  <1>3. NoFaultInv => NoFault
    BY DEF NoFaultInv
  <1> QED
    BY <1>1, <1>2, <1>3, PTL DEF Spec
=============================================================================
