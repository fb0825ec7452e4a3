-------------------------- MODULE DetectionProofs --------------------------
(***************************************************************************)
(* Completion detection is sound for every number of PEs, every spanning   *)
(* tree, and any number of collections and rounds, as long as the          *)
(* collections have reducers of their own; and how far the tags of         *)
(* reductions see to that, which the detectors take for granted ("it       *)
(* assumes no hash collisions", completion.hpp:68).                        *)
(***************************************************************************)
EXTENDS Detection, Facts

-----------------------------------------------------------------------------
(* Tags *)

(* A tag is 16 bits of a number to the base 15, and nothing is cut off     *)
(* while there are at most 4234 PEs.                                       *)
LEMMA TagDigits ==
    ASSUME NEW c \in [pe : Nat, id : Nat], c.id < 15, c.pe < 4234
    PROVE  compress(c) = 2025 + 15 * c.pe + c.id
  <1> DEFINE n == 2025 + 15 * c.pe + c.id
  <1>1. n \in Nat /\ n < 65536
    OBVIOUS
  <1>2. (9 * 15 + c.pe) * 15 + c.id = n
    OBVIOUS
  <1>3. n % 65536 = n
    BY <1>1
  <1> QED  BY <1>2, <1>3 DEF compress

(* As long as no PE has constructed more than 15 collections, no two       *)
(* collections share a reducer: the hazard of completion.hpp:137 begins    *)
(* with the 16th, or beyond 4234 PEs.                                      *)
THEOREM TagsDiffer ==
    ASSUME NEW c \in [pe : Nat, id : Nat], NEW d \in [pe : Nat, id : Nat],
           c.id < 15, c.pe < 4234, d.id < 15, d.pe < 4234,
           compress(c) = compress(d)
    PROVE  c = d
  <1>1. 15 * c.pe + c.id = 15 * d.pe + d.id
    BY TagDigits
  <1>2. c.pe = d.pe /\ c.id = d.id
    BY <1>1
  <1> QED  BY <1>2

(* The 16th collection of one PE and the first of the next PE have the     *)
(* same tag: their counts meet in one reducer, which refuses them          *)
(* (completion.hpp:49).                                                    *)
THEOREM TagsCollide ==
    ASSUME NEW p \in Nat, p < 4000
    PROVE  compress([pe |-> p, id |-> 15]) = compress([pe |-> p + 1, id |-> 0])
  BY DEF compress

-----------------------------------------------------------------------------
(* The tree, and the messages *)

Message ==
    GroupMessage
    \cup [kind : {"redux"}, tag : Tags, count : CountMessage]
    \cup {Resume(c) : c \in Col}

Nets == [PE -> [PE -> Seq(Message)]]
Sendings == [PE -> Seq(Message)]

LEMMA FinitePEs == IsFiniteSet(PE) /\ Cardinality(PE) = NumPes /\ 0 \in PE
  BY NumPesAssumption, FS_Interval DEF PE

LEMMA TreeIs ==
    ASSUME NEW p \in PE
    PROVE  /\ 0 \notin span_tree_children(p) /\ p \notin span_tree_children(p)
           /\ span_tree_children(p) \subseteq PE
           /\ IsFiniteSet(span_tree_children(p))
           /\ Cardinality(span_tree_children(p)) \in Nat
           /\ \A q \in PE \ {0} : /\ q \in span_tree_children(p) <=> span_tree_parent(q) = p
                                  /\ span_tree_parent(q) \in PE
                                  /\ span_tree_parent(q) < q
                                  /\ q \in span_tree_children(span_tree_parent(q))
  <1>1. ASSUME NEW q \in PE, q > 0
        PROVE  (q - 1) \div Branch \in Nat /\ (q - 1) \div Branch < q
    <2> DEFINE d == (q - 1) \div Branch
    <2>1. q - 1 \in Nat /\ Branch \in Nat \ {0} /\ q \in Nat
      BY <1>1, NumPesAssumption, BranchAssumption DEF PE
    <2>2. d \in Nat /\ d * Branch <= q - 1
      BY <2>1, DivisionFacts
    <2> HIDE DEF d
    <2>3. d * 1 <= d * Branch
      BY <2>1, <2>2
    <2>4. d < q
      BY <2>1, <2>2, <2>3
    <2> QED
      BY <2>2, <2>4 DEF d
  <1>2. 0 \in PE /\ PE \subseteq Nat /\ \A q \in PE, n \in Nat : n < q => n \in PE
    BY NumPesAssumption DEF PE
  <1>3. span_tree_children(p) \in SUBSET PE
    BY DEF span_tree_children
  <1>4. IsFiniteSet(span_tree_children(p)) /\ Cardinality(span_tree_children(p)) \in Nat
    BY <1>3, FinitePEs, FS_Subset, FS_CardinalityType
  <1> QED
    BY <1>1, <1>2, <1>3, <1>4 DEF span_tree_children, span_tree_parent

LEMMA MessageIs ==
    ASSUME NEW m \in Message
    PROVE  /\ m.count \in CountMessage
           /\ m.count.target \in Col /\ m.count.gcount \in Int
           /\ m.kind \in {"post", "copy", "redux", "resume"}
           /\ m.kind \in {"post", "copy"} =>
                 /\ m \in GroupMessage
                 /\ m.entry \in {"produce", "consume", "start_detection", "receive_count_"}
           /\ m.kind = "redux" => m.tag \in Tags
  BY DEF Message, GroupMessage, CountMessage, Resume, Count

LEMMA CountIsMessage ==
    ASSUME NEW c \in Col, NEW n \in Int
    PROVE  /\ Count(c, n) \in CountMessage
           /\ Count(c, n).target = c /\ Count(c, n).gcount = n
           /\ compress(c) \in Tags
  BY DEF Count, CountMessage, Tags

LEMMA MessagesAre ==
    /\ \A m \in GroupMessage : m \in Message /\ Copy(m) \in GroupMessage
                               /\ Copy(m).kind = "copy" /\ Copy(m).entry = m.entry
                               /\ Copy(m).count = m.count
    /\ \A c \in Col : /\ Post("produce", c) \in GroupMessage
                      /\ Post("consume", c) \in GroupMessage
                      /\ Post("start_detection", c) \in GroupMessage
                      /\ Resume(c) \in Message
    /\ \A n \in CountMessage : Posted(n) \in GroupMessage
    /\ \A n \in CountMessage, tag \in Tags : Redux(tag, n) \in Message
  BY CountIsMessage DEF Message, GroupMessage, Copy, Post, Posted, Redux, CountMessage, Count

(* What is sent to p *)
To(out, p) == out[p]

LEMMA OnlyToIs ==
    ASSUME NEW q \in PE, NEW m \in Message
    PROVE  /\ Nothing \in Sendings /\ OnlyTo(q, m) \in Sendings
           /\ \A r \in PE : To(Nothing, r) = <<>>
                            /\ To(OnlyTo(q, m), r) = IF r = q THEN <<m>> ELSE <<>>
  <1>1. <<>> \in Seq(Message) /\ <<m>> \in Seq(Message)
    OBVIOUS
  <1> QED
    BY <1>1 DEF Nothing, OnlyTo, Sendings, To

-----------------------------------------------------------------------------
(* Sending, and taking the next message *)

(* The messages that are on their way from q to p *)
On(net, q, p) == net[q][p]
Holds(net, q, p) == ToSet(On(net, q, p))
Hit(net, q, p, T) == HitCount(On(net, q, p), T)
Foremost(net, q, p) == Head(On(net, q, p))

Sends(out, p) == ToSet(To(out, p))
Sent(out, p, T) == HitCount(To(out, p), T)

Behind(net, q, p) == [net EXCEPT ![q][p] = Tail(@)]

(* p takes the next message from q, and sends what is in out *)
After(net, q, p, out) == Emit(Behind(net, q, p), p, out)

LEMMA NoneOn ==
    ASSUME NEW net \in Nets, NEW r \in PE, NEW s \in PE, NEW T
    PROVE  /\ Hit(net, r, s, T) \in Nat
           /\ Hit(net, r, s, T) = 0 <=> Holds(net, r, s) \cap T = {}
           /\ On(net, r, s) \in Seq(Message)
  <1> DEFINE x == On(net, r, s)
  <1>1. x \in Seq(Message)
    BY DEF Nets, On
  <1> HIDE DEF x
  <1>2. HitCount(x, T) \in Nat /\ (HitCount(x, T) = 0 <=> Hits(x, T) = {})
    BY <1>1, HitCountType DEF NoHit
  <1>3. Hits(x, T) = {} <=> ToSet(x) \cap T = {}
    BY DEF Hits, ToSet
  <1> QED
    BY <1>1, <1>2, <1>3 DEF x, Hit, Holds

LEMMA NoneSent ==
    ASSUME NEW out \in Sendings, NEW s \in PE, NEW T
    PROVE  /\ Sent(out, s, T) \in Nat
           /\ Sent(out, s, T) = 0 <=> Sends(out, s) \cap T = {}
           /\ To(out, s) \in Seq(Message)
  <1> DEFINE x == To(out, s)
  <1>1. x \in Seq(Message)
    BY DEF Sendings, To
  <1> HIDE DEF x
  <1>2. HitCount(x, T) \in Nat /\ (HitCount(x, T) = 0 <=> Hits(x, T) = {})
    BY <1>1, HitCountType DEF NoHit
  <1>3. Hits(x, T) = {} <=> ToSet(x) \cap T = {}
    BY DEF Hits, ToSet
  <1> QED
    BY <1>1, <1>2, <1>3 DEF x, Sent, Sends

LEMMA BehindIs ==
    ASSUME NEW net \in Nets, NEW q \in PE, NEW p \in PE, On(net, q, p) # <<>>
    PROVE  /\ Behind(net, q, p) \in Nets
           /\ Foremost(net, q, p) \in Message
           /\ Foremost(net, q, p) \in Holds(net, q, p)
  <1> DEFINE s == On(net, q, p)
  <1>1. s \in Seq(Message) /\ s # <<>>
    BY DEF Nets, On
  <1>2. Behind(net, q, p) \in Nets
    <2>1. Tail(s) \in Seq(Message)
      BY <1>1, HeadTailProperties
    <2> QED
      BY <2>1 DEF Behind, Nets, On
  <1> HIDE DEF s
  <1>3. /\ Head(s) \in Message
        /\ Len(s) \in Nat \ {0} /\ DOMAIN s = 1 .. Len(s) /\ Head(s) = s[1]
    BY <1>1, HeadTailProperties, EmptySeq, LenProperties
  <1>4. Head(s) \in ToSet(s)
    BY <1>3 DEF ToSet
  <1> QED
    BY <1>2, <1>3, <1>4 DEF s, Foremost, Holds

LEMMA BehindTo ==
    ASSUME NEW net \in Nets, NEW q \in PE, NEW p \in PE, On(net, q, p) # <<>>,
           NEW r \in PE, NEW s \in PE
    PROVE  /\ r = q /\ s = p => On(Behind(net, q, p), r, s) = Tail(On(net, r, s))
           /\ ~(r = q /\ s = p) => On(Behind(net, q, p), r, s) = On(net, r, s)
           /\ Holds(Behind(net, q, p), r, s) \subseteq Holds(net, r, s)
  <1> DEFINE a == On(net, r, s)
             b == On(Behind(net, q, p), r, s)
  <1>1. /\ r = q /\ s = p => b = Tail(a) /\ a # <<>>
        /\ ~(r = q /\ s = p) => b = a
        /\ a \in Seq(Message)
    BY DEF Nets, On, Behind
  <1> HIDE DEF a, b
  <1>2. a # <<>> => ToSet(Tail(a)) \subseteq ToSet(a)
    <2> SUFFICES ASSUME a # <<>>
                 PROVE  ToSet(Tail(a)) \subseteq ToSet(a)
      OBVIOUS
    <2>1. /\ Tail(a) \in Seq(Message)
          /\ Len(a) \in Nat \ {0} /\ DOMAIN a = 1 .. Len(a)
          /\ Len(Tail(a)) = Len(a) - 1
          /\ \A i \in 1 .. (Len(a) - 1) : Tail(a)[i] = a[i + 1]
      BY <1>1, HeadTailProperties, EmptySeq, LenProperties
    <2>2. DOMAIN Tail(a) = 1 .. (Len(a) - 1)
      BY <2>1, LenProperties
    <2> QED
      BY <2>1, <2>2 DEF ToSet
  <1>3. ToSet(b) \subseteq ToSet(a)
    BY <1>1, <1>2
  <1> QED
    BY <1>1, <1>3 DEF a, b, Holds

LEMMA BehindHits ==
    ASSUME NEW net \in Nets, NEW q \in PE, NEW p \in PE, On(net, q, p) # <<>>,
           NEW T, NEW r \in PE, NEW s \in PE
    PROVE  /\ r = q /\ s = p /\ Foremost(net, q, p) \in T =>
                 Hit(net, r, s, T) = Hit(Behind(net, q, p), r, s, T) + 1
           /\ ~(r = q /\ s = p /\ Foremost(net, q, p) \in T) =>
                 Hit(net, r, s, T) = Hit(Behind(net, q, p), r, s, T)
  <1> DEFINE a == On(net, q, p)
             b == On(net, r, s)
             d == On(Behind(net, q, p), r, s)
  <1>1. a \in Seq(Message) /\ a # <<>>
    BY NoneOn
  <1>2. /\ r = q /\ s = p => d = Tail(b)
        /\ ~(r = q /\ s = p) => d = b
    BY BehindTo
  <1>3. r = q /\ s = p => b = a
    OBVIOUS
  <1> HIDE DEF a, b, d
  <1>4. /\ HitCount(a, T) = HitCount(Tail(a), T) + HitCount(<<Head(a)>>, T)
        /\ HitCount(<<Head(a)>>, T) = IF Head(a) \in T THEN 1 ELSE 0
        /\ Tail(a) \in Seq(Message)
    BY <1>1, HitCountTail, HitCountSingle
  <1>5. HitCount(Tail(a), T) \in Nat
    BY <1>4, HitCountType
  <1> DEFINE h == Head(a)
             t == Tail(a)
  <1>6. /\ HitCount(a, T) = HitCount(t, T) + (IF h \in T THEN 1 ELSE 0)
        /\ r = q /\ s = p => d = t
        /\ HitCount(t, T) \in Nat
    BY <1>2, <1>3, <1>4, <1>5
  <1> HIDE DEF h, t
  <1>7. /\ r = q /\ s = p /\ h \in T => HitCount(b, T) = HitCount(d, T) + 1
        /\ ~(r = q /\ s = p /\ h \in T) => HitCount(b, T) = HitCount(d, T)
    <2>1. CASE r = q /\ s = p
      BY <1>3, <1>6, <2>1
    <2>2. CASE ~(r = q /\ s = p)
      BY <1>2, <2>2
    <2> QED
      BY <2>1, <2>2
  <1> QED
    BY <1>7 DEF a, b, d, h, Hit, Foremost

LEMMA EmitIs ==
    ASSUME NEW net \in Nets, NEW p \in PE, NEW out \in Sendings
    PROVE  Emit(net, p, out) \in Nets
  <1> DEFINE new == Emit(net, p, out)
  <1>1. /\ \A r, s \in PE : On(new, r, s) = IF r = p THEN On(net, r, s) \o To(out, s) ELSE On(net, r, s)
        /\ new = [r \in PE |-> [s \in PE |-> On(new, r, s)]]
    BY DEF Emit, Nets, On, To
  <1>2. \A r, s \in PE : On(net, r, s) \in Seq(Message) /\ To(out, s) \in Seq(Message)
    BY DEF Nets, On, Sendings, To
  <1> HIDE DEF new
  <1>3. ASSUME NEW r \in PE, NEW s \in PE
        PROVE  On(new, r, s) \in Seq(Message)
    <2> DEFINE a == On(net, r, s)
               b == To(out, s)
    <2>1. a \in Seq(Message) /\ b \in Seq(Message) /\ On(new, r, s) = IF r = p THEN a \o b ELSE a
      BY <1>1, <1>2
    <2> HIDE DEF a, b
    <2>2. a \o b \in Seq(Message)
      BY <2>1, ConcatProperties
    <2> QED
      BY <2>1, <2>2
  <1>4. new \in Nets
    BY <1>1, <1>3 DEF Nets
  <1> QED
    BY <1>4 DEF new

Joined(s, t) == s \o t
Rest(s) == Tail(s)

LEMMA EmitOn ==
    ASSUME NEW net \in Nets, NEW p \in PE, NEW out \in Sendings, NEW r \in PE, NEW s \in PE
    PROVE  /\ r = p => On(Emit(net, p, out), r, s) = Joined(On(net, r, s), To(out, s))
           /\ r # p => On(Emit(net, p, out), r, s) = On(net, r, s)
  BY DEF Emit, Nets, On, To, Joined

LEMMA EmitTo ==
    ASSUME NEW net \in Nets, NEW p \in PE, NEW out \in Sendings, NEW r \in PE, NEW s \in PE
    PROVE  /\ r = p => Holds(Emit(net, p, out), r, s) = Holds(net, r, s) \cup Sends(out, s)
           /\ r # p => Holds(Emit(net, p, out), r, s) = Holds(net, r, s)
  <1> DEFINE a == On(net, r, s)
             b == To(out, s)
             d == On(Emit(net, p, out), r, s)
             ab == Joined(a, b)
  <1>1. a \in Seq(Message) /\ b \in Seq(Message)
    BY DEF Nets, Sendings, On, To
  <1>2. (r = p => d = ab) /\ (r # p => d = a)
    BY EmitOn
  <1>3. ToSet(ab) = ToSet(a) \cup ToSet(b)
    BY <1>1, ToSetConcat DEF Joined
  <1> HIDE DEF a, b, d, ab
  <1>4. /\ r = p => ToSet(d) = ToSet(a) \cup ToSet(b)
        /\ r # p => ToSet(d) = ToSet(a)
    BY <1>2, <1>3
  <1> QED
    BY ONLY <1>4 DEF a, b, d, Holds, Sends

LEMMA EmitHits ==
    ASSUME NEW net \in Nets, NEW p \in PE, NEW out \in Sendings, NEW T, NEW r \in PE, NEW s \in PE
    PROVE  /\ r = p => Hit(Emit(net, p, out), r, s, T) = Hit(net, r, s, T) + Sent(out, s, T)
           /\ r # p => Hit(Emit(net, p, out), r, s, T) = Hit(net, r, s, T)
  <1> DEFINE a == On(net, r, s)
             b == To(out, s)
             d == On(Emit(net, p, out), r, s)
             ab == Joined(a, b)
  <1>1. a \in Seq(Message) /\ b \in Seq(Message)
    BY DEF Nets, Sendings, On, To
  <1>2. (r = p => d = ab) /\ (r # p => d = a)
    BY EmitOn
  <1> HIDE DEF a, b, d
  <1>3. HitCount(ab, T) = HitCount(a, T) + HitCount(b, T)
    BY <1>1, HitCountConcat DEF Joined
  <1> HIDE DEF ab
  <1>5. /\ r = p => HitCount(d, T) = HitCount(a, T) + HitCount(b, T)
        /\ r # p => HitCount(d, T) = HitCount(a, T)
    BY <1>2, <1>3
  <1> QED
    BY ONLY <1>5 DEF a, b, d, Hit, Sent

LEMMA AfterIs ==
    ASSUME NEW net \in Nets, NEW q \in PE, NEW p \in PE, On(net, q, p) # <<>>,
           NEW out \in Sendings
    PROVE  After(net, q, p, out) \in Nets
  BY BehindIs, EmitIs DEF After

LEMMA AfterTo ==
    ASSUME NEW net \in Nets, NEW q \in PE, NEW p \in PE, On(net, q, p) # <<>>,
           NEW out \in Sendings, NEW r \in PE, NEW s \in PE
    PROVE  /\ r # p => Holds(After(net, q, p, out), r, s) \subseteq Holds(net, r, s)
           /\ Holds(After(net, q, p, out), r, s) \subseteq Holds(net, r, s) \cup Sends(out, s)
  <1>1. /\ Behind(net, q, p) \in Nets
        /\ Holds(Behind(net, q, p), r, s) \subseteq Holds(net, r, s)
    BY BehindIs, BehindTo
  <1> DEFINE net1 == Behind(net, q, p)
             net2 == After(net, q, p, out)
  <1>2. /\ net1 \in Nets /\ Holds(net1, r, s) \subseteq Holds(net, r, s)
        /\ net2 = Emit(net1, p, out)
    BY <1>1 DEF After
  <1> HIDE DEF net1, net2
  <1>3. /\ r = p => Holds(net2, r, s) = Holds(net1, r, s) \cup Sends(out, s)
        /\ r # p => Holds(net2, r, s) = Holds(net1, r, s)
    BY <1>2, EmitTo
  <1>4. /\ r # p => Holds(net2, r, s) \subseteq Holds(net, r, s)
        /\ Holds(net2, r, s) \subseteq Holds(net, r, s) \cup Sends(out, s)
    BY <1>2, <1>3
  <1> QED
    BY <1>4 DEF net2

(* The message that p takes from q is in T, and was on its way from r to s *)
Takes(net, q, p, r, s, T) == r = q /\ s = p /\ Foremost(net, q, p) \in T

LEMMA AfterHits ==
    ASSUME NEW net \in Nets, NEW q \in PE, NEW p \in PE, On(net, q, p) # <<>>,
           NEW out \in Sendings, NEW T, NEW r \in PE, NEW s \in PE
    PROVE  /\ Hit(net, r, s, T) \in Nat /\ Sent(out, s, T) \in Nat
           /\ Hit(After(net, q, p, out), r, s, T) \in Nat
           /\ r = p /\ Takes(net, q, p, r, s, T) =>
                 Hit(After(net, q, p, out), r, s, T) + 1 = Hit(net, r, s, T) + Sent(out, s, T)
           /\ r = p /\ ~Takes(net, q, p, r, s, T) =>
                 Hit(After(net, q, p, out), r, s, T) = Hit(net, r, s, T) + Sent(out, s, T)
           /\ r # p /\ Takes(net, q, p, r, s, T) =>
                 Hit(After(net, q, p, out), r, s, T) + 1 = Hit(net, r, s, T)
           /\ r # p /\ ~Takes(net, q, p, r, s, T) =>
                 Hit(After(net, q, p, out), r, s, T) = Hit(net, r, s, T)
  <1> DEFINE net1 == Behind(net, q, p)
             net2 == After(net, q, p, out)
             a == Hit(net, r, s, T)
             b == Hit(net1, r, s, T)
             d == Hit(net2, r, s, T)
             e == Sent(out, s, T)
             takes == Takes(net, q, p, r, s, T)
  <1>1. /\ takes => a = b + 1
        /\ ~takes => a = b
    BY BehindHits DEF Takes
  <1>2. net1 \in Nets /\ net2 = Emit(net1, p, out) /\ net2 \in Nets
    BY BehindIs, AfterIs DEF After
  <1> HIDE DEF net1, net2
  <1>3. (r = p => d = b + e) /\ (r # p => d = b)
    BY <1>2, EmitHits
  <1>4. a \in Nat /\ b \in Nat /\ e \in Nat /\ d \in Nat
    BY <1>2, NoneOn, NoneSent
  <1> HIDE DEF a, b, d, e, takes
  <1>5. /\ r = p /\ takes => d + 1 = a + e
        /\ r = p /\ ~takes => d = a + e
        /\ r # p /\ takes => d + 1 = a
        /\ r # p /\ ~takes => d = a
    BY <1>1, <1>3, <1>4
  <1> QED
    BY <1>4, <1>5 DEF a, d, e, takes, net2

(* Towards s, p appends what it sends; the message that is taken is gone *)
LEMMA AfterOn ==
    ASSUME NEW net \in Nets, NEW q \in PE, NEW p \in PE, On(net, q, p) # <<>>,
           NEW out \in Sendings, NEW r \in PE, NEW s \in PE
    PROVE  /\ r # p /\ ~(r = q /\ s = p) => On(After(net, q, p, out), r, s) = On(net, r, s)
           /\ r # p /\ r = q /\ s = p => On(After(net, q, p, out), r, s) = Rest(On(net, r, s))
           /\ r = p /\ s # p => On(After(net, q, p, out), r, s) = Joined(On(net, r, s), To(out, s))
  <1> DEFINE net1 == Behind(net, q, p)
             net2 == After(net, q, p, out)
  <1>1. /\ r = q /\ s = p => On(net1, r, s) = Rest(On(net, r, s))
        /\ ~(r = q /\ s = p) => On(net1, r, s) = On(net, r, s)
    BY BehindTo DEF Rest
  <1>2. net1 \in Nets /\ net2 = Emit(net1, p, out)
    BY BehindIs DEF After
  <1> HIDE DEF net1, net2
  <1>3. /\ r = p => On(net2, r, s) = Joined(On(net1, r, s), To(out, s))
        /\ r # p => On(net2, r, s) = On(net1, r, s)
    BY <1>2, EmitOn
  <1>4. /\ r # p /\ ~(r = q /\ s = p) => On(net2, r, s) = On(net, r, s)
        /\ r # p /\ r = q /\ s = p => On(net2, r, s) = Rest(On(net, r, s))
        /\ r = p /\ s # p => On(net2, r, s) = Joined(On(net, r, s), To(out, s))
    BY <1>1, <1>3
  <1> QED
    BY <1>4 DEF net2

(* What a PE that runs m sends: copies of it to its children, and own *)
RunOut(p, m, own) ==
    [q \in PE |->
        (IF q \in span_tree_children(p) THEN <<Copy(m)>> ELSE <<>>) \o own[q]]

LEMMA RunOutTo ==
    ASSUME NEW p \in PE, NEW m \in GroupMessage, NEW own \in Sendings, NEW T, NEW s \in PE
    PROVE  LET new == RunOut(p, m, own)
           IN /\ To(new, s) \in Seq(Message)
              /\ s \in span_tree_children(p) =>
                    /\ Sends(new, s) = {Copy(m)} \cup Sends(own, s)
                    /\ To(own, s) = <<>> => To(new, s) = <<Copy(m)>>
                    /\ Copy(m) \notin T => Sent(new, s, T) = Sent(own, s, T)
              /\ s \notin span_tree_children(p) =>
                    /\ To(new, s) = To(own, s)
                    /\ Sends(new, s) = Sends(own, s)
                    /\ Sent(new, s, T) = Sent(own, s, T)
  <1> DEFINE new == RunOut(p, m, own)
             x == <<Copy(m)>>
             b == To(own, s)
             d == To(new, s)
             child == s \in span_tree_children(p)
  <1>1. Copy(m) \in Message
    BY MessagesAre
  <1>2. x \in Seq(Message) /\ b \in Seq(Message) /\ <<>> \in Seq(Message)
    BY <1>1, NoneSent
  <1>3. d = (IF child THEN x ELSE <<>>) \o b
    BY DEF RunOut, To
  <1>4. ToSet(x) = {Copy(m)} /\ (Copy(m) \notin T => HitCount(x, T) = 0)
    BY HitCountSingle DEF ToSet
  <1> HIDE DEF x, b, d, child, new
  <1>5. /\ x \o b \in Seq(Message) /\ <<>> \o b = b /\ x \o <<>> = x
        /\ ToSet(x \o b) = ToSet(x) \cup ToSet(b)
        /\ HitCount(x \o b, T) = HitCount(x, T) + HitCount(b, T)
        /\ HitCount(b, T) \in Nat
    BY <1>2, ConcatProperties, ToSetConcat, HitCountConcat, ConcatEmptySeq, HitCountType
  <1>6. CASE child
    <2> DEFINE y == x \o b
    <2>1. d = y
      BY <1>3, <1>6
    <2>2. /\ y \in Seq(Message) /\ ToSet(y) = {Copy(m)} \cup ToSet(b)
          /\ (b = <<>> => y = x)
          /\ (Copy(m) \notin T => HitCount(y, T) = HitCount(b, T))
      BY <1>4, <1>5
    <2> HIDE DEF y
    <2>3. /\ d \in Seq(Message) /\ ToSet(d) = {Copy(m)} \cup ToSet(b)
          /\ (b = <<>> => d = x)
          /\ (Copy(m) \notin T => HitCount(d, T) = HitCount(b, T))
      BY <2>1, <2>2
    <2> QED
      BY ONLY <1>6, <2>3 DEF b, d, x, child, new, Sends, Sent
  <1>7. CASE ~child
    <2>1. d = b
      BY <1>3, <1>5, <1>7
    <2> QED
      BY ONLY <1>2, <1>7, <2>1 DEF b, d, child, new, Sends, Sent
  <1> QED
    BY <1>6, <1>7

LEMMA RunOutIs ==
    ASSUME NEW p \in PE, NEW m \in GroupMessage, NEW own \in Sendings
    PROVE  RunOut(p, m, own) \in Sendings
  <1> DEFINE out == RunOut(p, m, own)
  <1>1. out = [s \in PE |-> To(out, s)]
    BY DEF RunOut, To
  <1>2. \A s \in PE : To(out, s) \in Seq(Message)
    BY RunOutTo
  <1> HIDE DEF out
  <1>3. out \in Sendings
    BY <1>1, <1>2 DEF Sendings
  <1> QED
    BY <1>3 DEF out

-----------------------------------------------------------------------------
(* Sums *)

GCounts(s) == [i \in DOMAIN s |-> s[i].gcount]

LEMMA FoldIsSum ==
    ASSUME NEW s \in Seq(CountMessage)
    PROVE  FoldSeq(LAMBDA m, sum : m.gcount + sum, 0, s) = SumOver(GCounts(s), DOMAIN s)
  <1> DEFINE D == DOMAIN s
             f == GCounts(s)
             Eq(g) == g = [t \in SUBSET D |->
                             IF t = {} THEN 0
                             ELSE s[Chosen(t)].gcount + g[t \ {Chosen(t)}]]
             h == CHOOSE g : Eq(g)
  <1>1. FoldSeq(LAMBDA m, sum : m.gcount + sum, 0, s) = h[D]
    BY DEF FoldSeq, FoldFunction, FoldFunctionOnSet, MapThenFoldSet, Chosen
  <1>2. Len(s) \in Nat /\ D = 1 .. Len(s) /\ \A i \in D : s[i] \in CountMessage
    BY LenProperties, ElementOfSeq
  <1>3. IsFiniteSet(D) /\ \A i \in D : f[i] \in Int /\ f[i] = s[i].gcount
    BY <1>2, FS_Interval DEF GCounts, CountMessage
  <1>4. PICK g : IsSum(g, f, D)
    BY <1>3, SumExists
  <1>5. \A t \in SUBSET D : t # {} => Chosen(t) \in D
    BY DEF Chosen
  <1>6. Eq(g)
    BY <1>3, <1>4, <1>5 DEF IsSum
  <1>7. Eq(h)
    BY <1>6
  <1> HIDE DEF h, f, D
  <1>8. IsSum(h, f, D)
    BY <1>3, <1>5, <1>7 DEF IsSum
  <1>9. D \in SUBSET D
    OBVIOUS
  <1>10. SumOver(f, D) = h[D]
    BY <1>3, <1>8, <1>9, SumOverSubset
  <1> QED
    BY <1>1, <1>10 DEF f, D

-----------------------------------------------------------------------------
(* Types *)

Reducers == [PE -> [Tags -> Seq(CountMessage)]]

(* TypeOK, and that the tables have an entry for each PE *)
TypeInv == TypeOK /\ queue \in Nets /\ received \in Reducers

LEMMA SumIs ==
    ASSUME received \in Reducers, NEW p \in PE, NEW tag \in Tags, NEW n \in CountMessage
    PROVE  /\ With(p, tag, n) \in Seq(CountMessage)
           /\ Len(received[p][tag]) \in Nat
           /\ Len(With(p, tag, n)) = Len(received[p][tag]) + 1
           /\ ToSet(With(p, tag, n)) = ToSet(received[p][tag]) \cup {n}
           /\ With(p, tag, n)[1] \in ToSet(With(p, tag, n))
           /\ Sum(p, tag, n) \in CountMessage
           /\ Sum(p, tag, n).target = With(p, tag, n)[1].target
           /\ Sum(p, tag, n).gcount =
                 SumOver(GCounts(With(p, tag, n)), DOMAIN With(p, tag, n))
  <1> DEFINE s == With(p, tag, n)
  <1>1. received[p][tag] \in Seq(CountMessage)
    BY DEF Reducers
  <1>2. Len(received[p][tag]) \in Nat
    BY <1>1, LenProperties
  <1>3. /\ s \in Seq(CountMessage) /\ Len(s) = Len(received[p][tag]) + 1
        /\ ToSet(s) = ToSet(received[p][tag]) \cup {n}
    BY <1>1, AppendFacts, ToSetAppend DEF With
  <1> HIDE DEF s
  <1>4. /\ DOMAIN s = 1 .. Len(s) /\ 1 \in DOMAIN s
        /\ \A i \in DOMAIN s : s[i] \in CountMessage
    BY <1>2, <1>3, LenProperties, ElementOfSeq
  <1>5. s[1] \in ToSet(s) /\ s[1].target \in Col
    BY <1>4 DEF ToSet, CountMessage
  <1>6. FoldSeq(LAMBDA m, sum : m.gcount + sum, 0, s) = SumOver(GCounts(s), DOMAIN s)
    BY <1>3, FoldIsSum
  <1>7. SumOver(GCounts(s), DOMAIN s) \in Int
    <2>1. IsFiniteSet(DOMAIN s)
      BY <1>2, <1>3, <1>4, FS_Interval
    <2>2. \A i \in DOMAIN s : GCounts(s)[i] \in Int
      BY <1>4 DEF GCounts, CountMessage
    <2> QED
      BY <2>1, <2>2, SumOverType
  <1>8. Sum(p, tag, n) = Count(s[1].target, SumOver(GCounts(s), DOMAIN s))
    BY <1>6 DEF Sum, s
  <1> QED
    BY <1>2, <1>3, <1>5, <1>7, <1>8, CountIsMessage DEF s

LEMMA UpwardIs ==
    ASSUME received \in Reducers, NEW p \in PE, NEW tag \in Tags, NEW n \in CountMessage
    PROVE  upward(p, tag, n) \in Sendings
  <1>1. Sum(p, tag, n) \in CountMessage
    BY SumIs
  <1>2. Posted(Sum(p, tag, n)) \in Message /\ Redux(tag, Sum(p, tag, n)) \in Message
    BY <1>1, MessagesAre
  <1>3. 0 \in PE /\ (p # 0 => span_tree_parent(p) \in PE)
    BY FinitePEs, TreeIs
  <1>4. /\ Nothing \in Sendings
        /\ OnlyTo(0, Posted(Sum(p, tag, n))) \in Sendings
        /\ p # 0 => OnlyTo(span_tree_parent(p), Redux(tag, Sum(p, tag, n))) \in Sendings
    BY <1>2, <1>3, OnlyToIs
  <1> QED
    BY <1>4 DEF upward

LEMMA ReduceType ==
    ASSUME TypeInv, NEW p \in PE, NEW tag \in Tags, NEW n \in CountMessage,
           Reduce(p, tag, n)
    PROVE  /\ received' \in Reducers
           /\ \A r \in PE, t \in Tags :
                 received'[r][t] = IF r = p /\ t = tag
                                   THEN IF Full(p, tag, n) THEN <<>> ELSE With(p, tag, n)
                                   ELSE received[r][t]
           /\ \A r \in PE, t \in Tags :
                 Len(received'[r][t]) <= Cardinality(span_tree_children(r))
  <1> DEFINE new == IF Full(p, tag, n) THEN <<>> ELSE With(p, tag, n)
  <1>1. received \in Reducers
        /\ \A r \in PE, t \in Tags : Len(received[r][t]) <= Cardinality(span_tree_children(r))
    BY DEF TypeInv, TypeOK
  <1>2. /\ With(p, tag, n) \in Seq(CountMessage)
        /\ Len(received[p][tag]) \in Nat
        /\ Len(With(p, tag, n)) = Len(received[p][tag]) + 1
    BY <1>1, SumIs
  <1>3. new \in Seq(CountMessage)
    BY <1>2
  <1>4. Cardinality(span_tree_children(p)) \in Nat
    BY TreeIs
  <1>5. Len(new) <= Cardinality(span_tree_children(p))
    <2>1. CASE Full(p, tag, n)
      BY <1>4, <2>1
    <2>2. CASE ~Full(p, tag, n)
      BY <1>1, <1>2, <1>4, <2>2 DEF Full, expected
    <2> QED
      BY <2>1, <2>2
  <1>6. received' = [received EXCEPT ![p][tag] = new]
    BY DEF Reduce
  <1> HIDE DEF new
  <1>7. /\ received' \in Reducers
        /\ \A r \in PE, t \in Tags :
              received'[r][t] = IF r = p /\ t = tag THEN new ELSE received[r][t]
    BY <1>1, <1>3, <1>6 DEF Reducers
  <1>8. \A r \in PE, t \in Tags : Len(received'[r][t]) <= Cardinality(span_tree_children(r))
    BY <1>1, <1>5, <1>7
  <1> QED
    BY <1>7, <1>8 DEF new

LEMMA TypeInit == Init => TypeInv
  <1> SUFFICES ASSUME Init
               PROVE  TypeInv
    OBVIOUS
  <1>1. <<>> \in Seq(Message) /\ <<>> \in Seq(CountMessage) /\ Len(<<>>) = 0
    OBVIOUS
  <1>2. queue \in Nets /\ received \in Reducers
    BY <1>1 DEF Init, Nets, Reducers
  <1>3. \A p \in PE : Cardinality(span_tree_children(p)) \in Nat
    BY TreeIs
  <1>4. \A p \in PE : \A tag \in Tags :
           /\ received[p][tag] \in Seq(CountMessage)
           /\ Len(received[p][tag]) <= Cardinality(span_tree_children(p))
    BY <1>1, <1>3 DEF Init
  <1>5. \A p, q \in PE : queue[p][q] \in Seq(Message)
    BY <1>2 DEF Nets
  <1>6. /\ lcount \in [PE -> [Col -> Int]] /\ watched \in [PE -> SUBSET Col]
        /\ started \subseteq Col /\ asleep \subseteq Col /\ fault \subseteq PE
        /\ round \in [Col -> Nat]
        /\ \A c \in Col : round[c] <= Rounds[c]
    BY DetectionAssumption DEF Init
  <1> QED
    BY <1>2, <1>4, <1>5, <1>6 DEF TypeInv, TypeOK, Message

(* What a step of the network and the reducers must be for types to hold *)
LEMMA TypeKept ==
    ASSUME queue' \in Nets, received' \in Reducers,
           \A p \in PE : \A tag \in Tags :
              Len(received'[p][tag]) <= Cardinality(span_tree_children(p)),
           lcount' \in [PE -> [Col -> Int]], watched' \in [PE -> SUBSET Col],
           started' \subseteq Col, asleep' \subseteq Col, fault' \subseteq PE,
           round' \in [Col -> Nat], \A c \in Col : round'[c] <= Rounds[c]
    PROVE  TypeInv'
  <1>1. \A p, q \in PE : queue'[p][q] \in Seq(Message)
    BY DEF Nets
  <1>2. \A p \in PE : \A tag \in Tags : received'[p][tag] \in Seq(CountMessage)
    BY DEF Reducers
  <1> QED
    BY <1>1, <1>2 DEF TypeInv, TypeOK, Message, Reducers, Nets

-----------------------------------------------------------------------------
(* What running a message does to a PE *)

Ends(m) == m.entry = "receive_count_" /\ complete(m.count)

(* The messages upon which a PE contributes to a wave *)
Marks(m) ==
    \/ m.entry = "start_detection"
    \/ m.entry = "receive_count_" /\ ~complete(m.count)

NextCounts(l, m) ==
    [l EXCEPT ![m.count.target] =
        IF m.entry = "produce" THEN l[m.count.target] + NumPes
        ELSE IF m.entry = "consume" THEN l[m.count.target] - 1
        ELSE IF Ends(m) THEN 0
        ELSE l[m.count.target]]

NextWatched(w, m) ==
    IF m.entry = "start_detection" THEN w \cup {m.count.target}
    ELSE IF Ends(m) THEN w \ {m.count.target}
    ELSE w

NextStarted(p, m) ==
    IF p = 0 /\ m.entry = "produce" THEN started \ {m.count.target}
    ELSE IF p = 0 /\ m.entry = "consume" THEN started \cup {m.count.target}
    ELSE started

Mine(p, c) == Count(c, lcount[p][c])

Own(p, m) ==
    IF m.entry = "produce" THEN OnlyTo(p, Post("consume", m.count.target))
    ELSE IF m.entry = "consume"
         THEN IF p = 0 /\ m.count.target \notin started
              THEN OnlyTo(p, Post("start_detection", m.count.target)) ELSE Nothing
    ELSE IF Marks(m)
         THEN upward(p, compress(m.count.target), Mine(p, m.count.target))
    ELSE IF p = 0 THEN OnlyTo(0, Resume(m.count.target)) ELSE Nothing

(* An assertion fails *)
Bad(p, m) ==
    \/ m.entry = "receive_count_" /\ Orphan(p, m.count.target)
    \/ Marks(m) /\ Mixed(p, compress(m.count.target), Mine(p, m.count.target))

Runs(q, p, m) ==
    /\ lcount' = [lcount EXCEPT ![p] = NextCounts(lcount[p], m)]
    /\ watched' = [watched EXCEPT ![p] = NextWatched(watched[p], m)]
    /\ started' = NextStarted(p, m)
    /\ IF Marks(m)
       THEN Reduce(p, compress(m.count.target), Mine(p, m.count.target))
       ELSE received' = received
    /\ queue' = After(queue, q, p, RunOut(p, m, Own(p, m)))
    /\ fault' = IF Bad(p, m) THEN fault \cup {p} ELSE fault

LEMMA RunsIs ==
    ASSUME TypeInv, NEW q \in PE, NEW p \in PE, NEW m \in GroupMessage,
           \/ Produce(Taken(q, p), p, m)
           \/ Consume(Taken(q, p), p, m)
           \/ StartDetection(Taken(q, p), p, m)
           \/ Again(Taken(q, p), p, m)
           \/ Complete(Taken(q, p), p, m)
    PROVE  Runs(q, p, m)
  <1> DEFINE c == m.count.target
             net == Taken(q, p)
  <1>1. /\ c \in Col /\ net = Behind(queue, q, p)
        /\ lcount \in [PE -> [Col -> Int]] /\ watched \in [PE -> SUBSET Col]
        /\ started \subseteq Col
    BY MessagesAre, MessageIs DEF Taken, Behind, TypeInv, TypeOK
  <1>2. \A own : Run(net, p, m, own) =>
                    queue' = After(queue, q, p, RunOut(p, m, own))
    BY <1>1 DEF Run, RunOut, After
  <1> HIDE DEF c, net
  <1>3. lcount[p] = NextCounts(lcount[p], m) \/ m.entry \in {"produce", "consume"} \/ Ends(m)
    <2>1. lcount[p] \in [Col -> Int]
      BY <1>1
    <2> QED
      BY <2>1 DEF NextCounts
  <1>4. lcount = [lcount EXCEPT ![p] = lcount[p]] /\ watched = [watched EXCEPT ![p] = watched[p]]
    BY <1>1
  <1>5. CASE Produce(net, p, m)
    <2>1. /\ m.entry = "produce" /\ ~Marks(m) /\ ~Ends(m) /\ ~Bad(p, m)
          /\ Own(p, m) = OnlyTo(p, Post("consume", c))
      BY <1>5 DEF Produce, Marks, Ends, Bad, Own, c
    <2>2. lcount' = [lcount EXCEPT ![p] = NextCounts(lcount[p], m)]
      BY <1>1, <1>5, <2>1 DEF Produce, NextCounts, c
    <2>3. watched' = [watched EXCEPT ![p] = NextWatched(watched[p], m)]
      BY <1>4, <1>5, <2>1 DEF Produce, NextWatched
    <2> QED
      BY <1>2, <1>5, <2>1, <2>2, <2>3 DEF Produce, Runs, NextStarted, c
  <1>6. CASE Consume(net, p, m)
    <2>1. m.entry = "consume" /\ ~Marks(m) /\ ~Ends(m) /\ ~Bad(p, m)
      BY <1>6 DEF Consume, Marks, Ends, Bad
    <2>2. lcount' = [lcount EXCEPT ![p] = NextCounts(lcount[p], m)]
      BY <1>1, <1>6, <2>1 DEF Consume, NextCounts, c
    <2>3. watched' = [watched EXCEPT ![p] = NextWatched(watched[p], m)]
      BY <1>4, <1>6, <2>1 DEF Consume, NextWatched
    <2>4. started' = NextStarted(p, m)
      BY <1>6, <2>1 DEF Consume, NextStarted, c
    <2>5. Run(net, p, m, Own(p, m))
      BY <1>6, <2>1 DEF Consume, Own, c
    <2> QED
      BY <1>2, <1>6, <2>1, <2>2, <2>3, <2>4, <2>5 DEF Consume, Runs
  <1>7. CASE StartDetection(net, p, m)
    <2>1. m.entry = "start_detection" /\ Marks(m) /\ ~Ends(m)
      BY <1>7 DEF StartDetection, Marks, Ends
    <2>2. lcount' = [lcount EXCEPT ![p] = NextCounts(lcount[p], m)]
      BY <1>3, <1>4, <1>7, <2>1 DEF StartDetection
    <2>3. watched' = [watched EXCEPT ![p] = NextWatched(watched[p], m)]
      BY <1>1, <1>7, <2>1 DEF StartDetection, NextWatched, c
    <2>4. Run(net, p, m, Own(p, m))
      BY <1>7, <2>1 DEF StartDetection, Contribute, Own, Mine
    <2>5. Bad(p, m) <=> Mixed(p, compress(c), Mine(p, c))
      BY <2>1 DEF Bad, c
    <2>6. started' = NextStarted(p, m)
      BY <1>7, <2>1 DEF StartDetection, NextStarted
    <2> QED
      BY <1>2, <1>7, <2>1, <2>2, <2>3, <2>4, <2>5, <2>6
         DEF StartDetection, Contribute, Runs, Refuse, Mine, c
  <1>8. CASE Again(net, p, m)
    <2>1. m.entry = "receive_count_" /\ Marks(m) /\ ~Ends(m)
      BY <1>8 DEF Again, Marks, Ends
    <2>2. lcount' = [lcount EXCEPT ![p] = NextCounts(lcount[p], m)]
      BY <1>3, <1>4, <1>8, <2>1 DEF Again
    <2>3. watched' = [watched EXCEPT ![p] = NextWatched(watched[p], m)]
      BY <1>4, <1>8, <2>1 DEF Again, NextWatched
    <2>4. Run(net, p, m, Own(p, m))
      BY <1>8, <2>1 DEF Again, Contribute, Own, Mine
    <2>5. Bad(p, m) <=> Orphan(p, c) \/ Mixed(p, compress(c), Mine(p, c))
      BY <2>1 DEF Bad, c
    <2>6. started' = NextStarted(p, m)
      BY <1>8, <2>1 DEF Again, NextStarted
    <2> QED
      BY <1>2, <1>8, <2>1, <2>2, <2>3, <2>4, <2>5, <2>6
         DEF Again, Contribute, Runs, Refuse, Mine, c
  <1>9. CASE Complete(net, p, m)
    <2>1. m.entry = "receive_count_" /\ ~Marks(m) /\ Ends(m)
      BY <1>9 DEF Complete, Marks, Ends
    <2>2. lcount' = [lcount EXCEPT ![p] = NextCounts(lcount[p], m)]
      BY <1>1, <1>9, <2>1 DEF Complete, NextCounts, c
    <2>3. watched' = [watched EXCEPT ![p] = NextWatched(watched[p], m)]
      BY <1>1, <1>9, <2>1 DEF Complete, NextWatched, c
    <2>4. Run(net, p, m, Own(p, m))
      BY <1>9, <2>1 DEF Complete, Own, c
    <2>5. Bad(p, m) <=> Orphan(p, c)
      BY <2>1 DEF Bad, c
    <2>6. started' = NextStarted(p, m)
      BY <1>9, <2>1 DEF Complete, NextStarted
    <2> QED
      BY <1>2, <1>9, <2>1, <2>2, <2>3, <2>4, <2>5, <2>6 DEF Complete, Runs, Refuse, c
  <1> QED
    BY <1>5, <1>6, <1>7, <1>8, <1>9 DEF net

LEMMA OwnIs ==
    ASSUME TypeInv, NEW p \in PE, NEW m \in GroupMessage
    PROVE  Own(p, m) \in Sendings
  <1> DEFINE c == m.count.target
  <1>1. c \in Col /\ lcount[p][c] \in Int /\ received \in Reducers
    BY MessagesAre, MessageIs DEF TypeInv, TypeOK
  <1>2. compress(c) \in Tags /\ Mine(p, c) \in CountMessage
    BY <1>1, CountIsMessage DEF Mine
  <1>3. upward(p, compress(c), Mine(p, c)) \in Sendings
    BY <1>1, <1>2, UpwardIs
  <1>4. /\ OnlyTo(p, Post("consume", c)) \in Sendings
        /\ OnlyTo(p, Post("start_detection", c)) \in Sendings
        /\ OnlyTo(0, Resume(c)) \in Sendings
        /\ Nothing \in Sendings
    <2>1. /\ Post("consume", c) \in Message /\ Post("start_detection", c) \in Message
          /\ Resume(c) \in Message
      BY <1>1, MessagesAre
    <2> QED
      BY <2>1, FinitePEs, OnlyToIs
  <1> QED
    BY <1>3, <1>4 DEF Own

LEMMA RunsType ==
    ASSUME TypeInv, NEW q \in PE, NEW p \in PE, queue[q][p] # <<>>,
           NEW m \in GroupMessage, Runs(q, p, m), UNCHANGED <<round, asleep>>
    PROVE  TypeInv'
  <1> DEFINE c == m.count.target
  <1>1. /\ c \in Col /\ lcount \in [PE -> [Col -> Int]] /\ watched \in [PE -> SUBSET Col]
        /\ started \subseteq Col /\ asleep \subseteq Col /\ fault \subseteq PE
        /\ round \in [Col -> Nat] /\ \A d \in Col : round[d] <= Rounds[d]
        /\ received \in Reducers /\ queue \in Nets
        /\ \A r \in PE : \A tag \in Tags :
              Len(received[r][tag]) <= Cardinality(span_tree_children(r))
    BY MessagesAre, MessageIs DEF TypeInv, TypeOK
  <1>2. compress(c) \in Tags /\ Mine(p, c) \in CountMessage
    BY <1>1, CountIsMessage DEF Mine
  <1>3. NextCounts(lcount[p], m) \in [Col -> Int]
    BY <1>1, NumPesAssumption DEF NextCounts
  <1>4. NextWatched(watched[p], m) \subseteq Col
    BY <1>1 DEF NextWatched
  <1>5. NextStarted(p, m) \subseteq Col
    BY <1>1 DEF NextStarted
  <1>6. queue' \in Nets
    <2>1. On(queue, q, p) # <<>>
      BY DEF On
    <2>2. RunOut(p, m, Own(p, m)) \in Sendings
      BY OwnIs, RunOutIs
    <2>3. After(queue, q, p, RunOut(p, m, Own(p, m))) \in Nets
      BY <1>1, <2>1, <2>2, AfterIs
    <2> QED
      BY <2>3 DEF Runs
  <1>7. /\ received' \in Reducers
        /\ \A r \in PE : \A tag \in Tags :
              Len(received'[r][tag]) <= Cardinality(span_tree_children(r))
    <2>1. CASE Marks(m)
      <3>1. Reduce(p, compress(c), Mine(p, c))
        BY <2>1 DEF Runs
      <3> QED
        BY <1>2, <3>1, ReduceType
    <2>2. CASE ~Marks(m)
      BY <1>1, <2>2 DEF Runs
    <2> QED
      BY <2>1, <2>2
  <1>8. /\ lcount' \in [PE -> [Col -> Int]] /\ watched' \in [PE -> SUBSET Col]
        /\ started' \subseteq Col /\ fault' \subseteq PE
    BY <1>1, <1>3, <1>4, <1>5 DEF Runs
  <1> QED
    BY <1>1, <1>6, <1>7, <1>8, TypeKept

LEMMA TypeStep ==
    ASSUME TypeInv, [Next]_vars
    PROVE  TypeInv'
  <1>1. /\ lcount \in [PE -> [Col -> Int]] /\ watched \in [PE -> SUBSET Col]
        /\ started \subseteq Col /\ asleep \subseteq Col /\ fault \subseteq PE
        /\ round \in [Col -> Nat] /\ \A d \in Col : round[d] <= Rounds[d]
        /\ received \in Reducers /\ queue \in Nets
        /\ \A r \in PE : \A tag \in Tags :
              Len(received[r][tag]) <= Cardinality(span_tree_children(r))
    BY DEF TypeInv, TypeOK
  <1>2. ASSUME NEW c \in Col, Begin(c)
        PROVE  TypeInv'
    <2>1. Post("produce", c) \in Message /\ 0 \in PE
      BY MessagesAre, FinitePEs
    <2>2. Emit(queue, 0, OnlyTo(0, Post("produce", c))) \in Nets
      BY <1>1, <2>1, OnlyToIs, EmitIs
    <2>3. round' \in [Col -> Nat] /\ \A d \in Col : round'[d] <= Rounds[d]
      <3>1. round[c] \in Nat /\ Rounds[c] \in Nat /\ round[c] < Rounds[c]
        BY <1>1, <1>2, DetectionAssumption DEF Begin
      <3>2. round[c] + 1 \in Nat /\ round[c] + 1 <= Rounds[c]
        BY <3>1
      <3>3. round' = [round EXCEPT ![c] = round[c] + 1]
        BY <1>2 DEF Begin
      <3> QED
        BY <1>1, <3>2, <3>3
    <2> QED
      BY <1>1, <1>2, <2>2, <2>3, TypeKept DEF Begin
  <1>3. ASSUME NEW q \in PE, NEW p \in PE, Receive(q, p)
        PROVE  TypeInv'
    <2> DEFINE m == Head(queue[q][p])
    <2>1. /\ queue[q][p] # <<>> /\ m \in Message
          /\ Taken(q, p) = Behind(queue, q, p) /\ Behind(queue, q, p) \in Nets
      BY <1>1, <1>3, BehindIs DEF Receive, Taken, Behind, On, Foremost
    <2> HIDE DEF m
    <2>2. \/ /\ m.kind \in {"post", "copy"}
             /\ ReceiveGroup(q, p, m)
             /\ UNCHANGED <<round, asleep>>
          \/ /\ ReceiveRedux(q, p, m)
             /\ UNCHANGED <<round, asleep>>
          \/ ReceiveResume(q, p, m)
      BY <1>3 DEF Receive, m
    <2>3. ASSUME m.kind \in {"post", "copy"}, ReceiveGroup(q, p, m), UNCHANGED <<round, asleep>>
          PROVE  TypeInv'
      <3>1. m \in GroupMessage
        BY <2>1, <2>3, MessageIs
      <3>2. CASE \/ Produce(Taken(q, p), p, m)
                 \/ Consume(Taken(q, p), p, m)
                 \/ StartDetection(Taken(q, p), p, m)
                 \/ Again(Taken(q, p), p, m)
                 \/ Complete(Taken(q, p), p, m)
        BY <2>1, <2>3, <3>1, <3>2, RunsIs, RunsType
      <3>3. CASE /\ queue' = Emit(Taken(q, p), p, OnlyTo(0, m))
                 /\ UNCHANGED <<lcount, watched, received, started, fault>>
        <4>1. queue' \in Nets
          BY <2>1, <3>3, FinitePEs, OnlyToIs, EmitIs
        <4> QED
          BY <1>1, <2>3, <3>3, <4>1, TypeKept
      <3> QED
        BY <2>3, <3>2, <3>3 DEF ReceiveGroup
    <2>4. ASSUME ReceiveRedux(q, p, m), UNCHANGED <<round, asleep>>
          PROVE  TypeInv'
      <3>1. m.tag \in Tags /\ m.count \in CountMessage
        BY <2>1, <2>4, MessageIs DEF ReceiveRedux
      <3>2. /\ received' \in Reducers
            /\ \A r \in PE : \A tag \in Tags :
                  Len(received'[r][tag]) <= Cardinality(span_tree_children(r))
        BY <2>4, <3>1, ReduceType DEF ReceiveRedux
      <3>3. queue' \in Nets
        BY <1>1, <2>1, <2>4, <3>1, UpwardIs, EmitIs DEF ReceiveRedux
      <3>4. fault' \subseteq PE
        BY <1>1, <2>4 DEF ReceiveRedux, Refuse
      <3> QED
        BY <1>1, <2>4, <3>2, <3>3, <3>4, TypeKept DEF ReceiveRedux
    <2>5. ASSUME ReceiveResume(q, p, m)
          PROVE  TypeInv'
      BY <1>1, <2>1, <2>5, TypeKept DEF ReceiveResume
    <2> QED
      BY <2>2, <2>3, <2>4, <2>5
  <1>4. ASSUME UNCHANGED vars
        PROVE  TypeInv'
    BY <1>1, <1>4, TypeKept DEF vars
  <1> QED
    BY <1>2, <1>3, <1>4 DEF Next

(* Whatever the tags: the detectors' tables keep their shape, and no       *)
(* reducer ever holds as many contributions as it waits for.               *)
THEOREM TypeCorrect == Spec => []TypeOK
  <1>1. Init => TypeInv
    BY TypeInit
  <1>2. TypeInv /\ [Next]_vars => TypeInv'
    BY TypeStep
  <1>3. TypeInv => TypeOK
    BY DEF TypeInv
  <1> QED
    BY <1>1, <1>2, <1>3, PTL DEF Spec

-----------------------------------------------------------------------------
(* A wave: the contributions of all PEs, on their way up the tree *)

(* The contributions to c in p's reducer *)
Gathered(rec, p, tag) == rec[p][tag]

(* How many of the root's broadcasts p has run *)
At(h, p) == h.pos[p]

Contributors(p) == {p} \cup span_tree_children(p)

Reds(c) == {m \in Message : m.kind = "redux" /\ m.tag = compress(c)}

(* Whose contributions p's reducer has got, when the PEs that have come to *)
(* mk have contributed and those in fd have combined what they had         *)
Delivered(c, mk, fd, h, net, p) ==
    {r \in Contributors(p) :
        IF r = p THEN At(h, p) >= mk
        ELSE r \in fd /\ Hit(net, r, p, Reds(c)) = 0}

(* A count of a wave to which each PE contributes v *)
Sound(n, c, v) ==
    n.target = c /\ n.gcount \in Nat /\ (n.gcount = 0 => v = 0)

WaveOf(c, mk, fd, v, h, net, rec) ==
    /\ fd \subseteq PE /\ v \in Nat
    /\ \A p \in fd : /\ Delivered(c, mk, fd, h, net, p) = Contributors(p)
                     /\ Gathered(rec, p, compress(c)) = <<>>
    /\ \A p \in PE \ fd :
          /\ Delivered(c, mk, fd, h, net, p) # Contributors(p)
          /\ Len(Gathered(rec, p, compress(c))) =
                Cardinality(Delivered(c, mk, fd, h, net, p))
    /\ \A q \in PE \ {0} :
          LET k == Hit(net, q, span_tree_parent(q), Reds(c))
          IN k <= 1 /\ (q \notin fd => k = 0)
    /\ \A q \in PE \ {0} :
          \A m \in Holds(net, q, span_tree_parent(q)) \cap Reds(c) :
             Sound(m.count, c, v)
    /\ \A p \in PE : \A n \in ToSet(Gathered(rec, p, compress(c))) : Sound(n, c, v)

LEMMA ContributorsAre ==
    ASSUME NEW p \in PE
    PROVE  /\ Contributors(p) \subseteq PE
           /\ IsFiniteSet(Contributors(p))
           /\ Cardinality(Contributors(p)) = expected(p)
           /\ \A r \in Contributors(p) \ {p} :
                 r \in PE \ {0} /\ span_tree_parent(r) = p
  <1>1. /\ p \notin span_tree_children(p) /\ IsFiniteSet(span_tree_children(p))
        /\ 0 \notin span_tree_children(p) /\ span_tree_children(p) \subseteq PE
        /\ Cardinality(span_tree_children(p)) \in Nat
    BY TreeIs
  <1>2. Contributors(p) = span_tree_children(p) \cup {p}
    BY DEF Contributors
  <1>3. IsFiniteSet(Contributors(p)) /\ Cardinality(Contributors(p)) = Cardinality(span_tree_children(p)) + 1
    BY <1>1, <1>2, FS_AddElement
  <1> QED
    BY <1>1, <1>2, <1>3, TreeIs DEF expected

(* When the root has combined a wave, all PEs have *)
LEMMA AllFired ==
    ASSUME NEW c, NEW mk, NEW fd, NEW v, NEW h, NEW net, NEW rec,
           WaveOf(c, mk, fd, v, h, net, rec), 0 \in fd
    PROVE  /\ fd = PE
           /\ \A p \in PE : At(h, p) >= mk /\ Gathered(rec, p, compress(c)) = <<>>
           /\ \A q \in PE \ {0} :
                 Hit(net, q, span_tree_parent(q), Reds(c)) = 0
  <1>1. /\ fd \subseteq PE
        /\ \A p \in fd : /\ Delivered(c, mk, fd, h, net, p) = Contributors(p)
                         /\ Gathered(rec, p, compress(c)) = <<>>
    BY DEF WaveOf
  <1>2. ASSUME NEW p \in fd, NEW r \in span_tree_children(p)
        PROVE  r \in fd /\ Hit(net, r, p, Reds(c)) = 0
    <2>1. p \in PE /\ r # p /\ r \in Contributors(p)
      BY <1>1, TreeIs DEF Contributors
    <2>2. r \in Delivered(c, mk, fd, h, net, p)
      BY <1>1, <2>1
    <2> QED
      BY <2>1, <2>2 DEF Delivered
  <1> DEFINE B == PE \ fd
  <1>3. B = {}
    <2> SUFFICES ASSUME B # {}
                 PROVE  FALSE
      OBVIOUS
    <2>1. PICK p \in B : \A r \in B : p <= r
      <3>1. B \in SUBSET Nat
        BY NumPesAssumption DEF PE
      <3> HIDE DEF B
      <3> QED
        BY <3>1, SmallestInSet
    <2>2. p \in PE \ {0}
      OBVIOUS
    <2>3. /\ span_tree_parent(p) \in PE /\ span_tree_parent(p) < p
          /\ p \in span_tree_children(span_tree_parent(p))
      BY <2>2, TreeIs
    <2>4. span_tree_parent(p) \in fd
      <3>1. ~(p <= span_tree_parent(p))
        BY <2>2, <2>3, NumPesAssumption DEF PE
      <3> QED
        BY <2>1, <2>3, <3>1
    <2> QED
      BY <1>2, <2>3, <2>4
  <1>4. fd = PE
    BY <1>1, <1>3
  <1>5. ASSUME NEW p \in PE
        PROVE  At(h, p) >= mk /\ Gathered(rec, p, compress(c)) = <<>>
    <2>1. p \in Delivered(c, mk, fd, h, net, p)
      BY <1>1, <1>4 DEF Contributors
    <2> QED
      BY <1>1, <1>4, <2>1 DEF Delivered
  <1>6. ASSUME NEW q \in PE \ {0}
        PROVE  Hit(net, q, span_tree_parent(q), Reds(c)) = 0
    <2>1. span_tree_parent(q) \in PE /\ q \in span_tree_children(span_tree_parent(q))
      BY FinitePEs, TreeIs
    <2> QED
      BY <1>2, <1>4, <2>1
  <1> QED
    BY <1>4, <1>5, <1>6

(* A step that has nothing to do with the wave *)
LEMMA WaveFrame ==
    ASSUME NEW c, NEW mk, NEW fd, NEW v, NEW h, NEW net, NEW rec,
           WaveOf(c, mk, fd, v, h, net, rec),
           NEW h2, \A r \in PE : At(h2, r) >= mk <=> At(h, r) >= mk,
           NEW rec2, \A r \in PE : Gathered(rec2, r, compress(c)) = Gathered(rec, r, compress(c)),
           NEW net2,
           \A q \in PE \ {0} :
              /\ Hit(net2, q, span_tree_parent(q), Reds(c)) =
                    Hit(net, q, span_tree_parent(q), Reds(c))
              /\ Holds(net2, q, span_tree_parent(q)) \cap Reds(c)
                    \subseteq Holds(net, q, span_tree_parent(q))
    PROVE  WaveOf(c, mk, fd, v, h2, net2, rec2)
  <1>1. ASSUME NEW p \in PE
        PROVE  Delivered(c, mk, fd, h2, net2, p) = Delivered(c, mk, fd, h, net, p)
    <2>1. \A r \in Contributors(p) \ {p} :
             Hit(net2, r, p, Reds(c)) = Hit(net, r, p, Reds(c))
      BY ContributorsAre
    <2> QED
      BY <2>1 DEF Delivered
  <1> QED
    BY <1>1 DEF WaveOf

(* A new wave begins, to which nobody has contributed *)
LEMMA WaveRestart ==
    ASSUME NEW c, NEW mk, NEW fd, NEW v, NEW h, NEW net \in Nets, NEW rec,
           WaveOf(c, mk, fd, v, h, net, rec), 0 \in fd,
           NEW mk2, \A p \in PE : ~(At(h, p) >= mk2), NEW v2 \in Nat
    PROVE  WaveOf(c, mk2, {}, v2, h, net, rec)
  <1>1. /\ \A p \in PE : Gathered(rec, p, compress(c)) = <<>>
        /\ \A q \in PE \ {0} : Hit(net, q, span_tree_parent(q), Reds(c)) = 0
    BY AllFired
  <1>2. ASSUME NEW p \in PE
        PROVE  /\ Delivered(c, mk2, {}, h, net, p) = {}
               /\ Contributors(p) # {}
    BY DEF Delivered, Contributors
  <1>3. Cardinality({}) = 0 /\ Len(<<>>) = 0 /\ ToSet(<<>>) = {}
    BY FS_EmptySet DEF ToSet
  <1>4. ASSUME NEW q \in PE \ {0},
               NEW m \in Holds(net, q, span_tree_parent(q)) \cap Reds(c)
        PROVE  FALSE
    <2>1. span_tree_parent(q) \in PE /\ Hit(net, q, span_tree_parent(q), Reds(c)) = 0
      BY <1>1, TreeIs, FinitePEs
    <2>2. Holds(net, q, span_tree_parent(q)) \cap Reds(c) = {}
      BY <2>1, NoneOn
    <2> QED
      BY <1>4, <2>2
  <1> QED
    BY <1>1, <1>2, <1>3, <1>4 DEF WaveOf

(* p's reducer gets n, and is full then, or not *)
Gathers(rec, rec2, p, tag, n, full) ==
    /\ full <=> Len(Gathered(rec, p, tag)) + 1 = expected(p)
    /\ \A r \in PE \ {p} : Gathered(rec2, r, tag) = Gathered(rec, r, tag)
    /\ Gathered(rec2, p, tag) = IF full THEN <<>> ELSE Append(Gathered(rec, p, tag), n)

(* p comes to the broadcast that begins a wave, if the contribution is its own *)
Comes(h, h2, mk, p, src) ==
    \A r \in PE : At(h2, r) >= mk <=> (At(h, r) >= mk \/ (r = p /\ src = p))

(* The contribution has left src, and when p has them all it sends their sum *)
Rises(net, net2, c, v, p, src, full) ==
    \A r \in PE \ {0} :
       /\ Hit(net2, r, span_tree_parent(r), Reds(c)) =
             IF r = p /\ full THEN 1
             ELSE IF r = src /\ src # p THEN 0
             ELSE Hit(net, r, span_tree_parent(r), Reds(c))
       /\ \A m \in Holds(net2, r, span_tree_parent(r)) \cap Reds(c) :
             m \in Holds(net, r, span_tree_parent(r)) \/ Sound(m.count, c, v)

(* One more contribution comes to p's reducer, p's own or a child's, and   *)
(* when it is the last one p combines them.                                *)
LEMMA Arrival ==
    ASSUME NEW c \in Col, NEW mk, NEW fd, NEW v, NEW h, NEW net, NEW rec \in Reducers,
           WaveOf(c, mk, fd, v, h, net, rec),
           NEW p \in PE \ fd, NEW src \in Contributors(p),
           src \notin Delivered(c, mk, fd, h, net, p), src # p => src \in fd,
           NEW n \in CountMessage, Sound(n, c, v),
           NEW full \in BOOLEAN,
           NEW rec2, Gathers(rec, rec2, p, compress(c), n, full),
           NEW h2, Comes(h, h2, mk, p, src),
           NEW net2, Rises(net, net2, c, v, p, src, full),
           NEW fd2, full => fd2 = fd \cup {p}, ~full => fd2 = fd
    PROVE  WaveOf(c, mk, fd2, v, h2, net2, rec2)
  <1>0. /\ full <=> Len(Gathered(rec, p, compress(c))) + 1 = expected(p)
        /\ \A r \in PE : At(h2, r) >= mk <=> (At(h, r) >= mk \/ (r = p /\ src = p))
        /\ \A r \in PE \ {p} : Gathered(rec2, r, compress(c)) = Gathered(rec, r, compress(c))
        /\ Gathered(rec2, p, compress(c)) =
              IF full THEN <<>> ELSE Append(Gathered(rec, p, compress(c)), n)
        /\ \A r \in PE \ {0} :
              /\ Hit(net2, r, span_tree_parent(r), Reds(c)) =
                    IF r = p /\ full THEN 1
                    ELSE IF r = src /\ src # p THEN 0
                    ELSE Hit(net, r, span_tree_parent(r), Reds(c))
              /\ \A m \in Holds(net2, r, span_tree_parent(r)) \cap Reds(c) :
                    m \in Holds(net, r, span_tree_parent(r)) \/ Sound(m.count, c, v)
        /\ fd2 = IF full THEN fd \cup {p} ELSE fd
    BY DEF Gathers, Comes, Rises
  <1> USE <1>0
  <1> DEFINE old(r) == Delivered(c, mk, fd, h, net, r)
             new(r) == Delivered(c, mk, fd2, h2, net2, r)
             s == Gathered(rec, p, compress(c))
  <1>1. /\ fd \subseteq PE /\ v \in Nat
        /\ \A r \in fd : old(r) = Contributors(r) /\ Gathered(rec, r, compress(c)) = <<>>
        /\ \A r \in PE \ fd : /\ old(r) # Contributors(r)
                              /\ Len(Gathered(rec, r, compress(c))) = Cardinality(old(r))
        /\ \A r \in PE : \A k \in ToSet(Gathered(rec, r, compress(c))) : Sound(k, c, v)
    BY DEF WaveOf
  <1>2. \A r \in PE \ {0} :
           /\ Hit(net, r, span_tree_parent(r), Reds(c)) <= 1
           /\ r \notin fd => Hit(net, r, span_tree_parent(r), Reds(c)) = 0
           /\ \A m \in Holds(net, r, span_tree_parent(r)) \cap Reds(c) : Sound(m.count, c, v)
    BY DEF WaveOf
  <1>3. new(p) = old(p) \cup {src}
    <2>1. ASSUME NEW r \in Contributors(p)
          PROVE  r \in new(p) <=> r \in old(p) \/ r = src
      <3>1. CASE r = p
        BY <3>1 DEF Delivered, Contributors
      <3>2. CASE r # p
        <4>1. r \in PE \ {0} /\ span_tree_parent(r) = p
          BY <3>2, ContributorsAre
        <4>2. r \in fd2 <=> r \in fd
          BY <3>2
        <4> QED
          BY <3>2, <4>1, <4>2 DEF Delivered
      <3> QED
        BY <3>1, <3>2
    <2> QED
      BY <2>1 DEF Delivered
  <1>4. ASSUME NEW r \in PE \ {p}
        PROVE  new(r) = old(r)
    <2>1. ASSUME NEW x \in Contributors(r)
          PROVE  x \in new(r) <=> x \in old(r)
      <3>1. CASE x = r
        BY <3>1 DEF Delivered
      <3>2. CASE x # r
        <4>1. x \in PE \ {0} /\ span_tree_parent(x) = r
          BY <3>2, ContributorsAre
        <4>2. x # src \/ src = p
          BY <4>1, ContributorsAre
        <4>3. CASE x = p
          <5>1. x \notin old(r)
            BY <3>2, <4>3 DEF Delivered
          <5>2. x \in fd2 => Hit(net2, x, r, Reds(c)) = 1
            BY <4>1, <4>3
          <5> QED
            BY <3>2, <5>1, <5>2 DEF Delivered
        <4>4. CASE x # p
          <5>1. x \in fd2 <=> x \in fd
            BY <4>4
          <5>2. Hit(net2, x, r, Reds(c)) = Hit(net, x, r, Reds(c))
            BY <4>1, <4>2, <4>4
          <5> QED
            BY <3>2, <5>1, <5>2 DEF Delivered
        <4> QED
          BY <4>3, <4>4
      <3> QED
        BY <3>1, <3>2
    <2> QED
      BY <2>1 DEF Delivered
  <1>5. /\ s \in Seq(CountMessage) /\ Len(s) \in Nat /\ Len(s) = Cardinality(old(p))
        /\ full <=> Len(s) + 1 = Cardinality(Contributors(p))
    <2>1. compress(c) \in Tags
      BY CountIsMessage DEF CountMessage, Tags
    <2>2. s \in Seq(CountMessage)
      BY <2>1 DEF Reducers, Gathered
    <2> QED
      BY <1>1, <2>2, ContributorsAre, LenProperties
  <1>6. /\ IsFiniteSet(Contributors(p)) /\ new(p) \subseteq Contributors(p)
        /\ IsFiniteSet(old(p)) /\ Cardinality(new(p)) = Cardinality(old(p)) + 1
    <2>1. IsFiniteSet(Contributors(p)) /\ old(p) \subseteq Contributors(p)
      BY ContributorsAre DEF Delivered
    <2>2. IsFiniteSet(old(p)) /\ src \notin old(p)
      BY <2>1, FS_Subset
    <2> HIDE DEF old, new
    <2> QED
      BY <1>3, <2>1, <2>2, FS_AddElement
  <1>7. full <=> new(p) = Contributors(p)
    <2>1. Cardinality(new(p)) = Cardinality(Contributors(p)) => new(p) = Contributors(p)
      BY <1>6, FS_Subset
    <2> QED
      BY <1>5, <1>6, <2>1
  <1>8. CASE full
    <2>1. /\ \A r \in fd2 : new(r) = Contributors(r) /\ Gathered(rec2, r, compress(c)) = <<>>
          /\ \A r \in PE \ fd2 : /\ new(r) # Contributors(r)
                                 /\ Len(Gathered(rec2, r, compress(c))) = Cardinality(new(r))
      <3>1. fd2 = fd \cup {p} /\ new(p) = Contributors(p) /\ Gathered(rec2, p, compress(c)) = <<>>
        BY <1>7, <1>8
      <3>2. \A r \in PE \ {p} : new(r) = old(r) /\ Gathered(rec2, r, compress(c)) = Gathered(rec, r, compress(c))
        BY <1>4
      <3>3. p \in PE \ fd
        OBVIOUS
      <3> HIDE DEF new, old
      <3> QED
        BY <1>1, <3>1, <3>2, <3>3
    <2>2. \A r \in PE : \A k \in ToSet(Gathered(rec2, r, compress(c))) : Sound(k, c, v)
      <3>1. ToSet(<<>>) = {}
        BY DEF ToSet
      <3> QED
        BY <1>1, <1>8, <3>1
    <2>3. \A q \in PE \ {0} :
             LET k == Hit(net2, q, span_tree_parent(q), Reds(c))
             IN k <= 1 /\ (q \notin fd2 => k = 0)
      BY <1>2, <1>8
    <2>4. \A q \in PE \ {0} :
             \A m \in Holds(net2, q, span_tree_parent(q)) \cap Reds(c) :
                Sound(m.count, c, v)
      BY <1>2
    <2> QED
      BY <1>1, <2>1, <2>2, <2>3, <2>4 DEF WaveOf
  <1>9. CASE ~full
    <2>1. /\ \A r \in fd2 : new(r) = Contributors(r) /\ Gathered(rec2, r, compress(c)) = <<>>
          /\ \A r \in PE \ (fd2 \cup {p}) : /\ new(r) # Contributors(r)
                                 /\ Len(Gathered(rec2, r, compress(c))) = Cardinality(new(r))
      BY <1>1, <1>4, <1>9
    <2>2. Gathered(rec2, p, compress(c)) = Append(s, n)
      BY <1>9
    <2>3. Len(Append(s, n)) = Len(s) + 1 /\ ToSet(Append(s, n)) = ToSet(s) \cup {n}
      BY <1>5, AppendFacts, ToSetAppend
    <2>4. new(p) # Contributors(p) /\ Len(Gathered(rec2, p, compress(c))) = Cardinality(new(p))
      <3>1. Len(Gathered(rec2, p, compress(c))) = Len(s) + 1
        BY <2>2, <2>3
      <3>2. Len(s) + 1 = Cardinality(new(p))
        BY <1>5, <1>6
      <3> QED
        BY <1>7, <1>9, <3>1, <3>2
    <2>5. \A r \in PE : \A k \in ToSet(Gathered(rec2, r, compress(c))) : Sound(k, c, v)
      <3> SUFFICES ASSUME NEW r \in PE, NEW k \in ToSet(Gathered(rec2, r, compress(c)))
                   PROVE  Sound(k, c, v)
        OBVIOUS
      <3>1. CASE r = p
        <4>1. k \in ToSet(Append(s, n))
          BY <2>2, <3>1
        <4>2. k \in ToSet(s) \/ k = n
          BY <2>3, <4>1
        <4> QED
          BY <1>1, <4>2
      <3>2. CASE r # p
        BY <1>1, <3>2
      <3> QED
        BY <3>1, <3>2
    <2>6. \A q \in PE \ {0} :
             LET k == Hit(net2, q, span_tree_parent(q), Reds(c))
             IN k <= 1 /\ (q \notin fd2 => k = 0)
      BY <1>2, <1>9
    <2>7. \A q \in PE \ {0} :
             \A m \in Holds(net2, q, span_tree_parent(q)) \cap Reds(c) :
                Sound(m.count, c, v)
      BY <1>2
    <2> QED
      BY <1>1, <1>9, <2>1, <2>4, <2>5, <2>6, <2>7 DEF WaveOf
  <1> QED
    BY <1>8, <1>9

(* The counts of a wave add up to a count that is zero only if each is *)
LEMMA SumSound ==
    ASSUME received \in Reducers, NEW p \in PE, NEW c \in Col, NEW v \in Nat,
           NEW n \in CountMessage, Sound(n, c, v),
           \A k \in ToSet(received[p][compress(c)]) : Sound(k, c, v)
    PROVE  /\ Sound(Sum(p, compress(c), n), c, v)
           /\ ~Mixed(p, compress(c), n)
  <1> DEFINE s == With(p, compress(c), n)
  <1>1. compress(c) \in Tags
    BY DEF Tags
  <1>2. /\ s \in Seq(CountMessage) /\ s[1] \in ToSet(s)
        /\ ToSet(s) = ToSet(received[p][compress(c)]) \cup {n}
        /\ Len(received[p][compress(c)]) \in Nat
        /\ Len(s) = Len(received[p][compress(c)]) + 1
        /\ Sum(p, compress(c), n).target = s[1].target
        /\ Sum(p, compress(c), n).gcount = SumOver(GCounts(s), DOMAIN s)
    BY <1>1, SumIs
  <1>3. \A k \in ToSet(s) : Sound(k, c, v)
    BY <1>2
  <1> HIDE DEF s
  <1>4. DOMAIN s = 1 .. Len(s) /\ 1 \in DOMAIN s /\ IsFiniteSet(DOMAIN s)
    <2>1. DOMAIN s = 1 .. Len(s) /\ Len(s) \in Nat \ {0}
      BY <1>2, LenProperties
    <2>2. IsFiniteSet(1 .. Len(s))
      BY <2>1, FS_Interval
    <2> QED
      BY <2>1, <2>2
  <1>5. \A i \in DOMAIN s : Sound(s[i], c, v) /\ GCounts(s)[i] = s[i].gcount
    BY <1>3 DEF ToSet, GCounts
  <1>6. \A i \in DOMAIN s : GCounts(s)[i] \in Nat
    BY <1>5 DEF Sound
  <1>7. /\ SumOver(GCounts(s), DOMAIN s) \in Nat
        /\ \A i \in DOMAIN s : GCounts(s)[i] <= SumOver(GCounts(s), DOMAIN s)
    BY <1>4, <1>6, SumOverNat
  <1>8. SumOver(GCounts(s), DOMAIN s) = 0 => v = 0
    BY <1>4, <1>5, <1>6, <1>7 DEF Sound
  <1>9. ~Mixed(p, compress(c), n)
    BY DEF Mixed, Sound
  <1> QED
    BY <1>2, <1>3, <1>7, <1>8, <1>9 DEF Sound

-----------------------------------------------------------------------------
(* The history of the root *)

(* All PEs run the broadcasts in the order in which the root has run them. *)
(* A history has the n broadcasts the root has run, what the root had      *)
(* counted and watched after each, and how many of them each PE has run.   *)
Ran(h) == h.n
Entry(h, j) == h.log[j]
Counts(h, j) == h.counts[j]
Watch(h, j) == h.watch[j]

IsHistory(h) ==
    /\ Ran(h) \in Nat
    /\ \A j \in 0 .. Ran(h) : Counts(h, j) \in [Col -> Int] /\ Watch(h, j) \subseteq Col
    /\ \A j \in 1 .. Ran(h) :
          /\ Entry(h, j) \in GroupMessage /\ Entry(h, j).kind = "copy"
          /\ Counts(h, j) = NextCounts(Counts(h, j - 1), Entry(h, j))
          /\ Watch(h, j) = NextWatched(Watch(h, j - 1), Entry(h, j))
    /\ At(h, 0) = Ran(h)
    /\ \A p \in PE : At(h, p) \in 0 .. Ran(h)

(* s is what follows the first i broadcasts, up to the j-th *)
Between(s, h, i, j) ==
    i <= j /\ Len(s) = j - i /\ \A k \in 1 .. (j - i) : s[k] = Entry(h, i + k)

(* What a PE has not run yet is on its way from its parent *)
Past(h, net, lc, wd) ==
    /\ \A p \in PE : lc[p] = Counts(h, At(h, p)) /\ wd[p] = Watch(h, At(h, p))
    /\ \A p \in PE \ {0} :
          Between(On(net, span_tree_parent(p), p), h, At(h, p), At(h, span_tree_parent(p)))

(* p runs the next one *)
Moved(h, p) ==
    [n |-> h.n, log |-> h.log, counts |-> h.counts, watch |-> h.watch,
     pos |-> [r \in PE |-> IF r = p THEN At(h, p) + 1 ELSE At(h, r)]]

(* The root runs m *)
Grown(h, m) ==
    [n |-> Ran(h) + 1,
     log |-> [j \in 1 .. (Ran(h) + 1) |-> IF j = Ran(h) + 1 THEN m ELSE Entry(h, j)],
     counts |-> [j \in 0 .. (Ran(h) + 1) |->
                    IF j = Ran(h) + 1 THEN NextCounts(Counts(h, Ran(h)), m) ELSE Counts(h, j)],
     watch |-> [j \in 0 .. (Ran(h) + 1) |->
                   IF j = Ran(h) + 1 THEN NextWatched(Watch(h, Ran(h)), m) ELSE Watch(h, j)],
     pos |-> [r \in PE |-> IF r = 0 THEN Ran(h) + 1 ELSE At(h, r)]]

LEMMA MovedIs ==
    ASSUME NEW h, NEW p \in PE
    PROVE  /\ Ran(Moved(h, p)) = Ran(h)
           /\ \A j : /\ Entry(Moved(h, p), j) = Entry(h, j)
                     /\ Counts(Moved(h, p), j) = Counts(h, j)
                     /\ Watch(Moved(h, p), j) = Watch(h, j)
           /\ \A r \in PE : At(Moved(h, p), r) = IF r = p THEN At(h, p) + 1 ELSE At(h, r)
  BY DEF Moved, Ran, Entry, Counts, Watch, At

LEMMA GrownIs ==
    ASSUME NEW h, Ran(h) \in Nat, NEW m
    PROVE  /\ Ran(Grown(h, m)) = Ran(h) + 1
           /\ \A j \in 1 .. Ran(h) : Entry(Grown(h, m), j) = Entry(h, j)
           /\ Entry(Grown(h, m), Ran(h) + 1) = m
           /\ \A j \in 0 .. Ran(h) : /\ Counts(Grown(h, m), j) = Counts(h, j)
                                     /\ Watch(Grown(h, m), j) = Watch(h, j)
           /\ Counts(Grown(h, m), Ran(h) + 1) = NextCounts(Counts(h, Ran(h)), m)
           /\ Watch(Grown(h, m), Ran(h) + 1) = NextWatched(Watch(h, Ran(h)), m)
           /\ \A r \in PE : At(Grown(h, m), r) = IF r = 0 THEN Ran(h) + 1 ELSE At(h, r)
  <1> DEFINE n == Ran(h)
             g == Grown(h, m)
  <1>1. /\ Ran(g) = n + 1
        /\ \A j \in 1 .. (n + 1) : Entry(g, j) = IF j = n + 1 THEN m ELSE Entry(h, j)
        /\ \A j \in 0 .. (n + 1) :
              /\ Counts(g, j) = IF j = n + 1 THEN NextCounts(Counts(h, n), m) ELSE Counts(h, j)
              /\ Watch(g, j) = IF j = n + 1 THEN NextWatched(Watch(h, n), m) ELSE Watch(h, j)
        /\ \A r \in PE : At(g, r) = IF r = 0 THEN n + 1 ELSE At(h, r)
    <2>1. /\ g.n = n + 1
          /\ g.log = [j \in 1 .. (n + 1) |-> IF j = n + 1 THEN m ELSE Entry(h, j)]
          /\ g.counts = [j \in 0 .. (n + 1) |->
                IF j = n + 1 THEN NextCounts(Counts(h, n), m) ELSE Counts(h, j)]
          /\ g.watch = [j \in 0 .. (n + 1) |->
                IF j = n + 1 THEN NextWatched(Watch(h, n), m) ELSE Watch(h, j)]
          /\ g.pos = [r \in PE |-> IF r = 0 THEN n + 1 ELSE At(h, r)]
      BY DEF Grown
    <2> HIDE DEF g, n
    <2> DEFINE lg == g.log
               ct == g.counts
               wt == g.watch
               ps == g.pos
    <2>2. /\ lg = [j \in 1 .. (n + 1) |-> IF j = n + 1 THEN m ELSE Entry(h, j)]
          /\ ct = [j \in 0 .. (n + 1) |->
                IF j = n + 1 THEN NextCounts(Counts(h, n), m) ELSE Counts(h, j)]
          /\ wt = [j \in 0 .. (n + 1) |->
                IF j = n + 1 THEN NextWatched(Watch(h, n), m) ELSE Watch(h, j)]
          /\ ps = [r \in PE |-> IF r = 0 THEN n + 1 ELSE At(h, r)]
      BY <2>1
    <2>3. /\ \A j : Entry(g, j) = lg[j] /\ Counts(g, j) = ct[j] /\ Watch(g, j) = wt[j]
          /\ \A r : At(g, r) = ps[r]
          /\ Ran(g) = n + 1
      BY <2>1 DEF Entry, Counts, Watch, At, Ran
    <2> HIDE DEF lg, ct, wt, ps
    <2> QED
      BY <2>2, <2>3
  <1>2. /\ n \in Nat /\ n + 1 \in 1 .. (n + 1) /\ n + 1 \in 0 .. (n + 1)
        /\ \A j \in 1 .. n : j \in 1 .. (n + 1) /\ j # n + 1
        /\ \A j \in 0 .. n : j \in 0 .. (n + 1) /\ j # n + 1
    OBVIOUS
  <1> HIDE DEF n, g
  <1>3. /\ Ran(g) = n + 1
        /\ \A j \in 1 .. n : Entry(g, j) = Entry(h, j)
        /\ Entry(g, n + 1) = m
        /\ \A j \in 0 .. n : Counts(g, j) = Counts(h, j) /\ Watch(g, j) = Watch(h, j)
        /\ Counts(g, n + 1) = NextCounts(Counts(h, n), m)
        /\ Watch(g, n + 1) = NextWatched(Watch(h, n), m)
        /\ \A r \in PE : At(g, r) = IF r = 0 THEN n + 1 ELSE At(h, r)
    BY <1>1, <1>2
  <1> QED
    BY <1>3 DEF n, g

LEMMA NextsType ==
    ASSUME NEW l \in [Col -> Int], NEW w \in SUBSET Col, NEW m \in GroupMessage
    PROVE  /\ NextCounts(l, m) \in [Col -> Int]
           /\ NextWatched(w, m) \subseteq Col
           /\ m.count.target \in Col
           /\ \A d \in Col : d # m.count.target => NextCounts(l, m)[d] = l[d]
           /\ \A d \in Col : d # m.count.target =>
                 (d \in NextWatched(w, m) <=> d \in w)
  <1>1. m.count.target \in Col
    BY MessagesAre, MessageIs
  <1> QED
    BY <1>1, NumPesAssumption DEF NextCounts, NextWatched

LEMMA BetweenTail ==
    ASSUME NEW S, NEW s \in Seq(S), s # <<>>, NEW h, NEW i \in Nat, NEW j \in Nat,
           Between(s, h, i, j)
    PROVE  i + 1 <= j /\ Head(s) = Entry(h, i + 1) /\ Between(Tail(s), h, i + 1, j)
  <1>1. /\ Len(s) = j - i /\ Len(s) \in Nat \ {0} /\ Head(s) = s[1]
        /\ \A k \in 1 .. (j - i) : s[k] = Entry(h, i + k)
    BY EmptySeq, LenProperties DEF Between
  <1>2. /\ Len(Tail(s)) = Len(s) - 1
        /\ \A k \in 1 .. (Len(s) - 1) : Tail(s)[k] = s[k + 1]
    BY HeadTailProperties
  <1>3. i + 1 <= j /\ 1 \in 1 .. (j - i)
    BY <1>1
  <1>4. ASSUME NEW k \in 1 .. (j - (i + 1))
        PROVE  Tail(s)[k] = Entry(h, (i + 1) + k)
    <2>1. k + 1 \in 1 .. (j - i) /\ i + (k + 1) = (i + 1) + k
      BY <1>1, <1>3
    <2>2. k \in 1 .. (Len(s) - 1)
      BY <1>1, <1>3
    <2>3. s[k + 1] = Entry(h, i + (k + 1))
      BY <1>1, <2>1
    <2> QED
      BY <1>2, <2>1, <2>2, <2>3
  <1> QED
    BY <1>1, <1>2, <1>3, <1>4 DEF Between

LEMMA BetweenMore ==
    ASSUME NEW S, NEW s \in Seq(S), NEW x \in S, NEW h, NEW h2,
           NEW i \in Nat, NEW j \in Nat, Between(s, h, i, j),
           \A k \in 1 .. j : Entry(h2, k) = Entry(h, k)
    PROVE  /\ Between(s, h2, i, j)
           /\ Entry(h2, j + 1) = x => Between(s \o <<x>>, h2, i, j + 1)
  <1>1. /\ i <= j /\ Len(s) = j - i /\ Len(s) \in Nat
        /\ \A k \in 1 .. (j - i) : s[k] = Entry(h, i + k)
    BY LenProperties DEF Between
  <1>2. \A k \in 1 .. (j - i) : i + k \in 1 .. j
    BY <1>1
  <1>3. \A k \in 1 .. (j - i) : s[k] = Entry(h2, i + k)
    BY <1>1, <1>2
  <1>4. /\ Len(s \o <<x>>) = Len(s) + 1
        /\ \A k \in 1 .. Len(s) : (s \o <<x>>)[k] = s[k]
        /\ (s \o <<x>>)[Len(s) + 1] = x
    <2>1. s \o <<x>> = Append(s, x)
      OBVIOUS
    <2> QED
      BY <2>1, AppendFacts
  <1>5. ASSUME Entry(h2, j + 1) = x, NEW k \in 1 .. ((j + 1) - i)
        PROVE  (s \o <<x>>)[k] = Entry(h2, i + k)
    <2>1. CASE k = (j + 1) - i
      <3>1. i + k = j + 1 /\ k = Len(s) + 1
        BY <1>1, <2>1
      <3> QED
        BY <1>4, <1>5, <3>1
    <2>2. CASE k # (j + 1) - i
      <3>1. k \in 1 .. (j - i) /\ k \in 1 .. Len(s)
        BY <1>1, <2>2
      <3> QED
        BY <1>3, <1>4, <3>1
    <2> QED
      BY <2>1, <2>2
  <1>6. i <= j + 1 /\ Len(s \o <<x>>) = (j + 1) - i
    BY <1>1, <1>4
  <1> QED
    BY <1>1, <1>3, <1>5, <1>6 DEF Between

(* p takes m from its parent, and sends it on *)
Passes(net, net2, p, m) ==
    \A s \in PE \ {0} :
       /\ s = p => On(net2, span_tree_parent(s), s) = Rest(On(net, span_tree_parent(s), s))
       /\ s # p /\ span_tree_parent(s) = p =>
             On(net2, span_tree_parent(s), s) = Joined(On(net, span_tree_parent(s), s), <<m>>)
       /\ s # p /\ span_tree_parent(s) # p =>
             On(net2, span_tree_parent(s), s) = On(net, span_tree_parent(s), s)

Counted(lc, wd, lc2, wd2, p, m) ==
    /\ lc2 = [lc EXCEPT ![p] = NextCounts(lc[p], m)]
    /\ wd2 = [wd EXCEPT ![p] = NextWatched(wd[p], m)]

(* p, which is not the root, runs the broadcast that comes next *)
LEMMA MovedPast ==
    ASSUME NEW h, IsHistory(h), NEW net \in Nets, NEW lc, NEW wd,
           lc \in [PE -> [Col -> Int]], wd \in [PE -> SUBSET Col],
           Past(h, net, lc, wd),
           NEW p \in PE \ {0}, On(net, span_tree_parent(p), p) # <<>>,
           NEW m, m = Foremost(net, span_tree_parent(p), p),
           NEW net2,
           Passes(net, net2, p, m),
           NEW lc2, NEW wd2, Counted(lc, wd, lc2, wd2, p, m)
    PROVE  /\ At(h, p) + 1 \in 1 .. Ran(h)
           /\ m = Entry(h, At(h, p) + 1)
           /\ IsHistory(Moved(h, p))
           /\ Past(Moved(h, p), net2, lc2, wd2)
  <1> DEFINE q == span_tree_parent(p)
             i == At(h, p)
             h2 == Moved(h, p)
  <1>0. /\ \A s \in PE \ {0} :
              /\ s = p => On(net2, span_tree_parent(s), s) = Tail(On(net, span_tree_parent(s), s))
              /\ s # p /\ span_tree_parent(s) = p =>
                    On(net2, span_tree_parent(s), s) = On(net, span_tree_parent(s), s) \o <<m>>
              /\ s # p /\ span_tree_parent(s) # p =>
                    On(net2, span_tree_parent(s), s) = On(net, span_tree_parent(s), s)
        /\ lc2 = [lc EXCEPT ![p] = NextCounts(lc[p], m)]
        /\ wd2 = [wd EXCEPT ![p] = NextWatched(wd[p], m)]
    BY DEF Passes, Counted, Rest, Joined
  <1>1. /\ Ran(h) \in Nat /\ At(h, 0) = Ran(h) /\ \A r \in PE : At(h, r) \in 0 .. Ran(h)
        /\ \A j \in 1 .. Ran(h) :
              /\ Entry(h, j) \in GroupMessage /\ Entry(h, j).kind = "copy"
              /\ Counts(h, j) = NextCounts(Counts(h, j - 1), Entry(h, j))
              /\ Watch(h, j) = NextWatched(Watch(h, j - 1), Entry(h, j))
        /\ \A j \in 0 .. Ran(h) : Counts(h, j) \in [Col -> Int] /\ Watch(h, j) \subseteq Col
    BY DEF IsHistory
  <1>2. /\ \A r \in PE : lc[r] = Counts(h, At(h, r)) /\ wd[r] = Watch(h, At(h, r))
        /\ \A s \in PE \ {0} :
              Between(On(net, span_tree_parent(s), s), h, At(h, s), At(h, span_tree_parent(s)))
    BY DEF Past
  <1>3. /\ q \in PE /\ q # p
        /\ \A s \in PE \ {0} : /\ span_tree_parent(s) \in PE /\ span_tree_parent(s) # s
                               /\ On(net, span_tree_parent(s), s) \in Seq(Message)
    <2>1. \A s \in PE \ {0} : span_tree_parent(s) \in PE /\ span_tree_parent(s) < s
      BY FinitePEs, TreeIs
    <2>2. \A s \in PE \ {0} : span_tree_parent(s) # s
      BY <2>1, NumPesAssumption DEF PE
    <2> QED
      BY <2>1, <2>2 DEF Nets, On
  <1>4. i \in Nat /\ At(h, q) \in Nat /\ At(h, q) <= Ran(h)
    BY <1>1, <1>3
  <1>5. i + 1 <= At(h, q) /\ m = Entry(h, i + 1) /\ Between(Tail(On(net, q, p)), h, i + 1, At(h, q))
    <2>1. /\ Between(On(net, q, p), h, i, At(h, q))
          /\ On(net, q, p) \in Seq(Message) /\ On(net, q, p) # <<>> /\ m = Foremost(net, q, p)
      BY <1>2, <1>3
    <2> DEFINE s == On(net, q, p)
               j == At(h, q)
    <2>2. /\ Between(s, h, i, j) /\ s \in Seq(Message) /\ s # <<>>
          /\ i \in Nat /\ j \in Nat
      BY <1>4, <2>1
    <2> HIDE DEF q, i, s, j
    <2>3. i + 1 <= j /\ Head(s) = Entry(h, i + 1) /\ Between(Tail(s), h, i + 1, j)
      BY <2>2, BetweenTail
    <2> QED
      BY <2>1, <2>3 DEF s, j, Foremost
  <1>6. i + 1 \in 1 .. Ran(h) /\ (i + 1) - 1 = i
    <2> HIDE DEF i, q
    <2> QED
      BY <1>1, <1>4, <1>5
  <1>7. m \in Message
    BY <1>1, <1>5, <1>6, MessagesAre
  <1>8. /\ Ran(h2) = Ran(h)
        /\ \A j : Entry(h2, j) = Entry(h, j) /\ Counts(h2, j) = Counts(h, j) /\ Watch(h2, j) = Watch(h, j)
        /\ \A r \in PE : At(h2, r) = IF r = p THEN i + 1 ELSE At(h, r)
    BY MovedIs
  <1> HIDE DEF h2, i
  <1>9. IsHistory(h2)
    <2>1. At(h2, 0) = Ran(h2)
      BY <1>1, <1>8, FinitePEs
    <2>2. \A r \in PE : At(h2, r) \in 0 .. Ran(h2)
      <3> SUFFICES ASSUME NEW r \in PE
                   PROVE  At(h2, r) \in 0 .. Ran(h2)
        OBVIOUS
      <3>1. CASE r = p
        BY <1>1, <1>6, <1>8, <3>1
      <3>2. CASE r # p
        BY <1>1, <1>8, <3>2
      <3> QED
        BY <3>1, <3>2
    <2> QED
      BY <1>1, <1>8, <2>1, <2>2 DEF IsHistory
  <1>10. ASSUME NEW r \in PE
         PROVE  lc2[r] = Counts(h2, At(h2, r)) /\ wd2[r] = Watch(h2, At(h2, r))
    <2>1. CASE r = p
      <3>1. lc2[r] = NextCounts(lc[p], m) /\ wd2[r] = NextWatched(wd[p], m)
        BY <1>0, <2>1
      <3>2. Counts(h, i + 1) = NextCounts(Counts(h, i), m) /\ Watch(h, i + 1) = NextWatched(Watch(h, i), m)
        BY <1>1, <1>5, <1>6
      <3>3. lc[p] = Counts(h, i) /\ wd[p] = Watch(h, i)
        BY <1>2 DEF i
      <3>4. Counts(h2, At(h2, r)) = Counts(h, i + 1) /\ Watch(h2, At(h2, r)) = Watch(h, i + 1)
        BY <1>8, <2>1
      <3> QED
        BY <3>1, <3>2, <3>3, <3>4
    <2>2. CASE r # p
      <3>1. lc2[r] = lc[r] /\ wd2[r] = wd[r]
        BY <1>0, <2>2
      <3> QED
        BY <1>2, <1>8, <2>2, <3>1
    <2> QED
      BY <2>1, <2>2
  <1>11. ASSUME NEW s \in PE \ {0}
         PROVE  Between(On(net2, span_tree_parent(s), s), h2, At(h2, s), At(h2, span_tree_parent(s)))
    <2>0. \A x, a, b : Between(x, h, a, b) <=> Between(x, h2, a, b)
      BY <1>8 DEF Between
    <2>1. CASE s = p
      <3>1. On(net2, q, p) = Tail(On(net, q, p))
        BY <1>0
      <3>2. At(h2, p) = i + 1 /\ At(h2, q) = At(h, q)
        BY <1>3, <1>8
      <3> QED
        BY <1>5, <2>0, <2>1, <3>1, <3>2
    <2>2. CASE s # p /\ span_tree_parent(s) # p
      <3>1. On(net2, span_tree_parent(s), s) = On(net, span_tree_parent(s), s)
        BY <1>0, <2>2
      <3>2. /\ At(h2, s) = At(h, s)
            /\ At(h2, span_tree_parent(s)) = At(h, span_tree_parent(s))
        BY <1>3, <1>8, <2>2
      <3> QED
        BY <1>2, <2>0, <3>1, <3>2
    <2>3. CASE span_tree_parent(s) = p
      <3>1. s # p
        BY <1>3, <2>3
      <3>2. Between(On(net, p, s), h, At(h, s), i) /\ On(net, p, s) \in Seq(Message)
        BY <1>2, <1>3, <2>3 DEF i
      <3>3. At(h, s) \in Nat
        BY <1>1
      <3>4. Between(On(net, p, s) \o <<m>>, h, At(h, s), i + 1)
        <4> DEFINE t == On(net, p, s)
                   a == At(h, s)
        <4>1. Between(t, h, a, i) /\ t \in Seq(Message) /\ a \in Nat
          BY <3>2, <3>3
        <4> HIDE DEF t, a
        <4>2. Between(t \o <<m>>, h, a, i + 1)
          BY <1>4, <1>5, <1>7, <4>1, BetweenMore
        <4> QED
          BY <4>2 DEF t, a
      <3>5. On(net2, p, s) = On(net, p, s) \o <<m>>
        BY <1>0, <2>3, <3>1
      <3>6. At(h2, s) = At(h, s) /\ At(h2, p) = i + 1
        BY <1>8, <3>1
      <3> QED
        BY <2>0, <2>3, <3>4, <3>5, <3>6
    <2> QED
      BY <2>1, <2>2, <2>3
  <1>12. Past(h2, net2, lc2, wd2)
    BY <1>10, <1>11 DEF Past
  <1> QED
    BY <1>5, <1>6, <1>9, <1>12 DEF h2, i

(* The root runs m and sends it on *)
LEMMA GrownPast ==
    ASSUME NEW h, IsHistory(h), NEW net \in Nets, NEW lc, NEW wd,
           lc \in [PE -> [Col -> Int]], wd \in [PE -> SUBSET Col],
           Past(h, net, lc, wd),
           NEW m \in GroupMessage, m.kind = "copy",
           NEW net2,
           \A s \in PE \ {0} :
              On(net2, span_tree_parent(s), s) =
                 IF span_tree_parent(s) = 0
                 THEN On(net, span_tree_parent(s), s) \o <<m>>
                 ELSE On(net, span_tree_parent(s), s)
    PROVE  /\ IsHistory(Grown(h, m))
           /\ Past(Grown(h, m), net2,
                   [lc EXCEPT ![0] = NextCounts(lc[0], m)],
                   [wd EXCEPT ![0] = NextWatched(wd[0], m)])
  <1> DEFINE n == Ran(h)
             h2 == Grown(h, m)
             lc2 == [lc EXCEPT ![0] = NextCounts(lc[0], m)]
             wd2 == [wd EXCEPT ![0] = NextWatched(wd[0], m)]
  <1>1. /\ n \in Nat /\ At(h, 0) = n /\ \A r \in PE : At(h, r) \in 0 .. n
        /\ \A j \in 1 .. n :
              /\ Entry(h, j) \in GroupMessage /\ Entry(h, j).kind = "copy"
              /\ Counts(h, j) = NextCounts(Counts(h, j - 1), Entry(h, j))
              /\ Watch(h, j) = NextWatched(Watch(h, j - 1), Entry(h, j))
        /\ \A j \in 0 .. n : Counts(h, j) \in [Col -> Int] /\ Watch(h, j) \subseteq Col
    BY DEF IsHistory
  <1>2. /\ \A r \in PE : lc[r] = Counts(h, At(h, r)) /\ wd[r] = Watch(h, At(h, r))
        /\ \A s \in PE \ {0} :
              Between(On(net, span_tree_parent(s), s), h, At(h, s), At(h, span_tree_parent(s)))
    BY DEF Past
  <1>3. /\ 0 \in PE
        /\ \A s \in PE \ {0} : /\ span_tree_parent(s) \in PE
                               /\ On(net, span_tree_parent(s), s) \in Seq(Message)
    BY FinitePEs, TreeIs DEF Nets, On
  <1>4. /\ Ran(h2) = n + 1
        /\ \A j \in 1 .. n : Entry(h2, j) = Entry(h, j)
        /\ Entry(h2, n + 1) = m
        /\ \A j \in 0 .. n : Counts(h2, j) = Counts(h, j) /\ Watch(h2, j) = Watch(h, j)
        /\ Counts(h2, n + 1) = NextCounts(Counts(h, n), m)
        /\ Watch(h2, n + 1) = NextWatched(Watch(h, n), m)
        /\ \A r \in PE : At(h2, r) = IF r = 0 THEN n + 1 ELSE At(h, r)
    BY <1>1, GrownIs
  <1> HIDE DEF h2, n
  <1>5. m \in Message
    BY MessagesAre
  <1>13. /\ n + 1 \in Nat /\ n \in 0 .. n /\ n + 1 \in 0 .. (n + 1) /\ (n + 1) - 1 = n
         /\ \A j \in 0 .. n : j \in 0 .. (n + 1)
         /\ \A j \in 0 .. (n + 1) : j \in 0 .. n \/ j = n + 1
         /\ \A j \in 1 .. (n + 1) : j \in 1 .. n \/ j = n + 1
         /\ \A j \in 1 .. n : j \in 0 .. n /\ j - 1 \in 0 .. n
    BY <1>1
  <1>6. IsHistory(h2)
    <2>1. Ran(h2) \in Nat /\ At(h2, 0) = Ran(h2) /\ \A r \in PE : At(h2, r) \in 0 .. Ran(h2)
      BY <1>1, <1>3, <1>4, <1>13
    <2>2. ASSUME NEW j \in 0 .. Ran(h2)
          PROVE  Counts(h2, j) \in [Col -> Int] /\ Watch(h2, j) \subseteq Col
      <3>1. CASE j \in 0 .. n
        BY <1>1, <1>4, <3>1
      <3>2. CASE j = n + 1
        <4>1. Counts(h, n) \in [Col -> Int] /\ Watch(h, n) \in SUBSET Col
          BY <1>1, <1>13
        <4>2. /\ NextCounts(Counts(h, n), m) \in [Col -> Int]
              /\ NextWatched(Watch(h, n), m) \subseteq Col
          BY <4>1, NextsType
        <4> QED
          BY <1>4, <3>2, <4>2
      <3> QED
        BY <1>4, <1>13, <3>1, <3>2
    <2>3. ASSUME NEW j \in 1 .. Ran(h2)
          PROVE  /\ Entry(h2, j) \in GroupMessage /\ Entry(h2, j).kind = "copy"
                 /\ Counts(h2, j) = NextCounts(Counts(h2, j - 1), Entry(h2, j))
                 /\ Watch(h2, j) = NextWatched(Watch(h2, j - 1), Entry(h2, j))
      <3>1. CASE j \in 1 .. n
        BY <1>1, <1>4, <1>13, <3>1
      <3>2. CASE j = n + 1
        BY <1>4, <1>13, <3>2
      <3> QED
        BY <1>4, <1>13, <3>1, <3>2
    <2> QED
      BY <2>1, <2>2, <2>3 DEF IsHistory
  <1>7. ASSUME NEW r \in PE
        PROVE  lc2[r] = Counts(h2, At(h2, r)) /\ wd2[r] = Watch(h2, At(h2, r))
    <2>1. CASE r = 0
      <3>1. lc2[0] = NextCounts(lc[0], m) /\ wd2[0] = NextWatched(wd[0], m)
        BY <1>3
      <3> QED
        BY <1>1, <1>2, <1>3, <1>4, <2>1, <3>1
    <2>2. CASE r # 0
      <3>1. lc2[r] = lc[r] /\ wd2[r] = wd[r]
        BY <2>2
      <3>2. At(h2, r) = At(h, r) /\ At(h, r) \in 0 .. n
        BY <1>1, <1>4, <2>2
      <3> QED
        BY <1>2, <1>4, <3>1, <3>2
    <2> QED
      BY <2>1, <2>2
  <1>8. ASSUME NEW s \in PE \ {0}
        PROVE  Between(On(net2, span_tree_parent(s), s), h2, At(h2, s), At(h2, span_tree_parent(s)))
    <2> DEFINE r == span_tree_parent(s)
               t == On(net, r, s)
               a == At(h, s)
               b == At(h, r)
    <2>1. /\ r \in PE /\ t \in Seq(Message) /\ a \in Nat /\ b \in 0 .. n
          /\ Between(t, h, a, b)
      BY <1>1, <1>2, <1>3
    <2>2. On(net2, r, s) = IF r = 0 THEN t \o <<m>> ELSE t
      OBVIOUS
    <2>3. r = 0 => b = n
      BY <1>1
    <2>4. At(h2, s) = a /\ At(h2, r) = IF r = 0 THEN n + 1 ELSE b
      BY <1>3, <1>4
    <2> HIDE DEF r, t, a, b
    <2>5. b \in Nat /\ \A k \in 1 .. b : k \in 1 .. n
      BY <1>1, <2>1
    <2>6. \A k \in 1 .. b : Entry(h2, k) = Entry(h, k)
      BY <1>4, <2>5
    <2>7. /\ Between(t, h2, a, b)
          /\ Entry(h2, b + 1) = m => Between(t \o <<m>>, h2, a, b + 1)
      BY <1>5, <2>1, <2>5, <2>6, BetweenMore
    <2>8. CASE r = 0
      BY <1>4, <2>2, <2>3, <2>4, <2>7, <2>8 DEF r
    <2>9. CASE r # 0
      BY <2>2, <2>4, <2>7, <2>9 DEF r
    <2> QED
      BY <2>8, <2>9
  <1>9. Past(h2, net2, lc2, wd2)
    BY <1>7, <1>8 DEF Past
  <1> QED
    BY <1>6, <1>9 DEF h2

-----------------------------------------------------------------------------
(* Which messages go where *)

MayGo(p, q, m) ==
    \/ m.kind = "copy" /\ q \in span_tree_children(p)
    \/ m.kind = "redux" /\ p # 0 /\ q = span_tree_parent(p)
    \/ m.kind = "post" /\ q \in {0, p} /\ (m.entry = "consume" \/ p = 0)
    \/ m.kind = "resume" /\ p = 0 /\ q = 0

Routed(net) == \A p, q \in PE : \A m \in Holds(net, p, q) : MayGo(p, q, m)

(* The messages that consume an event of c *)
Uses(c) ==
    {m \in Message : m.kind = "post" /\ m.entry = "consume" /\ m.count.target = c}

(* The messages to the root, and to the main thread, that a round of c     *)
(* takes its course with                                                   *)
Calls(c) ==
    {m \in Message : /\ m.count.target = c
                     /\ (m.kind = "resume" \/ (m.kind = "post" /\ m.entry # "consume"))}

About(c) == Reds(c) \cup Uses(c) \cup Calls(c)

(* The messages of p's that wait for the root to consume an event for p *)
Waiting(net, p, c) ==
    Hit(net, p, p, Uses(c)) + (IF p = 0 THEN 0 ELSE Hit(net, p, 0, Uses(c)))

(* No message about c comes or goes *)
Unheard(net, net2, c) ==
    /\ \A q \in PE \ {0} :
          /\ Hit(net2, q, span_tree_parent(q), Reds(c)) =
                Hit(net, q, span_tree_parent(q), Reds(c))
          /\ Holds(net2, q, span_tree_parent(q)) \cap Reds(c)
                \subseteq Holds(net, q, span_tree_parent(q))
    /\ \A p \in PE : Waiting(net2, p, c) = Waiting(net, p, c)
    /\ Hit(net2, 0, 0, Calls(c)) = Hit(net, 0, 0, Calls(c))
    /\ Holds(net2, 0, 0) \cap Calls(c) \subseteq Holds(net, 0, 0)

LEMMA RoutedAfter ==
    ASSUME NEW net \in Nets, Routed(net), NEW q \in PE, NEW p \in PE, On(net, q, p) # <<>>,
           NEW out \in Sendings, \A s \in PE : \A x \in Sends(out, s) : MayGo(p, s, x)
    PROVE  Routed(After(net, q, p, out))
  <1> DEFINE net2 == After(net, q, p, out)
  <1> SUFFICES ASSUME NEW r \in PE, NEW s \in PE, NEW x \in Holds(net2, r, s)
               PROVE  MayGo(r, s, x)
    BY DEF Routed
  <1>1. x \in Holds(net, r, s) \/ (r = p /\ x \in Sends(out, s))
    BY AfterTo
  <1> QED
    BY <1>1 DEF Routed

LEMMA RoutedSend ==
    ASSUME NEW net \in Nets, Routed(net), NEW p \in PE,
           NEW out \in Sendings, \A s \in PE : \A x \in Sends(out, s) : MayGo(p, s, x)
    PROVE  Routed(Emit(net, p, out))
  <1> DEFINE net2 == Emit(net, p, out)
  <1> SUFFICES ASSUME NEW r \in PE, NEW s \in PE, NEW x \in Holds(net2, r, s)
               PROVE  MayGo(r, s, x)
    BY DEF Routed
  <1>1. x \in Holds(net, r, s) \/ (r = p /\ x \in Sends(out, s))
    BY EmitTo
  <1> QED
    BY <1>1 DEF Routed

LEMMA UnheardIs ==
    ASSUME NEW net, NEW net2, NEW c,
           ASSUME NEW T, T \subseteq About(c), NEW r \in PE, NEW s \in PE
           PROVE  /\ Hit(net2, r, s, T) = Hit(net, r, s, T)
                  /\ Holds(net2, r, s) \cap T \subseteq Holds(net, r, s)
    PROVE  Unheard(net, net2, c)
  <1>2. Reds(c) \subseteq About(c) /\ Uses(c) \subseteq About(c) /\ Calls(c) \subseteq About(c)
    BY DEF About
  <1>3. 0 \in PE /\ \A r \in PE \ {0} : span_tree_parent(r) \in PE
    BY FinitePEs, TreeIs
  <1>4. /\ \A r, s \in PE : Hit(net2, r, s, Reds(c)) = Hit(net, r, s, Reds(c))
        /\ \A r, s \in PE : Holds(net2, r, s) \cap Reds(c) \subseteq Holds(net, r, s)
        /\ \A r, s \in PE : Hit(net2, r, s, Uses(c)) = Hit(net, r, s, Uses(c))
        /\ \A r, s \in PE : Hit(net2, r, s, Calls(c)) = Hit(net, r, s, Calls(c))
        /\ \A r, s \in PE : Holds(net2, r, s) \cap Calls(c) \subseteq Holds(net, r, s)
    BY <1>2
  <1> QED
    BY <1>3, <1>4 DEF Unheard, Waiting

(* A step whose messages are not about c *)
LEMMA UnheardStep ==
    ASSUME NEW net \in Nets, NEW q \in PE, NEW p \in PE, On(net, q, p) # <<>>,
           NEW out \in Sendings,
           NEW c, Foremost(net, q, p) \notin About(c),
           \A s \in PE : Sends(out, s) \cap About(c) = {}
    PROVE  Unheard(net, After(net, q, p, out), c)
  <1> DEFINE net2 == After(net, q, p, out)
  <1>1. ASSUME NEW T, T \subseteq About(c), NEW r \in PE, NEW s \in PE
        PROVE  /\ Hit(net2, r, s, T) = Hit(net, r, s, T)
               /\ Holds(net2, r, s) \cap T \subseteq Holds(net, r, s)
    <2>1. Sends(out, s) \cap T = {} /\ Foremost(net, q, p) \notin T
      BY <1>1
    <2>2. Sent(out, s, T) = 0
      BY <2>1, NoneSent
    <2>5. ~Takes(net, q, p, r, s, T)
      BY <2>1 DEF Takes
    <2>3. /\ Hit(net, r, s, T) \in Nat
          /\ r = p => Hit(net2, r, s, T) = Hit(net, r, s, T) + Sent(out, s, T)
          /\ r # p => Hit(net2, r, s, T) = Hit(net, r, s, T)
      BY <2>5, AfterHits
    <2>4. Holds(net2, r, s) \subseteq Holds(net, r, s) \cup Sends(out, s)
      BY AfterTo
    <2> HIDE DEF net2
    <2> QED
      BY <2>1, <2>2, <2>3, <2>4
  <1> HIDE DEF net2
  <1>5. Unheard(net, net2, c)
    BY <1>1, UnheardIs
  <1> QED
    BY <1>5 DEF net2

(* The same without a message that is taken *)
LEMMA UnheardSend ==
    ASSUME NEW net \in Nets, NEW p \in PE, NEW out \in Sendings,
           NEW c, \A s \in PE : Sends(out, s) \cap About(c) = {}
    PROVE  Unheard(net, Emit(net, p, out), c)
  <1> DEFINE net2 == Emit(net, p, out)
  <1>1. ASSUME NEW T, T \subseteq About(c), NEW r \in PE, NEW s \in PE
        PROVE  /\ Hit(net2, r, s, T) = Hit(net, r, s, T)
               /\ Holds(net2, r, s) \cap T \subseteq Holds(net, r, s)
    <2>1. Sends(out, s) \cap T = {}
      BY <1>1
    <2>2. Sent(out, s, T) = 0 /\ Hit(net, r, s, T) \in Nat
      BY <2>1, NoneSent, NoneOn
    <2>3. /\ r = p => /\ Holds(net2, r, s) = Holds(net, r, s) \cup Sends(out, s)
                      /\ Hit(net2, r, s, T) = Hit(net, r, s, T) + Sent(out, s, T)
          /\ r # p => /\ Holds(net2, r, s) = Holds(net, r, s)
                      /\ Hit(net2, r, s, T) = Hit(net, r, s, T)
      BY EmitTo, EmitHits
    <2> HIDE DEF net2
    <2> QED
      BY <2>1, <2>2, <2>3
  <1> HIDE DEF net2
  <1>5. Unheard(net, net2, c)
    BY <1>1, UnheardIs
  <1> QED
    BY <1>5 DEF net2

(* What the messages are that can be sent *)
LEMMA Kinds ==
    /\ \A c, d \in Col :
          /\ Post("consume", c) \in Uses(c) /\ (d # c => Post("consume", c) \notin About(d))
          /\ Resume(c) \in Calls(c) /\ (d # c => Resume(c) \notin About(d))
          /\ Resume(c) \notin Uses(d) /\ Resume(c) \notin Reds(d)
          /\ Post("consume", c) \notin Calls(d) /\ Post("consume", c) \notin Reds(d)
          /\ \A e \in {"produce", "start_detection"} :
                /\ Post(e, c) \in Calls(c) /\ (d # c => Post(e, c) \notin About(d))
                /\ Post(e, c) \notin Uses(d) /\ Post(e, c) \notin Reds(d)
    /\ \A n \in CountMessage : \A d \in Col :
          /\ Posted(n) \in Calls(n.target) /\ (d # n.target => Posted(n) \notin About(d))
          /\ Posted(n) \notin Uses(d) /\ Posted(n) \notin Reds(d)
    /\ \A n \in CountMessage, tag \in Tags : \A d \in Col :
          /\ tag = compress(d) => Redux(tag, n) \in Reds(d)
          /\ tag # compress(d) => Redux(tag, n) \notin About(d)
          /\ Redux(tag, n) \notin Uses(d) /\ Redux(tag, n) \notin Calls(d)
    /\ \A m \in GroupMessage : \A d \in Col :
          /\ Copy(m) \notin About(d) /\ m \notin Reds(d)
          /\ d # m.count.target => m \notin About(d)
          /\ m.kind = "copy" => m \notin About(d)
  <1>1. ASSUME NEW c \in Col, NEW d \in Col
        PROVE  /\ Post("consume", c) \in Uses(c) /\ (d # c => Post("consume", c) \notin About(d))
               /\ Resume(c) \in Calls(c) /\ (d # c => Resume(c) \notin About(d))
               /\ Resume(c) \notin Uses(d) /\ Resume(c) \notin Reds(d)
               /\ Post("consume", c) \notin Calls(d) /\ Post("consume", c) \notin Reds(d)
               /\ \A e \in {"produce", "start_detection"} :
                     /\ Post(e, c) \in Calls(c) /\ (d # c => Post(e, c) \notin About(d))
                     /\ Post(e, c) \notin Uses(d) /\ Post(e, c) \notin Reds(d)
    <2>1. /\ Post("produce", c) \in Message /\ Post("consume", c) \in Message
          /\ Post("start_detection", c) \in Message /\ Resume(c) \in Message
      BY MessagesAre
    <2>2. /\ Resume(c).kind = "resume" /\ Resume(c).count.target = c
          /\ \A e : /\ Post(e, c).kind = "post" /\ Post(e, c).entry = e
                    /\ Post(e, c).count.target = c
      BY DEF Resume, Post, Count
    <2> QED
      BY <2>1, <2>2 DEF About, Uses, Calls, Reds
  <1>2. ASSUME NEW n \in CountMessage, NEW d \in Col
        PROVE  /\ Posted(n) \in Calls(n.target) /\ (d # n.target => Posted(n) \notin About(d))
               /\ Posted(n) \notin Uses(d) /\ Posted(n) \notin Reds(d)
    <2>1. Posted(n) \in Message
      BY MessagesAre
    <2>2. Posted(n).kind = "post" /\ Posted(n).entry = "receive_count_" /\ Posted(n).count = n
      BY DEF Posted
    <2> QED
      BY <2>1, <2>2 DEF About, Uses, Calls, Reds
  <1>3. ASSUME NEW n \in CountMessage, NEW tag \in Tags, NEW d \in Col
        PROVE  /\ tag = compress(d) => Redux(tag, n) \in Reds(d)
               /\ tag # compress(d) => Redux(tag, n) \notin About(d)
               /\ Redux(tag, n) \notin Uses(d) /\ Redux(tag, n) \notin Calls(d)
    <2>1. Redux(tag, n) \in Message
      BY MessagesAre
    <2>2. Redux(tag, n).kind = "redux" /\ Redux(tag, n).tag = tag
      BY DEF Redux
    <2> QED
      BY <2>1, <2>2 DEF About, Uses, Calls, Reds
  <1>4. ASSUME NEW m \in GroupMessage, NEW d \in Col
        PROVE  /\ Copy(m) \notin About(d) /\ m \notin Reds(d)
               /\ d # m.count.target => m \notin About(d)
               /\ m.kind = "copy" => m \notin About(d)
    <2>1. m.kind \in {"post", "copy"} /\ Copy(m).kind = "copy"
      BY MessagesAre DEF GroupMessage
    <2> QED
      BY <2>1 DEF About, Uses, Calls, Reds
  <1> QED
    BY <1>1, <1>2, <1>3, <1>4

-----------------------------------------------------------------------------
(* What the broadcasts of a history do *)

Of(m) == m.count.target
Produces(m) == m.entry = "produce"
Consumes(m) == m.entry = "consume"
Tells(m) == m.entry = "receive_count_"

(* The events of c that the root has announced, or not seen consumed, after j *)
Due(h, j, c) == Counts(h, j)[c]

LEMMA Sorts ==
    ASSUME NEW m \in GroupMessage
    PROVE  /\ Of(m) \in Col /\ Of(Copy(m)) = Of(m)
           /\ Produces(m) \/ Consumes(m) \/ Marks(m) \/ Ends(m)
           /\ Produces(m) => ~Consumes(m) /\ ~Marks(m) /\ ~Ends(m) /\ ~Tells(m)
           /\ Consumes(m) => ~Marks(m) /\ ~Ends(m) /\ ~Tells(m)
           /\ Marks(m) => ~Ends(m)
           /\ Ends(m) => Tells(m)
           /\ Tells(m) => Marks(m) \/ Ends(m)
           /\ Produces(Copy(m)) <=> Produces(m)
           /\ Consumes(Copy(m)) <=> Consumes(m)
           /\ Marks(Copy(m)) <=> Marks(m)
           /\ Ends(Copy(m)) <=> Ends(m)
           /\ Tells(Copy(m)) <=> Tells(m)
  <1>1. /\ m.count.target \in Col
        /\ m.entry \in {"produce", "consume", "start_detection", "receive_count_"}
        /\ Copy(m).entry = m.entry /\ Copy(m).count = m.count
    BY MessagesAre, MessageIs DEF GroupMessage
  <1> QED
    BY <1>1 DEF Of, Produces, Consumes, Marks, Ends, Tells

LEMMA NextsAre ==
    ASSUME NEW l \in [Col -> Int], NEW w \in SUBSET Col, NEW m \in GroupMessage
    PROVE  /\ Produces(m) => NextCounts(l, m)[Of(m)] = l[Of(m)] + NumPes
           /\ Consumes(m) => NextCounts(l, m)[Of(m)] = l[Of(m)] - 1
           /\ Marks(m) => NextCounts(l, m)[Of(m)] = l[Of(m)]
           /\ Ends(m) => NextCounts(l, m)[Of(m)] = 0
           /\ Marks(m) => (Of(m) \in NextWatched(w, m) <=> ~Tells(m) \/ Of(m) \in w)
           /\ Ends(m) => Of(m) \notin NextWatched(w, m)
           /\ Produces(m) \/ Consumes(m) => NextWatched(w, m) = w
           /\ \A d \in Col : d # Of(m) => /\ NextCounts(l, m)[d] = l[d]
                                          /\ d \in NextWatched(w, m) <=> d \in w
  <1>1. /\ m.count.target \in Col /\ Of(m) = m.count.target
        /\ m.entry \in {"produce", "consume", "start_detection", "receive_count_"}
    BY MessagesAre, MessageIs DEF GroupMessage, Of
  <1>2. \A d \in Col : NextCounts(l, m)[d] =
           IF d = Of(m)
           THEN IF m.entry = "produce" THEN l[d] + NumPes
                ELSE IF m.entry = "consume" THEN l[d] - 1
                ELSE IF Ends(m) THEN 0 ELSE l[d]
           ELSE l[d]
    BY <1>1 DEF NextCounts
  <1>3. /\ Produces(m) <=> m.entry = "produce"
        /\ Consumes(m) <=> m.entry = "consume"
        /\ Ends(m) => m.entry = "receive_count_"
        /\ Marks(m) => m.entry = "start_detection" \/ (m.entry = "receive_count_" /\ ~Ends(m))
        /\ Tells(m) <=> m.entry = "receive_count_"
    BY DEF Produces, Consumes, Ends, Marks, Tells
  <1>4. NextWatched(w, m) = IF m.entry = "start_detection" THEN w \cup {Of(m)}
                            ELSE IF Ends(m) THEN w \ {Of(m)} ELSE w
    BY <1>1 DEF NextWatched
  <1>5. Of(m) \in Col
    BY <1>1
  <1>6. /\ m.entry = "produce" => NextCounts(l, m)[Of(m)] = l[Of(m)] + NumPes
        /\ m.entry = "consume" => NextCounts(l, m)[Of(m)] = l[Of(m)] - 1
        /\ m.entry \notin {"produce", "consume"} /\ Ends(m) => NextCounts(l, m)[Of(m)] = 0
        /\ m.entry \notin {"produce", "consume"} /\ ~Ends(m) => NextCounts(l, m)[Of(m)] = l[Of(m)]
    BY <1>2, <1>5
  <1>7. \A d \in Col : d # Of(m) => NextCounts(l, m)[d] = l[d]
    BY <1>2
  <1>8. /\ Produces(m) => NextCounts(l, m)[Of(m)] = l[Of(m)] + NumPes
        /\ Consumes(m) => NextCounts(l, m)[Of(m)] = l[Of(m)] - 1
        /\ Marks(m) => NextCounts(l, m)[Of(m)] = l[Of(m)]
        /\ Ends(m) => NextCounts(l, m)[Of(m)] = 0
    BY <1>3, <1>6
  <1>9. /\ Marks(m) => (Of(m) \in NextWatched(w, m) <=> ~Tells(m) \/ Of(m) \in w)
        /\ Ends(m) => Of(m) \notin NextWatched(w, m)
        /\ Produces(m) \/ Consumes(m) => NextWatched(w, m) = w
        /\ \A d \in Col : d # Of(m) => (d \in NextWatched(w, m) <=> d \in w)
    BY <1>3, <1>4
  <1> QED
    BY <1>7, <1>8, <1>9

(* One broadcast after the other *)
LEMMA HistoryIs ==
    ASSUME NEW h, IsHistory(h), NEW j \in 1 .. Ran(h)
    PROVE  /\ Entry(h, j) \in GroupMessage /\ Entry(h, j).kind = "copy"
           /\ j - 1 \in 0 .. Ran(h)
           /\ \A c \in Col : Due(h, j, c) \in Int /\ Due(h, j - 1, c) \in Int
           /\ Marks(Entry(h, j)) => Due(h, j, Of(Entry(h, j))) = Due(h, j - 1, Of(Entry(h, j)))
  <1> DEFINE m == Entry(h, j)
             l == Counts(h, j - 1)
             w == Watch(h, j - 1)
             l2 == Counts(h, j)
  <1>1. Ran(h) \in Nat /\ j - 1 \in 0 .. Ran(h) /\ j \in 0 .. Ran(h)
    BY DEF IsHistory
  <1>2. /\ m \in GroupMessage /\ m.kind = "copy"
        /\ l \in [Col -> Int] /\ w \in SUBSET Col /\ l2 \in [Col -> Int]
        /\ l2 = NextCounts(l, m)
    BY <1>1 DEF IsHistory
  <1> HIDE DEF m, l, w, l2
  <1>3. Of(m) \in Col /\ (Marks(m) => l2[Of(m)] = l[Of(m)])
    BY <1>2, Sorts, NextsAre
  <1>4. /\ \A c : Due(h, j, c) = l2[c] /\ Due(h, j - 1, c) = l[c]
        /\ Entry(h, j) = m
    BY DEF Due, l, l2, m
  <1>5. \A c \in Col : Due(h, j, c) \in Int /\ Due(h, j - 1, c) \in Int
    BY <1>2, <1>4
  <1> QED
    BY <1>1, <1>2, <1>3, <1>4, <1>5

LEMMA DueIs ==
    ASSUME NEW h, IsHistory(h), NEW j \in 0 .. Ran(h), NEW c \in Col
    PROVE  Due(h, j, c) \in Int
  <1>1. Counts(h, j) \in [Col -> Int]
    BY DEF IsHistory
  <1> QED
    BY <1>1 DEF Due

(* What a PE has counted is what the root had, at the same point *)
LEMMA PastDue ==
    ASSUME NEW h, IsHistory(h), NEW net, NEW lc, NEW wd, Past(h, net, lc, wd),
           NEW p \in PE, NEW c \in Col
    PROVE  lc[p][c] = Due(h, At(h, p), c) /\ wd[p] = Watch(h, At(h, p))
  <1>1. lc[p] = Counts(h, At(h, p)) /\ wd[p] = Watch(h, At(h, p))
    BY DEF Past
  <1> QED
    BY <1>1 DEF Due

(* What is on its way to p as a copy p has yet to run *)
LEMMA PastEntry ==
    ASSUME NEW h, IsHistory(h), NEW net \in Nets, NEW lc, NEW wd, Past(h, net, lc, wd),
           NEW p \in PE \ {0}, NEW m \in Holds(net, span_tree_parent(p), p)
    PROVE  \E j \in 1 .. Ran(h) : At(h, p) < j /\ m = Entry(h, j)
  <1> DEFINE q == span_tree_parent(p)
             s == On(net, q, p)
             i == At(h, p)
             n == At(h, q)
  <1>1. q \in PE
    BY FinitePEs, TreeIs
  <1>2. /\ Between(s, h, i, n) /\ i \in 0 .. Ran(h) /\ n \in 0 .. Ran(h) /\ Ran(h) \in Nat
        /\ s \in Seq(Message) /\ m \in ToSet(s)
    BY <1>1, NoneOn DEF Past, IsHistory, Holds
  <1> HIDE DEF q, s, i, n
  <1>3. PICK k \in DOMAIN s : m = s[k]
    BY <1>2 DEF ToSet
  <1>4. i <= n /\ Len(s) = n - i /\ \A x \in 1 .. (n - i) : s[x] = Entry(h, i + x)
    BY <1>2 DEF Between
  <1>5. k \in 1 .. (n - i)
    BY <1>2, <1>3, <1>4, LenProperties
  <1>6. m = Entry(h, i + k) /\ i + k \in 1 .. Ran(h) /\ i < i + k
    BY <1>2, <1>3, <1>4, <1>5
  <1> QED
    BY <1>6 DEF i

-----------------------------------------------------------------------------
(* The rounds of one collection *)

(* In the current round: the root has run the announcement as its prod-th  *)
(* broadcast, and the consumption of the PEs in used; each of the others   *)
(* that have run the announcement has one message on its way to the root.  *)
Spent(h, c, prod, used, net) ==
    /\ prod \in 0 .. Ran(h) /\ used \subseteq PE
    /\ Due(h, Ran(h), c) = Cardinality(PE \ used)
    /\ \A p \in used : At(h, p) >= prod
    /\ \A p \in PE : Waiting(net, p, c) = IF p \notin used /\ At(h, p) >= prod THEN 1 ELSE 0

(* Since the broadcast that began the last wave, there has been nothing to *)
(* consume                                                                 *)
Quiet(h, c, mark, used) ==
    /\ used = PE
    /\ \A j \in mark .. Ran(h) : Due(h, j, c) = 0
    /\ \A j \in (mark + 1) .. Ran(h) : Of(Entry(h, j)) = c => Ends(Entry(h, j))

Stages == {"idle", "begun", "produced", "starting", "wave", "summed", "over"}

(* The message the round waits for, after a wave to which each PE          *)
(* contributed v                                                           *)
CallIn(m, stage, v) ==
    \/ stage = "begun" /\ m.kind = "post" /\ Produces(m)
    \/ stage = "starting" /\ m.kind = "post" /\ m.entry = "start_detection"
    \/ /\ stage = "summed" /\ m.kind = "post" /\ Tells(m)
       /\ m.count.gcount \in Nat /\ (m.count.gcount = 0 => v = 0)
    \/ stage = "over" /\ m.kind = "resume"

(* The stages of a round: begun by the thread, its events announced, their *)
(* detection called for, a wave under way, its sum known to the root, and  *)
(* over, when the thread is to be resumed.  The root began the last wave   *)
(* with its mark-th broadcast, and fired are the PEs that have combined    *)
(* their contributions to it.                                              *)
Staged(h, c, mark, fired, used, stage, net, st, asl) ==
    /\ mark \in 0 .. Ran(h) /\ stage \in Stages
    /\ Hit(net, 0, 0, Calls(c)) = IF stage \in {"idle", "produced", "wave"} THEN 0 ELSE 1
    /\ \A m \in Holds(net, 0, 0) \cap Calls(c) : CallIn(m, stage, Due(h, mark, c))
    /\ c \in asl <=> stage # "idle"
    /\ stage = "produced" => c \notin st
    /\ stage \in {"starting", "wave", "summed", "over"} => c \in st
    /\ c \in Watch(h, Ran(h)) <=> stage \in {"wave", "summed"}
    /\ stage = "wave" <=> 0 \notin fired
    /\ stage \in {"idle", "begun", "over"} \/ (stage \in {"wave", "summed"} /\ Due(h, mark, c) = 0)
          => Quiet(h, c, mark, used)

(* A broadcast about c that not every PE has run is the last of its kind,  *)
(* tells of a sum only PEs that detect, and ends a detection where nothing *)
(* is due                                                                  *)
Owed(h, c, mark, prod, j) ==
    /\ Marks(Entry(h, j)) => \A p \in PE : At(h, p) < j => j = mark
    /\ Produces(Entry(h, j)) => \A p \in PE : At(h, p) < j => j = prod
    /\ Tells(Entry(h, j)) => c \in Watch(h, j - 1)
    /\ Ends(Entry(h, j)) =>
          \E i \in 0 .. j : /\ \A p \in PE : At(h, p) >= i
                            /\ \A k \in i .. j : Due(h, k, c) = 0

Pending(h, c, mark, prod) ==
    /\ \A j \in 1 .. Ran(h) : Of(Entry(h, j)) = c => Owed(h, c, mark, prod, j)
    /\ mark > 0 => Marks(Entry(h, mark)) /\ Of(Entry(h, mark)) = c
    /\ prod > 0 => Produces(Entry(h, prod)) /\ Of(Entry(h, prod)) = c

OfCol(c, h, prod, used, mark, fired, stage, net, rec, st, asl) ==
    /\ Spent(h, c, prod, used, net)
    /\ Staged(h, c, mark, fired, used, stage, net, st, asl)
    /\ WaveOf(c, mark, fired, Due(h, mark, c), h, net, rec)
    /\ Pending(h, c, mark, prod)

Kept(c, h, net, rec, st, asl) ==
    \E prod, used, mark, fired, stage :
       OfCol(c, h, prod, used, mark, fired, stage, net, rec, st, asl)

(* The history goes on: what it says of c so far remains *)
Extends(h, h2, c) ==
    /\ Ran(h) \in Nat /\ Ran(h2) \in Nat /\ Ran(h) <= Ran(h2)
    /\ \A j \in 1 .. Ran(h) : Entry(h2, j) = Entry(h, j)
    /\ \A j \in 0 .. Ran(h) : /\ Due(h2, j, c) = Due(h, j, c)
                              /\ c \in Watch(h2, j) <=> c \in Watch(h, j)
    /\ \A p \in PE : /\ At(h, p) \in 0 .. Ran(h) /\ At(h2, p) \in 0 .. Ran(h2)
                     /\ At(h, p) <= At(h2, p)

(* ... and what comes is not about c, or is passed on *)
Later(h, h2, c, mark, prod) ==
    /\ Extends(h, h2, c)
    /\ \A j \in (Ran(h) + 1) .. Ran(h2) : Of(Entry(h2, j)) # c
    /\ \A j \in Ran(h) .. Ran(h2) : /\ Due(h2, j, c) = Due(h, Ran(h), c)
                                    /\ c \in Watch(h2, j) <=> c \in Watch(h, Ran(h))
    /\ \A p \in PE : /\ At(h2, p) >= mark <=> At(h, p) >= mark
                     /\ At(h2, p) >= prod <=> At(h, p) >= prod

LEMMA OwedLater ==
    ASSUME NEW h, NEW h2, NEW c, Extends(h, h2, c), NEW j \in 1 .. Ran(h),
           NEW mark, NEW prod, Owed(h, c, mark, prod, j),
           NEW mark2, mark2 = mark \/ \A p \in PE : ~(At(h, p) < mark),
           NEW prod2, prod2 = prod \/ \A p \in PE : ~(At(h, p) < prod)
    PROVE  Owed(h2, c, mark2, prod2, j)
  <1>1. /\ Ran(h) \in Nat /\ Entry(h2, j) = Entry(h, j)
        /\ j - 1 \in 0 .. Ran(h) /\ (c \in Watch(h2, j - 1) <=> c \in Watch(h, j - 1))
    BY DEF Extends
  <1>2. ASSUME NEW p \in PE, At(h2, p) < j
        PROVE  At(h, p) < j
    BY <1>1, <1>2 DEF Extends
  <1>3. Marks(Entry(h, j)) => \A p \in PE : At(h2, p) < j => j = mark2
    BY <1>2 DEF Owed
  <1>4. Produces(Entry(h, j)) => \A p \in PE : At(h2, p) < j => j = prod2
    BY <1>2 DEF Owed
  <1>5. ASSUME Ends(Entry(h, j))
        PROVE  \E i \in 0 .. j : /\ \A p \in PE : At(h2, p) >= i
                                 /\ \A k \in i .. j : Due(h2, k, c) = 0
    <2>1. PICK i \in 0 .. j : /\ \A p \in PE : At(h, p) >= i
                              /\ \A k \in i .. j : Due(h, k, c) = 0
      BY <1>5 DEF Owed
    <2>2. \A k \in i .. j : k \in 0 .. Ran(h)
      BY <1>1
    <2>3. \A k \in i .. j : Due(h2, k, c) = 0
      BY <2>1, <2>2 DEF Extends
    <2>4. ASSUME NEW p \in PE
          PROVE  At(h2, p) >= i
      BY <1>1, <2>1 DEF Extends
    <2> QED
      BY <2>3, <2>4
  <1> QED
    BY <1>1, <1>3, <1>4, <1>5 DEF Owed

LEMMA PendingLater ==
    ASSUME NEW h, NEW h2, NEW c, NEW mark \in Nat, NEW prod \in Nat, Later(h, h2, c, mark, prod),
           mark <= Ran(h), prod <= Ran(h), Pending(h, c, mark, prod)
    PROVE  Pending(h2, c, mark, prod)
  <1>1. /\ Extends(h, h2, c) /\ Ran(h) \in Nat /\ Ran(h2) \in Nat
        /\ \A j \in 1 .. Ran(h) : Entry(h2, j) = Entry(h, j)
        /\ \A j \in (Ran(h) + 1) .. Ran(h2) : Of(Entry(h2, j)) # c
    BY DEF Later, Extends
  <1>2. ASSUME NEW j \in 1 .. Ran(h2), Of(Entry(h2, j)) = c
        PROVE  Owed(h2, c, mark, prod, j)
    <2>1. j \in 1 .. Ran(h)
      BY <1>1, <1>2
    <2>2. Owed(h, c, mark, prod, j)
      BY <1>1, <1>2, <2>1 DEF Pending
    <2> QED
      BY <1>1, <2>1, <2>2, OwedLater
  <1>3. (mark > 0 => mark \in 1 .. Ran(h)) /\ (prod > 0 => prod \in 1 .. Ran(h))
    BY <1>1
  <1> QED
    BY <1>1, <1>2, <1>3 DEF Pending

LEMMA SpentLater ==
    ASSUME NEW h, NEW h2, NEW c, NEW mark, NEW prod, Later(h, h2, c, mark, prod),
           NEW used, NEW net, NEW net2, Spent(h, c, prod, used, net),
           \A p \in PE : Waiting(net2, p, c) = Waiting(net, p, c)
    PROVE  Spent(h2, c, prod, used, net2)
  <1>1. /\ Ran(h) \in Nat /\ Ran(h2) \in Nat /\ Ran(h) <= Ran(h2)
        /\ Ran(h2) \in Ran(h) .. Ran(h2)
        /\ \A p \in PE : At(h2, p) >= prod <=> At(h, p) >= prod
    BY DEF Later, Extends
  <1>2. Due(h2, Ran(h2), c) = Due(h, Ran(h), c)
    BY <1>1 DEF Later
  <1>3. prod \in 0 .. Ran(h2)
    BY <1>1 DEF Spent
  <1> QED
    BY <1>1, <1>2, <1>3 DEF Spent

LEMMA QuietLater ==
    ASSUME NEW h, NEW h2, NEW c, NEW a, NEW b, Later(h, h2, c, a, b),
           NEW mark \in Nat, mark <= Ran(h), NEW used, Quiet(h, c, mark, used)
    PROVE  Quiet(h2, c, mark, used)
  <1>1. /\ Ran(h) \in Nat /\ Ran(h2) \in Nat /\ Ran(h) <= Ran(h2)
        /\ \A j \in 1 .. Ran(h) : Entry(h2, j) = Entry(h, j)
        /\ \A j \in 0 .. Ran(h) : Due(h2, j, c) = Due(h, j, c)
        /\ \A j \in (Ran(h) + 1) .. Ran(h2) : Of(Entry(h2, j)) # c
        /\ \A j \in Ran(h) .. Ran(h2) : Due(h2, j, c) = Due(h, Ran(h), c)
    BY DEF Later, Extends
  <1>2. /\ used = PE
        /\ \A j \in mark .. Ran(h) : Due(h, j, c) = 0
        /\ \A j \in (mark + 1) .. Ran(h) : Of(Entry(h, j)) = c => Ends(Entry(h, j))
    BY DEF Quiet
  <1>3. ASSUME NEW j \in mark .. Ran(h2)
        PROVE  Due(h2, j, c) = 0
    <2>1. CASE j <= Ran(h)
      <3>1. j \in 0 .. Ran(h) /\ j \in mark .. Ran(h)
        BY <1>1, <2>1
      <3> QED
        BY <1>1, <1>2, <3>1
    <2>2. CASE ~(j <= Ran(h))
      <3>1. j \in Ran(h) .. Ran(h2) /\ Ran(h) \in mark .. Ran(h)
        BY <1>1, <2>2
      <3>2. Due(h, Ran(h), c) = 0
        BY <1>2, <3>1
      <3> QED
        BY <1>1, <3>1, <3>2
    <2> QED
      BY <2>1, <2>2
  <1>4. ASSUME NEW j \in (mark + 1) .. Ran(h2), Of(Entry(h2, j)) = c
        PROVE  Ends(Entry(h2, j))
    <2>1. j \in 1 .. Ran(h) /\ j \in (mark + 1) .. Ran(h)
      BY <1>1, <1>4
    <2> QED
      BY <1>1, <1>2, <1>4, <2>1
  <1> QED
    BY <1>2, <1>3, <1>4 DEF Quiet

LEMMA StagedLater ==
    ASSUME NEW h, NEW h2, NEW c, NEW a, NEW b, Later(h, h2, c, a, b),
           NEW mark, NEW fired, NEW used, NEW stage, NEW net, NEW st, NEW asl,
           Staged(h, c, mark, fired, used, stage, net, st, asl),
           NEW fired2, 0 \in fired2 <=> 0 \in fired,
           NEW net2, NEW st2, NEW asl2,
           Hit(net2, 0, 0, Calls(c)) = Hit(net, 0, 0, Calls(c)),
           Holds(net2, 0, 0) \cap Calls(c) \subseteq Holds(net, 0, 0),
           c \in st2 <=> c \in st, c \in asl2 <=> c \in asl
    PROVE  Staged(h2, c, mark, fired2, used, stage, net2, st2, asl2)
  <1>1. /\ Ran(h) \in Nat /\ Ran(h2) \in Nat /\ Ran(h) <= Ran(h2)
        /\ mark \in 0 .. Ran(h) /\ mark \in Nat /\ mark <= Ran(h)
        /\ Ran(h2) \in Ran(h) .. Ran(h2)
    BY DEF Later, Extends, Staged
  <1>2. mark \in 0 .. Ran(h2)
    BY <1>1
  <1>3. Due(h2, mark, c) = Due(h, mark, c)
    BY <1>1 DEF Later, Extends
  <1>4. c \in Watch(h2, Ran(h2)) <=> c \in Watch(h, Ran(h))
    BY <1>1 DEF Later
  <1>5. Quiet(h, c, mark, used) => Quiet(h2, c, mark, used)
    BY <1>1, QuietLater
  <1> QED
    BY <1>2, <1>3, <1>4, <1>5 DEF Staged

(* A step that has nothing to do with c *)
LEMMA OfColLater ==
    ASSUME NEW c, NEW h, NEW prod, NEW used, NEW mark, NEW fired, NEW stage,
           NEW net, NEW rec, NEW st, NEW asl,
           OfCol(c, h, prod, used, mark, fired, stage, net, rec, st, asl),
           NEW h2, Later(h, h2, c, mark, prod),
           NEW net2, Unheard(net, net2, c),
           NEW rec2, \A r \in PE : Gathered(rec2, r, compress(c)) = Gathered(rec, r, compress(c)),
           NEW st2, c \in st2 <=> c \in st, NEW asl2, c \in asl2 <=> c \in asl
    PROVE  OfCol(c, h2, prod, used, mark, fired, stage, net2, rec2, st2, asl2)
  <1>1. /\ Spent(h, c, prod, used, net)
        /\ Staged(h, c, mark, fired, used, stage, net, st, asl)
        /\ WaveOf(c, mark, fired, Due(h, mark, c), h, net, rec)
        /\ Pending(h, c, mark, prod)
    BY DEF OfCol
  <1>2. /\ Ran(h) \in Nat /\ mark \in 0 .. Ran(h) /\ prod \in 0 .. Ran(h)
        /\ mark \in Nat /\ prod \in Nat /\ mark <= Ran(h) /\ prod <= Ran(h)
    BY <1>1 DEF Later, Extends, Spent, Staged
  <1>3. /\ \A p \in PE : Waiting(net2, p, c) = Waiting(net, p, c)
        /\ Hit(net2, 0, 0, Calls(c)) = Hit(net, 0, 0, Calls(c))
        /\ Holds(net2, 0, 0) \cap Calls(c) \subseteq Holds(net, 0, 0)
        /\ \A q \in PE \ {0} :
              /\ Hit(net2, q, span_tree_parent(q), Reds(c)) =
                    Hit(net, q, span_tree_parent(q), Reds(c))
              /\ Holds(net2, q, span_tree_parent(q)) \cap Reds(c)
                    \subseteq Holds(net, q, span_tree_parent(q))
    BY DEF Unheard
  <1>4. Spent(h2, c, prod, used, net2)
    BY <1>1, <1>3, SpentLater
  <1>5. Staged(h2, c, mark, fired, used, stage, net2, st2, asl2)
    BY <1>1, <1>2, <1>3, StagedLater
  <1>6. Pending(h2, c, mark, prod)
    BY <1>1, <1>2, PendingLater
  <1>7. Due(h2, mark, c) = Due(h, mark, c) /\ \A r \in PE : At(h2, r) >= mark <=> At(h, r) >= mark
    BY <1>2 DEF Later, Extends
  <1>8. WaveOf(c, mark, fired, Due(h2, mark, c), h2, net2, rec2)
    <2> DEFINE v == Due(h, mark, c)
    <2>1. WaveOf(c, mark, fired, v, h, net, rec) /\ Due(h2, mark, c) = v
      BY <1>1, <1>7
    <2> HIDE DEF v
    <2>2. WaveOf(c, mark, fired, v, h2, net2, rec2)
      BY <1>3, <1>7, <2>1, WaveFrame
    <2> QED
      BY <2>1, <2>2
  <1> QED
    BY <1>4, <1>5, <1>6, <1>8 DEF OfCol

LEMMA SameLater ==
    ASSUME NEW h, IsHistory(h), NEW c, NEW mark, NEW prod
    PROVE  Later(h, h, c, mark, prod)
  <1>1. /\ Ran(h) \in Nat /\ \A p \in PE : At(h, p) \in 0 .. Ran(h)
    BY DEF IsHistory
  <1>2. \A j \in Ran(h) .. Ran(h) : j = Ran(h)
    BY <1>1
  <1>3. \A j \in (Ran(h) + 1) .. Ran(h) : FALSE
    BY <1>1
  <1>4. \A p \in PE : At(h, p) <= At(h, p)
    BY <1>1
  <1> QED
    BY <1>1, <1>2, <1>3, <1>4 DEF Later, Extends

LEMMA MovedLater ==
    ASSUME NEW h, IsHistory(h), NEW p \in PE \ {0}, At(h, p) + 1 \in 1 .. Ran(h), NEW c
    PROVE  /\ Extends(h, Moved(h, p), c)
           /\ \A mark \in Nat, prod \in Nat :
                 mark # At(h, p) + 1 /\ prod # At(h, p) + 1 => Later(h, Moved(h, p), c, mark, prod)
  <1> DEFINE h2 == Moved(h, p)
             n == Ran(h)
  <1>1. /\ Ran(h2) = n
        /\ \A j : /\ Entry(h2, j) = Entry(h, j)
                  /\ Counts(h2, j) = Counts(h, j)
                  /\ Watch(h2, j) = Watch(h, j)
        /\ \A r \in PE : At(h2, r) = IF r = p THEN At(h, p) + 1 ELSE At(h, r)
    BY MovedIs
  <1>2. n \in Nat /\ \A r \in PE : At(h, r) \in 0 .. n
    BY DEF IsHistory
  <1>3. At(h, p) + 1 \in 1 .. n
    OBVIOUS
  <1> HIDE DEF h2, n
  <1>4. \A r \in PE : At(h2, r) \in 0 .. n /\ At(h, r) <= At(h2, r)
    <2> SUFFICES ASSUME NEW r \in PE
                 PROVE  At(h2, r) \in 0 .. n /\ At(h, r) <= At(h2, r)
      OBVIOUS
    <2>1. CASE r = p
      BY <1>1, <1>2, <1>3, <2>1
    <2>2. CASE r # p
      BY <1>1, <1>2, <2>2
    <2> QED
      BY <2>1, <2>2
  <1>5. \A j : Due(h2, j, c) = Due(h, j, c)
    BY <1>1 DEF Due
  <1>6. Extends(h, h2, c)
    BY <1>1, <1>2, <1>4, <1>5 DEF Extends, n
  <1>7. ASSUME NEW mark \in Nat, NEW prod \in Nat, mark # At(h, p) + 1, prod # At(h, p) + 1
        PROVE  Later(h, h2, c, mark, prod)
    <2>1. ASSUME NEW r \in PE, NEW x \in Nat, x # At(h, p) + 1
          PROVE  At(h2, r) >= x <=> At(h, r) >= x
      <3>1. CASE r = p
        BY <1>1, <1>2, <2>1, <3>1
      <3>2. CASE r # p
        BY <1>1, <3>2
      <3> QED
        BY <3>1, <3>2
    <2>2. \A j \in (n + 1) .. n : FALSE
      BY <1>2
    <2>3. \A j \in n .. n : j = n
      BY <1>2
    <2>4. \A r \in PE : (At(h2, r) >= mark <=> At(h, r) >= mark) /\ (At(h2, r) >= prod <=> At(h, r) >= prod)
      BY <1>7, <2>1
    <2> QED
      BY <1>1, <1>5, <1>6, <2>2, <2>3, <2>4 DEF Later, n
  <1> QED
    BY <1>6, <1>7 DEF h2

LEMMA GrownExtends ==
    ASSUME NEW h, IsHistory(h), NEW m \in GroupMessage, NEW c \in Col
    PROVE  /\ Extends(h, Grown(h, m), c)
           /\ Ran(Grown(h, m)) = Ran(h) + 1 /\ Entry(Grown(h, m), Ran(h) + 1) = m
           /\ \A p \in PE : At(Grown(h, m), p) = IF p = 0 THEN Ran(h) + 1 ELSE At(h, p)
           /\ Of(m) # c => /\ Due(Grown(h, m), Ran(h) + 1, c) = Due(h, Ran(h), c)
                           /\ c \in Watch(Grown(h, m), Ran(h) + 1) <=> c \in Watch(h, Ran(h))
           /\ Of(m) = c =>
                 /\ Produces(m) => Due(Grown(h, m), Ran(h) + 1, c) = Due(h, Ran(h), c) + NumPes
                 /\ Consumes(m) => Due(Grown(h, m), Ran(h) + 1, c) = Due(h, Ran(h), c) - 1
                 /\ Marks(m) => Due(Grown(h, m), Ran(h) + 1, c) = Due(h, Ran(h), c)
                 /\ Ends(m) => Due(Grown(h, m), Ran(h) + 1, c) = 0
                 /\ Marks(m) => (c \in Watch(Grown(h, m), Ran(h) + 1) <=> ~Tells(m) \/ c \in Watch(h, Ran(h)))
                 /\ Ends(m) => c \notin Watch(Grown(h, m), Ran(h) + 1)
                 /\ Produces(m) \/ Consumes(m) =>
                       (c \in Watch(Grown(h, m), Ran(h) + 1) <=> c \in Watch(h, Ran(h)))
  <1> DEFINE h2 == Grown(h, m)
             n == Ran(h)
             l == Counts(h, n)
             w == Watch(h, n)
  <1>1. n \in Nat /\ (\A p \in PE : At(h, p) \in 0 .. n) /\ l \in [Col -> Int] /\ w \in SUBSET Col
    BY DEF IsHistory
  <1>2. /\ Ran(h2) = n + 1
        /\ \A j \in 1 .. n : Entry(h2, j) = Entry(h, j)
        /\ Entry(h2, n + 1) = m
        /\ \A j \in 0 .. n : /\ Counts(h2, j) = Counts(h, j)
                             /\ Watch(h2, j) = Watch(h, j)
        /\ Counts(h2, n + 1) = NextCounts(l, m)
        /\ Watch(h2, n + 1) = NextWatched(w, m)
        /\ \A r \in PE : At(h2, r) = IF r = 0 THEN n + 1 ELSE At(h, r)
    BY <1>1, GrownIs
  <1> HIDE DEF h2, n, l, w
  <1>3. Extends(h, h2, c)
    <2>1. \A r \in PE : At(h2, r) \in 0 .. (n + 1) /\ At(h, r) <= At(h2, r)
      <3> SUFFICES ASSUME NEW r \in PE
                   PROVE  At(h2, r) \in 0 .. (n + 1) /\ At(h, r) <= At(h2, r)
        OBVIOUS
      <3>1. At(h, r) \in 0 .. n
        BY <1>1
      <3>2. CASE r = 0
        BY <1>1, <1>2, <3>1, <3>2
      <3>3. CASE r # 0
        BY <1>1, <1>2, <3>1, <3>3
      <3> QED
        BY <3>2, <3>3
    <2>2. n + 1 \in Nat /\ n <= n + 1
      BY <1>1
    <2> QED
      BY <1>1, <1>2, <2>1, <2>2 DEF Extends, Due, n
  <1>4. /\ \A x : Due(h2, n + 1, x) = NextCounts(l, m)[x]
        /\ \A x : Due(h, n, x) = l[x]
    BY <1>2 DEF Due, l
  <1>5. /\ Produces(m) => NextCounts(l, m)[Of(m)] = l[Of(m)] + NumPes
        /\ Consumes(m) => NextCounts(l, m)[Of(m)] = l[Of(m)] - 1
        /\ Marks(m) => NextCounts(l, m)[Of(m)] = l[Of(m)]
        /\ Ends(m) => NextCounts(l, m)[Of(m)] = 0
        /\ Marks(m) => (Of(m) \in NextWatched(w, m) <=> ~Tells(m) \/ Of(m) \in w)
        /\ Ends(m) => Of(m) \notin NextWatched(w, m)
        /\ Produces(m) \/ Consumes(m) => NextWatched(w, m) = w
        /\ c # Of(m) => /\ NextCounts(l, m)[c] = l[c]
                        /\ c \in NextWatched(w, m) <=> c \in w
    BY <1>1, NextsAre
  <1>6. /\ Of(m) # c => /\ Due(h2, n + 1, c) = Due(h, n, c)
                        /\ c \in Watch(h2, n + 1) <=> c \in Watch(h, n)
        /\ Of(m) = c =>
              /\ Produces(m) => Due(h2, n + 1, c) = Due(h, n, c) + NumPes
              /\ Consumes(m) => Due(h2, n + 1, c) = Due(h, n, c) - 1
              /\ Marks(m) => Due(h2, n + 1, c) = Due(h, n, c)
              /\ Ends(m) => Due(h2, n + 1, c) = 0
              /\ Marks(m) => (c \in Watch(h2, n + 1) <=> ~Tells(m) \/ c \in Watch(h, n))
              /\ Ends(m) => c \notin Watch(h2, n + 1)
              /\ Produces(m) \/ Consumes(m) => (c \in Watch(h2, n + 1) <=> c \in Watch(h, n))
    BY <1>2, <1>4, <1>5 DEF w
  <1> QED
    BY <1>2, <1>3, <1>6 DEF h2, n

LEMMA GrownLater ==
    ASSUME NEW h, IsHistory(h), NEW m \in GroupMessage, NEW c \in Col, Of(m) # c,
           NEW mark \in 0 .. Ran(h), NEW prod \in 0 .. Ran(h)
    PROVE  Later(h, Grown(h, m), c, mark, prod)
  <1> DEFINE h2 == Grown(h, m)
             n == Ran(h)
  <1>1. /\ Extends(h, h2, c)
        /\ Ran(h2) = n + 1 /\ Entry(h2, n + 1) = m
        /\ \A p \in PE : At(h2, p) = IF p = 0 THEN n + 1 ELSE At(h, p)
        /\ Due(h2, n + 1, c) = Due(h, n, c)
        /\ c \in Watch(h2, n + 1) <=> c \in Watch(h, n)
    BY GrownExtends
  <1>2. n \in Nat /\ At(h, 0) = n /\ mark \in 0 .. n /\ prod \in 0 .. n
    BY DEF IsHistory
  <1> HIDE DEF h2, n
  <1>3. \A j \in (n + 1) .. (n + 1) : Of(Entry(h2, j)) # c
    BY <1>1, <1>2
  <1>4. ASSUME NEW j \in n .. (n + 1)
        PROVE  Due(h2, j, c) = Due(h, n, c) /\ (c \in Watch(h2, j) <=> c \in Watch(h, n))
    <2>1. CASE j = n + 1
      BY <1>1, <2>1
    <2>2. CASE j # n + 1
      <3>1. j = n /\ n \in 0 .. n
        BY <1>2, <2>2
      <3> QED
        BY <1>1, <3>1 DEF Extends, n
    <2> QED
      BY <2>1, <2>2
  <1>5. ASSUME NEW p \in PE
        PROVE  /\ At(h2, p) >= mark <=> At(h, p) >= mark
               /\ At(h2, p) >= prod <=> At(h, p) >= prod
    <2>1. CASE p = 0
      BY <1>1, <1>2, <2>1
    <2>2. CASE p # 0
      BY <1>1, <2>2
    <2> QED
      BY <2>1, <2>2
  <1>6. Later(h, h2, c, mark, prod)
    BY <1>1, <1>3, <1>4, <1>5 DEF Later, n
  <1> QED
    BY <1>6 DEF h2

-----------------------------------------------------------------------------
(* What a step leaves alone *)

(* The collections have reducers of their own *)
DistinctTags == \A c, d \in Col : compress(c) = compress(d) => c = d

LEMMA SingleIs ==
    ASSUME NEW q \in PE, NEW x \in Message, NEW s \in PE
    PROVE  /\ Nothing \in Sendings /\ To(Nothing, s) = <<>> /\ Sends(Nothing, s) = {}
           /\ OnlyTo(q, x) \in Sendings
           /\ s = q => To(OnlyTo(q, x), s) = <<x>> /\ Sends(OnlyTo(q, x), s) = {x}
           /\ s # q => To(OnlyTo(q, x), s) = <<>> /\ Sends(OnlyTo(q, x), s) = {}
  <1>1. ToSet(<<>>) = {} /\ ToSet(<<x>>) = {x}
    BY DEF ToSet
  <1>2. /\ Nothing \in Sendings /\ To(Nothing, s) = <<>>
        /\ OnlyTo(q, x) \in Sendings
        /\ s = q => To(OnlyTo(q, x), s) = <<x>>
        /\ s # q => To(OnlyTo(q, x), s) = <<>>
    BY OnlyToIs
  <1> QED
    BY <1>1, <1>2 DEF Sends

LEMMA SingleSent ==
    ASSUME NEW q \in PE, NEW x \in Message, NEW s \in PE, NEW T
    PROVE  /\ Sent(Nothing, s, T) = 0
           /\ s = q /\ x \in T => Sent(OnlyTo(q, x), s, T) = 1
           /\ ~(s = q /\ x \in T) => Sent(OnlyTo(q, x), s, T) = 0
  <1> DEFINE a == To(Nothing, s)
             b == To(OnlyTo(q, x), s)
  <1>1. /\ a = <<>>
        /\ s = q => b = <<x>>
        /\ s # q => b = <<>>
    BY SingleIs
  <1>2. /\ HitCount(<<>>, T) = 0
        /\ HitCount(<<x>>, T) = IF x \in T THEN 1 ELSE 0
    BY HitCountEmpty, HitCountSingle
  <1> HIDE DEF a, b
  <1>3. /\ HitCount(a, T) = 0
        /\ s = q /\ x \in T => HitCount(b, T) = 1
        /\ ~(s = q /\ x \in T) => HitCount(b, T) = 0
    BY <1>1, <1>2
  <1> QED
    BY <1>3 DEF a, b, Sent

(* A PE that runs m sends no message of its own, or one.  Of those, a sum  *)
(* is the only one whose collection is not m's by itself.                  *)
LEMMA OwnTo ==
    ASSUME TypeInv, NEW p \in PE, NEW m \in GroupMessage
    PROVE  LET c == Of(m)
               n == Mine(p, c)
               full == Full(p, compress(c), n)
               sum == Sum(p, compress(c), n)
           IN /\ c \in Col /\ n \in CountMessage /\ sum \in CountMessage
              /\ Produces(m) => Own(p, m) = OnlyTo(p, Post("consume", c))
              /\ Consumes(m) /\ p = 0 /\ c \notin started =>
                    Own(p, m) = OnlyTo(0, Post("start_detection", c))
              /\ Consumes(m) /\ ~(p = 0 /\ c \notin started) => Own(p, m) = Nothing
              /\ Marks(m) /\ ~full => Own(p, m) = Nothing
              /\ Marks(m) /\ full /\ p = 0 => Own(p, m) = OnlyTo(0, Posted(sum))
              /\ Marks(m) /\ full /\ p # 0 =>
                    Own(p, m) = OnlyTo(span_tree_parent(p), Redux(compress(c), sum))
              /\ Ends(m) /\ p = 0 => Own(p, m) = OnlyTo(0, Resume(c))
              /\ Ends(m) /\ p # 0 => Own(p, m) = Nothing
  <1> DEFINE c == Of(m)
             n == Mine(p, c)
  <1>1. /\ c \in Col /\ c = m.count.target /\ lcount[p][c] \in Int /\ received \in Reducers
    BY Sorts DEF TypeInv, TypeOK, Of
  <1>2. n \in CountMessage /\ compress(c) \in Tags
    BY <1>1, CountIsMessage DEF Mine
  <1>3. Sum(p, compress(c), n) \in CountMessage
    BY <1>1, <1>2, SumIs
  <1>4. /\ Produces(m) => Own(p, m) = OnlyTo(p, Post("consume", c))
        /\ Consumes(m) => Own(p, m) = IF p = 0 /\ c \notin started
                                      THEN OnlyTo(p, Post("start_detection", c)) ELSE Nothing
        /\ Marks(m) => Own(p, m) = upward(p, compress(c), n)
        /\ Ends(m) => Own(p, m) = IF p = 0 THEN OnlyTo(0, Resume(c)) ELSE Nothing
    BY <1>1, Sorts DEF Own, Produces, Consumes, Marks, Ends
  <1>5. Marks(m) => Own(p, m) =
           IF ~Full(p, compress(c), n) THEN Nothing
           ELSE IF p = 0 THEN OnlyTo(0, Posted(Sum(p, compress(c), n)))
           ELSE OnlyTo(span_tree_parent(p), Redux(compress(c), Sum(p, compress(c), n)))
    BY <1>4 DEF upward
  <1> QED
    BY <1>1, <1>2, <1>3, <1>4, <1>5

(* A message that p may send, not to a child, and that concerns no other *)
(* collection than c                                                       *)
Fits(p, s, x, c) ==
    /\ s \in PE /\ x \in Message /\ s \notin span_tree_children(p)
    /\ MayGo(p, s, x)
    /\ \A d \in Col : d # c => x \notin About(d)

LEMMA OwnFits ==
    ASSUME TypeInv, DistinctTags, NEW p \in PE, NEW m \in GroupMessage,
           Marks(m) => Sum(p, compress(Of(m)), Mine(p, Of(m))).target = Of(m)
    PROVE  \/ Own(p, m) = Nothing
           \/ \E s, x : Own(p, m) = OnlyTo(s, x) /\ Fits(p, s, x, Of(m))
  <1> DEFINE c == Of(m)
             sum == Sum(p, compress(c), Mine(p, c))
             full == Full(p, compress(c), Mine(p, c))
  <1>1. /\ c \in Col /\ sum \in CountMessage /\ compress(c) \in Tags
    BY OwnTo DEF Tags
  <1>2. /\ 0 \in PE /\ 0 \notin span_tree_children(p) /\ p \notin span_tree_children(p)
        /\ p # 0 => /\ span_tree_parent(p) \in PE
                    /\ span_tree_parent(p) \notin span_tree_children(p)
    <2>1. 0 \in PE /\ 0 \notin span_tree_children(p) /\ p \notin span_tree_children(p)
      BY FinitePEs, TreeIs
    <2>2. ASSUME p # 0
          PROVE  /\ span_tree_parent(p) \in PE
                 /\ span_tree_parent(p) \notin span_tree_children(p)
      <3> DEFINE q == span_tree_parent(p)
      <3>1. q \in PE /\ q < p
        BY <2>2, TreeIs
      <3>2. q # 0 /\ q \in span_tree_children(p) => span_tree_parent(q) = p /\ span_tree_parent(q) < q
        BY <3>1, TreeIs
      <3>3. p \in Nat /\ q \in Nat /\ ~(p < q)
        BY <3>1, NumPesAssumption DEF PE
      <3> QED
        BY <2>1, <3>1, <3>2, <3>3
    <2> QED
      BY <2>1, <2>2
  <1>3. /\ Post("consume", c) \in Message /\ Post("start_detection", c) \in Message
        /\ Posted(sum) \in Message /\ Resume(c) \in Message
        /\ Redux(compress(c), sum) \in Message
    BY <1>1, MessagesAre
  <1>4. /\ MayGo(p, p, Post("consume", c))
        /\ MayGo(0, 0, Post("start_detection", c)) /\ MayGo(0, 0, Posted(sum))
        /\ MayGo(0, 0, Resume(c))
        /\ p # 0 => MayGo(p, span_tree_parent(p), Redux(compress(c), sum))
    BY DEF MayGo, Post, Posted, Resume, Redux
  <1>5. \A d \in Col : d # c =>
           /\ Post("consume", c) \notin About(d) /\ Post("start_detection", c) \notin About(d)
           /\ Resume(c) \notin About(d)
           /\ sum.target = c => Posted(sum) \notin About(d)
           /\ Redux(compress(c), sum) \notin About(d)
    BY <1>1, Kinds DEF DistinctTags
  <1>6. /\ Fits(p, p, Post("consume", c), c)
        /\ p = 0 => /\ Fits(p, 0, Post("start_detection", c), c)
                    /\ sum.target = c => Fits(p, 0, Posted(sum), c)
                    /\ Fits(p, 0, Resume(c), c)
        /\ p # 0 => Fits(p, span_tree_parent(p), Redux(compress(c), sum), c)
    BY <1>2, <1>3, <1>4, <1>5 DEF Fits
  <1>7. Produces(m) \/ Consumes(m) \/ Marks(m) \/ Ends(m)
    BY Sorts
  <1>8. /\ Produces(m) => Own(p, m) = OnlyTo(p, Post("consume", c))
        /\ Consumes(m) /\ p = 0 /\ c \notin started =>
              Own(p, m) = OnlyTo(0, Post("start_detection", c))
        /\ Consumes(m) /\ ~(p = 0 /\ c \notin started) => Own(p, m) = Nothing
        /\ Marks(m) /\ ~full => Own(p, m) = Nothing
        /\ Marks(m) /\ full /\ p = 0 => Own(p, m) = OnlyTo(0, Posted(sum))
        /\ Marks(m) /\ full /\ p # 0 =>
              Own(p, m) = OnlyTo(span_tree_parent(p), Redux(compress(c), sum))
        /\ Ends(m) /\ p = 0 => Own(p, m) = OnlyTo(0, Resume(c))
        /\ Ends(m) /\ p # 0 => Own(p, m) = Nothing
    BY OwnTo
  <1>9. Marks(m) => sum.target = c
    OBVIOUS
  <1> HIDE DEF c, sum, full
  <1>10. Own(p, m) = Nothing \/ \E s, x : Own(p, m) = OnlyTo(s, x) /\ Fits(p, s, x, c)
    <2>1. CASE Produces(m)
      BY <1>6, <1>8, <2>1
    <2>2. CASE Consumes(m)
      BY <1>6, <1>8, <2>2
    <2>3. CASE Marks(m)
      BY <1>6, <1>8, <1>9, <2>3
    <2>4. CASE Ends(m)
      BY <1>6, <1>8, <2>4
    <2> QED
      BY <1>7, <2>1, <2>2, <2>3, <2>4
  <1> QED
    BY <1>10 DEF c

(* What follows for all that p sends when it runs m *)
LEMMA OwnGoes ==
    ASSUME NEW p \in PE, NEW m \in GroupMessage, NEW own \in Sendings,
           own = Nothing \/ \E s, x : own = OnlyTo(s, x) /\ Fits(p, s, x, Of(m)),
           NEW s \in PE
    PROVE  /\ \A x \in Sends(RunOut(p, m, own), s) : MayGo(p, s, x)
           /\ s \in span_tree_children(p) => To(own, s) = <<>>
           /\ \A d \in Col : d # Of(m) => Sends(RunOut(p, m, own), s) \cap About(d) = {}
  <1> DEFINE out == RunOut(p, m, own)
             child == s \in span_tree_children(p)
  <1>1. /\ child => Sends(out, s) = {Copy(m)} \cup Sends(own, s)
        /\ ~child => Sends(out, s) = Sends(own, s)
    <2> DEFINE T == {}
    <2> QED
      BY RunOutTo
  <1>2. /\ child => MayGo(p, s, Copy(m))
        /\ \A d \in Col : Copy(m) \notin About(d)
    BY Kinds, MessagesAre DEF MayGo
  <1>3. /\ \A x \in Sends(own, s) : MayGo(p, s, x) /\ \A d \in Col : d # Of(m) => x \notin About(d)
        /\ child => To(own, s) = <<>>
    <2>1. CASE own = Nothing
      <3>1. Resume(Of(m)) \in Message
        BY Sorts, MessagesAre
      <3> QED
        BY <2>1, <3>1, SingleIs
    <2>2. CASE own # Nothing
      <3>1. PICK r, x : own = OnlyTo(r, x) /\ Fits(p, r, x, Of(m))
        BY <2>2
      <3>2. r \in PE /\ x \in Message
        BY <3>1 DEF Fits
      <3>3. /\ s = r => To(own, s) = <<x>> /\ Sends(own, s) = {x}
            /\ s # r => To(own, s) = <<>> /\ Sends(own, s) = {}
        BY <3>1, <3>2, SingleIs
      <3> QED
        BY <3>1, <3>3 DEF Fits
    <2> QED
      BY <2>1, <2>2
  <1> HIDE DEF out
  <1>4. /\ \A x \in Sends(out, s) : MayGo(p, s, x)
        /\ \A d \in Col : d # Of(m) => Sends(out, s) \cap About(d) = {}
    BY <1>1, <1>2, <1>3
  <1> QED
    BY <1>3, <1>4 DEF out

(* The messages about c that are on their way, after p has run m *)
LEMMA RunHits ==
    ASSUME NEW net \in Nets, NEW q \in PE, NEW p \in PE, On(net, q, p) # <<>>,
           NEW m \in GroupMessage, NEW own \in Sendings,
           NEW c \in Col, NEW T, T \subseteq About(c), NEW r \in PE, NEW s \in PE
    PROVE  LET net2 == After(net, q, p, RunOut(p, m, own))
           IN /\ Hit(net, r, s, T) \in Nat /\ Sent(own, s, T) \in Nat
              /\ Hit(net2, r, s, T) \in Nat
              /\ r = p /\ Takes(net, q, p, r, s, T) =>
                    Hit(net2, r, s, T) + 1 = Hit(net, r, s, T) + Sent(own, s, T)
              /\ r = p /\ ~Takes(net, q, p, r, s, T) =>
                    Hit(net2, r, s, T) = Hit(net, r, s, T) + Sent(own, s, T)
              /\ r # p /\ Takes(net, q, p, r, s, T) =>
                    Hit(net2, r, s, T) + 1 = Hit(net, r, s, T)
              /\ r # p /\ ~Takes(net, q, p, r, s, T) =>
                    Hit(net2, r, s, T) = Hit(net, r, s, T)
              /\ r # p => Holds(net2, r, s) \cap T \subseteq Holds(net, r, s)
              /\ Holds(net2, r, s) \cap T \subseteq Holds(net, r, s) \cup Sends(own, s)
  <1> DEFINE out == RunOut(p, m, own)
             net2 == After(net, q, p, out)
  <1>1. Copy(m) \notin T
    BY Kinds
  <1>2. out \in Sendings
    BY RunOutIs
  <1>3. /\ Sent(out, s, T) = Sent(own, s, T)
        /\ Sends(out, s) \cap T \subseteq Sends(own, s)
    <2>1. /\ s \in span_tree_children(p) => Sends(out, s) = {Copy(m)} \cup Sends(own, s)
          /\ s \notin span_tree_children(p) => Sends(out, s) = Sends(own, s)
          /\ Sent(out, s, T) = Sent(own, s, T)
      BY <1>1, RunOutTo
    <2> HIDE DEF out
    <2> QED
      BY <1>1, <2>1
  <1> HIDE DEF out
  <1>4. /\ Hit(net, r, s, T) \in Nat /\ Sent(out, s, T) \in Nat
        /\ Hit(net2, r, s, T) \in Nat
        /\ r = p /\ Takes(net, q, p, r, s, T) =>
              Hit(net2, r, s, T) + 1 = Hit(net, r, s, T) + Sent(out, s, T)
        /\ r = p /\ ~Takes(net, q, p, r, s, T) =>
              Hit(net2, r, s, T) = Hit(net, r, s, T) + Sent(out, s, T)
        /\ r # p /\ Takes(net, q, p, r, s, T) =>
              Hit(net2, r, s, T) + 1 = Hit(net, r, s, T)
        /\ r # p /\ ~Takes(net, q, p, r, s, T) =>
              Hit(net2, r, s, T) = Hit(net, r, s, T)
    BY <1>2, AfterHits
  <1>5. /\ r # p => Holds(net2, r, s) \subseteq Holds(net, r, s)
        /\ Holds(net2, r, s) \subseteq Holds(net, r, s) \cup Sends(out, s)
    BY <1>2, AfterTo
  <1> HIDE DEF net2
  <1>6. /\ r # p => Holds(net2, r, s) \cap T \subseteq Holds(net, r, s)
        /\ Holds(net2, r, s) \cap T \subseteq Holds(net, r, s) \cup Sends(own, s)
    BY <1>3, <1>5
  <1> QED
    BY <1>3, <1>4, <1>6 DEF out, net2

(* A step that has nothing to do with c, whatever its round has come to *)
LEMMA KeptLater ==
    ASSUME NEW c \in Col, NEW h, NEW net, NEW rec, NEW st, NEW asl,
           Kept(c, h, net, rec, st, asl),
           NEW h2,
           \A mark \in 0 .. Ran(h), prod \in 0 .. Ran(h) :
              /\ mark > 0 => Marks(Entry(h, mark)) /\ Of(Entry(h, mark)) = c
              /\ prod > 0 => Produces(Entry(h, prod)) /\ Of(Entry(h, prod)) = c
              => Later(h, h2, c, mark, prod),
           NEW net2, Unheard(net, net2, c),
           NEW rec2, \A r \in PE : Gathered(rec2, r, compress(c)) = Gathered(rec, r, compress(c)),
           NEW st2, c \in st2 <=> c \in st, NEW asl2, c \in asl2 <=> c \in asl
    PROVE  Kept(c, h2, net2, rec2, st2, asl2)
  <1>1. PICK prod, used, mark, fired, stage :
           OfCol(c, h, prod, used, mark, fired, stage, net, rec, st, asl)
    BY DEF Kept
  <1>2. mark \in 0 .. Ran(h) /\ prod \in 0 .. Ran(h)
    BY <1>1 DEF OfCol, Staged, Spent
  <1>3. /\ mark > 0 => Marks(Entry(h, mark)) /\ Of(Entry(h, mark)) = c
        /\ prod > 0 => Produces(Entry(h, prod)) /\ Of(Entry(h, prod)) = c
    BY <1>1 DEF OfCol, Pending
  <1>4. Later(h, h2, c, mark, prod)
    BY <1>2, <1>3
  <1>5. OfCol(c, h2, prod, used, mark, fired, stage, net2, rec2, st2, asl2)
    BY <1>1, <1>4, OfColLater
  <1> QED
    BY <1>5 DEF Kept

LEMMA MovedOther ==
    ASSUME NEW h, IsHistory(h), NEW p \in PE \ {0}, At(h, p) + 1 \in 1 .. Ran(h), NEW c,
           Of(Entry(h, At(h, p) + 1)) # c,
           NEW mark \in 0 .. Ran(h), NEW prod \in 0 .. Ran(h),
           mark > 0 => Of(Entry(h, mark)) = c, prod > 0 => Of(Entry(h, prod)) = c
    PROVE  Later(h, Moved(h, p), c, mark, prod)
  <1>1. mark # At(h, p) + 1 /\ prod # At(h, p) + 1
    OBVIOUS
  <1> QED
    BY <1>1, MovedLater

(* What a step in which p runs m does to another collection *)
LEMMA RunsOther ==
    ASSUME TypeInv, DistinctTags, NEW q \in PE, NEW p \in PE, On(queue, q, p) # <<>>,
           NEW m \in GroupMessage, m = Foremost(queue, q, p), Runs(q, p, m), asleep' = asleep,
           Marks(m) => Sum(p, compress(Of(m)), Mine(p, Of(m))).target = Of(m),
           NEW d \in Col, d # Of(m),
           NEW h, Kept(d, h, queue, received, started, asleep),
           NEW h2,
           \A mark \in 0 .. Ran(h), prod \in 0 .. Ran(h) :
              /\ mark > 0 => Of(Entry(h, mark)) = d
              /\ prod > 0 => Of(Entry(h, prod)) = d
              => Later(h, h2, d, mark, prod)
    PROVE  Kept(d, h2, queue', received', started', asleep')
  <1> DEFINE c == Of(m)
             own == Own(p, m)
             out == RunOut(p, m, own)
  <1>1. /\ own \in Sendings
        /\ own = Nothing \/ \E s, x : own = OnlyTo(s, x) /\ Fits(p, s, x, c)
        /\ out \in Sendings /\ queue \in Nets
    BY OwnIs, OwnFits, RunOutIs DEF TypeInv
  <1>2. \A s \in PE : Sends(out, s) \cap About(d) = {}
    <2> HIDE DEF own
    <2> QED
      BY <1>1, OwnGoes
  <1>3. Foremost(queue, q, p) \notin About(d)
    BY Kinds DEF Of
  <1>4. Unheard(queue, queue', d)
    <2>1. queue' = After(queue, q, p, out)
      BY DEF Runs
    <2> HIDE DEF out
    <2>2. Unheard(queue, After(queue, q, p, out), d)
      BY <1>1, <1>2, <1>3, UnheardStep
    <2> QED
      BY <2>1, <2>2
  <1>5. \A r \in PE : Gathered(received', r, compress(d)) = Gathered(received, r, compress(d))
    <2>1. CASE ~Marks(m)
      BY <2>1 DEF Runs, Gathered
    <2>2. CASE Marks(m)
      <3>1. c \in Col /\ Mine(p, c) \in CountMessage /\ compress(c) # compress(d)
        BY OwnTo DEF DistinctTags
      <3>2. compress(c) \in Tags /\ compress(d) \in Tags
        BY <3>1 DEF Tags
      <3>3. Reduce(p, compress(c), Mine(p, c))
        BY <2>2 DEF Runs, Of
      <3>4. \A r \in PE, t \in Tags : t # compress(c) => received'[r][t] = received[r][t]
        BY <3>1, <3>2, <3>3, ReduceType
      <3> QED
        BY <3>1, <3>2, <3>4 DEF Gathered
    <2> QED
      BY <2>1, <2>2
  <1>6. d \in started' <=> d \in started
    BY DEF Runs, NextStarted, Of
  <1> QED
    BY <1>4, <1>5, <1>6, KeptLater

LEMMA RunsRouted ==
    ASSUME TypeInv, DistinctTags, Routed(queue),
           NEW q \in PE, NEW p \in PE, On(queue, q, p) # <<>>,
           NEW m \in GroupMessage, Runs(q, p, m),
           Marks(m) => Sum(p, compress(Of(m)), Mine(p, Of(m))).target = Of(m)
    PROVE  Routed(queue')
  <1> DEFINE own == Own(p, m)
             out == RunOut(p, m, own)
  <1>1. /\ own \in Sendings
        /\ own = Nothing \/ \E s, x : own = OnlyTo(s, x) /\ Fits(p, s, x, Of(m))
        /\ out \in Sendings /\ queue \in Nets
    BY OwnIs, OwnFits, RunOutIs DEF TypeInv
  <1>2. \A s \in PE : \A x \in Sends(out, s) : MayGo(p, s, x)
    <2> HIDE DEF own
    <2> QED
      BY <1>1, OwnGoes
  <1>3. queue' = After(queue, q, p, out)
    BY DEF Runs
  <1> HIDE DEF out
  <1>4. Routed(After(queue, q, p, out))
    BY <1>1, <1>2, RoutedAfter
  <1> QED
    BY <1>3, <1>4

(* What p sends to its children when it runs m is the copy *)
LEMMA CopiesOnly ==
    ASSUME TypeInv, DistinctTags, NEW p \in PE, NEW m \in GroupMessage,
           Marks(m) => Sum(p, compress(Of(m)), Mine(p, Of(m))).target = Of(m),
           NEW s \in span_tree_children(p)
    PROVE  To(RunOut(p, m, Own(p, m)), s) = <<Copy(m)>>
  <1> DEFINE own == Own(p, m)
  <1>1. /\ own \in Sendings /\ s \in PE
        /\ own = Nothing \/ \E r, x : own = OnlyTo(r, x) /\ Fits(p, r, x, Of(m))
    BY OwnIs, OwnFits, TreeIs
  <1> HIDE DEF own
  <1>2. To(own, s) = <<>>
    BY <1>1, OwnGoes
  <1>3. To(RunOut(p, m, own), s) = <<Copy(m)>>
    <2> DEFINE T == {}
    <2> QED
      BY <1>1, <1>2, RunOutTo
  <1> QED
    BY <1>3 DEF own

(* p runs the copy that comes next *)
LEMMA RunsMoved ==
    ASSUME TypeInv, DistinctTags, Routed(queue),
           NEW q \in PE, NEW p \in PE, On(queue, q, p) # <<>>,
           NEW m \in GroupMessage, m = Foremost(queue, q, p), m.kind = "copy", Runs(q, p, m),
           Marks(m) => Sum(p, compress(Of(m)), Mine(p, Of(m))).target = Of(m),
           NEW h, IsHistory(h), Past(h, queue, lcount, watched)
    PROVE  /\ p # 0 /\ q = span_tree_parent(p)
           /\ At(h, p) + 1 \in 1 .. Ran(h) /\ m = Entry(h, At(h, p) + 1)
           /\ IsHistory(Moved(h, p))
           /\ Past(Moved(h, p), queue', lcount', watched')
  <1> DEFINE out == RunOut(p, m, Own(p, m))
  <1>1. /\ queue \in Nets /\ lcount \in [PE -> [Col -> Int]] /\ watched \in [PE -> SUBSET Col]
        /\ out \in Sendings
        /\ queue' = After(queue, q, p, out)
        /\ lcount' = [lcount EXCEPT ![p] = NextCounts(lcount[p], m)]
        /\ watched' = [watched EXCEPT ![p] = NextWatched(watched[p], m)]
    BY OwnIs, RunOutIs DEF TypeInv, TypeOK, Runs
  <1>2. p \in span_tree_children(q)
    <2>1. m \in Holds(queue, q, p)
      BY <1>1, BehindIs
    <2> QED
      BY <2>1 DEF Routed, MayGo
  <1>3. p # 0 /\ q = span_tree_parent(p)
    BY <1>2, TreeIs
  <1>4. Copy(m) = m
    BY DEF Copy, GroupMessage
  <1>5. \A s \in span_tree_children(p) : To(out, s) = <<m>>
    BY <1>4, CopiesOnly
  <1> HIDE DEF out
  <1>6. ASSUME NEW s \in PE \ {0}
        PROVE  /\ s = p => On(queue', span_tree_parent(s), s) = Rest(On(queue, span_tree_parent(s), s))
               /\ s # p /\ span_tree_parent(s) = p =>
                     On(queue', span_tree_parent(s), s) = Joined(On(queue, span_tree_parent(s), s), <<m>>)
               /\ s # p /\ span_tree_parent(s) # p =>
                     On(queue', span_tree_parent(s), s) = On(queue, span_tree_parent(s), s)
    <2> DEFINE r == span_tree_parent(s)
               a == On(queue, r, s)
               b == On(queue', r, s)
               e == To(out, s)
    <2>1. r \in PE /\ s \in PE /\ r # s /\ s \in span_tree_children(r)
      <3>1. r \in PE /\ r < s /\ s \in span_tree_children(r)
        BY TreeIs, FinitePEs
      <3>2. ~(s < s)
        BY NumPesAssumption DEF PE
      <3> QED
        BY <3>1, <3>2
    <2>2. /\ r # p /\ ~(r = q /\ s = p) => b = a
          /\ r # p /\ r = q /\ s = p => b = Rest(a)
          /\ r = p /\ s # p => b = Joined(a, e)
      BY <1>1, <2>1, AfterOn
    <2>3. r = p => e = <<m>>
      BY <1>5, <2>1
    <2>4. s = p => r = q
      BY <1>3
    <2> HIDE DEF a, b, e, r
    <2>5. /\ s = p => b = Rest(a)
          /\ s # p /\ r = p => b = Joined(a, <<m>>)
          /\ s # p /\ r # p => b = a
      BY <2>1, <2>2, <2>3, <2>4
    <2> QED
      BY <2>5 DEF a, b, r
  <1> DEFINE net2 == queue'
             lc2 == lcount'
             wd2 == watched'
  <1>7. On(queue, span_tree_parent(p), p) # <<>> /\ m = Foremost(queue, span_tree_parent(p), p)
    BY <1>3
  <1>8. Counted(lcount, watched, lc2, wd2, p, m)
    BY <1>1 DEF Counted
  <1>9. Passes(queue, net2, p, m)
    BY <1>6 DEF Passes
  <1> HIDE DEF net2, lc2, wd2
  <1>10. /\ At(h, p) + 1 \in 1 .. Ran(h)
         /\ m = Entry(h, At(h, p) + 1)
         /\ IsHistory(Moved(h, p))
         /\ Past(Moved(h, p), net2, lc2, wd2)
    BY <1>1, <1>3, <1>7, <1>8, <1>9, MovedPast
  <1> QED
    BY <1>3, <1>10 DEF net2, lc2, wd2

(* The root runs what comes to it *)
LEMMA RunsGrown ==
    ASSUME TypeInv, DistinctTags,
           NEW q \in PE, On(queue, q, 0) # <<>>, 0 \in PE,
           NEW m \in GroupMessage, Runs(q, 0, m),
           Marks(m) => Sum(0, compress(Of(m)), Mine(0, Of(m))).target = Of(m),
           NEW h, IsHistory(h), Past(h, queue, lcount, watched)
    PROVE  /\ IsHistory(Grown(h, Copy(m)))
           /\ Past(Grown(h, Copy(m)), queue', lcount', watched')
  <1> DEFINE out == RunOut(0, m, Own(0, m))
             k == Copy(m)
  <1>1. /\ queue \in Nets /\ lcount \in [PE -> [Col -> Int]] /\ watched \in [PE -> SUBSET Col]
        /\ out \in Sendings
        /\ queue' = After(queue, q, 0, out)
        /\ lcount' = [lcount EXCEPT ![0] = NextCounts(lcount[0], m)]
        /\ watched' = [watched EXCEPT ![0] = NextWatched(watched[0], m)]
    BY OwnIs, RunOutIs DEF TypeInv, TypeOK, Runs
  <1>2. k \in GroupMessage /\ k.kind = "copy" /\ k.entry = m.entry /\ k.count = m.count
    BY MessagesAre
  <1>3. NextCounts(lcount[0], k) = NextCounts(lcount[0], m) /\ NextWatched(watched[0], k) = NextWatched(watched[0], m)
    <2> HIDE DEF k
    <2> QED
      BY <1>2 DEF NextCounts, NextWatched, Ends
  <1>5. \A s \in span_tree_children(0) : To(out, s) = <<k>>
    BY CopiesOnly
  <1> HIDE DEF out, k
  <1>6. ASSUME NEW s \in PE \ {0}
        PROVE  On(queue', span_tree_parent(s), s) =
                  IF span_tree_parent(s) = 0
                  THEN Joined(On(queue, span_tree_parent(s), s), <<k>>)
                  ELSE On(queue, span_tree_parent(s), s)
    <2> DEFINE r == span_tree_parent(s)
               a == On(queue, r, s)
               b == On(queue', r, s)
               e == To(out, s)
    <2>1. r \in PE /\ s \in PE /\ s # 0 /\ s \in span_tree_children(r)
      BY TreeIs
    <2>2. /\ r # 0 => b = a
          /\ r = 0 => b = Joined(a, e)
      BY <1>1, <2>1, AfterOn
    <2>3. r = 0 => e = <<k>>
      BY <1>5, <2>1
    <2> HIDE DEF a, b, e, r
    <2>5. b = IF r = 0 THEN Joined(a, <<k>>) ELSE a
      BY <2>2, <2>3
    <2> QED
      BY <2>5 DEF a, b, r
  <1>7. \A s \in PE \ {0} :
           On(queue', span_tree_parent(s), s) =
              IF span_tree_parent(s) = 0
              THEN On(queue, span_tree_parent(s), s) \o <<k>>
              ELSE On(queue, span_tree_parent(s), s)
    BY <1>6 DEF Joined
  <1> DEFINE lc2 == [lcount EXCEPT ![0] = NextCounts(lcount[0], k)]
             wd2 == [watched EXCEPT ![0] = NextWatched(watched[0], k)]
             net2 == queue'
  <1>8. lc2 = lcount' /\ wd2 = watched'
    BY <1>1, <1>3
  <1>9. \A s \in PE \ {0} :
           On(net2, span_tree_parent(s), s) =
              IF span_tree_parent(s) = 0
              THEN On(queue, span_tree_parent(s), s) \o <<k>>
              ELSE On(queue, span_tree_parent(s), s)
    BY <1>7
  <1> HIDE DEF net2
  <1>10. /\ IsHistory(Grown(h, k))
         /\ Past(Grown(h, k), net2, lc2, wd2)
    BY <1>1, <1>2, <1>9, GrownPast
  <1> QED
    BY <1>8, <1>10 DEF net2, k

-----------------------------------------------------------------------------
(* What a step does to the messages about its collection *)

Topics(c) == {Reds(c), Uses(c), Calls(c)}

(* Of the messages about c, out has x for s0 or none if x is not about c *)
Carries(out, s0, x, c) ==
    \A T \in Topics(c), s \in PE :
       /\ s = s0 /\ x \in T => Sent(out, s, T) = 1
       /\ ~(s = s0 /\ x \in T) => Sent(out, s, T) = 0
       /\ Sends(out, s) \cap T \subseteq {x}

LEMMA CarriesOnly ==
    ASSUME NEW c, NEW s0 \in PE, NEW x \in Message
    PROVE  /\ OnlyTo(s0, x) \in Sendings /\ Nothing \in Sendings
           /\ Carries(OnlyTo(s0, x), s0, x, c)
           /\ x \notin About(c) => Carries(Nothing, s0, x, c)
  <1>1. ASSUME NEW T, NEW s \in PE
        PROVE  /\ s = s0 /\ x \in T => Sent(OnlyTo(s0, x), s, T) = 1
               /\ ~(s = s0 /\ x \in T) => Sent(OnlyTo(s0, x), s, T) = 0
               /\ Sends(OnlyTo(s0, x), s) \subseteq {x}
               /\ Sent(Nothing, s, T) = 0 /\ Sends(Nothing, s) = {}
    BY SingleIs, SingleSent
  <1>2. \A T \in Topics(c) : T \subseteq About(c)
    BY DEF Topics, About
  <1> QED
    BY <1>1, <1>2, SingleIs DEF Carries

LEMMA CarriesRun ==
    ASSUME NEW p \in PE, NEW m \in GroupMessage, NEW own \in Sendings, NEW c \in Col,
           NEW s0 \in PE, NEW x \in Message, Carries(own, s0, x, c)
    PROVE  /\ RunOut(p, m, own) \in Sendings
           /\ Carries(RunOut(p, m, own), s0, x, c)
  <1> DEFINE out == RunOut(p, m, own)
  <1>1. ASSUME NEW T \in Topics(c), NEW s \in PE
        PROVE  Sent(out, s, T) = Sent(own, s, T) /\ Sends(out, s) \cap T = Sends(own, s) \cap T
    <2>1. Copy(m) \notin T
      BY Kinds DEF Topics, About
    <2>2. /\ s \in span_tree_children(p) => /\ Sends(out, s) = {Copy(m)} \cup Sends(own, s)
                                            /\ Sent(out, s, T) = Sent(own, s, T)
          /\ s \notin span_tree_children(p) => /\ Sends(out, s) = Sends(own, s)
                                               /\ Sent(out, s, T) = Sent(own, s, T)
      BY <2>1, RunOutTo
    <2> HIDE DEF out
    <2> QED
      BY <2>1, <2>2
  <1> HIDE DEF out
  <1>2. Carries(out, s0, x, c)
    BY <1>1 DEF Carries
  <1> QED
    BY <1>2, RunOutIs DEF out

(* x comes to be among the messages in T that are on their way from r to s *)
Adds(p, s0, x, r, s, T) == r = p /\ s = s0 /\ x \in T

LEMMA Shift ==
    ASSUME NEW net \in Nets, NEW q \in PE, NEW p \in PE, On(net, q, p) # <<>>,
           NEW out \in Sendings, NEW c, NEW s0 \in PE, NEW x, Carries(out, s0, x, c),
           NEW T \in Topics(c), NEW r \in PE, NEW s \in PE
    PROVE  LET net2 == After(net, q, p, out)
               takes == Takes(net, q, p, r, s, T)
               adds == Adds(p, s0, x, r, s, T)
           IN /\ Hit(net, r, s, T) \in Nat /\ Hit(net2, r, s, T) \in Nat
              /\ takes /\ adds => Hit(net2, r, s, T) = Hit(net, r, s, T)
              /\ takes /\ ~adds => Hit(net2, r, s, T) + 1 = Hit(net, r, s, T)
              /\ ~takes /\ adds => Hit(net2, r, s, T) = Hit(net, r, s, T) + 1
              /\ ~takes /\ ~adds => Hit(net2, r, s, T) = Hit(net, r, s, T)
              /\ Holds(net2, r, s) \cap T \subseteq Holds(net, r, s) \cup {x}
              /\ ~adds => Holds(net2, r, s) \cap T \subseteq Holds(net, r, s)
  <1> DEFINE net2 == After(net, q, p, out)
             takes == Takes(net, q, p, r, s, T)
             adds == Adds(p, s0, x, r, s, T)
             a == Hit(net, r, s, T)
             b == Hit(net2, r, s, T)
             e == Sent(out, s, T)
  <1>1. /\ a \in Nat /\ e \in Nat /\ b \in Nat
        /\ r = p /\ takes => b + 1 = a + e
        /\ r = p /\ ~takes => b = a + e
        /\ r # p /\ takes => b + 1 = a
        /\ r # p /\ ~takes => b = a
    BY AfterHits
  <1>2. /\ r = p /\ adds => e = 1
        /\ r = p /\ ~adds => e = 0
        /\ adds => r = p
        /\ Sends(out, s) \cap T \subseteq {x}
    BY DEF Carries, Adds
  <1>3. /\ r # p => Holds(net2, r, s) \subseteq Holds(net, r, s)
        /\ Holds(net2, r, s) \subseteq Holds(net, r, s) \cup Sends(out, s)
    BY AfterTo
  <1>4. r = p /\ ~adds => Sends(out, s) \cap T = {}
    <2>1. r = p /\ ~adds => e = 0
      BY <1>2
    <2> QED
      BY <2>1, NoneSent
  <1> HIDE DEF net2, takes, adds, a, b, e
  <1>5. /\ takes /\ adds => b = a
        /\ takes /\ ~adds => b + 1 = a
        /\ ~takes /\ adds => b = a + 1
        /\ ~takes /\ ~adds => b = a
    BY <1>1, <1>2
  <1>6. /\ Holds(net2, r, s) \cap T \subseteq Holds(net, r, s) \cup {x}
        /\ ~adds => Holds(net2, r, s) \cap T \subseteq Holds(net, r, s)
    BY <1>2, <1>3, <1>4
  <1> QED
    BY <1>1, <1>5, <1>6 DEF net2, takes, adds, a, b

SameReds(net, net2, c) ==
    \A q \in PE \ {0} :
       /\ Hit(net2, q, span_tree_parent(q), Reds(c)) = Hit(net, q, span_tree_parent(q), Reds(c))
       /\ Holds(net2, q, span_tree_parent(q)) \cap Reds(c) \subseteq Holds(net, q, span_tree_parent(q))

SameWaiting(net, net2, c) == \A p \in PE : Waiting(net2, p, c) = Waiting(net, p, c)

SameCalls(net, net2, c) ==
    /\ Hit(net2, 0, 0, Calls(c)) = Hit(net, 0, 0, Calls(c))
    /\ Holds(net2, 0, 0) \cap Calls(c) \subseteq Holds(net, 0, 0)

LEMMA Untouched ==
    ASSUME NEW net \in Nets, NEW q \in PE, NEW p \in PE, On(net, q, p) # <<>>,
           NEW m, m = Foremost(net, q, p),
           NEW out \in Sendings, NEW c, NEW s0 \in PE, NEW x, Carries(out, s0, x, c)
    PROVE  LET net2 == After(net, q, p, out)
           IN /\ m \notin Reds(c) /\ x \notin Reds(c) => SameReds(net, net2, c)
              /\ m \notin Uses(c) /\ x \notin Uses(c) => SameWaiting(net, net2, c)
              /\ m \notin Calls(c) /\ x \notin Calls(c) => SameCalls(net, net2, c)
  <1> DEFINE net2 == After(net, q, p, out)
  <1>1. ASSUME NEW T \in Topics(c), m \notin T, x \notin T, NEW r \in PE, NEW s \in PE
        PROVE  /\ Hit(net2, r, s, T) = Hit(net, r, s, T)
               /\ Holds(net2, r, s) \cap T \subseteq Holds(net, r, s)
    <2>1. ~Takes(net, q, p, r, s, T) /\ ~Adds(p, s0, x, r, s, T)
      BY <1>1 DEF Takes, Adds
    <2> QED
      BY <2>1, Shift
  <1>2. /\ Reds(c) \in Topics(c) /\ Uses(c) \in Topics(c) /\ Calls(c) \in Topics(c)
        /\ 0 \in PE /\ \A r \in PE \ {0} : span_tree_parent(r) \in PE
    BY FinitePEs, TreeIs DEF Topics
  <1> HIDE DEF net2
  <1>3. m \notin Reds(c) /\ x \notin Reds(c) => SameReds(net, net2, c)
    BY <1>1, <1>2 DEF SameReds
  <1>4. m \notin Uses(c) /\ x \notin Uses(c) => SameWaiting(net, net2, c)
    BY <1>1, <1>2 DEF SameWaiting, Waiting
  <1>5. m \notin Calls(c) /\ x \notin Calls(c) => SameCalls(net, net2, c)
    BY <1>1, <1>2 DEF SameCalls
  <1> QED
    BY <1>3, <1>4, <1>5 DEF net2

LEMMA UnheardParts ==
    ASSUME NEW net, NEW net2, NEW c,
           SameReds(net, net2, c), SameWaiting(net, net2, c), SameCalls(net, net2, c)
    PROVE  Unheard(net, net2, c)
  BY DEF Unheard, SameReds, SameWaiting, SameCalls

(* A PE gets one more message that is to consume an event, *)
LEMMA WaitingMore ==
    ASSUME NEW net \in Nets, NEW q \in PE, NEW p \in PE, On(net, q, p) # <<>>,
           NEW m, m = Foremost(net, q, p),
           NEW out \in Sendings, NEW c, NEW x, Carries(out, p, x, c),
           m \notin Uses(c), x \in Uses(c), NEW r \in PE
    PROVE  LET net2 == After(net, q, p, out)
           IN /\ r = p => Waiting(net2, r, c) = Waiting(net, r, c) + 1
              /\ r # p => Waiting(net2, r, c) = Waiting(net, r, c)
  <1> DEFINE net2 == After(net, q, p, out)
             T == Uses(c)
             a == Hit(net, r, r, T)
             a2 == Hit(net2, r, r, T)
             b == Hit(net, r, 0, T)
             b2 == Hit(net2, r, 0, T)
  <1>1. 0 \in PE /\ T \in Topics(c)
    BY FinitePEs DEF Topics
  <1>2. ASSUME NEW s \in PE
        PROVE  ~Takes(net, q, p, r, s, T) /\ (Adds(p, p, x, r, s, T) <=> r = p /\ s = p)
    BY DEF Takes, Adds
  <1>3. /\ a \in Nat /\ (r = p => a2 = a + 1) /\ (r # p => a2 = a)
        /\ b \in Nat /\ (r # 0 => b2 = b)
    <2>1. ASSUME NEW s \in PE
          PROVE  /\ Hit(net, r, s, T) \in Nat
                 /\ r = p /\ s = p => Hit(net2, r, s, T) = Hit(net, r, s, T) + 1
                 /\ ~(r = p /\ s = p) => Hit(net2, r, s, T) = Hit(net, r, s, T)
      BY <1>1, <1>2, Shift
    <2> HIDE DEF net2, T
    <2> QED
      BY <1>1, <2>1
  <1>4. /\ Waiting(net, r, c) = a + (IF r = 0 THEN 0 ELSE b)
        /\ Waiting(net2, r, c) = a2 + (IF r = 0 THEN 0 ELSE b2)
    BY DEF Waiting
  <1> HIDE DEF a, a2, b, b2, net2
  <1>5. /\ r = p => Waiting(net2, r, c) = Waiting(net, r, c) + 1
        /\ r # p => Waiting(net2, r, c) = Waiting(net, r, c)
    BY <1>3, <1>4
  <1> QED
    BY <1>5 DEF net2

(* the root takes one of them, *)
LEMMA WaitingLess ==
    ASSUME NEW net \in Nets, NEW q \in PE, 0 \in PE, On(net, q, 0) # <<>>,
           NEW m, m = Foremost(net, q, 0),
           NEW out \in Sendings, NEW c, NEW x, Carries(out, 0, x, c),
           m \in Uses(c), x \notin Uses(c), NEW r \in PE
    PROVE  LET net2 == After(net, q, 0, out)
           IN /\ Waiting(net, r, c) \in Nat /\ Waiting(net2, r, c) \in Nat
              /\ r = q => Waiting(net2, r, c) + 1 = Waiting(net, r, c)
              /\ r # q => Waiting(net2, r, c) = Waiting(net, r, c)
  <1> DEFINE net2 == After(net, q, 0, out)
             T == Uses(c)
             a == Hit(net, r, r, T)
             a2 == Hit(net2, r, r, T)
             b == Hit(net, r, 0, T)
             b2 == Hit(net2, r, 0, T)
  <1>1. T \in Topics(c)
    BY DEF Topics
  <1>2. ASSUME NEW s \in PE
        PROVE  (Takes(net, q, 0, r, s, T) <=> r = q /\ s = 0) /\ ~Adds(0, 0, x, r, s, T)
    BY DEF Takes, Adds
  <1>3. /\ a \in Nat /\ a2 \in Nat /\ b \in Nat /\ b2 \in Nat
        /\ (r = q /\ r = 0 => a2 + 1 = a) /\ (~(r = q /\ r = 0) => a2 = a)
        /\ (r = q => b2 + 1 = b) /\ (r # q => b2 = b)
    <2>1. ASSUME NEW s \in PE
          PROVE  /\ Hit(net, r, s, T) \in Nat /\ Hit(net2, r, s, T) \in Nat
                 /\ r = q /\ s = 0 => Hit(net2, r, s, T) + 1 = Hit(net, r, s, T)
                 /\ ~(r = q /\ s = 0) => Hit(net2, r, s, T) = Hit(net, r, s, T)
      BY <1>1, <1>2, Shift
    <2> HIDE DEF net2, T
    <2> QED
      BY <1>1, <2>1
  <1>4. /\ Waiting(net, r, c) = a + (IF r = 0 THEN 0 ELSE b)
        /\ Waiting(net2, r, c) = a2 + (IF r = 0 THEN 0 ELSE b2)
    BY DEF Waiting
  <1> HIDE DEF a, a2, b, b2, net2
  <1>5. /\ Waiting(net, r, c) \in Nat /\ Waiting(net2, r, c) \in Nat
        /\ r = q => Waiting(net2, r, c) + 1 = Waiting(net, r, c)
        /\ r # q => Waiting(net2, r, c) = Waiting(net, r, c)
    <2>1. CASE r = 0
      BY <1>3, <1>4, <2>1
    <2>2. CASE r # 0
      BY <1>3, <1>4, <2>2
    <2> QED
      BY <2>1, <2>2
  <1> QED
    BY <1>5 DEF net2

(* or the PE sends on to the root what it has sent to itself *)
LEMMA WaitingSent ==
    ASSUME NEW net \in Nets, NEW p \in PE \ {0}, On(net, p, p) # <<>>,
           NEW m, m = Foremost(net, p, p),
           NEW out \in Sendings, NEW c, Carries(out, 0, m, c)
    PROVE  SameWaiting(net, After(net, p, p, out), c)
  <1> DEFINE net2 == After(net, p, p, out)
             T == Uses(c)
  <1> SUFFICES ASSUME NEW r \in PE
               PROVE  Waiting(net2, r, c) = Waiting(net, r, c)
    BY DEF SameWaiting
  <1> DEFINE a == Hit(net, r, r, T)
             a2 == Hit(net2, r, r, T)
             b == Hit(net, r, 0, T)
             b2 == Hit(net2, r, 0, T)
  <1>1. T \in Topics(c) /\ 0 \in PE
    BY FinitePEs DEF Topics
  <1>2. ASSUME NEW s \in PE
        PROVE  /\ Takes(net, p, p, r, s, T) <=> r = p /\ s = p /\ m \in T
               /\ Adds(p, 0, m, r, s, T) <=> r = p /\ s = 0 /\ m \in T
    BY DEF Takes, Adds
  <1>3. /\ a \in Nat /\ a2 \in Nat /\ b \in Nat /\ b2 \in Nat
        /\ (r = p /\ m \in T => a2 + 1 = a) /\ (~(r = p /\ m \in T) => a2 = a)
        /\ (r = p /\ m \in T => b2 = b + 1) /\ (~(r = p /\ m \in T) => b2 = b)
    <2>1. ASSUME NEW s \in PE
          PROVE  /\ Hit(net, r, s, T) \in Nat /\ Hit(net2, r, s, T) \in Nat
                 /\ r = p /\ s = p /\ m \in T => Hit(net2, r, s, T) + 1 = Hit(net, r, s, T)
                 /\ r = p /\ s = 0 /\ m \in T => Hit(net2, r, s, T) = Hit(net, r, s, T) + 1
                 /\ ~(r = p /\ s \in {0, p} /\ m \in T) => Hit(net2, r, s, T) = Hit(net, r, s, T)
      <3>1. LET takes == Takes(net, p, p, r, s, T)
                adds == Adds(p, 0, m, r, s, T)
            IN /\ Hit(net, r, s, T) \in Nat /\ Hit(net2, r, s, T) \in Nat
               /\ takes /\ ~adds => Hit(net2, r, s, T) + 1 = Hit(net, r, s, T)
               /\ ~takes /\ adds => Hit(net2, r, s, T) = Hit(net, r, s, T) + 1
               /\ ~takes /\ ~adds => Hit(net2, r, s, T) = Hit(net, r, s, T)
        BY <1>1, Shift
      <3> HIDE DEF net2, T
      <3> QED
        BY <1>2, <3>1
    <2> HIDE DEF net2, T
    <2>2. r = p => r # 0
      OBVIOUS
    <2>3. /\ a \in Nat /\ a2 \in Nat
          /\ (r = p /\ m \in T => a2 + 1 = a) /\ (~(r = p /\ m \in T) => a2 = a)
      BY <2>1, <2>2
    <2>4. /\ b \in Nat /\ b2 \in Nat
          /\ (r = p /\ m \in T => b2 = b + 1) /\ (~(r = p /\ m \in T) => b2 = b)
      BY <1>1, <2>1, <2>2
    <2> QED
      BY <2>3, <2>4
  <1>4. /\ Waiting(net, r, c) = a + (IF r = 0 THEN 0 ELSE b)
        /\ Waiting(net2, r, c) = a2 + (IF r = 0 THEN 0 ELSE b2)
    BY DEF Waiting
  <1> HIDE DEF a, a2, b, b2, net2, T
  <1>5. CASE r = 0
    BY <1>3, <1>4, <1>5
  <1>6. CASE r # 0
    BY <1>3, <1>4, <1>6
  <1> QED
    BY <1>5, <1>6

(* The root takes the only call of a round, and sends another one, or none *)
LEMMA CallsTaken ==
    ASSUME NEW net \in Nets, 0 \in PE, On(net, 0, 0) # <<>>,
           NEW m, m = Foremost(net, 0, 0),
           NEW out \in Sendings, NEW c, NEW x, Carries(out, 0, x, c),
           m \in Calls(c), Hit(net, 0, 0, Calls(c)) = 1
    PROVE  LET net2 == After(net, 0, 0, out)
           IN /\ x \in Calls(c) => /\ Hit(net2, 0, 0, Calls(c)) = 1
                                   /\ Holds(net2, 0, 0) \cap Calls(c) \subseteq {x}
              /\ x \notin Calls(c) => /\ Hit(net2, 0, 0, Calls(c)) = 0
                                      /\ Holds(net2, 0, 0) \cap Calls(c) = {}
  <1> DEFINE net1 == Behind(net, 0, 0)
             net2 == After(net, 0, 0, out)
             T == Calls(c)
  <1>1. T \in Topics(c)
    BY DEF Topics
  <1>2. /\ net1 \in Nets /\ net2 = Emit(net1, 0, out) /\ net2 \in Nets
        /\ Hit(net, 0, 0, T) = Hit(net1, 0, 0, T) + 1
        /\ Hit(net1, 0, 0, T) \in Nat
    <2>1. net1 \in Nets
      BY BehindIs
    <2>2. Hit(net, 0, 0, T) = Hit(net1, 0, 0, T) + 1
      BY BehindHits
    <2> QED
      BY <2>1, <2>2, EmitIs, NoneOn DEF After
  <1> HIDE DEF net1, net2, T
  <1>3. Hit(net1, 0, 0, T) = 0
    BY <1>2 DEF T
  <1>4. Holds(net1, 0, 0) \cap T = {}
    BY <1>2, <1>3, NoneOn
  <1>5. Holds(net2, 0, 0) = Holds(net1, 0, 0) \cup Sends(out, 0)
    BY <1>2, EmitTo
  <1>6. Hit(net2, 0, 0, T) = Hit(net1, 0, 0, T) + Sent(out, 0, T)
    BY <1>2, EmitHits
  <1>7. /\ x \in T => Sent(out, 0, T) = 1
        /\ x \notin T => Sent(out, 0, T) = 0
        /\ Sends(out, 0) \cap T \subseteq {x}
    BY <1>1 DEF Carries
  <1>8. /\ x \in T => Hit(net2, 0, 0, T) = 1 /\ Holds(net2, 0, 0) \cap T \subseteq {x}
        /\ x \notin T => Hit(net2, 0, 0, T) = 0 /\ Holds(net2, 0, 0) \cap T = {}
    BY <1>3, <1>4, <1>5, <1>6, <1>7
  <1> QED
    BY <1>8 DEF net2, T

(* The root calls for what comes next *)
LEMMA CallsMore ==
    ASSUME NEW net \in Nets, 0 \in PE, NEW q \in PE, On(net, q, 0) # <<>>,
           NEW m, m = Foremost(net, q, 0),
           NEW out \in Sendings, NEW c, NEW x, Carries(out, 0, x, c),
           m \notin Calls(c), x \in Calls(c), Hit(net, 0, 0, Calls(c)) = 0
    PROVE  LET net2 == After(net, q, 0, out)
           IN /\ Hit(net2, 0, 0, Calls(c)) = 1
              /\ Holds(net2, 0, 0) \cap Calls(c) \subseteq {x}
  <1> DEFINE net2 == After(net, q, 0, out)
             T == Calls(c)
  <1>1. T \in Topics(c)
    BY DEF Topics
  <1>2. ~Takes(net, q, 0, 0, 0, T) /\ Adds(0, 0, x, 0, 0, T)
    BY DEF Takes, Adds
  <1>3. /\ Hit(net2, 0, 0, T) = Hit(net, 0, 0, T) + 1
        /\ Holds(net2, 0, 0) \cap T \subseteq Holds(net, 0, 0) \cup {x}
    BY <1>1, <1>2, Shift
  <1>4. Holds(net, 0, 0) \cap T = {}
    BY NoneOn
  <1> HIDE DEF net2
  <1>5. Hit(net2, 0, 0, T) = 1 /\ Holds(net2, 0, 0) \cap T \subseteq {x}
    BY <1>3, <1>4
  <1> QED
    BY <1>5 DEF net2

-----------------------------------------------------------------------------
(* A copy comes to a PE that is not the root *)

LEMMA PendingMoved ==
    ASSUME NEW h, NEW h2, NEW c, Extends(h, h2, c), Ran(h2) = Ran(h),
           NEW mark \in 0 .. Ran(h), NEW prod \in 0 .. Ran(h), Pending(h, c, mark, prod)
    PROVE  Pending(h2, c, mark, prod)
  <1>1. Ran(h) \in Nat /\ \A j \in 1 .. Ran(h) : Entry(h2, j) = Entry(h, j)
    BY DEF Extends
  <1>2. ASSUME NEW j \in 1 .. Ran(h2), Of(Entry(h2, j)) = c
        PROVE  Owed(h2, c, mark, prod, j)
    <2>1. j \in 1 .. Ran(h) /\ Of(Entry(h, j)) = c
      BY <1>1, <1>2
    <2>2. Owed(h, c, mark, prod, j)
      BY <2>1 DEF Pending
    <2> QED
      BY <2>1, <2>2, OwedLater
  <1>3. (mark > 0 => mark \in 1 .. Ran(h)) /\ (prod > 0 => prod \in 1 .. Ran(h))
    BY <1>1
  <1> QED
    BY <1>1, <1>2, <1>3 DEF Pending

(* What p runs next, and what the last of its kind is *)
LEMMA NextIs ==
    ASSUME NEW h, IsHistory(h), NEW p \in PE, At(h, p) + 1 \in 1 .. Ran(h),
           NEW m, m = Entry(h, At(h, p) + 1), NEW c \in Col, Of(m) = c,
           NEW mark, NEW prod, Pending(h, c, mark, prod)
    PROVE  /\ Produces(m) => prod = At(h, p) + 1
           /\ Marks(m) => mark = At(h, p) + 1
           /\ mark = At(h, p) + 1 => Marks(m)
           /\ prod = At(h, p) + 1 => Produces(m)
           /\ Tells(m) => c \in Watch(h, At(h, p))
           /\ m \in GroupMessage
  <1> DEFINE j == At(h, p) + 1
  <1>1. /\ j \in 1 .. Ran(h) /\ m = Entry(h, j) /\ At(h, p) \in Nat /\ At(h, p) < j
        /\ j - 1 = At(h, p) /\ j > 0
    BY DEF IsHistory
  <1>2. m \in GroupMessage
    BY <1>1, HistoryIs
  <1>3. /\ Owed(h, c, mark, prod, j)
        /\ mark > 0 => Marks(Entry(h, mark))
        /\ prod > 0 => Produces(Entry(h, prod))
    BY <1>1 DEF Pending
  <1> HIDE DEF j
  <1>4. (Marks(m) => j = mark) /\ (Produces(m) => j = prod) /\ (Tells(m) => c \in Watch(h, j - 1))
    BY <1>1, <1>3 DEF Owed
  <1> QED
    BY <1>1, <1>2, <1>3, <1>4 DEF j

(* A contribution that p would make with its present count *)
LEMMA MineIs ==
    ASSUME TypeInv, NEW p \in PE, NEW c \in Col, NEW h, IsHistory(h),
           Past(h, queue, lcount, watched)
    PROVE  /\ Mine(p, c) \in CountMessage /\ Mine(p, c).target = c
           /\ Mine(p, c).gcount = Due(h, At(h, p), c)
           /\ Orphan(p, c) <=> c \notin Watch(h, At(h, p))
  <1>1. lcount[p][c] = Due(h, At(h, p), c) /\ watched[p] = Watch(h, At(h, p))
    BY PastDue
  <1>2. lcount[p][c] \in Int
    BY DEF TypeInv, TypeOK
  <1> QED
    BY <1>1, <1>2, CountIsMessage DEF Mine, Orphan

(* The copy is as the wave expects it *)
LEMMA CopySound ==
    ASSUME TypeInv, NEW p \in PE \ {0}, NEW h, IsHistory(h), Past(h, queue, lcount, watched),
           At(h, p) + 1 \in 1 .. Ran(h), NEW m, m = Entry(h, At(h, p) + 1),
           NEW c \in Col, Of(m) = c,
           NEW prod, NEW used, NEW mark, NEW fired, NEW stage,
           OfCol(c, h, prod, used, mark, fired, stage, queue, received, started, asleep)
    PROVE  /\ Marks(m) => /\ Sound(Mine(p, c), c, Due(h, mark, c))
                          /\ Sound(Sum(p, compress(c), Mine(p, c)), c, Due(h, mark, c))
           /\ ~Bad(p, m)
  <1>1. /\ WaveOf(c, mark, fired, Due(h, mark, c), h, queue, received)
        /\ Pending(h, c, mark, prod)
    BY DEF OfCol
  <1>2. /\ Marks(m) => mark = At(h, p) + 1
        /\ Tells(m) => c \in Watch(h, At(h, p))
        /\ m \in GroupMessage
    BY <1>1, NextIs
  <1>3. /\ Mine(p, c) \in CountMessage /\ Mine(p, c).target = c
        /\ Mine(p, c).gcount = Due(h, At(h, p), c)
        /\ Orphan(p, c) <=> c \notin Watch(h, At(h, p))
    BY MineIs
  <1>4. At(h, p) \in Nat /\ (At(h, p) + 1) - 1 = At(h, p)
    BY DEF IsHistory
  <1>5. Marks(m) => Due(h, At(h, p) + 1, c) = Due(h, At(h, p), c)
    BY <1>4, HistoryIs
  <1>6. Due(h, mark, c) \in Nat /\ \A k \in ToSet(received[p][compress(c)]) : Sound(k, c, Due(h, mark, c))
    BY <1>1 DEF WaveOf, Gathered
  <1>7. Marks(m) => Sound(Mine(p, c), c, Due(h, mark, c))
    BY <1>2, <1>3, <1>5, <1>6 DEF Sound
  <1>8. Marks(m) => /\ Sound(Sum(p, compress(c), Mine(p, c)), c, Due(h, mark, c))
                    /\ ~Mixed(p, compress(c), Mine(p, c))
    BY <1>3, <1>6, <1>7, SumSound DEF TypeInv
  <1>9. ~Bad(p, m)
    BY <1>2, <1>3, <1>8 DEF Bad, Tells, Of
  <1> QED
    BY <1>7, <1>8, <1>9

(* p learns that a round has begun, and sends a message that consumes an   *)
(* event                                                                   *)
LEMMA CopyProduces ==
    ASSUME TypeInv, NEW q \in PE, NEW p \in PE \ {0}, On(queue, q, p) # <<>>,
           NEW m \in GroupMessage, m = Foremost(queue, q, p), m.kind = "copy",
           Runs(q, p, m), asleep' = asleep,
           NEW h, IsHistory(h), At(h, p) + 1 \in 1 .. Ran(h), m = Entry(h, At(h, p) + 1),
           Produces(m), NEW c \in Col, Of(m) = c,
           NEW prod, NEW used, NEW mark, NEW fired, NEW stage,
           OfCol(c, h, prod, used, mark, fired, stage, queue, received, started, asleep)
    PROVE  OfCol(c, Moved(h, p), prod, used, mark, fired, stage,
                 queue', received', started', asleep')
  <1> DEFINE h2 == Moved(h, p)
             x == Post("consume", c)
             own == Own(p, m)
             out == RunOut(p, m, own)
             j == At(h, p) + 1
             net2 == queue'
  <1>1. /\ Spent(h, c, prod, used, queue)
        /\ Staged(h, c, mark, fired, used, stage, queue, started, asleep)
        /\ WaveOf(c, mark, fired, Due(h, mark, c), h, queue, received)
        /\ Pending(h, c, mark, prod)
    BY DEF OfCol
  <1>2. /\ Ran(h) \in Nat /\ mark \in 0 .. Ran(h) /\ prod \in 0 .. Ran(h)
        /\ mark \in Nat /\ prod \in Nat /\ mark <= Ran(h) /\ prod <= Ran(h)
    BY <1>1 DEF IsHistory, Spent, Staged
  <1>3. prod = j /\ mark # j
    BY <1>1, NextIs, Sorts
  <1>4. /\ Extends(h, h2, c) /\ Later(h, h2, c, 0, 0) /\ Later(h, h2, c, mark, 0)
        /\ Ran(h2) = Ran(h)
        /\ \A i : Due(h2, i, c) = Due(h, i, c)
        /\ \A r \in PE : At(h2, r) = IF r = p THEN j ELSE At(h, r)
        /\ \A r \in PE : At(h, r) \in Nat
    <2>1. At(h, p) \in Nat /\ 0 # At(h, p) + 1 /\ \A r \in PE : At(h, r) \in Nat
      BY DEF IsHistory
    <2>2. /\ Extends(h, Moved(h, p), c)
          /\ \A a \in Nat, b \in Nat :
                a # At(h, p) + 1 /\ b # At(h, p) + 1 => Later(h, Moved(h, p), c, a, b)
      BY MovedLater
    <2>3. Later(h, h2, c, 0, 0) /\ Later(h, h2, c, mark, 0)
      BY <1>2, <1>3, <2>1, <2>2
    <2> QED
      BY <2>1, <2>2, <2>3, MovedIs DEF Due
  <1>5. /\ x \in Message /\ x \in Uses(c) /\ x \notin Reds(c) /\ x \notin Calls(c)
        /\ m \notin Reds(c) /\ m \notin Uses(c) /\ m \notin Calls(c)
    BY MessagesAre, Kinds DEF About
  <1>6. own = OnlyTo(p, x) /\ own \in Sendings
    BY OwnTo, OwnIs
  <1>7. Carries(own, p, x, c)
    BY <1>5, <1>6, CarriesOnly
  <1>8. out \in Sendings /\ Carries(out, p, x, c)
    <2> HIDE DEF own, x
    <2> QED
      BY <1>5, <1>6, <1>7, CarriesRun
  <1>9. /\ queue \in Nets /\ net2 = After(queue, q, p, out)
        /\ received' = received /\ started' = started
    BY Sorts DEF TypeInv, Runs, NextStarted
  <1> HIDE DEF h2, x, own, out, j, net2
  <1>10. SameReds(queue, net2, c) /\ SameCalls(queue, net2, c)
    BY <1>5, <1>8, <1>9, Untouched
  <1>11. ASSUME NEW r \in PE
         PROVE  /\ r = p => Waiting(net2, r, c) = Waiting(queue, r, c) + 1
                /\ r # p => Waiting(net2, r, c) = Waiting(queue, r, c)
    <2>1. p \in PE
      OBVIOUS
    <2>2. /\ r = p => Waiting(After(queue, q, p, out), r, c) = Waiting(queue, r, c) + 1
          /\ r # p => Waiting(After(queue, q, p, out), r, c) = Waiting(queue, r, c)
      BY ONLY <1>5, <1>8, <1>9, <1>11, <2>1, q \in PE, On(queue, q, p) # <<>>,
              m = Foremost(queue, q, p), WaitingMore
    <2> QED
      BY <1>9, <2>2
  <1>12. Spent(h2, c, prod, used, net2)
    <2>1. /\ Due(h, Ran(h), c) = Cardinality(PE \ used) /\ used \subseteq PE
          /\ \A r \in used : At(h, r) >= prod
          /\ \A r \in PE : Waiting(queue, r, c) = IF r \notin used /\ At(h, r) >= prod THEN 1 ELSE 0
      BY <1>1 DEF Spent
    <2>2. ~(At(h, p) >= prod) /\ At(h2, p) >= prod
      BY <1>2, <1>3, <1>4 DEF j
    <2>3. p \notin used
      BY <2>1, <2>2
    <2>4. \A r \in used : At(h2, r) >= prod
      BY <1>4, <2>1, <2>3
    <2>5. ASSUME NEW r \in PE
          PROVE  Waiting(net2, r, c) = IF r \notin used /\ At(h2, r) >= prod THEN 1 ELSE 0
      <3>1. CASE r = p
        <4>1. Waiting(queue, p, c) = 0
          BY <2>1, <2>2
        <4>2. Waiting(net2, p, c) = Waiting(queue, p, c) + 1
          BY <1>11
        <4> QED
          BY <2>2, <2>3, <3>1, <4>1, <4>2
      <3>2. CASE r # p
        BY <1>4, <1>11, <2>1, <3>2
      <3> QED
        BY <3>1, <3>2
    <2> QED
      BY <1>2, <1>4, <2>1, <2>4, <2>5 DEF Spent
  <1>13. Staged(h2, c, mark, fired, used, stage, net2, started', asleep')
    BY <1>1, <1>4, <1>9, <1>10, StagedLater DEF SameCalls
  <1>14. Pending(h2, c, mark, prod)
    BY <1>1, <1>2, <1>4, PendingMoved
  <1>15. WaveOf(c, mark, fired, Due(h2, mark, c), h2, net2, received')
    <2> DEFINE v == Due(h, mark, c)
               rec2 == received'
    <2>1. /\ WaveOf(c, mark, fired, v, h, queue, received) /\ Due(h2, mark, c) = v
          /\ \A r \in PE : Gathered(rec2, r, compress(c)) = Gathered(received, r, compress(c))
      BY <1>1, <1>4, <1>9
    <2>2. \A r \in PE : At(h2, r) >= mark <=> At(h, r) >= mark
      BY <1>4 DEF Later
    <2>3. \A r \in PE \ {0} :
             /\ Hit(net2, r, span_tree_parent(r), Reds(c)) = Hit(queue, r, span_tree_parent(r), Reds(c))
             /\ Holds(net2, r, span_tree_parent(r)) \cap Reds(c) \subseteq Holds(queue, r, span_tree_parent(r))
      BY <1>10 DEF SameReds
    <2> HIDE DEF v, rec2
    <2>4. WaveOf(c, mark, fired, v, h2, net2, rec2)
      BY <2>1, <2>2, <2>3, WaveFrame
    <2> QED
      BY <2>1, <2>4 DEF rec2
  <1>16. OfCol(c, h2, prod, used, mark, fired, stage, net2, received', started', asleep')
    BY <1>12, <1>13, <1>14, <1>15 DEF OfCol
  <1> QED
    BY <1>16 DEF h2, net2

(* p learns of the consumption of an event, or that the detection is over *)
LEMMA CopyPlain ==
    ASSUME TypeInv, NEW q \in PE, NEW p \in PE \ {0}, On(queue, q, p) # <<>>,
           NEW m \in GroupMessage, m = Foremost(queue, q, p), m.kind = "copy",
           Runs(q, p, m), asleep' = asleep,
           NEW h, IsHistory(h), At(h, p) + 1 \in 1 .. Ran(h), m = Entry(h, At(h, p) + 1),
           Consumes(m) \/ Ends(m), NEW c \in Col, Of(m) = c,
           NEW prod, NEW used, NEW mark, NEW fired, NEW stage,
           OfCol(c, h, prod, used, mark, fired, stage, queue, received, started, asleep)
    PROVE  OfCol(c, Moved(h, p), prod, used, mark, fired, stage,
                 queue', received', started', asleep')
  <1> DEFINE h2 == Moved(h, p)
             own == Own(p, m)
             out == RunOut(p, m, own)
             net2 == queue'
  <1>1. /\ Pending(h, c, mark, prod)
        /\ mark \in 0 .. Ran(h) /\ prod \in 0 .. Ran(h)
    BY DEF OfCol, Spent, Staged
  <1>2. prod # At(h, p) + 1 /\ mark # At(h, p) + 1
    BY <1>1, NextIs, Sorts
  <1>3. Later(h, h2, c, mark, prod)
    <2>1. mark \in Nat /\ prod \in Nat
      BY <1>1 DEF IsHistory
    <2> QED
      BY <1>2, <2>1, MovedLater
  <1>4. 0 \in PE /\ m \in Message /\ m \notin Reds(c) /\ m \notin Uses(c) /\ m \notin Calls(c) /\ m \notin About(c)
    BY MessagesAre, Kinds, FinitePEs DEF About
  <1>5. own = Nothing /\ own \in Sendings
    BY OwnTo, OwnIs
  <1>6. Carries(own, 0, m, c)
    BY <1>4, <1>5, CarriesOnly
  <1>7. out \in Sendings /\ Carries(out, 0, m, c)
    <2> HIDE DEF own
    <2> QED
      BY <1>4, <1>5, <1>6, CarriesRun
  <1>8. /\ queue \in Nets /\ net2 = After(queue, q, p, out)
        /\ received' = received /\ started' = started
    BY Sorts DEF TypeInv, Runs, NextStarted
  <1> HIDE DEF h2, own, out, net2
  <1>9. Unheard(queue, net2, c)
    BY <1>4, <1>7, <1>8, Untouched, UnheardParts
  <1> DEFINE rec2 == received'
             st2 == started'
             asl2 == asleep'
  <1>10. /\ \A r \in PE : Gathered(rec2, r, compress(c)) = Gathered(received, r, compress(c))
         /\ st2 = started /\ asl2 = asleep
    BY <1>8
  <1> HIDE DEF rec2, st2, asl2
  <1>11. OfCol(c, h2, prod, used, mark, fired, stage, net2, rec2, st2, asl2)
    BY <1>3, <1>9, <1>10, OfColLater
  <1> QED
    BY <1>11 DEF h2, net2, rec2, st2, asl2

(* p contributes to a wave *)
LEMMA CopyMarks ==
    ASSUME TypeInv, NEW q \in PE, NEW p \in PE \ {0}, On(queue, q, p) # <<>>,
           NEW m \in GroupMessage, m = Foremost(queue, q, p), m.kind = "copy",
           Runs(q, p, m), asleep' = asleep,
           NEW h, IsHistory(h), Past(h, queue, lcount, watched),
           At(h, p) + 1 \in 1 .. Ran(h), m = Entry(h, At(h, p) + 1),
           Marks(m), NEW c \in Col, Of(m) = c,
           NEW prod, NEW used, NEW mark, NEW fired, NEW stage,
           OfCol(c, h, prod, used, mark, fired, stage, queue, received, started, asleep)
    PROVE  Kept(c, Moved(h, p), queue', received', started', asleep')
  <1> DEFINE h2 == Moved(h, p)
             tag == compress(c)
             n == Mine(p, c)
             sum == Sum(p, tag, n)
             full == Full(p, tag, n)
             up == span_tree_parent(p)
             x == IF full THEN Redux(tag, sum) ELSE m
             own == Own(p, m)
             out == RunOut(p, m, own)
             j == At(h, p) + 1
             v == Due(h, mark, c)
             net2 == queue'
             rec2 == received'
             fired2 == IF full THEN fired \cup {p} ELSE fired
  <1>1. /\ Spent(h, c, prod, used, queue)
        /\ Staged(h, c, mark, fired, used, stage, queue, started, asleep)
        /\ WaveOf(c, mark, fired, v, h, queue, received)
        /\ Pending(h, c, mark, prod)
    BY DEF OfCol
  <1>2. /\ Ran(h) \in Nat /\ mark \in 0 .. Ran(h) /\ prod \in 0 .. Ran(h)
        /\ mark \in Nat /\ prod \in Nat /\ mark <= Ran(h) /\ prod <= Ran(h)
    BY <1>1 DEF IsHistory, Spent, Staged
  <1>3. mark = j /\ prod # j
    BY <1>1, NextIs, Sorts
  <1>4. /\ Extends(h, h2, c) /\ Later(h, h2, c, 0, 0) /\ Later(h, h2, c, 0, prod)
        /\ Ran(h2) = Ran(h)
        /\ \A i : Due(h2, i, c) = Due(h, i, c)
        /\ \A r \in PE : At(h2, r) = IF r = p THEN j ELSE At(h, r)
        /\ \A r \in PE : At(h, r) \in Nat
    <2>1. At(h, p) \in Nat /\ 0 # At(h, p) + 1 /\ \A r \in PE : At(h, r) \in Nat
      BY DEF IsHistory
    <2>2. /\ Extends(h, Moved(h, p), c)
          /\ \A a \in Nat, b \in Nat :
                a # At(h, p) + 1 /\ b # At(h, p) + 1 => Later(h, Moved(h, p), c, a, b)
      BY MovedLater
    <2>3. Later(h, h2, c, 0, 0) /\ Later(h, h2, c, 0, prod)
      BY <1>2, <1>3, <2>1, <2>2
    <2> QED
      BY <2>1, <2>2, <2>3, MovedIs DEF Due
  <1>5. /\ Sound(n, c, v) /\ Sound(sum, c, v) /\ n \in CountMessage /\ sum \in CountMessage
        /\ tag \in Tags /\ up \in PE /\ m \in Message /\ full \in BOOLEAN
    <2>1. full \in BOOLEAN
      BY DEF Full
    <2> QED
      BY <2>1, CopySound, OwnTo, TreeIs, MessagesAre DEF Tags
  <1>6. /\ x \in Message /\ x \notin Uses(c) /\ x \notin Calls(c)
        /\ (full => x \in Reds(c) /\ x.count = sum) /\ (~full => x \notin Reds(c))
        /\ m \notin Reds(c) /\ m \notin Uses(c) /\ m \notin Calls(c) /\ m \notin About(c)
        /\ ~full => x \notin About(c)
    <2>1. /\ Redux(tag, sum) \in Message /\ Redux(tag, sum) \in Reds(c)
          /\ Redux(tag, sum) \notin Uses(c) /\ Redux(tag, sum) \notin Calls(c)
          /\ Redux(tag, sum).count = sum
      BY <1>5, MessagesAre, Kinds DEF Redux
    <2>2. m \notin Reds(c) /\ m \notin Uses(c) /\ m \notin Calls(c) /\ m \notin About(c)
      BY Kinds DEF About
    <2> HIDE DEF full, sum, tag
    <2> QED
      BY <1>5, <2>1, <2>2
  <1>7. /\ full => own = OnlyTo(up, Redux(tag, sum))
        /\ ~full => own = Nothing
        /\ own \in Sendings
    BY OwnTo, OwnIs
  <1>8. Carries(own, up, x, c)
    <2> HIDE DEF own, up, full, sum, tag
    <2>1. CASE full
      <3>1. x = Redux(tag, sum) /\ own = OnlyTo(up, x)
        BY <1>7, <2>1
      <3> HIDE DEF x
      <3> QED
        BY <1>5, <1>6, <3>1, CarriesOnly
    <2>2. CASE ~full
      <3>1. own = Nothing
        BY <1>7, <2>2
      <3> HIDE DEF x
      <3> QED
        BY <1>5, <1>6, <2>2, <3>1, CarriesOnly
    <2> QED
      BY <2>1, <2>2
  <1>9. out \in Sendings /\ Carries(out, up, x, c)
    <2> HIDE DEF own, x, up
    <2> QED
      BY <1>5, <1>6, <1>7, <1>8, CarriesRun
  <1>10. /\ queue \in Nets /\ net2 = After(queue, q, p, out) /\ received \in Reducers
         /\ started' = started /\ Reduce(p, tag, n)
    BY Sorts DEF TypeInv, Runs, NextStarted, Of
  <1>11. \A r \in PE, t \in Tags :
            rec2[r][t] = IF r = p /\ t = tag
                         THEN IF full THEN <<>> ELSE With(p, tag, n)
                         ELSE received[r][t]
    BY <1>5, <1>10, ReduceType
  <1>12. /\ \A r \in PE \ {p} : Gathered(rec2, r, tag) = Gathered(received, r, tag)
         /\ Gathered(rec2, p, tag) = IF full THEN <<>> ELSE Append(Gathered(received, p, tag), n)
    <2> HIDE DEF full, n, tag, rec2
    <2> QED
      BY <1>5, <1>11 DEF Gathered, With
  <1>13. full <=> Len(Gathered(received, p, tag)) + 1 = expected(p)
    BY <1>5, SumIs DEF TypeInv, Full, Gathered
  <1> HIDE DEF h2, tag, n, sum, full, up, x, own, out, j, v, net2, rec2
  <1>14. SameWaiting(queue, net2, c) /\ SameCalls(queue, net2, c)
    <2>1. /\ x \notin Uses(c) /\ x \notin Calls(c) /\ m \notin Uses(c) /\ m \notin Calls(c)
          /\ queue \in Nets /\ net2 = After(queue, q, p, out) /\ up \in PE /\ p \in PE
          /\ out \in Sendings /\ Carries(out, up, x, c)
      BY <1>5, <1>6, <1>9, <1>10
    <2> QED
      BY ONLY <2>1, Untouched, q \in PE, On(queue, q, p) # <<>>, m = Foremost(queue, q, p)
  <1>15. /\ p \notin fired /\ p \notin Delivered(c, mark, fired, h, queue, p)
         /\ p \in Contributors(p)
    <2>1. ~(At(h, p) >= mark)
      BY <1>3, <1>4 DEF j
    <2>2. p \notin Delivered(c, mark, fired, h, queue, p) /\ p \in Contributors(p)
      BY <2>1 DEF Delivered, Contributors
    <2> QED
      BY <1>1, <2>2 DEF WaveOf
  <1>16. Hit(queue, p, up, Reds(c)) = 0
    BY <1>1, <1>15 DEF WaveOf, up
  <1>17. ASSUME NEW r \in PE \ {0}
         PROVE  /\ r = p /\ full => Hit(net2, r, span_tree_parent(r), Reds(c)) = 1
                /\ ~(r = p /\ full) => Hit(net2, r, span_tree_parent(r), Reds(c)) =
                                          Hit(queue, r, span_tree_parent(r), Reds(c))
                /\ Holds(net2, r, span_tree_parent(r)) \cap Reds(c)
                      \subseteq Holds(queue, r, span_tree_parent(r)) \cup {x}
                /\ ~full => Holds(net2, r, span_tree_parent(r)) \cap Reds(c)
                               \subseteq Holds(queue, r, span_tree_parent(r))
    <2> DEFINE s == span_tree_parent(r)
    <2>1. r \in PE /\ s \in PE /\ Reds(c) \in Topics(c)
      BY TreeIs DEF Topics
    <2>2. ~Takes(queue, q, p, r, s, Reds(c))
      BY <1>6 DEF Takes
    <2>3. Adds(p, up, x, r, s, Reds(c)) <=> r = p /\ full
      BY <1>6 DEF Adds, up
    <2>4. r = p => s = up
      BY DEF up
    <2> HIDE DEF s
    <2>5. /\ r = p /\ full => Hit(net2, r, s, Reds(c)) = Hit(queue, r, s, Reds(c)) + 1
          /\ ~(r = p /\ full) => Hit(net2, r, s, Reds(c)) = Hit(queue, r, s, Reds(c))
          /\ Holds(net2, r, s) \cap Reds(c) \subseteq Holds(queue, r, s) \cup {x}
          /\ ~full => Holds(net2, r, s) \cap Reds(c) \subseteq Holds(queue, r, s)
      BY <1>5, <1>9, <1>10, <2>1, <2>2, <2>3, Shift
    <2>6. r = p /\ full => Hit(net2, r, s, Reds(c)) = 1
      BY <1>16, <2>4, <2>5
    <2> QED
      BY <2>5, <2>6 DEF s
  <1>18. Rises(queue, net2, c, v, p, p, full)
    BY <1>5, <1>6, <1>17 DEF Rises
  <1>19. Comes(h, h2, mark, p, p)
    <2>1. j \in Nat /\ j >= mark
      BY <1>2, <1>3
    <2> QED
      BY <1>4, <2>1 DEF Comes
  <1>20. WaveOf(c, mark, fired2, v, h2, net2, rec2)
    <2>1. Gathers(received, rec2, p, compress(c), n, full)
      BY <1>12, <1>13 DEF tag, Gathers
    <2>2. (full => fired2 = fired \cup {p}) /\ (~full => fired2 = fired)
      OBVIOUS
    <2> HIDE DEF fired2
    <2> QED
      BY <1>1, <1>5, <1>10, <1>15, <1>18, <1>19, <2>1, <2>2, Arrival
  <1>21. 0 \in fired2 <=> 0 \in fired
    OBVIOUS
  <1> HIDE DEF fired2
  <1>22. Staged(h2, c, mark, fired2, used, stage, net2, started', asleep')
    BY <1>1, <1>4, <1>10, <1>14, <1>21, StagedLater DEF SameCalls
  <1>23. Spent(h2, c, prod, used, net2)
    BY <1>1, <1>4, <1>14, SpentLater DEF SameWaiting
  <1>24. Pending(h2, c, mark, prod)
    BY <1>1, <1>2, <1>4, PendingMoved
  <1>25. OfCol(c, h2, prod, used, mark, fired2, stage, net2, rec2, started', asleep')
    <2>1. Due(h2, mark, c) = v
      BY <1>4 DEF v
    <2> QED
      BY <1>20, <1>22, <1>23, <1>24, <2>1 DEF OfCol
  <1> QED
    BY <1>25 DEF Kept, h2, net2, rec2

-----------------------------------------------------------------------------
(* The root runs a message about c *)

(* h2 goes on from h with one broadcast more, that of m *)
Grows(h, h2, c, m) ==
    /\ Extends(h, h2, c) /\ Ran(h2) = Ran(h) + 1
    /\ Of(Entry(h2, Ran(h2))) = c
    /\ Produces(Entry(h2, Ran(h2))) <=> Produces(m)
    /\ Consumes(Entry(h2, Ran(h2))) <=> Consumes(m)
    /\ Marks(Entry(h2, Ran(h2))) <=> Marks(m)
    /\ Ends(Entry(h2, Ran(h2))) <=> Ends(m)
    /\ Tells(Entry(h2, Ran(h2))) <=> Tells(m)
    /\ Produces(m) => Due(h2, Ran(h2), c) = Due(h, Ran(h), c) + NumPes
    /\ Consumes(m) => Due(h2, Ran(h2), c) = Due(h, Ran(h), c) - 1
    /\ Marks(m) => Due(h2, Ran(h2), c) = Due(h, Ran(h), c)
    /\ Ends(m) => Due(h2, Ran(h2), c) = 0
    /\ Marks(m) => (c \in Watch(h2, Ran(h2)) <=> ~Tells(m) \/ c \in Watch(h, Ran(h)))
    /\ Ends(m) => c \notin Watch(h2, Ran(h2))
    /\ Produces(m) \/ Consumes(m) => (c \in Watch(h2, Ran(h2)) <=> c \in Watch(h, Ran(h)))
    /\ At(h, 0) = Ran(h) /\ At(h2, 0) = Ran(h2)
    /\ \A r \in PE \ {0} : At(h2, r) = At(h, r)

LEMMA GrownGrows ==
    ASSUME NEW h, IsHistory(h), NEW m \in GroupMessage, NEW c \in Col, Of(m) = c
    PROVE  Grows(h, Grown(h, Copy(m)), c, m)
  <1> DEFINE k == Copy(m)
             h2 == Grown(h, k)
  <1>1. k \in GroupMessage
    BY MessagesAre
  <1>2. /\ Of(k) = c
        /\ Produces(k) <=> Produces(m)
        /\ Consumes(k) <=> Consumes(m)
        /\ Marks(k) <=> Marks(m)
        /\ Ends(k) <=> Ends(m)
        /\ Tells(k) <=> Tells(m)
    BY Sorts
  <1>3. At(h, 0) = Ran(h) /\ 0 \in PE
    BY FinitePEs DEF IsHistory
  <1> HIDE DEF k
  <1>4. /\ Extends(h, Grown(h, k), c)
        /\ Ran(Grown(h, k)) = Ran(h) + 1 /\ Entry(Grown(h, k), Ran(h) + 1) = k
        /\ \A p \in PE : At(Grown(h, k), p) = IF p = 0 THEN Ran(h) + 1 ELSE At(h, p)
        /\ Produces(k) => Due(Grown(h, k), Ran(h) + 1, c) = Due(h, Ran(h), c) + NumPes
        /\ Consumes(k) => Due(Grown(h, k), Ran(h) + 1, c) = Due(h, Ran(h), c) - 1
        /\ Marks(k) => Due(Grown(h, k), Ran(h) + 1, c) = Due(h, Ran(h), c)
        /\ Ends(k) => Due(Grown(h, k), Ran(h) + 1, c) = 0
        /\ Marks(k) => (c \in Watch(Grown(h, k), Ran(h) + 1) <=> ~Tells(k) \/ c \in Watch(h, Ran(h)))
        /\ Ends(k) => c \notin Watch(Grown(h, k), Ran(h) + 1)
        /\ Produces(k) \/ Consumes(k) =>
              (c \in Watch(Grown(h, k), Ran(h) + 1) <=> c \in Watch(h, Ran(h)))
    BY <1>1, <1>2, GrownExtends
  <1> HIDE DEF h2
  <1>5. Grows(h, h2, c, m)
    <2>1. Ran(h2) = Ran(h) + 1 /\ Entry(h2, Ran(h2)) = k
      BY <1>4 DEF h2
    <2>2. At(h2, 0) = Ran(h2) /\ \A r \in PE \ {0} : At(h2, r) = At(h, r)
      BY <1>3, <1>4, <2>1 DEF h2
    <2> QED
      BY <1>2, <1>3, <1>4, <2>1, <2>2 DEF h2, Grows
  <1> QED
    BY <1>5 DEF h2, k

(* Who has come to a broadcast of the root's is the same as before, but *)
(* for the new one, which only the root has run.                        *)
LEMMA GrowsAt ==
    ASSUME NEW h, NEW h2, NEW c, NEW m, Grows(h, h2, c, m), NEW r \in PE
    PROVE  /\ Ran(h) \in Nat /\ Ran(h2) \in Nat /\ At(h, r) \in 0 .. Ran(h)
           /\ At(h2, r) \in 0 .. Ran(h2)
           /\ \A i \in 0 .. Ran(h) : At(h2, r) >= i <=> At(h, r) >= i
           /\ ~(At(h, r) >= Ran(h2))
           /\ At(h2, r) >= Ran(h2) <=> r = 0
  <1>1. /\ Ran(h) \in Nat /\ Ran(h2) \in Nat /\ At(h, r) \in 0 .. Ran(h)
        /\ At(h2, r) \in 0 .. Ran(h2) /\ Ran(h2) = Ran(h) + 1
    BY DEF Grows, Extends
  <1>2. CASE r = 0
    BY <1>1, <1>2 DEF Grows
  <1>3. CASE r # 0
    BY <1>1, <1>3 DEF Grows
  <1> QED
    BY <1>2, <1>3, <1>1

LEMMA PendingGrows ==
    ASSUME NEW h, NEW h2, NEW c, NEW m, Grows(h, h2, c, m),
           NEW mark \in 0 .. Ran(h), NEW prod \in 0 .. Ran(h), Pending(h, c, mark, prod),
           NEW mark2,
           Marks(m) => mark2 = Ran(h2) /\ \A p \in PE : At(h, p) >= mark,
           ~Marks(m) => mark2 = mark,
           NEW prod2,
           Produces(m) => prod2 = Ran(h2) /\ \A p \in PE : At(h, p) >= prod,
           ~Produces(m) => prod2 = prod,
           Tells(m) => c \in Watch(h, Ran(h)),
           Ends(m) => \E i \in 0 .. Ran(h) : /\ \A p \in PE : At(h, p) >= i
                                             /\ \A k \in i .. Ran(h) : Due(h, k, c) = 0
    PROVE  Pending(h2, c, mark2, prod2)
  <1>1. /\ Ran(h) \in Nat /\ Ran(h2) = Ran(h) + 1 /\ Extends(h, h2, c)
        /\ \A j \in 1 .. Ran(h) : Entry(h2, j) = Entry(h, j)
        /\ \A j \in 0 .. Ran(h) : Due(h2, j, c) = Due(h, j, c) /\ (c \in Watch(h2, j) <=> c \in Watch(h, j))
        /\ \A p \in PE : At(h, p) \in Nat
    BY DEF Grows, Extends
  <1>2. /\ mark2 = mark \/ \A p \in PE : ~(At(h, p) < mark)
        /\ prod2 = prod \/ \A p \in PE : ~(At(h, p) < prod)
    BY <1>1
  <1>3. ASSUME NEW j \in 1 .. Ran(h2), Of(Entry(h2, j)) = c
        PROVE  Owed(h2, c, mark2, prod2, j)
    <2>1. CASE j \in 1 .. Ran(h)
      <3>1. Owed(h, c, mark, prod, j)
        BY <1>1, <1>3, <2>1 DEF Pending
      <3> QED
        BY <1>1, <1>2, <2>1, <3>1, OwedLater
    <2>2. CASE j = Ran(h2)
      <3>1. /\ Marks(Entry(h2, j)) => j = mark2
            /\ Produces(Entry(h2, j)) => j = prod2
        BY <2>2 DEF Grows
      <3>2. Tells(Entry(h2, j)) => c \in Watch(h2, j - 1)
        <4>1. j - 1 = Ran(h) /\ Ran(h) \in 0 .. Ran(h)
          BY <1>1, <2>2
        <4>2. Tells(Entry(h2, j)) => Tells(m)
          BY <2>2 DEF Grows
        <4> QED
          BY <1>1, <4>1, <4>2
      <3>3. ASSUME Ends(Entry(h2, j))
            PROVE  \E i \in 0 .. j : /\ \A p \in PE : At(h2, p) >= i
                                     /\ \A k \in i .. j : Due(h2, k, c) = 0
        <4>1. Ends(m) /\ Due(h2, j, c) = 0
          BY <2>2, <3>3 DEF Grows
        <4>2. PICK i \in 0 .. Ran(h) : /\ \A p \in PE : At(h, p) >= i
                                       /\ \A k \in i .. Ran(h) : Due(h, k, c) = 0
          BY <4>1
        <4>3. i \in 0 .. j
          BY <1>1, <2>2
        <4>4. \A p \in PE : At(h2, p) >= i
          BY <4>2, GrowsAt
        <4>5. ASSUME NEW k \in i .. j
              PROVE  Due(h2, k, c) = 0
          <5>1. k = j \/ (k \in i .. Ran(h) /\ k \in 0 .. Ran(h))
            BY <1>1, <2>2
          <5> QED
            BY <1>1, <4>1, <4>2, <5>1
        <4> QED
          BY <4>3, <4>4, <4>5
      <3> QED
        BY <3>1, <3>2, <3>3 DEF Owed
    <2> QED
      BY <1>1, <2>1, <2>2
  <1>4. mark2 > 0 => Marks(Entry(h2, mark2)) /\ Of(Entry(h2, mark2)) = c
    <2>1. CASE Marks(m)
      BY <2>1 DEF Grows
    <2>2. CASE ~Marks(m)
      <3>1. mark2 > 0 => mark \in 1 .. Ran(h) /\ mark2 = mark
        BY <1>1, <2>2
      <3> QED
        BY <1>1, <3>1 DEF Pending
    <2> QED
      BY <2>1, <2>2
  <1>5. prod2 > 0 => Produces(Entry(h2, prod2)) /\ Of(Entry(h2, prod2)) = c
    <2>1. CASE Produces(m)
      BY <2>1 DEF Grows
    <2>2. CASE ~Produces(m)
      <3>1. prod2 > 0 => prod \in 1 .. Ran(h) /\ prod2 = prod
        BY <1>1, <2>2
      <3> QED
        BY <1>1, <3>1 DEF Pending
    <2> QED
      BY <2>1, <2>2
  <1> QED
    BY <1>3, <1>4, <1>5 DEF Pending

(* The wave of before goes on *)
LEMMA WaveGrows ==
    ASSUME NEW h, NEW h2, NEW c, NEW m, Grows(h, h2, c, m), NEW mark \in 0 .. Ran(h),
           NEW fired, NEW v, NEW net, NEW rec, WaveOf(c, mark, fired, v, h, net, rec),
           NEW net2, SameReds(net, net2, c),
           NEW rec2, rec2 = rec, v = Due(h, mark, c)
    PROVE  WaveOf(c, mark, fired, Due(h2, mark, c), h2, net2, rec2)
  <1>1. Due(h2, mark, c) = v
    BY DEF Grows, Extends
  <1>2. \A r \in PE : At(h2, r) >= mark <=> At(h, r) >= mark
    BY GrowsAt
  <1>3. \A q \in PE \ {0} :
           /\ Hit(net2, q, span_tree_parent(q), Reds(c)) =
                 Hit(net, q, span_tree_parent(q), Reds(c))
           /\ Holds(net2, q, span_tree_parent(q)) \cap Reds(c)
                 \subseteq Holds(net, q, span_tree_parent(q))
    BY DEF SameReds
  <1>4. WaveOf(c, mark, fired, v, h2, net2, rec2)
    BY <1>2, <1>3, WaveFrame
  <1> QED
    BY <1>1, <1>4

(* The message that the round waits for has come *)
LEMMA RootCall ==
    ASSUME TypeInv, 0 \in PE, On(queue, 0, 0) # <<>>,
           NEW m \in GroupMessage, m = Foremost(queue, 0, 0), m.kind = "post", ~Consumes(m),
           NEW h, IsHistory(h), Past(h, queue, lcount, watched),
           NEW c \in Col, Of(m) = c,
           NEW prod, NEW used, NEW mark, NEW fired, NEW stage,
           OfCol(c, h, prod, used, mark, fired, stage, queue, received, started, asleep)
    PROVE  /\ m \in Calls(c) /\ m \notin Uses(c) /\ m \notin Reds(c)
           /\ Hit(queue, 0, 0, Calls(c)) = 1
           /\ Produces(m) => stage = "begun"
           /\ Marks(m) => stage \in {"starting", "summed"}
           /\ Ends(m) => stage = "summed" /\ Due(h, mark, c) = 0
           /\ 0 \in fired /\ c \in asleep
           /\ Tells(m) => c \in Watch(h, Ran(h))
           /\ \A r \in PE : At(h, r) >= mark /\ Gathered(received, r, compress(c)) = <<>>
           /\ Produces(m) \/ Ends(m) => Quiet(h, c, mark, used)
  <1>1. /\ Staged(h, c, mark, fired, used, stage, queue, started, asleep)
        /\ WaveOf(c, mark, fired, Due(h, mark, c), h, queue, received)
    BY DEF OfCol
  <1>2. m \in Calls(c) /\ m \notin Uses(c) /\ m \notin Reds(c) /\ m \in Holds(queue, 0, 0)
    BY MessagesAre, BehindIs, Kinds DEF TypeInv, Calls, Uses, Of, Consumes
  <1>3. CallIn(m, stage, Due(h, mark, c))
    BY <1>1, <1>2 DEF Staged
  <1>4. stage \in {"begun", "starting", "summed", "over"} /\ m.kind # "resume"
    BY <1>3 DEF CallIn
  <1>5. Hit(queue, 0, 0, Calls(c)) = 1 /\ 0 \in fired /\ c \in asleep
    BY <1>1, <1>4 DEF Staged
  <1>6. \A r \in PE : At(h, r) >= mark /\ Gathered(received, r, compress(c)) = <<>>
    BY <1>1, <1>5, AllFired
  <1>7. /\ Produces(m) => stage = "begun"
        /\ Marks(m) => stage \in {"starting", "summed"}
        /\ Tells(m) => stage = "summed"
        /\ Ends(m) => stage = "summed" /\ Due(h, mark, c) = 0
    BY <1>3, <1>4, Sorts DEF CallIn, Produces, Marks, Tells, Ends, complete
  <1>8. Tells(m) => c \in Watch(h, Ran(h))
    BY <1>1, <1>7 DEF Staged
  <1>9. Produces(m) \/ Ends(m) => Quiet(h, c, mark, used)
    BY <1>1, <1>7 DEF Staged
  <1> QED
    BY <1>2, <1>5, <1>6, <1>7, <1>8, <1>9

(* What the root counts itself is what is due *)
LEMMA RootSound ==
    ASSUME TypeInv, 0 \in PE,
           NEW m \in GroupMessage,
           NEW h, IsHistory(h), Past(h, queue, lcount, watched),
           NEW c \in Col, Of(m) = c, Due(h, Ran(h), c) \in Nat,
           Gathered(received, 0, compress(c)) = <<>>,
           Tells(m) => c \in Watch(h, Ran(h))
    PROVE  /\ Sound(Mine(0, c), c, Due(h, Ran(h), c))
           /\ Sound(Sum(0, compress(c), Mine(0, c)), c, Due(h, Ran(h), c))
           /\ ~Bad(0, m)
  <1> DEFINE n == Mine(0, c)
             v == Due(h, Ran(h), c)
  <1>1. At(h, 0) = Ran(h)
    BY DEF IsHistory
  <1>2. /\ n \in CountMessage /\ n.target = c /\ n.gcount = v
        /\ Orphan(0, c) <=> c \notin Watch(h, Ran(h))
    BY <1>1, MineIs
  <1>3. Sound(n, c, v)
    BY <1>2 DEF Sound
  <1>4. ToSet(received[0][compress(c)]) = {}
    BY DEF Gathered, ToSet
  <1>5. Sound(Sum(0, compress(c), n), c, v) /\ ~Mixed(0, compress(c), n)
    <2> HIDE DEF n, v
    <2>1. v \in Nat /\ received \in Reducers
      BY DEF v, TypeInv
    <2> QED
      BY <1>2, <1>3, <1>4, <2>1, SumSound
  <1> QED
    BY <1>2, <1>3, <1>5 DEF Bad, Of, Tells

(* A round begins: an event for each PE is announced *)
LEMMA RootProduces ==
    ASSUME TypeInv, 0 \in PE, On(queue, 0, 0) # <<>>,
           NEW m \in GroupMessage, m = Foremost(queue, 0, 0), m.kind = "post", Produces(m),
           Runs(0, 0, m), asleep' = asleep,
           NEW h, IsHistory(h), Past(h, queue, lcount, watched),
           NEW c \in Col, Of(m) = c, NEW h2, Grows(h, h2, c, m),
           NEW prod, NEW used, NEW mark, NEW fired, NEW stage,
           OfCol(c, h, prod, used, mark, fired, stage, queue, received, started, asleep)
    PROVE  Kept(c, h2, queue', received', started', asleep')
  <1> DEFINE x == Post("consume", c)
             own == Own(0, m)
             out == RunOut(0, m, own)
             net2 == queue'
             st2 == started'
             asl2 == asleep'
             rec2 == received'
             n == Ran(h2)
  <1>1. /\ Spent(h, c, prod, used, queue)
        /\ Staged(h, c, mark, fired, used, stage, queue, started, asleep)
        /\ WaveOf(c, mark, fired, Due(h, mark, c), h, queue, received)
        /\ Pending(h, c, mark, prod)
    BY DEF OfCol
  <1>2. /\ Ran(h) \in Nat /\ mark \in 0 .. Ran(h) /\ prod \in 0 .. Ran(h)
        /\ mark \in Nat /\ prod \in Nat /\ mark <= Ran(h) /\ prod <= Ran(h)
    BY <1>1 DEF IsHistory, Spent, Staged
  <1>3. ~Consumes(m) /\ ~Marks(m) /\ ~Ends(m) /\ ~Tells(m)
    BY Sorts
  <1>4. /\ m \in Calls(c) /\ m \notin Uses(c) /\ m \notin Reds(c)
        /\ Hit(queue, 0, 0, Calls(c)) = 1
        /\ stage = "begun" /\ 0 \in fired /\ c \in asleep
        /\ used = PE
    BY <1>3, RootCall DEF Quiet
  <1>5. /\ x \in Message /\ x \in Uses(c) /\ x \notin Reds(c) /\ x \notin Calls(c)
    BY MessagesAre, Kinds
  <1>6. own = OnlyTo(0, x) /\ own \in Sendings
    BY OwnTo, OwnIs
  <1>7. Carries(own, 0, x, c)
    BY <1>5, <1>6, CarriesOnly
  <1>8. out \in Sendings /\ Carries(out, 0, x, c)
    <2> HIDE DEF own, x
    <2> QED
      BY <1>5, <1>6, <1>7, CarriesRun
  <1>9. /\ queue \in Nets /\ net2 = After(queue, 0, 0, out)
        /\ rec2 = received /\ st2 = started \ {c} /\ asl2 = asleep
    BY <1>3 DEF TypeInv, Runs, NextStarted, Produces, Of
  <1> HIDE DEF x, own, out, net2, rec2, st2, asl2, n
  <1>10. SameReds(queue, net2, c)
    BY ONLY <1>4, <1>5, <1>8, <1>9, Untouched, 0 \in PE, On(queue, 0, 0) # <<>>,
            m = Foremost(queue, 0, 0)
  <1>11. Hit(net2, 0, 0, Calls(c)) = 0 /\ Holds(net2, 0, 0) \cap Calls(c) = {}
    BY ONLY <1>4, <1>5, <1>8, <1>9, CallsTaken, 0 \in PE, On(queue, 0, 0) # <<>>,
            m = Foremost(queue, 0, 0)
  <1>12. ASSUME NEW r \in PE
         PROVE  /\ r = 0 => Waiting(net2, r, c) = Waiting(queue, r, c) + 1
                /\ r # 0 => Waiting(net2, r, c) = Waiting(queue, r, c)
    BY ONLY <1>4, <1>5, <1>8, <1>9, <1>12, WaitingMore, 0 \in PE, On(queue, 0, 0) # <<>>,
            m = Foremost(queue, 0, 0)
  <1>13. Spent(h2, c, n, {}, net2)
    <2>1. /\ Due(h, Ran(h), c) = Cardinality(PE \ used) /\ \A r \in PE : At(h, r) >= prod
          /\ \A r \in PE : Waiting(queue, r, c) = 0
      BY <1>1, <1>4 DEF Spent
    <2>2. Due(h2, n, c) = Cardinality(PE \ {})
      <3>1. PE \ used = {} /\ PE \ {} = PE
        BY <1>4
      <3>2. Due(h2, n, c) = NumPes
        <4>1. Due(h2, n, c) = Due(h, Ran(h), c) + NumPes
          BY DEF n, Grows
        <4>2. Due(h, Ran(h), c) = 0
          BY <2>1, <3>1, FS_EmptySet
        <4> QED
          BY <4>1, <4>2, NumPesAssumption
      <3> QED
        BY <3>1, <3>2, FinitePEs
    <2>3. n \in 0 .. n
      BY <1>2 DEF n, Grows
    <2>4. ASSUME NEW r \in PE
          PROVE  Waiting(net2, r, c) = IF r \notin {} /\ At(h2, r) >= n THEN 1 ELSE 0
      BY <1>12, <2>1, GrowsAt DEF n
    <2> QED
      BY <2>2, <2>3, <2>4 DEF n, Spent
  <1>14. Staged(h2, c, mark, fired, {}, "produced", net2, st2, asl2)
    <2>1. mark \in 0 .. Ran(h2)
      BY <1>2 DEF Grows
    <2>2. c \notin Watch(h2, Ran(h2))
      BY <1>1, <1>4 DEF Grows, Staged
    <2> QED
      BY <1>4, <1>9, <1>11, <2>1, <2>2 DEF Staged, Stages
  <1>15. WaveOf(c, mark, fired, Due(h2, mark, c), h2, net2, rec2)
    BY <1>1, <1>2, <1>9, <1>10, WaveGrows
  <1>16. Pending(h2, c, mark, n)
    <2>1. \A r \in PE : At(h, r) >= prod
      BY <1>1, <1>4 DEF Spent
    <2> QED
      BY <1>1, <1>2, <1>3, <2>1, PendingGrows DEF n
  <1>17. Kept(c, h2, net2, rec2, st2, asl2)
    BY <1>13, <1>14, <1>15, <1>16 DEF Kept, OfCol
  <1> QED
    BY <1>17 DEF net2, rec2, st2, asl2

(* The root consumes an event, and starts the detection if none has been *)
LEMMA RootConsumes ==
    ASSUME TypeInv, 0 \in PE, NEW q \in PE, On(queue, q, 0) # <<>>,
           NEW m \in GroupMessage, m = Foremost(queue, q, 0), m.kind = "post", Consumes(m),
           Runs(q, 0, m), asleep' = asleep,
           NEW h, IsHistory(h), Past(h, queue, lcount, watched),
           NEW c \in Col, Of(m) = c, NEW h2, Grows(h, h2, c, m),
           NEW prod, NEW used, NEW mark, NEW fired, NEW stage,
           OfCol(c, h, prod, used, mark, fired, stage, queue, received, started, asleep)
    PROVE  Kept(c, h2, queue', received', started', asleep')
  <1> DEFINE starts == c \notin started
             x == IF starts THEN Post("start_detection", c) ELSE Copy(m)
             own == Own(0, m)
             out == RunOut(0, m, own)
             net2 == queue'
             st2 == started'
             asl2 == asleep'
             rec2 == received'
             n == Ran(h2)
             used2 == used \cup {q}
             stage2 == IF starts THEN "starting" ELSE stage
  <1>1. /\ Spent(h, c, prod, used, queue)
        /\ Staged(h, c, mark, fired, used, stage, queue, started, asleep)
        /\ WaveOf(c, mark, fired, Due(h, mark, c), h, queue, received)
        /\ Pending(h, c, mark, prod)
    BY DEF OfCol
  <1>2. /\ Ran(h) \in Nat /\ mark \in 0 .. Ran(h) /\ prod \in 0 .. Ran(h)
        /\ mark \in Nat /\ prod \in Nat /\ mark <= Ran(h) /\ prod <= Ran(h)
    BY <1>1 DEF IsHistory, Spent, Staged
  <1>3. ~Produces(m) /\ ~Marks(m) /\ ~Ends(m) /\ ~Tells(m)
    BY Sorts
  <1>4. m \in Uses(c) /\ m \notin Calls(c) /\ m \notin Reds(c)
    BY MessagesAre, Kinds DEF Uses, Calls, Of, Consumes
  <1>5. /\ x \in Message /\ x \notin Uses(c) /\ x \notin Reds(c)
        /\ (starts => x \in Calls(c)) /\ (~starts => x \notin Calls(c) /\ x \notin About(c))
    <2>1. /\ Post("start_detection", c) \in Message /\ Post("start_detection", c) \in Calls(c)
          /\ Post("start_detection", c) \notin Uses(c) /\ Post("start_detection", c) \notin Reds(c)
      BY MessagesAre, Kinds
    <2>2. Copy(m) \in Message /\ Copy(m) \notin About(c)
      BY MessagesAre, Kinds
    <2>3. Copy(m) \notin Uses(c) /\ Copy(m) \notin Reds(c) /\ Copy(m) \notin Calls(c)
      BY <2>2 DEF About
    <2> QED
      BY <2>1, <2>2, <2>3
  <1>6. /\ own \in Sendings
        /\ starts => own = OnlyTo(0, x)
        /\ ~starts => own = Nothing
    BY OwnTo, OwnIs
  <1>7. Carries(own, 0, x, c)
    <2> HIDE DEF own, x
    <2>1. CASE starts
      BY <1>5, <1>6, <2>1, CarriesOnly
    <2>2. CASE ~starts
      BY <1>5, <1>6, <2>2, CarriesOnly
    <2> QED
      BY <2>1, <2>2
  <1>8. out \in Sendings /\ Carries(out, 0, x, c)
    <2> HIDE DEF own, x
    <2> QED
      BY <1>5, <1>6, <1>7, CarriesRun
  <1>9. /\ queue \in Nets /\ net2 = After(queue, q, 0, out)
        /\ rec2 = received /\ st2 = started \cup {c} /\ asl2 = asleep
    BY <1>3 DEF TypeInv, Runs, NextStarted, Consumes, Of
  <1> HIDE DEF x, own, out, net2, rec2, st2, asl2, n
  <1>10. SameReds(queue, net2, c) /\ (~starts => SameCalls(queue, net2, c))
    BY ONLY <1>4, <1>5, <1>8, <1>9, Untouched, 0 \in PE, q \in PE, On(queue, q, 0) # <<>>,
            m = Foremost(queue, q, 0)
  <1>11. ASSUME starts, Hit(queue, 0, 0, Calls(c)) = 0
         PROVE  Hit(net2, 0, 0, Calls(c)) = 1 /\ Holds(net2, 0, 0) \cap Calls(c) \subseteq {x}
    BY ONLY <1>4, <1>5, <1>8, <1>9, <1>11, CallsMore, 0 \in PE, q \in PE, On(queue, q, 0) # <<>>,
            m = Foremost(queue, q, 0)
  <1>12. ASSUME NEW r \in PE
         PROVE  /\ Waiting(queue, r, c) \in Nat /\ Waiting(net2, r, c) \in Nat
                /\ r = q => Waiting(net2, r, c) + 1 = Waiting(queue, r, c)
                /\ r # q => Waiting(net2, r, c) = Waiting(queue, r, c)
    BY ONLY <1>4, <1>5, <1>8, <1>9, <1>12, WaitingLess, 0 \in PE, q \in PE, On(queue, q, 0) # <<>>,
            m = Foremost(queue, q, 0)
  <1>13. /\ used \subseteq PE /\ Due(h, Ran(h), c) = Cardinality(PE \ used)
         /\ \A r \in used : At(h, r) >= prod
         /\ \A r \in PE : Waiting(queue, r, c) = IF r \notin used /\ At(h, r) >= prod THEN 1 ELSE 0
    BY <1>1 DEF Spent
  <1>14. q \notin used /\ At(h, q) >= prod
    BY <1>12, <1>13
  <1>15. Spent(h2, c, prod, used2, net2)
    <2>1. Due(h2, n, c) = Cardinality(PE \ used2)
      <3>1. /\ PE \ used2 = (PE \ used) \ {q} /\ q \in PE \ used
            /\ IsFiniteSet(PE \ used)
        BY <1>14, FinitePEs, FS_Difference
      <3> DEFINE a == PE \ used
      <3> HIDE DEF a
      <3>2. Cardinality(a \ {q}) = Cardinality(a) - 1
        BY <3>1, FS_RemoveElement DEF a
      <3> QED
        BY <1>13, <3>1, <3>2 DEF a, n, Grows
    <2>2. prod \in 0 .. Ran(h2)
      BY <1>2 DEF Grows
    <2>3. \A r \in PE : At(h2, r) >= prod <=> At(h, r) >= prod
      BY <1>2, GrowsAt
    <2>4. ASSUME NEW r \in PE
          PROVE  Waiting(net2, r, c) = IF r \notin used2 /\ At(h2, r) >= prod THEN 1 ELSE 0
      <3>1. CASE r = q
        BY <1>12, <1>13, <1>14, <3>1
      <3>2. CASE r # q
        BY <1>12, <1>13, <2>3, <3>2
      <3> QED
        BY <3>1, <3>2
    <2> QED
      BY <1>13, <1>14, <2>1, <2>2, <2>3, <2>4 DEF Spent, n
  <1>16. /\ stage \notin {"idle", "begun", "over"}
         /\ ~(stage \in {"wave", "summed"} /\ Due(h, mark, c) = 0)
    BY <1>1, <1>14 DEF Staged, Quiet
  <1>17. Due(h2, mark, c) = Due(h, mark, c) /\ mark \in 0 .. Ran(h2)
    BY <1>2 DEF Grows, Extends
  <1>18. c \in Watch(h2, Ran(h2)) <=> stage \in {"wave", "summed"}
    BY <1>1 DEF Staged, Grows
  <1>19. Staged(h2, c, mark, fired, used2, stage2, net2, st2, asl2)
    <2>1. CASE starts
      <3>1. stage = "produced" /\ stage2 = "starting" /\ 0 \in fired /\ c \in asleep
        BY <1>1, <1>16, <2>1 DEF Staged, Stages
      <3>2. Hit(net2, 0, 0, Calls(c)) = 1 /\ Holds(net2, 0, 0) \cap Calls(c) \subseteq {x}
        BY <1>1, <1>11, <2>1, <3>1 DEF Staged
      <3>3. CallIn(x, "starting", Due(h2, mark, c))
        BY <2>1 DEF x, CallIn, Post
      <3> QED
        BY <1>9, <1>17, <1>18, <3>1, <3>2, <3>3 DEF Staged, Stages
    <2>2. CASE ~starts
      <3>1. stage2 = stage /\ stage # "produced" /\ c \in st2 /\ SameCalls(queue, net2, c)
        BY <1>1, <1>9, <1>10, <2>2 DEF Staged
      <3> HIDE DEF stage2
      <3>2. /\ Hit(net2, 0, 0, Calls(c)) = IF stage \in {"idle", "produced", "wave"} THEN 0 ELSE 1
            /\ \A k \in Holds(net2, 0, 0) \cap Calls(c) : CallIn(k, stage, Due(h2, mark, c))
        BY <1>1, <1>17, <3>1 DEF Staged, SameCalls
      <3> QED
        BY <1>1, <1>9, <1>16, <1>17, <1>18, <3>1, <3>2 DEF Staged
    <2> QED
      BY <2>1, <2>2
  <1>20. WaveOf(c, mark, fired, Due(h2, mark, c), h2, net2, rec2)
    BY <1>1, <1>2, <1>9, <1>10, WaveGrows
  <1>21. Pending(h2, c, mark, prod)
    BY <1>1, <1>2, <1>3, PendingGrows
  <1> HIDE DEF used2, stage2
  <1>22. Kept(c, h2, net2, rec2, st2, asl2)
    BY <1>15, <1>19, <1>20, <1>21 DEF Kept, OfCol
  <1> QED
    BY <1>22 DEF net2, rec2, st2, asl2

(* The root begins a wave *)
LEMMA RootMarks ==
    ASSUME TypeInv, 0 \in PE, On(queue, 0, 0) # <<>>,
           NEW m \in GroupMessage, m = Foremost(queue, 0, 0), m.kind = "post", Marks(m),
           Runs(0, 0, m), asleep' = asleep,
           NEW h, IsHistory(h), Past(h, queue, lcount, watched),
           NEW c \in Col, Of(m) = c, NEW h2, Grows(h, h2, c, m),
           NEW prod, NEW used, NEW mark, NEW fired, NEW stage,
           OfCol(c, h, prod, used, mark, fired, stage, queue, received, started, asleep)
    PROVE  Kept(c, h2, queue', received', started', asleep')
  <1> DEFINE tag == compress(c)
             n == Mine(0, c)
             sum == Sum(0, tag, n)
             full == Full(0, tag, n)
             x == IF full THEN Posted(sum) ELSE Copy(m)
             own == Own(0, m)
             out == RunOut(0, m, own)
             net2 == queue'
             st2 == started'
             asl2 == asleep'
             rec2 == received'
             mark2 == Ran(h2)
             v2 == Due(h, Ran(h), c)
             fired2 == IF full THEN {0} ELSE {}
             stage2 == IF full THEN "summed" ELSE "wave"
  <1>1. /\ Spent(h, c, prod, used, queue)
        /\ Staged(h, c, mark, fired, used, stage, queue, started, asleep)
        /\ WaveOf(c, mark, fired, Due(h, mark, c), h, queue, received)
        /\ Pending(h, c, mark, prod)
    BY DEF OfCol
  <1>2. /\ Ran(h) \in Nat /\ mark \in 0 .. Ran(h) /\ prod \in 0 .. Ran(h)
        /\ mark \in Nat /\ prod \in Nat /\ mark <= Ran(h) /\ prod <= Ran(h)
        /\ mark2 \in Nat /\ mark2 = Ran(h) + 1
    BY <1>1 DEF IsHistory, Spent, Staged, Grows
  <1>3. ~Produces(m) /\ ~Consumes(m) /\ ~Ends(m)
    BY Sorts
  <1>4. /\ m \in Calls(c) /\ m \notin Uses(c) /\ m \notin Reds(c)
        /\ Hit(queue, 0, 0, Calls(c)) = 1
        /\ stage \in {"starting", "summed"} /\ 0 \in fired /\ c \in asleep
        /\ Tells(m) => c \in Watch(h, Ran(h))
        /\ \A r \in PE : At(h, r) >= mark /\ Gathered(received, r, tag) = <<>>
    BY <1>3, RootCall
  <1>5. v2 \in Nat /\ v2 = Cardinality(PE \ used)
    BY <1>1, FinitePEs, FS_Difference, FS_CardinalityType DEF Spent
  <1>6. /\ Sound(n, c, v2) /\ Sound(sum, c, v2) /\ n \in CountMessage /\ sum \in CountMessage
        /\ tag \in Tags /\ full \in BOOLEAN
    <2>1. Sound(n, c, v2) /\ Sound(sum, c, v2)
      BY <1>4, <1>5, RootSound
    <2>2. n \in CountMessage /\ sum \in CountMessage
      BY OwnTo
    <2> QED
      BY <2>1, <2>2 DEF Tags, Full
  <1>7. /\ x \in Message /\ x \notin Uses(c) /\ x \notin Reds(c)
        /\ full => x \in Calls(c) /\ CallIn(x, "summed", v2)
        /\ ~full => x \notin Calls(c) /\ x \notin About(c)
    <2>1. /\ Posted(sum) \in Message /\ Posted(sum) \in Calls(c)
          /\ Posted(sum) \notin Uses(c) /\ Posted(sum) \notin Reds(c)
          /\ CallIn(Posted(sum), "summed", v2)
      <3>1. sum.target = c
        BY <1>6 DEF Sound
      <3>2. CallIn(Posted(sum), "summed", v2)
        BY <1>6 DEF Sound, CallIn, Posted, Tells
      <3> QED
        BY <1>6, <3>1, <3>2, MessagesAre, Kinds
    <2>2. Copy(m) \in Message /\ Copy(m) \notin About(c)
      BY MessagesAre, Kinds
    <2>3. Copy(m) \notin Uses(c) /\ Copy(m) \notin Reds(c) /\ Copy(m) \notin Calls(c)
      BY <2>2 DEF About
    <2> HIDE DEF full, sum, v2
    <2> QED
      BY <2>1, <2>2, <2>3
  <1>8. /\ own \in Sendings
        /\ full => own = OnlyTo(0, Posted(sum))
        /\ ~full => own = Nothing
    BY OwnTo, OwnIs
  <1>9. Carries(own, 0, x, c)
    <2>1. (full => own = OnlyTo(0, x)) /\ (~full => own = Nothing)
      BY <1>8
    <2> HIDE DEF own, x, full
    <2>2. CASE full
      BY <1>7, <2>1, <2>2, CarriesOnly
    <2>3. CASE ~full
      BY <1>7, <2>1, <2>3, CarriesOnly
    <2> QED
      BY <2>2, <2>3
  <1>10. out \in Sendings /\ Carries(out, 0, x, c)
    <2> HIDE DEF own, x
    <2> QED
      BY <1>7, <1>8, <1>9, CarriesRun
  <1>11. /\ queue \in Nets /\ net2 = After(queue, 0, 0, out) /\ received \in Reducers
         /\ st2 = started /\ asl2 = asleep /\ Reduce(0, tag, n)
    BY <1>3 DEF TypeInv, Runs, NextStarted, Produces, Consumes, Of
  <1>12. \A r \in PE, t \in Tags :
            rec2[r][t] = IF r = 0 /\ t = tag
                         THEN IF full THEN <<>> ELSE With(0, tag, n)
                         ELSE received[r][t]
    BY <1>6, <1>11, ReduceType
  <1>13. /\ \A r \in PE \ {0} : Gathered(rec2, r, tag) = Gathered(received, r, tag)
         /\ Gathered(rec2, 0, tag) = IF full THEN <<>> ELSE Append(Gathered(received, 0, tag), n)
    <2> HIDE DEF full, n, tag, rec2
    <2> QED
      BY <1>6, <1>12 DEF Gathered, With
  <1>14. full <=> Len(Gathered(received, 0, tag)) + 1 = expected(0)
    BY <1>6, SumIs DEF TypeInv, Full, Gathered
  <1> HIDE DEF tag, n, sum, full, x, own, out, net2, st2, asl2, rec2, mark2, v2
  <1>15. /\ SameReds(queue, net2, c) /\ SameWaiting(queue, net2, c)
    BY ONLY <1>4, <1>7, <1>10, <1>11, Untouched, 0 \in PE, On(queue, 0, 0) # <<>>,
            m = Foremost(queue, 0, 0)
  <1>16. /\ x \in Calls(c) => /\ Hit(net2, 0, 0, Calls(c)) = 1
                              /\ Holds(net2, 0, 0) \cap Calls(c) \subseteq {x}
         /\ x \notin Calls(c) => /\ Hit(net2, 0, 0, Calls(c)) = 0
                                 /\ Holds(net2, 0, 0) \cap Calls(c) = {}
    BY ONLY <1>4, <1>7, <1>10, <1>11, CallsTaken, 0 \in PE, On(queue, 0, 0) # <<>>,
            m = Foremost(queue, 0, 0)
  <1>17. WaveOf(c, mark2, {}, v2, h, queue, received)
    <2>1. \A r \in PE : ~(At(h, r) >= mark2)
      BY GrowsAt DEF mark2
    <2> QED
      BY <1>1, <1>4, <1>5, <1>11, <2>1, WaveRestart
  <1>18. /\ 0 \in PE \ {} /\ 0 \in Contributors(0)
         /\ 0 \notin Delivered(c, mark2, {}, h, queue, 0)
    <2>1. ~(At(h, 0) >= mark2)
      BY GrowsAt DEF mark2
    <2> QED
      BY <2>1 DEF Delivered, Contributors
  <1>19. Gathers(received, rec2, 0, compress(c), n, full)
    BY <1>13, <1>14 DEF tag, Gathers
  <1>20. Comes(h, h2, mark2, 0, 0)
    BY GrowsAt DEF mark2, Comes
  <1>21. Rises(queue, net2, c, v2, 0, 0, full)
    BY <1>15 DEF SameReds, Rises
  <1>22. (full => fired2 = {} \cup {0}) /\ (~full => fired2 = {})
    OBVIOUS
  <1>23. WaveOf(c, mark2, fired2, v2, h2, net2, rec2)
    <2> HIDE DEF fired2
    <2> QED
      BY <1>6, <1>11, <1>17, <1>18, <1>19, <1>20, <1>21, <1>22, Arrival
  <1>24. Due(h2, mark2, c) = v2
    BY DEF Grows, mark2, v2
  <1>25. Spent(h2, c, prod, used, net2)
    <2>1. prod \in 0 .. Ran(h2) /\ Due(h2, Ran(h2), c) = Cardinality(PE \ used)
      BY <1>2, <1>5, <1>24 DEF mark2
    <2>2. \A r \in PE : At(h2, r) >= prod <=> At(h, r) >= prod
      BY <1>2, GrowsAt
    <2> QED
      BY <1>1, <1>15, <2>1, <2>2 DEF Spent, SameWaiting
  <1>26. Staged(h2, c, mark2, fired2, used, stage2, net2, st2, asl2)
    <2>1. mark2 \in 0 .. Ran(h2) /\ stage2 \in {"wave", "summed"}
      BY <1>2 DEF mark2
    <2>2. c \in Watch(h2, Ran(h2))
      BY <1>4 DEF Grows
    <2>3. c \in st2 /\ c \in asl2
      BY <1>1, <1>4, <1>11 DEF Staged
    <2>4. Due(h2, mark2, c) = 0 => Quiet(h2, c, mark2, used)
      <3> SUFFICES ASSUME Due(h2, mark2, c) = 0
                   PROVE  Quiet(h2, c, mark2, used)
        OBVIOUS
      <3>1. PE \ used = {}
        BY <1>5, <1>24, FinitePEs, FS_Difference, FS_EmptySet
      <3>2. used = PE
        BY <1>1, <3>1 DEF Spent
      <3>3. mark2 = Ran(h2) /\ \A j \in mark2 .. Ran(h2) : j = mark2
        BY <1>2 DEF mark2
      <3>4. (mark2 + 1) .. Ran(h2) = {}
        BY <1>2 DEF mark2
      <3> QED
        BY <3>2, <3>3, <3>4 DEF Quiet
    <2>5. CASE full
      <3>1. stage2 = "summed" /\ 0 \in fired2
        BY <2>5
      <3> HIDE DEF stage2, fired2
      <3>2. /\ Hit(net2, 0, 0, Calls(c)) = 1
            /\ \A k \in Holds(net2, 0, 0) \cap Calls(c) : CallIn(k, "summed", Due(h2, mark2, c))
        BY <1>7, <1>16, <1>24, <2>5
      <3> QED
        BY <2>1, <2>2, <2>3, <2>4, <3>1, <3>2 DEF Staged, Stages
    <2>6. CASE ~full
      <3>1. stage2 = "wave" /\ 0 \notin fired2
        BY <2>6
      <3> HIDE DEF stage2, fired2
      <3>2. Hit(net2, 0, 0, Calls(c)) = 0 /\ Holds(net2, 0, 0) \cap Calls(c) = {}
        BY <1>7, <1>16, <2>6
      <3> QED
        BY <2>1, <2>2, <2>3, <2>4, <3>1, <3>2 DEF Staged, Stages
    <2> QED
      BY <2>5, <2>6
  <1>27. Pending(h2, c, mark2, prod)
    BY <1>1, <1>2, <1>3, <1>4, PendingGrows DEF mark2
  <1> HIDE DEF fired2, stage2
  <1>28. Kept(c, h2, net2, rec2, st2, asl2)
    BY <1>23, <1>24, <1>25, <1>26, <1>27 DEF Kept, OfCol
  <1> QED
    BY <1>28 DEF net2, rec2, st2, asl2

(* The root learns that all has been consumed *)
LEMMA RootEnds ==
    ASSUME TypeInv, 0 \in PE, On(queue, 0, 0) # <<>>,
           NEW m \in GroupMessage, m = Foremost(queue, 0, 0), m.kind = "post", Ends(m),
           Runs(0, 0, m), asleep' = asleep,
           NEW h, IsHistory(h), Past(h, queue, lcount, watched),
           NEW c \in Col, Of(m) = c, NEW h2, Grows(h, h2, c, m),
           NEW prod, NEW used, NEW mark, NEW fired, NEW stage,
           OfCol(c, h, prod, used, mark, fired, stage, queue, received, started, asleep)
    PROVE  Kept(c, h2, queue', received', started', asleep')
  <1> DEFINE x == Resume(c)
             own == Own(0, m)
             out == RunOut(0, m, own)
             net2 == queue'
             st2 == started'
             asl2 == asleep'
             rec2 == received'
  <1>1. /\ Spent(h, c, prod, used, queue)
        /\ Staged(h, c, mark, fired, used, stage, queue, started, asleep)
        /\ WaveOf(c, mark, fired, Due(h, mark, c), h, queue, received)
        /\ Pending(h, c, mark, prod)
    BY DEF OfCol
  <1>2. /\ Ran(h) \in Nat /\ mark \in 0 .. Ran(h) /\ prod \in 0 .. Ran(h)
        /\ mark \in Nat /\ prod \in Nat /\ mark <= Ran(h) /\ prod <= Ran(h)
        /\ Ran(h2) = Ran(h) + 1
    BY <1>1 DEF IsHistory, Spent, Staged, Grows
  <1>3. ~Produces(m) /\ ~Consumes(m) /\ ~Marks(m) /\ Tells(m)
    BY Sorts
  <1>4. /\ m \in Calls(c) /\ m \notin Uses(c) /\ m \notin Reds(c)
        /\ Hit(queue, 0, 0, Calls(c)) = 1
        /\ stage = "summed" /\ 0 \in fired /\ c \in asleep
        /\ c \in Watch(h, Ran(h))
        /\ \A r \in PE : At(h, r) >= mark
        /\ Quiet(h, c, mark, used)
    BY <1>3, RootCall
  <1>5. /\ x \in Message /\ x \in Calls(c) /\ x \notin Reds(c) /\ x \notin Uses(c)
    BY MessagesAre, Kinds
  <1>6. own = OnlyTo(0, x) /\ own \in Sendings
    BY OwnTo, OwnIs
  <1>7. Carries(own, 0, x, c)
    BY <1>5, <1>6, CarriesOnly
  <1>8. out \in Sendings /\ Carries(out, 0, x, c)
    <2> HIDE DEF own, x
    <2> QED
      BY <1>5, <1>6, <1>7, CarriesRun
  <1>9. /\ queue \in Nets /\ net2 = After(queue, 0, 0, out)
        /\ rec2 = received /\ st2 = started /\ asl2 = asleep
    BY <1>3 DEF TypeInv, Runs, NextStarted, Produces, Consumes
  <1>10. CallIn(x, "over", 0) /\ \A v : CallIn(x, "over", v)
    BY DEF CallIn, Resume
  <1> HIDE DEF x, own, out, net2, rec2, st2, asl2
  <1>11. SameReds(queue, net2, c) /\ SameWaiting(queue, net2, c)
    BY ONLY <1>4, <1>5, <1>8, <1>9, Untouched, 0 \in PE, On(queue, 0, 0) # <<>>,
            m = Foremost(queue, 0, 0)
  <1>12. Hit(net2, 0, 0, Calls(c)) = 1 /\ Holds(net2, 0, 0) \cap Calls(c) \subseteq {x}
    BY ONLY <1>4, <1>5, <1>8, <1>9, CallsTaken, 0 \in PE, On(queue, 0, 0) # <<>>,
            m = Foremost(queue, 0, 0)
  <1>13. /\ used = PE /\ \A j \in mark .. Ran(h) : Due(h, j, c) = 0
         /\ \A j \in (mark + 1) .. Ran(h) : Of(Entry(h, j)) = c => Ends(Entry(h, j))
    BY <1>4 DEF Quiet
  <1>14. Due(h2, Ran(h2), c) = 0
    BY DEF Grows
  <1>15. Quiet(h2, c, mark, used)
    <2>1. ASSUME NEW j \in mark .. Ran(h2)
          PROVE  Due(h2, j, c) = 0
      <3>1. j = Ran(h2) \/ (j \in mark .. Ran(h) /\ j \in 0 .. Ran(h))
        BY <1>2
      <3> QED
        BY <1>13, <1>14, <3>1 DEF Grows, Extends
    <2>2. ASSUME NEW j \in (mark + 1) .. Ran(h2), Of(Entry(h2, j)) = c
          PROVE  Ends(Entry(h2, j))
      <3>1. j = Ran(h2) \/ (j \in (mark + 1) .. Ran(h) /\ j \in 1 .. Ran(h))
        BY <1>2
      <3> QED
        BY <1>13, <2>2, <3>1 DEF Grows, Extends
    <2> QED
      BY <1>13, <2>1, <2>2 DEF Quiet
  <1>16. Spent(h2, c, prod, used, net2)
    <2>1. Due(h, Ran(h), c) = 0
      BY <1>2, <1>13
    <2>2. prod \in 0 .. Ran(h2) /\ Due(h2, Ran(h2), c) = Cardinality(PE \ used)
      BY <1>1, <1>2, <1>14, <2>1 DEF Spent
    <2>3. \A r \in PE : At(h2, r) >= prod <=> At(h, r) >= prod
      BY <1>2, GrowsAt
    <2> QED
      BY <1>1, <1>11, <2>2, <2>3 DEF Spent, SameWaiting
  <1>17. Staged(h2, c, mark, fired, used, "over", net2, st2, asl2)
    <2>1. mark \in 0 .. Ran(h2) /\ c \notin Watch(h2, Ran(h2))
      BY <1>2 DEF Grows
    <2>2. c \in st2 /\ c \in asl2
      BY <1>1, <1>4, <1>9 DEF Staged
    <2> QED
      BY <1>4, <1>10, <1>12, <1>15, <2>1, <2>2 DEF Staged, Stages
  <1>18. WaveOf(c, mark, fired, Due(h2, mark, c), h2, net2, rec2)
    BY <1>1, <1>2, <1>9, <1>11, WaveGrows
  <1>19. Pending(h2, c, mark, prod)
    <2>1. mark \in 0 .. Ran(h)
      BY <1>2
    <2>2. \E i \in 0 .. Ran(h) : /\ \A p \in PE : At(h, p) >= i
                                 /\ \A k \in i .. Ran(h) : Due(h, k, c) = 0
      BY <1>4, <1>13, <2>1
    <2> QED
      BY <1>1, <1>2, <1>3, <1>4, <2>2, PendingGrows
  <1>20. Kept(c, h2, net2, rec2, st2, asl2)
    BY <1>16, <1>17, <1>18, <1>19 DEF Kept, OfCol
  <1> QED
    BY <1>20 DEF net2, rec2, st2, asl2

-----------------------------------------------------------------------------
(* Every step keeps what the proof needs *)

KeptAll(h, net, rec, st, asl) == \A c \in Col : Kept(c, h, net, rec, st, asl)

(* The root runs what has come to it *)
LEMMA RootRuns ==
    ASSUME TypeInv, DistinctTags, Routed(queue), fault = {}, 0 \in PE,
           NEW h, IsHistory(h), Past(h, queue, lcount, watched),
           KeptAll(h, queue, received, started, asleep),
           NEW q \in PE, On(queue, q, 0) # <<>>,
           NEW m \in GroupMessage, m = Foremost(queue, q, 0),
           Runs(q, 0, m), asleep' = asleep
    PROVE  /\ fault' = {} /\ Routed(queue')
           /\ \E h2 : /\ IsHistory(h2) /\ Past(h2, queue', lcount', watched')
                      /\ KeptAll(h2, queue', received', started', asleep')
  <1> DEFINE c == Of(m)
             h2 == Grown(h, Copy(m))
  <1>1. m.kind = "post" /\ (Consumes(m) \/ q = 0)
    <2>1. MayGo(q, 0, m)
      BY BehindIs DEF TypeInv, Routed
    <2>2. 0 \notin span_tree_children(q)
      BY TreeIs
    <2> QED
      BY <2>1, <2>2 DEF MayGo, GroupMessage, Consumes
  <1>2. c \in Col
    BY Sorts
  <1>3. PICK prod, used, mark, fired, stage :
           OfCol(c, h, prod, used, mark, fired, stage, queue, received, started, asleep)
    BY <1>2 DEF KeptAll, Kept
  <1> HIDE DEF c
  <1>4. /\ ~Bad(0, m)
        /\ Marks(m) => Sum(0, compress(c), Mine(0, c)).target = c
    <2>1. CASE Consumes(m)
      <3>1. ~Marks(m) /\ ~Tells(m)
        BY <2>1, Sorts
      <3> QED
        BY <3>1 DEF Bad, Tells
    <2>2. CASE ~Consumes(m)
      <3>1. q = 0
        BY <1>1, <2>2
      <3>2. /\ Tells(m) => c \in Watch(h, Ran(h))
            /\ \A r \in PE : Gathered(received, r, compress(c)) = <<>>
        BY <1>1, <1>2, <1>3, <2>2, <3>1, RootCall DEF c
      <3>3. Due(h, Ran(h), c) \in Nat
        BY <1>3, FinitePEs, FS_Difference, FS_CardinalityType DEF OfCol, Spent
      <3>4. Sound(Sum(0, compress(c), Mine(0, c)), c, Due(h, Ran(h), c)) /\ ~Bad(0, m)
        BY <1>2, <3>2, <3>3, RootSound DEF c
      <3> QED
        BY <3>4 DEF Sound
    <2> QED
      BY <2>1, <2>2
  <1>5. fault' = {}
    BY <1>4 DEF Runs
  <1>6. Routed(queue')
    BY <1>4, RunsRouted DEF c
  <1>7. IsHistory(h2) /\ Past(h2, queue', lcount', watched')
    BY <1>4, RunsGrown DEF c
  <1>8. ASSUME NEW d \in Col, d # c
        PROVE  Kept(d, h2, queue', received', started', asleep')
    <2>1. Copy(m) \in GroupMessage /\ Of(Copy(m)) # d
      BY <1>8, MessagesAre, Sorts DEF c
    <2>2. \A a \in 0 .. Ran(h), b \in 0 .. Ran(h) : Later(h, h2, d, a, b)
      BY <2>1, GrownLater
    <2>3. Kept(d, h, queue, received, started, asleep)
      BY DEF KeptAll
    <2> HIDE DEF h2
    <2> QED
      BY <1>4, <1>8, <2>2, <2>3, RunsOther DEF c
  <1>9. Grows(h, h2, c, m)
    BY <1>2, GrownGrows DEF c
  <1> HIDE DEF h2
  <1>10. Kept(c, h2, queue', received', started', asleep')
    <2>1. CASE Consumes(m)
      BY <1>1, <1>2, <1>3, <1>9, <2>1, RootConsumes DEF c
    <2>2. ASSUME ~Consumes(m)
          PROVE  q = 0 /\ On(queue, 0, 0) # <<>> /\ m = Foremost(queue, 0, 0) /\ Runs(0, 0, m)
      BY <1>1, <2>2
    <2>3. CASE Produces(m)
      BY <1>1, <1>2, <1>3, <1>9, <2>2, <2>3, Sorts, RootProduces DEF c
    <2>4. CASE Marks(m)
      BY <1>1, <1>2, <1>3, <1>9, <2>2, <2>4, Sorts, RootMarks DEF c
    <2>5. CASE Ends(m)
      BY <1>1, <1>2, <1>3, <1>9, <2>2, <2>5, Sorts, RootEnds DEF c
    <2> QED
      BY <2>1, <2>3, <2>4, <2>5, Sorts
  <1> QED
    BY <1>5, <1>6, <1>7, <1>8, <1>10 DEF KeptAll

(* What comes to p from its parent is what the root ran next *)
LEMMA CopyNext ==
    ASSUME TypeInv, Routed(queue), NEW q \in PE, NEW p \in PE, On(queue, q, p) # <<>>,
           NEW m, m = Foremost(queue, q, p), m.kind = "copy",
           NEW h, IsHistory(h), Past(h, queue, lcount, watched)
    PROVE  /\ p # 0 /\ At(h, p) + 1 \in 1 .. Ran(h) /\ m = Entry(h, At(h, p) + 1)
  <1>1. p \in span_tree_children(q)
    <2>1. MayGo(q, p, m)
      BY BehindIs DEF TypeInv, Routed
    <2> QED
      BY <2>1 DEF MayGo
  <1>2. p # 0 /\ q = span_tree_parent(p)
    BY <1>1, TreeIs
  <1> DEFINE s == On(queue, q, p)
             i == At(h, p)
             j == At(h, q)
  <1>3. s \in Seq(Message) /\ s # <<>>
    BY NoneOn DEF TypeInv
  <1>4. i \in Nat /\ j \in Nat /\ j <= Ran(h) /\ Ran(h) \in Nat
    BY DEF IsHistory
  <1>5. Between(s, h, i, j)
    BY <1>2 DEF Past
  <1>6. m = Head(s)
    BY DEF Foremost
  <1> HIDE DEF s, i, j
  <1>7. i + 1 <= j /\ m = Entry(h, i + 1)
    BY <1>3, <1>4, <1>5, <1>6, BetweenTail
  <1>8. i + 1 \in 1 .. Ran(h)
    BY <1>4, <1>7
  <1> QED
    BY <1>2, <1>7, <1>8 DEF i

(* Another PE runs the copy that has come to it *)
LEMMA CopyRuns ==
    ASSUME TypeInv, DistinctTags, Routed(queue), fault = {},
           NEW h, IsHistory(h), Past(h, queue, lcount, watched),
           KeptAll(h, queue, received, started, asleep),
           NEW q \in PE, NEW p \in PE, On(queue, q, p) # <<>>,
           NEW m \in GroupMessage, m = Foremost(queue, q, p), m.kind = "copy",
           Runs(q, p, m), asleep' = asleep
    PROVE  /\ fault' = {} /\ Routed(queue')
           /\ \E h2 : /\ IsHistory(h2) /\ Past(h2, queue', lcount', watched')
                      /\ KeptAll(h2, queue', received', started', asleep')
  <1> DEFINE c == Of(m)
             h2 == Moved(h, p)
  <1>1. p \in PE \ {0} /\ At(h, p) + 1 \in 1 .. Ran(h) /\ m = Entry(h, At(h, p) + 1)
    BY CopyNext
  <1>2. c \in Col
    BY Sorts
  <1>3. PICK prod, used, mark, fired, stage :
           OfCol(c, h, prod, used, mark, fired, stage, queue, received, started, asleep)
    BY <1>2 DEF KeptAll, Kept
  <1> HIDE DEF c
  <1>4. /\ ~Bad(p, m)
        /\ Marks(m) => Sum(p, compress(c), Mine(p, c)).target = c
    <2>1. /\ Marks(m) => Sound(Sum(p, compress(c), Mine(p, c)), c, Due(h, mark, c))
          /\ ~Bad(p, m)
      BY <1>1, <1>2, <1>3, CopySound DEF c
    <2> QED
      BY <2>1 DEF Sound
  <1>5. fault' = {}
    BY <1>4 DEF Runs
  <1>6. Routed(queue')
    BY <1>4, RunsRouted DEF c
  <1>7. IsHistory(h2) /\ Past(h2, queue', lcount', watched')
    BY <1>4, RunsMoved DEF c
  <1>8. ASSUME NEW d \in Col, d # c
        PROVE  Kept(d, h2, queue', received', started', asleep')
    <2>1. Of(Entry(h, At(h, p) + 1)) # d
      BY <1>1, <1>8 DEF c
    <2>2. \A a \in 0 .. Ran(h), b \in 0 .. Ran(h) :
             /\ a > 0 => Of(Entry(h, a)) = d
             /\ b > 0 => Of(Entry(h, b)) = d
             => Later(h, h2, d, a, b)
      BY <1>1, <2>1, MovedOther
    <2>3. Kept(d, h, queue, received, started, asleep)
      BY DEF KeptAll
    <2> HIDE DEF h2
    <2> QED
      BY <1>4, <1>8, <2>2, <2>3, RunsOther DEF c
  <1>9. Kept(c, h2, queue', received', started', asleep')
    <2>1. CASE Produces(m)
      BY <1>1, <1>2, <1>3, <2>1, CopyProduces DEF c, Kept
    <2>2. CASE Consumes(m) \/ Ends(m)
      BY <1>1, <1>2, <1>3, <2>2, CopyPlain DEF c, Kept
    <2>3. CASE Marks(m)
      BY <1>1, <1>2, <1>3, <2>3, CopyMarks DEF c
    <2> QED
      BY <2>1, <2>2, <2>3, Sorts
  <1> HIDE DEF h2
  <1> QED
    BY <1>5, <1>6, <1>7, <1>8, <1>9 DEF KeptAll

(* A step in which p sends on what it has got, or answers it *)
LEMMA SingleGoes ==
    ASSUME NEW p \in PE, NEW out, NEW c \in Col,
           out = Nothing \/ \E s, x : out = OnlyTo(s, x) /\ Fits(p, s, x, c),
           NEW s \in PE
    PROVE  /\ out \in Sendings
           /\ \A x \in Sends(out, s) : MayGo(p, s, x)
           /\ s \in span_tree_children(p) => To(out, s) = <<>>
           /\ \A d \in Col : d # c => Sends(out, s) \cap About(d) = {}
  <1>1. CASE out = Nothing
    <2>1. Nothing \in Sendings /\ To(Nothing, s) = <<>> /\ Sends(Nothing, s) = {}
      BY OnlyToIs DEF Nothing, Sendings, To, Sends, ToSet
    <2> QED
      BY <1>1, <2>1
  <1>2. ASSUME NEW t, NEW x, out = OnlyTo(t, x), Fits(p, t, x, c)
        PROVE  /\ out \in Sendings
               /\ \A y \in Sends(out, s) : MayGo(p, s, y)
               /\ s \in span_tree_children(p) => To(out, s) = <<>>
               /\ \A d \in Col : d # c => Sends(out, s) \cap About(d) = {}
    <2>1. /\ t \in PE /\ x \in Message /\ t \notin span_tree_children(p) /\ MayGo(p, t, x)
          /\ \A d \in Col : d # c => x \notin About(d)
      BY <1>2 DEF Fits
    <2>2. /\ OnlyTo(t, x) \in Sendings
          /\ s = t => Sends(OnlyTo(t, x), s) = {x}
          /\ s # t => To(OnlyTo(t, x), s) = <<>> /\ Sends(OnlyTo(t, x), s) = {}
      BY <2>1, SingleIs
    <2>3. CASE s = t
      BY <1>2, <2>1, <2>2, <2>3
    <2>4. CASE s # t
      BY <1>2, <2>1, <2>2, <2>4
    <2> QED
      BY <2>3, <2>4
  <1> QED
    BY <1>1, <1>2

LEMMA PastKept ==
    ASSUME NEW h, NEW net, NEW lc, NEW wd, Past(h, net, lc, wd), NEW net2,
           \A s \in PE \ {0} : On(net2, span_tree_parent(s), s) = On(net, span_tree_parent(s), s)
    PROVE  Past(h, net2, lc, wd)
  BY DEF Past

LEMMA JoinedNone ==
    ASSUME NEW s \in Seq(Message)
    PROVE  Joined(s, <<>>) = s
  BY ConcatEmptySeq DEF Joined

LEMMA SingleRuns ==
    ASSUME TypeInv, Routed(queue), NEW h, Past(h, queue, lcount, watched),
           NEW q \in PE, NEW p \in PE, On(queue, q, p) # <<>>,
           p # 0 => q # span_tree_parent(p),
           NEW out, NEW c \in Col,
           out = Nothing \/ \E s, x : out = OnlyTo(s, x) /\ Fits(p, s, x, c),
           queue' = After(queue, q, p, out), lcount' = lcount, watched' = watched
    PROVE  Routed(queue') /\ Past(h, queue', lcount', watched')
  <1>1. /\ out \in Sendings
        /\ \A s \in PE : \A x \in Sends(out, s) : MayGo(p, s, x)
        /\ \A s \in PE : s \in span_tree_children(p) => To(out, s) = <<>>
    BY SingleGoes, FinitePEs
  <1>2. queue \in Nets
    BY DEF TypeInv
  <1>3. Routed(queue')
    BY <1>1, <1>2, RoutedAfter
  <1>4. ASSUME NEW s \in PE \ {0}
        PROVE  On(queue', span_tree_parent(s), s) = On(queue, span_tree_parent(s), s)
    <2> DEFINE r == span_tree_parent(s)
    <2>1. r \in PE /\ r # s /\ s \in span_tree_children(r)
      BY TreeIs
    <2>2. ~(r = q /\ s = p)
      OBVIOUS
    <2> HIDE DEF r
    <2>3. ASSUME r # p
          PROVE  On(queue', r, s) = On(queue, r, s)
      BY <1>1, <1>2, <2>1, <2>2, <2>3, AfterOn
    <2>4. ASSUME r = p
          PROVE  On(queue', r, s) = On(queue, r, s)
      <3>1. To(out, s) = <<>> /\ s # p
        BY <1>1, <2>1, <2>4
      <3>2. On(queue', r, s) = Joined(On(queue, r, s), To(out, s))
        BY <1>1, <1>2, <2>1, <2>4, <3>1, AfterOn
      <3>3. On(queue, r, s) \in Seq(Message)
        BY <1>2, <2>1, NoneOn
      <3> DEFINE a == On(queue, r, s)
      <3> HIDE DEF a
      <3>4. Joined(a, <<>>) = a
        BY <3>3, JoinedNone DEF a
      <3> QED
        BY <3>1, <3>2, <3>4 DEF a
    <2> QED
      BY <2>3, <2>4 DEF r
  <1>5. Past(h, queue', lcount, watched)
    BY <1>4, PastKept
  <1> QED
    BY <1>3, <1>5

LEMMA SingleOther ==
    ASSUME TypeInv, NEW h, IsHistory(h),
           NEW q \in PE, NEW p \in PE, On(queue, q, p) # <<>>,
           NEW out, NEW c \in Col,
           out = Nothing \/ \E s, x : out = OnlyTo(s, x) /\ Fits(p, s, x, c),
           queue' = After(queue, q, p, out),
           NEW d \in Col, d # c, Foremost(queue, q, p) \notin About(d),
           \A r \in PE : Gathered(received', r, compress(d)) = Gathered(received, r, compress(d)),
           d \in started' <=> d \in started, d \in asleep' <=> d \in asleep,
           Kept(d, h, queue, received, started, asleep)
    PROVE  Kept(d, h, queue', received', started', asleep')
  <1> DEFINE net2 == queue'
             rec2 == received'
             st2 == started'
             asl2 == asleep'
  <1>1. /\ out \in Sendings
        /\ \A s \in PE : Sends(out, s) \cap About(d) = {}
    BY SingleGoes, FinitePEs
  <1>2. Unheard(queue, net2, d)
    BY <1>1, UnheardStep DEF TypeInv
  <1>3. \A a, b : Later(h, h, d, a, b)
    BY SameLater
  <1> HIDE DEF net2, rec2, st2, asl2
  <1>4. /\ \A r \in PE : Gathered(rec2, r, compress(d)) = Gathered(received, r, compress(d))
        /\ d \in st2 <=> d \in started
        /\ d \in asl2 <=> d \in asleep
    BY DEF rec2, st2, asl2
  <1>5. Kept(d, h, net2, rec2, st2, asl2)
    BY <1>2, <1>3, <1>4, KeptLater
  <1> QED
    BY <1>5 DEF net2, rec2, st2, asl2

(* A PE sends on to the root the message that is to consume an event *)
LEMMA Forwarded ==
    ASSUME TypeInv, Routed(queue), NEW h, IsHistory(h), Past(h, queue, lcount, watched),
           KeptAll(h, queue, received, started, asleep),
           NEW q \in PE, NEW p \in PE \ {0}, On(queue, q, p) # <<>>,
           NEW m \in GroupMessage, m = Foremost(queue, q, p), m.kind = "post",
           queue' = After(queue, q, p, OnlyTo(0, m)),
           UNCHANGED <<lcount, watched, received, started, asleep>>
    PROVE  /\ Routed(queue') /\ Past(h, queue', lcount', watched')
           /\ KeptAll(h, queue', received', started', asleep')
  <1> DEFINE c == Of(m)
             out == OnlyTo(0, m)
  <1>1. q = p /\ Consumes(m)
    <2>1. MayGo(q, p, m)
      BY BehindIs DEF TypeInv, Routed
    <2> QED
      BY <2>1 DEF MayGo, Consumes
  <1>2. /\ c \in Col /\ m \in Message /\ m \in Uses(c) /\ m \notin Reds(c) /\ m \notin Calls(c)
        /\ \A d \in Col : d # c => m \notin About(d)
    BY <1>1, MessagesAre, Kinds, Sorts DEF Of, Uses, Calls, Consumes
  <1>3. 0 \in PE /\ p \in PE /\ p # span_tree_parent(p)
    BY FinitePEs, TreeIs
  <1>4. Fits(p, 0, m, c)
    BY <1>1, <1>2, <1>3, TreeIs DEF Fits, MayGo, Consumes
  <1>5. Carries(out, 0, m, c) /\ out \in Sendings
    BY <1>2, <1>3, CarriesOnly
  <1>6. out = OnlyTo(0, m)
    OBVIOUS
  <1> HIDE DEF c, out
  <1>7. Routed(queue') /\ Past(h, queue', lcount', watched')
    BY <1>1, <1>2, <1>3, <1>4, <1>6, SingleRuns
  <1>8. ASSUME NEW d \in Col, d # c
        PROVE  Kept(d, h, queue', received', started', asleep')
    <2>1. m \notin About(d) /\ Kept(d, h, queue, received, started, asleep)
      BY <1>2, <1>8 DEF KeptAll
    <2> QED
      BY <1>2, <1>3, <1>4, <1>6, <1>8, <2>1, SingleOther
  <1>9. Kept(c, h, queue', received', started', asleep')
    <2> DEFINE net2 == queue'
    <2>1. /\ queue \in Nets /\ net2 = After(queue, p, p, out) /\ On(queue, p, p) # <<>>
          /\ m = Foremost(queue, p, p)
      BY <1>1, <1>6 DEF TypeInv
    <2> HIDE DEF net2
    <2>2. SameWaiting(queue, net2, c)
      BY ONLY <1>5, <2>1, p \in PE \ {0}, WaitingSent
    <2>3. SameReds(queue, net2, c) /\ SameCalls(queue, net2, c)
      BY ONLY <1>2, <1>3, <1>5, <2>1, Untouched
    <2>4. Unheard(queue, net2, c)
      BY <2>2, <2>3, UnheardParts
    <2>5. Kept(c, h, queue, received, started, asleep) /\ \A a, b : Later(h, h, c, a, b)
      BY <1>2, SameLater DEF KeptAll
    <2>6. Kept(c, h, net2, received, started, asleep)
      BY <1>2, <2>4, <2>5, KeptLater
    <2> QED
      BY <2>6 DEF net2
  <1> QED
    BY <1>7, <1>8, <1>9 DEF KeptAll

LEMMA EmitNothing ==
    ASSUME NEW net \in Nets, NEW p \in PE
    PROVE  Emit(net, p, Nothing) = net
  <1> DEFINE new == Emit(net, p, Nothing)
  <1>1. ASSUME NEW r \in PE, NEW s \in PE
        PROVE  On(new, r, s) = On(net, r, s)
    <2>1. Nothing \in Sendings /\ To(Nothing, s) = <<>>
      BY DEF Nothing, Sendings, To
    <2>2. On(net, r, s) \in Seq(Message)
      BY NoneOn
    <2> DEFINE a == On(net, r, s)
    <2> HIDE DEF a
    <2>3. Joined(a, <<>>) = a
      BY <2>2, JoinedNone DEF a
    <2> HIDE DEF new
    <2>4. /\ r = p => On(new, r, s) = Joined(a, To(Nothing, s))
          /\ r # p => On(new, r, s) = a
      BY <2>1, EmitOn DEF new, a
    <2>5. On(new, r, s) = a
      BY <2>1, <2>3, <2>4
    <2> QED
      BY <2>5 DEF a
  <1>2. new = [r \in PE |-> [s \in PE |-> On(new, r, s)]]
    BY DEF Emit, Nets, On
  <1>3. net = [r \in PE |-> [s \in PE |-> On(net, r, s)]]
    BY DEF Nets, On
  <1> HIDE DEF new
  <1>4. new = net
    BY <1>1, <1>2, <1>3
  <1> QED
    BY <1>4 DEF new

(* The thread goes on after a round *)
LEMMA Resumed ==
    ASSUME TypeInv, Routed(queue), NEW h, IsHistory(h), Past(h, queue, lcount, watched),
           KeptAll(h, queue, received, started, asleep),
           NEW q \in PE, NEW p \in PE, On(queue, q, p) # <<>>,
           NEW m \in Message, m = Foremost(queue, q, p), m.kind = "resume",
           queue' = Behind(queue, q, p), asleep' = asleep \ {Of(m)},
           UNCHANGED <<lcount, watched, received, started>>
    PROVE  /\ Routed(queue') /\ Past(h, queue', lcount', watched')
           /\ KeptAll(h, queue', received', started', asleep')
  <1> DEFINE c == Of(m)
             net2 == queue'
             asl2 == asleep'
  <1>1. p = 0 /\ q = 0
    <2>1. MayGo(q, p, m)
      BY BehindIs DEF TypeInv, Routed
    <2> QED
      BY <2>1 DEF MayGo
  <1>2. /\ c \in Col /\ m \in Calls(c) /\ m \notin Uses(c) /\ m \notin Reds(c)
        /\ \A d \in Col : d # c => m \notin About(d)
    BY MessageIs DEF Of, Calls, Uses, Reds, About
  <1>3. 0 \in PE /\ queue \in Nets /\ On(queue, 0, 0) # <<>> /\ m = Foremost(queue, 0, 0)
    BY <1>1, FinitePEs DEF TypeInv
  <1>4. net2 = After(queue, 0, 0, Nothing)
    BY <1>1, <1>3, BehindIs, EmitNothing DEF After
  <1>5. asl2 = asleep \ {c}
    OBVIOUS
  <1>6. ASSUME NEW d \in Col, d # c
        PROVE  Kept(d, h, queue', received', started', asleep')
    <2>1. m \notin About(d) /\ Kept(d, h, queue, received, started, asleep)
      BY <1>2, <1>6 DEF KeptAll
    <2>2. Nothing = Nothing \/ \E s, x : Nothing = OnlyTo(s, x) /\ Fits(p, s, x, c)
      OBVIOUS
    <2>3. /\ d \in asleep' <=> d \in asleep
          /\ d \in started' <=> d \in started
          /\ \A r \in PE : Gathered(received', r, compress(d)) = Gathered(received, r, compress(d))
          /\ queue' = After(queue, q, p, Nothing) /\ d # c
      BY <1>1, <1>4, <1>6
    <2> HIDE DEF c
    <2> QED
      BY ONLY <1>2, <2>1, <2>2, <2>3, SingleOther, TypeInv, IsHistory(h), q \in PE, p \in PE,
              On(queue, q, p) # <<>>, m = Foremost(queue, q, p), d \in Col
  <1>7. Routed(queue') /\ Past(h, queue', lcount', watched')
    <2>1. Nothing = Nothing \/ \E s, x : Nothing = OnlyTo(s, x) /\ Fits(p, s, x, c)
      OBVIOUS
    <2> HIDE DEF c
    <2> QED
      BY <1>1, <1>2, <1>3, <1>4, <2>1, SingleRuns
  <1> HIDE DEF c, net2, asl2
  <1>8. PICK prod, used, mark, fired, stage :
           OfCol(c, h, prod, used, mark, fired, stage, queue, received, started, asleep)
    BY <1>2 DEF KeptAll, Kept
  <1>9. /\ Spent(h, c, prod, used, queue)
        /\ Staged(h, c, mark, fired, used, stage, queue, started, asleep)
        /\ WaveOf(c, mark, fired, Due(h, mark, c), h, queue, received)
        /\ Pending(h, c, mark, prod)
    BY <1>8 DEF OfCol
  <1>10. stage = "over" /\ Hit(queue, 0, 0, Calls(c)) = 1
    <2>1. m \in Holds(queue, 0, 0)
      BY <1>3, BehindIs
    <2>2. CallIn(m, stage, Due(h, mark, c))
      BY <1>2, <1>9, <2>1 DEF Staged
    <2>3. stage = "over"
      BY <2>2 DEF CallIn
    <2> QED
      BY <1>9, <2>3 DEF Staged
  <1> DEFINE x == Copy(Post("consume", c))
  <1>11. x \in Message /\ x \notin About(c) /\ x \notin Uses(c) /\ x \notin Calls(c) /\ x \notin Reds(c)
    <2>1. x \in Message /\ x \notin About(c)
      BY <1>2, MessagesAre, Kinds
    <2> QED
      BY <2>1 DEF About
  <1> HIDE DEF x
  <1>12. Nothing \in Sendings /\ Carries(Nothing, 0, x, c)
    BY <1>3, <1>11, CarriesOnly
  <1>13. Hit(net2, 0, 0, Calls(c)) = 0 /\ Holds(net2, 0, 0) \cap Calls(c) = {}
    BY ONLY <1>2, <1>3, <1>4, <1>10, <1>11, <1>12, CallsTaken
  <1>14. SameReds(queue, net2, c) /\ SameWaiting(queue, net2, c)
    BY ONLY <1>2, <1>3, <1>4, <1>11, <1>12, Untouched
  <1>15. Spent(h, c, prod, used, net2)
    BY <1>9, <1>14 DEF Spent, SameWaiting
  <1>16. Staged(h, c, mark, fired, used, "idle", net2, started, asl2)
    BY <1>5, <1>9, <1>10, <1>13 DEF Staged, Stages
  <1>17. WaveOf(c, mark, fired, Due(h, mark, c), h, net2, received)
    BY <1>9, <1>14, WaveFrame DEF SameReds
  <1>18. Kept(c, h, net2, received, started, asl2)
    BY <1>9, <1>15, <1>16, <1>17 DEF Kept, OfCol
  <1> QED
    BY <1>6, <1>7, <1>18 DEF net2, asl2, KeptAll

(* A contribution of a child's: for which wave it is, and that the reducer *)
(* it comes to waits for it                                                *)
LEMMA ReduxFits ==
    ASSUME TypeInv, Routed(queue), NEW h, IsHistory(h),
           NEW q \in PE, NEW p \in PE, On(queue, q, p) # <<>>,
           NEW m \in Message, m = Foremost(queue, q, p), m.kind = "redux",
           NEW c \in Col, compress(c) = m.tag,
           NEW prod, NEW used, NEW mark, NEW fired, NEW stage,
           OfCol(c, h, prod, used, mark, fired, stage, queue, received, started, asleep)
    PROVE  /\ q # 0 /\ p = span_tree_parent(q) /\ m \in Reds(c)
           /\ Hit(queue, q, p, Reds(c)) = 1 /\ q \in fired /\ p \notin fired
           /\ q \in Contributors(p) /\ q # p
           /\ q \notin Delivered(c, mark, fired, h, queue, p)
           /\ p # 0 => Hit(queue, p, span_tree_parent(p), Reds(c)) = 0
           /\ Sound(m.count, c, Due(h, mark, c)) /\ m.count \in CountMessage
           /\ Sound(Sum(p, compress(c), m.count), c, Due(h, mark, c))
           /\ ~Mixed(p, compress(c), m.count)
  <1> DEFINE v == Due(h, mark, c)
  <1>1. m \in Holds(queue, q, p) /\ m \in Reds(c) /\ m.count \in CountMessage
    BY BehindIs, MessageIs DEF TypeInv, Reds
  <1>2. q # 0 /\ p = span_tree_parent(q)
    BY <1>1 DEF Routed, MayGo
  <1>3. WaveOf(c, mark, fired, v, h, queue, received)
    BY DEF OfCol
  <1> HIDE DEF v
  <1>4. v \in Nat
    BY <1>3 DEF WaveOf
  <1>5. Hit(queue, q, p, Reds(c)) \in Nat /\ Hit(queue, q, p, Reds(c)) # 0
    BY <1>1, NoneOn DEF TypeInv
  <1>6. Hit(queue, q, p, Reds(c)) = 1 /\ q \in fired
    BY <1>2, <1>3, <1>5 DEF WaveOf
  <1>7. q \in Contributors(p) /\ q # p
    BY <1>2, TreeIs DEF Contributors
  <1>8. q \notin Delivered(c, mark, fired, h, queue, p)
    BY <1>6, <1>7 DEF Delivered
  <1>9. p \notin fired
    BY <1>3, <1>7, <1>8 DEF WaveOf
  <1>10. p # 0 => Hit(queue, p, span_tree_parent(p), Reds(c)) = 0
    BY <1>3, <1>9 DEF WaveOf
  <1>11. Sound(m.count, c, v)
    BY <1>1, <1>2, <1>3 DEF WaveOf
  <1>12. \A k \in ToSet(received[p][compress(c)]) : Sound(k, c, v)
    BY <1>3 DEF WaveOf, Gathered
  <1>13. Sound(Sum(p, compress(c), m.count), c, v) /\ ~Mixed(p, compress(c), m.count)
    <2> DEFINE n == m.count
    <2>1. n \in CountMessage /\ Sound(n, c, v) /\ received \in Reducers
      BY <1>1, <1>11 DEF TypeInv
    <2> HIDE DEF n
    <2>2. Sound(Sum(p, compress(c), n), c, v) /\ ~Mixed(p, compress(c), n)
      BY <1>4, <1>12, <2>1, SumSound
    <2> QED
      BY <2>2 DEF n
  <1> QED
    BY <1>1, <1>2, <1>6, <1>7, <1>8, <1>9, <1>10, <1>11, <1>13 DEF v

(* p passes on what has come to it, when it has all *)
LEMMA ReduxStep ==
    ASSUME TypeInv, 0 \in PE, NEW h, IsHistory(h),
           NEW q \in PE, NEW p \in PE, On(queue, q, p) # <<>>,
           NEW m \in Message, m = Foremost(queue, q, p),
           NEW c \in Col, NEW n, n = m.count,
           NEW prod, NEW used, NEW mark, NEW fired, NEW stage,
           OfCol(c, h, prod, used, mark, fired, stage, queue, received, started, asleep),
           q # 0, p = span_tree_parent(q), m \in Reds(c), m \notin Uses(c), m \notin Calls(c),
           Hit(queue, q, p, Reds(c)) = 1, q \in fired, p \notin fired,
           q \in Contributors(p), q # p,
           q \notin Delivered(c, mark, fired, h, queue, p),
           p # 0 => Hit(queue, p, span_tree_parent(p), Reds(c)) = 0,
           n \in CountMessage, Sound(n, c, Due(h, mark, c)),
           Sound(Sum(p, compress(c), n), c, Due(h, mark, c)),
           queue' = After(queue, q, p, upward(p, compress(c), n)),
           Reduce(p, compress(c), n),
           UNCHANGED <<started, asleep>>
    PROVE  Kept(c, h, queue', received', started', asleep')
  <1> DEFINE tag == compress(c)
             sum == Sum(p, tag, n)
             full == Full(p, tag, n)
             root == p = 0
             s0 == IF root THEN 0 ELSE span_tree_parent(p)
             none == Copy(Post("consume", c))
             x == IF ~full THEN none ELSE IF root THEN Posted(sum) ELSE Redux(tag, sum)
             out == upward(p, tag, n)
             v == Due(h, mark, c)
             net2 == queue'
             rec2 == received'
             fired2 == IF full THEN fired \cup {p} ELSE fired
             stage2 == IF full /\ root THEN "summed" ELSE stage
  <1>1. /\ Spent(h, c, prod, used, queue)
        /\ Staged(h, c, mark, fired, used, stage, queue, started, asleep)
        /\ WaveOf(c, mark, fired, v, h, queue, received)
        /\ Pending(h, c, mark, prod)
    BY DEF OfCol
  <1>2. s0 \in PE /\ tag \in Tags /\ full \in BOOLEAN /\ queue \in Nets /\ received \in Reducers
    BY TreeIs DEF TypeInv, Tags, Full
  <1>3. sum \in CountMessage /\ sum.target = c
    BY <1>2, SumIs DEF Sound
  <1>4. /\ none \in Message /\ none \notin About(c) /\ none \notin Uses(c)
        /\ none \notin Reds(c) /\ none \notin Calls(c)
    <2>1. none \in Message /\ none \notin About(c)
      BY MessagesAre, Kinds
    <2> QED
      BY <2>1 DEF About
  <1>5. /\ Posted(sum) \in Message /\ Posted(sum) \in Calls(c)
        /\ Posted(sum) \notin Uses(c) /\ Posted(sum) \notin Reds(c)
        /\ CallIn(Posted(sum), "summed", v)
    <2>1. CallIn(Posted(sum), "summed", v)
      BY DEF Sound, CallIn, Posted, Tells
    <2> QED
      BY <1>3, <2>1, MessagesAre, Kinds
  <1>6. /\ Redux(tag, sum) \in Message /\ Redux(tag, sum) \in Reds(c)
        /\ Redux(tag, sum) \notin Uses(c) /\ Redux(tag, sum) \notin Calls(c)
        /\ Redux(tag, sum).count = sum
    BY <1>2, <1>3, MessagesAre, Kinds DEF Redux
  <1>7. /\ ~full => out = Nothing
        /\ full /\ root => out = OnlyTo(s0, Posted(sum))
        /\ full /\ ~root => out = OnlyTo(s0, Redux(tag, sum))
    BY DEF upward
  <1>8. /\ \A r \in PE \ {p} : Gathered(rec2, r, tag) = Gathered(received, r, tag)
        /\ Gathered(rec2, p, tag) = IF full THEN <<>> ELSE Append(Gathered(received, p, tag), n)
    <2>1. \A r \in PE, t \in Tags :
             rec2[r][t] = IF r = p /\ t = tag
                          THEN IF full THEN <<>> ELSE With(p, tag, n)
                          ELSE received[r][t]
      BY <1>2, ReduceType
    <2> HIDE DEF full, tag, rec2
    <2> QED
      BY <1>2, <2>1 DEF Gathered, With
  <1>9. full <=> Len(Gathered(received, p, tag)) + 1 = expected(p)
    BY <1>2, SumIs DEF Full, Gathered
  <1>10. net2 = After(queue, q, p, out) /\ started' = started /\ asleep' = asleep
    OBVIOUS
  <1>11. Sound(n, c, v) /\ Sound(sum, c, v)
    OBVIOUS
  <1> HIDE DEF tag, sum, full, root, none, out, v, net2, rec2
  <1>12. /\ x \in Message /\ x \notin Uses(c)
         /\ ~full => x \notin About(c)
         /\ full /\ root <=> x \in Calls(c)
         /\ full /\ ~root <=> x \in Reds(c)
         /\ full /\ root => CallIn(x, "summed", v)
         /\ full /\ ~root => x.count = sum
    <2>1. CASE ~full
      BY <1>4, <2>1
    <2>2. CASE full /\ root
      BY <1>5, <2>2
    <2>3. CASE full /\ ~root
      BY <1>6, <2>3
    <2> QED
      BY <2>1, <2>2, <2>3
  <1>13. (~full => out = Nothing) /\ (full => out = OnlyTo(s0, x))
    BY <1>7
  <1> HIDE DEF x
  <1>14. out \in Sendings /\ Carries(out, s0, x, c)
    <2> HIDE DEF s0
    <2>1. CASE full
      BY <1>2, <1>12, <1>13, <2>1, CarriesOnly
    <2>2. CASE ~full
      BY <1>2, <1>12, <1>13, <2>2, CarriesOnly
    <2> QED
      BY <2>1, <2>2
  <1>15. /\ SameWaiting(queue, net2, c)
         /\ ~(full /\ root) => SameCalls(queue, net2, c)
    <2>1. /\ x \notin Uses(c) /\ m \notin Uses(c) /\ m \notin Calls(c) /\ q \in PE /\ p \in PE
          /\ On(queue, q, p) # <<>> /\ m = Foremost(queue, q, p)
          /\ ~(full /\ root) => x \notin Calls(c)
      BY <1>12
    <2> HIDE DEF s0
    <2> QED
      BY ONLY <1>2, <1>10, <1>14, <2>1, Untouched
  <1>16. ASSUME NEW r \in PE \ {0}
         PROVE  /\ r = p /\ full => Hit(net2, r, span_tree_parent(r), Reds(c)) = 1
                /\ r = q => Hit(net2, r, span_tree_parent(r), Reds(c)) = 0
                /\ ~(r = p /\ full) /\ r # q =>
                      Hit(net2, r, span_tree_parent(r), Reds(c)) =
                         Hit(queue, r, span_tree_parent(r), Reds(c))
                /\ Holds(net2, r, span_tree_parent(r)) \cap Reds(c)
                      \subseteq Holds(queue, r, span_tree_parent(r)) \cup {x}
                /\ ~(full /\ ~root) => Holds(net2, r, span_tree_parent(r)) \cap Reds(c)
                                          \subseteq Holds(queue, r, span_tree_parent(r))
    <2> DEFINE s == span_tree_parent(r)
    <2>1. r \in PE /\ s \in PE /\ Reds(c) \in Topics(c)
      BY TreeIs DEF Topics
    <2>2. Takes(queue, q, p, r, s, Reds(c)) <=> r = q
      BY DEF Takes
    <2>3. /\ Adds(p, s0, x, r, s, Reds(c)) <=> r = p /\ full
          /\ Adds(p, s0, x, r, s, Reds(c)) => full /\ ~root
      BY <1>12 DEF Adds, root
    <2>4. /\ r = p => s = span_tree_parent(p) /\ p # 0
          /\ r = q => s = p
      OBVIOUS
    <2> HIDE DEF s, s0
    <2>5. LET takes == Takes(queue, q, p, r, s, Reds(c))
              adds == Adds(p, s0, x, r, s, Reds(c))
          IN /\ Hit(queue, r, s, Reds(c)) \in Nat /\ Hit(net2, r, s, Reds(c)) \in Nat
             /\ takes /\ ~adds => Hit(net2, r, s, Reds(c)) + 1 = Hit(queue, r, s, Reds(c))
             /\ ~takes /\ adds => Hit(net2, r, s, Reds(c)) = Hit(queue, r, s, Reds(c)) + 1
             /\ ~takes /\ ~adds => Hit(net2, r, s, Reds(c)) = Hit(queue, r, s, Reds(c))
             /\ Holds(net2, r, s) \cap Reds(c) \subseteq Holds(queue, r, s) \cup {x}
             /\ ~adds => Holds(net2, r, s) \cap Reds(c) \subseteq Holds(queue, r, s)
      BY <1>2, <1>10, <1>14, <2>1, Shift
    <2>6. r = p /\ full => Hit(net2, r, s, Reds(c)) = 1
      BY <2>2, <2>3, <2>4, <2>5
    <2>7. r = q => Hit(net2, r, s, Reds(c)) = 0
      BY <2>2, <2>3, <2>4, <2>5
    <2>8. ~(r = p /\ full) /\ r # q => Hit(net2, r, s, Reds(c)) = Hit(queue, r, s, Reds(c))
      BY <2>2, <2>3, <2>5
    <2> QED
      BY <2>3, <2>5, <2>6, <2>7, <2>8 DEF s
  <1>17. Rises(queue, net2, c, v, p, q, full)
    <2>1. ASSUME NEW r \in PE \ {0}, NEW k \in Holds(net2, r, span_tree_parent(r)) \cap Reds(c)
          PROVE  k \in Holds(queue, r, span_tree_parent(r)) \/ Sound(k.count, c, v)
      BY <1>11, <1>12, <1>16, <2>1
    <2> QED
      BY <1>16, <2>1 DEF Rises
  <1>18. Comes(h, h, mark, p, q)
    BY DEF Comes
  <1>19. Gathers(received, rec2, p, compress(c), n, full)
    BY <1>8, <1>9 DEF tag, Gathers
  <1>20. /\ (full => fired2 = fired \cup {p}) /\ (~full => fired2 = fired)
         /\ 0 \in fired2 <=> 0 \in fired \/ (full /\ root)
    BY DEF root
  <1>21. WaveOf(c, mark, fired2, v, h, net2, rec2)
    <2>1. p \in PE \ fired /\ (q # p => q \in fired)
      OBVIOUS
    <2> HIDE DEF fired2
    <2> QED
      BY <1>1, <1>2, <1>11, <1>17, <1>18, <1>19, <1>20, <2>1, Arrival
  <1>22. Spent(h, c, prod, used, net2)
    BY <1>1, <1>15 DEF Spent, SameWaiting
  <1>23. Staged(h, c, mark, fired2, used, stage2, net2, started', asleep')
    <2>1. CASE full /\ root
      <3>1. stage = "wave" /\ stage2 = "summed" /\ 0 \in fired2
        BY <1>1, <1>20, <2>1 DEF Staged, root
      <3>2. Hit(queue, 0, 0, Calls(c)) = 0 /\ x \in Calls(c) /\ s0 = 0 /\ p = 0
        BY <1>1, <1>12, <2>1, <3>1 DEF Staged, root
      <3> HIDE DEF fired2, stage2, s0
      <3>3. /\ On(queue, q, 0) # <<>> /\ m = Foremost(queue, q, 0) /\ m \notin Calls(c)
            /\ net2 = After(queue, q, 0, out) /\ Carries(out, 0, x, c) /\ out \in Sendings
        BY <1>10, <1>14, <3>2
      <3>4. Hit(net2, 0, 0, Calls(c)) = 1 /\ Holds(net2, 0, 0) \cap Calls(c) \subseteq {x}
        BY ONLY <1>2, <3>2, <3>3, CallsMore, q \in PE, 0 \in PE
      <3>5. \A k \in Holds(net2, 0, 0) \cap Calls(c) : CallIn(k, "summed", v)
        BY <1>12, <2>1, <3>4
      <3> QED
        BY <1>1, <1>10, <3>1, <3>4, <3>5 DEF Staged, Stages, v
    <2>2. CASE ~(full /\ root)
      <3>1. stage2 = stage /\ (0 \in fired2 <=> 0 \in fired)
        BY <1>20, <2>2
      <3>2. Later(h, h, c, 0, 0)
        BY SameLater
      <3> HIDE DEF fired2, stage2
      <3> QED
        BY <1>1, <1>10, <1>15, <2>2, <3>1, <3>2, StagedLater DEF SameCalls
    <2> QED
      BY <2>1, <2>2
  <1> HIDE DEF fired2, stage2
  <1>24. Kept(c, h, net2, rec2, started', asleep')
    BY <1>1, <1>21, <1>22, <1>23 DEF Kept, OfCol, v
  <1> QED
    BY <1>24 DEF net2, rec2

LEMMA Reduced ==
    ASSUME TypeInv, DistinctTags, Routed(queue), fault = {},
           NEW h, IsHistory(h), Past(h, queue, lcount, watched),
           KeptAll(h, queue, received, started, asleep),
           NEW q \in PE, NEW p \in PE, On(queue, q, p) # <<>>,
           NEW m \in Message, m = Foremost(queue, q, p), m.kind = "redux",
           Reduce(p, m.tag, m.count), Refuse(p, Mixed(p, m.tag, m.count)),
           queue' = After(queue, q, p, upward(p, m.tag, m.count)),
           UNCHANGED <<lcount, watched, started, asleep>>
    PROVE  /\ fault' = {} /\ Routed(queue') /\ Past(h, queue', lcount', watched')
           /\ KeptAll(h, queue', received', started', asleep')
  <1>1. PICK c \in Col : compress(c) = m.tag
    BY MessageIs DEF Tags
  <1>2. PICK prod, used, mark, fired, stage :
           OfCol(c, h, prod, used, mark, fired, stage, queue, received, started, asleep)
    BY DEF KeptAll, Kept
  <1> DEFINE n == m.count
             sum == Sum(p, compress(c), n)
             out == upward(p, compress(c), n)
  <1>3. /\ q # 0 /\ p = span_tree_parent(q) /\ m \in Reds(c)
        /\ Hit(queue, q, p, Reds(c)) = 1 /\ q \in fired /\ p \notin fired
        /\ q \in Contributors(p) /\ q # p
        /\ q \notin Delivered(c, mark, fired, h, queue, p)
        /\ p # 0 => Hit(queue, p, span_tree_parent(p), Reds(c)) = 0
        /\ Sound(n, c, Due(h, mark, c)) /\ n \in CountMessage
        /\ Sound(sum, c, Due(h, mark, c))
        /\ ~Mixed(p, compress(c), n)
    BY <1>1, <1>2, ReduxFits
  <1>4. m \notin Uses(c) /\ m \notin Calls(c) /\ \A d \in Col : d # c => m \notin About(d)
    BY <1>1 DEF Uses, Calls, Reds, About, DistinctTags
  <1>5. 0 \in PE /\ compress(c) \in Tags
    BY FinitePEs DEF Tags
  <1>6. out = Nothing \/ \E s, x : out = OnlyTo(s, x) /\ Fits(p, s, x, c)
    <2>1. sum \in CountMessage /\ sum.target = c
      BY <1>3, <1>5, SumIs DEF TypeInv, Sound
    <2>2. p = 0 => Fits(p, 0, Posted(sum), c)
      <3>1. 0 \notin span_tree_children(p) /\ Posted(sum).kind = "post"
        BY TreeIs DEF Posted
      <3> HIDE DEF sum
      <3> QED
        BY <1>5, <2>1, <3>1, MessagesAre, Kinds DEF Fits, MayGo
    <2>3. p # 0 => Fits(p, span_tree_parent(p), Redux(compress(c), sum), c)
      <3>1. Redux(compress(c), sum).kind = "redux"
        BY DEF Redux
      <3>2. p # 0 => span_tree_parent(p) \in PE /\ span_tree_parent(p) \notin span_tree_children(p)
        <4> SUFFICES ASSUME p # 0
                     PROVE  span_tree_parent(p) \in PE /\ span_tree_parent(p) \notin span_tree_children(p)
          OBVIOUS
        <4> DEFINE u == span_tree_parent(p)
        <4>1. u \in PE /\ u < p
          BY TreeIs
        <4>2. ASSUME u \in span_tree_children(p)
              PROVE  FALSE
          <5>1. u # 0
            BY <4>2, TreeIs
          <5>2. span_tree_parent(u) = p /\ span_tree_parent(u) < u
            BY <4>1, <4>2, <5>1, TreeIs
          <5> QED
            BY <4>1, <5>2 DEF PE
        <4> QED
          BY <4>1, <4>2
      <3>3. \A d \in Col : d # c => Redux(compress(c), sum) \notin About(d)
        BY <1>5, <2>1, Kinds DEF DistinctTags
      <3> HIDE DEF sum
      <3> QED
        BY <1>5, <2>1, <3>1, <3>2, <3>3, MessagesAre DEF Fits, MayGo
    <2>4. \/ out = Nothing
          \/ p = 0 /\ out = OnlyTo(0, Posted(sum))
          \/ p # 0 /\ out = OnlyTo(span_tree_parent(p), Redux(compress(c), sum))
      BY DEF upward
    <2> HIDE DEF out, sum
    <2> QED
      BY <2>2, <2>3, <2>4
  <1>7. /\ queue' = After(queue, q, p, out) /\ Reduce(p, compress(c), n) /\ fault' = {}
    BY <1>1, <1>3 DEF Refuse
  <1>8. p # 0 => q # span_tree_parent(p)
    <2>1. p < q
      BY <1>3, TreeIs
    <2>2. p # 0 => span_tree_parent(p) < p
      BY TreeIs
    <2> QED
      BY <2>1, <2>2 DEF PE
  <1>9. Kept(c, h, queue', received', started', asleep')
    <2> HIDE DEF n
    <2> QED
      BY <1>2, <1>3, <1>4, <1>5, <1>7, ReduxStep DEF n
  <1>10. ASSUME NEW d \in Col, d # c
         PROVE  Kept(d, h, queue', received', started', asleep')
    <2>1. compress(d) \in Tags /\ compress(d) # compress(c)
      BY <1>10 DEF Tags, DistinctTags
    <2>2. \A r \in PE : Gathered(received', r, compress(d)) = Gathered(received, r, compress(d))
      BY <1>3, <1>5, <1>7, <2>1, ReduceType DEF Gathered
    <2>3. Foremost(queue, q, p) \notin About(d) /\ Kept(d, h, queue, received, started, asleep)
      BY <1>4, <1>10 DEF KeptAll
    <2> HIDE DEF n, out
    <2> QED
      BY <1>6, <1>7, <1>10, <2>2, <2>3, SingleOther
  <1>11. Routed(queue') /\ Past(h, queue', lcount', watched')
    <2> HIDE DEF n, out
    <2> QED
      BY <1>6, <1>7, <1>8, SingleRuns
  <1> QED
    BY <1>7, <1>9, <1>10, <1>11 DEF KeptAll

(* The thread of c begins a round *)
LEMMA Begun ==
    ASSUME TypeInv, Routed(queue), NEW h, IsHistory(h), Past(h, queue, lcount, watched),
           KeptAll(h, queue, received, started, asleep),
           NEW c \in Col, Begin(c)
    PROVE  /\ Routed(queue') /\ Past(h, queue', lcount', watched')
           /\ KeptAll(h, queue', received', started', asleep')
  <1> DEFINE x == Post("produce", c)
             out == OnlyTo(0, x)
             net2 == queue'
             asl2 == asleep'
  <1>1. /\ net2 = Emit(queue, 0, out) /\ asl2 = asleep \cup {c} /\ c \notin asleep
        /\ lcount' = lcount /\ watched' = watched /\ received' = received /\ started' = started
    BY DEF Begin
  <1>2. 0 \in PE /\ queue \in Nets
    BY FinitePEs DEF TypeInv
  <1>3. /\ x \in Message /\ x \in Calls(c) /\ x \notin Uses(c) /\ x \notin Reds(c)
        /\ \A d \in Col : d # c => x \notin About(d)
    BY MessagesAre, Kinds
  <1>4. Fits(0, 0, x, c) /\ \A v : CallIn(x, "begun", v)
    <2>1. x.kind = "post" /\ Produces(x)
      BY DEF Post, Produces
    <2> HIDE DEF x
    <2> QED
      BY <1>2, <1>3, <2>1, TreeIs DEF Fits, MayGo, CallIn
  <1>5. out = OnlyTo(0, x)
    OBVIOUS
  <1> HIDE DEF x, out, net2, asl2
  <1>6. /\ out \in Sendings
        /\ \A s \in PE : \A y \in Sends(out, s) : MayGo(0, s, y)
        /\ \A d \in Col : d # c => \A s \in PE : Sends(out, s) \cap About(d) = {}
    BY <1>2, <1>4, <1>5, SingleGoes
  <1>7. Routed(net2)
    BY <1>1, <1>2, <1>6, RoutedSend
  <1>8. Past(h, net2, lcount, watched)
    <2>1. ASSUME NEW s \in PE \ {0}
          PROVE  On(net2, span_tree_parent(s), s) = On(queue, span_tree_parent(s), s)
      <3> DEFINE r == span_tree_parent(s)
                 a == On(queue, r, s)
      <3>1. r \in PE
        BY TreeIs
      <3>2. To(out, s) = <<>>
        BY <1>2, <1>3, <1>5, OnlyToIs
      <3> HIDE DEF r
      <3>3. a \in Seq(Message)
        BY <1>2, <3>1, NoneOn
      <3>4. /\ r = 0 => On(net2, r, s) = Joined(a, <<>>)
            /\ r # 0 => On(net2, r, s) = a
        BY <1>1, <1>2, <1>6, <3>1, <3>2, EmitOn
      <3> HIDE DEF a
      <3>5. On(net2, r, s) = a
        BY <3>3, <3>4, JoinedNone
      <3> QED
        BY <3>5 DEF r, a
    <2> QED
      BY <2>1, PastKept
  <1>9. \A d, a, b : Later(h, h, d, a, b)
    BY SameLater
  <1>10. ASSUME NEW d \in Col, d # c
         PROVE  Kept(d, h, net2, received, started, asl2)
    <2>1. Unheard(queue, net2, d)
      BY <1>1, <1>2, <1>6, <1>10, UnheardSend
    <2>2. Kept(d, h, queue, received, started, asleep) /\ (d \in asl2 <=> d \in asleep)
      BY <1>1, <1>10 DEF KeptAll
    <2> QED
      BY <1>9, <2>1, <2>2, KeptLater
  <1>11. PICK prod, used, mark, fired, stage :
            OfCol(c, h, prod, used, mark, fired, stage, queue, received, started, asleep)
    BY DEF KeptAll, Kept
  <1>12. /\ Spent(h, c, prod, used, queue)
         /\ Staged(h, c, mark, fired, used, stage, queue, started, asleep)
         /\ WaveOf(c, mark, fired, Due(h, mark, c), h, queue, received)
         /\ Pending(h, c, mark, prod)
    BY <1>11 DEF OfCol
  <1>13. stage = "idle" /\ Hit(queue, 0, 0, Calls(c)) = 0
    BY <1>1, <1>12 DEF Staged
  <1>14. ASSUME NEW T, NEW r \in PE, NEW s \in PE
         PROVE  /\ Hit(queue, r, s, T) \in Nat
                /\ x \notin T => /\ Hit(net2, r, s, T) = Hit(queue, r, s, T)
                                 /\ Holds(net2, r, s) \cap T \subseteq Holds(queue, r, s)
                /\ r = 0 /\ s = 0 /\ x \in T => /\ Hit(net2, r, s, T) = Hit(queue, r, s, T) + 1
                                                /\ Holds(net2, r, s) \subseteq Holds(queue, r, s) \cup {x}
    <2>1. /\ s = 0 /\ x \in T => Sent(out, s, T) = 1
          /\ ~(s = 0 /\ x \in T) => Sent(out, s, T) = 0
      BY <1>2, <1>3, <1>5, SingleSent
    <2>2. Sends(out, s) \subseteq {x}
      BY <1>2, <1>3, <1>5, SingleIs
    <2>3. /\ r = 0 => Hit(net2, r, s, T) = Hit(queue, r, s, T) + Sent(out, s, T)
          /\ r # 0 => Hit(net2, r, s, T) = Hit(queue, r, s, T)
          /\ Hit(queue, r, s, T) \in Nat
      BY <1>1, <1>2, <1>6, EmitHits, NoneOn
    <2>4. /\ r = 0 => Holds(net2, r, s) = Holds(queue, r, s) \cup Sends(out, s)
          /\ r # 0 => Holds(net2, r, s) = Holds(queue, r, s)
      BY <1>1, <1>2, <1>6, EmitTo
    <2> QED
      BY <2>1, <2>2, <2>3, <2>4
  <1>15. SameReds(queue, net2, c)
    <2> SUFFICES ASSUME NEW r \in PE \ {0}
                 PROVE  /\ Hit(net2, r, span_tree_parent(r), Reds(c)) =
                              Hit(queue, r, span_tree_parent(r), Reds(c))
                        /\ Holds(net2, r, span_tree_parent(r)) \cap Reds(c)
                              \subseteq Holds(queue, r, span_tree_parent(r))
      BY DEF SameReds
    <2> DEFINE s == span_tree_parent(r)
    <2>1. s \in PE /\ r \in PE
      BY TreeIs
    <2> HIDE DEF s
    <2>2. /\ Hit(net2, r, s, Reds(c)) = Hit(queue, r, s, Reds(c))
          /\ Holds(net2, r, s) \cap Reds(c) \subseteq Holds(queue, r, s)
      BY <1>3, <1>14, <2>1
    <2> QED
      BY <2>2 DEF s
  <1>16. SameWaiting(queue, net2, c)
    <2> SUFFICES ASSUME NEW r \in PE
                 PROVE  Waiting(net2, r, c) = Waiting(queue, r, c)
      BY DEF SameWaiting
    <2>1. /\ Hit(net2, r, r, Uses(c)) = Hit(queue, r, r, Uses(c))
          /\ Hit(net2, r, 0, Uses(c)) = Hit(queue, r, 0, Uses(c))
      BY <1>2, <1>3, <1>14
    <2> QED
      BY <2>1 DEF Waiting
  <1>17. Hit(net2, 0, 0, Calls(c)) = 1 /\ Holds(net2, 0, 0) \cap Calls(c) \subseteq {x}
    <2>1. Holds(queue, 0, 0) \cap Calls(c) = {}
      BY <1>2, <1>13, NoneOn
    <2>2. /\ Hit(net2, 0, 0, Calls(c)) = Hit(queue, 0, 0, Calls(c)) + 1
          /\ Holds(net2, 0, 0) \subseteq Holds(queue, 0, 0) \cup {x}
      BY <1>2, <1>3, <1>14
    <2> QED
      BY <1>13, <2>1, <2>2
  <1>18. Spent(h, c, prod, used, net2)
    BY <1>12, <1>16 DEF Spent, SameWaiting
  <1>19. Staged(h, c, mark, fired, used, "begun", net2, started, asl2)
    <2>1. c \in asl2
      BY <1>1
    <2>2. \A k \in Holds(net2, 0, 0) \cap Calls(c) : CallIn(k, "begun", Due(h, mark, c))
      BY <1>4, <1>17
    <2> QED
      BY <1>12, <1>13, <1>17, <2>1, <2>2 DEF Staged, Stages
  <1>20. WaveOf(c, mark, fired, Due(h, mark, c), h, net2, received)
    BY <1>12, <1>15, WaveFrame DEF SameReds
  <1>21. Kept(c, h, net2, received, started, asl2)
    BY <1>12, <1>18, <1>19, <1>20 DEF Kept, OfCol
  <1>22. KeptAll(h, net2, received, started, asl2)
    BY <1>10, <1>21 DEF KeptAll
  <1> QED
    BY <1>1, <1>7, <1>8, <1>22 DEF net2, asl2

-----------------------------------------------------------------------------
(* Soundness *)

(* There is a history all PEs agree on, in which the round of every *)
(* collection takes its course.                                     *)
Agreed ==
    \E h : /\ IsHistory(h) /\ Past(h, queue, lcount, watched)
           /\ KeptAll(h, queue, received, started, asleep)

IInv == TypeInv /\ fault = {} /\ Routed(queue) /\ Agreed

LEMMA NoneInit ==
    ASSUME Init, NEW r \in PE, NEW s \in PE, NEW T
    PROVE  On(queue, r, s) = <<>> /\ Holds(queue, r, s) = {} /\ Hit(queue, r, s, T) = 0
  <1>1. On(queue, r, s) = <<>>
    BY DEF Init, On
  <1>2. Holds(queue, r, s) = {}
    BY <1>1 DEF Holds, ToSet
  <1>3. queue \in Nets
    BY TypeInit DEF TypeInv
  <1> QED
    BY <1>1, <1>2, <1>3, NoneOn

LEMMA AgreedInit ==
    ASSUME Init
    PROVE  IInv
  <1> DEFINE h == [n |-> 0, log |-> <<>>, counts |-> [j \in {0} |-> [c \in Col |-> 0]],
                   watch |-> [j \in {0} |-> {}], pos |-> [p \in PE |-> 0]]
  <1>1. /\ Ran(h) = 0 /\ Counts(h, 0) = [c \in Col |-> 0] /\ Watch(h, 0) = {}
        /\ \A p \in PE : At(h, p) = 0
    BY DEF Ran, Counts, Watch, At
  <1> HIDE DEF h
  <1>2. TypeInv /\ 0 \in PE
    BY TypeInit, FinitePEs
  <1>3. IsHistory(h)
    BY <1>1, <1>2 DEF IsHistory
  <1>4. Past(h, queue, lcount, watched)
    <2>1. \A p \in PE : lcount[p] = Counts(h, At(h, p)) /\ watched[p] = Watch(h, At(h, p))
      BY <1>1 DEF Init
    <2>2. ASSUME NEW p \in PE \ {0}
          PROVE  Between(On(queue, span_tree_parent(p), p), h, At(h, p), At(h, span_tree_parent(p)))
      <3> DEFINE q == span_tree_parent(p)
      <3>1. q \in PE
        BY TreeIs
      <3> HIDE DEF q
      <3>2. On(queue, q, p) = <<>> /\ At(h, p) = 0 /\ At(h, q) = 0
        BY <1>1, <3>1, NoneInit
      <3>3. Between(On(queue, q, p), h, At(h, p), At(h, q))
        BY <3>2 DEF Between
      <3> QED
        BY <3>3 DEF q
    <2> QED
      BY <2>1, <2>2 DEF Past
  <1>5. ASSUME NEW c \in Col
        PROVE  OfCol(c, h, 0, PE, 0, PE, "idle", queue, received, started, asleep)
    <2>1. Due(h, 0, c) = 0
      BY <1>1 DEF Due
    <2>2. Spent(h, c, 0, PE, queue)
      <3>1. Cardinality(PE \ PE) = 0
        BY FS_EmptySet
      <3>2. \A p \in PE : Waiting(queue, p, c) = 0
        BY <1>2, NoneInit DEF Waiting
      <3> QED
        BY <1>1, <2>1, <3>1, <3>2 DEF Spent
    <2>3. Quiet(h, c, 0, PE)
      BY <1>1, <2>1 DEF Quiet
    <2>4. Staged(h, c, 0, PE, PE, "idle", queue, started, asleep)
      <3>1. c \notin asleep /\ Hit(queue, 0, 0, Calls(c)) = 0 /\ Holds(queue, 0, 0) = {}
        BY <1>2, NoneInit DEF Init
      <3> QED
        BY <1>1, <1>2, <2>3, <3>1 DEF Staged, Stages
    <2>5. WaveOf(c, 0, PE, 0, h, queue, received)
      <3>1. \A p \in PE : Gathered(received, p, compress(c)) = <<>>
        BY DEF Init, Gathered, Tags
      <3>2. ASSUME NEW p \in PE
            PROVE  Delivered(c, 0, PE, h, queue, p) = Contributors(p)
        BY <1>1, ContributorsAre, NoneInit DEF Delivered
      <3>3. ASSUME NEW q \in PE \ {0}
            PROVE  /\ Hit(queue, q, span_tree_parent(q), Reds(c)) = 0
                   /\ Holds(queue, q, span_tree_parent(q)) = {}
        BY TreeIs, NoneInit
      <3>4. ToSet(<<>>) = {}
        BY DEF ToSet
      <3> QED
        BY <3>1, <3>2, <3>3, <3>4 DEF WaveOf
    <2>6. Pending(h, c, 0, 0)
      BY <1>1 DEF Pending
    <2> QED
      BY <2>1, <2>2, <2>4, <2>5, <2>6 DEF OfCol
  <1>6. KeptAll(h, queue, received, started, asleep)
    BY <1>5 DEF KeptAll, Kept
  <1>7. Routed(queue)
    BY NoneInit DEF Routed
  <1> QED
    BY <1>2, <1>3, <1>4, <1>6, <1>7 DEF Init, IInv, Agreed

LEMMA ReceiveAgreed ==
    ASSUME IInv, DistinctTags, NEW q \in PE, NEW p \in PE, Receive(q, p)
    PROVE  fault' = {} /\ Routed(queue') /\ Agreed'
  <1>1. TypeInv /\ fault = {} /\ Routed(queue) /\ queue \in Nets /\ 0 \in PE
    BY FinitePEs DEF IInv, TypeInv
  <1>2. PICK h : /\ IsHistory(h) /\ Past(h, queue, lcount, watched)
                 /\ KeptAll(h, queue, received, started, asleep)
    BY DEF IInv, Agreed
  <1> DEFINE m == Foremost(queue, q, p)
  <1>3. /\ On(queue, q, p) # <<>> /\ m \in Message
        /\ Taken(q, p) = Behind(queue, q, p)
        /\ m = Head(queue[q][p])
    BY <1>1, BehindIs DEF Receive, Taken, Behind, On, Foremost
  <1>4. \/ /\ m.kind \in {"post", "copy"}
           /\ ReceiveGroup(q, p, m)
           /\ UNCHANGED <<round, asleep>>
        \/ /\ ReceiveRedux(q, p, m)
           /\ UNCHANGED <<round, asleep>>
        \/ ReceiveResume(q, p, m)
    BY <1>3 DEF Receive
  <1>5. m = Foremost(queue, q, p)
    OBVIOUS
  <1> HIDE DEF m
  <1>6. ASSUME m.kind \in {"post", "copy"}, ReceiveGroup(q, p, m), UNCHANGED <<round, asleep>>
        PROVE  fault' = {} /\ Routed(queue') /\ Agreed'
    <2>1. m \in GroupMessage /\ asleep' = asleep
      BY <1>3, <1>6, MessageIs
    <2>2. CASE /\ m.kind = "copy" \/ p = 0
               /\ \/ Produce(Taken(q, p), p, m)
                  \/ Consume(Taken(q, p), p, m)
                  \/ StartDetection(Taken(q, p), p, m)
                  \/ Again(Taken(q, p), p, m)
                  \/ Complete(Taken(q, p), p, m)
      <3>1. Runs(q, p, m)
        BY <1>1, <2>1, <2>2, RunsIs
      <3>2. CASE p = 0
        <4>1. /\ fault' = {} /\ Routed(queue')
              /\ \E h2 : /\ IsHistory(h2) /\ Past(h2, queue', lcount', watched')
                         /\ KeptAll(h2, queue', received', started', asleep')
          BY <1>1, <1>2, <1>3, <1>5, <2>1, <3>1, <3>2, RootRuns
        <4> QED
          BY <4>1 DEF Agreed
      <3>3. CASE p # 0
        <4>1. /\ fault' = {} /\ Routed(queue')
              /\ \E h2 : /\ IsHistory(h2) /\ Past(h2, queue', lcount', watched')
                         /\ KeptAll(h2, queue', received', started', asleep')
          BY <1>1, <1>2, <1>3, <1>5, <2>1, <2>2, <3>1, <3>3, CopyRuns
        <4> QED
          BY <4>1 DEF Agreed
      <3> QED
        BY <3>2, <3>3
    <2>3. CASE /\ m.kind = "post" /\ p # 0
               /\ queue' = Emit(Taken(q, p), p, OnlyTo(0, m))
               /\ UNCHANGED <<lcount, watched, received, started, fault>>
      <3>1. queue' = After(queue, q, p, OnlyTo(0, m)) /\ fault' = {} /\ p \in PE \ {0}
        BY <1>1, <1>3, <2>3 DEF After
      <3>2. UNCHANGED <<lcount, watched, received, started, asleep>>
        BY <2>1, <2>3
      <3>3. /\ Routed(queue') /\ Past(h, queue', lcount', watched')
            /\ KeptAll(h, queue', received', started', asleep')
        BY <1>1, <1>2, <1>3, <1>5, <2>1, <2>3, <3>1, <3>2, Forwarded
      <3> QED
        BY <1>2, <3>1, <3>3 DEF Agreed
    <2> QED
      BY <1>6, <2>2, <2>3 DEF ReceiveGroup
  <1>7. ASSUME ReceiveRedux(q, p, m), UNCHANGED <<round, asleep>>
        PROVE  fault' = {} /\ Routed(queue') /\ Agreed'
    <2>1. /\ m.kind = "redux" /\ Reduce(p, m.tag, m.count)
          /\ Refuse(p, Mixed(p, m.tag, m.count))
          /\ queue' = After(queue, q, p, upward(p, m.tag, m.count))
          /\ UNCHANGED <<lcount, watched, started, asleep>>
      BY <1>3, <1>7 DEF ReceiveRedux, After
    <2>2. /\ fault' = {} /\ Routed(queue') /\ Past(h, queue', lcount', watched')
          /\ KeptAll(h, queue', received', started', asleep')
      BY <1>1, <1>2, <1>3, <1>5, <2>1, Reduced
    <2> QED
      BY <1>2, <2>2 DEF Agreed
  <1>8. ASSUME ReceiveResume(q, p, m)
        PROVE  fault' = {} /\ Routed(queue') /\ Agreed'
    <2>1. /\ m.kind = "resume" /\ queue' = Behind(queue, q, p) /\ asleep' = asleep \ {Of(m)}
          /\ UNCHANGED <<lcount, watched, received, started>> /\ fault' = {}
      BY <1>1, <1>3, <1>8 DEF ReceiveResume, Of
    <2>2. /\ Routed(queue') /\ Past(h, queue', lcount', watched')
          /\ KeptAll(h, queue', received', started', asleep')
      BY <1>1, <1>2, <1>3, <1>5, <2>1, Resumed
    <2> QED
      BY <1>2, <2>1, <2>2 DEF Agreed
  <1> QED
    BY <1>4, <1>6, <1>7, <1>8

LEMMA IInvStep ==
    ASSUME IInv, DistinctTags, [Next]_vars
    PROVE  IInv'
  <1>1. TypeInv'
    BY TypeStep DEF IInv
  <1>2. ASSUME NEW c \in Col, Begin(c)
        PROVE  fault' = {} /\ Routed(queue') /\ Agreed'
    <2>1. PICK h : /\ IsHistory(h) /\ Past(h, queue, lcount, watched)
                   /\ KeptAll(h, queue, received, started, asleep)
      BY DEF IInv, Agreed
    <2>2. /\ Routed(queue') /\ Past(h, queue', lcount', watched')
          /\ KeptAll(h, queue', received', started', asleep')
      BY <1>2, <2>1, Begun DEF IInv
    <2> QED
      BY <1>2, <2>1, <2>2 DEF Begin, Agreed, IInv
  <1>3. ASSUME NEW q \in PE, NEW p \in PE, Receive(q, p)
        PROVE  fault' = {} /\ Routed(queue') /\ Agreed'
    BY <1>3, ReceiveAgreed
  <1>4. CASE UNCHANGED vars
    BY <1>4 DEF vars, IInv, TypeInv, TypeOK, Agreed
  <1> QED
    BY <1>1, <1>2, <1>3, <1>4 DEF Next, IInv

(* What a wave has found at the end of a round *)
LEMMA DecidedQuiet ==
    ASSUME TypeInv, Routed(queue), NEW h, IsHistory(h), NEW c \in Col, Decided(c),
           NEW prod, NEW used, NEW mark, NEW fired, NEW stage,
           OfCol(c, h, prod, used, mark, fired, stage, queue, received, started, asleep)
    PROVE  /\ Quiet(h, c, mark, used) /\ stage \in {"idle", "summed", "over"}
           /\ \A p \in PE : At(h, p) >= mark
  <1>1. /\ Staged(h, c, mark, fired, used, stage, queue, started, asleep)
        /\ WaveOf(c, mark, fired, Due(h, mark, c), h, queue, received)
    BY DEF OfCol
  <1>2. stage \in {"idle", "over"} \/ (stage = "summed" /\ Due(h, mark, c) = 0)
    <2>1. CASE c \notin asleep
      BY <1>1, <2>1 DEF Staged
    <2>2. ASSUME NEW q \in PE, NEW p \in PE, NEW m \in ToSet(queue[q][p]), m.count.target = c,
                 m.kind = "resume" \/ (m.kind = "post" /\ Finished(m))
          PROVE  stage \in {"idle", "over"} \/ (stage = "summed" /\ Due(h, mark, c) = 0)
      <3>1. m \in Holds(queue, q, p) /\ On(queue, q, p) \in Seq(Message)
        BY NoneOn DEF Holds, On, TypeInv
      <3>2. m \in Message
        BY <3>1 DEF Holds, ToSet
      <3>3. MayGo(q, p, m)
        BY <3>1 DEF Routed
      <3>4. q = 0 /\ p = 0 /\ m \in Calls(c)
        BY <2>2, <3>2, <3>3 DEF MayGo, Finished, Is, Calls
      <3>5. CallIn(m, stage, Due(h, mark, c))
        BY <1>1, <3>1, <3>4 DEF Staged
      <3> QED
        BY <2>2, <3>5 DEF CallIn, Finished, Is, Produces
    <2> QED
      BY <2>1, <2>2 DEF Decided, InFlight
  <1>3. Quiet(h, c, mark, used) /\ 0 \in fired
    BY <1>1, <1>2 DEF Staged
  <1>4. \A p \in PE : At(h, p) >= mark
    BY <1>1, <1>3, AllFired
  <1> QED
    BY <1>2, <1>3, <1>4

LEMMA IInvSound ==
    ASSUME IInv
    PROVE  DetectionSound /\ NoFault
  <1>1. TypeInv /\ fault = {} /\ Routed(queue) /\ queue \in Nets
    BY DEF IInv, TypeInv
  <1>2. PICK h : /\ IsHistory(h) /\ Past(h, queue, lcount, watched)
                 /\ KeptAll(h, queue, received, started, asleep)
    BY DEF IInv, Agreed
  <1>3. ASSUME NEW q \in PE, NEW p \in PE, NEW m \in ToSet(queue[q][p])
        PROVE  /\ m \in Holds(queue, q, p) /\ m \in Message /\ MayGo(q, p, m)
               /\ m.count.target \in Col
    <2>1. m \in Holds(queue, q, p) /\ On(queue, q, p) \in Seq(Message)
      BY <1>1, NoneOn DEF Holds, On
    <2>2. m \in Message
      BY <2>1 DEF Holds, ToSet
    <2>3. MayGo(q, p, m)
      BY <1>1, <2>1 DEF Routed
    <2> QED
      BY <2>1, <2>2, <2>3, MessageIs
  <1>4. \A p \in PE : At(h, p) \in Nat /\ At(h, p) <= Ran(h) /\ Ran(h) \in Nat
    BY <1>2 DEF IsHistory
  (* a copy that p has yet to run is one of the root's later broadcasts *)
  <1>5. ASSUME NEW q \in PE, NEW p \in PE, NEW m \in ToSet(queue[q][p]), m.kind = "copy"
        PROVE  \E j \in 1 .. Ran(h) : At(h, p) < j /\ m = Entry(h, j)
    <2>1. p \in span_tree_children(q)
      BY <1>3, <1>5 DEF MayGo
    <2>2. p \in PE \ {0} /\ q = span_tree_parent(p)
      BY <2>1, TreeIs
    <2>3. m \in Holds(queue, span_tree_parent(p), p)
      BY <1>3, <2>2
    <2> QED
      BY <1>1, <1>2, <2>2, <2>3, PastEntry
  <1>6. ASSUME NEW c \in Col, Decided(c)
        PROVE  /\ \A p \in PE : lcount[p][c] = 0
               /\ \A m \in InFlight(c) : ~Is(m, {"produce", "consume", "start_detection"})
    <2>1. PICK prod, used, mark, fired, stage :
             OfCol(c, h, prod, used, mark, fired, stage, queue, received, started, asleep)
      BY <1>2 DEF KeptAll, Kept
    <2>2. /\ Quiet(h, c, mark, used) /\ stage \in {"idle", "summed", "over"}
          /\ \A p \in PE : At(h, p) >= mark
      BY <1>1, <1>2, <1>6, <2>1, DecidedQuiet
    <2>3. /\ Spent(h, c, prod, used, queue)
          /\ Staged(h, c, mark, fired, used, stage, queue, started, asleep)
      BY <2>1 DEF OfCol
    <2>4. mark \in Nat
      BY <2>3 DEF Staged
    <2>5. ASSUME NEW p \in PE
          PROVE  lcount[p][c] = 0
      <3>1. At(h, p) \in mark .. Ran(h)
        BY <1>4, <2>2, <2>4
      <3>2. Due(h, At(h, p), c) = 0
        BY <2>2, <3>1 DEF Quiet
      <3> QED
        BY <1>2, <3>2, PastDue
    <2>6. ASSUME NEW q \in PE, NEW p \in PE, NEW m \in ToSet(queue[q][p]), m.count.target = c,
                 Is(m, {"produce", "consume", "start_detection"})
          PROVE  FALSE
      <3>1. CASE m.kind = "copy"
        <4>1. PICK j \in 1 .. Ran(h) : At(h, p) < j /\ m = Entry(h, j)
          BY <1>5, <3>1
        <4>2. j \in (mark + 1) .. Ran(h)
          BY <1>4, <2>2, <2>4, <4>1
        <4>3. Ends(m)
          BY <2>2, <2>6, <4>1, <4>2 DEF Quiet, Of
        <4> QED
          BY <2>6, <4>3 DEF Is, Ends
      <3>2. CASE m.kind = "post" /\ m.entry = "consume"
        <4>1. m \in Uses(c) /\ p \in {0, q}
          BY <1>3, <2>6, <3>2 DEF Uses, MayGo
        <4>2. Waiting(queue, q, c) = 0
          BY <2>2, <2>3 DEF Spent, Quiet
        <4>3. Hit(queue, q, q, Uses(c)) \in Nat /\ Hit(queue, q, 0, Uses(c)) \in Nat
          BY <1>1, FinitePEs, NoneOn
        <4>4. Hit(queue, q, p, Uses(c)) = 0
          <5>1. CASE q = 0
            BY <4>1, <4>2, <4>3, <5>1 DEF Waiting
          <5>2. CASE q # 0
            <6> DEFINE a == Hit(queue, q, q, Uses(c))
                       b == Hit(queue, q, 0, Uses(c))
            <6>1. a + b = 0 /\ a \in Nat /\ b \in Nat
              BY <4>2, <4>3, <5>2 DEF Waiting
            <6> HIDE DEF a, b
            <6>2. a = 0 /\ b = 0
              BY <6>1
            <6> QED
              BY <4>1, <6>2 DEF a, b
          <5> QED
            BY <5>1, <5>2
        <4>5. Holds(queue, q, p) \cap Uses(c) = {}
          BY <1>1, <4>4, NoneOn
        <4> QED
          BY <1>3, <4>1, <4>5
      <3>3. CASE m.kind = "post" /\ m.entry # "consume"
        <4>1. q = 0 /\ p = 0 /\ m \in Calls(c)
          BY <1>3, <2>6, <3>3 DEF MayGo, Calls
        <4>2. CallIn(m, stage, Due(h, mark, c))
          BY <1>3, <2>3, <4>1 DEF Staged
        <4>3. m.kind = "post" /\ m.entry \in {"produce", "start_detection"}
          BY <2>6, <3>3 DEF Is
        <4> QED
          BY <2>2, <4>2, <4>3 DEF CallIn, Tells
      <3> QED
        BY <2>6, <3>1, <3>2, <3>3 DEF Is
    <2> QED
      BY <2>5, <2>6 DEF InFlight
  <1>7. ASSUME NEW q \in PE, NEW p \in PE, NEW m \in ToSet(queue[q][p]),
               m.kind = "copy", Finished(m)
        PROVE  lcount[p][m.count.target] = 0
    <2> DEFINE c == Of(m)
    <2>1. PICK j \in 1 .. Ran(h) : At(h, p) < j /\ m = Entry(h, j)
      BY <1>5, <1>7
    <2>2. c \in Col /\ Ends(m)
      BY <1>3, <1>7 DEF Of, Ends, Finished, Is, complete
    <2>3. PICK prod, used, mark, fired, stage :
             OfCol(c, h, prod, used, mark, fired, stage, queue, received, started, asleep)
      BY <1>2, <2>2 DEF KeptAll, Kept
    <2>4. Owed(h, c, mark, prod, j)
      BY <2>1, <2>3 DEF OfCol, Pending
    <2>5. PICK i \in 0 .. j : /\ \A r \in PE : At(h, r) >= i
                              /\ \A k \in i .. j : Due(h, k, c) = 0
      BY <2>1, <2>2, <2>4 DEF Owed
    <2>6. At(h, p) \in i .. j
      BY <1>4, <2>1, <2>5
    <2>7. Due(h, At(h, p), c) = 0
      BY <2>5, <2>6
    <2>8. lcount[p][c] = 0
      BY <1>2, <2>2, <2>7, PastDue
    <2> QED
      BY <2>8 DEF Of
  <1> QED
    BY <1>1, <1>6, <1>7 DEF DetectionSound, NoFault

(* Whenever a detection completes, all events of its collection have been  *)
(* consumed on all PEs, whatever the other collections do, for any number  *)
(* of PEs and any spanning tree, as long as the tags of the collections    *)
(* differ (completion.hpp:94, 130).                                        *)
THEOREM Soundness ==
    ASSUME DistinctTags
    PROVE  Spec => []DetectionSound
  <1>1. Init => IInv
    BY AgreedInit
  <1>2. IInv /\ [Next]_vars => IInv'
    BY IInvStep
  <1>3. IInv => DetectionSound
    BY IInvSound
  <1> QED
    BY <1>1, <1>2, <1>3, PTL DEF Spec

(* And no assertion fails: no count is an orphan, and none is added to a   *)
(* count of another collection (completion.hpp:133, 49).                   *)
THEOREM AssertionsHold ==
    ASSUME DistinctTags
    PROVE  Spec => []NoFault
  <1>1. Init => IInv
    BY AgreedInit
  <1>2. IInv /\ [Next]_vars => IInv'
    BY IInvStep
  <1>3. IInv => NoFault
    BY IInvSound
  <1> QED
    BY <1>1, <1>2, <1>3, PTL DEF Spec

(* While no PE has constructed more than 15 collections, and there are at  *)
(* most 4234 PEs, nothing need be assumed of the tags.                     *)
THEOREM FewCollections ==
    ASSUME \A c \in Col : c.id < 15 /\ c.pe < 4234
    PROVE  Spec => [](DetectionSound /\ NoFault)
  <1>1. DistinctTags
    <2> SUFFICES ASSUME NEW c \in Col, NEW d \in Col, compress(c) = compress(d)
                 PROVE  c = d
      BY DEF DistinctTags
    <2> QED
      BY TagsDiffer, DetectionAssumption
  <1> QED
    BY <1>1, Soundness, AssertionsHold, PTL
=============================================================================
