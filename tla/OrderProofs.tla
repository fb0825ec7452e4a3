----------------------------- MODULE OrderProofs ----------------------------
(***************************************************************************)
(* Broadcast implements TotalOrder, for every number of PEs, every tree    *)
(* and any migrations, as long as there are more numbers than broadcasts;  *)
(* and it conserves broadcasts, however many there are.                    *)
(***************************************************************************)
EXTENDS BroadcastProofs

-----------------------------------------------------------------------------
(* Places that hold sequences, no two of which share an element *)

Apart(held, I, S) ==
    /\ \A x \in I : held[x] \in Seq(S) /\ IsInjective(held[x])
    /\ \A x, y \in I : x # y => ToSet(held[x]) \cap ToSet(held[y]) = {}

LEMMA OneIsInjective == \A b : IsInjective(<<b>>) /\ ToSet(<<b>>) = {b}
  BY DEF IsInjective, ToSet

(* Something new is put into one place *)
LEMMA Added ==
    ASSUME NEW I, NEW S, NEW held, Apart(held, I, S), NEW b, b \notin S,
           NEW x \in I, NEW new, new[x] = held[x] \o <<b>>,
           \A z \in I : z # x => new[z] = held[z]
    PROVE  Apart(new, I, S \cup {b})
  <1> DEFINE T == S \cup {b}
  <1>1. \A z \in I : held[z] \in Seq(T) /\ IsInjective(held[z]) /\ ToSet(held[z]) \subseteq S
    <2> SUFFICES ASSUME NEW z \in I
                 PROVE  /\ held[z] \in Seq(T) /\ IsInjective(held[z])
                        /\ ToSet(held[z]) \subseteq S
      OBVIOUS
    <2>1. held[z] \in Seq(S) /\ IsInjective(held[z])
      BY DEF Apart
    <2>2. S \subseteq T
      OBVIOUS
    <2>3. held[z] \in Seq(T)
      BY <2>1, <2>2, SeqMonotonic
    <2>4. ToSet(held[z]) \subseteq S
      BY <2>1, LenProperties, ElementOfSeq DEF ToSet
    <2> QED
      BY <2>1, <2>3, <2>4
  <1>2. <<b>> \in Seq(T) /\ IsInjective(<<b>>) /\ ToSet(<<b>>) = {b}
    BY OneIsInjective
  <1> DEFINE one == <<b>>
  <1> HIDE DEF T, one
  <1>3. /\ held[x] \o one \in Seq(T) /\ IsInjective(held[x] \o one)
        /\ ToSet(held[x] \o one) = ToSet(held[x]) \cup {b}
    <2>1. /\ held[x] \in Seq(T) /\ IsInjective(held[x])
          /\ one \in Seq(T) /\ IsInjective(one) /\ ToSet(one) = {b}
      BY <1>1, <1>2 DEF one
    <2>2. ToSet(held[x]) \cap ToSet(one) = {}
      BY <1>1, <2>1
    <2>3. held[x] \o one \in Seq(T)
      BY <2>1, ConcatFacts
    <2> QED
      BY <2>1, <2>2, <2>3, InjectiveConcat, ToSetConcat
  <1>4. new[x] = held[x] \o one
    BY DEF one
  <1>5. \A z \in I : /\ new[z] \in Seq(T) /\ IsInjective(new[z])
                     /\ z # x => ToSet(new[z]) = ToSet(held[z])
                     /\ z = x => ToSet(new[z]) = ToSet(held[x]) \cup {b}
    BY <1>1, <1>3, <1>4
  <1>6. \A z \in I : b \notin ToSet(held[z])
    BY <1>1
  <1>7. \A y, z \in I : y # z => ToSet(new[y]) \cap ToSet(new[z]) = {}
    BY <1>5, <1>6 DEF Apart
  <1> QED
    BY <1>5, <1>7 DEF Apart, T

(* Some of what is in one place moves to the end of another *)
LEMMA Transferred ==
    ASSUME NEW I, NEW S, NEW held, Apart(held, I, S),
           NEW x \in I, NEW y \in I, x # y,
           NEW kept \in Seq(S), NEW moved \in Seq(S),
           IsInjective(kept), IsInjective(moved),
           ToSet(kept) \cap ToSet(moved) = {},
           ToSet(kept) \cup ToSet(moved) \subseteq ToSet(held[x]),
           NEW new, new[x] = kept, new[y] = held[y] \o moved,
           \A z \in I : z # x /\ z # y => new[z] = held[z]
    PROVE  Apart(new, I, S)
  <1>1. /\ held[y] \in Seq(S) /\ IsInjective(held[y])
        /\ ToSet(held[y]) \cap ToSet(moved) = {}
    BY DEF Apart
  <1>2. /\ held[y] \o moved \in Seq(S) /\ IsInjective(held[y] \o moved)
        /\ ToSet(held[y] \o moved) = ToSet(held[y]) \cup ToSet(moved)
    BY <1>1, ConcatFacts, InjectiveConcat, ToSetConcat
  <1> DEFINE filled == held[y] \o moved
  <1>3. new[y] = filled
    OBVIOUS
  <1>4. /\ filled \in Seq(S) /\ IsInjective(filled)
        /\ ToSet(filled) = ToSet(held[y]) \cup ToSet(moved)
    BY <1>2
  <1> HIDE DEF filled
  <1>5. \A z \in I : /\ new[z] \in Seq(S) /\ IsInjective(new[z])
                     /\ z # x /\ z # y => ToSet(new[z]) = ToSet(held[z])
                     /\ z = x => ToSet(new[z]) = ToSet(kept)
                     /\ z = y => ToSet(new[z]) = ToSet(held[y]) \cup ToSet(moved)
    BY <1>3, <1>4 DEF Apart
  <1>6. \A v, z \in I : v # z => ToSet(held[v]) \cap ToSet(held[z]) = {}
    BY DEF Apart
  <1>7. ASSUME NEW v \in I, NEW z \in I, v # z
        PROVE  ToSet(new[v]) \cap ToSet(new[z]) = {}
    <2> SUFFICES ASSUME NEW b, b \in ToSet(new[v]), b \in ToSet(new[z])
                 PROVE  FALSE
      OBVIOUS
    <2> QED
      BY <1>5, <1>6, <1>7
  <1> QED
    BY <1>5, <1>7 DEF Apart

(* All of what is in one place moves *)
LEMMA AllTransferred ==
    ASSUME NEW I, NEW S, NEW held, Apart(held, I, S),
           NEW x \in I, NEW y \in I, x # y, NEW moved, moved = held[x],
           NEW new, new[x] \in Seq(S), Len(new[x]) = 0,
           new[y] = held[y] \o moved,
           \A z \in I : z # x /\ z # y => new[z] = held[z]
    PROVE  Apart(new, I, S)
  <1>1. moved \in Seq(S) /\ IsInjective(moved) /\ ToSet(moved) = ToSet(held[x])
    BY DEF Apart
  <1>2. DOMAIN new[x] = {}
    BY LenProperties
  <1> DEFINE kept == new[x]
  <1>3. kept \in Seq(S) /\ IsInjective(kept) /\ ToSet(kept) = {} /\ new[x] = kept
    BY <1>2 DEF IsInjective, ToSet
  <1> HIDE DEF kept
  <1>4. /\ ToSet(kept) \cap ToSet(moved) = {}
        /\ ToSet(kept) \cup ToSet(moved) \subseteq ToSet(held[x])
    BY <1>1, <1>3
  <1> QED
    BY <1>1, <1>3, <1>4, Transferred

(* The i-th element of one place moves *)
LEMMA OneTransferred ==
    ASSUME NEW I, NEW S, NEW held, Apart(held, I, S),
           NEW x \in I, NEW y \in I, x # y, NEW i \in DOMAIN held[x],
           NEW new, new[x] = RemoveAt(held[x], i),
           new[y] = held[y] \o <<held[x][i]>>,
           \A z \in I : z # x /\ z # y => new[z] = held[z]
    PROVE  Apart(new, I, S)
  <1> DEFINE one == <<held[x][i]>>
             rest == RemoveAt(held[x], i)
  <1>1. held[x] \in Seq(S) /\ IsInjective(held[x])
    BY DEF Apart
  <1>2. held[x][i] \in S /\ held[x][i] \in ToSet(held[x])
    <2>1. i \in 1 .. Len(held[x])
      BY <1>1, LenProperties
    <2> QED
      BY <1>1, <2>1, ElementOfSeq DEF ToSet
  <1>3. rest \in Seq(S)
    BY <1>1, RemoveAtFacts
  <1>4. ToSet(rest) = ToSet(held[x]) \ {held[x][i]} /\ IsInjective(rest)
    BY <1>1, ToSetRemoveAt
  <1>5. one \in Seq(S) /\ IsInjective(one) /\ ToSet(one) = {held[x][i]}
    BY <1>2, OneIsInjective
  <1>6. new[x] = rest /\ new[y] = held[y] \o one
    OBVIOUS
  <1> HIDE DEF one, rest
  <1>7. /\ ToSet(rest) \cap ToSet(one) = {}
        /\ ToSet(rest) \cup ToSet(one) \subseteq ToSet(held[x])
    BY <1>2, <1>4, <1>5
  <1> QED
    BY <1>3, <1>4, <1>5, <1>6, <1>7, Transferred

-----------------------------------------------------------------------------
(* The broadcasts a sequence of packets is about *)

Bcasts(s) == [i \in DOMAIN s |-> s[i].bcast]

LEMMA BcastsOf ==
    ASSUME NEW P, \A n \in P : n.bcast \in Bcast, NEW s \in Seq(P)
    PROVE  /\ Bcasts(s) \in Seq(Bcast) /\ Len(Bcasts(s)) = Len(s)
           /\ DOMAIN Bcasts(s) = DOMAIN s
           /\ \A i \in 1 .. Len(s) : Bcasts(s)[i] = s[i].bcast
  <1>1. Len(s) \in Nat /\ DOMAIN s = 1 .. Len(s)
    BY LenProperties
  <1>2. Bcasts(s) \in [1 .. Len(s) -> Bcast]
    BY <1>1, ElementOfSeq DEF Bcasts
  <1> QED
    BY <1>1, <1>2, FunctionIsSeq DEF Bcasts

LEMMA PostsAreAbout == \A n \in Posts : n.bcast \in Bcast
  BY DEF Posts

LEMMA BcastsConcat ==
    ASSUME NEW s \in Seq(Posts), NEW t \in Seq(Posts)
    PROVE  Bcasts(s \o t) = Bcasts(s) \o Bcasts(t)
  <1> DEFINE b == Bcasts(s)
             c == Bcasts(t)
             u == s \o t
             d == Bcasts(u)
  <1>1. /\ b \in Seq(Bcast) /\ Len(b) = Len(s) /\ Len(s) \in Nat
        /\ \A i \in 1 .. Len(s) : b[i] = s[i].bcast
    BY PostsAreAbout, BcastsOf, LenProperties
  <1>2. /\ c \in Seq(Bcast) /\ Len(c) = Len(t) /\ Len(t) \in Nat
        /\ \A i \in 1 .. Len(t) : c[i] = t[i].bcast
    BY PostsAreAbout, BcastsOf, LenProperties
  <1>3. /\ u \in Seq(Posts) /\ Len(u) = Len(s) + Len(t)
        /\ \A j \in 1 .. Len(s) : u[j] = s[j]
        /\ \A j \in 1 .. Len(t) : u[Len(s) + j] = t[j]
    BY ConcatFacts
  <1> HIDE DEF u
  <1>4. /\ d \in Seq(Bcast) /\ Len(d) = Len(u)
        /\ \A i \in 1 .. Len(u) : d[i] = u[i].bcast
    BY <1>3, PostsAreAbout, BcastsOf
  <1> HIDE DEF b, c, d
  <1>5. /\ b \o c \in Seq(Bcast) /\ Len(b \o c) = Len(b) + Len(c)
        /\ \A j \in 1 .. Len(b) : (b \o c)[j] = b[j]
        /\ \A j \in 1 .. Len(c) : (b \o c)[Len(b) + j] = c[j]
    <2>1. b \in Seq(Bcast) /\ c \in Seq(Bcast)
      BY <1>1, <1>2
    <2> QED
      BY <2>1, ConcatFacts
  <1> DEFINE e == b \o c
  <1>6. /\ e \in Seq(Bcast) /\ Len(e) = Len(s) + Len(t)
        /\ \A j \in 1 .. Len(s) : e[j] = b[j]
        /\ \A j \in 1 .. Len(t) : e[Len(s) + j] = c[j]
    BY <1>1, <1>2, <1>5
  <1> HIDE DEF e
  <1>7. ASSUME NEW i \in 1 .. Len(d)
        PROVE  d[i] = e[i]
    <2>1. CASE i <= Len(s)
      <3>1. i \in 1 .. Len(s) /\ i \in 1 .. Len(u)
        BY <1>1, <1>2, <1>3, <1>4, <2>1
      <3> QED
        BY <1>1, <1>3, <1>4, <1>6, <3>1
    <2>2. CASE i > Len(s)
      <3>1. PICK j \in 1 .. Len(t) : i = Len(s) + j
        <4>1. i - Len(s) \in 1 .. Len(t) /\ i = Len(s) + (i - Len(s))
          BY <1>1, <1>2, <1>3, <1>4, <2>2
        <4> QED
          BY <4>1
      <3>2. d[i] = u[i].bcast /\ u[i] = t[j]
        BY <1>3, <1>4, <3>1
      <3>3. e[i] = c[j] /\ c[j] = t[j].bcast
        BY <1>2, <1>6, <3>1
      <3> QED
        BY <3>2, <3>3
    <2> QED
      BY <1>1, <1>3, <1>4, <2>1, <2>2
  <1>8. d = e
    BY <1>3, <1>4, <1>6, <1>7, SeqEqual
  <1> QED
    BY <1>8 DEF b, c, d, e, u

LEMMA BcastsRemoveAt ==
    ASSUME NEW s \in Seq(Posts), NEW i \in DOMAIN s
    PROVE  Bcasts(RemoveAt(s, i)) = RemoveAt(Bcasts(s), i)
  <1> DEFINE b == Bcasts(s)
             u == RemoveAt(s, i)
             d == Bcasts(u)
             e == RemoveAt(b, i)
  <1>1. /\ b \in Seq(Bcast) /\ Len(b) = Len(s) /\ Len(s) \in Nat
        /\ i \in 1 .. Len(s) /\ i \in DOMAIN b
        /\ \A j \in 1 .. Len(s) : b[j] = s[j].bcast
    BY PostsAreAbout, BcastsOf, LenProperties
  <1>2. /\ u \in Seq(Posts) /\ Len(u) = Len(s) - 1
        /\ \A j \in 1 .. (Len(s) - 1) : u[j] = s[IF j < i THEN j ELSE j + 1]
    BY RemoveAtFacts
  <1> HIDE DEF u, b
  <1>3. /\ d \in Seq(Bcast) /\ Len(d) = Len(u)
        /\ \A j \in 1 .. Len(u) : d[j] = u[j].bcast
    BY <1>2, PostsAreAbout, BcastsOf
  <1>4. /\ e \in Seq(Bcast) /\ Len(e) = Len(b) - 1
        /\ \A j \in 1 .. (Len(b) - 1) : e[j] = b[IF j < i THEN j ELSE j + 1]
    BY <1>1, RemoveAtFacts
  <1> HIDE DEF d, e
  <1>5. ASSUME NEW j \in 1 .. Len(d)
        PROVE  d[j] = e[j]
    <2>1. j \in 1 .. (Len(s) - 1) /\ (IF j < i THEN j ELSE j + 1) \in 1 .. Len(s)
      BY <1>1, <1>2, <1>3
    <2> QED
      BY <1>1, <1>2, <1>3, <1>4, <2>1
  <1>6. d = e
    BY <1>1, <1>2, <1>3, <1>4, <1>5, SeqEqual
  <1> QED
    BY <1>6 DEF b, d, e, u

LEMMA BcastsOfPosts ==
    ASSUME NEW bs \in Seq(Bcast)
    PROVE  LET posts == [i \in DOMAIN bs |-> Post(bs[i])]
           IN  posts \in Seq(Posts) /\ Bcasts(posts) = bs
  <1> DEFINE posts == [i \in DOMAIN bs |-> Post(bs[i])]
  <1>1. Len(bs) \in Nat /\ DOMAIN bs = 1 .. Len(bs)
    BY LenProperties
  <1>2. posts \in [1 .. Len(bs) -> Posts]
    BY <1>1, ElementOfSeq DEF Post, Posts
  <1>3. posts \in Seq(Posts) /\ Len(posts) = Len(bs)
    BY <1>1, <1>2, FunctionIsSeq
  <1>4. \A i \in 1 .. Len(bs) : posts[i].bcast = bs[i]
    BY <1>1 DEF Post
  <1> HIDE DEF posts
  <1>5. /\ Bcasts(posts) \in Seq(Bcast) /\ Len(Bcasts(posts)) = Len(bs)
        /\ \A i \in 1 .. Len(bs) : Bcasts(posts)[i] = bs[i]
    BY <1>3, <1>4, PostsAreAbout, BcastsOf
  <1>6. Bcasts(posts) = bs
    BY <1>5, SeqEqual
  <1> QED
    BY <1>3, <1>6 DEF posts

LEMMA BcastsOfOne ==
    ASSUME NEW b \in Bcast
    PROVE  <<Post(b)>> \in Seq(Posts) /\ Bcasts(<<Post(b)>>) = <<b>>
  <1>1. Post(b) \in Posts
    BY DEF Post, Posts
  <1>2. Post(b).bcast = b
    BY DEF Post
  <1> QED
    BY <1>1, <1>2 DEF Bcasts

LEMMA BcastsOfNumbered ==
    ASSUME NEW bs \in Seq(Bcast)
    PROVE  Bcasts(numbered(bs)) = bs
  <1>1. Len(bs) \in Nat /\ DOMAIN bs = 1 .. Len(bs)
    BY LenProperties
  <1>2. \A b, k, q : Copy(b, k, q).bcast = b
    BY DEF Copy
  <1>3. Bcasts(numbered(bs)) = [i \in DOMAIN bs |-> bs[i]]
    BY <1>2 DEF Bcasts, numbered
  <1>4. bs = [i \in DOMAIN bs |-> bs[i]]
    OBVIOUS
  <1> QED
    BY <1>3, <1>4

-----------------------------------------------------------------------------
(* Where a broadcast can be: on its way to the root of the tree, among     *)
(* those a PE has put aside, and in what the root has run                  *)

Place == {"queue", "phase", "root"} \X PE \X PE
RootRoute(p, q) == [from |-> p, to |-> q, idx |-> bcast_root]

OnTheWay(p, q) == <<"queue", p, q>>
PutAside(p) == <<"phase", p, p>>
AtRoot == <<"root", 0, 0>>

HeldIn(net, aside, order) ==
    [x \in Place |->
        CASE x[1] = "queue" -> Bcasts(net[RootRoute(x[2], x[3])])
          [] x = PutAside(x[2]) -> aside[x[2]]
          [] x = AtRoot -> order
          [] OTHER -> <<>>]

Held == HeldIn(queue, collective_buffer, ran[root])

Unique == Apart(Held, Place, posted)

LEMMA Places ==
    /\ \A p, q \in PE : OnTheWay(p, q) \in Place /\ RootRoute(p, q) \in Route
    /\ \A p \in PE : PutAside(p) \in Place
    /\ AtRoot \in Place
    /\ \A p, q, r \in PE : /\ OnTheWay(p, q) # PutAside(r)
                           /\ OnTheWay(p, q) # AtRoot
                           /\ PutAside(r) # AtRoot
    /\ \A p, q, r, s \in PE : OnTheWay(p, q) = OnTheWay(r, s) => p = r /\ q = s
  <1>1. 0 \in PE
    BY NumPesAssumption DEF PE
  <1>2. \A p, q, r, s \in PE : OnTheWay(p, q) = OnTheWay(r, s) => p = r /\ q = s
    BY DEF OnTheWay
  <1>3. \A p, q, r \in PE : /\ OnTheWay(p, q) # PutAside(r)
                            /\ OnTheWay(p, q) # AtRoot
                            /\ PutAside(r) # AtRoot
    BY DEF OnTheWay, PutAside, AtRoot
  <1>4. \A p, q \in PE : OnTheWay(p, q) \in Place /\ RootRoute(p, q) \in Route
    BY DEF Place, OnTheWay, RootRoute, Route
  <1> QED
    BY <1>1, <1>2, <1>3, <1>4 DEF Place, PutAside, AtRoot

(* What is in each of them *)
LEMMA HeldThere ==
    ASSUME NEW net, NEW aside, NEW order
    PROVE  LET held == HeldIn(net, aside, order)
           IN  /\ \A p, q \in PE : held[OnTheWay(p, q)] = Bcasts(net[RootRoute(p, q)])
               /\ \A p \in PE : held[PutAside(p)] = aside[p]
               /\ held[AtRoot] = order
  <1> DEFINE held == HeldIn(net, aside, order)
  <1>1. \A p, q \in PE : held[OnTheWay(p, q)] = Bcasts(net[RootRoute(p, q)])
    BY Places DEF HeldIn, OnTheWay
  <1>2. \A p \in PE : held[PutAside(p)] = aside[p]
    BY Places DEF HeldIn, PutAside
  <1>3. held[AtRoot] = order
    BY Places DEF HeldIn, AtRoot, PutAside
  <1> QED
    BY <1>1, <1>2, <1>3

(* The places a step leaves alone *)
LEMMA HeldKept ==
    ASSUME NEW A \in SUBSET Place,
           \A p, q \in PE : OnTheWay(p, q) \notin A =>
               queue'[RootRoute(p, q)] = queue[RootRoute(p, q)],
           \A p \in PE : PutAside(p) \notin A =>
               collective_buffer'[p] = collective_buffer[p],
           AtRoot \notin A => ran'[root] = ran[root]
    PROVE  \A x \in Place : x \notin A => Held'[x] = Held[x]
  <1> SUFFICES ASSUME NEW x \in Place, x \notin A
               PROVE  Held'[x] = Held[x]
    OBVIOUS
  <1>1. CASE x[1] = "queue"
    <2>1. PICK p \in PE, q \in PE : x = OnTheWay(p, q)
      BY <1>1 DEF Place, OnTheWay
    <2> QED
      BY <1>1, <2>1 DEF Held, HeldIn, OnTheWay
  <1>2. CASE x[1] # "queue" /\ x = PutAside(x[2])
    <2>1. x[2] \in PE
      BY DEF Place
    <2> QED
      BY <1>2, <2>1 DEF Held, HeldIn
  <1>3. CASE x[1] # "queue" /\ x # PutAside(x[2]) /\ x = AtRoot
    BY <1>3 DEF Held, HeldIn
  <1>4. CASE x[1] # "queue" /\ x # PutAside(x[2]) /\ x # AtRoot
    BY <1>4 DEF Held, HeldIn
  <1> QED
    BY <1>1, <1>2, <1>3, <1>4

-----------------------------------------------------------------------------
(* What handlers run *)

Ran(e, bs) == ran' = [ran EXCEPT ![e] = ran[e] \o bs]

(* Nothing but net is left on its way to the root of the tree *)
RootRoutesKept(net) ==
    \A p, q \in PE : queue'[RootRoute(p, q)] = net[RootRoute(p, q)]

(* A handler at e; the root runs those in bs and no others *)
HandledAt(e, bs, net) ==
    /\ RootRoutesKept(net)
    /\ \E cs \in Seq(Bcast) : Ran(e, cs) /\ (e = root => cs = bs)

LEMMA CopiesAreAbout == \A n \in CopyPacket : n.bcast \in Bcast
  BY DEF CopyPacket

LEMMA RunAllRuns ==
    ASSUME OrderInv, NEW p \in PE, NEW e \in Elem, NEW run \in Seq(CopyPacket),
           NEW net, RunAll(p, e, run, net)
    PROVE  Bcasts(run) \in Seq(Bcast) /\ Ran(e, Bcasts(run)) /\ RootRoutesKept(net)
  <1>1. Bcasts(run) \in Seq(Bcast)
    BY CopiesAreAbout, BcastsOf
  <1>2. Ran(e, Bcasts(run))
    <2>1. ran \in [Elem -> Seq(Bcast)]
      BY DEF OrderInv, TypeOK
    <2> QED
      BY <2>1 DEF RunAll, Ran, Bcasts
  <1>3. RootRoutesKept(net)
    <2> SUFFICES ASSUME NEW q \in PE, NEW s \in PE
                 PROVE  queue'[RootRoute(q, s)] = net[RootRoute(q, s)]
      BY DEF RootRoutesKept
    <2>1. RootRoute(q, s) \in Route /\ RootRoute(q, s).idx = bcast_root
      BY Places DEF RootRoute
    <2>2. bcast_root \notin children[e]
      BY BroadcastAssumption, RootIndex
    <2> QED
      BY <2>1, <2>2 DEF RunAll
  <1> QED
    BY <1>1, <1>2, <1>3

LEMMA NothingRan ==
    ASSUME OrderInv, NEW e \in Elem, UNCHANGED ran
    PROVE  Ran(e, <<>>)
  <1>1. ran[e] \in Seq(Bcast) /\ ran \in [Elem -> Seq(Bcast)]
    BY DEF OrderInv, TypeOK
  <1>2. ran[e] \o <<>> = ran[e]
    BY <1>1, ConcatEmptySeq
  <1> QED
    BY <1>1, <1>2 DEF Ran

LEMMA FlushHereHandles ==
    ASSUME OrderInv, NEW p \in PE, NEW e \in Elem, NEW run \in Seq(CopyPacket),
           NEW net, FlushHere(p, e, run, net)
    PROVE  HandledAt(e, Bcasts(run), net)
  <1>1. CASE RunAll(p, e, run, net)
    BY <1>1, RunAllRuns DEF HandledAt
  <1>2. CASE FlushCrash(p, e, run, net)
    <2>1. PICK i \in DOMAIN buffers[p][e] :
              RunAll(p, e, Append(run, buffers[p][e][i]), net)
      BY <1>2 DEF FlushCrash
    <2>2. buffers[p][e] \in Seq(CopiesFor(e, Agreed))
      BY DEF OrderInv, BuffersOK
    <2>3. buffers[p][e][i] \in CopiesFor(e, Agreed)
      BY <2>2, LenProperties, ElementOfSeq
    <2>4. e # root /\ buffers[p][e][i] \in CopyPacket
      BY <2>3 DEF CopiesFor, Agreed, SentCopy, CopyPacket
    <2>5. Append(run, buffers[p][e][i]) \in Seq(CopyPacket)
      BY <2>4, AppendFacts
    <2> QED
      BY <2>1, <2>4, <2>5, RunAllRuns DEF HandledAt
  <1> QED
    BY <1>1, <1>2 DEF FlushHere, FlushClear, FlushLoop

(* Sending to an element *)
LEMMA EmitElsewhere ==
    ASSUME NEW net, NEW p, NEW to, NEW e \in Elem, NEW packs, NEW q, NEW s,
           DOMAIN net = Route, RootRoute(q, s) \in Route
    PROVE  Emit(net, p, to, e, packs)[RootRoute(q, s)] = net[RootRoute(q, s)]
  <1>1. [from |-> p, to |-> to, idx |-> e] # RootRoute(q, s)
    BY RootIndex DEF RootRoute
  <1> QED
    BY <1>1 DEF Emit

LEMMA FlushBuffersHandles ==
    ASSUME OrderInv, NEW p \in PE, NEW e \in Elem, NEW net, DOMAIN net = Route,
           FlushBuffers(p, e, net)
    PROVE  HandledAt(e, <<>>, net)
  <1>1. CASE FlushHere(p, e, <<>>, net)
    <2>1. Bcasts(<<>>) = <<>>
      BY DEF Bcasts
    <2>2. <<>> \in Seq(CopyPacket)
      BY EmptySeq
    <2>3. HandledAt(e, Bcasts(<<>>), net)
      BY <1>1, <2>2, FlushHereHandles
    <2> QED
      BY <2>1, <2>3
  <1>2. CASE FlushAway(p, e, net)
    <2>1. Ran(e, <<>>) /\ <<>> \in Seq(Bcast)
      BY <1>2, NothingRan, EmptySeq DEF FlushAway
    <2>2. RootRoutesKept(net)
      BY <1>2, EmitElsewhere, Places DEF FlushAway, Reroute, RootRoutesKept
    <2> QED
      BY <2>1, <2>2 DEF HandledAt
  <1> QED
    BY <1>1, <1>2 DEF FlushBuffers

-----------------------------------------------------------------------------
(* Running and the abstract specification *)

(* Every number is used at most once *)
EnoughNumbers == IsFiniteSet(Bcast) /\ Cardinality(Bcast) < MaxCollective

LEMMA ShortOrder ==
    ASSUME EnoughNumbers, NEW s \in Seq(Bcast), IsInjective(s)
    PROVE  Len(s) < MaxCollective
  <1>1. Len(s) \in Nat /\ s \in [1 .. Len(s) -> Bcast]
    BY LenProperties
  <1>2. s \in Injection(1 .. Len(s), Bcast)
    BY <1>1 DEF Injection
  <1>3. Cardinality(1 .. Len(s)) <= Cardinality(Bcast)
    BY <1>2, FS_Injection DEF EnoughNumbers
  <1>4. Cardinality(1 .. Len(s)) = Len(s)
    BY <1>1, FS_Interval
  <1>5. Cardinality(Bcast) \in Nat
    BY FS_CardinalityType DEF EnoughNumbers
  <1> QED
    BY <1>1, <1>3, <1>4, <1>5, BroadcastAssumption DEF EnoughNumbers

LEMMA StrictPrefixOfConcat ==
    ASSUME NEW S, NEW s \in Seq(S), NEW t \in Seq(S), t # <<>>
    PROVE  IsStrictPrefix(s, s \o t)
  <1> DEFINE u == s \o t
  <1>1. /\ u \in Seq(S) /\ Len(u) = Len(s) + Len(t)
        /\ \A j \in 1 .. Len(s) : u[j] = s[j]
    BY ConcatFacts
  <1>2. Len(s) \in Nat /\ Len(t) \in Nat /\ Len(t) # 0
    BY LenProperties, EmptySeq
  <1> HIDE DEF u
  <1>3. \A j \in 1 .. Len(s) : s[j] \in S /\ u[j] \in S
    BY <1>1, <1>2, ElementOfSeq
  <1>4. /\ SubSeq(s, 1, Len(s)) \in Seq(S) /\ Len(SubSeq(s, 1, Len(s))) = Len(s)
        /\ \A j \in 1 .. Len(s) : SubSeq(s, 1, Len(s))[j] = s[j]
    BY <1>2, <1>3, SubSeqProperties
  <1>5. /\ SubSeq(u, 1, Len(s)) \in Seq(S) /\ Len(SubSeq(u, 1, Len(s))) = Len(s)
        /\ \A j \in 1 .. Len(s) : SubSeq(u, 1, Len(s))[j] = u[j]
    BY <1>2, <1>3, SubSeqProperties
  <1>6. SubSeq(s, 1, Len(s)) = SubSeq(u, 1, Len(s))
    BY <1>1, <1>4, <1>5, SeqEqual
  <1>7. Len(s) <= Len(u) /\ s # u
    BY <1>1, <1>2
  <1> QED
    BY <1>6, <1>7 DEF IsStrictPrefix, IsPrefix, u

(* What the root runs it decides on; what another element runs follows it *)
LEMMA RunningRefines ==
    ASSUME EnoughNumbers, OrderInv, OrderInv', Unique', UNCHANGED posted,
           NEW e \in Elem, NEW bs \in Seq(Bcast), Ran(e, bs)
    PROVE  Abstract!Next \/ UNCHANGED Abstract!vars
  <1>1. /\ ran \in [Elem -> Seq(Bcast)] /\ ran' \in [Elem -> Seq(Bcast)]
        /\ root \in Elem
    BY BroadcastAssumption DEF OrderInv, TypeOK
  <1>2. /\ ran'[root] \in Seq(posted) /\ IsInjective(ran'[root])
    BY HeldThere, Places DEF Unique, Apart, Held
  <1>3. CASE bs = <<>>
    <2>1. ran[e] \o <<>> = ran[e]
      BY <1>1, ConcatEmptySeq
    <2> QED
      BY <1>1, <1>3, <2>1 DEF Ran, Abstract!vars
  <1>4. CASE bs # <<>> /\ e = root
    <2>1. ran'[root] = ran[root] \o bs
      BY <1>1, <1>4 DEF Ran
    <2>2. IsStrictPrefix(ran[root], ran'[root])
      BY <1>1, <1>4, <2>1, StrictPrefixOfConcat
    <2>3. ToSet(ran'[root]) \subseteq posted
      BY <1>2, LenProperties, ElementOfSeq DEF ToSet
    <2>4. ran' = [ran EXCEPT ![root] = ran'[root]]
      BY <1>1, <1>4, <2>1 DEF Ran
    <2>5. Abstract!Decide
      BY <1>2, <2>2, <2>3, <2>4
         DEF Abstract!Decide, Abstract!IsStrictPrefix, Abstract!IsPrefix,
             Abstract!ToSet, Abstract!IsInjective, IsStrictPrefix, IsPrefix,
             ToSet, IsInjective
    <2> QED
      BY <2>5 DEF Abstract!Next
  <1>5. CASE bs # <<>> /\ e # root
    <2> DEFINE n == Len(ran'[e])
    <2>1. ran'[e] = ran[e] \o bs /\ ran'[root] = ran[root]
      BY <1>1, <1>5 DEF Ran
    <2>2. /\ Len(bs) \in Nat /\ Len(bs) # 0
          /\ Len(ran[e]) \in Nat /\ Len(ran[root]) \in Nat
      BY <1>1, <1>5, LenProperties, EmptySeq
    <2>3. n = Len(ran[e]) + Len(bs)
      BY <1>1, <2>1, ConcatFacts
    <2>4. Few'
      BY <1>1, <1>2, ShortOrder DEF Few
    <2>5. n <= Len(ran[root]) /\ \A i \in 1 .. n : ran'[e][i] = ran[root][i]
      BY <2>1, <2>4 DEF OrderInv, PrefixAgreement, IsPrefixOfRoot
    <2>6. n \in (Len(ran[e]) + 1) .. Len(ran[root])
      BY <2>2, <2>3, <2>5
    <2>7. \A i \in 1 .. n : ran[root][i] \in Bcast
      BY <1>1, <2>2, <2>6, ElementOfSeq
    <2>8. /\ SubSeq(ran[root], 1, n) \in Seq(Bcast) /\ Len(SubSeq(ran[root], 1, n)) = n
          /\ \A i \in 1 .. n : SubSeq(ran[root], 1, n)[i] = ran[root][i]
      <3> HIDE DEF n
      <3>1. n \in Nat /\ n >= 1
        BY <2>2, <2>6
      <3> QED
        BY <2>7, <3>1, SubSeqProperties
    <2>9. ran'[e] = SubSeq(ran[root], 1, n)
      BY <1>1, <2>5, <2>8, SeqEqual
    <2>10. ran' = [ran EXCEPT ![e] = SubSeq(ran[root], 1, n)]
      BY <1>1, <2>1, <2>9 DEF Ran
    <2>11. Abstract!Follow(e)
      BY <1>5, <2>6, <2>10 DEF Abstract!Follow
    <2> QED
      BY <2>11 DEF Abstract!Next
  <1> QED
    BY <1>3, <1>4, <1>5

-----------------------------------------------------------------------------
(* Steps *)

LEMMA LookupType ==
    ASSUME OrderInv, NEW p \in PE, NEW e \in Elem
    PROVE  lookup(p, e) \in PE
  <1>1. LocmgrTypeOK /\ home_pe(e) \in PE
    BY HomePE DEF OrderInv, TypeOK
  <1> QED
    BY <1>1 DEF LocmgrTypeOK, lookup, lookup_cache

(* Only posts are on their way to the root of the tree *)
LEMMA RootQueue ==
    ASSUME OrderInv, NEW p \in PE, NEW q \in PE
    PROVE  queue[RootRoute(p, q)] \in Seq(Posts)
  <1>1. RootRoute(p, q) \in Route /\ RootRoute(p, q).idx = bcast_root
    BY Places DEF RootRoute
  <1> QED
    BY <1>1 DEF OrderInv, NetOK, Fit

LEMMA EmitThere ==
    ASSUME NEW net, DOMAIN net = Route, NEW p \in PE, NEW to \in PE, NEW packs,
           NEW q \in PE, NEW s \in PE
    PROVE  Emit(net, p, to, bcast_root, packs)[RootRoute(q, s)] =
               IF q = p /\ s = to THEN net[RootRoute(p, to)] \o packs
               ELSE net[RootRoute(q, s)]
  <1>1. RootRoute(q, s) \in Route
    BY Places
  <1>2. RootRoute(q, s) = RootRoute(p, to) <=> q = p /\ s = to
    BY DEF RootRoute
  <1>3. Emit(net, p, to, bcast_root, packs) =
            [net EXCEPT ![RootRoute(p, to)] = net[RootRoute(p, to)] \o packs]
    BY DEF Emit, RootRoute
  <1> QED
    BY <1>1, <1>2, <1>3

(* A step that neither adds to nor takes from these places *)
LEMMA PlacesKept ==
    ASSUME OrderInv, Unique, UNCHANGED <<collective_buffer, posted>>,
           NEW e \in Elem, NEW bs, e = root => bs = <<>>,
           NEW net, HandledAt(e, bs, net),
           \A p, q \in PE : net[RootRoute(p, q)] = queue[RootRoute(p, q)]
    PROVE  Unique'
  <1>1. ran'[root] = ran[root]
    <2>1. ran \in [Elem -> Seq(Bcast)] /\ root \in Elem
      BY BroadcastAssumption DEF OrderInv, TypeOK
    <2>2. ran[root] \o <<>> = ran[root]
      BY <2>1, ConcatEmptySeq
    <2> QED
      BY <2>1, <2>2 DEF HandledAt, Ran
  <1>2. \A p, q \in PE : queue'[RootRoute(p, q)] = queue[RootRoute(p, q)]
    BY DEF HandledAt, RootRoutesKept
  <1>3. \A x \in Place : Held'[x] = Held[x]
    BY <1>1, <1>2, HeldKept
  <1> QED
    BY <1>3 DEF Unique, Apart

(* What each step does to the broadcasts *)
Effect ==
    /\ Unique'
    /\ \/ \E b \in Bcast : Abstract!Post(b)
       \/ UNCHANGED posted /\ \E e \in Elem, bs \in Seq(Bcast) : Ran(e, bs)

(* A step that only moves copies and chares has this effect *)
LEMMA HandledEffect ==
    ASSUME OrderInv, Unique, UNCHANGED <<collective_buffer, posted>>,
           NEW e \in Elem, NEW bs, e = root => bs = <<>>,
           NEW net, HandledAt(e, bs, net),
           \A p, q \in PE : net[RootRoute(p, q)] = queue[RootRoute(p, q)]
    PROVE  Effect
  BY PlacesKept DEF Effect, HandledAt

(* The packet that is received, and what it leaves *)
LEMMA Received ==
    ASSUME OrderInv, NEW r \in Route, NEW i \in DOMAIN queue[r]
    PROVE  /\ DOMAIN queue = Route /\ DOMAIN Without(r, i) = Route
           /\ r.from \in PE /\ r.to \in PE
           /\ queue[r][i].type = "post" => r = RootRoute(r.from, r.to)
           /\ queue[r][i].type \in {"copy", "location", "chare"} => r.idx \in Elem
           /\ queue[r][i].type = "copy" =>
                 r.idx # root /\ queue[r][i] \in Agreed
  <1>1. queue[r][i] \in Fit(r.idx, Agreed)
    BY ReceivedFits DEF OrderInv
  <1>2. /\ r.from \in PE /\ r.to \in PE /\ r.idx \in Elem \cup {bcast_root}
        /\ r = [from |-> r.from, to |-> r.to, idx |-> r.idx]
    BY DEF Route
  <1>3. DOMAIN queue = Route /\ DOMAIN Without(r, i) = Route
    BY DEF OrderInv, TypeOK, Without
  <1>4. \A n \in Agreed : n.type = "copy"
    BY DEF Agreed, SentCopy
  <1>5. CASE r.idx = bcast_root
    BY <1>1, <1>2, <1>3, <1>5 DEF Fit, Posts, RootRoute
  <1>6. CASE r.idx # bcast_root
    BY <1>1, <1>2, <1>3, <1>4, <1>6 DEF Fit, Moves, CopiesFor, Chare
  <1> QED
    BY <1>2, <1>5, <1>6

LEMMA WithoutElsewhere ==
    ASSUME OrderInv, NEW r \in Route, r.idx \in Elem, NEW i \in DOMAIN queue[r],
           NEW p \in PE, NEW q \in PE
    PROVE  Without(r, i)[RootRoute(p, q)] = queue[RootRoute(p, q)]
  <1>1. RootRoute(p, q) # r /\ RootRoute(p, q) \in Route
    BY RootIndex, Places DEF RootRoute
  <1> QED
    BY <1>1, Received DEF Without

LEMMA BroadcastEffect ==
    ASSUME OrderInv, Unique, NEW p \in PE, NEW b \in Bcast, Broadcast(p, b)
    PROVE  Effect
  <1>1. /\ b \notin posted /\ posted' = posted \cup {b}
        /\ queue' = Emit(queue, p, p, bcast_root, <<Post(b)>>)
        /\ UNCHANGED <<collective_buffer, ran>>
    BY DEF Broadcast
  <1>2. DOMAIN queue = Route
    BY DEF OrderInv, TypeOK
  <1>3. \A q, s \in PE : queue'[RootRoute(q, s)] =
            IF q = p /\ s = p THEN queue[RootRoute(p, p)] \o <<Post(b)>>
            ELSE queue[RootRoute(q, s)]
    BY <1>1, <1>2, EmitThere
  <1> DEFINE x == OnTheWay(p, p)
  <1>4. x \in Place
    BY Places
  <1>5. Held'[x] = Held[x] \o <<b>>
    <2>1. Held[x] = Bcasts(queue[RootRoute(p, p)])
      BY HeldThere DEF Held
    <2>2. Held'[x] = Bcasts(queue'[RootRoute(p, p)])
      BY HeldThere DEF Held
    <2>3. Bcasts(queue[RootRoute(p, p)] \o <<Post(b)>>) =
              Bcasts(queue[RootRoute(p, p)]) \o Bcasts(<<Post(b)>>)
      BY RootQueue, BcastsOfOne, BcastsConcat
    <2> QED
      BY <1>3, <2>1, <2>2, <2>3, BcastsOfOne
  <1>6. \A z \in Place : z # x => Held'[z] = Held[z]
    <2>1. \A q, s \in PE : OnTheWay(q, s) \notin {x} =>
              queue'[RootRoute(q, s)] = queue[RootRoute(q, s)]
      BY <1>3
    <2>2. {x} \in SUBSET Place
      BY <1>4
    <2> QED
      BY <1>1, <2>1, <2>2, HeldKept
  <1> HIDE DEF x
  <1>7. Apart(Held', Place, posted \cup {b})
    BY <1>1, <1>4, <1>5, <1>6, Added DEF Unique
  <1>8. Unique'
    BY <1>1, <1>7 DEF Unique
  <1>9. Abstract!Post(b)
    BY <1>1 DEF Abstract!Post
  <1> QED
    BY <1>8, <1>9 DEF Effect

(* The root runs some broadcasts; no post is left but those in net *)
LEMMA RootRuns ==
    ASSUME OrderInv, NEW p \in PE, NEW bs \in Seq(Bcast), NEW net,
           FlushHere(p, root, numbered(bs), net)
    PROVE  Ran(root, bs) /\ ran'[root] = ran[root] \o bs /\ RootRoutesKept(net)
  <1>1. root \in Elem /\ ran \in [Elem -> Seq(Bcast)]
    BY BroadcastAssumption DEF OrderInv, TypeOK
  <1>2. numbered(bs) \in Seq(CopyPacket)
    BY NumberedInOrder DEF InOrder
  <1>3. HandledAt(root, bs, net)
    BY <1>1, <1>2, FlushHereHandles, BcastsOfNumbered
  <1> QED
    BY <1>1, <1>3 DEF HandledAt, Ran

(* A post that is received goes to one of three places *)
LEMMA PostEffect ==
    ASSUME OrderInv, Unique, NEW r \in Route, NEW i \in DOMAIN queue[r],
           ReceivePost(r, i)
    PROVE  Effect
  <1> DEFINE p == r.to
             b == queue[r][i].bcast
             x == OnTheWay(r.from, p)
             net == Without(r, i)
  <1>1. /\ r = RootRoute(r.from, p) /\ r.from \in PE /\ p \in PE
        /\ DOMAIN queue = Route /\ DOMAIN net = Route /\ root \in Elem
    BY Received, BroadcastAssumption DEF ReceivePost, Receives
  <1>2. queue[r] \in Seq(Posts)
    BY <1>1, RootQueue
  <1>3. b \in Bcast
    <2>1. queue[r][i] \in Posts
      BY <1>2, LenProperties, ElementOfSeq
    <2> QED
      BY <2>1 DEF Posts
  <1>4. x \in Place /\ Held[x] = Bcasts(queue[r])
    BY <1>1, Places, HeldThere DEF Held
  <1>5. i \in DOMAIN Held[x] /\ Held[x][i] = b
    BY <1>4 DEF Bcasts
  <1>6. \A q, s \in PE : net[RootRoute(q, s)] =
            IF q = r.from /\ s = p THEN RemoveAt(queue[r], i)
            ELSE queue[RootRoute(q, s)]
    <2> SUFFICES ASSUME NEW q \in PE, NEW s \in PE
                 PROVE  net[RootRoute(q, s)] =
                            IF q = r.from /\ s = p THEN RemoveAt(queue[r], i)
                            ELSE queue[RootRoute(q, s)]
      OBVIOUS
    <2>1. RootRoute(q, s) \in Route
      BY Places
    <2>2. RootRoute(q, s) = r <=> q = r.from /\ s = p
      BY <1>1 DEF RootRoute
    <2> QED
      BY <1>1, <2>1, <2>2 DEF Without
  <1>7. Bcasts(RemoveAt(queue[r], i)) = RemoveAt(Held[x], i)
    BY <1>2, <1>4, BcastsRemoveAt
  <1>8. UNCHANGED posted
    BY DEF ReceivePost
  <1>9. \/ /\ FlushHere(p, root, numbered(<<b>>), net)
           /\ UNCHANGED collective_buffer
        \/ /\ collective_buffer' = [collective_buffer EXCEPT
                                       ![p] = Append(collective_buffer[p], b)]
           /\ queue' = net
           /\ UNCHANGED ran
        \/ /\ root \notin chares[p] /\ ~RootUnknown(p)
           /\ queue' = Emit(net, p, lookup(p, root), bcast_root, <<Post(b)>>)
           /\ UNCHANGED <<collective_buffer, ran>>
    BY DEF ReceivePost, OrderInv, TypeOK
  <1>10. ASSUME NEW y \in Place, x # y,
                Held'[x] = RemoveAt(Held[x], i), Held'[y] = Held[y] \o <<b>>,
                \A z \in Place : z # x /\ z # y => Held'[z] = Held[z]
         PROVE  Unique'
    <2>1. Held'[y] = Held[y] \o <<Held[x][i]>>
      BY <1>5, <1>10
    <2> HIDE DEF x, b
    <2>2. Apart(Held', Place, posted)
      BY <1>4, <1>5, <1>10, <2>1, OneTransferred DEF Unique
    <2> QED
      BY <1>8, <2>2 DEF Unique
  <1> HIDE DEF p, b, net
  <1>11. CASE FlushHere(p, root, numbered(<<b>>), net) /\ UNCHANGED collective_buffer
    <2>1. <<b>> \in Seq(Bcast)
      BY <1>3
    <2>2. Ran(root, <<b>>) /\ ran'[root] = ran[root] \o <<b>> /\ RootRoutesKept(net)
      BY <1>1, <1>11, <2>1, RootRuns
    <2>3. \A q, s \in PE : queue'[RootRoute(q, s)] = net[RootRoute(q, s)]
      BY <2>2 DEF RootRoutesKept
    <2>4. Held'[x] = RemoveAt(Held[x], i)
      BY <1>1, <1>6, <1>7, <2>3, HeldThere DEF Held
    <2>5. Held'[AtRoot] = Held[AtRoot] \o <<b>>
      <3>1. Held[AtRoot] = ran[root] /\ Held'[AtRoot] = ran'[root]
        BY HeldThere DEF Held
      <3> QED
        BY <2>2, <3>1
    <2>6. \A z \in Place : z # x /\ z # AtRoot => Held'[z] = Held[z]
      <3>1. {x, AtRoot} \in SUBSET Place
        BY <1>4, Places
      <3>2. \A q, s \in PE : OnTheWay(q, s) \notin {x, AtRoot} =>
                queue'[RootRoute(q, s)] = queue[RootRoute(q, s)]
        BY <1>6, <2>3
      <3> QED
        BY <1>11, <3>1, <3>2, HeldKept
    <2>7. Unique'
      BY <1>1, <1>10, <2>4, <2>5, <2>6, Places
    <2> QED
      BY <1>1, <1>8, <2>1, <2>2, <2>7 DEF Effect
  <1>12. ASSUME UNCHANGED ran
         PROVE  \E e \in Elem, bs \in Seq(Bcast) : Ran(e, bs)
    BY <1>1, <1>12, NothingRan, EmptySeq
  <1>13. CASE /\ collective_buffer' = [collective_buffer EXCEPT
                                         ![p] = Append(collective_buffer[p], b)]
              /\ queue' = net
              /\ UNCHANGED ran
    <2> DEFINE y == PutAside(p)
    <2>1. collective_buffer \in [PE -> Seq(Bcast)]
      BY DEF OrderInv, TypeOK
    <2>2. collective_buffer'[p] = collective_buffer[p] \o <<b>>
      <3>1. \A s \in Seq(Bcast) : Append(s, b) = s \o <<b>>
        BY <1>3, AppendIsConcat
      <3> QED
        BY <1>1, <1>13, <2>1, <3>1
    <2>3. Held'[x] = RemoveAt(Held[x], i)
      BY <1>1, <1>6, <1>7, <1>13, HeldThere DEF Held
    <2>4. Held'[y] = Held[y] \o <<b>>
      BY <1>1, <2>2, HeldThere DEF Held
    <2>5. \A z \in Place : z # x /\ z # y => Held'[z] = Held[z]
      <3>1. {x, y} \in SUBSET Place
        BY <1>1, <1>4, Places
      <3>2. \A q, s \in PE : OnTheWay(q, s) \notin {x, y} =>
                queue'[RootRoute(q, s)] = queue[RootRoute(q, s)]
        BY <1>6, <1>13
      <3>3. \A q \in PE : PutAside(q) \notin {x, y} =>
                collective_buffer'[q] = collective_buffer[q]
        BY <1>13, <2>1
      <3> QED
        BY <1>13, <3>1, <3>2, <3>3, HeldKept
    <2>6. y \in Place /\ x # y
      BY <1>1, Places
    <2>7. Unique'
      BY <1>10, <2>3, <2>4, <2>5, <2>6
    <2> QED
      BY <1>8, <1>12, <1>13, <2>7 DEF Effect
  <1>14. CASE /\ root \notin chares[p] /\ ~RootUnknown(p)
              /\ queue' = Emit(net, p, lookup(p, root), bcast_root, <<Post(b)>>)
              /\ UNCHANGED <<collective_buffer, ran>>
    <2> DEFINE to == lookup(p, root)
               y == OnTheWay(p, to)
    <2>1. to \in PE /\ to # p
      BY <1>1, <1>14, LookupType DEF RootUnknown
    <2>2. \A q, s \in PE : queue'[RootRoute(q, s)] =
              IF q = p /\ s = to THEN net[RootRoute(p, to)] \o <<Post(b)>>
              ELSE net[RootRoute(q, s)]
      BY <1>1, <1>14, <2>1, EmitThere
    <2> HIDE DEF to
    <2>3. Held'[x] = RemoveAt(Held[x], i)
      BY <1>1, <1>6, <1>7, <2>1, <2>2, HeldThere DEF Held
    <2>4. Held'[y] = Held[y] \o <<b>>
      <3>1. Held'[y] = Bcasts(queue[RootRoute(p, to)] \o <<Post(b)>>)
        BY <1>1, <1>6, <2>1, <2>2, HeldThere DEF Held
      <3>2. Held[y] = Bcasts(queue[RootRoute(p, to)])
        BY <1>1, <2>1, HeldThere DEF Held
      <3>3. queue[RootRoute(p, to)] \in Seq(Posts)
        BY <1>1, <2>1, RootQueue
      <3> QED
        BY <1>3, <3>1, <3>2, <3>3, BcastsOfOne, BcastsConcat
    <2>5. \A z \in Place : z # x /\ z # y => Held'[z] = Held[z]
      <3>1. {x, y} \in SUBSET Place
        BY <1>1, <1>4, <2>1, Places
      <3>2. \A q, s \in PE : OnTheWay(q, s) \notin {x, y} =>
                queue'[RootRoute(q, s)] = queue[RootRoute(q, s)]
        BY <1>6, <2>2
      <3> QED
        BY <1>14, <3>1, <3>2, HeldKept
    <2>6. y \in Place /\ x # y
      BY <1>1, <2>1, Places
    <2>7. Unique'
      BY <1>10, <2>3, <2>4, <2>5, <2>6
    <2> QED
      BY <1>8, <1>12, <1>14, <2>7 DEF Effect
  <1> QED
    BY <1>9, <1>11, <1>13, <1>14

(* At the end of the phase all a PE has put aside goes on *)
LEMMA CompleteEffect ==
    ASSUME OrderInv, Unique, NEW p \in PE, InsertionComplete(p)
    PROVE  Effect
  <1> DEFINE waiting == collective_buffer[p]
             posts == [i \in DOMAIN waiting |-> Post(waiting[i])]
             x == PutAside(p)
  <1>1. /\ waiting \in Seq(Bcast) /\ collective_buffer \in [PE -> Seq(Bcast)]
        /\ DOMAIN queue = Route /\ root \in Elem
    BY BroadcastAssumption DEF OrderInv, TypeOK
  <1>2. UNCHANGED posted
    BY DEF InsertionComplete
  <1>3. \/ /\ FlushHere(p, root, numbered(waiting), queue)
           /\ collective_buffer' = [collective_buffer EXCEPT ![p] = <<>>]
        \/ UNCHANGED <<queue, collective_buffer, ran>>
        \/ /\ queue' = Emit(queue, p, lookup(p, root), bcast_root, posts)
           /\ collective_buffer' = [collective_buffer EXCEPT ![p] = <<>>]
           /\ UNCHANGED ran
    BY DEF InsertionComplete
  <1>4. x \in Place /\ Held[x] = waiting
    BY Places, HeldThere DEF Held
  <1>5. posts \in Seq(Posts) /\ Bcasts(posts) = waiting
    BY <1>1, BcastsOfPosts
  <1>6. ASSUME UNCHANGED ran
        PROVE  \E e \in Elem, bs \in Seq(Bcast) : Ran(e, bs)
    BY <1>1, <1>6, NothingRan, EmptySeq
  <1>7. ASSUME collective_buffer' = [collective_buffer EXCEPT ![p] = <<>>]
        PROVE  /\ Held'[x] = <<>>
               /\ \A q \in PE : PutAside(q) # x =>
                     collective_buffer'[q] = collective_buffer[q]
    <2>1. Held'[x] = collective_buffer'[p]
      BY HeldThere DEF Held
    <2> QED
      BY <1>1, <1>7, <2>1
  <1>8. ASSUME NEW y \in Place, x # y,
               Held'[x] = <<>>, Held'[y] = Held[y] \o waiting,
               \A z \in Place : z # x /\ z # y => Held'[z] = Held[z]
        PROVE  Unique'
    <2>1. Held'[x] \in Seq(posted) /\ Len(Held'[x]) = 0
      BY <1>8, EmptySeq
    <2> HIDE DEF x, waiting
    <2>2. Apart(Held', Place, posted)
      BY <1>4, <1>8, <2>1, AllTransferred DEF Unique
    <2> QED
      BY <1>2, <2>2 DEF Unique
  <1> HIDE DEF waiting, posts
  <1>9. CASE /\ FlushHere(p, root, numbered(waiting), queue)
             /\ collective_buffer' = [collective_buffer EXCEPT ![p] = <<>>]
    <2>1. /\ Ran(root, waiting) /\ ran'[root] = ran[root] \o waiting
          /\ RootRoutesKept(queue)
      BY <1>1, <1>9, RootRuns
    <2>2. Held'[AtRoot] = Held[AtRoot] \o waiting
      <3>1. Held[AtRoot] = ran[root] /\ Held'[AtRoot] = ran'[root]
        BY HeldThere DEF Held
      <3> QED
        BY <2>1, <3>1
    <2>3. \A z \in Place : z # x /\ z # AtRoot => Held'[z] = Held[z]
      <3>1. {x, AtRoot} \in SUBSET Place
        BY <1>4, Places
      <3>2. \A q, s \in PE : queue'[RootRoute(q, s)] = queue[RootRoute(q, s)]
        BY <2>1 DEF RootRoutesKept
      <3>3. \A q \in PE : PutAside(q) \notin {x, AtRoot} =>
                collective_buffer'[q] = collective_buffer[q]
        BY <1>7, <1>9
      <3> QED
        BY <3>1, <3>2, <3>3, HeldKept
    <2>4. Unique'
      BY <1>7, <1>8, <1>9, <2>2, <2>3, Places
    <2> QED
      BY <1>1, <1>2, <2>1, <2>4 DEF Effect
  <1>10. CASE UNCHANGED <<queue, collective_buffer, ran>>
    <2>1. UNCHANGED Held
      BY <1>10 DEF Held
    <2>2. Unique'
      BY <1>2, <2>1 DEF Unique
    <2> QED
      BY <1>2, <1>6, <1>10, <2>2 DEF Effect
  <1>11. CASE /\ queue' = Emit(queue, p, lookup(p, root), bcast_root, posts)
              /\ collective_buffer' = [collective_buffer EXCEPT ![p] = <<>>]
              /\ UNCHANGED ran
    <2> DEFINE to == lookup(p, root)
               y == OnTheWay(p, to)
    <2>1. to \in PE
      BY <1>1, LookupType
    <2>2. \A q, s \in PE : queue'[RootRoute(q, s)] =
              IF q = p /\ s = to THEN queue[RootRoute(p, to)] \o posts
              ELSE queue[RootRoute(q, s)]
      BY <1>1, <1>11, <2>1, EmitThere
    <2> HIDE DEF to
    <2>3. Held'[y] = Held[y] \o waiting
      <3>1. Held'[y] = Bcasts(queue[RootRoute(p, to)] \o posts)
        BY <2>1, <2>2, HeldThere DEF Held
      <3>2. Held[y] = Bcasts(queue[RootRoute(p, to)])
        BY <2>1, HeldThere DEF Held
      <3>3. queue[RootRoute(p, to)] \in Seq(Posts)
        BY <2>1, RootQueue
      <3> QED
        BY <1>5, <3>1, <3>2, <3>3, BcastsConcat
    <2>4. \A z \in Place : z # x /\ z # y => Held'[z] = Held[z]
      <3>1. {x, y} \in SUBSET Place
        BY <1>4, <2>1, Places
      <3>2. \A q, s \in PE : OnTheWay(q, s) \notin {x, y} =>
                queue'[RootRoute(q, s)] = queue[RootRoute(q, s)]
        BY <2>2
      <3>3. \A q \in PE : PutAside(q) \notin {x, y} =>
                collective_buffer'[q] = collective_buffer[q]
        BY <1>7, <1>11
      <3> QED
        BY <1>11, <3>1, <3>2, <3>3, HeldKept
    <2>5. y \in Place /\ x # y
      BY <2>1, Places
    <2>6. Unique'
      BY <1>7, <1>8, <1>11, <2>3, <2>4, <2>5
    <2> QED
      BY <1>2, <1>6, <1>11, <2>6 DEF Effect
  <1> QED
    BY <1>3, <1>9, <1>10, <1>11

LEMMA EmigrateEffect ==
    ASSUME OrderInv, Unique, NEW p \in PE, NEW e \in Elem, NEW dst \in PE,
           Emigrate(p, e, dst)
    PROVE  Effect
  <1> DEFINE left == Emit(queue, p, dst, e, <<Chare>>)
             away == IF p = home_pe(e) THEN left
                     ELSE Emit(left, p, home_pe(e), e, <<Location(dst)>>)
  <1>1. FlushBuffers(p, e, away) /\ UNCHANGED <<collective_buffer, posted>>
    BY DEF Emigrate
  <1>2. DOMAIN queue = Route
    BY DEF OrderInv, TypeOK
  <1>3. /\ DOMAIN left = Route
        /\ \A q, s \in PE : left[RootRoute(q, s)] = queue[RootRoute(q, s)]
    <2>1. DOMAIN left = Route
      BY <1>2 DEF Emit
    <2> QED
      BY <1>2, <2>1, EmitElsewhere, Places
  <1> HIDE DEF left
  <1>4. /\ DOMAIN away = Route
        /\ \A q, s \in PE : away[RootRoute(q, s)] = queue[RootRoute(q, s)]
    <2>1. DOMAIN Emit(left, p, home_pe(e), e, <<Location(dst)>>) = Route
      BY <1>3 DEF Emit
    <2>2. \A q, s \in PE :
              Emit(left, p, home_pe(e), e, <<Location(dst)>>)[RootRoute(q, s)] =
                  left[RootRoute(q, s)]
      BY <1>3, EmitElsewhere, Places
    <2> QED
      BY <1>3, <2>1, <2>2
  <1> HIDE DEF away
  <1>5. HandledAt(e, <<>>, away)
    BY <1>1, <1>4, FlushBuffersHandles
  <1> QED
    BY <1>1, <1>4, <1>5, HandledEffect

LEMMA CopyEffect ==
    ASSUME OrderInv, Unique, NEW r \in Route, NEW i \in DOMAIN queue[r],
           ReceiveCopy(r, i)
    PROVE  Effect
  <1> DEFINE p == r.to
             e == r.idx
             n == queue[r][i]
             net == Without(r, i)
             answered == routing_update(p, e, n, net)
  <1>1. /\ p \in PE /\ e \in Elem /\ e # root /\ n \in Agreed
        /\ DOMAIN net = Route
    BY Received DEF ReceiveCopy, Receives
  <1>2. UNCHANGED <<collective_buffer, posted>>
    BY DEF ReceiveCopy
  <1>3. \A q, s \in PE : net[RootRoute(q, s)] = queue[RootRoute(q, s)]
    BY <1>1, WithoutElsewhere
  <1>4. \/ FlushHere(p, e, <<n>>, answered)
        \/ queue' = answered /\ UNCHANGED ran
        \/ queue' = net /\ UNCHANGED ran
        \/ /\ queue' = Emit(net, p, lookup(p, e), e, forwarded_by(p, <<n>>))
           /\ UNCHANGED ran
    BY DEF ReceiveCopy, handle_broadcast_message, OutOfTurn
  <1> HIDE DEF p, e, n, net
  <1>5. \A q, s \in PE : answered[RootRoute(q, s)] = queue[RootRoute(q, s)]
    BY <1>1, <1>3, EmitElsewhere, Places DEF routing_update
  <1> HIDE DEF answered
  <1>6. ASSUME NEW new, queue' = new, UNCHANGED ran,
               \A q, s \in PE : new[RootRoute(q, s)] = queue[RootRoute(q, s)]
        PROVE  Effect
    <2>1. Ran(e, <<>>) /\ <<>> \in Seq(Bcast)
      BY <1>1, <1>6, NothingRan, EmptySeq
    <2>2. HandledAt(e, <<>>, new)
      BY <1>6, <2>1 DEF HandledAt, RootRoutesKept
    <2> QED
      BY <1>1, <1>2, <1>6, <2>2, HandledEffect
  <1>7. CASE FlushHere(p, e, <<n>>, answered)
    <2>1. <<n>> \in Seq(CopyPacket)
      <3>1. n \in CopyPacket
        BY <1>1 DEF Agreed, SentCopy, CopyPacket
      <3> QED
        BY <3>1
    <2>2. HandledAt(e, Bcasts(<<n>>), answered)
      BY <1>1, <1>7, <2>1, FlushHereHandles
    <2> QED
      BY <1>1, <1>2, <1>5, <2>2, HandledEffect
  <1>8. CASE /\ queue' = Emit(net, p, lookup(p, e), e, forwarded_by(p, <<n>>))
             /\ UNCHANGED ran
    <2> DEFINE new == Emit(net, p, lookup(p, e), e, forwarded_by(p, <<n>>))
    <2>1. \A q, s \in PE : new[RootRoute(q, s)] = queue[RootRoute(q, s)]
      BY <1>1, <1>3, EmitElsewhere, Places
    <2>2. queue' = new
      BY <1>8
    <2> HIDE DEF new
    <2> QED
      BY <1>6, <1>8, <2>1, <2>2
  <1> QED
    BY <1>3, <1>4, <1>5, <1>6, <1>7, <1>8

(* A location update, or a chare, arrives and the buffer is flushed *)
LEMMA ArrivalEffect ==
    ASSUME OrderInv, Unique, NEW r \in Route, NEW i \in DOMAIN queue[r],
           ReceiveLocation(r, i) \/ ReceiveChare(r, i)
    PROVE  Effect
  <1> DEFINE e == r.idx
             net == Without(r, i)
  <1>1. r.to \in PE /\ e \in Elem /\ DOMAIN net = Route
    BY Received DEF ReceiveLocation, ReceiveChare, Receives
  <1>2. FlushBuffers(r.to, e, net) /\ UNCHANGED <<collective_buffer, posted>>
    BY DEF ReceiveLocation, ReceiveChare
  <1>3. \A q, s \in PE : net[RootRoute(q, s)] = queue[RootRoute(q, s)]
    BY <1>1, WithoutElsewhere
  <1> HIDE DEF e, net
  <1>4. HandledAt(e, <<>>, net)
    BY <1>1, <1>2, FlushBuffersHandles
  <1> QED
    BY <1>1, <1>2, <1>3, <1>4, HandledEffect

-----------------------------------------------------------------------------
(* The refinement *)

LEMMA UniqueInit == Init => Unique /\ Abstract!Init
  <1> SUFFICES ASSUME Init PROVE Unique /\ Abstract!Init
    OBVIOUS
  <1>1. \A x \in Place : Held[x] = <<>>
    <2> SUFFICES ASSUME NEW x \in Place PROVE Held[x] = <<>>
      OBVIOUS
    <2>1. x[2] \in PE /\ x[3] \in PE
      BY DEF Place
    <2>2. queue[RootRoute(x[2], x[3])] = <<>>
      <3>1. RootRoute(x[2], x[3]) \in Route /\ RootRoute(x[2], x[3]).idx = bcast_root
        BY <2>1, Places DEF RootRoute
      <3> QED
        BY <3>1, RootIndex DEF Init, CreationUpdate
    <2>3. Bcasts(<<>>) = <<>>
      BY DEF Bcasts
    <2>4. ran[root] = <<>> /\ \A p \in PE : collective_buffer[p] = <<>>
      BY BroadcastAssumption DEF Init
    <2> QED
      BY <2>1, <2>2, <2>3, <2>4 DEF Held, HeldIn
  <1>2. \A S : <<>> \in Seq(S) /\ IsInjective(<<>>) /\ ToSet(<<>>) = {}
    BY EmptySeq DEF IsInjective, ToSet
  <1>3. Unique
    BY <1>1, <1>2 DEF Unique, Apart
  <1>4. Abstract!Init
    BY DEF Init, Abstract!Init
  <1> QED
    BY <1>3, <1>4

LEMMA UniqueStep ==
    ASSUME OrderInv, Unique, [Next]_vars
    PROVE  Effect
  <1>1. CASE UNCHANGED vars
    <2>1. root \in Elem
      BY BroadcastAssumption
    <2>2. Ran(root, <<>>) /\ <<>> \in Seq(Bcast)
      BY <1>1, <2>1, NothingRan, EmptySeq DEF vars
    <2>3. HandledAt(root, <<>>, queue)
      BY <1>1, <2>2 DEF HandledAt, RootRoutesKept, vars
    <2> QED
      BY <1>1, <2>1, <2>3, HandledEffect DEF vars
  <1>2. CASE \E r \in Route : \E i \in DOMAIN queue[r] :
                 \/ ReceivePost(r, i) \/ ReceiveCopy(r, i)
                 \/ ReceiveLocation(r, i) \/ ReceiveChare(r, i)
    BY <1>2, PostEffect, CopyEffect, ArrivalEffect
  <1> QED
    BY <1>1, <1>2, BroadcastEffect, EmigrateEffect, CompleteEffect DEF Next

LEMMA StepRefines ==
    ASSUME EnoughNumbers, OrderInv, OrderInv', Unique, [Next]_vars
    PROVE  Unique' /\ (Abstract!Next \/ UNCHANGED Abstract!vars)
  <1>1. Effect
    BY UniqueStep
  <1>2. CASE \E b \in Bcast : Abstract!Post(b)
    BY <1>1, <1>2 DEF Effect, Abstract!Next
  <1>3. CASE UNCHANGED posted /\ \E e \in Elem, bs \in Seq(Bcast) : Ran(e, bs)
    BY <1>1, <1>3, RunningRefines DEF Effect
  <1> QED
    BY <1>1, <1>2, <1>3 DEF Effect

(* With more numbers than broadcasts, broadcasting over a tree is a total  *)
(* order: every broadcast is run at most once by each element, and all     *)
(* elements run prefixes of one sequence that the root decides, whatever   *)
(* the order of packets, the migrations and the failed flushes             *)
(* ("broadcasts are processed in-order", collection.hpp:342).              *)
THEOREM BroadcastImplementsTotalOrder ==
    ASSUME EnoughNumbers
    PROVE  Spec => ImplementsTotalOrder
  <1>1. Init => OrderInv /\ Unique /\ Abstract!Init
    BY OrderInit, UniqueInit
  <1>2. OrderInv /\ [Next]_vars => OrderInv'
    BY OrderStep
  <1>3. OrderInv /\ OrderInv' /\ Unique /\ [Next]_vars
            => Unique' /\ [Abstract!Next]_Abstract!vars
    BY StepRefines
  <1> QED
    BY <1>1, <1>2, <1>3, PTL DEF Spec, ImplementsTotalOrder, Abstract!Spec

-----------------------------------------------------------------------------
(* Where the packet about a broadcast can be that an element waits for: on *)
(* its way, or put aside by a PE                                           *)

About(b) == {n \in Packet : n.type \in {"post", "copy"} /\ n.bcast = b}

Index(e) == IF e = root THEN bcast_root ELSE e
SentTo(e, p, q) == [from |-> p, to |-> q, idx |-> Index(e)]
PostsOf(bs) == [i \in DOMAIN bs |-> Post(bs[i])]

(* What is in each of these places, for e *)
WaitingFor(e, net, bufs, phase) ==
    [x \in Place |->
        CASE x[1] = "queue" -> net[SentTo(e, x[2], x[3])]
          [] x = PutAside(x[2]) -> IF e = root THEN PostsOf(phase[x[2]])
                                   ELSE bufs[x[2]][e]
          [] OTHER -> <<>>]

Nowhere(w, b) == \A x \in Place : NoHit(w[x], About(b))
Once(w, b) ==
    \E x \in Place : /\ OneHit(w[x], About(b))
                     /\ \A y \in Place : y # x => NoHit(w[y], About(b))

(* One place gets other contents *)
Becomes(w, new, y, s) == \A x \in Place : new[x] = IF x = y THEN s ELSE w[x]

Same(w, new) == new = w

(* More is put into one place *)
LEMMA Gained ==
    ASSUME NEW w, \A x \in Place : w[x] \in Seq(Packet),
           NEW y \in Place, NEW s \in Seq(Packet), NEW new, NEW b,
           Becomes(w, new, y, w[y] \o s)
    PROVE  /\ Nowhere(w, b) /\ NoHit(s, About(b)) => Nowhere(new, b)
           /\ Nowhere(w, b) /\ OneHit(s, About(b)) => Once(new, b)
           /\ Once(w, b) /\ NoHit(s, About(b)) => Once(new, b)
  <1> DEFINE T == About(b)
  <1> HIDE DEF T
  <1>1. /\ NoHit(w[y], T) /\ NoHit(s, T) => NoHit(new[y], T)
        /\ OneHit(w[y], T) /\ NoHit(s, T) => OneHit(new[y], T)
        /\ NoHit(w[y], T) /\ OneHit(s, T) => OneHit(new[y], T)
    <2>1. new[y] = w[y] \o s /\ w[y] \in Seq(Packet)
      BY DEF Becomes
    <2> QED
      BY <2>1, ConcatHits
  <1>2. \A x \in Place : x # y => new[x] = w[x]
    BY DEF Becomes
  <1>3. Nowhere(w, b) /\ NoHit(s, T) => Nowhere(new, b)
    BY <1>1, <1>2 DEF Nowhere, T
  <1>4. Nowhere(w, b) /\ OneHit(s, T) => Once(new, b)
    BY <1>1, <1>2 DEF Nowhere, Once, T
  <1>5. Once(w, b) /\ NoHit(s, T) => Once(new, b)
    <2> SUFFICES ASSUME NoHit(s, T), NEW x \in Place, OneHit(w[x], T),
                        \A z \in Place : z # x => NoHit(w[z], T)
                 PROVE  Once(new, b)
      BY DEF Once, T
    <2>1. OneHit(new[x], T)
      BY <1>1, <1>2
    <2>2. \A z \in Place : z # x => NoHit(new[z], T)
      BY <1>1, <1>2
    <2> QED
      BY <2>1, <2>2 DEF Once, T
  <1> QED
    BY <1>3, <1>4, <1>5 DEF T

(* One packet is taken from one place *)
LEMMA Lost ==
    ASSUME NEW w, NEW y \in Place, w[y] \in Seq(Packet), NEW i \in DOMAIN w[y],
           NEW new, NEW b,
           Becomes(w, new, y, RemoveAt(w[y], i))
    PROVE  /\ Nowhere(w, b) => Nowhere(new, b) /\ w[y][i] \notin About(b)
           /\ Once(w, b) => IF w[y][i] \in About(b) THEN Nowhere(new, b)
                            ELSE Once(new, b)
  <1> DEFINE T == About(b)
  <1> HIDE DEF T
  <1>1. /\ NoHit(w[y], T) => NoHit(new[y], T)
        /\ OneHit(w[y], T) /\ w[y][i] \in T => NoHit(new[y], T)
        /\ OneHit(w[y], T) /\ w[y][i] \notin T => OneHit(new[y], T)
    <2>1. new[y] = RemoveAt(w[y], i)
      BY DEF Becomes
    <2> QED
      BY <2>1, RemoveAtHits
  <1>2. \A x \in Place : x # y => new[x] = w[x]
    BY DEF Becomes
  <1>3. NoHit(w[y], T) => w[y][i] \notin T
    BY DEF NoHit, Hits
  <1>4. Nowhere(w, b) => Nowhere(new, b) /\ w[y][i] \notin T
    BY <1>1, <1>2, <1>3 DEF Nowhere, T
  <1>5. ASSUME NEW x \in Place, OneHit(w[x], T),
               \A z \in Place : z # x => NoHit(w[z], T)
        PROVE  IF w[y][i] \in T THEN Nowhere(new, b) ELSE Once(new, b)
    <2>1. CASE w[y][i] \in T
      <3>1. x = y
        BY <1>3, <1>5, <2>1
      <3> QED
        BY <1>1, <1>2, <1>5, <2>1, <3>1 DEF Nowhere, T
    <2>2. CASE w[y][i] \notin T
      <3>1. OneHit(new[x], T)
        BY <1>1, <1>2, <1>5, <2>2
      <3>2. \A z \in Place : z # x => NoHit(new[z], T)
        BY <1>1, <1>2, <1>5
      <3> QED
        BY <2>2, <3>1, <3>2 DEF Once, T
    <2> QED
      BY <2>1, <2>2
  <1>6. Once(w, b) => IF w[y][i] \in T THEN Nowhere(new, b) ELSE Once(new, b)
    BY <1>5 DEF Once, T
  <1> QED
    BY <1>4, <1>6 DEF T

(* One place is emptied *)
LEMMA Emptied ==
    ASSUME NEW w, NEW y \in Place, NEW new, NEW b,
           Becomes(w, new, y, <<>>)
    PROVE  /\ Nowhere(w, b) => Nowhere(new, b) /\ NoHit(w[y], About(b))
           /\ Once(w, b) => \/ OneHit(w[y], About(b)) /\ Nowhere(new, b)
                            \/ NoHit(w[y], About(b)) /\ Once(new, b)
  <1> DEFINE T == About(b)
  <1> HIDE DEF T
  <1>1. NoHit(new[y], T) /\ \A x \in Place : x # y => new[x] = w[x]
    BY EmptyHits DEF Becomes
  <1>2. Nowhere(w, b) => Nowhere(new, b) /\ NoHit(w[y], T)
    BY <1>1 DEF Nowhere, T
  <1>3. ASSUME NEW x \in Place, OneHit(w[x], T),
               \A z \in Place : z # x => NoHit(w[z], T)
        PROVE  \/ OneHit(w[y], T) /\ Nowhere(new, b)
               \/ NoHit(w[y], T) /\ Once(new, b)
    <2>1. CASE x = y
      BY <1>1, <1>3, <2>1 DEF Nowhere, T
    <2>2. CASE x # y
      BY <1>1, <1>3, <2>2 DEF Once, T
    <2> QED
      BY <2>1, <2>2
  <1>4. Once(w, b) => \/ OneHit(w[y], T) /\ Nowhere(new, b)
                      \/ NoHit(w[y], T) /\ Once(new, b)
    BY <1>3 DEF Once, T
  <1> QED
    BY <1>2, <1>4 DEF T

(* A broadcast has come to e when it is made, if e is the root of the      *)
(* tree, and when the element above e has run it, if not                   *)
Reached(e, b) ==
    IF e = root THEN b \in posted
    ELSE \E f \in Elem : e \in children[f] /\ HasRun(f, b)
Awaits(e, b) == Reached(e, b) /\ ~HasRun(e, b)

(* There is one packet for each broadcast e awaits, and none for others:   *)
(* among those that wait, or in the hands of the handler at e              *)
Stays(e, b, w) == IF Awaits(e, b) THEN Once(w, b) ELSE Nowhere(w, b)
Taken(e, b, w, hand) ==
    IF OneHit(hand, About(b)) THEN Awaits(e, b) /\ Nowhere(w, b)
    ELSE Stays(e, b, w) /\ NoHit(hand, About(b))

LEMMA OneOrNone == \A s, T : ~(OneHit(s, T) /\ NoHit(s, T))
  BY DEF OneHit, NoHit

(* Packets about nothing that is awaited do not matter *)
LEMMA GainedNothing ==
    ASSUME NEW e, NEW b, NEW w, \A x \in Place : w[x] \in Seq(Packet),
           NEW y \in Place, NEW s \in Seq(Packet), NoHit(s, About(b)), NEW new,
           Becomes(w, new, y, w[y] \o s)
    PROVE  /\ Stays(e, b, w) => Stays(e, b, new)
           /\ \A hand : Taken(e, b, w, hand) => Taken(e, b, new, hand)
  BY Gained DEF Stays, Taken

(* What is in hand is put somewhere *)
LEMMA GainedHand ==
    ASSUME NEW e, NEW b, NEW w, \A x \in Place : w[x] \in Seq(Packet),
           NEW hand, Taken(e, b, w, hand),
           NEW y \in Place, NEW s \in Seq(Packet),
           NoHit(hand, About(b)) => NoHit(s, About(b)),
           OneHit(hand, About(b)) => OneHit(s, About(b)), NEW new,
           Becomes(w, new, y, w[y] \o s)
    PROVE  Stays(e, b, new)
  <1>1. /\ Nowhere(w, b) /\ NoHit(s, About(b)) => Nowhere(new, b)
        /\ Nowhere(w, b) /\ OneHit(s, About(b)) => Once(new, b)
        /\ Once(w, b) /\ NoHit(s, About(b)) => Once(new, b)
    BY Gained
  <1> QED
    BY <1>1 DEF Stays, Taken

(* A packet is taken in hand, a second one, and all of what is in a place *)
LEMMA LostOne ==
    ASSUME NEW e, NEW b, NEW w, Stays(e, b, w), NEW y \in Place,
           w[y] \in Seq(Packet), NEW i \in DOMAIN w[y], NEW new,
           Becomes(w, new, y, RemoveAt(w[y], i))
    PROVE  Taken(e, b, new, <<w[y][i]>>)
  <1> DEFINE one == <<w[y][i]>>
  <1>1. /\ Nowhere(w, b) => Nowhere(new, b) /\ w[y][i] \notin About(b)
        /\ Once(w, b) => IF w[y][i] \in About(b) THEN Nowhere(new, b)
                         ELSE Once(new, b)
    BY Lost
  <1>2. /\ w[y][i] \in About(b) => OneHit(one, About(b))
        /\ w[y][i] \notin About(b) => NoHit(one, About(b))
    BY SingleHits
  <1> HIDE DEF one
  <1>3. Taken(e, b, new, one)
    BY <1>1, <1>2, OneOrNone DEF Taken, Stays
  <1> QED
    BY <1>3 DEF one

LEMMA LostAnother ==
    ASSUME NEW e, NEW b, NEW w, NEW hand \in Seq(Packet), Taken(e, b, w, hand),
           NEW y \in Place, w[y] \in Seq(Packet), NEW i \in DOMAIN w[y], NEW new,
           Becomes(w, new, y, RemoveAt(w[y], i))
    PROVE  Taken(e, b, new, Append(hand, w[y][i]))
  <1> DEFINE one == <<w[y][i]>>
             both == Append(hand, w[y][i])
  <1>1. /\ Nowhere(w, b) => Nowhere(new, b) /\ w[y][i] \notin About(b)
        /\ Once(w, b) => IF w[y][i] \in About(b) THEN Nowhere(new, b)
                         ELSE Once(new, b)
    BY Lost
  <1>2. /\ w[y][i] \in About(b) => OneHit(one, About(b))
        /\ w[y][i] \notin About(b) => NoHit(one, About(b))
    BY SingleHits
  <1>3. w[y][i] \in Packet
    <2>1. i \in 1 .. Len(w[y])
      BY LenProperties
    <2> QED
      BY <2>1, ElementOfSeq
  <1>4. one \in Seq(Packet) /\ both = hand \o one
    BY <1>3, AppendIsConcat
  <1> HIDE DEF one, both
  <1>5. /\ NoHit(hand, About(b)) /\ NoHit(one, About(b)) => NoHit(both, About(b))
        /\ OneHit(hand, About(b)) /\ NoHit(one, About(b)) => OneHit(both, About(b))
        /\ NoHit(hand, About(b)) /\ OneHit(one, About(b)) => OneHit(both, About(b))
    BY <1>4, ConcatHits
  <1>6. ASSUME OneHit(hand, About(b))
        PROVE  Taken(e, b, new, both)
    BY <1>1, <1>2, <1>5, <1>6 DEF Taken
  <1>7. ASSUME ~OneHit(hand, About(b))
        PROVE  Taken(e, b, new, both)
    <2>1. NoHit(hand, About(b)) /\ Stays(e, b, w)
      BY <1>7 DEF Taken
    <2>2. CASE w[y][i] \in About(b)
      BY <1>1, <1>2, <1>5, <2>1, <2>2 DEF Taken, Stays
    <2>3. CASE w[y][i] \notin About(b)
      <3>1. NoHit(both, About(b)) /\ ~OneHit(both, About(b))
        BY <1>2, <1>5, <2>1, <2>3, OneOrNone
      <3> QED
        BY <1>1, <2>1, <2>3, <3>1 DEF Taken, Stays
    <2> QED
      BY <2>2, <2>3
  <1>8. Taken(e, b, new, both)
    BY <1>6, <1>7
  <1> QED
    BY <1>8 DEF both

LEMMA LostAll ==
    ASSUME NEW e, NEW b, NEW w, Stays(e, b, w), NEW y \in Place, NEW new,
           Becomes(w, new, y, <<>>)
    PROVE  Taken(e, b, new, w[y])
  <1>1. /\ Nowhere(w, b) => Nowhere(new, b) /\ NoHit(w[y], About(b))
        /\ Once(w, b) => \/ OneHit(w[y], About(b)) /\ Nowhere(new, b)
                         \/ NoHit(w[y], About(b)) /\ Once(new, b)
    BY Emptied
  <1> QED
    BY <1>1, OneOrNone DEF Taken, Stays

(* With nothing in hand *)
LEMMA EmptyHand ==
    ASSUME NEW e, NEW b, NEW w
    PROVE  Stays(e, b, w) <=> Taken(e, b, w, <<>>)
  BY EmptyHits, OneOrNone DEF Taken

(* What is not about b may be dropped *)
LEMMA DroppedHand ==
    ASSUME NEW e, NEW b, NEW w, NEW hand, Taken(e, b, w, hand),
           NoHit(hand, About(b))
    PROVE  Stays(e, b, w)
  BY OneOrNone DEF Taken

-----------------------------------------------------------------------------
(* What is in each place after a change *)

NetIs(net) == net \in [Route -> Seq(Packet)]
BuffersAre(bufs) == bufs \in [PE -> [Elem -> Seq(CopyPacket)]]
PhaseIs(phase) == phase \in [PE -> Seq(Bcast)]

AsideFor(e, bufs, phase, p) ==
    IF e = root THEN PostsOf(phase[p]) ELSE bufs[p][e]

LEMMA SentToRoute ==
    ASSUME NEW e \in Elem, NEW p \in PE, NEW q \in PE
    PROVE  SentTo(e, p, q) \in Route
  BY DEF SentTo, Index, Route

LEMMA IndexIsOne ==
    ASSUME NEW e \in Elem, NEW c \in Elem
    PROVE  /\ Index(e) = Index(c) => e = c
           /\ c # root => Index(c) = c
           /\ Index(e) # root
  BY RootIndex, BroadcastAssumption DEF Index

LEMMA PostsOfType ==
    ASSUME NEW bs \in Seq(Bcast)
    PROVE  /\ PostsOf(bs) \in Seq(Packet) /\ Len(PostsOf(bs)) = Len(bs)
           /\ \A i \in 1 .. Len(bs) : PostsOf(bs)[i] = Post(bs[i])
  <1>1. Len(bs) \in Nat /\ DOMAIN bs = 1 .. Len(bs) /\ \A i \in 1 .. Len(bs) : bs[i] \in Bcast
    BY LenProperties, ElementOfSeq
  <1>2. PostsOf(bs) \in [1 .. Len(bs) -> Packet]
    BY <1>1 DEF PostsOf, Post, Packet
  <1> QED
    BY <1>1, <1>2, FunctionIsSeq DEF PostsOf

LEMMA CopiesArePackets == \A s \in Seq(CopyPacket) : s \in Seq(Packet)
  <1>1. CopyPacket \subseteq Packet
    BY DEF Packet
  <1> QED
    BY <1>1, SeqMonotonic

(* The places, one by one *)
LEMMA WaitingThere ==
    ASSUME NEW e, NEW net, NEW bufs, NEW phase
    PROVE  LET w == WaitingFor(e, net, bufs, phase)
           IN  /\ \A p, q \in PE : w[OnTheWay(p, q)] = net[SentTo(e, p, q)]
               /\ \A p \in PE : w[PutAside(p)] = AsideFor(e, bufs, phase, p)
               /\ \A x \in Place : x[1] # "queue" /\ x # PutAside(x[2]) => w[x] = <<>>
  <1> DEFINE w == WaitingFor(e, net, bufs, phase)
  <1>1. \A p, q \in PE : w[OnTheWay(p, q)] = net[SentTo(e, p, q)]
    BY Places DEF WaitingFor, OnTheWay
  <1>2. \A p \in PE : w[PutAside(p)] = AsideFor(e, bufs, phase, p)
    BY Places DEF WaitingFor, PutAside, AsideFor
  <1>3. \A x \in Place : x[1] # "queue" /\ x # PutAside(x[2]) => w[x] = <<>>
    BY DEF WaitingFor
  <1> QED
    BY <1>1, <1>2, <1>3

(* What kind of place it is *)
LEMMA PlaceIs ==
    ASSUME NEW x \in Place
    PROVE  \/ \E p, q \in PE : x = OnTheWay(p, q)
           \/ \E p \in PE : x = PutAside(p)
           \/ x[1] # "queue" /\ x # PutAside(x[2])
  <1>1. x[2] \in PE /\ x[3] \in PE /\ (x[1] = "queue" => x = OnTheWay(x[2], x[3]))
    BY DEF Place, OnTheWay
  <1> QED
    BY <1>1

LEMMA WaitingType ==
    ASSUME NEW e \in Elem, NEW net, NetIs(net), NEW bufs, BuffersAre(bufs),
           NEW phase, PhaseIs(phase)
    PROVE  \A x \in Place : WaitingFor(e, net, bufs, phase)[x] \in Seq(Packet)
  <1> DEFINE w == WaitingFor(e, net, bufs, phase)
  <1>1. /\ \A p, q \in PE : w[OnTheWay(p, q)] = net[SentTo(e, p, q)]
        /\ \A p \in PE : w[PutAside(p)] = AsideFor(e, bufs, phase, p)
        /\ \A x \in Place : x[1] # "queue" /\ x # PutAside(x[2]) => w[x] = <<>>
    BY WaitingThere
  <1> HIDE DEF w
  <1>2. \A p, q \in PE : net[SentTo(e, p, q)] \in Seq(Packet)
    BY SentToRoute DEF NetIs
  <1>3. \A p \in PE : AsideFor(e, bufs, phase, p) \in Seq(Packet)
    BY PostsOfType, CopiesArePackets DEF AsideFor, BuffersAre, PhaseIs
  <1>4. <<>> \in Seq(Packet)
    BY EmptySeq
  <1>5. \A x \in Place : w[x] \in Seq(Packet)
    BY <1>1, <1>2, <1>3, <1>4, PlaceIs
  <1> QED
    BY <1>5 DEF w

(* Nothing changes for e *)
LEMMA WaitingSame ==
    ASSUME NEW e, NEW net, NEW bufs, NEW phase, NEW net2, NEW bufs2, NEW phase2,
           \A p, q \in PE : net2[SentTo(e, p, q)] = net[SentTo(e, p, q)],
           \A p \in PE : AsideFor(e, bufs2, phase2, p) = AsideFor(e, bufs, phase, p)
    PROVE  WaitingFor(e, net2, bufs2, phase2) = WaitingFor(e, net, bufs, phase)
  <1> DEFINE w == WaitingFor(e, net, bufs, phase)
             v == WaitingFor(e, net2, bufs2, phase2)
  <1>1. /\ \A p, q \in PE : w[OnTheWay(p, q)] = net[SentTo(e, p, q)]
        /\ \A p \in PE : w[PutAside(p)] = AsideFor(e, bufs, phase, p)
        /\ \A x \in Place : x[1] # "queue" /\ x # PutAside(x[2]) => w[x] = <<>>
    BY WaitingThere
  <1>2. /\ \A p, q \in PE : v[OnTheWay(p, q)] = net2[SentTo(e, p, q)]
        /\ \A p \in PE : v[PutAside(p)] = AsideFor(e, bufs2, phase2, p)
        /\ \A x \in Place : x[1] # "queue" /\ x # PutAside(x[2]) => v[x] = <<>>
    BY WaitingThere
  <1>3. v = [x \in Place |-> v[x]] /\ w = [x \in Place |-> w[x]]
    BY DEF WaitingFor
  <1> HIDE DEF v, w
  <1>4. \A x \in Place : v[x] = w[x]
    BY <1>1, <1>2, PlaceIs
  <1>5. v = w
    BY <1>3, <1>4
  <1> QED
    BY <1>5 DEF v, w

(* One of the routes to e changes *)
LEMMA RouteChanges ==
    ASSUME NEW e, NEW net, NEW bufs, NEW phase, NEW net2,
           NEW p \in PE, NEW q \in PE, NEW s, net2[SentTo(e, p, q)] = s,
           \A a, z \in PE : ~(a = p /\ z = q) =>
               net2[SentTo(e, a, z)] = net[SentTo(e, a, z)]
    PROVE  LET w == WaitingFor(e, net, bufs, phase)
               v == WaitingFor(e, net2, bufs, phase)
           IN  Becomes(w, v, OnTheWay(p, q), s)
  <1> DEFINE w == WaitingFor(e, net, bufs, phase)
             v == WaitingFor(e, net2, bufs, phase)
  <1>1. /\ \A a, z \in PE : w[OnTheWay(a, z)] = net[SentTo(e, a, z)]
        /\ \A a \in PE : w[PutAside(a)] = AsideFor(e, bufs, phase, a)
        /\ \A x \in Place : x[1] # "queue" /\ x # PutAside(x[2]) => w[x] = <<>>
    BY WaitingThere
  <1>2. /\ \A a, z \in PE : v[OnTheWay(a, z)] = net2[SentTo(e, a, z)]
        /\ \A a \in PE : v[PutAside(a)] = AsideFor(e, bufs, phase, a)
        /\ \A x \in Place : x[1] # "queue" /\ x # PutAside(x[2]) => v[x] = <<>>
    BY WaitingThere
  <1> HIDE DEF v, w
  <1>3. ASSUME NEW x \in Place
        PROVE  v[x] = IF x = OnTheWay(p, q) THEN s ELSE w[x]
    <2>1. ASSUME NEW a \in PE, NEW z \in PE, x = OnTheWay(a, z)
          PROVE  v[x] = IF x = OnTheWay(p, q) THEN s ELSE w[x]
      <3>1. x = OnTheWay(p, q) <=> a = p /\ z = q
        BY <2>1, Places
      <3> QED
        BY <1>1, <1>2, <2>1, <3>1
    <2>2. ASSUME NEW a \in PE, x = PutAside(a)
          PROVE  v[x] = IF x = OnTheWay(p, q) THEN s ELSE w[x]
      <3>1. x # OnTheWay(p, q)
        BY <2>2, Places
      <3> QED
        BY <1>1, <1>2, <2>2, <3>1
    <2>3. ASSUME x[1] # "queue" /\ x # PutAside(x[2])
          PROVE  v[x] = IF x = OnTheWay(p, q) THEN s ELSE w[x]
      <3>1. x # OnTheWay(p, q)
        BY <2>3 DEF OnTheWay
      <3> QED
        BY <1>1, <1>2, <2>3, <3>1
    <2> QED
      BY <2>1, <2>2, <2>3, PlaceIs
  <1> QED
    BY <1>3 DEF v, w, Becomes

(* What a PE has put aside for e changes *)
LEMMA AsideChanges ==
    ASSUME NEW e, NEW net, NEW bufs, NEW phase, NEW bufs2, NEW phase2,
           NEW p \in PE, NEW s, AsideFor(e, bufs2, phase2, p) = s,
           \A q \in PE : q # p =>
               AsideFor(e, bufs2, phase2, q) = AsideFor(e, bufs, phase, q)
    PROVE  LET w == WaitingFor(e, net, bufs, phase)
               v == WaitingFor(e, net, bufs2, phase2)
           IN  Becomes(w, v, PutAside(p), s)
  <1> DEFINE w == WaitingFor(e, net, bufs, phase)
             v == WaitingFor(e, net, bufs2, phase2)
  <1>1. /\ \A a, z \in PE : w[OnTheWay(a, z)] = net[SentTo(e, a, z)]
        /\ \A a \in PE : w[PutAside(a)] = AsideFor(e, bufs, phase, a)
        /\ \A x \in Place : x[1] # "queue" /\ x # PutAside(x[2]) => w[x] = <<>>
    BY WaitingThere
  <1>2. /\ \A a, z \in PE : v[OnTheWay(a, z)] = net[SentTo(e, a, z)]
        /\ \A a \in PE : v[PutAside(a)] = AsideFor(e, bufs2, phase2, a)
        /\ \A x \in Place : x[1] # "queue" /\ x # PutAside(x[2]) => v[x] = <<>>
    BY WaitingThere
  <1> HIDE DEF v, w
  <1>3. ASSUME NEW x \in Place
        PROVE  v[x] = IF x = PutAside(p) THEN s ELSE w[x]
    <2>1. ASSUME NEW a \in PE, NEW z \in PE, x = OnTheWay(a, z)
          PROVE  v[x] = IF x = PutAside(p) THEN s ELSE w[x]
      <3>1. x # PutAside(p)
        BY <2>1, Places
      <3> QED
        BY <1>1, <1>2, <2>1, <3>1
    <2>2. ASSUME NEW a \in PE, x = PutAside(a)
          PROVE  v[x] = IF x = PutAside(p) THEN s ELSE w[x]
      <3>1. x = PutAside(p) <=> a = p
        BY <2>2 DEF PutAside
      <3> QED
        BY <1>1, <1>2, <2>2, <3>1
    <2>3. ASSUME x[1] # "queue" /\ x # PutAside(x[2])
          PROVE  v[x] = IF x = PutAside(p) THEN s ELSE w[x]
      <3>1. x # PutAside(p)
        BY <2>3 DEF PutAside
      <3> QED
        BY <1>1, <1>2, <2>3, <3>1
    <2> QED
      BY <2>1, <2>2, <2>3, PlaceIs
  <1> QED
    BY <1>3 DEF v, w, Becomes

-----------------------------------------------------------------------------
(* The handler at e has packets in hand; all else is where it should be *)

Typed(net, bufs, phase) ==
    /\ net \in [Route -> Seq(Packet)]
    /\ bufs \in [PE -> [Elem -> Seq(CopyPacket)]]
    /\ phase \in [PE -> Seq(Bcast)]

InPlace(c, b, net, bufs, phase) == Stays(c, b, WaitingFor(c, net, bufs, phase))

InHand(e, hand, net, bufs, phase) ==
    \A c \in Elem, b \in Bcast :
        IF c = e THEN Taken(e, b, WaitingFor(e, net, bufs, phase), hand)
        ELSE InPlace(c, b, net, bufs, phase)

AllInPlace(net, bufs, phase) ==
    \A c \in Elem, b \in Bcast : InPlace(c, b, net, bufs, phase)

(* Two sequences about the same broadcasts *)
Alike(s, t) ==
    \A b \in Bcast : /\ NoHit(s, About(b)) => NoHit(t, About(b))
                     /\ OneHit(s, About(b)) => OneHit(t, About(b))
AboutNothing(s) == \A b \in Bcast : NoHit(s, About(b))

LEMMA EmptyHanded ==
    ASSUME NEW e \in Elem, NEW net, NEW bufs, NEW phase
    PROVE  InHand(e, <<>>, net, bufs, phase) <=> AllInPlace(net, bufs, phase)
  BY EmptyHand DEF InHand, AllInPlace, InPlace

LEMMA HandIsNothing ==
    ASSUME NEW e \in Elem, NEW hand, NEW net, NEW bufs, NEW phase,
           InHand(e, hand, net, bufs, phase), AboutNothing(hand)
    PROVE  AllInPlace(net, bufs, phase)
  BY DroppedHand DEF InHand, AllInPlace, InPlace, AboutNothing

(* Sending, seen from each element *)
LEMMA EmitFor ==
    ASSUME NEW net \in [Route -> Seq(Packet)], NEW bufs, NEW phase, NEW c \in Elem,
           NEW p \in PE, NEW to \in PE, NEW idx \in Elem \cup {bcast_root}, NEW packs
    PROVE  LET w == WaitingFor(c, net, bufs, phase)
               v == WaitingFor(c, Emit(net, p, to, idx, packs), bufs, phase)
               y == OnTheWay(p, to)
           IN  /\ idx = Index(c) => Becomes(w, v, y, w[y] \o packs)
               /\ idx # Index(c) => Same(w, v)
  <1> DEFINE new == Emit(net, p, to, idx, packs)
             r == [from |-> p, to |-> to, idx |-> idx]
             w == WaitingFor(c, net, bufs, phase)
             v == WaitingFor(c, new, bufs, phase)
  <1>1. r \in Route
    BY DEF Route
  <1>2. new[r] = net[r] \o packs /\ \A s \in Route : s # r => new[s] = net[s]
    BY <1>1 DEF Emit
  <1> HIDE DEF new
  <1>3. CASE idx = Index(c)
    <2>1. r = SentTo(c, p, to)
      BY <1>3 DEF SentTo
    <2>2. \A a, z \in PE : ~(a = p /\ z = to) => SentTo(c, a, z) # r
      BY DEF SentTo
    <2>3. \A a, z \in PE : ~(a = p /\ z = to) =>
              new[SentTo(c, a, z)] = net[SentTo(c, a, z)]
      BY <1>2, <2>2, SentToRoute
    <2> DEFINE s == net[SentTo(c, p, to)] \o packs
    <2>4. new[SentTo(c, p, to)] = s
      BY <1>2, <2>1
    <2> HIDE DEF s
    <2>5. Becomes(w, v, OnTheWay(p, to), s)
      BY <2>3, <2>4, RouteChanges
    <2>6. s = w[OnTheWay(p, to)] \o packs
      <3>1. w[OnTheWay(p, to)] = net[SentTo(c, p, to)]
        BY WaitingThere
      <3> QED
        BY <3>1 DEF s
    <2> HIDE DEF v, w
    <2> QED
      BY <1>3, <2>5, <2>6 DEF v, w, new
  <1>4. CASE idx # Index(c)
    <2>1. \A a, z \in PE : SentTo(c, a, z) # r
      BY <1>4 DEF SentTo
    <2>2. \A a, z \in PE : new[SentTo(c, a, z)] = net[SentTo(c, a, z)]
      BY <1>2, <2>1, SentToRoute
    <2>3. v = w
      BY <2>2, WaitingSame
    <2> QED
      BY <1>4, <2>3 DEF new, Same
  <1> QED
    BY <1>3, <1>4

(* Sending what is about no broadcast *)
LEMMA SendNothing ==
    ASSUME NEW net, NEW bufs, NEW phase, Typed(net, bufs, phase),
           NEW e \in Elem, NEW hand, InHand(e, hand, net, bufs, phase),
           NEW p \in PE, NEW to \in PE, NEW idx \in Elem \cup {bcast_root},
           NEW packs \in Seq(Packet), AboutNothing(packs)
    PROVE  InHand(e, hand, Emit(net, p, to, idx, packs), bufs, phase)
  <1> DEFINE new == Emit(net, p, to, idx, packs)
             w(c) == WaitingFor(c, net, bufs, phase)
             v(c) == WaitingFor(c, new, bufs, phase)
             y == OnTheWay(p, to)
  <1>a. net \in [Route -> Seq(Packet)]
    BY DEF Typed
  <1>1. ASSUME NEW c \in Elem, NEW b \in Bcast
        PROVE  IF c = e THEN Taken(e, b, v(c), hand) ELSE Stays(c, b, v(c))
    <2>1. IF c = e THEN Taken(e, b, w(c), hand) ELSE Stays(c, b, w(c))
      BY DEF InHand, InPlace
    <2>2. idx = Index(c) => Becomes(w(c), v(c), y, w(c)[y] \o packs)
      BY <1>a, EmitFor
    <2>a. idx # Index(c) => Same(w(c), v(c))
      BY <1>a, EmitFor
    <2>3. \A x \in Place : w(c)[x] \in Seq(Packet)
      BY WaitingType DEF Typed, NetIs, BuffersAre, PhaseIs
    <2>4. NoHit(packs, About(b)) /\ y \in Place
      BY Places DEF AboutNothing
    <2> DEFINE u == w(c)
               t == v(c)
    <2> HIDE DEF u, t, y
    <2>5. CASE idx = Index(c)
      <3>1. Becomes(u, t, y, u[y] \o packs)
        BY <2>2, <2>5 DEF u, t
      <3>2. \A x \in Place : u[x] \in Seq(Packet)
        BY <2>3 DEF u
      <3>3. /\ Stays(c, b, u) => Stays(c, b, t)
            /\ Taken(c, b, u, hand) => Taken(c, b, t, hand)
        BY <2>4, <3>1, <3>2, GainedNothing
      <3> QED
        BY <2>1, <3>3 DEF u, t
    <2>6. CASE idx # Index(c)
      BY <2>1, <2>a, <2>6 DEF Same
    <2> QED
      BY <2>5, <2>6
  <1> QED
    BY <1>1 DEF InHand, InPlace

(* Sending what is in hand *)
LEMMA SendHand ==
    ASSUME NEW net, NEW bufs, NEW phase, Typed(net, bufs, phase),
           NEW e \in Elem, NEW hand, InHand(e, hand, net, bufs, phase),
           NEW p \in PE, NEW to \in PE, NEW packs \in Seq(Packet), Alike(hand, packs)
    PROVE  AllInPlace(Emit(net, p, to, Index(e), packs), bufs, phase)
  <1> DEFINE new == Emit(net, p, to, Index(e), packs)
             w(c) == WaitingFor(c, net, bufs, phase)
             v(c) == WaitingFor(c, new, bufs, phase)
             y == OnTheWay(p, to)
  <1>b. Index(e) \in Elem \cup {bcast_root}
    BY DEF Index
  <1>a. net \in [Route -> Seq(Packet)]
    BY DEF Typed
  <1>1. ASSUME NEW c \in Elem, NEW b \in Bcast
        PROVE  Stays(c, b, v(c))
    <2>1. IF c = e THEN Taken(e, b, w(c), hand) ELSE Stays(c, b, w(c))
      BY DEF InHand, InPlace
    <2>2. Index(e) = Index(c) => Becomes(w(c), v(c), y, w(c)[y] \o packs)
      BY <1>a, <1>b, EmitFor
    <2>a. Index(e) # Index(c) => Same(w(c), v(c))
      BY <1>a, <1>b, EmitFor
    <2>3. \A x \in Place : w(c)[x] \in Seq(Packet)
      BY WaitingType DEF Typed, NetIs, BuffersAre, PhaseIs
    <2>4. /\ NoHit(hand, About(b)) => NoHit(packs, About(b))
          /\ OneHit(hand, About(b)) => OneHit(packs, About(b))
          /\ y \in Place
      BY Places DEF Alike
    <2>5. Index(e) = Index(c) <=> c = e
      BY IndexIsOne
    <2> DEFINE u == w(c)
               t == v(c)
    <2> HIDE DEF u, t, y
    <2>6. CASE c = e
      <3>1. Becomes(u, t, y, u[y] \o packs)
        BY <2>2, <2>5, <2>6 DEF u, t
      <3>2. \A x \in Place : u[x] \in Seq(Packet)
        BY <2>3 DEF u
      <3>3. Taken(c, b, u, hand)
        BY <2>1, <2>6 DEF u
      <3>4. Stays(c, b, t)
        BY <2>4, <3>1, <3>2, <3>3, GainedHand
      <3> QED
        BY <3>4 DEF t
    <2>7. CASE c # e
      BY <2>1, <2>a, <2>5, <2>7 DEF Same
    <2> QED
      BY <2>6, <2>7
  <1> QED
    BY <1>1 DEF AllInPlace, InPlace

(* A packet is received, and a buffer changes, seen from each element *)
LEMMA WithoutFor ==
    ASSUME NEW bufs, NEW phase, queue \in [Route -> Seq(Packet)], NEW c \in Elem,
           NEW r \in Route, NEW i \in DOMAIN queue[r]
    PROVE  LET w == WaitingFor(c, queue, bufs, phase)
               v == WaitingFor(c, Without(r, i), bufs, phase)
               y == OnTheWay(r.from, r.to)
           IN  /\ r.idx = Index(c) =>
                     w[y] = queue[r] /\ Becomes(w, v, y, RemoveAt(w[y], i))
               /\ r.idx # Index(c) => Same(w, v)
  <1> DEFINE net == Without(r, i)
             w == WaitingFor(c, queue, bufs, phase)
             v == WaitingFor(c, net, bufs, phase)
             y == OnTheWay(r.from, r.to)
  <1>1. /\ r.from \in PE /\ r.to \in PE
        /\ r = [from |-> r.from, to |-> r.to, idx |-> r.idx]
    BY DEF Route
  <1>2. /\ net[r] = RemoveAt(queue[r], i)
        /\ \A s \in Route : s # r => net[s] = queue[s]
    BY DEF Without
  <1> HIDE DEF net
  <1>3. CASE r.idx = Index(c)
    <2>1. r = SentTo(c, r.from, r.to)
      BY <1>1, <1>3 DEF SentTo
    <2>2. \A a, z \in PE : ~(a = r.from /\ z = r.to) => SentTo(c, a, z) # r
      BY DEF SentTo
    <2>3. \A a, z \in PE : ~(a = r.from /\ z = r.to) =>
              net[SentTo(c, a, z)] = queue[SentTo(c, a, z)]
      BY <1>2, <2>2, SentToRoute
    <2> DEFINE s == RemoveAt(queue[r], i)
    <2>4. net[SentTo(c, r.from, r.to)] = s
      BY <1>2, <2>1
    <2> HIDE DEF s
    <2>5. Becomes(w, v, y, s)
      BY <1>1, <2>3, <2>4, RouteChanges
    <2>6. w[y] = queue[r]
      <3>1. w[y] = queue[SentTo(c, r.from, r.to)]
        BY <1>1, WaitingThere
      <3> QED
        BY <2>1, <3>1
    <2> QED
      BY <1>3, <2>5, <2>6 DEF s, net
  <1>4. CASE r.idx # Index(c)
    <2>1. \A a, z \in PE : SentTo(c, a, z) # r
      BY <1>4 DEF SentTo
    <2>2. \A a, z \in PE : net[SentTo(c, a, z)] = queue[SentTo(c, a, z)]
      BY <1>2, <2>1, SentToRoute
    <2>3. v = w
      BY <2>2, WaitingSame
    <2> QED
      BY <1>4, <2>3 DEF net, Same
  <1> QED
    BY <1>3, <1>4

LEMMA BufferFor ==
    ASSUME NEW net, NEW bufs \in [PE -> [Elem -> Seq(CopyPacket)]], NEW phase,
           NEW c \in Elem, NEW p \in PE, NEW e \in Elem, e # root, NEW s
    PROVE  LET w == WaitingFor(c, net, bufs, phase)
               v == WaitingFor(c, net, [bufs EXCEPT ![p][e] = s], phase)
               y == PutAside(p)
           IN  /\ c = e => w[y] = bufs[p][e] /\ Becomes(w, v, y, s)
               /\ c # e => Same(w, v)
  <1> DEFINE new == [bufs EXCEPT ![p][e] = s]
             w == WaitingFor(c, net, bufs, phase)
             v == WaitingFor(c, net, new, phase)
  <1>1. /\ new[p][e] = s
        /\ \A q \in PE, f \in Elem : q # p \/ f # e => new[q][f] = bufs[q][f]
    OBVIOUS
  <1> HIDE DEF new
  <1>2. CASE c = e
    <2>1. AsideFor(c, new, phase, p) = s /\ AsideFor(c, bufs, phase, p) = bufs[p][e]
      BY <1>1, <1>2 DEF AsideFor
    <2>2. \A q \in PE : q # p =>
              AsideFor(c, new, phase, q) = AsideFor(c, bufs, phase, q)
      BY <1>1, <1>2 DEF AsideFor
    <2>3. Becomes(w, v, PutAside(p), s)
      BY <2>1, <2>2, AsideChanges
    <2>4. w[PutAside(p)] = bufs[p][e]
      <3>1. w[PutAside(p)] = AsideFor(c, bufs, phase, p)
        BY WaitingThere
      <3> QED
        BY <2>1, <3>1
    <2> QED
      BY <1>2, <2>3, <2>4 DEF new
  <1>3. CASE c # e
    <2>1. \A q \in PE : AsideFor(c, new, phase, q) = AsideFor(c, bufs, phase, q)
      BY <1>1, <1>3 DEF AsideFor
    <2>2. v = w
      BY <2>1, WaitingSame
    <2> QED
      BY <1>3, <2>2 DEF new, Same
  <1> QED
    BY <1>2, <1>3

LEMMA PhaseFor ==
    ASSUME NEW net, NEW bufs, NEW phase \in [PE -> Seq(Bcast)],
           NEW c \in Elem, NEW p \in PE, NEW s
    PROVE  LET w == WaitingFor(c, net, bufs, phase)
               v == WaitingFor(c, net, bufs, [phase EXCEPT ![p] = s])
               y == PutAside(p)
           IN  /\ c = root => w[y] = PostsOf(phase[p]) /\ Becomes(w, v, y, PostsOf(s))
               /\ c # root => Same(w, v)
  <1> DEFINE new == [phase EXCEPT ![p] = s]
             w == WaitingFor(c, net, bufs, phase)
             v == WaitingFor(c, net, bufs, new)
             t == PostsOf(s)
  <1>1. new[p] = s /\ \A q \in PE : q # p => new[q] = phase[q]
    OBVIOUS
  <1> HIDE DEF new
  <1>2. CASE c = root
    <2>1. AsideFor(c, bufs, new, p) = t /\ AsideFor(c, bufs, phase, p) = PostsOf(phase[p])
      BY <1>1, <1>2 DEF AsideFor
    <2>2. \A q \in PE : q # p =>
              AsideFor(c, bufs, new, q) = AsideFor(c, bufs, phase, q)
      BY <1>1, <1>2 DEF AsideFor
    <2> HIDE DEF t
    <2>3. Becomes(w, v, PutAside(p), t)
      BY <2>1, <2>2, AsideChanges
    <2>4. w[PutAside(p)] = PostsOf(phase[p])
      <3>1. w[PutAside(p)] = AsideFor(c, bufs, phase, p)
        BY WaitingThere
      <3> QED
        BY <2>1, <3>1
    <2> QED
      BY <1>2, <2>3, <2>4 DEF new, t
  <1>3. CASE c # root
    <2>1. \A q \in PE : AsideFor(c, bufs, new, q) = AsideFor(c, bufs, phase, q)
      BY <1>3 DEF AsideFor
    <2>2. v = w
      BY <2>1, WaitingSame
    <2> QED
      BY <1>3, <2>2 DEF new, Same
  <1> QED
    BY <1>2, <1>3

-----------------------------------------------------------------------------
(* Taking in hand *)

(* A received packet *)
LEMMA TakeReceived ==
    ASSUME NEW bufs, NEW phase, Typed(queue, bufs, phase),
           AllInPlace(queue, bufs, phase), NEW e \in Elem,
           NEW r \in Route, r.idx = Index(e), NEW i \in DOMAIN queue[r]
    PROVE  InHand(e, <<queue[r][i]>>, Without(r, i), bufs, phase)
  <1> DEFINE net == Without(r, i)
             n == queue[r][i]
             y == OnTheWay(r.from, r.to)
             w(c) == WaitingFor(c, queue, bufs, phase)
             v(c) == WaitingFor(c, net, bufs, phase)
  <1>1. y \in Place /\ queue \in [Route -> Seq(Packet)]
    BY Places DEF Route, Typed
  <1>2. ASSUME NEW c \in Elem, NEW b \in Bcast
        PROVE  IF c = e THEN Taken(e, b, v(c), <<n>>) ELSE Stays(c, b, v(c))
    <2>1. Stays(c, b, w(c))
      BY DEF AllInPlace, InPlace
    <2>2. r.idx = Index(c) =>
              w(c)[y] = queue[r] /\ Becomes(w(c), v(c), y, RemoveAt(w(c)[y], i))
      BY <1>1, WithoutFor
    <2>3. r.idx # Index(c) => Same(w(c), v(c))
      BY <1>1, WithoutFor
    <2>4. r.idx = Index(c) <=> c = e
      BY IndexIsOne
    <2>5. CASE c = e
      <3> DEFINE u == w(c)
                 t == v(c)
      <3>1. u[y] = queue[r] /\ Becomes(u, t, y, RemoveAt(u[y], i)) /\ Stays(c, b, u)
        BY <2>1, <2>2, <2>4, <2>5
      <3> HIDE DEF u, t, y
      <3>2. u[y] \in Seq(Packet) /\ i \in DOMAIN u[y] /\ u[y][i] = n
        BY <1>1, <3>1
      <3>3. Taken(c, b, t, <<u[y][i]>>)
        BY <1>1, <3>1, <3>2, LostOne
      <3> QED
        BY <2>5, <3>2, <3>3 DEF t
    <2>6. CASE c # e
      BY <2>1, <2>3, <2>4, <2>6 DEF Same
    <2> QED
      BY <2>5, <2>6
  <1> QED
    BY <1>2 DEF InHand, InPlace

(* A packet about no broadcast *)
LEMMA TakeOther ==
    ASSUME NEW bufs, NEW phase, Typed(queue, bufs, phase),
           AllInPlace(queue, bufs, phase),
           NEW r \in Route, r.idx \in Elem, NEW i \in DOMAIN queue[r],
           AboutNothing(<<queue[r][i]>>)
    PROVE  AllInPlace(Without(r, i), bufs, phase)
  <1>1. CASE r.idx = root
    <2>1. queue \in [Route -> Seq(Packet)]
      BY DEF Typed
    <2>2. ASSUME NEW c \in Elem
          PROVE  Same(WaitingFor(c, queue, bufs, phase),
                      WaitingFor(c, Without(r, i), bufs, phase))
      <3>1. r.idx # Index(c)
        BY <1>1, IndexIsOne
      <3> QED
        BY <2>1, <3>1, WithoutFor
    <2> QED
      BY <2>2 DEF AllInPlace, InPlace, Same
  <1>2. CASE r.idx # root
    <2>1. r.idx = Index(r.idx)
      BY <1>2, IndexIsOne
    <2>2. InHand(r.idx, <<queue[r][i]>>, Without(r, i), bufs, phase)
      BY <2>1, TakeReceived
    <2> QED
      BY <2>2, HandIsNothing
  <1> QED
    BY <1>1, <1>2

(* All that is in a buffer *)
LEMMA TakeBuffer ==
    ASSUME NEW net, NEW bufs, NEW phase, Typed(net, bufs, phase),
           AllInPlace(net, bufs, phase),
           NEW p \in PE, NEW e \in Elem, e # root
    PROVE  InHand(e, bufs[p][e], net, [bufs EXCEPT ![p][e] = <<>>], phase)
  <1> DEFINE new == [bufs EXCEPT ![p][e] = <<>>]
             y == PutAside(p)
             w(c) == WaitingFor(c, net, bufs, phase)
             v(c) == WaitingFor(c, net, new, phase)
  <1>1. y \in Place /\ bufs \in [PE -> [Elem -> Seq(CopyPacket)]]
    BY Places DEF Typed
  <1>2. ASSUME NEW c \in Elem, NEW b \in Bcast
        PROVE  IF c = e THEN Taken(e, b, v(c), bufs[p][e]) ELSE Stays(c, b, v(c))
    <2>1. Stays(c, b, w(c))
      BY DEF AllInPlace, InPlace
    <2>2. c = e => w(c)[y] = bufs[p][e] /\ Becomes(w(c), v(c), y, <<>>)
      BY <1>1, BufferFor
    <2>3. c # e => Same(w(c), v(c))
      BY <1>1, BufferFor
    <2>4. CASE c = e
      <3> DEFINE u == w(c)
                 t == v(c)
      <3>1. u[y] = bufs[p][e] /\ Becomes(u, t, y, <<>>) /\ Stays(c, b, u)
        BY <2>1, <2>2, <2>4
      <3> HIDE DEF u, t, y
      <3>2. Taken(c, b, t, u[y])
        BY <1>1, <3>1, LostAll
      <3> QED
        BY <2>4, <3>1, <3>2 DEF t
    <2>5. CASE c # e
      BY <2>1, <2>3, <2>5 DEF Same
    <2> QED
      BY <2>4, <2>5
  <1> QED
    BY <1>2 DEF InHand, InPlace

(* One of those that are in a buffer, with what is in hand *)
LEMMA TakeBuffered ==
    ASSUME NEW net, NEW bufs, NEW phase, Typed(net, bufs, phase),
           NEW p \in PE, NEW e \in Elem, e # root, NEW hand \in Seq(Packet),
           InHand(e, hand, net, bufs, phase), NEW i \in DOMAIN bufs[p][e]
    PROVE  InHand(e, Append(hand, bufs[p][e][i]), net,
                  [bufs EXCEPT ![p][e] = RemoveAt(bufs[p][e], i)], phase)
  <1> DEFINE s == RemoveAt(bufs[p][e], i)
             new == [bufs EXCEPT ![p][e] = s]
             y == PutAside(p)
             both == Append(hand, bufs[p][e][i])
             w(c) == WaitingFor(c, net, bufs, phase)
             v(c) == WaitingFor(c, net, new, phase)
  <1>1. y \in Place /\ bufs \in [PE -> [Elem -> Seq(CopyPacket)]]
    BY Places DEF Typed
  <1>2. ASSUME NEW c \in Elem, NEW b \in Bcast
        PROVE  IF c = e THEN Taken(e, b, v(c), both) ELSE Stays(c, b, v(c))
    <2>1. IF c = e THEN Taken(e, b, w(c), hand) ELSE Stays(c, b, w(c))
      BY DEF InHand, InPlace
    <2>2. c = e => w(c)[y] = bufs[p][e] /\ Becomes(w(c), v(c), y, s)
      <3> HIDE DEF s
      <3> QED
        BY <1>1, BufferFor
    <2>3. c # e => Same(w(c), v(c))
      <3> HIDE DEF s
      <3> QED
        BY <1>1, BufferFor
    <2>4. CASE c = e
      <3> DEFINE u == w(c)
                 t == v(c)
      <3>1. u[y] = bufs[p][e] /\ Becomes(u, t, y, RemoveAt(u[y], i))
        BY <2>2, <2>4
      <3>2. Taken(c, b, u, hand)
        BY <2>1, <2>4
      <3>3. bufs[p][e] \in Seq(Packet)
        BY <1>1, CopiesArePackets
      <3> HIDE DEF u, t, y, both
      <3>4. u[y] \in Seq(Packet) /\ i \in DOMAIN u[y] /\ both = Append(hand, u[y][i])
        BY <3>1, <3>3 DEF both
      <3>5. Taken(c, b, t, Append(hand, u[y][i]))
        BY <1>1, <3>1, <3>2, <3>4, LostAnother
      <3> QED
        BY <2>4, <3>4, <3>5 DEF t
    <2>5. CASE c # e
      BY <2>1, <2>3, <2>5 DEF Same
    <2> QED
      BY <2>4, <2>5
  <1> QED
    BY <1>2 DEF InHand, InPlace

(* All that a PE has put aside for the root of the tree *)
LEMMA TakePhase ==
    ASSUME NEW net, NEW bufs, NEW phase, Typed(net, bufs, phase),
           AllInPlace(net, bufs, phase), NEW p \in PE
    PROVE  InHand(root, PostsOf(phase[p]), net, bufs, [phase EXCEPT ![p] = <<>>])
  <1> DEFINE new == [phase EXCEPT ![p] = <<>>]
             y == PutAside(p)
             w(c) == WaitingFor(c, net, bufs, phase)
             v(c) == WaitingFor(c, net, bufs, new)
  <1>1. y \in Place /\ phase \in [PE -> Seq(Bcast)] /\ PostsOf(<<>>) = <<>>
    BY Places DEF Typed, PostsOf
  <1>2. ASSUME NEW c \in Elem, NEW b \in Bcast
        PROVE  IF c = root THEN Taken(root, b, v(c), PostsOf(phase[p]))
               ELSE Stays(c, b, v(c))
    <2>1. Stays(c, b, w(c))
      BY DEF AllInPlace, InPlace
    <2>2. c = root => w(c)[y] = PostsOf(phase[p]) /\ Becomes(w(c), v(c), y, PostsOf(<<>>))
      BY <1>1, PhaseFor
    <2>3. c # root => Same(w(c), v(c))
      BY <1>1, PhaseFor
    <2>4. CASE c = root
      <3> DEFINE u == w(c)
                 t == v(c)
      <3>1. u[y] = PostsOf(phase[p]) /\ Becomes(u, t, y, <<>>) /\ Stays(c, b, u)
        BY <1>1, <2>1, <2>2, <2>4
      <3> HIDE DEF u, t, y
      <3>2. Taken(c, b, t, u[y])
        BY <1>1, <3>1, LostAll
      <3> QED
        BY <2>4, <3>1, <3>2 DEF t
    <2>5. CASE c # root
      BY <2>1, <2>3, <2>5 DEF Same
    <2> QED
      BY <2>4, <2>5
  <1> QED
    BY <1>2 DEF InHand, InPlace

-----------------------------------------------------------------------------
(* Putting aside *)

LEMMA PutInBuffer ==
    ASSUME NEW net, NEW bufs, NEW phase, Typed(net, bufs, phase),
           NEW p \in PE, NEW e \in Elem, e # root, NEW n \in CopyPacket,
           InHand(e, <<n>>, net, bufs, phase)
    PROVE  AllInPlace(net, [bufs EXCEPT ![p][e] = Append(bufs[p][e], n)], phase)
  <1> DEFINE s == Append(bufs[p][e], n)
             new == [bufs EXCEPT ![p][e] = s]
             y == PutAside(p)
             one == <<n>>
             w(c) == WaitingFor(c, net, bufs, phase)
             v(c) == WaitingFor(c, net, new, phase)
  <1>1. y \in Place /\ bufs \in [PE -> [Elem -> Seq(CopyPacket)]]
    BY Places DEF Typed
  <1>2. one \in Seq(Packet) /\ bufs[p][e] \o one = s
    <2>1. n \in Packet /\ bufs[p][e] \in Seq(CopyPacket)
      BY <1>1 DEF Packet
    <2> QED
      BY <2>1, AppendIsConcat
  <1>3. ASSUME NEW c \in Elem, NEW b \in Bcast
        PROVE  Stays(c, b, v(c))
    <2>1. IF c = e THEN Taken(e, b, w(c), one) ELSE Stays(c, b, w(c))
      BY DEF InHand, InPlace
    <2>2. c = e => w(c)[y] = bufs[p][e] /\ Becomes(w(c), v(c), y, s)
      <3> HIDE DEF s
      <3> QED
        BY <1>1, BufferFor
    <2>3. c # e => Same(w(c), v(c))
      <3> HIDE DEF s
      <3> QED
        BY <1>1, BufferFor
    <2>4. CASE c = e
      <3> DEFINE u == w(c)
                 t == v(c)
      <3>1. u[y] = bufs[p][e] /\ Becomes(u, t, y, s) /\ Taken(c, b, u, one)
        BY <2>1, <2>2, <2>4
      <3>2. \A x \in Place : u[x] \in Seq(Packet)
        BY WaitingType DEF Typed, NetIs, BuffersAre, PhaseIs
      <3> HIDE DEF u, t, y, s, one
      <3>3. Becomes(u, t, y, u[y] \o one)
        BY <1>2, <3>1
      <3>4. Stays(c, b, t)
        BY <1>1, <1>2, <3>1, <3>2, <3>3, GainedHand
      <3> QED
        BY <3>4 DEF t
    <2>5. CASE c # e
      BY <2>1, <2>3, <2>5 DEF Same
    <2> QED
      BY <2>4, <2>5
  <1> QED
    BY <1>3 DEF AllInPlace, InPlace

LEMMA PutInPhase ==
    ASSUME NEW net, NEW bufs, NEW phase, Typed(net, bufs, phase),
           NEW p \in PE, NEW b \in Bcast, InHand(root, <<Post(b)>>, net, bufs, phase)
    PROVE  AllInPlace(net, bufs, [phase EXCEPT ![p] = Append(phase[p], b)])
  <1> DEFINE s == Append(phase[p], b)
             new == [phase EXCEPT ![p] = s]
             y == PutAside(p)
             one == <<Post(b)>>
             w(c) == WaitingFor(c, net, bufs, phase)
             v(c) == WaitingFor(c, net, bufs, new)
  <1>1. y \in Place /\ phase \in [PE -> Seq(Bcast)]
    BY Places DEF Typed
  <1>2. one \in Seq(Packet) /\ PostsOf(s) = PostsOf(phase[p]) \o one
    <2>1. Post(b) \in Packet /\ phase[p] \in Seq(Bcast)
      BY <1>1 DEF Packet, Post
    <2>2. s = phase[p] \o <<b>> /\ <<b>> \in Seq(Bcast)
      BY <2>1, AppendIsConcat
    <2> DEFINE t == phase[p]
               k == PostsOf(t)
               j == PostsOf(s)
    <2>3. /\ k \in Seq(Packet) /\ Len(k) = Len(t)
          /\ \A l \in 1 .. Len(t) : k[l] = Post(t[l])
      BY <2>1, PostsOfType
    <2>4. /\ s \in Seq(Bcast) /\ Len(s) = Len(t) + 1 /\ s[Len(t) + 1] = b
          /\ \A l \in 1 .. Len(t) : s[l] = t[l]
      BY <2>1, AppendFacts
    <2> HIDE DEF s
    <2>5. /\ j \in Seq(Packet) /\ Len(j) = Len(s)
          /\ \A l \in 1 .. Len(s) : j[l] = Post(s[l])
      BY <2>4, PostsOfType
    <2>6. Len(t) \in Nat
      BY <2>1, LenProperties
    <2> DEFINE h == Append(k, Post(b))
    <2>7. /\ h \in Seq(Packet) /\ Len(h) = Len(k) + 1 /\ h[Len(k) + 1] = Post(b)
          /\ \A l \in 1 .. Len(k) : h[l] = k[l]
      BY <2>1, <2>3, AppendFacts
    <2> HIDE DEF t, k, j, h
    <2>8. \A l \in 1 .. Len(j) : j[l] = h[l]
      <3> SUFFICES ASSUME NEW l \in 1 .. Len(j) PROVE j[l] = h[l]
        OBVIOUS
      <3>1. l \in 1 .. Len(t) \/ l = Len(t) + 1
        BY <2>4, <2>5, <2>6
      <3> QED
        BY <2>3, <2>4, <2>5, <2>7, <3>1
    <2>9. j = h
      BY <2>3, <2>4, <2>5, <2>7, <2>8, SeqEqual
    <2>10. h = k \o one
      BY <2>1, <2>3, AppendIsConcat DEF h
    <2> QED
      BY <2>1, <2>9, <2>10 DEF t, k, j
  <1>3. ASSUME NEW c \in Elem, NEW d \in Bcast
        PROVE  Stays(c, d, v(c))
    <2>1. IF c = root THEN Taken(root, d, w(c), one) ELSE Stays(c, d, w(c))
      BY DEF InHand, InPlace
    <2>2. c = root => w(c)[y] = PostsOf(phase[p]) /\ Becomes(w(c), v(c), y, PostsOf(s))
      <3> HIDE DEF s
      <3> QED
        BY <1>1, PhaseFor
    <2>3. c # root => Same(w(c), v(c))
      <3> HIDE DEF s
      <3> QED
        BY <1>1, PhaseFor
    <2>4. CASE c = root
      <3> DEFINE u == w(c)
                 t == v(c)
      <3>1. u[y] = PostsOf(phase[p]) /\ Becomes(u, t, y, PostsOf(s)) /\ Taken(c, d, u, one)
        BY <2>1, <2>2, <2>4
      <3>2. \A x \in Place : u[x] \in Seq(Packet)
        BY WaitingType DEF Typed, NetIs, BuffersAre, PhaseIs
      <3> HIDE DEF u, t, y, s, one
      <3>3. Becomes(u, t, y, u[y] \o one)
        BY <1>2, <3>1
      <3>4. Stays(c, d, t)
        BY <1>1, <1>2, <3>1, <3>2, <3>3, GainedHand
      <3> QED
        BY <3>4 DEF t
    <2>5. CASE c # root
      BY <2>1, <2>3, <2>5 DEF Same
    <2> QED
      BY <2>4, <2>5
  <1> QED
    BY <1>3 DEF AllInPlace, InPlace

-----------------------------------------------------------------------------
(* What is passed on is about the same broadcasts *)

LEMMA IsAbout ==
    /\ \A n \in CopyPacket : n \in Packet /\ \A b : n \in About(b) <=> n.bcast = b
    /\ \A b \in Bcast : /\ Post(b) \in Packet
                        /\ \A d : Post(b) \in About(d) <=> b = d
    /\ \A n \in Moves : n \in Packet /\ \A b : n \notin About(b)
  BY DEF About, Packet, CopyPacket, Post, Moves, Chare

(* Packets one by one, of which each is about the same as the other *)
LEMMA AlikeOneByOne ==
    ASSUME NEW s \in Seq(Packet), NEW t \in Seq(Packet), DOMAIN s = DOMAIN t,
           \A i \in DOMAIN s : \A b \in Bcast : s[i] \in About(b) <=> t[i] \in About(b)
    PROVE  Alike(s, t)
  BY SameHits DEF Alike

LEMMA CopiesAlike ==
    ASSUME NEW run \in Seq(CopyPacket), NEW p \in PE, NEW c
    PROVE  CopiesTo(p, c, run) \in Seq(CopyPacket) /\ Alike(run, CopiesTo(p, c, run))
  <1> DEFINE t == CopiesTo(p, c, run)
  <1>1. /\ Len(run) \in Nat /\ DOMAIN run = 1 .. Len(run)
        /\ \A i \in 1 .. Len(run) : run[i] \in CopyPacket
    BY LenProperties, ElementOfSeq
  <1>2. \A n \in CopyPacket : /\ [n EXCEPT !.sender = p] \in CopyPacket
                              /\ [n EXCEPT !.sender = p].bcast = n.bcast
    BY DEF CopyPacket
  <1>3. /\ DOMAIN t = 1 .. Len(run)
        /\ \A i \in 1 .. Len(run) : t[i] \in CopyPacket /\ t[i].bcast = run[i].bcast
    BY <1>1, <1>2 DEF CopiesTo
  <1>4. t \in [1 .. Len(run) -> CopyPacket]
    BY <1>1, <1>3 DEF CopiesTo
  <1>5. t \in Seq(CopyPacket)
    BY <1>1, <1>4, FunctionIsSeq
  <1> HIDE DEF t
  <1>6. \A i \in DOMAIN run : \A b \in Bcast : run[i] \in About(b) <=> t[i] \in About(b)
    BY <1>1, <1>3, IsAbout
  <1>7. run \in Seq(Packet) /\ t \in Seq(Packet)
    BY <1>5, CopiesArePackets
  <1>8. Alike(run, t)
    BY <1>1, <1>3, <1>6, <1>7, AlikeOneByOne
  <1> QED
    BY <1>5, <1>8 DEF t

LEMMA ForwardedAlike ==
    ASSUME NEW packs \in Seq(Agreed), NEW p \in PE
    PROVE  /\ forwarded_by(p, packs) \in Seq(Packet)
           /\ Alike(packs, forwarded_by(p, packs))
  <1> DEFINE t == forwarded_by(p, packs)
  <1>1. t \in Seq(Agreed)
    BY ForwardedOK
  <1>2. Agreed \subseteq CopyPacket
    BY DEF Agreed, SentCopy, CopyPacket
  <1>3. packs \in Seq(Packet) /\ t \in Seq(Packet)
    <2>1. packs \in Seq(CopyPacket) /\ t \in Seq(CopyPacket)
      BY <1>1, <1>2, SeqMonotonic
    <2> QED
      BY <2>1, CopiesArePackets
  <1>4. /\ Len(packs) \in Nat /\ DOMAIN packs = 1 .. Len(packs)
        /\ \A i \in 1 .. Len(packs) : packs[i] \in CopyPacket
    BY <1>2, LenProperties, ElementOfSeq
  <1>5. \A n \in CopyPacket : \A v : [n EXCEPT !.forwarded = v].bcast = n.bcast
    BY DEF CopyPacket
  <1>6. /\ DOMAIN t = DOMAIN packs
        /\ \A i \in 1 .. Len(packs) : t[i].bcast = packs[i].bcast
    BY <1>4, <1>5 DEF forwarded_by
  <1>7. \A i \in 1 .. Len(packs) : t[i] \in CopyPacket
    <2>1. Len(t) = Len(packs)
      BY <1>1, <1>4, <1>6, LenProperties
    <2> QED
      BY <1>1, <1>2, <2>1, ElementOfSeq
  <1> HIDE DEF t
  <1>8. \A i \in DOMAIN packs : \A b \in Bcast : packs[i] \in About(b) <=> t[i] \in About(b)
    BY <1>4, <1>6, <1>7, IsAbout
  <1>9. Alike(packs, t)
    BY <1>3, <1>6, <1>8, AlikeOneByOne
  <1> QED
    BY <1>3, <1>9 DEF t

(* The root of the tree makes a copy of each post *)
LEMMA NumberedAlike ==
    ASSUME OrderInv, NEW bs \in Seq(Bcast)
    PROVE  /\ numbered(bs) \in Seq(CopyPacket) /\ PostsOf(bs) \in Seq(Packet)
           /\ Alike(PostsOf(bs), numbered(bs))
  <1> DEFINE s == PostsOf(bs)
             t == numbered(bs)
  <1>1. t \in Seq(CopyPacket) /\ Len(t) = Len(bs)
    BY NumberedInOrder DEF InOrder
  <1>2. s \in Seq(Packet) /\ Len(s) = Len(bs) /\ \A i \in 1 .. Len(bs) : s[i] = Post(bs[i])
    BY PostsOfType
  <1>3. /\ DOMAIN t = 1 .. Len(bs) /\ DOMAIN s = 1 .. Len(bs) /\ DOMAIN bs = 1 .. Len(bs)
        /\ \A i \in 1 .. Len(bs) : bs[i] \in Bcast /\ t[i] \in CopyPacket
    BY <1>1, <1>2, LenProperties, ElementOfSeq
  <1>4. \A b, k, q : Copy(b, k, q).bcast = b
    BY DEF Copy
  <1>5. \A i \in 1 .. Len(bs) : t[i].bcast = bs[i]
    BY <1>3, <1>4 DEF numbered
  <1> HIDE DEF s, t
  <1>6. \A i \in DOMAIN s : \A b \in Bcast : s[i] \in About(b) <=> t[i] \in About(b)
    BY <1>2, <1>3, <1>5, IsAbout
  <1>7. t \in Seq(Packet)
    BY <1>1, CopiesArePackets
  <1>8. Alike(s, t)
    BY <1>2, <1>3, <1>6, <1>7, AlikeOneByOne
  <1> QED
    BY <1>1, <1>2, <1>8 DEF s, t

LEMMA MovesAboutNothing ==
    ASSUME NEW n \in Moves
    PROVE  <<n>> \in Seq(Packet) /\ AboutNothing(<<n>>)
  <1>1. n \in Packet /\ \A b : n \notin About(b)
    BY IsAbout
  <1> QED
    BY <1>1, SingleHits DEF AboutNothing

LEMMA AlikeTwice ==
    ASSUME NEW s, NEW t, NEW u, Alike(s, t), Alike(t, u)
    PROVE  Alike(s, u)
  BY DEF Alike

(* What has been run *)
LEMMA RunHits ==
    ASSUME NEW run \in Seq(CopyPacket), NEW b \in Bcast
    PROVE  b \in ToSet(Bcasts(run)) <=> ~NoHit(run, About(b))
  <1>1. /\ Len(run) \in Nat /\ DOMAIN run = 1 .. Len(run)
        /\ \A i \in 1 .. Len(run) : run[i] \in CopyPacket
    BY LenProperties, ElementOfSeq
  <1>2. DOMAIN Bcasts(run) = DOMAIN run /\ \A i \in DOMAIN run : Bcasts(run)[i] = run[i].bcast
    BY DEF Bcasts
  <1>3. \A i \in DOMAIN run : run[i] \in About(b) <=> run[i].bcast = b
    BY <1>1, IsAbout
  <1> QED
    BY <1>2, <1>3 DEF ToSet, NoHit, Hits

-----------------------------------------------------------------------------
(* The invariant: what an element has run had come to it, and there is one *)
(* packet for what it awaits                                               *)

Downward == \A e \in Elem, b \in Bcast : HasRun(e, b) => Reached(e, b)

Placed == Downward /\ AllInPlace(queue, buffers, collective_buffer)

LEMMA OneParent ==
    ASSUME NEW e \in Elem, NEW c \in children[e], NEW b \in Bcast
    PROVE  c \in Elem /\ c # root /\ (Reached(c, b) <=> HasRun(e, b))
  <1>1. c \in Elem /\ c # root
    BY BroadcastAssumption
  <1>2. \A f \in Elem : c \in children[f] => f = e
    BY BroadcastAssumption
  <1> QED
    BY <1>1, <1>2 DEF Reached

(* A handler that runs nothing *)
LEMMA NothingRunPlaced ==
    ASSUME Downward, UNCHANGED <<ran, posted>>,
           AllInPlace(queue', buffers', collective_buffer')
    PROVE  Placed'
  <1>1. \A e, b : HasRun(e, b)' <=> HasRun(e, b)
    BY DEF HasRun
  <1>2. \A e, b : Reached(e, b)' <=> Reached(e, b)
    BY <1>1 DEF Reached
  <1>3. \A e, b : Awaits(e, b)' <=> Awaits(e, b)
    BY <1>1, <1>2 DEF Awaits
  <1>4. \A e, b : \A w : Stays(e, b, w)' <=> Stays(e, b, w)
    BY <1>3 DEF Stays, Once, Nowhere
  <1>5. Downward'
    BY <1>1, <1>2 DEF Downward
  <1>6. AllInPlace(queue, buffers, collective_buffer)'
    BY <1>4 DEF AllInPlace, InPlace
  <1> QED
    BY <1>5, <1>6 DEF Placed

(* e runs what is in hand and passes it on: it awaits that no longer, and  *)
(* the elements below it do                                                *)
LEMMA RunPlaced ==
    ASSUME OrderInv, Downward, NEW net, NEW bufs, NEW phase,
           Typed(net, bufs, phase), buffers' = bufs, collective_buffer' = phase,
           NEW p \in PE, NEW e \in Elem, NEW run \in Seq(CopyPacket),
           NEW hand, InHand(e, hand, net, bufs, phase), Alike(hand, run),
           RunAll(p, e, run, net), UNCHANGED posted
    PROVE  Placed'
  <1> DEFINE w(c) == WaitingFor(c, net, bufs, phase)
             v(c) == WaitingFor(c, queue', bufs, phase)
             Now(b) == OneHit(run, About(b))
  <1>1. /\ ran \in [Elem -> Seq(Bcast)]
        /\ Bcasts(run) \in Seq(Bcast) /\ Ran(e, Bcasts(run))
    BY RunAllRuns DEF OrderInv, TypeOK
  <1>2. ASSUME NEW b \in Bcast
        PROVE  /\ Now(b) => OneHit(hand, About(b)) /\ Awaits(e, b) /\ Nowhere(w(e), b)
               /\ ~Now(b) => NoHit(hand, About(b)) /\ NoHit(run, About(b)) /\ Stays(e, b, w(e))
    <2>1. Taken(e, b, w(e), hand)
      BY DEF InHand
    <2> HIDE DEF w
    <2>2. /\ NoHit(hand, About(b)) => NoHit(run, About(b))
          /\ OneHit(hand, About(b)) => OneHit(run, About(b))
          /\ ~(OneHit(run, About(b)) /\ NoHit(run, About(b)))
          /\ ~(OneHit(hand, About(b)) /\ NoHit(hand, About(b)))
      BY OneOrNone DEF Alike
    <2> QED
      BY <2>1, <2>2 DEF Taken
  <1>3. ASSUME NEW f \in Elem, NEW b \in Bcast
        PROVE  HasRun(f, b)' <=> HasRun(f, b) \/ (f = e /\ Now(b))
    <2>1. CASE f = e
      <3>1. ToSet(ran'[e]) = ToSet(ran[e]) \cup ToSet(Bcasts(run))
        <4>1. ran'[e] = ran[e] \o Bcasts(run)
          BY <1>1 DEF Ran
        <4> QED
          BY <1>1, <4>1, ToSetConcat
      <3>2. b \in ToSet(Bcasts(run)) <=> Now(b)
        BY <1>2, RunHits, OneOrNone
      <3> QED
        BY <2>1, <3>1, <3>2 DEF HasRun
    <2>2. CASE f # e
      <3>1. ran'[f] = ran[f]
        BY <1>1, <2>2 DEF Ran
      <3> QED
        BY <2>2, <3>1 DEF HasRun
    <2> QED
      BY <2>1, <2>2
  <1>4. ASSUME NEW c \in Elem, NEW b \in Bcast
        PROVE  Reached(c, b)' <=> Reached(c, b) \/ (c \in children[e] /\ Now(b))
    <2>1. CASE c = root
      <3>1. c \notin children[e]
        BY <2>1, BroadcastAssumption
      <3> QED
        BY <2>1, <3>1 DEF Reached
    <2>2. CASE c # root
      BY <1>3, <2>2 DEF Reached
    <2> QED
      BY <2>1, <2>2
  <1>5. Downward'
    <2> SUFFICES ASSUME NEW c \in Elem, NEW b \in Bcast, HasRun(c, b)'
                 PROVE  Reached(c, b)'
      BY DEF Downward
    <2>1. Reached(c, b)
      <3>1. CASE HasRun(c, b)
        BY <3>1 DEF Downward
      <3>2. CASE c = e /\ Now(b)
        BY <1>2, <3>2 DEF Awaits
      <3> QED
        BY <1>3, <3>1, <3>2
    <2> QED
      BY <1>4, <2>1
  <1>6. ASSUME NEW c \in children[e]
        PROVE  \E y \in Place, s \in Seq(Packet) :
                  /\ Becomes(w(c), v(c), y, w(c)[y] \o s)
                  /\ Alike(run, s)
    <2> DEFINE s == CopiesTo(p, c, run)
               q == lookup(p, c)
               y == OnTheWay(p, q)
               u == w(c)[y] \o s
    <2>1. c \in Elem /\ c # root /\ Index(c) = c
      BY BroadcastAssumption, IndexIsOne
    <2>2. q \in PE /\ y \in Place
      BY <2>1, LookupType, Places
    <2>3. s \in Seq(Packet) /\ Alike(run, s)
      BY CopiesAlike, CopiesArePackets
    <2>4. queue'[SentTo(c, p, q)] = u
      <3>1. /\ SentTo(c, p, q) \in Route /\ SentTo(c, p, q).from = p
            /\ SentTo(c, p, q).idx = c /\ SentTo(c, p, q).to = q
        BY <2>1, <2>2, SentToRoute DEF SentTo
      <3>2. queue'[SentTo(c, p, q)] = net[SentTo(c, p, q)] \o s
        BY <3>1 DEF RunAll
      <3>3. w(c)[y] = net[SentTo(c, p, q)]
        BY <2>2, WaitingThere
      <3> QED
        BY <3>2, <3>3
    <2>5. \A a, z \in PE : ~(a = p /\ z = q) =>
              queue'[SentTo(c, a, z)] = net[SentTo(c, a, z)]
      <3> SUFFICES ASSUME NEW a \in PE, NEW z \in PE, ~(a = p /\ z = q)
                   PROVE  queue'[SentTo(c, a, z)] = net[SentTo(c, a, z)]
        OBVIOUS
      <3>1. /\ SentTo(c, a, z) \in Route /\ SentTo(c, a, z).from = a
            /\ SentTo(c, a, z).idx = c /\ SentTo(c, a, z).to = z
        BY <2>1, SentToRoute DEF SentTo
      <3> QED
        BY <3>1 DEF RunAll
    <2> HIDE DEF u, q
    <2>6. Becomes(w(c), v(c), y, u)
      BY <2>2, <2>4, <2>5, RouteChanges
    <2> QED
      BY <2>2, <2>3, <2>6 DEF u
  <1>7. ASSUME NEW c \in Elem, c \notin children[e]
        PROVE  v(c) = w(c)
    <2>1. \A a, z \in PE : queue'[SentTo(c, a, z)] = net[SentTo(c, a, z)]
      <3> SUFFICES ASSUME NEW a \in PE, NEW z \in PE
                   PROVE  queue'[SentTo(c, a, z)] = net[SentTo(c, a, z)]
        OBVIOUS
      <3>1. SentTo(c, a, z) \in Route /\ SentTo(c, a, z).idx = Index(c)
        BY SentToRoute DEF SentTo
      <3>2. Index(c) \notin children[e]
        BY <1>7, BroadcastAssumption, RootIndex DEF Index
      <3> QED
        BY <3>1, <3>2 DEF RunAll
    <2> QED
      BY <2>1, WaitingSame
  <1>8. \A c \in Elem : \A x \in Place : w(c)[x] \in Seq(Packet)
    BY WaitingType DEF Typed, NetIs, BuffersAre, PhaseIs
  <1>9. ASSUME NEW c \in Elem, NEW b \in Bcast, c # e
        PROVE  Stays(c, b, w(c))
    BY <1>9 DEF InHand, InPlace
  <1> HIDE DEF w, v
  <1>10. ASSUME NEW c \in Elem, NEW b \in Bcast
         PROVE  /\ Awaits(c, b)' => Once(v(c), b)
                /\ ~Awaits(c, b)' => Nowhere(v(c), b)
    <2>1. ASSUME ~Now(b)
          PROVE  /\ Awaits(c, b)' => Once(v(c), b)
                 /\ ~Awaits(c, b)' => Nowhere(v(c), b)
      <3>1. Awaits(c, b)' <=> Awaits(c, b)
        BY <1>3, <1>4, <2>1 DEF Awaits
      <3>2. Stays(c, b, w(c))
        BY <1>2, <1>9, <2>1
      <3>3. Stays(c, b, v(c))
        <4>1. CASE c \in children[e]
          <5>1. PICK y \in Place, s \in Seq(Packet) :
                    /\ Becomes(w(c), v(c), y, w(c)[y] \o s)
                    /\ Alike(run, s)
            BY <1>6, <4>1
          <5>2. NoHit(s, About(b))
            BY <1>2, <2>1, <5>1 DEF Alike
          <5> DEFINE u == w(c)
          <5>3. (\A x \in Place : u[x] \in Seq(Packet)) /\ Stays(c, b, u)
                /\ Becomes(u, v(c), y, u[y] \o s)
            BY <1>8, <3>2, <5>1
          <5> HIDE DEF u
          <5> QED
            BY <5>2, <5>3, GainedNothing
        <4>2. CASE c \notin children[e]
          BY <1>7, <3>2, <4>2
        <4> QED
          BY <4>1, <4>2
      <3> QED
        BY <3>1, <3>3 DEF Stays
    <2>2. ASSUME Now(b)
          PROVE  /\ Awaits(c, b)' => Once(v(c), b)
                 /\ ~Awaits(c, b)' => Nowhere(v(c), b)
      <3>1. Reached(e, b) /\ ~HasRun(e, b) /\ Nowhere(w(e), b)
        BY <1>2, <2>2 DEF Awaits
      <3>2. e \notin children[e]
        BY <3>1, OneParent
      <3>3. CASE c = e
        <4>1. ~Awaits(c, b)'
          BY <1>3, <2>2, <3>3 DEF Awaits
        <4> QED
          BY <1>7, <3>1, <3>2, <3>3, <4>1
      <3>4. CASE c \in children[e]
        <4>1. ~Reached(c, b)
          BY <3>1, <3>4, OneParent
        <4>2. ~HasRun(c, b) /\ ~Awaits(c, b)
          BY <4>1 DEF Downward, Awaits
        <4>3. Nowhere(w(c), b)
          BY <1>9, <3>2, <3>4, <4>2 DEF Stays
        <4>4. Awaits(c, b)'
          BY <1>3, <1>4, <2>2, <3>2, <3>4, <4>2 DEF Awaits
        <4>5. PICK y \in Place, s \in Seq(Packet) :
                  /\ Becomes(w(c), v(c), y, w(c)[y] \o s)
                  /\ Alike(run, s)
          BY <1>6, <3>4
        <4>6. OneHit(s, About(b))
          BY <2>2, <4>5 DEF Alike
        <4>7. Once(v(c), b)
          <5> DEFINE u == w(c)
          <5>1. (\A x \in Place : u[x] \in Seq(Packet)) /\ Nowhere(u, b)
                /\ Becomes(u, v(c), y, u[y] \o s)
            BY <1>8, <4>3, <4>5
          <5> HIDE DEF u
          <5> QED
            BY <4>6, <5>1, Gained
        <4> QED
          BY <4>4, <4>7
      <3>5. CASE c # e /\ c \notin children[e]
        <4>1. Awaits(c, b)' <=> Awaits(c, b)
          BY <1>3, <1>4, <3>5 DEF Awaits
        <4>2. Stays(c, b, w(c)) /\ v(c) = w(c)
          BY <1>7, <1>9, <3>5
        <4> QED
          BY <4>1, <4>2 DEF Stays
      <3> QED
        BY <3>3, <3>4, <3>5
    <2> QED
      BY <2>1, <2>2
  <1>11. \A c \in Elem, b \in Bcast : \A u : Stays(c, b, u)' <=>
             IF Awaits(c, b)' THEN Once(u, b) ELSE Nowhere(u, b)
    BY DEF Stays, Once, Nowhere
  <1>12. ASSUME NEW c \in Elem, NEW b \in Bcast
         PROVE  IF Awaits(c, b)' THEN Once(WaitingFor(c, queue', buffers', collective_buffer'), b)
                ELSE Nowhere(WaitingFor(c, queue', buffers', collective_buffer'), b)
    BY <1>10 DEF v
  <1>13. AllInPlace(queue, buffers, collective_buffer)'
    BY <1>11, <1>12 DEF AllInPlace, InPlace
  <1> QED
    BY <1>5, <1>13 DEF Placed

-----------------------------------------------------------------------------
(* Types along the way *)

LEMMA TypedNow ==
    ASSUME OrderInv
    PROVE  Typed(queue, buffers, collective_buffer)
  BY DEF OrderInv, TypeOK, Typed

LEMMA TypedEmit ==
    ASSUME NEW net, NEW bufs, NEW phase, Typed(net, bufs, phase),
           NEW p, NEW to, NEW idx, NEW packs \in Seq(Packet)
    PROVE  Typed(Emit(net, p, to, idx, packs), bufs, phase)
  <1> DEFINE r == [from |-> p, to |-> to, idx |-> idx]
             new == Emit(net, p, to, idx, packs)
  <1>1. net \in [Route -> Seq(Packet)]
    BY DEF Typed
  <1>2. new = [s \in Route |-> IF s = r THEN net[s] \o packs ELSE net[s]]
    BY <1>1 DEF Emit
  <1>3. \A s \in Route : net[s] \in Seq(Packet) /\ net[s] \o packs \in Seq(Packet)
    BY <1>1, ConcatFacts
  <1> HIDE DEF new, r
  <1>4. new \in [Route -> Seq(Packet)]
    BY <1>2, <1>3
  <1> QED
    BY <1>4 DEF Typed, new

LEMMA TypedWithout ==
    ASSUME NEW bufs, NEW phase, Typed(queue, bufs, phase),
           NEW r \in Route, NEW i \in DOMAIN queue[r]
    PROVE  Typed(Without(r, i), bufs, phase)
  <1>1. queue \in [Route -> Seq(Packet)]
    BY DEF Typed
  <1>2. RemoveAt(queue[r], i) \in Seq(Packet)
    BY <1>1, RemoveAtFacts
  <1>3. Without(r, i) \in [Route -> Seq(Packet)]
    BY <1>1, <1>2 DEF Without
  <1> QED
    BY <1>3 DEF Typed

LEMMA TypedBuffer ==
    ASSUME NEW net, NEW bufs, NEW phase, Typed(net, bufs, phase),
           NEW p, NEW e, NEW s \in Seq(CopyPacket)
    PROVE  Typed(net, [bufs EXCEPT ![p][e] = s], phase)
  BY DEF Typed

LEMMA TypedPhase ==
    ASSUME NEW net, NEW bufs, NEW phase, Typed(net, bufs, phase),
           NEW p, NEW s \in Seq(Bcast)
    PROVE  Typed(net, bufs, [phase EXCEPT ![p] = s])
  BY DEF Typed

(* What is in a buffer is about an element below another *)
LEMMA InBuffer ==
    ASSUME OrderInv, NEW p \in PE, NEW e \in Elem
    PROVE  /\ buffers[p][e] \in Seq(CopyPacket)
           /\ e # root => buffers[p][e] \in Seq(Agreed)
           /\ e = root => buffers[p][e] = <<>>
  <1>1. buffers[p][e] \in Seq(CopiesFor(e, Agreed)) /\ buffers[p][e] \in Seq(CopyPacket)
    BY DEF OrderInv, BuffersOK, TypeOK
  <1>2. ASSUME e = root PROVE buffers[p][e] = <<>>
    <2> DEFINE s == buffers[p][e]
    <2>1. s \in Seq({})
      BY <1>1, <1>2 DEF CopiesFor
    <2> HIDE DEF s
    <2>2. Len(s) \in Nat /\ \A i \in 1 .. Len(s) : FALSE
      BY <2>1, LenProperties, ElementOfSeq
    <2>3. Len(s) = 0
      <3>1. Len(s) # 0 => 1 \in 1 .. Len(s)
        BY <2>2
      <3> QED
        BY <2>2, <3>1
    <2>4. s = <<>>
      BY <2>1, <2>3, EmptySeq
    <2> QED
      BY <2>4 DEF s
  <1> QED
    BY <1>1, <1>2 DEF CopiesFor

-----------------------------------------------------------------------------
(* Flushing *)

LEMMA HandAlike ==
    ASSUME NEW e, NEW hand, NEW run, NEW net, NEW bufs, NEW phase,
           InHand(e, hand, net, bufs, phase), Alike(hand, run)
    PROVE  InHand(e, run, net, bufs, phase)
  <1>1. ASSUME NEW b \in Bcast, NEW w, Taken(e, b, w, hand)
        PROVE  Taken(e, b, w, run)
    BY <1>1, OneOrNone DEF Taken, Alike
  <1> QED
    BY <1>1 DEF InHand

LEMMA AlikeItself == \A s : Alike(s, s)
  BY DEF Alike

(* e has run some copies and is flushed *)
LEMMA FlushHerePlaced ==
    ASSUME OrderInv, Downward, NEW net, Typed(net, buffers, collective_buffer'),
           NEW p \in PE, NEW e \in Elem, NEW run \in Seq(CopyPacket),
           InHand(e, run, net, buffers, collective_buffer'),
           FlushHere(p, e, run, net), UNCHANGED posted
    PROVE  Placed'
  <1>1. CASE FlushClear(p, e, run, net) \/ FlushLoop(p, e, run, net)
    <2> DEFINE phase == collective_buffer'
               bufs == buffers
    <2>1. RunAll(p, e, run, net) /\ buffers' = bufs /\ collective_buffer' = phase
      BY <1>1 DEF FlushClear, FlushLoop
    <2>2. Typed(net, bufs, phase) /\ InHand(e, run, net, bufs, phase) /\ Alike(run, run)
      BY AlikeItself
    <2> HIDE DEF phase, bufs
    <2> QED
      BY <2>1, <2>2, RunPlaced
  <1>2. CASE FlushCrash(p, e, run, net)
    <2>1. buffers \in [PE -> [Elem -> Seq(CopyPacket)]]
      BY DEF OrderInv, TypeOK
    <2>2. PICK i \in DOMAIN buffers[p][e] :
              /\ RunAll(p, e, Append(run, buffers[p][e][i]), net)
              /\ buffers' = [buffers EXCEPT ![p][e] = RemoveAt(buffers[p][e], i)]
      BY <1>2, <2>1 DEF FlushCrash
    <2>3. e # root
      <3>1. DOMAIN <<>> = {}
        OBVIOUS
      <3> QED
        BY <2>2, <3>1, InBuffer
    <2> DEFINE phase == collective_buffer'
               bufs == [buffers EXCEPT ![p][e] = RemoveAt(buffers[p][e], i)]
               more == Append(run, buffers[p][e][i])
    <2>4. buffers[p][e][i] \in CopyPacket /\ RemoveAt(buffers[p][e], i) \in Seq(CopyPacket)
      BY InBuffer, LenProperties, ElementOfSeq, RemoveAtFacts
    <2>5. more \in Seq(CopyPacket) /\ run \in Seq(Packet)
      BY <2>4, AppendFacts, CopiesArePackets
    <2>6. InHand(e, more, net, bufs, phase)
      BY <2>3, <2>5, TakeBuffered
    <2>7. Typed(net, bufs, phase)
      BY <2>4, TypedBuffer
    <2>8. RunAll(p, e, more, net) /\ buffers' = bufs /\ collective_buffer' = phase
      BY <2>2
    <2> HIDE DEF phase, bufs, more
    <2> QED
      BY <2>5, <2>6, <2>7, <2>8, AlikeItself, RunPlaced
  <1> QED
    BY <1>1, <1>2 DEF FlushHere

(* What waits for an absent element goes on, or waits on *)
LEMMA FlushAwayPlaced ==
    ASSUME OrderInv, OrderInv', Downward,
           NEW net, Typed(net, buffers, collective_buffer),
           NEW p \in PE, NEW e \in Elem,
           AllInPlace(net, buffers, collective_buffer),
           FlushAway(p, e, net), UNCHANGED <<collective_buffer, posted>>
    PROVE  Placed'
  <1> DEFINE packs == buffers[p][e]
             sent == forwarded_by(p, packs)
             to == lookup(p, e)'
             empty == [buffers EXCEPT ![p][e] = <<>>]
  <1>1. buffers \in [PE -> [Elem -> Seq(CopyPacket)]]
    BY DEF OrderInv, TypeOK
  <1>2. \/ queue' = net /\ buffers' = [buffers EXCEPT ![p][e] = packs]
        \/ queue' = Emit(net, p, to, e, sent) /\ buffers' = empty
    BY DEF FlushAway, Reroute
  <1>3. ASSUME AllInPlace(queue', buffers', collective_buffer')
        PROVE  Placed'
    BY <1>3, NothingRunPlaced DEF FlushAway
  <1>4. to \in PE
    <2>1. (LocmgrTypeOK /\ home_pe(e) \in PE)'
      BY HomePE DEF OrderInv, TypeOK, home_pe
    <2> QED
      BY <2>1 DEF LocmgrTypeOK, lookup, lookup_cache
  <1> HIDE DEF to
  <1>5. CASE queue' = net /\ buffers' = [buffers EXCEPT ![p][e] = packs]
    <2>1. buffers' = buffers
      BY <1>1, <1>5
    <2> QED
      BY <1>3, <1>5, <2>1
  <1>6. CASE queue' = Emit(net, p, to, e, sent) /\ buffers' = empty
    <2>1. CASE e = root
      <3>1. packs = <<>> /\ sent = <<>>
        <4>1. forwarded_by(p, <<>>) = <<>>
          BY DEF forwarded_by
        <4> QED
          BY <2>1, <4>1, InBuffer
      <3>2. buffers' = buffers
        BY <1>1, <1>6, <3>1
      <3>3. <<>> \in Seq(Packet) /\ AboutNothing(<<>>)
        BY EmptySeq, EmptyHits DEF AboutNothing
      <3>4. InHand(e, <<>>, net, buffers, collective_buffer)
        BY EmptyHanded
      <3>5. InHand(e, <<>>, Emit(net, p, to, e, <<>>), buffers, collective_buffer)
        BY <1>4, <3>3, <3>4, SendNothing
      <3>6. AllInPlace(Emit(net, p, to, e, <<>>), buffers, collective_buffer)
        BY <3>5, EmptyHanded
      <3>7. AllInPlace(queue', buffers', collective_buffer')
        BY <1>6, <3>1, <3>2, <3>6
      <3> QED
        BY <1>3, <3>7
    <2>2. CASE e # root
      <3>1. Index(e) = e
        BY <2>2 DEF Index
      <3>2. packs \in Seq(Agreed)
        BY <2>2, InBuffer
      <3> HIDE DEF packs
      <3>3. sent \in Seq(Packet) /\ Alike(packs, sent)
        BY <3>2, ForwardedAlike
      <3>4. InHand(e, packs, net, empty, collective_buffer)
        BY <2>2, TakeBuffer DEF packs
      <3>5. Typed(net, empty, collective_buffer)
        BY TypedBuffer, EmptySeq
      <3> HIDE DEF sent, empty
      <3>6. AllInPlace(Emit(net, p, to, Index(e), sent), empty, collective_buffer)
        BY <1>4, <3>3, <3>4, <3>5, SendHand
      <3>7. AllInPlace(queue', buffers', collective_buffer')
        BY <1>6, <3>1, <3>6
      <3> QED
        BY <1>3, <3>7
    <2> QED
      BY <2>1, <2>2
  <1> QED
    BY <1>2, <1>5, <1>6

LEMMA FlushBuffersPlaced ==
    ASSUME OrderInv, OrderInv', Downward,
           NEW net, Typed(net, buffers, collective_buffer),
           NEW p \in PE, NEW e \in Elem,
           AllInPlace(net, buffers, collective_buffer),
           FlushBuffers(p, e, net), UNCHANGED <<collective_buffer, posted>>
    PROVE  Placed'
  <1>1. CASE FlushHere(p, e, <<>>, net)
    <2>1. <<>> \in Seq(CopyPacket)
      BY EmptySeq
    <2>2. InHand(e, <<>>, net, buffers, collective_buffer)
      BY EmptyHanded
    <2>3. /\ Typed(net, buffers, collective_buffer')
          /\ InHand(e, <<>>, net, buffers, collective_buffer')
      BY <2>2
    <2> QED
      BY <1>1, <2>1, <2>3, FlushHerePlaced
  <1>2. CASE FlushAway(p, e, net)
    BY <1>2, FlushAwayPlaced
  <1> QED
    BY <1>1, <1>2 DEF FlushBuffers

-----------------------------------------------------------------------------
(* Each step *)

LEMMA BroadcastPlaced ==
    ASSUME OrderInv, Placed, NEW p \in PE, NEW b \in Bcast, Broadcast(p, b)
    PROVE  Placed'
  <1> DEFINE one == <<Post(b)>>
             y == OnTheWay(p, p)
             w(c) == WaitingFor(c, queue, buffers, collective_buffer)
             v(c) == WaitingFor(c, Emit(queue, p, p, bcast_root, one), buffers,
                                collective_buffer)
  <1>1. /\ b \notin posted /\ posted' = posted \cup {b}
        /\ queue' = Emit(queue, p, p, bcast_root, one)
        /\ UNCHANGED <<buffers, collective_buffer, ran>>
    BY DEF Broadcast
  <1>2. \A e, d : HasRun(e, d)' <=> HasRun(e, d)
    BY <1>1 DEF HasRun
  <1>3. \A e, d : Reached(e, d)' <=> Reached(e, d) \/ (e = root /\ d = b)
    BY <1>1, <1>2 DEF Reached
  <1>4. Downward'
    BY <1>2, <1>3 DEF Downward, Placed
  <1>5. one \in Seq(Packet) /\ y \in Place /\ queue \in [Route -> Seq(Packet)]
    <2>1. Post(b) \in Packet
      BY IsAbout
    <2> QED
      BY <2>1, Places DEF OrderInv, TypeOK
  <1>6. OneHit(one, About(b)) /\ \A d \in Bcast : d # b => NoHit(one, About(d))
    BY IsAbout, SingleHits
  <1>7. ASSUME NEW c \in Elem, NEW d \in Bcast
        PROVE  IF Awaits(c, d)' THEN Once(v(c), d) ELSE Nowhere(v(c), d)
    <2>1. Stays(c, d, w(c))
      BY DEF Placed, AllInPlace, InPlace
    <2>2. bcast_root = Index(c) <=> c = root
      BY RootIndex DEF Index
    <2>3. bcast_root = Index(c) => Becomes(w(c), v(c), y, w(c)[y] \o one)
      BY <1>5, EmitFor
    <2>4. bcast_root # Index(c) => Same(w(c), v(c))
      BY <1>5, EmitFor
    <2>5. \A x \in Place : w(c)[x] \in Seq(Packet)
      BY WaitingType, TypedNow DEF Typed, NetIs, BuffersAre, PhaseIs
    <2> DEFINE u == w(c)
               t == v(c)
    <2>6. /\ Stays(c, d, u)
          /\ c = root => Becomes(u, t, y, u[y] \o one)
          /\ c # root => t = u
          /\ \A x \in Place : u[x] \in Seq(Packet)
      BY <2>1, <2>2, <2>3, <2>4, <2>5 DEF Same
    <2> HIDE DEF u, t, y, one
    <2>7. CASE c # root
      <3>1. Awaits(c, d)' <=> Awaits(c, d)
        BY <1>2, <1>3, <2>7 DEF Awaits
      <3>2. Stays(c, d, t)
        BY <2>6, <2>7
      <3> QED
        BY <3>1, <3>2 DEF Stays, t
    <2>8. CASE c = root /\ d # b
      <3>1. Awaits(c, d)' <=> Awaits(c, d)
        BY <1>2, <1>3, <2>8 DEF Awaits
      <3>2. Stays(c, d, t)
        BY <1>5, <1>6, <2>6, <2>8, GainedNothing
      <3> QED
        BY <3>1, <3>2 DEF Stays, t
    <2>9. CASE c = root /\ d = b
      <3>1. ~Reached(c, d) /\ Reached(c, d)'
        BY <1>1, <2>9 DEF Reached
      <3>2. ~HasRun(c, d) /\ ~Awaits(c, d) /\ Awaits(c, d)'
        BY <1>2, <3>1 DEF Placed, Downward, Awaits
      <3>3. Nowhere(u, d)
        BY <2>6, <3>2 DEF Stays
      <3>4. Once(t, d)
        BY <1>5, <1>6, <2>6, <2>9, <3>3, Gained
      <3> QED
        BY <3>2, <3>4 DEF t
    <2> QED
      BY <2>7, <2>8, <2>9
  <1>8. \A c \in Elem, d \in Bcast : \A u : Stays(c, d, u)' <=>
            IF Awaits(c, d)' THEN Once(u, d) ELSE Nowhere(u, d)
    BY DEF Stays, Once, Nowhere
  <1>9. ASSUME NEW c \in Elem, NEW d \in Bcast
        PROVE  IF Awaits(c, d)' THEN Once(WaitingFor(c, queue', buffers', collective_buffer'), d)
               ELSE Nowhere(WaitingFor(c, queue', buffers', collective_buffer'), d)
    <2> HIDE DEF one
    <2> QED
      BY <1>1, <1>7
  <1>10. AllInPlace(queue, buffers, collective_buffer)'
    BY <1>8, <1>9 DEF AllInPlace, InPlace
  <1> QED
    BY <1>4, <1>10 DEF Placed

(* A chare or its location is about no broadcast *)
LEMMA SendMove ==
    ASSUME NEW net, NEW bufs, NEW phase, Typed(net, bufs, phase),
           AllInPlace(net, bufs, phase), NEW e \in Elem, NEW n \in Moves,
           NEW p \in PE, NEW to \in PE
    PROVE  /\ AllInPlace(Emit(net, p, to, e, <<n>>), bufs, phase)
           /\ Typed(Emit(net, p, to, e, <<n>>), bufs, phase)
  <1>1. <<n>> \in Seq(Packet) /\ AboutNothing(<<n>>)
    BY MovesAboutNothing
  <1>2. InHand(e, <<>>, net, bufs, phase)
    BY EmptyHanded
  <1> DEFINE one == <<n>>
             new == Emit(net, p, to, e, one)
  <1> HIDE DEF one
  <1>3. InHand(e, <<>>, new, bufs, phase)
    BY <1>1, <1>2, SendNothing DEF one
  <1>4. Typed(new, bufs, phase)
    BY <1>1, TypedEmit DEF one
  <1> HIDE DEF new
  <1>5. AllInPlace(new, bufs, phase)
    BY <1>3, EmptyHanded
  <1> QED
    BY <1>4, <1>5 DEF new, one

LEMMA EmigratePlaced ==
    ASSUME OrderInv, OrderInv', Placed, NEW p \in PE, NEW e \in Elem, NEW dst \in PE,
           Emigrate(p, e, dst)
    PROVE  Placed'
  <1> DEFINE left == Emit(queue, p, dst, e, <<Chare>>)
             away == IF p = home_pe(e) THEN left
                     ELSE Emit(left, p, home_pe(e), e, <<Location(dst)>>)
  <1>1. FlushBuffers(p, e, away) /\ UNCHANGED <<collective_buffer, posted>>
    BY DEF Emigrate
  <1>2. Chare \in Moves /\ Location(dst) \in Moves /\ home_pe(e) \in PE
    BY HomePE DEF Moves, Location
  <1>3. /\ AllInPlace(left, buffers, collective_buffer)
        /\ Typed(left, buffers, collective_buffer)
    BY <1>2, TypedNow, SendMove DEF Placed
  <1> HIDE DEF left
  <1>4. /\ AllInPlace(away, buffers, collective_buffer)
        /\ Typed(away, buffers, collective_buffer)
    <2>1. CASE p = home_pe(e)
      BY <1>3, <2>1
    <2>2. CASE p # home_pe(e)
      <3>1. away = Emit(left, p, home_pe(e), e, <<Location(dst)>>)
        BY <2>2
      <3> HIDE DEF away
      <3> QED
        BY <1>2, <1>3, <3>1, SendMove
    <2> QED
      BY <2>1, <2>2
  <1> HIDE DEF away
  <1> QED
    BY <1>1, <1>4, FlushBuffersPlaced DEF Placed

LEMMA CompletePlaced ==
    ASSUME OrderInv, Placed, NEW p \in PE, InsertionComplete(p)
    PROVE  Placed'
  <1> DEFINE waiting == collective_buffer[p]
             posts == PostsOf(waiting)
             phase == [collective_buffer EXCEPT ![p] = <<>>]
  <1>1. waiting \in Seq(Bcast) /\ root \in Elem /\ Index(root) = bcast_root
    BY BroadcastAssumption DEF OrderInv, TypeOK, Index
  <1>2. UNCHANGED posted
    BY DEF InsertionComplete
  <1>3. \/ FlushHere(p, root, numbered(waiting), queue) /\ collective_buffer' = phase
        \/ UNCHANGED <<queue, collective_buffer, ran, buffers>>
        \/ /\ queue' = Emit(queue, p, lookup(p, root), bcast_root, posts)
           /\ collective_buffer' = phase
           /\ UNCHANGED <<ran, buffers>>
    BY DEF InsertionComplete, PostsOf
  <1>4. InHand(root, posts, queue, buffers, phase)
    BY TypedNow, TakePhase DEF Placed
  <1>5. Typed(queue, buffers, phase)
    BY TypedNow, TypedPhase, EmptySeq
  <1>6. /\ numbered(waiting) \in Seq(CopyPacket) /\ posts \in Seq(Packet)
        /\ Alike(posts, numbered(waiting))
    BY <1>1, NumberedAlike
  <1> HIDE DEF waiting, posts, phase
  <1>7. CASE FlushHere(p, root, numbered(waiting), queue) /\ collective_buffer' = phase
    <2> DEFINE run == numbered(waiting)
    <2> HIDE DEF run
    <2>1. FlushHere(p, root, run, queue) /\ run \in Seq(CopyPacket)
      BY <1>6, <1>7 DEF run
    <2>2. InHand(root, run, queue, buffers, phase)
      BY <1>4, <1>6, HandAlike DEF run
    <2>3. /\ InHand(root, run, queue, buffers, collective_buffer')
          /\ Typed(queue, buffers, collective_buffer')
      BY <1>5, <1>7, <2>2
    <2> QED
      BY <1>1, <1>2, <2>1, <2>3, FlushHerePlaced DEF Placed
  <1>8. CASE UNCHANGED <<queue, collective_buffer, ran, buffers>>
    <2>1. AllInPlace(queue', buffers', collective_buffer')
      BY <1>8 DEF Placed
    <2> QED
      BY <1>2, <1>8, <2>1, NothingRunPlaced DEF Placed
  <1>9. CASE /\ queue' = Emit(queue, p, lookup(p, root), bcast_root, posts)
             /\ collective_buffer' = phase
             /\ UNCHANGED <<ran, buffers>>
    <2> DEFINE to == lookup(p, root)
    <2>1. to \in PE
      BY <1>1, LookupType
    <2> HIDE DEF to
    <2>2. AllInPlace(Emit(queue, p, to, Index(root), posts), buffers, phase)
      BY <1>1, <1>4, <1>5, <1>6, <2>1, AlikeItself, SendHand
    <2>3. AllInPlace(queue', buffers', collective_buffer')
      BY <1>1, <1>9, <2>2 DEF to
    <2> QED
      BY <1>2, <1>9, <2>3, NothingRunPlaced DEF Placed
  <1> QED
    BY <1>3, <1>7, <1>8, <1>9

LEMMA PostPlaced ==
    ASSUME OrderInv, Placed, NEW r \in Route, NEW i \in DOMAIN queue[r],
           ReceivePost(r, i)
    PROVE  Placed'
  <1> DEFINE p == r.to
             b == queue[r][i].bcast
             net == Without(r, i)
             one == <<Post(b)>>
             phase == [collective_buffer EXCEPT ![p] = Append(collective_buffer[p], b)]
  <1>1. /\ r = RootRoute(r.from, p) /\ r.from \in PE /\ p \in PE /\ root \in Elem
        /\ Index(root) = bcast_root
    BY Received, BroadcastAssumption DEF ReceivePost, Receives, Index
  <1>2. r.idx = bcast_root
    BY <1>1 DEF RootRoute
  <1>3. b \in Bcast /\ queue[r][i] = Post(b)
    <2>1. queue[r] \in Seq(Posts)
      BY <1>1, RootQueue
    <2>2. queue[r][i] \in Posts
      BY <2>1, LenProperties, ElementOfSeq
    <2> QED
      BY <2>2 DEF Posts, Post
  <1>4. UNCHANGED posted
    BY DEF ReceivePost
  <1>5. \/ FlushHere(p, root, numbered(<<b>>), net) /\ UNCHANGED collective_buffer
        \/ queue' = net /\ collective_buffer' = phase /\ UNCHANGED <<ran, buffers>>
        \/ /\ queue' = Emit(net, p, lookup(p, root), bcast_root, one)
           /\ UNCHANGED <<collective_buffer, ran, buffers>>
    BY DEF ReceivePost, OrderInv, TypeOK
  <1>6. InHand(root, one, net, buffers, collective_buffer)
    <2>1. InHand(root, <<queue[r][i]>>, net, buffers, collective_buffer)
      BY <1>1, <1>2, TypedNow, TakeReceived DEF Placed
    <2> QED
      BY <1>3, <2>1
  <1>7. Typed(net, buffers, collective_buffer)
    BY TypedNow, TypedWithout
  <1>8. /\ numbered(<<b>>) \in Seq(CopyPacket) /\ one \in Seq(Packet)
        /\ Alike(one, numbered(<<b>>))
    <2>1. <<b>> \in Seq(Bcast) /\ PostsOf(<<b>>) = one
      BY <1>3 DEF PostsOf
    <2> QED
      BY <2>1, NumberedAlike
  <1> HIDE DEF p, b, net
  <1>9. CASE FlushHere(p, root, numbered(<<b>>), net) /\ UNCHANGED collective_buffer
    <2> DEFINE run == numbered(<<b>>)
    <2> HIDE DEF run, one
    <2>1. FlushHere(p, root, run, net) /\ run \in Seq(CopyPacket)
      BY <1>8, <1>9 DEF run
    <2>2. InHand(root, run, net, buffers, collective_buffer)
      BY <1>6, <1>8, HandAlike DEF run
    <2>3. /\ InHand(root, run, net, buffers, collective_buffer')
          /\ Typed(net, buffers, collective_buffer')
      BY <1>7, <1>9, <2>2
    <2> QED
      BY <1>1, <1>4, <2>1, <2>3, FlushHerePlaced DEF Placed
  <1>10. CASE queue' = net /\ collective_buffer' = phase /\ UNCHANGED <<ran, buffers>>
    <2>1. AllInPlace(net, buffers, phase)
      BY <1>1, <1>3, <1>6, <1>7, PutInPhase
    <2>2. AllInPlace(queue', buffers', collective_buffer')
      BY <1>10, <2>1
    <2> QED
      BY <1>4, <1>10, <2>2, NothingRunPlaced DEF Placed
  <1>11. CASE /\ queue' = Emit(net, p, lookup(p, root), bcast_root, one)
              /\ UNCHANGED <<collective_buffer, ran, buffers>>
    <2> DEFINE to == lookup(p, root)
    <2>1. to \in PE
      BY <1>1, LookupType
    <2> HIDE DEF to, one
    <2>2. AllInPlace(Emit(net, p, to, Index(root), one), buffers, collective_buffer)
      BY <1>1, <1>6, <1>7, <1>8, <2>1, AlikeItself, SendHand
    <2>3. AllInPlace(queue', buffers', collective_buffer')
      BY <1>1, <1>11, <2>2 DEF to
    <2> QED
      BY <1>4, <1>11, <2>3, NothingRunPlaced DEF Placed
  <1> QED
    BY <1>5, <1>9, <1>10, <1>11

LEMMA CopyPlaced ==
    ASSUME OrderInv, Placed, NEW r \in Route, NEW i \in DOMAIN queue[r],
           ReceiveCopy(r, i)
    PROVE  Placed'
  <1> DEFINE p == r.to
             e == r.idx
             n == queue[r][i]
             net == Without(r, i)
             answered == routing_update(p, e, n, net)
             one == <<n>>
             bufs == [buffers EXCEPT ![p][e] = Append(buffers[p][e], n)]
  <1>1. /\ p \in PE /\ e \in Elem /\ e # root /\ n \in Agreed /\ Index(e) = e
    BY Received DEF ReceiveCopy, Receives, Index
  <1>2. n \in CopyPacket /\ n.sender \in PE /\ one \in Seq(CopyPacket) /\ one \in Seq(Agreed)
    BY <1>1 DEF Agreed, SentCopy, CopyPacket
  <1>3. UNCHANGED <<collective_buffer, posted>>
    BY DEF ReceiveCopy
  <1>4. \/ FlushHere(p, e, one, answered)
        \/ queue' = answered /\ buffers' = bufs /\ UNCHANGED ran
        \/ queue' = net /\ buffers' = bufs /\ UNCHANGED ran
        \/ /\ queue' = Emit(net, p, lookup(p, e), e, forwarded_by(p, one))
           /\ UNCHANGED <<ran, buffers>>
    BY DEF ReceiveCopy, handle_broadcast_message, OutOfTurn, OrderInv, TypeOK
  <1>5. InHand(e, one, net, buffers, collective_buffer)
    BY <1>1, TypedNow, TakeReceived DEF Placed
  <1>6. Typed(net, buffers, collective_buffer)
    BY TypedNow, TypedWithout
  <1> HIDE DEF p, e, n, net
  <1>7. /\ InHand(e, one, answered, buffers, collective_buffer)
        /\ Typed(answered, buffers, collective_buffer)
    <2>1. CASE answered = net
      <3> HIDE DEF answered
      <3> QED
        BY <1>5, <1>6, <2>1
    <2>2. CASE answered # net
      <3> DEFINE told == <<Location(p)>>
      <3>1. answered = Emit(net, p, n.sender, e, told)
        BY <2>2 DEF routing_update
      <3>2. told \in Seq(Packet) /\ AboutNothing(told)
        <4>1. Location(p) \in Moves
          BY <1>1 DEF Location, Moves
        <4> QED
          BY <4>1, MovesAboutNothing
      <3> HIDE DEF told, answered, one
      <3>3. InHand(e, one, Emit(net, p, n.sender, e, told), buffers, collective_buffer)
        BY <1>1, <1>2, <1>5, <1>6, <3>2, SendNothing
      <3>4. Typed(Emit(net, p, n.sender, e, told), buffers, collective_buffer)
        BY <1>6, <3>2, TypedEmit
      <3> QED
        BY <3>1, <3>3, <3>4
    <2> QED
      BY <2>1, <2>2
  <1> HIDE DEF answered
  <1>8. ASSUME AllInPlace(queue', buffers', collective_buffer'), UNCHANGED ran
        PROVE  Placed'
    BY <1>3, <1>8, NothingRunPlaced DEF Placed
  <1>9. CASE FlushHere(p, e, one, answered)
    <2> HIDE DEF one
    <2>1. /\ InHand(e, one, answered, buffers, collective_buffer')
          /\ Typed(answered, buffers, collective_buffer')
      BY <1>3, <1>7
    <2> QED
      BY <1>1, <1>2, <1>3, <1>9, <2>1, FlushHerePlaced DEF Placed
  <1>10. CASE queue' = answered /\ buffers' = bufs /\ UNCHANGED ran
    <2>1. AllInPlace(answered, bufs, collective_buffer)
      BY <1>1, <1>2, <1>7, PutInBuffer
    <2> QED
      BY <1>3, <1>8, <1>10, <2>1
  <1>11. CASE queue' = net /\ buffers' = bufs /\ UNCHANGED ran
    <2>1. AllInPlace(net, bufs, collective_buffer)
      BY <1>1, <1>2, <1>5, <1>6, PutInBuffer
    <2> QED
      BY <1>3, <1>8, <1>11, <2>1
  <1>12. CASE /\ queue' = Emit(net, p, lookup(p, e), e, forwarded_by(p, one))
              /\ UNCHANGED <<ran, buffers>>
    <2> DEFINE to == lookup(p, e)
               sent == forwarded_by(p, one)
    <2>1. to \in PE
      BY <1>1, LookupType
    <2>2. sent \in Seq(Packet) /\ Alike(one, sent)
      BY <1>1, <1>2, ForwardedAlike
    <2> HIDE DEF to, sent, one
    <2>3. AllInPlace(Emit(net, p, to, Index(e), sent), buffers, collective_buffer)
      BY <1>1, <1>5, <1>6, <2>1, <2>2, SendHand
    <2>4. AllInPlace(queue', buffers', collective_buffer')
      BY <1>1, <1>3, <1>12, <2>3 DEF to, sent
    <2> QED
      BY <1>8, <1>12, <2>4
  <1> QED
    BY <1>4, <1>9, <1>10, <1>11, <1>12

LEMMA ArrivalPlaced ==
    ASSUME OrderInv, OrderInv', Placed, NEW r \in Route, NEW i \in DOMAIN queue[r],
           ReceiveLocation(r, i) \/ ReceiveChare(r, i)
    PROVE  Placed'
  <1> DEFINE e == r.idx
             n == queue[r][i]
             net == Without(r, i)
  <1>1. r.to \in PE /\ e \in Elem
    BY Received DEF ReceiveLocation, ReceiveChare, Receives
  <1>2. FlushBuffers(r.to, e, net) /\ UNCHANGED <<collective_buffer, posted>>
    BY DEF ReceiveLocation, ReceiveChare
  <1>3. n \in Moves
    <2>1. n \in Fit(e, Agreed)
      BY ReceivedFits DEF OrderInv
    <2>2. n.type \in {"location", "chare"}
      BY DEF ReceiveLocation, ReceiveChare, Receives
    <2>3. \A m \in Agreed : m.type = "copy"
      BY DEF Agreed, SentCopy
    <2> QED
      BY <1>1, <2>1, <2>2, <2>3, RootIndex DEF Fit, CopiesFor
  <1>4. AboutNothing(<<n>>)
    BY <1>3, MovesAboutNothing
  <1>5. AllInPlace(net, buffers, collective_buffer)
    BY <1>1, <1>4, TypedNow, TakeOther DEF Placed
  <1>6. Typed(net, buffers, collective_buffer)
    BY TypedNow, TypedWithout
  <1> HIDE DEF net, e, n
  <1> QED
    BY <1>1, <1>2, <1>5, <1>6, FlushBuffersPlaced DEF Placed

-----------------------------------------------------------------------------
(* The invariant holds *)

LEMMA PlacedInit == Init => Placed
  <1> SUFFICES ASSUME Init PROVE Placed
    OBVIOUS
  <1>1. \A e \in Elem, b \in Bcast : ~HasRun(e, b)
    BY DEF Init, HasRun, ToSet
  <1>2. \A e \in Elem, b \in Bcast : ~Awaits(e, b)
    BY <1>1 DEF Init, Awaits, Reached
  <1>3. ASSUME NEW e \in Elem, NEW b \in Bcast
        PROVE  Nowhere(WaitingFor(e, queue, buffers, collective_buffer), b)
    <2> DEFINE w == WaitingFor(e, queue, buffers, collective_buffer)
    <2>1. /\ \A p, q \in PE : w[OnTheWay(p, q)] = queue[SentTo(e, p, q)]
          /\ \A p \in PE : w[PutAside(p)] = AsideFor(e, buffers, collective_buffer, p)
          /\ \A x \in Place : x[1] # "queue" /\ x # PutAside(x[2]) => w[x] = <<>>
      BY WaitingThere
    <2> HIDE DEF w
    <2>2. \A p, q \in PE : NoHit(queue[SentTo(e, p, q)], About(b))
      <3> SUFFICES ASSUME NEW p \in PE, NEW q \in PE
                   PROVE  NoHit(queue[SentTo(e, p, q)], About(b))
        OBVIOUS
      <3>1. SentTo(e, p, q) \in Route /\ SentTo(e, p, q).from = p
        BY SentToRoute DEF SentTo
      <3>2. queue[SentTo(e, p, q)] \in {<<>>, <<Location(p)>>}
        BY <3>1 DEF Init
      <3>3. Location(p) \notin About(b)
        BY DEF Location, About
      <3> QED
        BY <3>2, <3>3, EmptyHits, SingleHits
    <2>3. \A p \in PE : AsideFor(e, buffers, collective_buffer, p) = <<>>
      <3>1. PostsOf(<<>>) = <<>>
        BY DEF PostsOf
      <3> QED
        BY <3>1 DEF Init, AsideFor
    <2>4. \A x \in Place : NoHit(w[x], About(b))
      BY <2>1, <2>2, <2>3, PlaceIs, EmptyHits
    <2> QED
      BY <2>4 DEF Nowhere, w
  <1> QED
    BY <1>1, <1>2, <1>3 DEF Placed, Downward, AllInPlace, InPlace, Stays

LEMMA PlacedStep ==
    ASSUME OrderInv, OrderInv', Placed, [Next]_vars
    PROVE  Placed'
  <1>1. CASE UNCHANGED vars
    <2>1. UNCHANGED <<ran, posted, queue, buffers, collective_buffer>>
      BY <1>1 DEF vars
    <2>2. AllInPlace(queue', buffers', collective_buffer')
      BY <2>1 DEF Placed
    <2> QED
      BY <2>1, <2>2, NothingRunPlaced DEF Placed
  <1>2. CASE \E r \in Route : \E i \in DOMAIN queue[r] :
                 \/ ReceivePost(r, i) \/ ReceiveCopy(r, i)
                 \/ ReceiveLocation(r, i) \/ ReceiveChare(r, i)
    BY <1>2, PostPlaced, CopyPlaced, ArrivalPlaced
  <1> QED
    BY <1>1, <1>2, BroadcastPlaced, EmigratePlaced, CompletePlaced DEF Next

-----------------------------------------------------------------------------
(* Counting the packets of each place *)

WhereAt(e, x, i) ==
    IF x[1] = "queue" THEN <<SentTo(e, x[2], x[3]), i>> ELSE <<x[2], i>>

(* S has the packets about b that wait for e *)
Counts(S, e, w, b) ==
    \A s : s \in S <=> \E x \in Place : \E i \in Hits(w[x], About(b)) :
                            s = WhereAt(e, x, i)

LEMMA CountOfStays ==
    ASSUME NEW e, NEW b, NEW w, Stays(e, b, w), NEW S, Counts(S, e, w, b)
    PROVE  Cardinality(S) = IF Awaits(e, b) THEN 1 ELSE 0
  <1>1. CASE Awaits(e, b)
    <2>1. PICK x \in Place : /\ OneHit(w[x], About(b))
                             /\ \A y \in Place : y # x => NoHit(w[y], About(b))
      BY <1>1 DEF Stays, Once
    <2>2. PICK i : Hits(w[x], About(b)) = {i}
      BY <2>1 DEF OneHit
    <2>3. \A y \in Place : y # x => Hits(w[y], About(b)) = {}
      BY <2>1 DEF NoHit
    <2> DEFINE at == WhereAt(e, x, i)
    <2>4. \A s : s \in S <=> s = at
      BY <2>2, <2>3 DEF Counts
    <2> HIDE DEF at
    <2>5. S = {at}
      BY <2>4
    <2> QED
      BY <1>1, <2>5, FS_Singleton
  <1>2. CASE ~Awaits(e, b)
    <2>1. S = {}
      BY <1>2 DEF Stays, Nowhere, NoHit, Counts
    <2> QED
      BY <1>2, <2>1, FS_EmptySet
  <1> QED
    BY <1>1, <1>2

(* Where the packets for an element are *)
LEMMA CountsAre ==
    ASSUME NEW e \in Elem, NEW b \in Bcast, NEW sent, NEW aside,
           \A p, q \in PE : Hits(queue[SentTo(e, p, q)], About(b)) = sent[SentTo(e, p, q)],
           \A p \in PE : Hits(AsideFor(e, buffers, collective_buffer, p), About(b)) = aside[p]
    PROVE  Counts((UNION {{<<r, i>> : i \in sent[r]} : r \in RouteFor(Index(e))})
                  \cup (UNION {{<<p, i>> : i \in aside[p]} : p \in PE}),
                  e, WaitingFor(e, queue, buffers, collective_buffer), b)
  <1> DEFINE w == WaitingFor(e, queue, buffers, collective_buffer)
             S == UNION {{<<r, i>> : i \in sent[r]} : r \in RouteFor(Index(e))}
             T == UNION {{<<p, i>> : i \in aside[p]} : p \in PE}
  <1>1. /\ \A p, q \in PE : w[OnTheWay(p, q)] = queue[SentTo(e, p, q)]
        /\ \A p \in PE : w[PutAside(p)] = AsideFor(e, buffers, collective_buffer, p)
        /\ \A x \in Place : x[1] # "queue" /\ x # PutAside(x[2]) => w[x] = <<>>
    BY WaitingThere
  <1> HIDE DEF w
  <1>2. /\ \A p, q \in PE : Hits(w[OnTheWay(p, q)], About(b)) = sent[SentTo(e, p, q)]
        /\ \A p \in PE : Hits(w[PutAside(p)], About(b)) = aside[p]
        /\ \A x \in Place : x[1] # "queue" /\ x # PutAside(x[2]) =>
              Hits(w[x], About(b)) = {}
    BY <1>1, EmptyHits DEF NoHit
  <1>3. \A r : r \in RouteFor(Index(e)) <=> \E p, q \in PE : r = SentTo(e, p, q)
    <2>1. \A p, q \in PE : SentTo(e, p, q) \in RouteFor(Index(e))
      BY SentToRoute DEF RouteFor, SentTo
    <2>2. \A r \in RouteFor(Index(e)) :
              r.from \in PE /\ r.to \in PE /\ r = SentTo(e, r.from, r.to)
      BY DEF RouteFor, Route, SentTo
    <2> QED
      BY <2>1, <2>2
  <1>4. /\ \A i : \A p, q \in PE : WhereAt(e, OnTheWay(p, q), i) = <<SentTo(e, p, q), i>>
        /\ \A i : \A p \in PE : WhereAt(e, PutAside(p), i) = <<p, i>>
    BY DEF WhereAt, OnTheWay, PutAside
  <1>5. \A s : s \in S <=> \E p, q \in PE : \E i \in sent[SentTo(e, p, q)] :
                                s = <<SentTo(e, p, q), i>>
    BY <1>3
  <1>6. \A s : s \in T <=> \E p \in PE : \E i \in aside[p] : s = <<p, i>>
    OBVIOUS
  <1> HIDE DEF S, T
  <1>7. ASSUME NEW s, s \in S \cup T
        PROVE  \E x \in Place : \E i \in Hits(w[x], About(b)) : s = WhereAt(e, x, i)
    <2>1. CASE s \in S
      <3>1. PICK p \in PE, q \in PE : \E i \in sent[SentTo(e, p, q)] :
                s = <<SentTo(e, p, q), i>>
        BY <1>5, <2>1
      <3>2. /\ OnTheWay(p, q) \in Place
            /\ Hits(w[OnTheWay(p, q)], About(b)) = sent[SentTo(e, p, q)]
        BY <1>2, Places
      <3> QED
        BY <1>4, <3>1, <3>2
    <2>2. CASE s \in T
      <3>1. PICK p \in PE : \E i \in aside[p] : s = <<p, i>>
        BY <1>6, <2>2
      <3>2. PutAside(p) \in Place /\ Hits(w[PutAside(p)], About(b)) = aside[p]
        BY <1>2, Places
      <3> QED
        BY <1>4, <3>1, <3>2
    <2> QED
      BY <1>7, <2>1, <2>2
  <1>8. ASSUME NEW x \in Place, NEW i \in Hits(w[x], About(b))
        PROVE  WhereAt(e, x, i) \in S \cup T
    <2>1. CASE \E p, q \in PE : x = OnTheWay(p, q)
      BY <1>2, <1>4, <1>5, <1>8, <2>1
    <2>2. CASE \E p \in PE : x = PutAside(p)
      BY <1>2, <1>4, <1>6, <1>8, <2>2
    <2>3. CASE x[1] # "queue" /\ x # PutAside(x[2])
      BY <1>2, <1>8, <2>3
    <2> QED
      BY <2>1, <2>2, <2>3, PlaceIs
  <1>9. Counts(S \cup T, e, w, b)
    BY <1>7, <1>8 DEF Counts
  <1> QED
    BY <1>9 DEF S, T, w

LEMMA PostsCounted ==
    ASSUME OrderInv, NEW b \in Bcast
    PROVE  Counts(Traveling("post", b, bcast_root) \cup HeldPosts(b), root,
                  WaitingFor(root, queue, buffers, collective_buffer), b)
  <1> DEFINE sent == [r \in Route |-> {j \in DOMAIN queue[r] : Carries(r, j, "post", b)}]
             aside == [p \in PE |-> {j \in DOMAIN collective_buffer[p] :
                                        collective_buffer[p][j] = b}]
  <1>1. root \in Elem /\ Index(root) = bcast_root
    BY BroadcastAssumption DEF Index
  <1>2. ASSUME NEW p \in PE, NEW q \in PE
        PROVE  Hits(queue[SentTo(root, p, q)], About(b)) = sent[SentTo(root, p, q)]
    <2> DEFINE r == SentTo(root, p, q)
    <2>1. r \in Route /\ r = RootRoute(p, q)
      BY <1>1, SentToRoute DEF SentTo, RootRoute
    <2>2. queue[r] \in Seq(Posts)
      BY <2>1, RootQueue
    <2>3. \A j \in DOMAIN queue[r] : queue[r][j] \in Posts
      BY <2>2, LenProperties, ElementOfSeq
    <2>4. \A n \in Posts : n \in About(b) <=> n.type = "post" /\ n.bcast = b
      BY DEF Posts, About, Packet
    <2>5. Hits(queue[r], About(b)) = {j \in DOMAIN queue[r] : Carries(r, j, "post", b)}
      BY <2>3, <2>4 DEF Hits, Carries
    <2> HIDE DEF r
    <2>6. Hits(queue[r], About(b)) = sent[r]
      BY <2>1, <2>5
    <2> QED
      BY <2>6 DEF r
  <1>3. ASSUME NEW p \in PE
        PROVE  Hits(AsideFor(root, buffers, collective_buffer, p), About(b)) = aside[p]
    <2> DEFINE s == collective_buffer[p]
    <2>1. s \in Seq(Bcast)
      BY DEF OrderInv, TypeOK
    <2> HIDE DEF s
    <2>2. DOMAIN PostsOf(s) = DOMAIN s /\ \A j \in DOMAIN s : PostsOf(s)[j] = Post(s[j])
      BY DEF PostsOf
    <2>3. \A j \in DOMAIN s : s[j] \in Bcast
      BY <2>1, LenProperties, ElementOfSeq
    <2>4. \A j \in DOMAIN s : Post(s[j]) \in About(b) <=> s[j] = b
      BY <2>3, IsAbout
    <2>5. Hits(PostsOf(s), About(b)) = {j \in DOMAIN s : s[j] = b}
      BY <2>2, <2>4 DEF Hits
    <2> QED
      BY <2>5 DEF AsideFor, s
  <1>4. Traveling("post", b, bcast_root) =
            UNION {{<<r, i>> : i \in sent[r]} : r \in RouteFor(Index(root))}
    BY <1>1 DEF Traveling, RouteFor
  <1>5. HeldPosts(b) = UNION {{<<p, i>> : i \in aside[p]} : p \in PE}
    BY DEF HeldPosts
  <1> HIDE DEF sent, aside
  <1> QED
    BY <1>1, <1>2, <1>3, <1>4, <1>5, CountsAre

LEMMA CopiesCounted ==
    ASSUME OrderInv, NEW b \in Bcast, NEW e \in Elem, e # root
    PROVE  Counts(Traveling("copy", b, e) \cup HeldCopies(b, e), e,
                  WaitingFor(e, queue, buffers, collective_buffer), b)
  <1> DEFINE sent == [r \in Route |-> {j \in DOMAIN queue[r] : Carries(r, j, "copy", b)}]
             aside == [p \in PE |-> {j \in DOMAIN buffers[p][e] : buffers[p][e][j].bcast = b}]
  <1>1. Index(e) = e
    BY DEF Index
  <1>2. ASSUME NEW p \in PE, NEW q \in PE
        PROVE  Hits(queue[SentTo(e, p, q)], About(b)) = sent[SentTo(e, p, q)]
    <2> DEFINE r == SentTo(e, p, q)
    <2>1. r \in Route /\ r.idx = e
      BY <1>1, SentToRoute DEF SentTo
    <2> HIDE DEF r
    <2>2. \A j \in DOMAIN queue[r] : queue[r][j] \in Moves \cup Agreed
      <3>1. Fit(e, Agreed) \subseteq Moves \cup Agreed
        BY RootIndex DEF Fit, CopiesFor
      <3> QED
        BY <2>1, <3>1, ReceivedFits DEF OrderInv
    <2>3. \A n \in Moves \cup Agreed : n \in About(b) <=> n.type = "copy" /\ n.bcast = b
      <3>1. \A n \in Agreed : n \in CopyPacket /\ n.type = "copy"
        BY DEF Agreed, SentCopy, CopyPacket
      <3>2. \A n \in Moves : n.type # "copy"
        BY DEF Moves, Chare
      <3> QED
        BY <3>1, <3>2, IsAbout
    <2>4. Hits(queue[r], About(b)) = {j \in DOMAIN queue[r] : Carries(r, j, "copy", b)}
      BY <2>2, <2>3 DEF Hits, Carries
    <2>5. Hits(queue[r], About(b)) = sent[r]
      BY <2>1, <2>4
    <2> QED
      BY <2>5 DEF r
  <1>3. ASSUME NEW p \in PE
        PROVE  Hits(AsideFor(e, buffers, collective_buffer, p), About(b)) = aside[p]
    <2> DEFINE s == buffers[p][e]
    <2>1. s \in Seq(CopyPacket)
      BY InBuffer
    <2> HIDE DEF s
    <2>2. \A j \in DOMAIN s : s[j] \in CopyPacket
      BY <2>1, LenProperties, ElementOfSeq
    <2>3. Hits(s, About(b)) = {j \in DOMAIN s : s[j].bcast = b}
      BY <2>2, IsAbout DEF Hits
    <2> QED
      BY <2>3 DEF AsideFor, s
  <1>4. Traveling("copy", b, e) =
            UNION {{<<r, i>> : i \in sent[r]} : r \in RouteFor(Index(e))}
    BY <1>1 DEF Traveling, RouteFor
  <1>5. HeldCopies(b, e) = UNION {{<<p, i>> : i \in aside[p]} : p \in PE}
    BY DEF HeldCopies
  <1> HIDE DEF sent, aside
  <1> QED
    BY <1>2, <1>3, <1>4, <1>5, CountsAre

(* No copy is sent to the root of the tree *)
LEMMA NoCopyForRoot ==
    ASSUME OrderInv, NEW b \in Bcast
    PROVE  Traveling("copy", b, root) \cup HeldCopies(b, root) = {}
  <1>1. root \in Elem
    BY BroadcastAssumption
  <1>2. \A r \in RouteFor(root) : \A j \in DOMAIN queue[r] : ~Carries(r, j, "copy", b)
    <2> SUFFICES ASSUME NEW r \in RouteFor(root), NEW j \in DOMAIN queue[r]
                 PROVE  ~Carries(r, j, "copy", b)
      OBVIOUS
    <2>1. r \in Route /\ r.idx = root
      BY DEF RouteFor
    <2>2. queue[r][j] \in Fit(root, Agreed)
      BY <2>1, ReceivedFits DEF OrderInv
    <2>3. queue[r][j] \in Moves
      BY <1>1, <2>2, RootIndex DEF Fit, CopiesFor
    <2> QED
      BY <2>3 DEF Moves, Chare, Carries
  <1>3. \A p \in PE : DOMAIN buffers[p][root] = {}
    <2>1. DOMAIN <<>> = {}
      OBVIOUS
    <2> QED
      BY <1>1, <2>1, InBuffer
  <1>4. Traveling("copy", b, root) = {}
    BY <1>2 DEF Traveling
  <1>5. HeldCopies(b, root) = {}
    BY <1>3 DEF HeldCopies
  <1> QED
    BY <1>4, <1>5

LEMMA PlacedConserves == OrderInv /\ Placed => BroadcastConserved
  <1> SUFFICES ASSUME OrderInv, Placed, NEW b \in Bcast
               PROVE  /\ Cardinality(Traveling("post", b, bcast_root) \cup HeldPosts(b))
                             = IF b \in posted /\ ~HasRun(root, b) THEN 1 ELSE 0
                      /\ \A e \in Elem :
                            Cardinality(Traveling("copy", b, e) \cup HeldCopies(b, e))
                                = IF Owed(b, e) THEN 1 ELSE 0
    BY DEF BroadcastConserved
  <1>1. \A e \in Elem : Stays(e, b, WaitingFor(e, queue, buffers, collective_buffer))
    BY DEF Placed, AllInPlace, InPlace
  <1>2. Cardinality(Traveling("post", b, bcast_root) \cup HeldPosts(b))
            = IF b \in posted /\ ~HasRun(root, b) THEN 1 ELSE 0
    <2>1. root \in Elem /\ (Awaits(root, b) <=> b \in posted /\ ~HasRun(root, b))
      BY BroadcastAssumption DEF Awaits, Reached
    <2> QED
      BY <1>1, <2>1, PostsCounted, CountOfStays
  <1>3. ASSUME NEW e \in Elem
        PROVE  Cardinality(Traveling("copy", b, e) \cup HeldCopies(b, e))
                   = IF Owed(b, e) THEN 1 ELSE 0
    <2>1. CASE e = root
      <3>1. ~Owed(b, e)
        BY <2>1, BroadcastAssumption DEF Owed
      <3> QED
        BY <2>1, <3>1, NoCopyForRoot, FS_EmptySet
    <2>2. CASE e # root
      <3>1. Awaits(e, b) <=> Owed(b, e)
        BY <2>2 DEF Awaits, Reached, Owed, OwedBy
      <3> QED
        BY <1>1, <2>2, <3>1, CopiesCounted, CountOfStays
    <2> QED
      BY <2>1, <2>2
  <1> QED
    BY <1>2, <1>3

(* Whatever the tree, the migrations, the order of packets and the PEs     *)
(* that fail, no broadcast is dropped or repeated on its way: until the    *)
(* root runs it there is one post, and then one copy for each element      *)
(* whose parent has run it and which has not (deliver_now,                 *)
(* handle_broadcast_message_ and flush_buffers, collection.hpp).           *)
THEOREM BroadcastsConserved == Spec => []BroadcastConserved
  <1>1. Init => OrderInv /\ Placed
    BY OrderInit, PlacedInit
  <1>2. OrderInv /\ [Next]_vars => OrderInv'
    BY OrderStep
  <1>3. OrderInv /\ OrderInv' /\ Placed /\ [Next]_vars => Placed'
    BY PlacedStep
  <1>4. OrderInv /\ Placed => BroadcastConserved
    BY PlacedConserves
  <1> QED
    BY <1>1, <1>2, <1>3, <1>4, PTL DEF Spec
=============================================================================
