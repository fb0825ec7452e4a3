----------------------------- MODULE Reduction ------------------------------
(***************************************************************************)
(* Reductions over the chares of a collection whose spanning tree is       *)
(* built: contributions climb the tree, are combined at every chare with   *)
(* those of its children, and the root sends the result to the             *)
(* continuation (include/charmlite/core/collection.hpp: contribute,        *)
(* get_reducer_, handle_reduction_message_; chare.hpp: reducer_).          *)
(*                                                                         *)
(* A handler is one action and packets arrive in any order.  Contributions *)
(* are sent without a sender, so nothing answers them with a location; the *)
(* other updates are those of an array after its insertion phase.          *)
(***************************************************************************)
EXTENDS Locmgr, SequencesExt

CONSTANTS root,       \* the element at the root of the spanning tree
          parent,     \* the element above each other element
          created,    \* the PE each element was created on
          Redn,       \* reductions, one contribution per element
          Tag,        \* tag given to contribute() in each reduction, or NoTag
          Inserting,  \* PEs not yet told that the insertion phase is over
          MaxHops     \* bound: migrations of one element

NoTag == 0

ASSUME ReductionAssumption ==
    /\ IsFiniteSet(Elem)
    /\ root \in Elem
    /\ parent \in [Elem \ {root} -> Elem]
    /\ created \in [Elem -> PE]
    /\ Tag \in [Redn -> Nat]
    /\ Inserting \subseteq PE
    /\ MaxHops \in Nat

VARIABLES
    chares,             \* chares[p]: the elements resident on p
    received,           \* received[e][k]: messages in the reducer of e for k
    buffers,            \* buffers[p][e]: messages waiting on p for e
    collective_buffer,  \* messages waiting on p for the end of the phase
    is_inserting,       \* PEs where the insertion phase goes on
    net,                \* packets sent and not handled
    results,            \* messages sent to their continuations
    made,               \* history: contributions made
    hop                 \* migrations so far of each element

tables == <<locmap, routing_cache>>
vars == <<tables, chares, received, buffers, collective_buffer,
          is_inserting, net, results, made, hop>>

children(e) == {f \in Elem \ {root} : parent[f] = e}

-----------------------------------------------------------------------------
(* Numbers.  last_redn_ of a chare is initialised and migrates with it,    *)
(* but no code assigns it: an untagged reduction is always number 1.       *)

last_redn == 0
next_collective_(k) == k + 1
number(r) == IF Tag[r] = NoTag THEN next_collective_(last_redn) ELSE Tag[r]
Number == {number(r) : r \in Redn}
no_reducers == [k \in Number |-> <<>>]

-----------------------------------------------------------------------------
(* A reduction message on its way to chare idx: its number, the            *)
(* contributions combined in it, and its continuation.                     *)

Contribution == Elem \X Redn
Message(e, k, parts, cont) ==
    [idx |-> e, redn |-> k, parts |-> parts, cont |-> cont]
Messages == [idx : Elem, redn : Number, parts : SUBSET Contribution, cont : Redn]

Result(m) == [to |-> m.cont, parts |-> m.parts]

(* The messages of ms at the places in I, in their order *)
Picked(ms, I) ==
    FlattenSeq([i \in DOMAIN ms |-> IF i \in I THEN <<ms[i]>> ELSE <<>>])

Redux(m, to) == [type |-> "redux", idx |-> m.idx, to |-> to, msg |-> m]
Location(e, to, pe, cause) ==
    [type |-> "location", idx |-> e, to |-> to, pe |-> pe, cause |-> cause]
Chare(e, to) == [type |-> "chare", idx |-> e, to |-> to]

Packet == [type : {"redux"}, idx : Elem, to : PE, msg : Messages]
          \cup [type : {"location"}, idx : Elem, to : PE, pe : PE,
                cause : 0 .. MaxHops]
          \cup [type : {"chare"}, idx : Elem, to : PE]

TypeOK ==
    /\ LocmgrTypeOK
    /\ chares \in [PE -> SUBSET Elem]
    /\ received \in [Elem -> [Number -> Seq(Messages)]]
    /\ buffers \in [PE -> [Elem -> Seq(Messages)]]
    /\ collective_buffer \in [PE -> Seq(Messages)]
    /\ is_inserting \subseteq PE
    /\ \A n \in net : n \in Packet
    /\ results \subseteq [to : Redn, parts : SUBSET Contribution]
    /\ made \subseteq Contribution
    /\ hop \in [Elem -> 0 .. MaxHops]

(* The tree is built and everyone knows its neighbours; the update an      *)
(* element created off its home has sent may still be on its way.          *)
Init ==
    /\ LocmgrInit
    /\ chares = [p \in PE |-> {e \in Elem : created[e] = p}]
    /\ received = [e \in Elem |-> no_reducers]
    /\ buffers = [p \in PE |-> [e \in Elem |-> <<>>]]
    /\ collective_buffer = [p \in PE |-> <<>>]
    /\ is_inserting = Inserting
    /\ net = {Location(e, home_pe(e), created[e], 0) :
                 e \in {f \in Elem : created[f] # home_pe(f)}}
    /\ results = {}
    /\ made = {}
    /\ hop = [e \in Elem |-> 0]

-----------------------------------------------------------------------------
(* Reducers.  All messages for one chare and one number meet the same      *)
(* reducer, whose upstream is the chare's children: whenever it has one    *)
(* message from each of them and one from the chare itself, these are      *)
(* combined and the reducer is erased; the next message starts another.    *)

(* Mutant: a reducer does not wait for the chare's own contribution *)
expected_early(e) == IF children(e) = {} THEN 1 ELSE Cardinality(children(e))

(* reducer_::ready *)
expected(e) == Cardinality(children(e)) + 1

Meets(e, k, ms) ==
    received[e][k]
    \o Picked(ms, {i \in DOMAIN ms : ms[i].idx = e /\ ms[i].redn = k})

Rounds(e, got) == Len(got) \div expected(e)
Round(e, got, i) == SubSeq(got, (i - 1) * expected(e) + 1, i * expected(e))
Left(e, got) == SubSeq(got, Rounds(e, got) * expected(e) + 1, Len(got))

(* The combiner folds the messages into the first one; the continuation is *)
(* taken over from the last one.                                           *)
combined(e, k, got) ==
    Message(e, k, UNION {got[i].parts : i \in DOMAIN got}, Last(got).cont)

Complete(e, k, got) ==
    {combined(e, k, Round(e, got, i)) : i \in 1 .. Rounds(e, got)}

(* Where p believes each element to be, after the step *)
where(p) == [e \in Elem |-> lookup(p, e)']

Upward(p, m) ==
    Redux([m EXCEPT !.idx = parent[m.idx]], where(p)[parent[m.idx]])

(* The reducers of the chares on p have got messages got[e][k]: what is    *)
(* complete goes to the parent, from the root to the continuation.  Of an  *)
(* element that leaves, nothing stays.                                     *)
Combine(p, got, packs) ==
    LET done == UNION {Complete(e, k, got[e][k]) : e \in chares'[p], k \in Number}
    IN /\ received' = [e \in Elem |->
             CASE e \in chares'[p] -> [k \in Number |-> Left(e, got[e][k])]
               [] e \in chares[p] \ chares'[p] -> no_reducers
               [] OTHER -> received[e]]
       /\ results' = results \cup {Result(m) : m \in {d \in done : d.idx = root}}
       /\ net' = packs \cup {Upward(p, m) : m \in {d \in done : d.idx # root}}

(* handle_reduction_message_ on p of those messages of ms whose chares are *)
(* there.  (There is one got, which TLC computes once.)                    *)
Reduce(p, ms, packs) ==
    \E got \in {[e \in chares'[p] |-> [k \in Number |-> Meets(e, k, ms)]]} :
        Combine(p, got, packs)

(* No reducer is created while the tree may still change *)
Here(p, ms) == Picked(ms, {i \in DOMAIN ms : ms[i].idx \in chares'[p]})
SetAside(p, ms, packs) ==
    /\ collective_buffer' = [collective_buffer EXCEPT ![p] = @ \o Here(p, ms)]
    /\ net' = packs
    /\ UNCHANGED <<received, results>>

handle_reduction_message_(p, ms, packs) ==
    \/ /\ p \in is_inserting
       /\ SetAside(p, ms, packs)
    \/ /\ p \notin is_inserting
       /\ Reduce(p, ms, packs)
       /\ UNCHANGED collective_buffer

-----------------------------------------------------------------------------
(* Delivery of the messages ms on p, one after the other, the tables and   *)
(* chares being those after the step.                                      *)

(* p is the home of e and does not know where e is *)
NoIdea(p, e) == home_pe(e) = p /\ where(p)[e] = p

Waits(p, m) == m.idx \notin chares'[p] /\ NoIdea(p, m.idx)
Goes(p, m) == m.idx \notin chares'[p] /\ ~NoIdea(p, m.idx)

Forwarded(p, ms) ==
    {Redux(m, where(p)[m.idx]) : m \in {n \in ToSet(ms) : Goes(p, n)}}

(* try_deliver fails for those that wait; old[e] is what has waited *)
buffer_(p, ms, old) ==
    buffers' = [buffers EXCEPT ![p] =
        [e \in Elem |->
            old[e] \o Picked(ms, {i \in DOMAIN ms :
                                     ms[i].idx = e /\ Waits(p, ms[i])})]]

deliver_now(p, m, packs) ==
    /\ handle_reduction_message_(p, <<m>>, packs \cup Forwarded(p, <<m>>))
    /\ buffer_(p, <<m>>, buffers[p])

(* flush_buffers: every message for e leaves the buffer, or all stay *)
flush_buffers(p, e, packs) ==
    LET ms == buffers[p][e] IN
    /\ handle_reduction_message_(p, ms, packs \cup Forwarded(p, ms))
    /\ buffer_(p, ms, [buffers[p] EXCEPT ![e] = <<>>])

-----------------------------------------------------------------------------
(* Operations *)

(* element_proxy::contribute, called by chare e: its message takes part as *)
(* if it had just arrived.                                                 *)
Contribute(p, e, r) ==
    /\ e \in chares[p]
    /\ <<e, r>> \notin made
    /\ made' = made \cup {<<e, r>>}
    /\ UNCHANGED <<tables, chares, is_inserting, buffers, hop>>
    /\ handle_reduction_message_(p, <<Message(e, number(r), {<<e, r>>}, r)>>, net)

(* Mutant: a chare moves whatever its reducers hold *)
chare_can_migrate_always(e) == TRUE

(* The messages of a reducer cannot be packed *)
chare_can_migrate_(e) == received[e] = no_reducers

Emigrate(p, e, dst) ==
    /\ e \in chares[p]
    /\ hop[e] < MaxHops
    /\ chare_can_migrate_(e)
    /\ hop' = [hop EXCEPT ![e] = @ + 1]
    /\ update_location(p, e, dst)
    /\ chares' = [chares EXCEPT ![p] = @ \ {e}]
    /\ UNCHANGED <<is_inserting, made>>
    /\ LET left == net \cup {Chare(e, dst)}
       IN flush_buffers(p, e,
              IF p = home_pe(e) THEN left
              ELSE left \cup {Location(e, home_pe(e), dst, hop[e] + 1)})

-----------------------------------------------------------------------------
(* Handlers *)

(* Mutant: only the first of the waiting messages is taken *)
Waiting_first(p) ==
    IF collective_buffer[p] = <<>> THEN <<>> ELSE <<Head(collective_buffer[p])>>

Waiting(p) == collective_buffer[p]

(* insertion_complete_ and on_insertion_complete *)
InsertionComplete(p) ==
    /\ p \in is_inserting
    /\ is_inserting' = is_inserting \ {p}
    /\ collective_buffer' = [collective_buffer EXCEPT ![p] = <<>>]
    /\ UNCHANGED <<tables, chares, made, hop>>
    /\ Reduce(p, Waiting(p), net \cup Forwarded(p, Waiting(p)))
    /\ buffer_(p, Waiting(p), buffers[p])

ReceiveRedux(n) ==
    /\ n \in net /\ n.type = "redux"
    /\ UNCHANGED <<tables, chares, is_inserting, made, hop>>
    /\ deliver_now(n.to, n.msg, net \ {n})

ReceiveLocation(n) ==
    /\ n \in net /\ n.type = "location"
    /\ update_location(n.to, n.idx, n.pe)
    /\ UNCHANGED <<chares, is_inserting, made, hop>>
    /\ flush_buffers(n.to, n.idx, net \ {n})

ReceiveChare(n) ==
    /\ n \in net /\ n.type = "chare"
    /\ update_location(n.to, n.idx, n.to)
    /\ chares' = [chares EXCEPT ![n.to] = @ \cup {n.idx}]
    /\ UNCHANGED <<is_inserting, made, hop>>
    /\ flush_buffers(n.to, n.idx, net \ {n})

-----------------------------------------------------------------------------
Next ==
    \/ \E p \in PE, e \in Elem, r \in Redn : Contribute(p, e, r)
    \/ \E p \in PE, e \in Elem, dst \in PE : Emigrate(p, e, dst)
    \/ \E p \in PE : InsertionComplete(p)
    \/ \E n \in net : ReceiveRedux(n)
    \/ \E n \in net : ReceiveLocation(n)
    \/ \E n \in net : ReceiveChare(n)

Spec == Init /\ [][Next]_vars

(* The schedulers do not rest while there is a packet of some type, and    *)
(* the PEs are told that the phase is over.  Converse promises more, that  *)
(* every packet is handled; no packet is passed over here forever, because *)
(* each handling brings a message closer to its chare or to the root.      *)
Fairness ==
    /\ WF_vars(\E p \in PE : InsertionComplete(p))
    /\ WF_vars(\E n \in net : ReceiveRedux(n))
    /\ WF_vars(\E n \in net : ReceiveLocation(n))
    /\ WF_vars(\E n \in net : ReceiveChare(n))

-----------------------------------------------------------------------------
(* Safety *)

Held(place, seq) == {[in |-> place, at |-> i, parts |-> seq[i].parts] :
                         i \in DOMAIN seq}
Holdings ==
    {[in |-> <<"net", n.to>>, at |-> 0, parts |-> n.msg.parts] :
        n \in {o \in net : o.type = "redux"}}
    \cup (UNION {Held(<<"reducer", e, k>>, received[e][k]) :
                     e \in Elem, k \in Number})
    \cup (UNION {Held(<<"buffer", p, e>>, buffers[p][e]) : p \in PE, e \in Elem})
    \cup (UNION {Held(<<"phase", p>>, collective_buffer[p]) : p \in PE})
    \cup {[in |-> <<"result", x.to>>, at |-> 0, parts |-> x.parts] :
              x \in results}

(* A contribution that was made is in exactly one place: a message on its  *)
(* way up, a reducer of a chare that has to stay where it is, a buffer of  *)
(* a PE, or one result.  Neither the end of the insertion phase, nor a     *)
(* chare that moves while messages climb to it, drops or repeats one       *)
(* ("chares with buffered reduction messages cannot migrate",              *)
(* chare.hpp:120).                                                         *)
ContributionConserved ==
    LET held == Holdings IN
    \A c \in Contribution :
        Cardinality({h \in held : c \in h.parts}) = IF c \in made THEN 1 ELSE 0

(* Each result combines one contribution of every chare, all to the        *)
(* reduction whose continuation it is sent to ("stamp the message with a   *)
(* sequence number", collection.hpp:273: the numbers tell reductions       *)
(* apart).                                                                 *)
ResultsWhole == \A x \in results : x.parts = Elem \X {x.to}

-----------------------------------------------------------------------------
(* Liveness *)

(* A reduction every chare has contributed to produces a result, wherever  *)
(* the chares have moved meanwhile.                                        *)
ReductionCompletes ==
    \A r \in Redn :
        (\A e \in Elem : <<e, r>> \in made)
            ~> (\E x \in results : x.to = r)

-----------------------------------------------------------------------------
(* Refinement *)

Abstract == INSTANCE Gather

(* Seen from outside, contributions are made and complete reductions       *)
(* produce one result each, from exactly their own contributions: the      *)
(* tree, the reducers and the numbers cannot be told apart from a barrier. *)
ImplementsGather == Abstract!Spec
=============================================================================
