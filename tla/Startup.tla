------------------------------- MODULE Startup ------------------------------
(***************************************************************************)
(* How collections come into being, and how the program ends (src/core.cpp,*)
(* include/charmlite/core/impl/proxy.hpp, and the constructor in           *)
(* collection.hpp).                                                        *)
(*                                                                         *)
(* A PE that constructs a collection broadcasts a creation message, and    *)
(* every PE puts a branch of the collection into its table when it gets    *)
(* it.  Nothing keeps messages for the collection from coming earlier:     *)
(* they wait in collection_buffer_.  The group of completion detectors has *)
(* no creation message at all; a PE makes its branch when it first needs   *)
(* it.                                                                     *)
(*                                                                         *)
(* Broadcasts of Converse (creation, done_inserting, the callback that     *)
(* ends an insertion phase, exit) reach the PEs in any order; messages     *)
(* from one PE to another are received in the order they were sent.        *)
(*                                                                         *)
(* The insertion phase is Insertion's subject.  Here, a phase ends with    *)
(* one wave of the detector: every branch of the array contributes, the    *)
(* contributions go up the spanning tree of the detectors, and the root    *)
(* calls the callback.  The counts are left out, and with them the         *)
(* broadcast that carries the sum, which never finds a PE without a        *)
(* detector, because every PE has contributed to it.                       *)
(***************************************************************************)
EXTENDS SpanTree, Indexing, FiniteSets, SequencesExt

CONSTANTS
    Program,     \* Program[p]: the collections PE p constructs, in order
    Letter,      \* messages to chares, each sent at most once
    From,        \* the PE that sends a letter
    To,          \* its collection
    Idx,         \* and its chare, or bcast_root for all of a group
    Marshalled,  \* letters that are packed before they leave a node
    node_of      \* CmiNodeOf

Group == [kind |-> "group", opts |-> Upto(<<NumPes>>)]
Array(opts) == [kind |-> "array", opts |-> opts]

Id(pe, id) == [pe |-> pe, id |-> id]

User == UNION {{Id(p, n - 1) : n \in DOMAIN Program[p]} : p \in PE}
Spec_of(c) == Program[c.pe][c.id + 1]
IsGroup(c) == Spec_of(c).kind = "group"
Arrays == {c \in User : ~IsGroup(c)}
Seeded(c) == Given(Spec_of(c).opts)

sys == Id(-1, 0)           \* the completion detectors
Col == User \cup {sys}

(* "sent" has letters and arrays in it, which are told apart. *)
ASSUME StartupAssumption ==
    /\ IsFiniteSet(Letter) /\ Letter \cap Arrays = {}
    /\ Marshalled \subseteq Letter
    /\ \A l \in Letter :
          /\ From[l] \in PE
          /\ To[l] \in User
          /\ Idx[l] \in Nat \/ (Idx[l] = bcast_root /\ IsGroup(To[l]))

VARIABLES
    local_collection_count,  \* collections constructed by each PE
    collection_table,        \* the collections that have a branch on p
    collection_buffer,       \* [p][c]: messages on p before its branch of c
    chares,                  \* [p][c]: the elements of c that live on p
    buffers,                 \* [p][c]: messages its branch has put aside
    last_bcast,              \* [p][c]: number of the last broadcast run
    combined,                \* [p][c]: contributions for c in p's reducer
    is_inserting,            \* [p]: the arrays still being inserted
    queue,                   \* [p][q]: messages from p to q, in order
    heard,                   \* [p]: broadcasts of Converse to arrive at p
    sent,                    \* letters sent, and arrays told of their end
    ran,                     \* [p]: letters run on p
    exits,                   \* somebody has called exit
    stopped,                 \* PEs whose scheduler has ended
    fault                    \* PEs where an assertion failed

branches == <<collection_table, chares, is_inserting>>
work == <<buffers, last_bcast, ran, fault>>
vars == <<local_collection_count, collection_buffer, branches, work,
          combined, queue, heard, sent, exits, stopped>>

-----------------------------------------------------------------------------
(* Messages *)

(* The message to one element, to the root of a group, or a copy of it *)
Entry(l) == [type |-> "entry", col |-> To[l], letter |-> l, packed |-> FALSE]
Post(l) == [type |-> "post", col |-> To[l], letter |-> l, packed |-> FALSE]
Copy(m, seq) ==
    [type |-> "copy", col |-> m.col, letter |-> m.letter,
     packed |-> m.packed, seq |-> seq]
Redux(c, from) == [type |-> "redux", col |-> sys, target |-> c, from |-> from]

Creation(c) == [type |-> "creation", col |-> c]
Status(c) == [type |-> "status", col |-> c]
Ready(c) == [type |-> "ready", col |-> c]
Exit(broadcast) == [type |-> "exit", is_broadcast |-> broadcast]

MessageOf(l) == IF Idx[l] = bcast_root THEN Post(l) ELSE Entry(l)

EndpointMessage ==
    [type : {"entry", "post"}, col : User, letter : Letter, packed : BOOLEAN]
    \cup [type : {"copy"}, col : User, letter : Letter, packed : BOOLEAN,
          seq : 1 .. Cardinality(Letter)]
    \cup [type : {"redux"}, col : {sys}, target : Arrays, from : PE]
    \cup {Status(c) : c \in Arrays}

HeardMessage ==
    {Creation(c) : c \in User} \cup {Status(c) : c \in Arrays}
    \cup {Ready(c) : c \in Arrays} \cup {Exit(TRUE)}

TypeOK ==
    /\ local_collection_count \in [PE -> Nat]
    /\ \A p \in PE :
          /\ collection_table[p] \subseteq Col
          /\ is_inserting[p] \subseteq Arrays \cap collection_table[p]
          /\ heard[p] \subseteq HeardMessage
          /\ ran[p] \subseteq Letter
          /\ \A c \in Col :
                /\ collection_buffer[p][c] \in Seq(EndpointMessage)
                /\ \A i \in DOMAIN collection_buffer[p][c] :
                      collection_buffer[p][c][i].col = c
                /\ chares[p][c] \subseteq {i \in Nat : home_pe(i) = p}
                /\ buffers[p][c] \subseteq EndpointMessage
                /\ last_bcast[p][c] \in 0 .. Cardinality(Letter)
                /\ combined[p][c] \subseteq {p} \cup span_tree_children(p)
          /\ \A q \in PE :
                queue[p][q] \in Seq(EndpointMessage \cup {Exit(FALSE)})
    /\ sent \subseteq Letter \cup Arrays
    /\ exits \in BOOLEAN
    /\ stopped \subseteq PE
    /\ fault \subseteq PE

Init ==
    /\ local_collection_count = [p \in PE |-> 0]
    /\ collection_table = [p \in PE |-> {}]
    /\ collection_buffer = [p \in PE |-> [c \in Col |-> <<>>]]
    /\ chares = [p \in PE |-> [c \in Col |-> {}]]
    /\ buffers = [p \in PE |-> [c \in Col |-> {}]]
    /\ last_bcast = [p \in PE |-> [c \in Col |-> 0]]
    /\ combined = [p \in PE |-> [c \in Col |-> {}]]
    /\ is_inserting = [p \in PE |-> {}]
    /\ queue = [p \in PE |-> [q \in PE |-> <<>>]]
    /\ heard = [p \in PE |-> {}]
    /\ sent = {}
    /\ ran = [p \in PE |-> {}]
    /\ exits = FALSE
    /\ stopped = {}
    /\ fault = {}

-----------------------------------------------------------------------------
(* Packing and sending *)

pack_message(m) ==
    IF m.letter \in Marshalled THEN [m EXCEPT !.packed = TRUE] ELSE m

unpack_message(m) == [m EXCEPT !.packed = FALSE]

is_cloneable(m) == m.packed \/ m.letter \notin Marshalled

(* What arrives at q: a message is packed when it goes off the node *)
send_helper_(p, q, m) ==
    IF "letter" \in DOMAIN m /\ node_of[p] # node_of[q]
    THEN pack_message(m) ELSE m

(* p sends out[q] to each q, through a network net about to change *)
Emit(net, p, out) ==
    [net EXCEPT ![p] =
        [q \in PE |->
            @[q] \o [i \in DOMAIN out[q] |-> send_helper_(p, q, out[q][i])]]]

Nothing == [q \in PE |-> <<>>]
OnlyTo(q, ms) == [Nothing EXCEPT ![q] = ms]

(* A broadcast of Converse to the PEs in ps *)
Tell(ps, m) ==
    [p \in PE |-> IF p \in ps THEN heard[p] \cup {m} ELSE heard[p]]
-----------------------------------------------------------------------------
(* Delivery of the messages ms of c, which has a branch on p after the     *)
(* step, one after the other.                                              *)

RootHere(p, c) == 0 \in chares'[p][c]

(* Mutant: the number is taken before it is advanced *)
numbered_late(p, c, ms) ==
    [i \in DOMAIN ms |->
        IF ms[i].type = "post" /\ RootHere(p, c)
        THEN Copy(ms[i], last_bcast[p][c]
                         + Cardinality({j \in 1 .. (i - 1) : ms[j].type = "post"}))
        ELSE ms[i]]

(* The root element numbers what is for the root of the group *)
numbered(p, c, ms) ==
    [i \in DOMAIN ms |->
        IF ms[i].type = "post" /\ RootHere(p, c)
        THEN Copy(ms[i], last_bcast[p][c]
                         + Cardinality({j \in 1 .. i : ms[j].type = "post"}))
        ELSE ms[i]]

(* Every copy before the i-th message is among the messages before it *)
InTurn(p, c, ms, i) ==
    ms[i].seq = last_bcast[p][c] + 1
                + Cardinality({j \in 1 .. (i - 1) : /\ ms[j].type = "copy"
                                                    /\ ms[j].seq < ms[i].seq})

Runs(p, c, ms, i) ==
    \/ ms[i].type = "entry" /\ Idx[ms[i].letter] \in chares'[p][c]
    \/ ms[i].type = "copy" /\ InTurn(p, c, ms, i)

CopyRuns(p, c, ms, i) == ms[i].type = "copy" /\ Runs(p, c, ms, i)

(* Messages for elsewhere: the root of a group is on PE 0, an element that *)
(* is not here is looked for on its home.                                  *)
Goes(p, c, ms, i, q) ==
    \/ ms[i].type = "post" /\ q = 0
    \/ /\ ms[i].type = "entry"
       /\ ~Runs(p, c, ms, i)
       /\ q = home_pe(Idx[ms[i].letter]) /\ q # p

Stays(p, c, ms, i) ==
    /\ ms[i].type \in {"entry", "copy"}
    /\ ~Runs(p, c, ms, i)
    /\ \A q \in PE : ~Goes(p, c, ms, i, q)

outgoing(p, c, ms) ==
    [q \in PE |->
        FlattenSeq([i \in DOMAIN ms |->
            IF CopyRuns(p, c, ms, i) /\ q \in span_tree_children(p)
            THEN <<pack_message(ms[i])>>
            ELSE IF Goes(p, c, ms, i, q) THEN <<ms[i]>> ELSE <<>>])]

(* What goes wrong: a clone of a message that cannot be copied, an entry   *)
(* that gets a packed message, and flush_buffers with copies set aside,    *)
(* which it does not survive (see Broadcast).                              *)
Fails(p, c, ms) ==
    \E i \in DOMAIN ms :
        /\ Runs(p, c, ms, i)
        /\ \/ unpack_message(ms[i]).packed
           \/ /\ ms[i].type = "copy"
              /\ \/ ~is_cloneable(pack_message(ms[i]))
                 \/ \E m \in buffers[p][c] : m.type = "copy"
                 \/ \E j \in 1 .. (i - 1) : /\ ms[j].type = "copy"
                                            /\ ~Runs(p, c, ms, j)

(* bad: the branch itself is refused *)
Process(p, c, ms, bad) ==
    LET run == {i \in DOMAIN ms : Runs(p, c, ms, i)}
        stay == {i \in DOMAIN ms : Stays(p, c, ms, i)}
        copies == {i \in run : ms[i].type = "copy"}
    IN /\ ran' = [ran EXCEPT ![p] = @ \cup {ms[i].letter : i \in run}]
       /\ buffers' = [buffers EXCEPT ![p][c] = @ \cup {ms[i] : i \in stay}]
       /\ last_bcast' = [last_bcast EXCEPT ![p][c] = @ + Cardinality(copies)]
       /\ fault' = IF bad \/ Fails(p, c, ms) THEN fault \cup {p} ELSE fault

-----------------------------------------------------------------------------
(* The completion detector *)

(* Mutant: messages that came before the detector stay where they are *)
early_forgotten(p) == <<>>

(* The messages that have waited for the detector, when it is made now *)
early(p) == collection_buffer[p][sys]

Contributors(p) == {p} \cup span_tree_children(p)

Whole(p, c, new) == combined[p][c] \cup new = Contributors(p)

(* p's reducer for c gets the contributions new *)
Combine(p, c, new) ==
    combined' = [combined EXCEPT ![p][c] =
                    IF Whole(p, c, new) THEN {} ELSE @ \cup new]

upward(p, c, new) ==
    IF Whole(p, c, new) /\ p # 0
    THEN OnlyTo(span_tree_parent(p), <<Redux(c, p)>>)
    ELSE Nothing

(* The sum is there: its callback goes to all PEs *)
ends(p, c, new) == IF Whole(p, c, new) /\ p = 0 THEN {Ready(c)} ELSE {}

Hear(p, m, new) ==
    heard' = [q \in PE |-> (heard[q] \ (IF q = p THEN {m} ELSE {})) \cup new]

-----------------------------------------------------------------------------
(* The program *)

Running(p) == p \notin stopped \cup fault

Constructed(c) == c.id < local_collection_count[c.pe]

(* construct, with next_index_ *)
Construct(p) ==
    /\ Running(p)
    /\ local_collection_count[p] < Len(Program[p])
    /\ local_collection_count' = [local_collection_count EXCEPT ![p] = @ + 1]
    /\ heard' = Tell(PE, Creation(Id(p, local_collection_count[p])))
    /\ UNCHANGED <<collection_buffer, branches, work, combined, queue, sent,
                   exits, stopped>>

(* send, by anyone who has a proxy: on the sending PE, the message waits   *)
(* for the branch or leaves for the PE it is looked for on.                *)
Send(p, l) ==
    LET c == To[l]
        next_pe == IF Idx[l] = bcast_root THEN p ELSE home_pe(Idx[l])
    IN /\ Running(p)
       /\ From[l] = p /\ l \notin sent
       /\ Constructed(c)
       /\ sent' = sent \cup {l}
       /\ \/ /\ c \notin collection_table[p]
             /\ collection_buffer' =
                    [collection_buffer EXCEPT ![p][c] = Append(@, MessageOf(l))]
             /\ UNCHANGED queue
          \/ /\ c \in collection_table[p]
             /\ queue' = Emit(queue, p, OnlyTo(next_pe, <<MessageOf(l)>>))
             /\ UNCHANGED collection_buffer
       /\ UNCHANGED <<local_collection_count, branches, work, combined, heard,
                      exits, stopped>>

(* done_inserting, for an array constructed empty *)
DoneInserting(c) ==
    /\ Running(c.pe)
    /\ ~Seeded(c) /\ Constructed(c)
    /\ c \notin sent
    /\ sent' = sent \cup {c}
    /\ heard' = Tell(PE, Status(c))
    /\ UNCHANGED <<local_collection_count, collection_buffer, branches, work,
                   combined, queue, exits, stopped>>

(* cmk::exit, or a callback to exit on one PE *)
CallExit(p) ==
    /\ Running(p)
    /\ ~exits
    /\ exits' = TRUE
    /\ \/ /\ heard' = Tell(PE, Exit(TRUE))
          /\ UNCHANGED queue
       \/ /\ \E q \in PE : queue' = Emit(queue, p, OnlyTo(q, <<Exit(FALSE)>>))
          /\ UNCHANGED heard
    /\ UNCHANGED <<local_collection_count, collection_buffer, branches, work,
                   combined, sent, stopped>>

-----------------------------------------------------------------------------
(* The handlers of messages broadcast by Converse *)

seeds ==
    [c \in User |->
        LET range == visited(Spec_of(c).opts)
        IN [i \in DOMAIN range |-> encode(range[i])]]

(* Mutant: every PE makes every element *)
Mine_all(p, c) == DOMAIN seeds[c]

(* The places in the walk of the elements p makes: those at home on p *)
Mine(p, c) == {i \in DOMAIN seeds[c] : home_pe(seeds[c][i]) = p}

Here(p, c) == {seeds[c][i] : i \in Mine(p, c)}

(* Two seeds of one index: the second is refused by an assertion *)
Collide(p, c) == Cardinality(Here(p, c)) # Cardinality(Mine(p, c))

(* A seeded array ends its insertion phase in its constructor, another one *)
(* when it is told to, which may have happened.                            *)
Contributes(p, c) ==
    /\ c \in Arrays
    /\ Seeded(c) \/ Status(c) \in ToSet(collection_buffer[p][c])

(* Mutants: the buffer is emptied from its end, or its front is lost *)
flush_reversed(p, c) == Reverse(collection_buffer[p][c])
flush_short(p, c) ==
    LET ms == collection_buffer[p][c]
    IN IF ms = <<>> THEN ms ELSE Tail(ms)

(* flush_collection_buffer_ into the new branch, at once: Process handles  *)
(* what is for chares, and a status message is what Contributes asks for   *)
flush(p, c) == collection_buffer[p][c]

(* The tables after p has made the branches in new *)
Make(p, c, new) ==
    /\ collection_table' = [collection_table EXCEPT ![p] = @ \cup new]
    /\ chares' = [chares EXCEPT ![p] =
          [d \in Col |-> IF d \notin new THEN @[d]
                         ELSE IF d = sys THEN {p} ELSE Here(p, d)]]
    /\ is_inserting' = [is_inserting EXCEPT ![p] = @ \cup (new \cap Arrays)]
    /\ collection_buffer' = [collection_buffer EXCEPT ![p] =
          [d \in Col |-> IF d \in new THEN <<>> ELSE @[d]]]

(* system_detector_ makes a branch unless there is one *)
NewDetector(p) == {sys} \ collection_table[p]
waited(p) == IF NewDetector(p) = {} THEN Nothing ELSE OnlyTo(p, early(p))

ReceiveCreation(p, c) ==
    LET counts == Contributes(p, c)
        new == {c} \cup (IF counts THEN NewDetector(p) ELSE {})
        own == IF counts THEN {p} ELSE {}
        ms == numbered(p, c, flush(p, c))
    IN /\ Running(p)
       /\ Creation(c) \in heard[p]
       /\ Make(p, c, new)
       /\ Process(p, c, ms, Collide(p, c) \/ c \in collection_table[p])
       /\ Combine(p, c, own)
       /\ queue' = Emit(queue, p,
             [q \in PE |-> (IF counts THEN waited(p)[q] ELSE <<>>)
                           \o upward(p, c, own)[q] \o outgoing(p, c, ms)[q]])
       /\ Hear(p, Creation(c), ends(p, c, own))
       /\ UNCHANGED <<local_collection_count, sent, exits, stopped>>

(* receive_status, or the message waits for the branch *)
ReceiveStatus(p, c) ==
    /\ Running(p)
    /\ Status(c) \in heard[p]
    /\ \/ /\ c \notin collection_table[p]
          /\ collection_buffer' =
                [collection_buffer EXCEPT ![p][c] = Append(@, Status(c))]
          /\ Hear(p, Status(c), {})
          /\ UNCHANGED <<branches, combined, queue>>
       \/ /\ c \in collection_table[p]
          /\ Make(p, c, NewDetector(p))
          /\ Combine(p, c, {p})
          /\ queue' = Emit(queue, p,
                [q \in PE |-> waited(p)[q] \o upward(p, c, {p})[q]])
          /\ Hear(p, Status(c), ends(p, c, {p}))
    /\ UNCHANGED <<local_collection_count, work, sent, exits, stopped>>

(* insertion_complete_, a callback: the array must be there and inserting *)
ReceiveReady(p, c) ==
    /\ Running(p)
    /\ Ready(c) \in heard[p]
    /\ fault' = IF c \in is_inserting[p] THEN fault ELSE fault \cup {p}
    /\ is_inserting' = [is_inserting EXCEPT ![p] = @ \ {c}]
    /\ Hear(p, Ready(c), {})
    /\ UNCHANGED <<local_collection_count, collection_buffer, collection_table,
                   chares, buffers, last_bcast, ran, combined, queue, sent,
                   exits, stopped>>

(* Mutant: the message is taken for one that all PEs get *)
circulates_never(p, is_broadcast) == {}

(* exit passes its message on if it is the only one that has got it *)
circulates(p, is_broadcast) == IF is_broadcast THEN {} ELSE PE \ {p}

exit(p, is_broadcast) ==
    /\ Running(p)
    /\ stopped' = stopped \cup {p}
    /\ heard' = [q \in PE |->
          (heard[q] \ (IF q = p THEN {Exit(TRUE)} ELSE {}))
          \cup (IF q \in circulates(p, is_broadcast) THEN {Exit(TRUE)} ELSE {})]
    /\ UNCHANGED <<local_collection_count, collection_buffer, branches, work,
                   combined, sent, exits>>

ReceiveBroadcastExit(p) ==
    /\ Exit(TRUE) \in heard[p]
    /\ exit(p, TRUE)
    /\ UNCHANGED queue

-----------------------------------------------------------------------------
(* The handlers of messages from q *)

NextOf(q, p, type) == queue[q][p] # <<>> /\ Head(queue[q][p]).type \in type

Taken(q, p) == [queue EXCEPT ![q][p] = Tail(@)]

ReceiveExit(q, p) ==
    /\ NextOf(q, p, {"exit"})
    /\ exit(p, Head(queue[q][p]).is_broadcast)
    /\ queue' = Taken(q, p)

(* deliver_to_endpoint_, when p has no branch of the collection *)
KeepEarly(q, p) ==
    LET m == Head(queue[q][p])
    IN /\ Running(p)
       /\ NextOf(q, p, {"entry", "post", "copy", "redux"})
       /\ m.col \notin collection_table[p]
       /\ collection_buffer' =
             [collection_buffer EXCEPT ![p][m.col] = Append(@, m)]
       /\ queue' = Taken(q, p)
       /\ UNCHANGED <<local_collection_count, branches, work, combined, heard,
                      sent, exits, stopped>>

ReceiveLetter(q, p) ==
    LET m == Head(queue[q][p])
        ms == numbered(p, m.col, <<m>>)
    IN /\ Running(p)
       /\ NextOf(q, p, {"entry", "post", "copy"})
       /\ m.col \in collection_table[p]
       /\ UNCHANGED branches
       /\ Process(p, m.col, ms, FALSE)
       /\ queue' = Emit(Taken(q, p), p, outgoing(p, m.col, ms))
       /\ UNCHANGED <<local_collection_count, collection_buffer, combined,
                      heard, sent, exits, stopped>>

ReceiveRedux(q, p) ==
    LET m == Head(queue[q][p])
    IN /\ Running(p)
       /\ NextOf(q, p, {"redux"})
       /\ sys \in collection_table[p]
       /\ Combine(p, m.target, {m.from})
       /\ queue' = Emit(Taken(q, p), p, upward(p, m.target, {m.from}))
       /\ heard' = [r \in PE |-> heard[r] \cup ends(p, m.target, {m.from})]
       /\ UNCHANGED <<local_collection_count, collection_buffer, branches, work,
                      sent, exits, stopped>>

-----------------------------------------------------------------------------

(* What the program does by itself on p *)
Work(p) ==
    \/ Construct(p)
    \/ \E l \in Letter : Send(p, l)
    \/ \E c \in Arrays : c.pe = p /\ DoneInserting(c)

(* The scheduler of p takes a message *)
Turn(p) ==
    \/ \E c \in User : ReceiveCreation(p, c)
    \/ \E c \in Arrays : ReceiveStatus(p, c) \/ ReceiveReady(p, c)
    \/ ReceiveBroadcastExit(p)
    \/ \E q \in PE : \/ ReceiveExit(q, p)
                     \/ KeepEarly(q, p)
                     \/ ReceiveLetter(q, p)
                     \/ ReceiveRedux(q, p)

Next == \E p \in PE : Work(p) \/ Turn(p) \/ CallExit(p)

Spec == Init /\ [][Next]_vars

(* The schedulers take messages as long as there are any, and the program  *)
(* goes on; nobody has to call exit.  Every step but a call of exit uses   *)
(* up something of which there is an end, so that it is enough that one of *)
(* the PEs takes a step when one can.                                      *)
Fairness == WF_vars(\E p \in PE : Work(p) \/ Turn(p))

FairSpec == Spec /\ Fairness

-----------------------------------------------------------------------------
(* Properties *)

Planned ==
    [c \in User |-> IF Seeded(c)
                    THEN {encode(t) : t \in Grid(Spec_of(c).opts)} ELSE {}]

(* The walk over the options puts each index of the grid on its home PE,   *)
(* and nothing else: the constructor of a collection, run on every PE by   *)
(* itself, creates every element once (collection.hpp:45).                 *)
SeedsPlaced ==
    \A p \in PE : \A c \in User \cap collection_table[p] :
        chares[p][c] = {i \in Planned[c] : home_pe(i) = p}

Count(s, l) ==
    Cardinality({i \in DOMAIN s : /\ s[i].type \in {"entry", "post", "copy"}
                                  /\ s[i].letter = l})

(* Messages with letter l on p, or on their way to p, and the run they end *)
incoming(p, l) == [q \in PE |-> Count(queue[q][p], l)]

At(p, l) ==
    SumFunction(incoming(p, l))
    + Count(collection_buffer[p][To[l]], l)
    + Cardinality({m \in buffers[p][To[l]] : m.letter = l})
    + IF l \in ran[p] THEN 1 ELSE 0

Total(l) == SumFunction([p \in PE |-> At(p, l)])

(* The root has not run l: the one message is on its way there *)
OnWay(l) == l \notin ran[0] /\ Total(l) = 1

(* The root has: every PE has the copy its parent passed on, and no other *)
Passed(l) ==
    /\ l \in ran[0] /\ At(0, l) = 1
    /\ \A p \in PE \ {0} :
          At(p, l) = IF l \in ran[span_tree_parent(p)] THEN 1 ELSE 0

(* However early a message comes, and whatever it has to wait for on its   *)
(* way, it is neither lost nor handled twice: a message for an element is  *)
(* in one place until it has been run, and a broadcast has one message for *)
(* each branch below one that has run it (core.cpp:127, 27).               *)
MessageConserved ==
    \A l \in sent \cap Letter :
        IF Idx[l] = bcast_root THEN OnWay(l) \/ Passed(l) ELSE Total(l) = 1

(* No assertion fails: no collection or element is created twice, no PE    *)
(* that is told the end of an insertion phase lacks the array, a clone can *)
(* be copied, no entry method gets a packed message, and waiting for a     *)
(* creation message does not put broadcasts out of order (core.cpp:148,    *)
(* collection_bridge.hpp:436, impl/message.hpp:152).                       *)
NoFault == fault = {}

AllReady ==
    /\ \A p \in PE : is_inserting[p] = {} /\ User \subseteq collection_table[p]
    /\ \A l \in Letter :
          IF Idx[l] = bcast_root THEN \A p \in PE : l \in ran[p]
          ELSE l \in ran[home_pe(Idx[l])]

(* Unless the program exits, every collection gets a branch on every PE,   *)
(* every insertion phase ends on every PE, although contributions reach    *)
(* PEs that have no detector yet, and every message is run (core.cpp:63).  *)
EverythingReady == <>(exits \/ AllReady)

(* A call of exit stops every PE, in whichever way it is made: by          *)
(* broadcast, or as a callback on one PE (core.cpp:118).                   *)
ExitStopsAll == exits ~> (stopped = PE)
=============================================================================
