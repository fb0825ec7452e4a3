----------------------------- MODULE Detection -----------------------------
(***************************************************************************)
(* Completion detection for several collections at once, again and again   *)
(* (include/charmlite/core/completion.hpp), with the use examples/cdt      *)
(* makes of it.  In a round, every PE announces an event for each PE and   *)
(* broadcasts a message that consumes one on each; the first to be         *)
(* consumed on PE 0 starts the detection, and the main thread sleeps until *)
(* its callback.  Each collection has a thread of its own here.            *)
(*                                                                         *)
(* Completion describes a wave of one detection by its sum.  Here the      *)
(* contributions of all collections go up the tree of detectors, in the    *)
(* reducers their tags select.                                             *)
(*                                                                         *)
(* The groups exist on every PE: how they get there is Startup's subject,  *)
(* and the example constructs the detectors first.  Messages between two   *)
(* PEs are handled in the order they were sent, so that copies of a        *)
(* broadcast arrive in turn, and their numbers, Broadcast's subject, are   *)
(* left out.                                                               *)
(***************************************************************************)
EXTENDS SpanTree, SequencesExt

CONSTANTS
    Col,     \* the collections, records with fields pe and id
    Rounds   \* how many rounds the thread of each collection goes through

ASSUME DetectionAssumption ==
    /\ Col \subseteq [pe : Nat, id : Nat]
    /\ Rounds \in [Col -> Nat]

VARIABLES
    lcount,    \* [p][c]: status.lcount, 0 before there is a status
    watched,   \* [p]: the collections whose status on p has a msg
    received,  \* [p][tag]: the contributions in a reducer of p's detector
    started,   \* detection_started_ of the root of each group
    round,     \* [c]: rounds begun by the thread of c
    asleep,    \* the collections whose thread is suspended
    queue,     \* [p][q]: messages from p to q, in order
    fault      \* PEs where an assertion failed

vars == <<lcount, watched, received, started, round, asleep, queue, fault>>

Count(c, gcount) == [target |-> c, gcount |-> gcount]

(* A message to the root of a group, and the copies it is broadcast in *)
Post(entry, c) == [kind |-> "post", entry |-> entry, count |-> Count(c, 0)]
Posted(n) == [kind |-> "post", entry |-> "receive_count_", count |-> n]
Copy(m) == [m EXCEPT !.kind = "copy"]
Redux(tag, n) == [kind |-> "redux", tag |-> tag, count |-> n]
Resume(c) == [kind |-> "resume", count |-> Count(c, 0)]

(* Mutant: only the PE that constructed a collection makes its tag *)
compress_pe(c) == ((9 * 15 + c.pe) * 15) % 65536

(* The tag of a collection's reductions, 16 bits wide *)
compress(c) == ((9 * 15 + c.pe) * 15 + c.id) % 65536

Tags == {compress(c) : c \in Col}

CountMessage == [target : Col, gcount : Int]
GroupMessage ==
    [kind : {"post", "copy"},
     entry : {"produce", "consume", "start_detection", "receive_count_"},
     count : CountMessage]

TypeOK ==
    /\ lcount \in [PE -> [Col -> Int]]
    /\ watched \in [PE -> SUBSET Col]
    /\ \A p \in PE : \A tag \in Tags :
          /\ received[p][tag] \in Seq(CountMessage)
          /\ Len(received[p][tag]) <= Cardinality(span_tree_children(p))
    /\ started \subseteq Col
    /\ round \in [Col -> Nat] /\ \A c \in Col : round[c] <= Rounds[c]
    /\ asleep \subseteq Col
    /\ \A p, q \in PE :
          queue[p][q] \in Seq(
              GroupMessage
              \cup [kind : {"redux"}, tag : Tags, count : CountMessage]
              \cup {Resume(c) : c \in Col})
    /\ fault \subseteq PE

Init ==
    /\ lcount = [p \in PE |-> [c \in Col |-> 0]]
    /\ watched = [p \in PE |-> {}]
    /\ received = [p \in PE |-> [tag \in Tags |-> <<>>]]
    /\ started = {}
    /\ round = [c \in Col |-> 0]
    /\ asleep = {}
    /\ queue = [p \in PE |-> [q \in PE |-> <<>>]]
    /\ fault = {}

-----------------------------------------------------------------------------
(* Messages *)

Nothing == [q \in PE |-> <<>>]
OnlyTo(q, m) == [Nothing EXCEPT ![q] = <<m>>]

Emit(net, p, out) == [net EXCEPT ![p] = [q \in PE |-> @[q] \o out[q]]]

(* p runs a broadcast m: first it sends copies on, then what its entry sends *)
Run(net, p, m, out) ==
    queue' = Emit(net, p,
        [q \in PE |->
            (IF q \in span_tree_children(p) THEN <<Copy(m)>> ELSE <<>>)
            \o out[q]])

-----------------------------------------------------------------------------
(* The detectors *)

(* Mutant: a reducer waits for one contribution more *)
expected_more(p) == 2 + Cardinality(span_tree_children(p))

(* The contributions a reducer waits for: p's own and its children's *)
expected(p) == 1 + Cardinality(span_tree_children(p))

With(p, tag, n) == Append(received[p][tag], n)
Full(p, tag, n) == Len(With(p, tag, n)) = expected(p)

Sum(p, tag, n) ==
    Count(With(p, tag, n)[1].target,
          FoldSeq(LAMBDA m, sum : m.gcount + sum, 0, With(p, tag, n)))

(* "count::operator+=" refuses counts of different targets *)
Mixed(p, tag, n) ==
    /\ Full(p, tag, n)
    /\ \E m \in ToSet(received[p][tag]) : m.target # n.target

(* p's reducer for tag gets n *)
Reduce(p, tag, n) ==
    received' = [received EXCEPT ![p][tag] =
                    IF Full(p, tag, n) THEN <<>> ELSE With(p, tag, n)]

(* The sum of a full reducer goes up, or is broadcast from the root *)
upward(p, tag, n) ==
    IF ~Full(p, tag, n) THEN Nothing
    ELSE IF p = 0 THEN OnlyTo(0, Posted(Sum(p, tag, n)))
    ELSE OnlyTo(span_tree_parent(p), Redux(tag, Sum(p, tag, n)))

Refuse(p, bad) == fault' = IF bad THEN fault \cup {p} ELSE fault

(* start_detection on p when the status of c is not complete *)
Contribute(net, p, m, orphan) ==
    LET c == m.count.target
        tag == compress(c)
        n == Count(c, lcount[p][c])
    IN /\ Reduce(p, tag, n)
       /\ Refuse(p, orphan \/ Mixed(p, tag, n))
       /\ Run(net, p, m, upward(p, tag, n))

StartDetection(net, p, m) ==
    /\ m.entry = "start_detection"
    /\ watched' = [watched EXCEPT ![p] = @ \cup {m.count.target}]
    /\ Contribute(net, p, m, FALSE)
    /\ UNCHANGED <<lcount, started>>

complete(n) == n.gcount = 0

(* "received orphan count!" *)
Orphan(p, c) == c \notin watched[p]

(* The sum is zero: the root calls back, and every PE resets its status *)
Complete(net, p, m) ==
    LET c == m.count.target IN
    /\ m.entry = "receive_count_"
    /\ complete(m.count)
    /\ lcount' = [lcount EXCEPT ![p][c] = 0]
    /\ watched' = [watched EXCEPT ![p] = @ \ {c}]
    /\ Refuse(p, Orphan(p, c))
    /\ Run(net, p, m, IF p = 0 THEN OnlyTo(0, Resume(c)) ELSE Nothing)
    /\ UNCHANGED <<received, started>>

(* Mutant: a wave is not followed by another one *)
Again_never(net, p, m) ==
    /\ m.entry = "receive_count_"
    /\ ~complete(m.count)
    /\ Run(net, p, m, Nothing)
    /\ UNCHANGED <<lcount, watched, received, started, fault>>

Again(net, p, m) ==
    /\ m.entry = "receive_count_"
    /\ ~complete(m.count)
    /\ Contribute(net, p, m, Orphan(p, m.count.target))
    /\ UNCHANGED <<lcount, watched, started>>

-----------------------------------------------------------------------------
(* The elements of the groups *)

(* Mutant: one event is announced, which is the default of produce() *)
Produce_default(net, p, m) ==
    LET c == m.count.target IN
    /\ m.entry = "produce"
    /\ lcount' = [lcount EXCEPT ![p][c] = @ + 1]
    /\ started' = IF p = 0 THEN started \ {c} ELSE started
    /\ Run(net, p, m, OnlyTo(p, Post("consume", c)))
    /\ UNCHANGED <<watched, received, fault>>

(* The event of each message is announced, then the messages are sent *)
Produce(net, p, m) ==
    LET c == m.count.target IN
    /\ m.entry = "produce"
    /\ lcount' = [lcount EXCEPT ![p][c] = @ + NumPes]
    /\ started' = IF p = 0 THEN started \ {c} ELSE started
    /\ Run(net, p, m, OnlyTo(p, Post("consume", c)))
    /\ UNCHANGED <<watched, received, fault>>

(* The first one on PE 0 starts the detection *)
Consume(net, p, m) ==
    LET c == m.count.target
        starts == p = 0 /\ c \notin started
    IN /\ m.entry = "consume"
       /\ lcount' = [lcount EXCEPT ![p][c] = @ - 1]
       /\ started' = IF starts THEN started \cup {c} ELSE started
       /\ Run(net, p, m, IF starts THEN OnlyTo(p, Post("start_detection", c))
                         ELSE Nothing)
       /\ UNCHANGED <<watched, received, fault>>

-----------------------------------------------------------------------------
(* The thread of c begins a round and suspends itself *)
Begin(c) ==
    /\ 0 \notin fault
    /\ c \notin asleep /\ round[c] < Rounds[c]
    /\ round' = [round EXCEPT ![c] = @ + 1]
    /\ asleep' = asleep \cup {c}
    /\ queue' = Emit(queue, 0, OnlyTo(0, Post("produce", c)))
    /\ UNCHANGED <<lcount, watched, received, started, fault>>

Taken(q, p) == [queue EXCEPT ![q][p] = Tail(@)]

ReceiveGroup(q, p, m) ==
    \/ /\ m.kind = "copy" \/ p = 0
       /\ \/ Produce(Taken(q, p), p, m)
          \/ Consume(Taken(q, p), p, m)
          \/ StartDetection(Taken(q, p), p, m)
          \/ Again(Taken(q, p), p, m)
          \/ Complete(Taken(q, p), p, m)
    \/ /\ m.kind = "post" /\ p # 0
       /\ queue' = Emit(Taken(q, p), p, OnlyTo(0, m))
       /\ UNCHANGED <<lcount, watched, received, started, fault>>

(* A contribution of a child's *)
ReceiveRedux(q, p, m) ==
    /\ m.kind = "redux"
    /\ Reduce(p, m.tag, m.count)
    /\ Refuse(p, Mixed(p, m.tag, m.count))
    /\ queue' = Emit(Taken(q, p), p, upward(p, m.tag, m.count))
    /\ UNCHANGED <<lcount, watched, started>>

(* resume_main_ *)
ReceiveResume(q, p, m) ==
    /\ m.kind = "resume"
    /\ asleep' = asleep \ {m.count.target}
    /\ queue' = Taken(q, p)
    /\ UNCHANGED <<lcount, watched, received, started, round, fault>>

Receive(q, p) ==
    /\ p \notin fault
    /\ queue[q][p] # <<>>
    /\ LET m == Head(queue[q][p]) IN
          \/ /\ m.kind \in {"post", "copy"}
             /\ ReceiveGroup(q, p, m)
             /\ UNCHANGED <<round, asleep>>
          \/ /\ ReceiveRedux(q, p, m)
             /\ UNCHANGED <<round, asleep>>
          \/ ReceiveResume(q, p, m)

Next ==
    \/ \E c \in Col : Begin(c)
    \/ \E q, p \in PE : Receive(q, p)

Spec == Init /\ [][Next]_vars

(* The schedulers take messages from wherever they come; threads run on. *)
Fairness ==
    /\ \A c \in Col : WF_vars(Begin(c))
    /\ \A q, p \in PE : WF_vars(Receive(q, p))

FairSpec == Spec /\ Fairness

-----------------------------------------------------------------------------
(* Properties *)

Is(m, entry) == m.kind \in {"post", "copy"} /\ m.entry \in entry

InFlight(c) ==
    UNION {{m \in ToSet(queue[q][p]) : m.count.target = c} : q, p \in PE}

(* The sum of a wave of c: zero, before the broadcast of it or after *)
Finished(m) == Is(m, {"receive_count_"}) /\ m.count.gcount = 0

Decided(c) ==
    \/ c \notin asleep
    \/ \E m \in InFlight(c) :
          m.kind = "resume" \/ (m.kind = "post" /\ Finished(m))

(* When a detection completes, and until the thread begins the next round, *)
(* every event has been consumed, on every PE: counts that the PEs read at *)
(* different times did not cancel, and no other collection's count was     *)
(* added to them (completion.hpp:130).  A PE that learns of it later, when *)
(* the next round may have begun, has no event to lose when it resets its  *)
(* status (completion.hpp:94).                                             *)
DetectionSound ==
    /\ \A c \in Col : Decided(c) =>
          /\ \A p \in PE : lcount[p][c] = 0
          /\ \A m \in InFlight(c) :
                ~Is(m, {"produce", "consume", "start_detection"})
    /\ \A p, q \in PE : \A m \in ToSet(queue[q][p]) :
          m.kind = "copy" /\ Finished(m) => lcount[p][m.count.target] = 0

(* No count reaches a PE that has not been asked to detect, and no reducer *)
(* combines counts of different collections (completion.hpp:133, 49).      *)
NoFault == fault = {}

(* Each round ends: the waves of a detection go on until it completes,     *)
(* whatever the other collections do, and the thread is resumed as often   *)
(* as it suspends itself (completion.hpp:94).                              *)
RoundsComplete == \A c \in Col : <>(round[c] = Rounds[c] /\ c \notin asleep)
=============================================================================
