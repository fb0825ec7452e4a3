# Verification of charmlite

charmlite is a small message-driven runtime in the style of Charm++: programs
are made of *chares*, objects that live on the PEs (scheduler threads) of a
machine, are addressed by index through a *collection*, and run *entry methods*
when messages reach them. This directory models the protocols by which the
runtime finds, moves, counts and connects those objects.

Paths below are relative to `src/`; `core/` stands for
`include/charmlite/core/`.

## The system and its parts

| part | source | state | operations |
|---|---|---|---|
| location manager | `core/locmgr.hpp` | per PE: `locmap_` (home PE), `routing_cache_` (others) | `home_pe`, `lookup`, `update_location` |
| delivery | `core/collection.hpp` | per PE: `chares_`, `buffers_` | `deliver_later`, `deliver_now`, `try_deliver`, `flush_buffers` |
| migration | `core/collection_bridge.hpp` | the above | `emigrate`, `receive_chare`, `receive_location_update`, `on_chare_arrival` |
| insertion phase and tree builder | `core/collection_bridge.hpp`, `utilities/math.hpp` | per PE: `endpoint_`, `is_inserting_`; per chare: `association_` | `associate`, `register_*`, `receive_*`, `send_upstream`, `insertion_complete_` |
| completion detector | `core/completion.hpp` | per PE and collection: `lcount`, `complete`, `msg`, `tag` | `produce`, `consume`, `start_detection`, `receive_count_` |
| broadcast | `core/collection.hpp`, `core/chare.hpp` | per chare: `last_bcast_`; per PE: `buffers_`, `collective_buffer_` | `handle_broadcast_message_`, `flush_buffers`, `on_insertion_complete` |
| reduction | `core/collection.hpp`, `core/chare.hpp` | per chare: `last_redn_`, `reducers_`; per PE: `collective_buffer_` | `contribute`, `get_reducer_`, `handle_reduction_message_` |
| collection table and creation | `src/core.cpp`, `core/impl/proxy.hpp` | per PE: `collection_table_`, `collection_buffer_`, `local_collection_count_` | `construct`, `flush_collection_buffer_`, `system_detector_`, `exit` |
| indices and options | `core/indexing.hpp`, `core/options.hpp` | none | `encode`, `index_range`, `next`, `has_next` |
| messages, destinations, callbacks | `core/message.hpp`, `core/impl/message.hpp`, `core/callback.hpp` | flags of a message | `pack_message`, `unpack_message`, `clone`, `send_helper_` |
| proxies | `core/proxy.hpp`, `core/impl/proxy.hpp` | none | the operations a program calls, each in the module of the part it starts |
| node groups, registration, serialization, traits | `core/locmgr.hpp`, `core/ep.hpp`, `serialization/`, ... | tables filled before `main` | not modelled, see the end |

All communication between PEs is by Converse messages. A PE handles one message
at a time and a handler runs to completion, so the unit of interleaving is the
handler. Converse delivers each message exactly once and promises no order.
There is no failure handling in this code: nothing is persisted, no message is
retried, no PE restarts; crashes and losses are therefore not modelled.

What makes the parts correct, and what is hard about it:

- *Delivery.* A message is handled once, by its element, wherever that is. Hard:
  an element, the update about its new location and messages for it travel
  independently, and tables on three kinds of PE (home, old, sender) are stale
  for a while.
- *Insertion.* The elements end up in one spanning tree. Hard: requests for a
  parent climb the PEs while elements are still being created and while the
  root of the tree is still being announced.
- *Detection.* The phase ends when nothing counted is outstanding, and it does
  end. Hard: counters are read on different PEs at different times.
- *Broadcast.* Every chare runs the broadcasts in the same order. Hard: a
  broadcast re-enters the buffer it is being flushed from.
- *Reduction.* A result combines one contribution of each chare, all to the same
  reduction. Hard: contributions climb to chares that migrate, in any order, and
  only numbers tell reductions apart.
- *Creation and the end.* A message may come before its collection, a
  contribution before its detector, a walk over indices is made on every PE by
  itself, and `exit` must stop all PEs whichever way it is called. Hard: nothing
  orders the creation message and the first messages for a collection.
- *Detection again.* The next detection starts from clean counters. Hard: they
  are reset on each PE when it learns of the end, and collections share the
  reducers of one detector.

## Modules

| module | role |
|---|---|
| `Converse` | the machine: `NumPes`, `PE` |
| `Locmgr` | the location tables of all PEs |
| `Delivery` | delivery and migration of one chare array, with its properties |
| `Mailbox` | what delivery promises, without tables, buffers or packets |
| `Hurry` | `Delivery` with a history of its moves |
| `DeliveryProofs` | theorems about `Delivery` and `Hurry` |
| `SpanTree` | the tree Converse spans over the PEs |
| `Completion` | the detector's state and its part of each handler, for one collection |
| `Insertion` | insertion phase: tree builder composed with `Locmgr` and `Completion` |
| `InsertionProofs` | theorems about `Insertion`: types, the endpoint, counters, parents and children, no cycle when elements are created at home, one tree when detection is sound, and when it is |
| `Broadcast` | broadcasts down a built spanning tree, with migration |
| `TotalOrder` | what broadcasting promises, without tree, numbers or packets |
| `Facts` | lemmas about sequences, sums and division, for all the proofs |
| `BroadcastProofs` | theorems about `Broadcast`: types, and agreement on an order |
| `OrderProofs` | theorems about `Broadcast`: it implements `TotalOrder`, and no copy is lost or repeated |
| `Reduction` | reductions up a built spanning tree, with migration |
| `Gather` | what a reduction promises, without tree, numbers or packets |
| `ReductionProofs` | theorems about `Reduction`: types, no contribution is lost or repeated, it implements `Gather` |
| `Indexing` | indices, options and the walk over them, as functions |
| `Startup` | creation of collections, early messages, the lazily made detector, `exit` |
| `StartupProofs` | theorems about `Startup`: seeds are where they belong, no message is lost or repeated |
| `Detection` | several collections that use the detectors again and again |
| `DetectionProofs` | theorems about `Detection`: tags, types, each detection is sound, no assertion fails |
| `MCDelivery`, `MCInsertion`, `MCBroadcast`, `MCReduction`, `MCStartup`, `MCDetection` | instances for TLC |

`Delivery`, `Insertion`, `Broadcast` and `Reduction` each extend `Locmgr`, which
extends `Converse`; `Insertion` also extends `Completion`. The four share the
location tables and differ in what else of a collection they keep. `Completion`,
`Startup` and `Detection` extend `SpanTree`. `Startup` also extends `Indexing`.

### Locmgr and Delivery

`locmap[p]` and `routing_cache[p]` are the two tables of PE `p`; `NoPe` stands
for a missing key. `lookup` and `update_location` are the functions of the same
names. `chares[p]` and `buffers[p][e]` are `chares_` and `buffers_`.

| action | code |
|---|---|
| `Insert` | `element_proxy::insert` (with and without a PE) and `deliver_later` |
| `Post` | `element_proxy::send`, or a callback, and `deliver_later` |
| `Emigrate` | `emigrate`, flush of the element's buffer included |
| `ReceiveCtor` | `try_deliver` of a constructor message, `on_chare_arrival` included |
| `ReceiveEntry` | `deliver_now` of an entry message |
| `ReceiveLocation` | `receive_location_update` |
| `ReceiveChare` | `receive_chare` |

`TryDeliver` has one disjunct per way out of `try_deliver`: `Invoke` (with the
routing update to the sender), `Hold` and `Forward`. All messages in the buffer
of one element meet the same tables, so a flush hands the whole buffer to
`TryDeliver` at once; a buffer is a set because nothing in this code depends on
the order of point-to-point messages. Entry methods are user code: what they do
to the runtime is again `Post`, `Insert` and `Emigrate`, taken as separate
steps. An entry method that migrates its own chare *inside* a flush re-enters
the same deque and is not covered.

A message may be sent before the collection exists on the sending PE; it then
waits in `collection_buffer_` and is delivered locally. `FirstStop` allows that
as long as nothing on the PE shows that the collection exists (`Untouched`).

A location packet has a `cause`, which the code does not send: two updates of
equal content are two packets. `target`, `invoked`, `inserted` and `hop` are
history; only `hop` (bounded by `MaxHops`) and `inserted` restrict what happens:
the number of migrations is bounded, and an index is inserted once.

`Hurry` adds a history variable `rushed`: an element has moved while a location
update about it was in flight. `NoDeadEndUnrushed` and
`InvokedUnlessRushed` say that nothing else can leave a message stuck.

`Mailbox` has one variable `place` (where each element is, or nowhere) and the
history. Its actions are a send, an arrival, a departure and a run of pending
messages by a resident element. `Delivery!ImplementsMailbox` maps `place` to the
PE whose `chares` has the element.

### Completion and Insertion

`lcount[p]` is `status.lcount` of the collection on `p`; `cut[p]` is what `p`
contributed to the current wave; `counts` are the results of waves on their way
down the Converse spanning tree. The reduction that adds up a wave is one step
(`SendResult`): its messages carry sums of values that are already fixed, and no
PE joins the next wave before it has received the result of this one, so the
intermediate messages cannot be confused.

`parent`, `children` and `valid` are the fields of an element's `association_`;
`endpoint[p]` and `is_inserting[p]` are the members of the collection on `p`.

| action | code |
|---|---|
| `Insert`, `DoneInserting` | the proxy operations of these names |
| `SeedNext`, `FinishConstruct` | the constructor of a collection with options |
| `ReceiveCtor` | `try_deliver` of a constructor, `on_chare_arrival`, `associate` |
| `ReceiveDownstream`, `ReceiveUpstream`, `ReceiveEndpoint` | `receive_downstream`, `receive_upstream`, `receive_endpoint` with the `register_*` and `send_upstream` they call |
| `ReceiveStatus` | `receive_status`, `set_insertion_status`, `start_detection` |
| `ReceiveResult`, `ReceiveCount` | end of a wave; `receive_count_`, and on PE 0 the callback |
| `ReceiveComplete` | `insertion_complete_` |
| `ReceiveLocation` | `receive_location_update` |

The constructor of a collection with options is one handler, but its packets
leave while it runs, so it is one step per element; its PE handles nothing else
meanwhile (`Handles` requires the PE to be in `constructed`). Which of several
elements with the fewest children, or without a parent, is taken depends on the
order of a hash table and is nondeterministic. A handler that would fail an
assertion or call `CmiAbort` is disabled; `AssertionsHold` says that no packet
in flight meets such a handler. Elements do not migrate in this module, and
broadcasts waiting for the end of the phase are not part of it.

### Broadcast

The spanning tree is taken as built (`root`, `children`), which is what
`Insertion` establishes. The elements exist and are where `created` says; the
location update each sends on arrival is not counted by the detector, so it may
still be under way, and a PE in `is_inserting` has not been told yet that the
phase is over. `last_bcast[e]` is `last_bcast_` of the chare, `buffers` and
`collective_buffer` are the deques of these names.

| action | code |
|---|---|
| `Broadcast` | `collection_proxy::broadcast` and `deliver_later` |
| `ReceivePost` | `deliver_now` of a message to `chare_bcast_root_` |
| `InsertionComplete` | `insertion_complete_`, `on_insertion_complete` |
| `ReceiveCopy` | `deliver_now`, `try_deliver`, `handle_broadcast_message_` |
| `Emigrate`, `ReceiveLocation`, `ReceiveChare` | as in `Delivery`, with the flush of broadcast copies |

`handle_broadcast_message_` and `flush_buffers` call each other on the same
deque. `FlushHere` says what comes of that for an element that is present:
nothing (`FlushClear`), the nested flush dereferences the moved-from pointer at
the front (`FlushCrash`), or a message out of turn is put back at the end and
counted as delivered for ever (`FlushLoop`). `fault[p]` records the last two: a
PE with a fault handles nothing more. `loop` also stands for
`on_insertion_complete` emptying a buffer that `deliver_now` fills again.

A queue is one pair of PEs and one element; `Ordered` says whether packets of a
queue keep their order. This is less than a channel that keeps order, which
relates different elements too, so what holds in order holds there as well.
Entry methods that broadcast or migrate another chare do so as separate steps;
one that migrates its own chare inside a broadcast (as `examples/basic` does)
leaves `handle_broadcast_message_` with a dangling `idx` and is not covered.

`TotalOrder` has the broadcasts made and what each element has run. The root
appends, every other element catches up with a prefix of the root's sequence.

### Reduction

The tree is taken as built (`root`, `parent`), the elements where `created`
says, as in `Broadcast`. `received[e][k]` are the messages in the reducer of
chare `e` for number `k`; a reducer expects one message from each child and one
from the chare itself. A message carries the set of contributions it combines,
which stands for what the combiner computes: a repeated or missing contribution
shows. `number` is what `contribute` stamps: the tag, or `last_redn_ + 1`, where
`last_redn_` is a constant because no code assigns it.

| action | code |
|---|---|
| `Contribute` | `element_proxy::contribute`, `collection::contribute` |
| `ReceiveRedux` | `deliver_now`, `try_deliver`, `handle_reduction_message_` |
| `InsertionComplete` | `insertion_complete_`, `on_insertion_complete` |
| `Emigrate`, `ReceiveLocation`, `ReceiveChare` | as in `Delivery`, with the flush of contributions; `Emigrate` is refused by `chare_can_migrate_` while a reducer is open |

`Reduce` says what becomes of all the messages a flush hands over, at once:
within one flush the messages of one chare are taken in order, and what is
complete is combined and sent. A PE in its insertion phase puts contributions
into `collective_buffer_` (`SetAside`). A result is a member of `results`, where
a callback would get it.

`Gather` has the contributions made and the results. A contribution may be
followed by its own result at once, because a collection of one chare combines
in the handler that contributes.

### Indexing and Startup

`Indexing` has no state. `visited(o)` is the walk of `index_range` over options
`o`, built from `next`, with its carry and its wrap-around as in the code;
`Grid(o)` is what the options describe. `encode` copies the components into one
number, so that `home_pe` of a tuple depends on its last component only if `Word`
is a multiple of `NumPes`, as 2^32 often is.

`Startup` has, per PE, the collections that have a branch (`collection_table`),
the messages that wait for one (`collection_buffer`), the elements, and what the
branches have put aside. `chares[p][c]` holds the indices of `c` on `p`.

| action | code |
|---|---|
| `Construct` | `construct`, `next_index_`, the broadcast of the creation message |
| `Send` | `send` and `broadcast` of proxies, `deliver` into the table or the buffer |
| `DoneInserting` | `done_inserting` of an array constructed empty |
| `ReceiveCreation` | the constructor with its seeds, `flush_collection_buffer_`, and, for a seeded array, the start of detection |
| `ReceiveStatus`, `ReceiveReady` | `receive_status`, `insertion_complete_` |
| `KeepEarly` | `deliver_to_endpoint_` without a branch |
| `ReceiveLetter` | `deliver_to_endpoint_` with one, `deliver_now`, broadcast of copies |
| `ReceiveRedux` | a contribution to the end of a phase, in the detectors' reduction |
| `CallExit`, `ReceiveExit`, `ReceiveBroadcastExit` | `exit`, and its handler |

The group of detectors has no creation message: `NewDetector` and `waited` are
`system_detector_`, which makes the branch when it is first needed and flushes
what has waited for it. A flush runs its messages one after the other in the
handler that makes the branch; `numbered`, `InTurn` and `Runs` say what each
finds. An insertion phase is one wave without counts here: each branch
contributes when it is told, and the sum ends the phase. `packed` is the flag of
a message; messages in `Marshalled` are packed when they leave the node, and are
unpacked before an entry method gets them.

Converse's own broadcasts (`heard`) come to the PEs in any order and at any time;
messages from one PE to another (`queue`) stay in order. This is what the machine
layers of Converse do, and less order than that makes broadcasts fail by
themselves, which is `Broadcast`'s subject.

### Detection

Each collection of `Col` is a group used as `examples/cdt` uses its own: a round
announces `NumPes` events on each PE (`Produce`), sends each PE a broadcast per
event that consumes it (`Consume`), the first `Consume` on PE 0 starts the
detection, and the thread of the collection sleeps until the callback
(`Begin`, `ReceiveResume`). `lcount`, `watched` and `received` are `statii` and
the reducers of the detectors; `compress` is the 16-bit tag.

| action | code |
|---|---|
| `StartDetection`, `Again`, `Complete` | `start_detection`, and `receive_count_` when the sum is not zero, and when it is |
| `Produce`, `Consume`, `Begin`, `ReceiveResume` | `test::produce`, `test::consume`, `main`, `resume_main_` of `examples/cdt` |
| `ReceiveRedux` | `handle_reduction_message_` in the detectors' group |
| `ReceiveGroup` | `deliver_now` of a broadcast, on the root's PE and elsewhere |

In `Completion` a wave is its sum; here the contributions themselves climb, in
the reducer their tag selects, so that those of two collections could meet. A
status that is reset keeps its tag in memory, so `compress` gives it whenever it
is used. Groups exist on every PE from the start.

## Runs

| run | instance | shows |
|---|---|---|
| `delivery_moves` | 3 PEs, 1 element inserted at home or away, 3 migrations, 2 messages (one without a sender) | types, conservation of elements and messages, where messages wait, refinement of `Mailbox`; no dead end and every message handled unless a move was rushed |
| `delivery_lost` | 2 PEs, 3 migrations | **violation**: a message is never handled |
| `insertion_plain` | 2 PEs, 4 elements inserted from both PEs, one of them created off its home PE | types, detection sound, counters balanced, no cycle, spanning tree, assertions, phase ends |
| `insertion_seeded` | 4 PEs, collection with options, 6 elements | detection sound, no cycle, spanning tree and end of the phase for concurrent constructors, one endpoint, parents and children in agreement at every step |
| `insertion_early` | 3 PEs, 2 elements, none on PE 0 | **violation**: an element is created after the phase has ended |
| `broadcast_reordered` | 2 PEs, 2 elements created off home, 1 migration each, 2 broadcasts, packets in any order | types, no copy lost or repeated, refinement of `TotalOrder`, all of it even while PEs fail |
| `broadcast_turns` | 2 PEs, 3 elements, 3 broadcasts, 1 migration each, ordered packets; broadcasts and migrations take turns | nothing fails, every broadcast reaches every element, refinement of `TotalOrder` across the wrap of the numbers |
| `broadcast_overtaken` | 2 PEs, 2 elements, 2 broadcasts | **violation**: a flush dereferences a message it has given away |
| `reduction_turns` | 2 PEs, tree of 3 levels, its middle chare created off home and moving twice, PE 1 in its insertion phase, 3 reductions | types, no contribution lost or repeated, refinement of `Gather`, every reduction completes |
| `reduction_untagged` | 2 PEs, 2 chares, 2 untagged reductions | **violation**: a result combines contributions of different reductions |
| `startup` | 2 PEs on two nodes, a group, an empty array, an array seeded with 2 x 3 indices in steps of 2, 2 broadcasts, 1 message | types, seeds where they belong, no early message lost, repeated or out of turn, no assertion fails, everything gets ready, `exit` stops all PEs |
| `detection` | 2 PEs, 2 groups, 3 and 2 rounds | each detection sound, no mixed or orphan counts, every round ends |

Bounds. Three PEs are the least with a home, an old and a new place that all
differ, so forwarding chains, cycles between caches and three-party races exist;
three migrations are the least in which an element leaves home, returns and
leaves again. Two messages suffice since messages do not interact; one has no
sender, which disables routing updates. For insertion, two PEs have one edge of
the binary tree and four have two levels of it and of the spanning tree; with
several elements on a PE both ways to get a parent occur, and ties between them.
For broadcasts, two numbers in flight are the least that can come out of order;
`MaxCollective = 2` with three broadcasts makes the third reuse the number 1, as
the 65536th does in the program, and three elements give the root two children.
The two PEs suffice for every case of the handlers: each element is, for each
PE, at home or away, resident or not, known or not. For reductions, a middle
chare is the least that is a child and a parent; two untagged reductions one after the other reuse a number, and a tagged one beside
them opens a second reducer of the same chare. For creation, two PEs both
construct collections, PE 1 from a branch of PE 0's group, so creation messages
of both cross; the seeded array has two components, the second of which carries;
`Word = 256` has the same remainder by `NumPes` as 2^32. The assumption
`WalksCoverGrids` compares walk and grid, and that no encoded index comes twice,
for every regular options of up to three components, ends up to 3 and steps up to 3. For detection, three rounds
show that a counter left over by one round would reach the next, and the second
collection's events cross the first's waves at every point. Seeded elements
(`Delivery!Seeded`) and several elements in `Delivery` are covered by the proofs
only, as elements do not interact there.
`CHECK_DEADLOCK FALSE` is set everywhere because a program that has inserted and
sent everything stops.

Fairness. The Converse scheduler of a PE takes every message it has been sent,
hence weak fairness for the handling of each packet (grouped so that a group
has at most one packet at a time, up to packets of equal effect), for each part
of a wave, and for the steps of a constructor, which is not interrupted. Nobody
is obliged to insert, send, broadcast, migrate or call `done_inserting`. For
broadcasts, every PE is also told that the phase is over, which `Insertion`
shows. For reductions the packets of one type share a condition, because each
handling brings a message nearer to its chare or the root and there is an end of
them. In `Startup` every step but a call of `exit` uses up something of which
there is an end, so one condition on all of them suffices. In `Detection` each
channel between two PEs is served, and the threads go on.

`broadcast_turns`, `reduction_turns` and `startup` add what they assume about the
application as a constraint on steps, not as fairness: broadcasts and migrations
in turns; an untagged reduction is started when the last one's result is there
(as `examples/jacobi` does), and an element moves when its last location update
has been handled; a program constructs from `main` and from a branch, and calls
`exit` on PE 0 when the collections exist everywhere and its own calls are made,
while messages for them are still under way.

## What the violations mean

- *Location updates are not ordered* (`delivery_lost`). `emigrate` sends the
  chare and then an update to the home PE, and `update_location` takes any
  value. If the element returns home and leaves again before an older update is
  handled, the home PE records itself as the location and `try_deliver` buffers
  every message there, with nobody left to flush it. `delivery_moves` shows that
  this is the only way: unless a move was rushed every message arrives.
- *One wave of counters is not a consistent cut* (`insertion_early`). PE 0 may
  contribute, then anchor the first element and produce one endpoint message per
  child, and the children consume them before they contribute. Their negative
  counts cancel messages in flight. It takes a PE with two children in the
  binary tree that anchors or passes on the endpoint after it has contributed:
  three PEs for `insert()`, or for a collection with options and no element on
  PE 0, and five for one with. `SoundOnFewPes` proves that below these numbers it
  cannot happen; TLC finds it at each of them, with one element or two. The run
  lets a constructor message be overtaken by `done_inserting`'s broadcast, which
  Converse permits.
- *A buffered broadcast cannot be run* (`broadcast_overtaken`). `flush_buffers`
  pops the front of the deque after `try_deliver`, which has moved the message
  out; the broadcast handler flushes the same deque before it returns, and the
  inner flush reads the null pointer. Every broadcast that waits in `buffers_`
  and is run from there ends so, whether it waited because it was out of order
  or because its element was absent. This is why `broadcast_turns` keeps the
  packets of a queue in order and lets broadcasts and migrations take turns.
- *Untagged reductions share a number* (`reduction_untagged`). `contribute` uses
  `last_redn_ + 1`, and nothing advances `last_redn_`. A chare that contributes to
  a second reduction before the first has been combined fills the first one's
  reducer. `reduction_turns` shows that reductions made in turns, or with tags,
  are told apart.

Three more behaviours were met while modelling, which the runs above are built
to stay clear of, because no document of the repository says they should not be:

- PE 0 does not know where the endpoint is unless it is the endpoint's home. With
  `insert(pe)` and three PEs, a request for a parent may visit PEs without
  elements forever, and the phase does not end; or it may come back to the PE of
  the element that asked, which is the endpoint's home, and be granted by a child
  of that element, so that the two are each other's parents. Elements created at
  home never meet this: `NoElementAboveItself` proves the second half of that.
- `deliver_now` puts a broadcast aside when the root is neither here nor known to
  be elsewhere; only the end of the insertion phase takes it out again. A location
  update of the root that arrives later does not.
- In `Detection`, order within a channel is needed: if the next round's broadcast
  overtook the sum that ended the last round, the reset of the status would
  discard its events. In `examples/cdt` an element that finds no local detector
  sends itself the message again; the detectors are constructed first, and the
  model takes them as there.

## Proofs

All theorems hold for every number of PEs, every set of elements and messages
and every bound, from the named assumptions on the constants and, where said,
one more that the theorem states. The inductive invariants of `Delivery`, that
of `SeedsArePlaced`, and `OneEndpoint` of `Insertion` are themselves checked
properties, with `TypeOK` where needed; the others are stronger, see below.
Induction over a concrete formula (the length of a sequence, the size of a set)
is made by taking a smallest counterexample (`Facts`, `SmallestInSet`), because
the library's induction theorems cannot be instantiated here.

- `TypeCorrect`. `TypeOK` is inductive. It has to say that only messages with a
  sender are marked as forwarded; else a routing update would go to `NoPe`.
- `ElementsAreConserved`. `Placed` distinguishes not inserted, resident on one
  PE, and in one packet; each step moves an element between these cases.
- `MessagesAreConserved`. `Accounted` does the same for messages: not sent, in
  one packet, in one buffer, or run once. One lemma for the message a handler is
  about (`TryDeliverThis`), one for all others (`TryDeliverOther`).
- `MessagesWaitOnlyAtHome`. Either a flush empties the buffer or the element is
  not there and the PE is its home.
- `DeliveryImplementsMailbox`. From the three above and `Addressed` (every
  packet and buffered message is for the element it was sent to), every step is
  a `Mailbox` step or a stutter.
- `OnlyHurryLoses`, about `Hurry`. `HurryInv` follows the tables until the first
  rushed move. An element has at most one update about its place under way, and
  every such update tells the truth (`Current`). Each PE has a rank for the
  element, and forwarding climbs: a PE that knows better than another has the
  higher rank, and the top is where the element is bound (`Leads`). A cycle of
  caches would climb for ever, and the home PE names itself only if the element is
  there or coming.
- `EndpointIsUnique`. `OneEndpoint` is inductive with its third conjunct, that
  news of the endpoint comes down the binary tree: a PE that has not yet learnt
  the endpoint cannot have told its children, so nobody is told twice.
- `InsertionTypeCorrect`, `CountersMatch`. `MatchInv` says that until a wave sums
  to zero the counters of all PEs add up to the packets the detector waits for
  (`Balanced`), and that from then on some packet or PE shows it (`Fired`). A
  handler changes the counter of one PE by what it sends, less the one it takes.
  So the packets it sends must be new, which `LinkInv` and `OneEndpoint` give (an
  element has one request or answer, a PE is told of the endpoint once), and a sum
  changes by what one of its terms does (`SumOverChange` in `Facts`).
- `ParentsAndChildrenAgree`. `LinkInv` follows an element from its creation, which
  happens once (`CreatedOnce`), until its parent is known: at most one element of
  a PE waits (`OneOrphan`, since every later one finds another beside it, for
  which a least loaded element has to exist among finitely many), it has one
  request, not yet granted (`Requests`), or one answer from the element that
  counts it (`Answers`), or is the endpoint, which has neither. It holds for
  elements created anywhere. In particular `receive_upstream` never aborts.
- `NoElementAboveItself`, from `AllAtHome`: the collection has options, or no
  `insert` names a PE other than the home. Only the first element of a PE has its
  parent on another (`OneTop`), which is a lesser PE or the endpoint's (`Climb`,
  `Descend`), and the endpoint's own first element is the endpoint. So a cycle
  would stay on one PE, where each element is adopted by an older one
  (`NoLocalCycle`).
- `SpansWhenSound`, `AssertionsWhenSound`. Whether a wave is right to end the phase
  is a question apart; given that it is (`DetectionSound`), the rest follows on any
  machine. No element is forgotten: one that was inserted exists or has its
  constructor message (`Known`), one without a parent has its request or its answer
  under way (`Sought`), and a PE that has learned the endpoint has told its
  children, and the endpoint if it is there (`Heard`). With nothing under way, all
  that is left is the tree. `Once` says that the phase is declared complete once,
  because a wave needs PE 0, which contributes again only when it hears of a sum
  that was not zero.
- `SoundOnFewPes`, from `FewPes`: two PEs, or up to four, options and an element at
  home on PE 0. A handler that sends no more counted messages than it takes only
  lowers the counter of its PE, so what a PE has contributed is at least what it
  counts now (`Declines`), and a sum of zero bounds the messages in flight by zero
  (with `CountersMatch`). Only news of the endpoint multiplies, on a PE with two
  leaves; `Spread` says that none of those is left when a PE has contributed. This
  is what `insertion_plain` and `insertion_seeded` check on small instances.
- `BroadcastTypeCorrect`, `BroadcastsAgree`. `OrderInv` joins types with what the
  numbers mean: while the root has run fewer broadcasts than there are numbers
  (`Few`), the number of every copy, in a packet or in a buffer, is the place of
  its broadcast in what the root has run (`Agreed`); `last_bcast` counts what an
  element has run (`NumbersCount`); and that is a prefix of the root's sequence
  (`PrefixAgreement`). None of the three is inductive alone. Types need it too:
  copies go to elements only, never to the root, so a flush at the root finds
  nothing. The comparison in `Few` is strict because once all numbers are used, a
  copy numbered 1 would again be in turn after the last.
- `BroadcastImplementsTotalOrder`, from `EnoughNumbers`: there are finitely many
  broadcasts, fewer than numbers. `Unique` says that the places a broadcast can be
  in before the root runs it (a queue to the root, a buffer of a PE in its
  insertion phase) and the root's sequence share no broadcast and repeat none; a
  step adds a new one to one place or moves some to another (`Added`,
  `OneTransferred`, `AllTransferred`). So the root never runs a broadcast twice,
  its sequence is at most as long as there are broadcasts (`ShortOrder`), hence
  `Few`, and each step of an element is a `Decide` or a `Follow` of `TotalOrder`
  (`RunningRefines`). Nothing about order of packets, migrations or the failures
  of a flush is assumed. `broadcast_turns` checks the same refinement where the
  numbers do wrap, with broadcasts in turns.
- `BroadcastsConserved`, for any number of broadcasts, also where the numbers
  wrap. `Placed` is inductive beside `OrderInv`: what an element has run had come
  to it, posted for the root and run by its parent for the others (`Downward`);
  and for each broadcast an element awaits there is one copy, on a route to it or
  put aside for it, and none for the others (`AllInPlace`). All handlers are alike
  in this: they take copies in hand, and run each of them, put it aside or send it
  on. What is left is to count the places (`PlacedConserves`).
- Of `Reduction`: `TypeCorrect`, `ContributionsConserved`. `Conserved` says that a
  contribution that was made is in one place of five kinds: a packet, a reducer, a
  buffer, a PE in its insertion phase, a result. Every step is a delivery of
  messages taken in hand, which are combined, kept, put aside or sent on; what a
  full reducer combines has the contributions of what was in it, each once.
- `TurnsImplementGather`, `TaggedImplementGather`: from `Spanning` (the tree, which
  `Insertion!SpanningTree` is checked to establish, reaches every chare), and from
  reductions of one number that take turns (`OneAtATime`) or numbers that differ,
  every step is a `Gather` step or a stutter, and every result is whole. Without
  the latter it is false, as `reduction_untagged` shows. `Gathering` joins
  `Conserved` with: a message is about one reduction and carries either the
  contribution of its chare alone or those of all that is under one child of it
  (`Good`); the senders into a reducer differ, since each contributes once. So a
  reducer that has as many messages as it expects holds all that is under its
  chare, and at the root this is every chare.
- `SeedsArePlaced`, from `WalksCover`: the walk over the options of an array meets
  the indices of its grid. What a PE makes is then its share, whatever has come
  before the creation message. That walks cover grids is a fact about a recursive
  function, which induction over data would show; `WalksCoverGrids` checks it for
  small options instead.
- `MessagesConserved` of `Startup`. `SoundInv` adds to `MessageConserved` that
  tables are tables and elements live at home (`Shape`, `Homes`), and says of every
  message where it may be (`Fine`): unsent, nowhere; to one element, in exactly one
  place; a broadcast, not yet run by the root and in one place, or run by it and
  at every other PE under way, set aside, waiting for its collection or run once
  (`Passed`). The strengthening is that there is no copy before the root has run
  it and no post after. All handlers are alike: they take letters in hand (`HandOver`),
  and each ends in one place (`Fate`); what a flush runs is the same step for
  many letters.
- `NothingFails`: `NoFault` of `Startup`, from `WalksOnce`: the walk over the
  options of a collection ends and meets no index twice (`WalksCoverGrids` checks
  it for small options). `NoFaultInv` joins five invariants to `SoundInv`. A
  creation message is on its way only after its constructor, and to PEs without the
  branch (`Births`), so none is made twice. What has waited for a branch is gone
  when the branch is there (`Emptied`). `Streams` is about the broadcasts of a
  collection: those on the way from the parent's PE, behind those that wait, carry
  the numbers from the last one run here to the last one run there, in order
  (`Ways`, `Link`, `Chain`), and none is set aside; so what is run next is the next
  number, be it alone or in a flush. An array is told the end of its phase once,
  and the message is heard, or waits where there is no branch (`Waits`). `Ends` is
  about the wave of each array: there is a set of PEs whose subtrees have
  contributed whole (`Tree`); a PE in it whose parent's reducer lacks it has one
  message, on the way or waiting for the detector (`Hold`), and nobody else has
  any; the root calls back when it joins the set, and then every PE has the array
  and has not heard the end before (`Told`).
- `TypeCorrect` of `Detection`, for any tags: a reducer is emptied by the
  contribution that fills it.
- `Soundness`, `AssertionsHold`: from `DistinctTags`, that the tags of the
  collections differ. `IInv` says first that all PEs run broadcasts in the order
  of the root: there is a history of the root's broadcasts of which every PE has
  run a prefix, and what it has not run is on its way from its parent, in that
  order (`Agreed`). So the contributions to one wave are made at the same
  broadcast (`mark`) on all PEs: the wave is a consistent cut, and its sum is what
  was announced less what was consumed before that broadcast. Then, for each
  collection: events announced and not consumed are its `Consume` messages on
  their way (`Spent`); its thread, its detection and its callback take turns
  (`Staged`, `Pending`); and the contributions of its wave are each in one place,
  on the way up or in the reducer of its tag (`WaveOf`). A sum of zero at the root
  therefore means that nothing is outstanding, and every status then is that of
  this round.
- `TagsDiffer`, `TagsCollide`, `FewCollections`. The tags of two collections differ
  while no PE has constructed more than 15, on up to 4234 PEs, so that `Soundness`
  and `AssertionsHold` need no hypothesis about tags there; the 16th of a PE has
  the tag of the next PE's first, and with it its reducers.

Model-checked only: every liveness property, `InvokedUnlessRushed` among them;
`NoFault` of `Broadcast`, which is false in general; and `TypeOK` of
`Startup`. `DetectionSound`, `SpanningTree` and `AssertionsHold` of `Insertion` are
false in general, and proved where they hold. What `TypeOK` of `Startup` adds to
the invariants of its proofs is a bound: the numbers of broadcasts stay in range
because there are as many letters.

## Not modelled, and the plan

Not modelled: registration of entry methods, serialization and traits (tables
filled before `main`, and code without state); the layout of messages and their
kinds; printing and decoding of indices; node groups, whose creation message goes
to one PE of each node while their elements are looked up on others, and which no
example or test constructs; the examples, which are used to tell which sequences
of calls are legal (`examples/cdt` is modelled in `Detection`). An entry method
that migrates its own chare inside a flush, or calls back into the collection in
another way, re-enters the deque being flushed and is covered by no module.

What is left, in this order:

1. `Insertion` with migration during the phase: an element that leaves before its
   parent is known leaves its PE without the pending element.
2. `Delivery` on top of `Startup`, instead of `FirstStop`, and the reset of a
   status that a later round's events overtake, in `Detection`.
3. Proofs: `TypeOK` of `Startup`, from the number of letters.
