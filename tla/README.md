# A verification project for mini_dds

TLA+ models of mini_dds, a small DDS library over RTPS and UDP written in C++, checked with TLC
and, for the parts that matter most, proved with TLAPS. `PROJECT.json` lists the runs, the
theorems, the hazards and, for every definition that models code, the lines it stands for.
`src/` below is the repository root.

## 1. The system

An application creates a `DomainParticipant`, and from it `DataWriter`s and `DataReader`s for
topics. A participant owns one UDP socket for user data, a `ParticipantMessageRouter` that shares
it among the endpoints, and optionally a `DiscoveryService` that finds the endpoints of other
participants. A `DataWriter` owns a `ReliableWriter` or a `StatelessWriter`, a `DataReader` a
`ReliableReader` or a `StatelessReader`; these speak RTPS through the transport they were given.

    DataWriter --write--> ReliableWriter --DATA,HEARTBEAT--> (UDP) --> router --> ReliableReader
        |                      ^  worker thread                           |            |
        | matching_readers     +------------- ACKNACK <--- router <-------+------------+
        v                                                                              v
    DiscoveryService <--- SPDP multicast, SEDP unicast ---> other participants   ReaderHistory
                                                                                       |
                                                                        DataReader <--take

### Inventory

| Component | State | Operations | What is hard | What makes it correct |
|---|---|---|---|---|
| `ReliableWriter` (`src/rtps/ReliableEndpoint.cpp`) | matched readers, FIFO of changes, four counters, `stopping_`, `last_error_`, per-call retry state | `write`, `set_readers`, `wait_for_acknowledgments`, `worker_loop`, `deliver_change`, destructor | application threads, worker and destructor on two mutexes and a condition variable; stop-and-wait over a lossy network with bounded retries | what it confirms has been delivered; changes keep their order; a wait is a barrier; failures are reported; nothing hangs |
| `ReliableReader` (same file) | per writer: `highest_contiguous`, `last_announced`, `range_initialized`, `received`, `irrelevant`, `pending` | `receive_once` for DATA, HEARTBEAT, GAP; `take` | lost, late, repeated, reordered submessages; several writers; foreign implementations that send GAP | delivery in order and once; skips only what the writer excused; honest ACKNACKs |
| `WriterHistory`, `ReaderHistory` (`src/history/History.cpp`) | bounded queues | `add`, `find`, `take`, `contains` | KeepLast eviction against duplicate detection | acknowledged samples reach the application |
| `ParticipantMessageRouter` (`src/rtps/ParticipantMessageRouter.cpp`) | `channels`, per-channel queue, `active`, `error`; `stopping`, `failed` | `create_endpoint`, endpoint `receive`/`send`/destructor, `receive_loop`, `fail`, `stop` | routing on snapshots while endpoints come and go; waiting receives | each endpoint gets its datagrams, in order; failure and stop reach everybody |
| DDS entities (`include/mini_dds/dds`, `src/dds`) | id counters, owned endpoints, errors | create, destroy, `write`, `take`, `refresh_discovered_readers` | construction and destruction order between threads; id wrap; errors read back from shared text | an entity without an error can be used; what is announced exists, what exists is announced |
| `StatelessWriter`, `StatelessReader` (`src/rtps/StatelessEndpoint.cpp`) | readers, histories | `write`, `set_readers`, `receive_once`, `take` | partial fan-out; a reader known twice; duplicates beyond the history | true means sent to all, once; accepted samples give way to newer ones only |
| `DiscoveryService` (`src/discovery`) | remote participants and endpoints with times, local endpoints, `announce_requested` | `run`, polls, announcements, purge, `add_local_endpoint`, `remove_local`, waits | leases against lost announcements; orphaned endpoints; requests racing with announcements | endpoints that stay are found; none that is known is waited for in vain; records end with the lease |
| Discovery data, parameter lists, port mapping (`src/discovery`) | none | encode, decode, calculate | truncation, defaults, foreign forms, 16-bit ports | what is announced is understood; leases survive; distinct ports |
| Submessage codecs (`src/rtps/Reliability.cpp`, `Data.cpp`, `Message.cpp`), CDR (`src/serialization`) | none | encode, decode | bitmap words, two-word signed numbers, lengths, both byte orders | round trips; decoders accept only what handlers assume |
| `UdpTransport` | socket | send, receive | OS behaviour | external |

The hazards of this code, each at its line, are in `PROJECT.json`.

## 2. Modules

| Module | Models |
|---|---|
| `WriterState` | the pure part of `ReliableReader`: the state it keeps per writer, what DATA, HEARTBEAT and GAP do to it, `commit_contiguous`, `send_acknack`, and how a writer reads an ACKNACK |
| `ReliableProtocol` | `WriterState` composed with the writer's `deliver_change` loop, the network, the reader's history and the application's `take` |
| `OrderedTopic` | the abstract promise: samples published to sets of readers, handed over in order and at most once, settled one after the other |
| `AsyncWriter` | the threads of an asynchronous `ReliableWriter` |
| `ReliableReader` | the reader alone, against any submessages of several writers, with the real shared history |
| `ParticipantRouter` | the router, its receiver thread and the endpoints |
| `Discovery` | the discovery services of several participants, the datagrams between them, and writers that wait for a match |
| `StatelessEndpoint` | Best-Effort delivery: matched readers, fan-out, network, histories, `take` |
| `BestEffortTopic` | its abstract promise |
| `Entities` | creation and destruction of `DataWriter`s and `DataReader`s by several threads, over the router, discovery and the id counters |
| `Cdr`, `Submessages`, `ParameterLists`, `DiscoveryData` | the codecs, as functions, each on top of the one before it where it uses it |
| `Codecs` | one message on its way through them: sent, perhaps put into another form or damaged, received |
| `PortMapping` | the port of a participant |
| `ReliableProtocol_proofs`, `AsyncWriter_proofs`, `ReliableReader_proofs`, `ParticipantRouter_proofs`, `Discovery_proofs` | the theorems about the module each is named after |
| `Endpoints_proofs` | those about `StatelessEndpoint` and `Entities`, the two halves of an endpoint without Reliable QoS |
| `Submessages_proofs` | lemmas: numbers as bytes, reading and writing words, bitmaps, and the control submessages |
| `Codecs_proofs` | on top of them, DATA and the parameter lists, the theorems about `Codecs`, and those about leases and ports |
| `MC...` | instances for TLC |

`ReliableProtocol` and `ReliableReader` both build on `WriterState`. `ReliableProtocol` is shown to
implement `OrderedTopic`, `StatelessEndpoint` to implement `BestEffortTopic`. `Entities` keeps of the
router and of discovery what a constructor or destructor sees; `ParticipantRouter` and `Discovery` have
the rest. What `Codecs` shows of the decoders is what `ReliableReader` and `WriterState` take for granted
of their inputs.

Definitions named `Bug...` are not part of any model. Each is a mistake one could make in the
definition after it; `PROJECT.json` ("mutants") pairs it with the property that catches it.

### How the models correspond to the code

**Samples** are their sequence numbers; payloads carry no control. `pending`, a map from numbers to
changes, is the set of its keys. Bitmaps are sets of numbers, limited by `MaxBits` as in
`sequence_number_set_max_bits`.

**`WriterState`.** `receive_once` always changes the state for the submessage, commits, and
answers; `AfterData`, `AfterHeartbeat`, `AfterGap` are the first part, `SettlesAt`/`AfterCommit`/
`CommittedBy` the walk of `commit_contiguous` (stated by where it stops, so that no recursion is
needed and the module can be proved about), `AckNack` the last. The first HEARTBEAT sets
`highest_contiguous` without purging what is pending below it; a later one that jumps ahead purges.
Irrelevant numbers below `highest_contiguous` stay in the set, as in the code.

**`ReliableProtocol`.** `sent` holds all datagrams ever sent; receiving does not remove any, so
loss, duplication, delay and reordering need no actions of their own. The periodic HEARTBEAT of
`deliver_change` repeats an earlier datagram and is therefore a stuttering step. `Write` is
`DataWriter::write` with the snapshot of readers discovery returned; changes are delivered one at a
time (`started`), each with fresh per-reader retry counters. An error of `transport.send` in the
initial fan-out may come anywhere in it (`StartFails`). `stopping_` and a transport error during the
wait are `TransportFails`. `DataReader::take` calls `receive_once` only with an empty history, hence
the guard `history[r] = {}` in `Settle`.

**`AsyncWriter`.** One critical section of `state_mutex_` is one action. The test of a wait's
predicate and the blocking are two, with the mutex held in between, because the destructor sets
`stopping_` and notifies without the mutex. `deliver_change` is one step with either result.
`fate`, `reported` and `owes` are history variables.

**`ReliableReader`.** Inputs are all submessages the decoders accept (`decode_heartbeat_submessage`:
1 <= first <= last; `decode_gap_submessage`: gapStart <= bitmapBase). `heard`, `excused`, `remembered`,
`delivered` and `last_taken` are history variables. `excused` is all that HEARTBEATs and GAPs have said is not to come,
without a limit; `remembered` is the part of a GAP that the handler can note (its bitmap, the first `MaxBits` numbers
of its range, and the whole range once it moves the base). What the code may skip and
acknowledge is measured against the first, what it must not forget against the second, and section 4 says what the
difference means. The order in which `commit_contiguous` hands samples over is
stated by what it is (`InOrder`), not computed, so that it can be proved about.

**`ParticipantRouter`.** Sections of `channels_mutex` and of a channel's mutex are actions; routing,
`fail`, `stop` and `remove_channel` are sequences of them. `add_channel` reads `active` without the
channel's mutex; a stale value can only make it refuse, and refusals change nothing that is
modelled. `send` and `is_open` read flags and delegate; they have no actions.

**`Discovery`.** One turn of `run` is the sequence `worker` steps through: announce or not, poll the two
sockets, `exchange`, snapshot, send, purge. A section of `mutex` with the notification after it is one
action, since only application threads wait on the condition and what they wait for changes under the
mutex. Of time it keeps that an announcement may be due at any turn and a lease out at any purge:
announcements get lost, threads are delayed. A datagram is lost when sent, or stays in its
socket until it is received, also after its sender is gone, and may be received twice. A participant that starts again is
another one, for its GuidPrefix is new. `Wanted` stands for `find_readers`: the readers that topic, type
and reliability let the waiting writers match. Datagrams that cannot be decoded, socket errors and the
loopback of one's own multicast have the effect of a timeout: none. `announced` is a history variable.

**`StatelessEndpoint`.** `Write` is `DataWriter::write` up to the fan-out: the records discovery returned,
in any order, become addresses, `unique_readers` drops repetitions, the history gives out the number. Each
turn of the loop in `StatelessWriter::write` is a step (`SendNext`), so that a send may fail between two
readers (`SendFails`) and reception interleaves. The application writes from one thread, as the class has
no lock. Two records may lead to one address, because a participant that crashes and restarts on its port
is in discovery twice until its first lease ends. A `DataReader` receives only with an empty history;
other users of the class may receive at will. `offered`, `arrived` and `latest` are history variables.
Under the refinement, `position[r]`, how much of what arrived the application has taken or lost, is
`Len(arrived[r]) - Len(history[r])`. `UniqueReaders` says which sequence `unique_readers` returns, not how it
looks for repetitions.

**`Entities`.** The constructor is a sequence of steps: take an id, `create_endpoint` (the section of
`channels_mutex`), the store of the router's error text after it, the read of that text by the
constructor, then RTPS endpoint and announcement. The text is shared: `fail` and other refusals
overwrite it in between. The destructor is two steps: transport, then announcement. A `DataWriter`
that matches through discovery builds its endpoint with the first write (`FirstMatch`). Keys come from a space of
`KeySpace` where the code has 2^24, small enough for the counter to wrap; an id the application asks for need
not be one the counters give out. The order of the assignments within a step
is not visible to other threads. Discovery does not become invalid again, nor does the router recover.

**The codecs** are functions on sequences of bytes. `Cdr` has the reader as a record of bytes, position and values
read so far, which stays invalid once a `require` failed, as the calls in the code chain with `||`. A
submessage on the wire is a record of kind, flags, length and content: that these occupy a byte, a byte and
two bytes is kept in `length` only. Checks are those of the code, in conjunction: which of them reports
its error first is left out. Encoders and decoders are modelled for all four submessages, for the
announcements of participants and endpoints, and for the payload of a string.
A byte has `ByteBits` bits; with 8 the arithmetic of 64-bit numbers is beyond TLC's integers, so the run
uses 3 (a word of four bytes has 12 bits, a sequence number 24), and `MaxBits` = 24 in place of 256, which is
two words of a bitmap. Nothing in the definitions depends on the value, and the proofs are for every width of at least 2
bits. What may be sent is anything the structures can hold (`Heartbeats` .. `Strings`), so also what the encoders must
refuse; a message is in `Unsendable` when it violates `Valid` or `Fits`, the conditions under which the encoders accept.

## 3. Runs

| Run | Instance | Shows |
|---|---|---|
| `protocol` | 2 readers, 2 samples, 1 retry, history depth 1 | confirmed samples reach the applications; no silent skip; at most once; order; `OrderedTopic` is implemented; samples settle |
| `async` | 2 callers, 2 changes | queue, counters and failures agree; waits are barriers; changes complete and calls return while the writer lives |
| `async_answer` | same | *violation*: a caller can get `true` although its sample failed |
| `async_stop` | same | *violation*: the destructor can hang |
| `reader` | a writer of 4 numbers, or of 3 and one of 1, bitmaps of 2, shared history of 2 | skips only what was excused, withholds nothing it may deliver, delivers nothing it remembers as irrelevant, acknowledges honestly and for good, per-writer order and no repetition through eviction |
| `router` | 2 channel objects, 2 reader ids, 2 datagrams | registration, routing, removal, failure; release of waiting receives; `stop` returns |
| `discovery` | 2 participants, a reader that comes and goes, a waiting writer | owed announcements are not forgotten; no writer sleeps on a match; endpoints that stay are found |
| `discovery_orphan` | same | *violation*: a record can outlive every lease of its participant |
| `stateless` | 2 readers, 3 records, 2 samples, depth 1 | true means sent to all; `BestEffortTopic` is implemented |
| `entities` | 2 readers, 1 writer, ids of 2 keys, an id asked for | an entity without an error is usable; announcements are backed |
| `entities_withdrawn` | 2 readers | *violation*: a living entity can lose its announcement |
| `codecs` | 37 messages, in both byte orders, in other forms, and with every change of one byte or of the end | round trips; only valid messages are accepted |

**Bounds.** `MaxSequence`/`MaxChanges`: two samples let answers of the first meet the delivery of
the second, a late joiner meet a running writer, and a given-up sample be passed over; for `protocol` the
proofs cover every number. Three numbers in `reader` with bitmaps of two give a hole with samples behind
it, and an ACKNACK with more missing than it has room for. A GAP ahead of the reader starts at 2 or later, so that one
longer than the two numbers remembered of it needs a fourth number; to keep the run small, a state in which the first
writer has used its fourth number and the second has said anything is not continued (`MCApart`). The
writers meet in the history only, which a GAP does not read. `MaxRetries` = 1 has both a retry and the limit. Two
callers give every pairing of write and wait. Two channels with two ids are two endpoints that one datagram
addresses, or an endpoint and its successor under the same id while the first is being removed; two datagrams give an order.
Two participants start, crash, forget and find each other in every order; each pair of participants keeps
its records apart from the others'. In `stateless` a reader may accept three samples, so that a copy
arrives after its original was taken or evicted. In `entities` three threads let one entity be created
between two steps of another while a third fails; two keys make the counter wrap after two entities.
The messages of `codecs` have the extreme values of each field that the code tests, one less, and values that
fill or cross a word; damage is one change at a time.
Every run explores its instance completely.

**Deadlock** is not checked. Most runs end where a bound on samples, changes or datagrams is used up, or
where the participant, router or message has reached its end; that the system does not get stuck is stated
by the liveness properties instead.

**Fairness.** `ReliableProtocol`: the writer thread takes the next change when idle, and because its
receive waits at most 50 ms (lines 285-289) a passed deadline is acted upon; nothing is assumed of
network and readers. `AsyncWriter`: threads run, and one that contends for `state_mutex_` again and again
gets it (strong fairness per thread). Calls, expiry of waits and destruction are not forced.
`ParticipantRouter`: the receiver polls every 20 ms, so it sees `stopping`; started work is finished; an awakened
receive runs. Socket errors, arrivals and expiry are not forced. `Discovery`: workers run, announcements come due
(the period is finite). Of the network it is assumed that what is
sent again and again arrives (strong fairness per announcement), and that a copy in a socket is not duplicated without
end. `LeaseSpec`, which only `discovery_orphan` uses, adds that a lease ends once its participant is gone.
Starts, ends and the application's calls are not forced. `StatelessEndpoint`, `Entities` and
`Codecs` state safety only: Best-Effort promises no arrival, and constructors do not wait.

## 4. Findings

1. `ReliableWriter::~ReliableWriter` (line 114) stores `stopping_` and notifies without
   `state_mutex_`. If the worker has tested its predicate and not yet blocked, the notification is lost
   and `join` never returns (`async_stop`, `DestructorReturns`). `docs/architecture.md:367` rules out
   threads that cannot be stopped. Taking the mutex around the store removes the interleaving.
2. `wait_for_acknowledgments` reports a failure once, to whichever caller comes first (line 477). With
   two threads on a writer, the thread whose sample failed can get `true` (`async_answer`,
   `TrueMeansDelivered`), although `README.md:45` gives the call as the way to make sure of delivery.
   With one thread per writer the property holds.
3. An endpoint is stored whether or not its participant is known, and purged only when its participant
   expires in the same call (`DiscoveryService.cpp:303` and `:413`). If p1 learns of p2 first, announces
   its reader, and terminates before any SPDP message of p1 has reached p2, then p2 matches that reader for
   ever (`discovery_orphan`, `RecordsFollowLease`); `docs/architecture.md:293` says records are cleaned up
   with the lease. The same happens to an announcement received after its participant has been purged.
4. The destructors of `DataWriter` and `DataReader` free the EntityId in the router before they withdraw the
   announcement (`DomainParticipant.h:198` and `:427`), and `remove_local` erases by Guid. An endpoint that another
   thread creates under the id in between keeps running unannounced (`entities_withdrawn`,
   `LiveIsAnnounced`), though `docs/architecture.md:278` and `:348` promise matching of all readers and clean removal.
   Withdrawing first, or removing only one's own record, restores the property.
Two limits of the code are no findings of a run, but bound what the properties can say:

- Of a GAP that does not touch the next expected number, `ReliableReader` notes the bitmap and the first 256 numbers of
  the range (`ReliableEndpoint.cpp:811`). A buffered sample beyond them is delivered although the GAP named it (with
  two numbers noted: DATA 4, GAP 2..4, DATA 1); one that is not buffered holds up what lies behind it until the writer
  repeats the GAP, though the same GAP is passed at once when it comes after DATA 1. `tests/mini_dds_tests.cpp:874`
  ("ReaderHistory omits the irrelevant GAP sequence") and `docs/architecture.md:311` state no limit. `GapIsFinal` and
  `NothingWithheld` say what holds: all of a GAP up to the limit. `reader` reaches the states beyond it.
- A lease loses a millisecond on its way unless its milliseconds are a multiple of 125: both conversions cut
  (`DiscoveryData.cpp:190` and `:213`). `RoundTrip` and `LeaseSurvives` allow for it. One that is a millisecond longer than
  the announcement period arrives equal to it, which `DiscoveryService.cpp:73` refuses in the configuration; a lease of two
  milliseconds more is safe. Rounding up in one of the two directions would restore it.

## 5. Proofs

TLAPS proves the following for every value of the constants, from the assumptions on them alone. Those say
that bounds are numbers (`SequenceAssumption`, `BitsAssumption`, `RetriesAssumption`, `DepthAssumption`,
`ChangesAssumption`, `DatagramsAssumption`, `LastAssumption`, `BoundsAssumption`; histories keep at least one
sample, a bitmap has at least one bit), that endpoints and entities have an owner and a kind and records an
address (`OwnerAssumption`, `KindAssumption`, `AddressAssumption`), that discovery returns finitely many records
(`RecordsAssumption`), that readers of the library are readers and those waited for are endpoints, that
threads have distinct names (`CallersAssumption`), and that the counters of ids have room for one id besides 0
(`KeyAssumption`). Each invariant of a proof was checked by TLC on the instance of its component's run before it was
proved.

`ReliableProtocol_proofs`: `ProtocolInv` is inductive, hence `TypeOK`, `ConfirmedReachesApplication`,
`NoSilentSkip`, `AtMostOnce`, `TakenInOrder`, and every step implements `OrderedTopic`.
The properties are not inductive alone. That a confirmation is honest
needs `MessageInv`: an ACKNACK in the network never claims more than its reader has since reached, and
one without requests speaks through its base only. That a HEARTBEAT of n makes no
reader skip needs `WriterInv` (all before the sample in delivery are settled) and `BufferInv` (a
reader buffers only started samples addressed to it). Eviction is harmless because, by
`AcknowledgedInv` and the guard of `Settle`, samples committed together are all but the last given up:
this is what `HistoryInv` says. The proof takes the three parts of a receive handler one
after the other, as the code does.

`AsyncWriter_proofs`: `AsyncInv` is inductive, hence `TypeOK`, `CountsAgree`, `SubmissionOrder`,
`FailureIsKept`, and `BarrierHolds` as an action property. `WriteInv` says that
`write_mutex_` lets at most one number be given out and not queued, `QueueInv` that the queue holds
consecutive submissions after `completed_count_`, `FateInv` that a change has been dealt with exactly
when it is counted. `NoStandstill` is the safety side of `ChangesComplete` and `CallsReturn`, which themselves are
out of the prover's reach: while a caller sleeps, the worker is awake or a `write` is about to notify it. It needs
that a mutex is held from the test of a predicate to the sleep (`BlockInv`), and that what a sleeper waits for
has not come, or its notification is due (`SleepInv`); that the worker then has something to do follows
from `CountsAgree`. The destructor notifies without the mutex, and so the worker is excepted once `stopping_` is
set: this is finding 1.

`ReliableReader_proofs`: `ReaderInv` is inductive, hence `TypeOK`, `SkipsOnlyExcused`, `NothingWithheld`,
`AcksHonestly`, and the action properties `GapIsFinal`, `AcksAreKept` and `TakenInOrder`. It holds against any
submessages of any number of writers, so also against writers that contradict themselves. `FaithfulInv` is
the core: above `highest_contiguous`, what arrived is pending and what was noted of a GAP (`remembered`) is irrelevant, so none
of it can be forgotten; below it, every number is delivered or excused; and before `range_initialized` nothing is
committed. An ACKNACK claims what is below its base, `highest_contiguous` + 1, and what its bitmap leaves out
though it has room for it; the first is delivered or excused, the second received or irrelevant. Neither is
taken back: every handler only `Advances` the state, that is, its base and its last known number never decrease, and what
HEARTBEAT, GAP or commit removes lies below the new base. For this a first HEARTBEAT must find `highest_contiguous`
at 0, which `FaithfulInv` says, for it sets the base without comparing it. `HistoryInv`
says of the queue that the samples of one writer ascend, that none is at or before the last one taken, and
none beyond `highest_contiguous`: a commit only adds numbers above it and eviction drops from the front, so
`take` ascends. That a finite set of numbers can be put in order (`CanBeOrdered`), which `InOrder` rests on,
is shown with the least-number principle instead of induction.

`ParticipantRouter_proofs`: `RouterInv` is inductive, hence `TypeOK`, `OneEndpointPerKey`,
`ReceivesItsDatagrams`, `RemovedIsEmpty` and `FailureReachesAll`. `ThreadInv` ties the flags to where the two
threads are (`stop` takes the channels away only when the receiver has left its loop), `ChannelInv` says that
an open channel is in the table or about to be closed by `stop`, and a closed one is never opened again, so
that a key freed can be given out while its predecessor is still being removed. `DeliveryInv` says of
the datagram in delivery that a channel has it exactly when its turn has come, and of earlier ones that
nothing is outstanding: with one receiver thread, order and completeness follow. `FailInv` says that while
a failure spreads, an open channel has the error or is in the rest of the snapshot, for after `failed` is
set `add_channel` refuses. On top of it, `NobodyOversleeps` and `EveryoneIsReleased` are the safety side of
`EndpointsAreReleased`: no receive sleeps through a datagram, an error or the end of its channel, and none sleeps
when a failure has been spread or `stop` has ended.

`Discovery_proofs`: the conjunction of `TypeOK`, `NothingUnannounced` and `NobodySleepsOnAMatch` is inductive as
it stands, without fairness. Both properties are about one participant at a time, and so is the
proof: a step changes one participant (`OnlyOf`), and the others keep what they had (`OthersKeep`). The
step that decides is the `exchange`: until the snapshot that follows it has been taken, the request counts as
answered (`worker[p] = "snapshot"`).

`Endpoints_proofs`, first part (`StatelessEndpoint`): `EndpointInv` is inductive, hence `TypeOK` and `TrueMeansSentToAll`, and every step
implements `BestEffortTopic`. For "at most once to each reader" the refinement needs `Distinct(remaining)`,
which comes from `unique_readers` (`UniqueEffect`), and that readers still to come have not been offered the
sample (`FanOutInv`). `HistoryInv` says that a history is the last part of what has arrived, the fact that
makes `position` grow in `ReceiveOnce` by what `KeepLast` drops and in `Take` by what was handed over.

`Endpoints_proofs`, second part (`Entities`): `EntitiesInv` is inductive, hence `EntitiesTypeOK`, `UsableOrError`, `AnnouncementsAreBacked`, and
`IdsAreExclusive`, which no run has as a property of its own. `StageInv` says what an entity holds at each stage of its
constructor and destructor. Why a constructor that was refused never ends without an error although it reads a
text others overwrite: the text is never emptied again once the refusal has stored it, for every store is
of a text that is not empty.

`Submessages_proofs` and `Codecs_proofs`: `OnlyValidAccepted` and `RoundTripHolds`, the two properties of `codecs`, for
every message the structures can hold, every width of a byte and every limit of a bitmap. The inductive invariant is
`Transfer`: what travels is the encoding of what was sent, another form of that encoding, or any bytes at all, and what
was received is what `Decode` makes of it. The work is in the functions, in these steps.

- *Powers of two.* `2^n` with a variable exponent means nothing to the backends. Its recursive definition is used
  once, to show what `2^0` and `2^(n + 1)` are; all else (`PowerSum`, `CapacityProduct`, `TwoDivisions`) follows from that.
- *Induction without an operator parameter.* A set of naturals that has 0 and with each number the next is all of
  them (`Induction`, `InductionUpTo`; `SetInduction` for finite sets): each induction over a fold, a
  sequence or a bitmap defines the set of the indices up to which its claim holds. A fold is first restated as the
  chain of its intermediate values (`ReadWordsChain`, `WordsWritten`, `TurnsChain`), of which an element follows from the one before.
- *Numbers.* Bytes of a number give it back, in both byte orders (`FromToBytes`); words written one after the other are
  the words read there (`WordsSurvive`); a signed number is cut into words and joined again (`SignedBack`, `NumberBack`).
- *Bitmaps.* A word filled bit by bit has exactly the bits of its numbers (`BitsOfWord`), since adding a power of two
  that is missing changes one bit (`AddBit`); hence a decoded set names the numbers of the set encoded (`BitmapMeans`). For
  `AcceptsOnlyValid`, a word that is not 0 has a highest bit, and the check of the unused bits keeps it inside the set (`AskedNumber`).
- *Lists.* A parameter lies where the lengths of those before it put it (`PiecePlaces`), so that the decoder's turns take
  one parameter each and stop at the sentinel (`ListSurvives`). Inserting one that is unknown, or leaving out one that
  has its default value, keeps `Faithful`: each name is said at most once, with its value, and missing only if it
  has the default (`RewrittenFaithful`). A faithful list decodes to the announcement (`ListBack`).
- *Refusals.* The encoders accept what satisfies `Valid` and `Fits` (`SubmessageAccepted`, `AnnouncementAccepted`).

These theorems assume of the constants that messages are values of their structures (`MessagesAssumption`; a lease is longer than
the period of announcements and so never the single millisecond that the conversion would cut to none), that those not listed
as unsendable satisfy `Valid` and `Fits` (`UnsendableAssumption`), that the identifiers of parameters are distinct and fit
16 bits (`DiscoveryDataAssumption`) and leave one for a parameter nobody knows (`UnknownPidsAssumption`), that the longest
bitmap fits a submessage (`SizeAssumption`), that a byte has at least 2 bits (`ByteBitsAssumption`) and a word room for 1000
values (`FractionAssumption`).

`LeaseSurvives` is the part of them about time: seconds and fraction of a word give back the lease or a
millisecond less, whatever the width of a word (1000 or more). Each of the two divisions is bounded by its
remainder (`Quotient`), and what both lose together is less than two units. As the configured lease must exceed the
period of announcements (`DiscoveryService.cpp:71`), what arrives is not below that period, nor 0, which the decoder
would refuse; but it may be equal to it (section 4). `PortsDistinct` says that unicast ports are distinct and no multicast port, for participant ids below
120; the 120th has the multicast port of the next domain.

Every invariant and action property the runs check is proved. Only model-checked is liveness
(`EverySampleSettles`, `ChangesComplete`, `CallsReturn`, `EndpointsAreReleased`, `StopReturns`, `Discovered`), which the
prover does not reach, and what the violation runs refute.

## 6. Not modelled, and why

UDP sockets are I/O; a datagram arrives, a wait ends, or there is an error, and the models have these as inputs.
The text of addresses, the wording of errors, and the 8- and 64-bit operations of CDR that no codec of this
library uses are data without control. Counts of HEARTBEAT and ACKNACK are written and never compared, so the
protocol models have no variable for them. `last_error` texts are reduced to which of them is set. Time is
reduced to "a deadline may pass". `WriterHistory` keeps copies nobody reads back: only its numbering is
modelled. Examples and tests are clients of the library. A writer whose reader was configured by hand without an EntityId
accepts an ACKNACK of any reader at that endpoint (`acknack_matches_reader`, `ReliableEndpoint.cpp:58`); in `ReliableProtocol`
every reader proxy has a full EntityId, as those from discovery do, and an ACKNACK matches by reader.

## 7. Plan

1. More of what the handlers may never do, as action properties with proofs on the invariants above: that
   a channel's error is final, that a record a purge removed returns only with an announcement.
2. `ReliableLink`: the protocol over a link with a bounded number of losses, to say when retries suffice, and
   what requests that repeat take away from them.
