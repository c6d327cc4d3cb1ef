# A TLA+ model of kpacket2

kpacket2 is an Ashita plugin that relays the packets of a game client over
ZeroMQ. Paths below are relative to the repository, which is checked out under
`src/`; `zmq_relay.cpp:132` is line 132 of `src/src/zmq_relay.cpp`.

## 1. The system

| part | code | state | operations |
|---|---|---|---|
| plugin | `src/kpacket.cpp`, `kpacket.hpp` | the `ZmqRelay`, pointers into Ashita | `Initialize`, `Release`, the packet hooks, text and command hooks |
| relay life cycle | `zmq_relay.cpp:53-144` | `running_`, three sockets, three threads | constructor, `Initialize`, `Shutdown` |
| stream path | `zmq_relay.cpp:146-239` | `publish_queue_`, `publish_cv_`, `next_message_id_`, `stats_` | `PublishPacket`, `PublisherThread` |
| reliable path | `zmq_relay.cpp:155-161, 268-293` | `packet_queue_` | `PublishPacket`, `ReliableQueueThread` |
| command interface | `zmq_relay.cpp:241-266, 301-402` | the REP socket, `command_handlers_`, `stats_` | `CommandThread`, `ProcessCommand`, five handlers |
| packet types | `src/packet_types.cpp`, `zmq_relay.cpp:405-449, 468-484` | none | `ClassifyPacket`, `GetPacketName`, `ParseHeader`, `CreatePacketInfo`, `to_json`, `TopicForPacket` |
| base64 | `zmq_relay.cpp:33-51` | none | `base64_encode` |
| console monitor | `examples/packet_monitor.cpp` | a SUB and a REQ socket, counters | `Start`, `MonitorPackets`, `SendCommand` |
| FTXUI monitor | `examples/packet_monitor_ftxui.cpp` | `MonitorModel`: rows, last message id, rate, connection state | `SubscriberThread`, `HealthThread`, the renderer |

**How they interact.** Ashita calls every plugin callback on one thread, the
"Main Thread" of `docs/DESIGN.md:182`. A packet hook builds a `PacketInfo` and
calls `PublishPacket`, which appends it to `packet_queue_` (under
`queue_mutex_`, and only below `max_queue_size`) and then to `publish_queue_`
(under `publish_mutex_`), and notifies `publish_cv_`. `PublisherThread` takes
from the one, gives the message its id and sends it on the PUB socket;
`ReliableQueueThread` takes from the other and sends on the PUSH socket;
`CommandThread` answers the requests of clients on the REP socket. The three
look at the atomic `running_` once per turn; `Shutdown` clears it and joins
them. The monitors are separate processes, a SUB socket on the stream and a
REQ socket on the command interface.

**What is hard here.** Four threads, two mutexes, one condition variable that
`Shutdown` never notifies; an `Initialize` that can fail half way and leaves
what it has made; sends that may throw or silently refuse; packets that exist
twice and must stay consistent; counters read while they change; clients whose
REQ sockets must alternate send and receive while the plugin may go away
between the two. `PROJECT.json` lists each such hazard with its line.

**What makes each part correct.**
- Life cycle: no worker without its socket; no joinable thread when the relay
  is destroyed; `Release` returns.
- Stream path: packets in the game's order, each at most once, ids rising
  within a session, counters that agree with what was sent; nothing queued
  for ever; a failed send costs one packet, not the thread.
- Reliable path: in order, at most once, bounded; nothing queued for ever.
- Both: they account for the same packets.
- Command interface: every request gets one answer, the answer to it; no
  request can put the REP socket out of step; counters count answers.
- Packet types: the ranges of the classification, names and topics agree with
  each other and with the documents.
- Monitors: the header says "connected" while the plugin is there and not much
  longer, and follows it through a reload; a gap is flagged exactly when messages
  are missing; commands, `Stop` and the threads end.

## 2. Plan

1. `ZmqRelay`: life cycle, both packet paths, the workers; `PacketStream`, what
   a path promises, implemented by both. **done**
2. `ZmqRelayProofs`, `ZmqRelayOrderProofs`: all safety properties of `ZmqRelay`,
   and its steps as steps of `MessageSource` and `PacketStream`. **done**
3. `CommandThread` and `CommandService`: the REP loop, `ProcessCommand` and the
   handlers against clients with REQ sockets. **done**
4. `ReqSocket`, `HealthThread`, `PacketMonitor`: REQ clients with timeouts
   against a plugin that comes and goes. **done**
5. `SubscriberThread`: the SUB side, with drops and gap detection. **done**
6. `PacketTypes`: one packet from the hook to both messages; `Base64`. **done**
7. `MonitorUi` over a timed `HealthThread`: the header's "connected", with the
   events that make it look again. **done**
8. `MessageSource`: the numbering that `ZmqRelay` implements and
   `SubscriberThread` rests on; the proof is in `ZmqRelayProofs`. **done**
9. `CommandThreadProofs`, `SubscriberThreadProofs`, `MonitorUiProofs`,
   `PacketMonitorProofs`, `PacketTypesProofs`, `Base64Proofs`: the safety
   properties of the other modules. **done**

No safety property that a run shows to hold is left without a theorem. What is
left to TLC is at the end of section 5.

## 3. Modules

### ZmqRelay

One variable per member of `ZmqRelay` that matters: `running`, `sockets` (the
non-null ones of the three pointers), `thread` (where each worker is, `none`
when its `std::thread` is not joinable), `publish_queue`, `packet_queue`,
`next_message_id`, `stats`; `hold` is a worker's local packet. `main` is what
the main thread is doing: `idle` between callbacks, `start` in `Initialize`
after the binds, `enqueue` and `notify` inside `PublishPacket`, `join` inside
`Shutdown`. `wire`, `pulled` and `lost` are history: what the PUB and PUSH
sockets took, and what each path dropped.

A packet is its number in the order in which the hooks see packets; a message
on the wire is its session, id and packet. A critical section is one action.
The test of `running_` at the head of each loop, the wait and its timeout, the
send and the increment of a counter after it are actions of their own, so that
every other thread may step between them. Failures are disjuncts: each bind and
each `std::thread` of `Initialize`, the copies in the hook (`bad_alloc`, caught
by the hook), everything between taking a packet and `mp.send`, and the PUSH
socket that cannot take a packet.

The configuration is the one the plugin builds: all three sockets enabled.
`Rejected` is what a packet filter refuses; the plugin installs none, the class
allows one. Ashita may call a hook after a failed `Initialize`: the code guards
against it (`IsRunning`, `pub_socket_`), so the model tries it.

### PacketStream

What a client may expect of either path, with two sequences, `waiting` and
`out`: packets are accepted in the game's order, leave in order or are dropped,
and do not wait for ever. `ZmqRelay` implements it twice, with the queue and the
packet in the worker's hands as `waiting` and the history of the socket as `out`.

### MessageSource

What a subscriber may rely on in the numbers of the messages: a session starts
at id 1, each id of a session is taken once, in order, and an id may be taken
for a message that is not sent. It is where the relay and the FTXUI monitor are
composed: `ZmqRelay` implements it (`SourceImplemented`), with the wire's
messages reduced to session and id, and `SubscriberThread` takes its actions for
the relay's side of the stream.

### The modules of proofs

Theorems for every value of the constants, see section 5. `ZmqRelayProofs` and
`ZmqRelayOrderProofs`, which extends it, are about `ZmqRelay`;
`CommandThreadProofs`, `SubscriberThreadProofs`, `PacketMonitorProofs`,
`PacketTypesProofs` and `Base64Proofs` about the modules they are named after,
`MonitorUiProofs` about `MonitorUi` and the `HealthThread` in it.

### CommandThread and CommandService

`CommandThread` is the REP side and its clients. `thread` is where the loop is
(`poll` before `recv`, `process`, `send`, `count` after the send), `owed` the
client whose answer the REP socket waits for, `request` and `reply` the thread's
locals. `ProcessCommand(r, n)` is the set of answers to request `r` when
`commands_processed` is `n`: the handler that makes it and, for `stats` and
`inject`, the number in it. What a handler throws is caught in it or in
`ProcessCommand` and becomes an `error` answer; `Fail` is the failure to make or
send the answer itself, which the loop's catch swallows. Clients (external) ask,
take their answers, and leave at any time.

`CommandService` promises each request one step, and `stats` the exact number of
requests served before. It is implemented with `served` being
`commands_processed`, plus one between the send and the increment: a client sees
its own answer before the counter does, but never another client's count wrong,
because the thread increments before it takes the next request.

### ReqSocket, HealthThread

`ReqSocket` is what the monitors rely on of ZeroMQ (external) and of a plugin
that is loaded and unloaded at any time: a REQ socket alternates send and
receive, keeps a request for a plugin that is not there, and knows nothing of
the request of a socket it replaces. A message is `current` when it belongs to
the poll or command that the client has begun last and `stale` when it belongs to
an earlier one: `NewRound` makes everything under way stale before the client
tries to send, so that a client whose send throws or times out has no message of
its own. `SendThrows` and `ReceiveThrows` are ZeroMQ's refusal of a call out of
turn; what follows from it is the client's. A plugin that
is only late is the same as one that is gone: `ReceiveTimesOut` needs no more
than that no answer has arrived.

`HealthThread` has the loop with its `catch` outside and the count of failures
up to 3. Time passes in ticks of 250 ms, the period of `UiTickThread`, of which
every wait of the code is a multiple: 2 for a socket's timeout, 4 for the pause,
8 for the window in which an answer counts. `Elapse` lets a tick pass for the
thread when it waits and its wait may go on. A wait of n ticks lasts from n to n
+ `Delay`, the scheduler's lateness; what does not wait takes no time, so that an
answer is received, a packet noted and an event rendered in the tick in which it
comes. `ok_age`
is the age of `last_health_ok_ms`, counted to one more than the window.

### MonitorUi

The header of the FTXUI monitor, over `HealthThread`: `Packet` is what
`SubscriberThread` does to `last_packet_ms`, `UiTick` a turn of `UiTickThread`,
`event` an event that is posted, and `Render` the main thread taking it and
deciding `connected` from the two ages. `Tick` is the passing of 250 ms for
everything at once; the screen renders a posted event before the next tick.
`steady` and `away` are history: the plugin has been there since its last answer
and no poll has failed; how long it has been away.

### PacketMonitor

`PacketMonitor` has both threads of the console monitor, `SendCommand` with its
exceptions and timeouts (the result of its send is not looked at, so that recv
follows a send that timed out, and throws), `Stop`, and the destruction of the members at the end of `main`,
which waits for a request that has not left (`ExitsWithPlugin`).

### SubscriberThread

The stream as one subscriber sees it, fed by `MessageSource`: `PublishMessage`
sends a message, which the socket may drop (a full pipe, a subscription not seen
yet), or takes an id and fails; `Reload` begins a session, the first one
included, and loses a tail of what is on its way.
`Receive` is the loop's body up to the lock: nothing but the renderer reads
what it writes, and the renderer reads neither of them before the row is added.
`AddRow` is the critical section and `CountTotal` the increment after it.
`RenderRows` and `RenderTotal` are the two reads of one screen; the second also
keeps, as a history, what the newest row was by then.

The loop is inside of its try block, so that the first exception ends the thread
for good (`packet_monitor_ftxui.cpp:125`). `Throw` is an exception of the sockets,
of `PostEvent`, of recv or of the row's insertion, `ThrowInReceive` one between
recv and the lock, with the message gone and the batch or the number counted or
not; `thrown` is the place, a history. `SkipStray` is a message that the loop
passes over (75, 79). Time is the
number of arrivals, so that a rate is the pair of packets it covers; the rate
is kept when the clock has not moved (`elapsed > 0`).

### PacketTypes, MCPacketTypes

One packet: the hook's arguments, its `PacketInfo`, the frames of its PUB
message and its PUSH message, while the hook goes on to change or block the
packet. The meta frame has three fields that the PUSH message does not have,
`Added`: the version, the session and the message id (`zmq_relay.cpp:201-203`). Of
its bytes there are the counter in the header and the one byte that
a hook may change; a name is the table it comes from and whether the table has
it; a topic is the sequence of its words. `SyncCount` is any value for a packet
whose `sync_count` nothing sets. `base64_encode` is any injection here.

### Base64

`base64_encode`, one step per statement, with the 32-bit arithmetic of `val`.
The signed left shift wraps, as it does on the compilers the build files
target; a standard that leaves it undefined is not modelled. `Encoding` is the
definition of RFC 4648, over groups of three bytes.

## 4. Runs

| run | constants | what it shows |
|---|---|---|
| `relay_safety` | queue of 1, packet 2 rejected, 4 packets, 2 sessions | all safety properties, implements `MessageSource` |
| `relay_liveness` | queue of 1, 2 packets, 2 sessions, `FairSpec` | `ReleaseReturns`, both implementations of `PacketStream` |
| `relay_queue_limit` | queue of 1, 2 packets, 1 session | finding: `publish_queue_` exceeds the limit |
| `relay_guaranteed` | queue of 2, 2 packets, 1 session | finding: a packet is lost on the PUSH path |
| `command_service` | 2 clients, 3 requests, 1 failure, `FairSpec` | in step, answered, ends, implements `CommandService` |
| `health` | a `Delay` of 1 tick, `FairSpec` | `AnswersThisPoll`, `SteadyShown`, `ShownWhileThere`, `NoticesUnload`, `ThreadsEnd` |
| `health_reload` | a `Delay` of 1 tick, `FairSpec` | finding: the health check ends after one timeout |
| `monitor` | none, `FairSpec` | `ResponseFits`, `CommandReturns`, `StopReturns`, `ExitsWithPlugin` |
| `subscriber` | 2 rows, batches of 2, 4 ids, 2 sessions, 1 stray, `FairSpec` | rows, gaps, rate, screen, also when the loop throws; everything shown if it does not; ends |
| `packet_types` | 70 ids around every limit, 4 bytes, 2 counters, 2 message ids | the messages of a packet agree |
| `packet_sync` | the same | finding: an uninitialised `sync_count` is sent |
| `base64` | inputs of up to 6 of 4 bytes | the encoder is right, also after overflow |

A run that a finding is about has one property, which a document or a comment
of the repository states and the code does not have; `PROJECT.json` quotes both.

**Bounds of `ZmqRelay`.** `MaxPackets` packets and `MaxSessions` loads of the plugin. Two
sessions are the least in which ids, counters and queues of one can leak into
the next, and there is no state in which a third differs from the second. With
a queue of one, the limit is met while another packet is in the worker's hands;
with a rejected packet between accepted ones, three packets go through each
path, enough for any two to change places around a third.

**Other bounds.** Three requests of two clients are enough for a client to leave
with a request in the thread's hands and for the other's request to follow it;
one failure is enough, since the socket never recovers. `MonitorUi` and
`PacketMonitor` have a finite state and no bound: failures are counted to three
because the code compares with three only, ages to one tick past the last limit
that is asked of them. With a `Delay` of one tick every sleep and every timeout may
be 250 ms too long: the 2 s hold a pause of 1000 ms and an answer that takes 500 ms, each that
late, with 0 ms to spare. A relay that takes ids, in `SubscriberThread`, has
four of them over two sessions, in any split. `SubscriberThread` has ten for
`Batch` and 2000 for `MaxRows` in the code; with two, four messages complete two
batches and evict two rows, and each place in a batch and in the deque meets
a gap and a reload. One stray is enough, since it changes nothing but the place
in the loop. `MCIds` has both sides of each limit of the classification, the ids
of every table, and those the hooks look for. In `Base64`, 0,
1, 130 and 255 make `val` positive and negative after the fourth byte, with six
bytes for all three lengths modulo 3, before and after the overflow.

**Fairness.** In `ZmqRelay`, weak fairness of each worker's thread, of the main thread inside
a callback, and of Ashita unloading a plugin whose `Initialize` returned false.
The first two are what an operating system's scheduler gives; the timeout of
`wait_for` is part of the publisher's thread. Nothing obliges Ashita to call a
hook or to unload a plugin that runs.

In `CommandThread`, weak fairness of the loop and of `Shutdown`'s join, and
strong fairness of `Receive(c)`: a REP socket takes requests from its clients in
turn, so that one client cannot keep another waiting for ever. In the monitors,
weak fairness of their threads, whose waits all have timeouts, and of a loaded
plugin's answers, which run `command_service` justifies; strong fairness of
`Tick`, since time goes on although packets may at any moment give the screen
something to do first. Users, and the plugin's coming and going, are never obliged,
and neither are exceptions and strays: only `Proceed` is fair in `SubscriberThread`.

## 5. Proofs

`ZmqRelayProofs` proves `TypeCorrect` and `NoWorkerOutlives` for every queue
size, filter, number of packets and number of sessions. Neither invariant is
inductive: that a worker has its socket depends on `Initialize` setting
`running_` only when all three exist and on `Shutdown` resetting them only after
the joins; that a message has a packet the hooks have seen depends on the worker
holding one whenever it is about to send. `LifeCycle` states exactly these facts
and `IInv == TypeOK /\ LifeCycle` is inductive: `ThreadsTypedStep`,
`LifeCycleStep` and `PacketsTypedStep` have one step per action. The only
assumption is `RelayAssumption`, the types of the constants.

`ReliableQueueBounded` is inductive with the types. For `PathsAlwaysAgree`, both
accounts are rewritten by where a packet is (`StreamAccount`,
`ReliableAccount`), and each step is shown to leave both as they were, or, when
`PublishPacket` accepts a packet (`Accepts`), to add that packet to both.
`StatsAlwaysAgree` is inductive with `IInv`.

`SourceRefined` says that `ZmqRelay` implements `MessageSource`. `Initialize` is
its `Load`; `PublisherSend` is `Send`, `SkipId` or, when it fails before the id is
taken, a stutter; `OtherSteps` shows that no other action touches what the
mapping reads. `LifeCycle` gives that a message is only sent in a session that
has begun, `NumberedAppend` that the mapping commutes with `Append`.

`ZmqRelayOrderProofs` proves `StreamOrdered` and `ReliableOrdered`. That the
wire is in order is not inductive; `OrderInv` says more: the queue, the packet
in the worker's hands and the history of the socket follow each other in
increasing order, and the packet that the hook is between its two queues with
is above them all. Lemmas about sequences (`IncreasingAppend`,
`IncreasingFront`, `ElementsFront`) carry it over the steps.

`StreamRefined` and `ReliableRefined` say that each step of `ZmqRelay` is a step
or a stutter of `PacketStream`, on either path. A packet may only be accepted
there behind all others, which is what `OrderInv` gives; `HandFirst` that taking
a packet from the queue does not change `waiting`, the packet being its first
element before and after; `BoundedPackets` that what waits is a packet the hooks
have seen. The two are about `PacketStream!Spec`; its fairness stays with TLC.

`CommandThreadProofs` proves `InStep`, for any clients, requests and failures, and
that `CommandThread` implements `CommandService`. `InStep` follows from `InHands`, which
says at each place of the loop what the thread has in its hands and for whom;
`OneOutstanding` adds that a client has its request in one place only, or the
answer to it. With both, the send is the service's `Serve` (`SendServes`), what
comes before it is a stutter, since a request is `asked` until then, and so is the
increment after it, since `served` has counted it already.

`SubscriberThreadProofs` proves its four invariants for any number of rows, any
batch of two or more and any number of messages, sessions, drops and strays, and
for an exception at any place. `Numbering` says
which row and which count the loop has reached or was in when it ended, `Batches` at which arrivals a
rate begins and ends, `Numbered` that the relay's ids have no hole, `InOrder` that
the pipe has taken messages in the relay's order, `Received` that
`last_remote_msg_id` is that of the newest row, or of the one in the thread's
hands, and that the pipe follows it. `GapsFlagged` is about two rows that have been
added and is not inductive: it needs `Received` for the row that comes next, and
`Numbered` for the ids between the two, which must all have been taken when the
second is sent.

`MonitorUiProofs` proves `AnswersThisPoll` and `ShownWhileThere` for any `Delay`,
and `SteadyShown` for a `Delay` of at most one tick. The hypothesis is the
boundary and not a convenience: with a `Delay` of two ticks TLC finds
`SteadyShown` violated, because the pause and an answer may then take longer
than the 2 s for which the header holds. `OneRequest` is about the socket and the
loop: a socket that may send has nothing under way, one that waits has its
request or the answer to it, and a thread in recv has neither of an earlier poll,
because it has got past a send that such a socket refuses.
`NoSignOfLife` says that neither age that the header reads is less than the
time for which the plugin has been away, `ShownLately` that what is shown was
right at the last turn of `UiTickThread` or later, `AnsweredLately` how old the
last answer can be at each place of the loop while the plugin answers.

`PacketMonitorProofs` proves `ResponseFits`, with the same `OneRequest` about the
main thread.
`PacketTypesProofs` proves the four properties of `packet_types` for any ids,
bytes and counters: `InfoOfPacket` relates a `PacketInfo` to the packet at the
time of the hook, `MessagesOfInfo` and `FramesParts` both messages to the
`PacketInfo`, `AddedFields` says that the relay's three fields replace none, and `NamedByType` a name to the range of the id.

`Base64Proofs` proves `PendingBits` and `EncodesAll` for an input of any length.
`Waiting` bounds the bits that wait between statements, `Padding` carries the
text through the loop that appends `=`. The rest is arithmetic: `ByteAdded` shows
that the overflow of `val << 8` loses only bits that have been encoded,
`CharacterOut`, `RestOut` and `NextSextet` that the six bits a statement takes
are the ones that a group of 24 bits has in that place.

So every invariant of the passing runs is a theorem, and so are
`ServiceImplemented` and `SourceImplemented`. TLC has checked the inductive
invariants too, on the runs' instances, before they were proved. The constants are only
assumed to have their types (`RelayAssumption`, `Base64Assumption` and so on),
but for the `Delay` of `SteadyShown`.

Model-checked only are the liveness properties, since fairness and `ENABLED` are
out of the prover's reach: `ReleaseReturns`, `RequestAnswered`, `ThreadEnds`,
`NoticesUnload`, `ThreadsEnd`, `CommandReturns`, `StopReturns`,
`ExitsWithPlugin`, `EverythingShown`, `SubscriberEnds`, and the fairness in
`StreamImplements` and `ReliableImplements`.

## 6. Seen while modelling

Beside the four findings that runs show, the models make these disagreements
plain, without a run:

- An `inject` request is always answered with failure: the injector of
  `kpacket.cpp:92-96` returns false, and gets no data (`zmq_relay.cpp:366`),
  where `docs/DESIGN.md:160-176` documents success (`PacketInjector`).
- The console monitor's commands all fail after one that timed out, for the
  reason the health check ends: `SendThrows` in `PacketMonitor`'s `Send`.
- The console monitor does not exit while a request waits for a plugin that is
  away, since its socket lingers for ever: the guard of `Destroy`.
- No packet is ever classified as a lobby packet: the range of the world
  packets is tested first and has all ids of the table (`ClassifyPacket`),
  despite the comment of `packet_types.cpp:102`.
- The FTXUI monitor's subscriber ends at its first exception and is not started
  again, while the header goes on saying "connected" for the health check's
  answers: `is_connected`, which the catch clears, is read by nobody (`Throw`).
- A message on the PUSH socket has no `version`, `session_uuid` and `message_id`,
  though `README.md:57` has a `version` in the JSON: `ReliableQueueThread` does
  not add what `PublisherThread` adds (`Added`).
- `docs/DESIGN.md:40` has topics `packet.0x000A`; `TopicForPacket` makes
  `kpacket.v1.world.s2c.0x000A`.

## 7. What is not modelled

- The Direct3D stubs, the exports and the plugin's metadata: no state. The text
  and command hooks are the examples of Ashita's SDK: each call looks at its own
  arguments and answers or changes them, none reads or writes the plugin's state,
  and nothing in the repository says what they should do.
- The build: `CMakeLists.txt`, `cmake/`, `build.ps1`, and `docs/RELEASING.md`.
- The inside of ZeroMQ, nlohmann-json, FTXUI and Ashita: used, not modelled.
- Terminating failures: an exception that leaves a thread function
  (`zmq_relay.cpp:273`) ends the process and leaves no state to speak about.
- Undefined behaviour that no client in the repository reaches: `operator[]` on
  a const json without the key (`zmq_relay.cpp:362`), and the read of
  `packet_queue_.size()` without its mutex (`zmq_relay.cpp:399`).
- `main` of the FTXUI monitor returns while its detached threads may still use
  `model` and `screen` (`packet_monitor_ftxui.cpp:190-195`). What such an access
  does is undefined; `ThreadsEnd` says only that the threads leave their loops.
- The configurations the plugin does not build: sockets that are disabled,
  `pub_use_multipart_raw` off, `ApplySocketOptions` with other values.
- Exceptions of the health check and of the console monitor other than those of
  sends and receives out of turn. They would end the health check as `SendThrows`
  does, and take the console monitor back to its prompt or its loop.
- Gaps across a reload: the monitor compares ids of two sessions, and no
  document says what it should say then. `GapsFlagged` is about one session.
- `filter` does nothing (`zmq_relay.cpp:383`), `from_json`, `IsLobbyPacket` and
  `IsPatchPacket` are never called, and nothing reads `is_connected`.
- Text: names, layout, logging and the JSON syntax.
