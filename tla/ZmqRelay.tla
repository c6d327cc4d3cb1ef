------------------------------ MODULE ZmqRelay ------------------------------
(***************************************************************************)
(* The packet relay of kpacket (src/src/zmq_relay.cpp, and the parts of    *)
(* src/src/kpacket.cpp that drive it): the main thread, on which Ashita    *)
(* calls every plugin callback, and the three workers it starts, the       *)
(* publisher ("pub"), the command thread ("rep") and the reliable-queue    *)
(* thread ("push").                                                        *)
(*                                                                         *)
(* A critical section of publish_mutex_ or queue_mutex_ is one action, an  *)
(* access to the atomic running_ outside of one is an action of its own,   *)
(* and so is the use of a socket.  Packets are numbered in the order in    *)
(* which the hooks see them.  What the command thread does with a request  *)
(* is the subject of CommandThread; here it only polls its socket.         *)
(***************************************************************************)
EXTENDS Naturals, Sequences

CONSTANTS
  MaxQueue,      \* config_.max_queue_size
  Rejected,      \* the packets for which packet_filter_ returns false
  MaxPackets,    \* bound: packets the hooks see
  MaxSessions    \* bound: how often the plugin is loaded

ASSUME RelayAssumption ==
  /\ MaxQueue \in Nat
  /\ Rejected \subseteq Nat
  /\ MaxPackets \in Nat
  /\ MaxSessions \in Nat

VARIABLES
  main,             \* what the main thread is doing
  initialized,      \* what plugin::Initialize returned
  session,          \* ZmqRelay objects constructed so far (session_uuid_)
  running,          \* running_
  sockets,          \* the non-null ones among pub_, rep_, push_socket_
  thread,           \* where each worker is; "none": not joinable
  hold,             \* the packet a worker took from its queue, 0: none
  received,         \* packets seen by the hooks
  publish_queue,    \* publish_queue_
  packet_queue,     \* packet_queue_, the reliable queue
  next_message_id,  \* next_message_id_
  stats,            \* the counters of stats_ that this module updates
  wire,             \* history: what the PUB socket took
  pulled,           \* history: what the PUSH socket took
  lost              \* history: accepted packets each path has dropped

stream == <<publish_queue, next_message_id, stats, wire>>
reliable == <<packet_queue, pulled>>
life == <<initialized, session, running, sockets>>
vars == <<main, thread, hold, received, lost, life, stream, reliable>>

Worker == {"pub", "rep", "push"}

\* The workers that Initialize binds and starts, and Shutdown joins, first.
Before == [pub |-> {}, rep |-> {"pub"}, push |-> {"pub", "rep"}]

Location == {"none", "top", "lock", "waiting", "poll", "send", "count", "done"}

NoStats == [packets_published |-> 0, packets_filtered |-> 0, pub_send_errors |-> 0]

Idle == [w \in Worker |-> "none"]

Elements(s) == {s[i] : i \in 1..Len(s)}

Goto(w, l) == thread' = [thread EXCEPT ![w] = l]

Hold(w, p) == hold' = [hold EXCEPT ![w] = p]

Lose(w, P) == lost' = [lost EXCEPT ![w] = @ \cup P]

Init ==
  /\ main = "unloaded"
  /\ initialized = FALSE
  /\ session = 0
  /\ running = FALSE
  /\ sockets = {}
  /\ thread = Idle
  /\ hold = [w \in Worker |-> 0]
  /\ received = 0
  /\ publish_queue = <<>>
  /\ packet_queue = <<>>
  /\ next_message_id = 1
  /\ stats = NoStats
  /\ wire = <<>>
  /\ pulled = <<>>
  /\ lost = [w \in Worker |-> {}]

(***************************************************************************)
(* The life cycle, on the main thread.                                     *)
(***************************************************************************)

\* A slip TypeOK detects: message ids count from 0.
InitializeFromZero ==
  /\ main = "unloaded"
  /\ session < MaxSessions
  /\ session' = session + 1
  /\ next_message_id' = 0
  /\ stats' = NoStats
  /\ sockets' = Worker
  /\ running' = TRUE
  /\ main' = "start"
  /\ UNCHANGED <<initialized, thread, hold, received, publish_queue, wire, lost, reliable>>

\* A slip SourceImplemented detects: ids go on from the session before.
InitializeKeepsIds ==
  /\ main = "unloaded"
  /\ session < MaxSessions
  /\ session' = session + 1
  /\ stats' = NoStats
  /\ sockets' = Worker
  /\ running' = TRUE
  /\ main' = "start"
  /\ UNCHANGED <<initialized, thread, hold, received, publish_queue, next_message_id, wire, lost, reliable>>

\* plugin::Initialize up to the first std::thread.  The context, a socket or
\* a bind may throw: the sockets made so far stay, and nothing is running.
Initialize ==
  /\ main = "unloaded"
  /\ session < MaxSessions
  /\ session' = session + 1
  /\ next_message_id' = 1
  /\ stats' = NoStats
  /\ \/ /\ \E made \in {{}} \cup {Before[w] \cup {w} : w \in Worker} : sockets' = made
        /\ main' = "idle"
        /\ UNCHANGED running
     \/ /\ sockets' = Worker
        /\ running' = TRUE
        /\ main' = "start"
  /\ UNCHANGED <<initialized, thread, hold, received, publish_queue, wire, lost, reliable>>

\* One std::thread of Initialize.  Its constructor may throw: Initialize then
\* returns false, and neither running_ nor the threads before it are undone.
StartThread(w) ==
  /\ main = "start"
  /\ thread[w] = "none"
  /\ \A v \in Before[w] : thread[v] # "none"
  /\ \/ /\ Goto(w, "top")
        /\ main' = IF w = "push" THEN "idle" ELSE "start"
        /\ initialized' = (w = "push")
     \/ /\ main' = "idle"
        /\ UNCHANGED <<thread, initialized>>
  /\ UNCHANGED <<session, running, sockets, hold, received, lost, stream, reliable>>

\* plugin::Release, or the destruction of the plugin, enters Shutdown.
Shutdown ==
  /\ main = "idle"
  /\ running' = FALSE
  /\ main' = "join"
  /\ UNCHANGED <<initialized, session, sockets, thread, hold, received, lost, stream, reliable>>

\* join() returns once the worker has left its loop.
Join(w) ==
  /\ main = "join"
  /\ thread[w] = "done"
  /\ \A v \in Before[w] : thread[v] = "none"
  /\ Goto(w, "none")
  /\ UNCHANGED <<main, hold, received, lost, life, stream, reliable>>

\* A slip NoWorkerOutlivesRelay detects: Shutdown forgets rep_thread_.
AllJoinedButRep == thread["pub"] = "none" /\ thread["push"] = "none"

\* No std::thread of the relay is joinable.
AllJoined == thread = Idle

\* No thread is joinable: the sockets and the context go, and with the relay
\* the packets still queued.
ResetSockets ==
  /\ main = "join"
  /\ AllJoined
  /\ sockets' = {}
  /\ publish_queue' = <<>>
  /\ packet_queue' = <<>>
  /\ lost' = [lost EXCEPT !.pub = @ \cup Elements(publish_queue),
                          !.push = @ \cup Elements(packet_queue)]
  /\ main' = "unloaded"
  /\ initialized' = FALSE
  /\ UNCHANGED <<session, running, thread, hold, received, next_message_id, stats, wire, pulled>>

(***************************************************************************)
(* A packet hook, on the main thread.                                      *)
(***************************************************************************)

\* A slip ReliableBounded detects.
HasRoomOffByOne == Len(packet_queue) <= MaxQueue

\* packet_queue_.size() < config_.max_queue_size
HasRoom == Len(packet_queue) < MaxQueue

\* plugin::HandleIncomingPacket or HandleOutgoingPacket and PublishPacket up
\* to the end of the queue_mutex_ section.  The hook does nothing for a relay
\* that is not running, and catches what is thrown while it builds or copies
\* the PacketInfo.
PublishPacket ==
  /\ main = "idle"
  /\ received < MaxPackets
  /\ received' = received + 1
  /\ \/ UNCHANGED <<main, packet_queue, stats, lost>>
     \/ /\ running /\ "pub" \in sockets
        /\ received' \in Rejected
        /\ stats' = [stats EXCEPT !.packets_filtered = @ + 1]
        /\ UNCHANGED <<main, packet_queue, lost>>
     \/ /\ running /\ "pub" \in sockets
        /\ received' \notin Rejected
        /\ IF HasRoom
           THEN packet_queue' = Append(packet_queue, received') /\ UNCHANGED lost
           ELSE Lose("push", {received'}) /\ UNCHANGED packet_queue
        /\ main' = "enqueue"
        /\ UNCHANGED stats
  /\ UNCHANGED <<thread, hold, life, publish_queue, next_message_id, wire, pulled>>

\* The publish_mutex_ section of PublishPacket.  When the copy throws, the hook
\* catches it, and the packet is on the reliable path only.
EnqueuePublish ==
  /\ main = "enqueue"
  /\ \/ /\ publish_queue' = Append(publish_queue, received)
        /\ main' = "notify"
        /\ UNCHANGED lost
     \/ /\ Lose("pub", {received})
        /\ main' = "idle"
        /\ UNCHANGED publish_queue
  /\ UNCHANGED <<thread, hold, received, life, next_message_id, stats, wire, reliable>>

\* publish_cv_.notify_one(), and the hook returns.
NotifyPublisher ==
  /\ main = "notify"
  /\ main' = "idle"
  /\ IF thread["pub"] = "waiting" THEN Goto("pub", "lock") ELSE UNCHANGED thread
  /\ UNCHANGED <<hold, received, lost, life, stream, reliable>>

(***************************************************************************)
(* The workers.                                                            *)
(***************************************************************************)

\* while (running_), with the label the loop's body starts at.
LoopTest(w, body) ==
  /\ thread[w] = "top"
  /\ Goto(w, IF running THEN body ELSE "done")
  /\ UNCHANGED <<main, hold, received, lost, life, stream, reliable>>

\* A slip PathsAgree detects: running_ is looked at after the pop.
PublisherTakeThenTest(ifEmpty) ==
  /\ \/ /\ publish_queue = <<>>
        /\ Goto("pub", IF running THEN ifEmpty ELSE "done")
        /\ UNCHANGED <<publish_queue, hold>>
     \/ /\ publish_queue # <<>>
        /\ Hold("pub", Head(publish_queue))
        /\ publish_queue' = Tail(publish_queue)
        /\ Goto("pub", IF running THEN "send" ELSE "done")
  /\ UNCHANGED <<main, received, lost, life, next_message_id, stats, wire, reliable>>

\* publish_mutex_ is held and wait_for looks at its predicate.
PublisherTake(ifEmpty) ==
  /\ \/ /\ ~running
        /\ Goto("pub", "done")
        /\ UNCHANGED <<publish_queue, hold>>
     \/ /\ running /\ publish_queue = <<>>
        /\ Goto("pub", ifEmpty)
        /\ UNCHANGED <<publish_queue, hold>>
     \/ /\ running /\ publish_queue # <<>>
        /\ Hold("pub", Head(publish_queue))
        /\ publish_queue' = Tail(publish_queue)
        /\ Goto("pub", "send")
  /\ UNCHANGED <<main, received, lost, life, next_message_id, stats, wire, reliable>>

PublisherLock == thread["pub"] = "lock" /\ PublisherTake("waiting")

\* A slip ReleaseReturns detects: wait, which only a notification ends.
PublisherNoTimeout == FALSE

\* The 50 ms of wait_for are over.
PublisherTimeout == thread["pub"] = "waiting" /\ PublisherTake("top")

\* The message gets its id and goes to the PUB socket, which never blocks.
MessageSent ==
  /\ wire' = Append(wire, [session |-> session, id |-> next_message_id, packet |-> hold["pub"]])
  /\ next_message_id' = next_message_id + 1
  /\ Goto("pub", "count")
  /\ UNCHANGED <<publish_queue, stats, lost>>

\* A slip StreamInOrder detects: the packet is queued again.
SendFailedRetries ==
  /\ next_message_id' \in {next_message_id, next_message_id + 1}
  /\ stats' = [stats EXCEPT !.pub_send_errors = @ + 1]
  /\ publish_queue' = Append(publish_queue, hold["pub"])
  /\ Goto("pub", "top")
  /\ UNCHANGED <<wire, lost>>

\* A slip StatsAgree detects: the error is not counted.
SendFailedUncounted ==
  /\ next_message_id' \in {next_message_id, next_message_id + 1}
  /\ Lose("pub", {hold["pub"]})
  /\ Goto("pub", "top")
  /\ UNCHANGED <<publish_queue, wire, stats>>

\* A slip StreamImplements detects: the try block is around the loop.
SendFailedEndsLoop ==
  /\ next_message_id' \in {next_message_id, next_message_id + 1}
  /\ stats' = [stats EXCEPT !.pub_send_errors = @ + 1]
  /\ Lose("pub", {hold["pub"]})
  /\ Goto("pub", "done")
  /\ UNCHANGED <<publish_queue, wire>>

\* Anything on the way may throw, before or after the id is taken.
SendFailed ==
  /\ next_message_id' \in {next_message_id, next_message_id + 1}
  /\ stats' = [stats EXCEPT !.pub_send_errors = @ + 1]
  /\ Lose("pub", {hold["pub"]})
  /\ Goto("pub", "top")
  /\ UNCHANGED <<publish_queue, wire>>

PublisherSend ==
  /\ thread["pub"] = "send"
  /\ MessageSent \/ SendFailed
  /\ Hold("pub", 0)
  /\ UNCHANGED <<main, received, life, reliable>>

PublisherCount ==
  /\ thread["pub"] = "count"
  /\ stats' = [stats EXCEPT !.packets_published = @ + 1]
  /\ Goto("pub", "top")
  /\ UNCHANGED <<main, hold, received, lost, life, publish_queue, next_message_id, wire, reliable>>

\* The queue_mutex_ section of ReliableQueueThread, and its 10 ms sleep.
ReliableTake ==
  /\ thread["push"] = "lock"
  /\ \/ /\ packet_queue = <<>>
        /\ Goto("push", "top")
        /\ UNCHANGED <<packet_queue, hold>>
     \/ /\ packet_queue # <<>>
        /\ Hold("push", Head(packet_queue))
        /\ packet_queue' = Tail(packet_queue)
        /\ Goto("push", "send")
  /\ UNCHANGED <<main, received, lost, life, stream, pulled>>

\* A slip ReliableInOrder detects: what was not sent is queued again.
NotSentRetries ==
  /\ packet_queue' = Append(packet_queue, hold["push"])
  /\ Goto("push", "top")
  /\ UNCHANGED <<pulled, lost>>

\* A slip ReliableImplements detects: an error ends the loop.
NotSentEndsLoop ==
  /\ Lose("push", {hold["push"]})
  /\ Goto("push", "done")
  /\ UNCHANGED <<packet_queue, pulled>>

\* send with dontwait: with no PULL peer, or every peer's pipe full, it
\* returns without sending and without throwing, and the result is ignored.
\* The conversion to JSON may throw, with the same effect.
NotSent ==
  /\ Lose("push", {hold["push"]})
  /\ Goto("push", "top")
  /\ UNCHANGED <<packet_queue, pulled>>

ReliableSend ==
  /\ thread["push"] = "send"
  /\ \/ /\ pulled' = Append(pulled, hold["push"])
        /\ Goto("push", "top")
        /\ UNCHANGED <<packet_queue, lost>>
     \/ NotSent
  /\ Hold("push", 0)
  /\ UNCHANGED <<main, received, life, stream>>

\* One turn of CommandThread's loop: it uses rep_socket_ and sleeps 10 ms.
CommandPoll ==
  /\ thread["rep"] = "poll"
  /\ Goto("rep", "top")
  /\ UNCHANGED <<main, hold, received, lost, life, stream, reliable>>

-----------------------------------------------------------------------------

PublisherThread ==
  LoopTest("pub", "lock") \/ PublisherLock \/ PublisherTimeout \/ PublisherSend \/ PublisherCount

ReliableQueueThread == LoopTest("push", "lock") \/ ReliableTake \/ ReliableSend

CommandThread == LoopTest("rep", "poll") \/ CommandPoll

\* What the main thread does without being asked again.
MainThread ==
  \/ \E w \in Worker : StartThread(w) \/ Join(w)
  \/ ResetSockets
  \/ EnqueuePublish
  \/ NotifyPublisher

\* Ashita loads, unloads and calls the hooks as it pleases.
Ashita == Initialize \/ Shutdown \/ PublishPacket

\* The last session is over and the plugin stays unloaded.
Unloaded == main = "unloaded" /\ session = MaxSessions /\ UNCHANGED vars

Next == Ashita \/ MainThread \/ PublisherThread \/ ReliableQueueThread \/ CommandThread \/ Unloaded

Spec == Init /\ [][Next]_vars

\* Every thread keeps running, a wait of 50 ms ends, and Ashita unloads a
\* plugin whose Initialize returned false.
FairSpec ==
  /\ Spec
  /\ WF_vars(MainThread)
  /\ WF_vars(PublisherThread)
  /\ WF_vars(ReliableQueueThread)
  /\ WF_vars(CommandThread)
  /\ WF_vars(~initialized /\ Shutdown)

-----------------------------------------------------------------------------

Counters == [packets_published : Nat, packets_filtered : Nat, pub_send_errors : Nat]

Message == [session : 1..session, id : Nat \ {0}, packet : 1..received]

FlagsTyped == initialized \in BOOLEAN /\ running \in BOOLEAN

ThreadsTyped ==
  /\ main \in {"unloaded", "start", "idle", "enqueue", "notify", "join"}
  /\ session \in Nat
  /\ sockets \subseteq Worker
  /\ thread \in [Worker -> Location]
  /\ thread["rep"] \notin {"lock", "waiting", "send", "count"}
  /\ thread["push"] \notin {"poll", "waiting", "count"}

PacketsTyped ==
  /\ received \in Nat
  /\ hold \in [Worker -> 0..received]
  /\ publish_queue \in Seq(1..received)
  /\ packet_queue \in Seq(1..received)
  /\ wire \in Seq(Message)
  /\ pulled \in Seq(1..received)
  /\ lost \in [Worker -> SUBSET (1..received)]
  /\ next_message_id \in Nat \ {0}
  /\ stats \in Counters

\* Every variable has its type: message ids count from 1, and no queue, wire
\* or worker holds a packet that the hooks have not seen.
TypeOK == FlagsTyped /\ ThreadsTyped /\ PacketsTyped

(***************************************************************************)
(* Safety.                                                                 *)
(***************************************************************************)

\* No worker is ever at work on a relay whose sockets are gone, and none is
\* left joinable when the relay is destroyed (a std::thread destroyed while
\* joinable ends the game): whatever step of Initialize failed, Shutdown
\* joins every started worker before it resets a socket.
NoWorkerOutlivesRelay ==
  /\ \A w \in Worker : thread[w] \notin {"none", "done"} => w \in sockets
  /\ main = "unloaded" => thread = Idle

\* What a subscriber sees is in the order of the game's packets, each at most
\* once, with message ids that rise within a session: push/pop under
\* publish_mutex_ and next_message_id_++ before the send.
StreamInOrder ==
  \A i, j \in 1..Len(wire) : i < j =>
    /\ wire[i].packet < wire[j].packet
    /\ wire[i].session <= wire[j].session
    /\ wire[i].session = wire[j].session => wire[i].id < wire[j].id

\* A PULL worker, too, sees packets in order and at most once.
ReliableInOrder == \A i, j \in 1..Len(pulled) : i < j => pulled[i] < pulled[j]

StreamPackets ==
  {m.packet : m \in Elements(wire)} \cup lost["pub"] \cup Elements(publish_queue)
    \cup (IF thread["pub"] = "send" THEN {hold["pub"]} ELSE {})
    \cup (IF main = "enqueue" THEN {received} ELSE {})

ReliablePackets ==
  Elements(pulled) \cup lost["push"] \cup Elements(packet_queue)
    \cup (IF thread["push"] = "send" THEN {hold["push"]} ELSE {})

\* The stream and the reliable path account for the same packets: one that
\* PublishPacket accepts is, on each of the two, delivered, waiting, in a
\* worker's hands or dropped by a failure that the model records. None is
\* forgotten by one path, or gets into one only, when a queue is full, a copy or
\* a send fails or the relay goes down.
PathsAgree == StreamPackets = ReliablePackets

\* The counters a client reads with "stats" agree with what was sent: the
\* messages of this session are the last ones on the wire, and there are
\* packets_published of them, one more while the publisher is between mp.send
\* and the increment.  The ids missing among them, which a subscriber takes
\* for lost packets, are at most the pub_send_errors.
StatsAgree ==
  LET sent == stats.packets_published + (IF thread["pub"] = "count" THEN 1 ELSE 0)
  IN  /\ sent <= Len(wire)
      /\ \A i \in 1..Len(wire) : wire[i].session = session <=> i > Len(wire) - sent
      /\ next_message_id \in (sent + 1)..(sent + 1 + stats.pub_send_errors)

\* The reliable queue never exceeds its configured size.
ReliableBounded == Len(packet_queue) <= MaxQueue

(***************************************************************************)
(* Liveness, under FairSpec.                                               *)
(***************************************************************************)

\* Release returns: Shutdown does not notify publish_cv_, yet all three joins
\* end, because the publisher's wait times out.
ReleaseReturns == main = "join" ~> main = "unloaded"

(***************************************************************************)
(* What each path promises its clients: PacketStream.                      *)
(***************************************************************************)

InHand(w) == IF thread[w] = "send" THEN <<hold[w]>> ELSE <<>>

Stream == INSTANCE PacketStream WITH
  Packet  <- 1..MaxPackets,
  waiting <- InHand("pub") \o publish_queue,
  out     <- [i \in 1..Len(wire) |-> wire[i].packet]

Reliable == INSTANCE PacketStream WITH
  Packet  <- 1..MaxPackets,
  waiting <- InHand("push") \o packet_queue,
  out     <- pulled

\* The publish queue, the publisher and the PUB socket are a PacketStream: no
\* packet overtakes another or is sent twice, over any number of sessions,
\* and the publisher outlives a failed send, so that no packet stays queued.
StreamImplements == Stream!FairSpec

\* So are the reliable queue, its thread and the PUSH socket: no missing PULL
\* peer can hold up the queue, at the price of the packet.
ReliableImplements == Reliable!FairSpec

\* The messages are numbered as SubscriberThread relies on: MessageSource.
Source == INSTANCE MessageSource WITH
  wire <- [i \in 1..Len(wire) |-> [session |-> wire[i].session, id |-> wire[i].id]]

\* Whatever fails, and whenever the plugin is loaded again, an id is taken once
\* in a session, in order, and a session starts at 1.
SourceImplemented == Source!Spec

(***************************************************************************)
(* What the documents say of the relay and the code does not do.           *)
(***************************************************************************)

\* DESIGN.md:191, "Configurable queue size limits to prevent memory
\* exhaustion": the queue of the publisher should respect the limit, too.
PublishQueueBounded == Len(publish_queue) <= MaxQueue

\* DESIGN.md:50, "Guaranteed delivery for critical packets": while the relay
\* runs, no packet is dropped on the PUSH path.
GuaranteedDelivery == [][running => lost'["push"] = lost["push"]]_vars

=============================================================================
