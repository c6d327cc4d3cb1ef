--------------------------- MODULE ZmqRelayProofs ---------------------------
(***************************************************************************)
(* What holds of the relay (module ZmqRelay) for any queue size, any       *)
(* number of packets and any number of sessions: its types and its life    *)
(* cycle, the numbers of its messages, which are those of MessageSource,   *)
(* and the accounts of its packets and counters.                           *)
(***************************************************************************)
EXTENDS ZmqRelay, SequenceTheorems, TLAPS

\* What the life cycle keeps: hooks and workers only find a relay whose three
\* sockets exist, and a worker holds a packet only while it sends it.
LifeCycle ==
  /\ main \in {"start", "enqueue", "notify"} => running
  /\ running => main \notin {"join", "unloaded"} /\ sockets = Worker
  /\ main = "unloaded" => thread = Idle
  /\ main = "enqueue" => received > 0
  /\ sockets # {} => session > 0
  /\ \A w \in Worker : thread[w] # "none" => sockets = Worker
  /\ \A w \in Worker : thread[w] = "send" <=> hold[w] # 0

IInv == TypeOK /\ LifeCycle

LEMMA InitIInv == Init => IInv
<1> SUFFICES ASSUME Init PROVE IInv
  OBVIOUS
<1>1. FlagsTyped
  BY DEF Init, FlagsTyped
<1>2. ThreadsTyped
  BY DEF Init, ThreadsTyped, Worker, Location, Idle
<1>3. PacketsTyped
  BY DEF Init, PacketsTyped, NoStats, Counters
<1>4. LifeCycle
  BY DEF Init, LifeCycle, Worker, Idle
<1>5. QED
  BY <1>1, <1>2, <1>3, <1>4 DEF IInv, TypeOK

\* The tuples and the abbreviations in which the actions are written.
USE DEF life, stream, reliable, Goto, Hold, Lose

\* The session and the packet count only grow, and so do the types.
LEMMA TypesGrow ==
  ASSUME PacketsTyped, session \in Nat,
         session' \in Nat, session' >= session,
         received' \in Nat, received' >= received
  PROVE  /\ publish_queue \in Seq(1..received')
         /\ packet_queue \in Seq(1..received')
         /\ wire \in Seq(Message')
         /\ pulled \in Seq(1..received')
         /\ lost \in [Worker -> SUBSET (1..received')]
         /\ hold \in [Worker -> 0..received']
<1>1. 1..received \subseteq 1..received' /\ 0..received \subseteq 0..received'
  BY DEF PacketsTyped
<1>2. Message \subseteq Message'
  BY DEF PacketsTyped, Message
<1>3. QED
  BY <1>1, <1>2, SMTT(30) DEF PacketsTyped

\* What a worker takes from a queue.
LEMMA QueueFront ==
  ASSUME NEW S, NEW q \in Seq(S), q # <<>>
  PROVE  Head(q) \in S /\ Tail(q) \in Seq(S)
  BY HeadTailProperties

LEMMA Appended ==
  ASSUME NEW S, NEW q \in Seq(S), NEW e \in S
  PROVE  Append(q, e) \in Seq(S)
  BY AppendProperties

LEMMA ElementsTyped ==
  ASSUME NEW S, NEW q \in Seq(S)
  PROVE  Elements(q) \subseteq S
<1>1. \A i \in 1..Len(q) : q[i] \in S
  BY ElementOfSeq
<1>2. QED
  BY <1>1 DEF Elements

LEMMA ThreadsTypedStep == IInv /\ [Next]_vars => FlagsTyped' /\ ThreadsTyped'
<1> SUFFICES ASSUME IInv, [Next]_vars PROVE FlagsTyped' /\ ThreadsTyped'
  OBVIOUS
<1> USE DEF IInv, TypeOK, FlagsTyped, ThreadsTyped, Worker, Location
<1>1. CASE Initialize
  <2>1. FlagsTyped'
    BY <1>1 DEF Initialize
  <2>2. \A w \in Worker : Before[w] \subseteq Worker
    BY DEF Before
  <2>3. ThreadsTyped'
    BY <1>1, <2>2 DEF Initialize
  <2>4. QED
    BY <2>1, <2>3
<1>2. ASSUME NEW w \in Worker, StartThread(w) PROVE FlagsTyped' /\ ThreadsTyped'
  <2>1. FlagsTyped'
    BY <1>2 DEF StartThread
  <2>2. ThreadsTyped'
    BY <1>2 DEF StartThread
  <2>3. QED
    BY <2>1, <2>2
<1>3. CASE Shutdown
  BY <1>3 DEF Shutdown
<1>4. ASSUME NEW w \in Worker, Join(w) PROVE FlagsTyped' /\ ThreadsTyped'
  BY <1>4 DEF Join
<1>5. CASE ResetSockets
  BY <1>5 DEF ResetSockets, AllJoined
<1>6. CASE PublishPacket
  BY <1>6 DEF PublishPacket
<1>7. CASE EnqueuePublish
  BY <1>7 DEF EnqueuePublish
<1>8. CASE NotifyPublisher
  BY <1>8 DEF NotifyPublisher
<1>9. ASSUME NEW w \in Worker, NEW l \in {"lock", "poll"}, LoopTest(w, l), w = "rep" <=> l = "poll" PROVE FlagsTyped' /\ ThreadsTyped'
  BY <1>9 DEF LoopTest
<1>10. CASE PublisherLock
  BY <1>10 DEF PublisherLock, PublisherTake
<1>11. CASE PublisherTimeout
  BY <1>11 DEF PublisherTimeout, PublisherTake
<1>12. CASE PublisherSend
  BY <1>12 DEF PublisherSend, MessageSent, SendFailed
<1>13. CASE PublisherCount
  BY <1>13 DEF PublisherCount
<1>14. CASE ReliableTake
  BY <1>14 DEF ReliableTake
<1>15. CASE ReliableSend
  BY <1>15 DEF ReliableSend, NotSent
<1>16. CASE CommandPoll
  BY <1>16 DEF CommandPoll
<1>17. CASE UNCHANGED vars
  BY <1>17 DEF vars
<1>18. QED
  BY <1>1, <1>2, <1>3, <1>4, <1>5, <1>6, <1>7, <1>8, <1>9, <1>10, <1>11, <1>12, <1>13, <1>14, <1>15, <1>16, <1>17
     DEF Next, Ashita, MainThread, PublisherThread, ReliableQueueThread, CommandThread, Unloaded

LEMMA LifeCycleStep == IInv /\ [Next]_vars => LifeCycle'
<1> SUFFICES ASSUME IInv, [Next]_vars PROVE LifeCycle'
  OBVIOUS
<1>a. received \in Nat /\ hold \in [Worker -> 0..received]
  BY DEF IInv, TypeOK, PacketsTyped
<1>b. /\ publish_queue # <<>> => Head(publish_queue) \in 1..received
      /\ packet_queue # <<>> => Head(packet_queue) \in 1..received
  BY QueueFront DEF IInv, TypeOK, PacketsTyped
<1> USE DEF IInv, TypeOK, FlagsTyped, ThreadsTyped, LifeCycle, Worker, Idle
<1>1. CASE Initialize
  BY <1>1 DEF Initialize
<1>2. ASSUME NEW w \in Worker, StartThread(w) PROVE LifeCycle'
  BY <1>2 DEF StartThread
<1>3. CASE Shutdown
  BY <1>3 DEF Shutdown
<1>4. ASSUME NEW w \in Worker, Join(w) PROVE LifeCycle'
  BY <1>4 DEF Join
<1>5. CASE ResetSockets
  BY <1>5 DEF ResetSockets, AllJoined
<1>6. CASE PublishPacket
  BY <1>6, <1>a DEF PublishPacket
<1>7. CASE EnqueuePublish
  BY <1>7 DEF EnqueuePublish
<1>8. CASE NotifyPublisher
  BY <1>8 DEF NotifyPublisher
<1>9. ASSUME NEW w \in Worker, NEW l \in {"lock", "poll"}, LoopTest(w, l), w = "rep" <=> l = "poll" PROVE LifeCycle'
  BY <1>9 DEF LoopTest
<1>10. CASE PublisherLock
  BY <1>10, <1>a, <1>b DEF PublisherLock, PublisherTake
<1>11. CASE PublisherTimeout
  BY <1>11, <1>a, <1>b DEF PublisherTimeout, PublisherTake
<1>12. CASE PublisherSend
  BY <1>12, <1>a DEF PublisherSend, MessageSent, SendFailed
<1>13. CASE PublisherCount
  BY <1>13 DEF PublisherCount
<1>14. CASE ReliableTake
  BY <1>14, <1>a, <1>b DEF ReliableTake
<1>15. CASE ReliableSend
  BY <1>15, <1>a DEF ReliableSend, NotSent
<1>16. CASE CommandPoll
  BY <1>16 DEF CommandPoll
<1>17. CASE UNCHANGED vars
  BY <1>17 DEF vars
<1>18. QED
  BY <1>1, <1>2, <1>3, <1>4, <1>5, <1>6, <1>7, <1>8, <1>9, <1>10, <1>11, <1>12, <1>13, <1>14, <1>15, <1>16, <1>17
     DEF Next, Ashita, MainThread, PublisherThread, ReliableQueueThread, CommandThread, Unloaded

LEMMA PacketsTypedStep == IInv /\ [Next]_vars => PacketsTyped'
<1> SUFFICES ASSUME IInv, [Next]_vars PROVE PacketsTyped'
  OBVIOUS
<1> USE DEF Worker
<1>typed. PacketsTyped
  BY DEF IInv, TypeOK
<1>a. received \in Nat /\ session \in Nat
  BY DEF IInv, TypeOK, ThreadsTyped, PacketsTyped
<1>hold. hold \in [Worker -> 0..received]
  BY <1>typed DEF PacketsTyped
<1>queues. publish_queue \in Seq(1..received) /\ packet_queue \in Seq(1..received)
  BY <1>typed DEF PacketsTyped
<1>wire. wire \in Seq(Message)
  BY <1>typed DEF PacketsTyped
<1>pulled. pulled \in Seq(1..received)
  BY <1>typed DEF PacketsTyped
<1>lost. lost \in [Worker -> SUBSET (1..received)]
  BY <1>typed DEF PacketsTyped
<1>id. next_message_id \in Nat \ {0}
  BY <1>typed DEF PacketsTyped
<1>stats. stats \in Counters
  BY <1>typed DEF PacketsTyped
<1>b. /\ publish_queue # <<>> => Head(publish_queue) \in 1..received /\ Tail(publish_queue) \in Seq(1..received)
      /\ packet_queue # <<>> => Head(packet_queue) \in 1..received /\ Tail(packet_queue) \in Seq(1..received)
  BY <1>queues, QueueFront
<1>c. Elements(publish_queue) \subseteq 1..received /\ Elements(packet_queue) \subseteq 1..received
  BY <1>queues, ElementsTyped
<1>1. CASE Initialize
  <2>1. wire \in Seq(Message')
    BY <1>1, <1>typed, <1>a, TypesGrow DEF Initialize
  <2>2. QED
    BY <1>1, <1>typed, <2>1 DEF Initialize, NoStats, Counters, PacketsTyped
<1>2. ASSUME NEW w \in Worker, StartThread(w) PROVE PacketsTyped'
  BY <1>2, <1>typed DEF StartThread, PacketsTyped, Message
<1>3. CASE Shutdown
  BY <1>3, <1>typed DEF Shutdown, PacketsTyped, Message
<1>4. ASSUME NEW w \in Worker, Join(w) PROVE PacketsTyped'
  BY <1>4, <1>typed DEF Join, PacketsTyped, Message
<1>5. CASE ResetSockets
  <2>1. lost' \in [Worker -> SUBSET (1..received)]
    BY <1>5, <1>lost, <1>c DEF ResetSockets
  <2>2. QED
    BY <1>5, <1>typed, <2>1 DEF ResetSockets, PacketsTyped, Message
<1>6. CASE PublishPacket
  <2>1. /\ publish_queue \in Seq(1..received')
        /\ packet_queue \in Seq(1..received')
        /\ wire \in Seq(Message')
        /\ pulled \in Seq(1..received')
        /\ lost \in [Worker -> SUBSET (1..received')]
        /\ hold \in [Worker -> 0..received']
    BY <1>6, <1>typed, <1>a, TypesGrow DEF PublishPacket
  <2>2. received' \in 1..received'
    BY <1>6, <1>a DEF PublishPacket
  <2>3. packet_queue' \in Seq(1..received')
    <3>1. packet_queue' \in {packet_queue, Append(packet_queue, received')}
      BY <1>6 DEF PublishPacket
    <3>2. Append(packet_queue, received') \in Seq(1..received')
      BY <2>1, <2>2, Appended
    <3>3. QED
      BY <2>1, <3>1, <3>2
  <2>4. lost' \in [Worker -> SUBSET (1..received')]
    <3>1. lost' \in {lost, [lost EXCEPT !["push"] = @ \cup {received'}]}
      BY <1>6 DEF PublishPacket
    <3>2. QED
      BY <2>1, <2>2, <3>1
  <2>5. stats' \in Counters
    BY <1>6, <1>stats DEF PublishPacket, Counters
  <2>6. QED
    BY <1>6, <1>typed, <1>a, <2>1, <2>3, <2>4, <2>5 DEF PublishPacket, PacketsTyped
<1>7. CASE EnqueuePublish
  <2>1. received \in 1..received
    BY <1>7, <1>a DEF EnqueuePublish, IInv, LifeCycle
  <2>2. publish_queue' \in Seq(1..received)
    BY <1>7, <1>queues, <2>1, Appended DEF EnqueuePublish
  <2>3. lost' \in [Worker -> SUBSET (1..received)]
    BY <1>7, <1>lost, <2>1 DEF EnqueuePublish
  <2>4. QED
    BY <1>7, <1>typed, <2>2, <2>3 DEF EnqueuePublish, PacketsTyped, Message
<1>8. CASE NotifyPublisher
  BY <1>8, <1>typed DEF NotifyPublisher, PacketsTyped, Message
<1>9. ASSUME NEW w \in Worker, NEW l \in {"lock", "poll"}, LoopTest(w, l), w = "rep" <=> l = "poll" PROVE PacketsTyped'
  BY <1>9, <1>typed DEF LoopTest, PacketsTyped, Message
<1>10. CASE PublisherLock
  <2>1. hold' \in [Worker -> 0..received] /\ publish_queue' \in Seq(1..received)
    <3>1. \/ hold' = hold /\ publish_queue' = publish_queue
          \/ /\ publish_queue # <<>>
             /\ hold' = [hold EXCEPT !["pub"] = Head(publish_queue)]
             /\ publish_queue' = Tail(publish_queue)
      BY <1>10 DEF PublisherLock, PublisherTake
    <3>2. hold' \in [Worker -> 0..received]
      <4>1. publish_queue # <<>> => Head(publish_queue) \in 0..received
        BY <1>a, <1>b
      <4>2. QED
        BY <1>hold, <3>1, <4>1
    <3>3. publish_queue' \in Seq(1..received)
      BY <1>queues, <1>b, <3>1
    <3>4. QED
      BY <3>2, <3>3
  <2>2. QED
    BY <1>10, <1>typed, <2>1 DEF PublisherLock, PublisherTake, PacketsTyped, Message
<1>11. CASE PublisherTimeout
  <2>1. hold' \in [Worker -> 0..received] /\ publish_queue' \in Seq(1..received)
    <3>1. \/ hold' = hold /\ publish_queue' = publish_queue
          \/ /\ publish_queue # <<>>
             /\ hold' = [hold EXCEPT !["pub"] = Head(publish_queue)]
             /\ publish_queue' = Tail(publish_queue)
      BY <1>11 DEF PublisherTimeout, PublisherTake
    <3>2. hold' \in [Worker -> 0..received]
      <4>1. publish_queue # <<>> => Head(publish_queue) \in 0..received
        BY <1>a, <1>b
      <4>2. QED
        BY <1>hold, <3>1, <4>1
    <3>3. publish_queue' \in Seq(1..received)
      BY <1>queues, <1>b, <3>1
    <3>4. QED
      BY <3>2, <3>3
  <2>2. QED
    BY <1>11, <1>typed, <2>1 DEF PublisherTimeout, PublisherTake, PacketsTyped, Message
<1>12. CASE PublisherSend
  <2>1. hold["pub"] \in 1..received /\ session \in 1..session
    BY <1>12, <1>a, <1>hold DEF PublisherSend, IInv, LifeCycle
  <2>2. hold' \in [Worker -> 0..received]
    BY <1>12, <1>a, <1>hold DEF PublisherSend
  <2>3. wire' \in Seq(Message)
    <3>1. [session |-> session, id |-> next_message_id, packet |-> hold["pub"]] \in Message
      BY <2>1, <1>id DEF Message
    <3>2. QED
      BY <1>12, <3>1, <1>wire DEF PublisherSend, MessageSent, SendFailed
  <2>4. lost' \in [Worker -> SUBSET (1..received)]
    BY <1>12, <1>lost, <2>1 DEF PublisherSend, MessageSent, SendFailed
  <2>5. stats' \in Counters /\ next_message_id' \in Nat \ {0}
    BY <1>12, <1>stats, <1>id DEF PublisherSend, MessageSent, SendFailed, Counters
  <2>6. publish_queue' = publish_queue
    BY <1>12 DEF PublisherSend, MessageSent, SendFailed
  <2>7. QED
    BY <1>12, <1>typed, <2>2, <2>3, <2>4, <2>5, <2>6 DEF PublisherSend, PacketsTyped, Message
<1>13. CASE PublisherCount
  <2>1. stats' \in Counters
    BY <1>13, <1>stats DEF PublisherCount, Counters
  <2>2. QED
    BY <1>13, <1>typed, <2>1 DEF PublisherCount, PacketsTyped, Message
<1>14. CASE ReliableTake
  <2>1. hold' \in [Worker -> 0..received] /\ packet_queue' \in Seq(1..received)
    <3>1. \/ hold' = hold /\ packet_queue' = packet_queue
          \/ /\ packet_queue # <<>>
             /\ hold' = [hold EXCEPT !["push"] = Head(packet_queue)]
             /\ packet_queue' = Tail(packet_queue)
      BY <1>14 DEF ReliableTake
    <3>2. hold' \in [Worker -> 0..received]
      <4>1. packet_queue # <<>> => Head(packet_queue) \in 0..received
        BY <1>a, <1>b
      <4>2. QED
        BY <1>hold, <3>1, <4>1
    <3>3. packet_queue' \in Seq(1..received)
      BY <1>queues, <1>b, <3>1
    <3>4. QED
      BY <3>2, <3>3
  <2>2. QED
    BY <1>14, <1>typed, <2>1 DEF ReliableTake, PacketsTyped, Message
<1>15. CASE ReliableSend
  <2>1. hold["push"] \in 1..received
    BY <1>15, <1>a, <1>hold DEF ReliableSend, IInv, LifeCycle
  <2>2. pulled' \in Seq(1..received)
    <3>1. pulled' \in {pulled, Append(pulled, hold["push"])}
      BY <1>15 DEF ReliableSend, NotSent
    <3>2. QED
      BY <1>pulled, <2>1, <3>1, Appended
  <2>3. lost' \in [Worker -> SUBSET (1..received)]
    BY <1>15, <1>lost, <2>1 DEF ReliableSend, NotSent
  <2>4. hold' \in [Worker -> 0..received] /\ packet_queue' = packet_queue
    BY <1>15, <1>a, <1>hold DEF ReliableSend, NotSent
  <2>5. QED
    BY <1>15, <1>typed, <2>2, <2>3, <2>4 DEF ReliableSend, PacketsTyped, Message
<1>16. CASE CommandPoll
  BY <1>16, <1>typed DEF CommandPoll, PacketsTyped, Message
<1>17. CASE UNCHANGED vars
  BY <1>17, <1>typed DEF vars, PacketsTyped, Message
<1>18. QED
  BY <1>1, <1>2, <1>3, <1>4, <1>5, <1>6, <1>7, <1>8, <1>9, <1>10, <1>11, <1>12, <1>13, <1>14, <1>15, <1>16, <1>17
     DEF Next, Ashita, MainThread, PublisherThread, ReliableQueueThread, CommandThread, Unloaded

\* What holds in every state of the relay, whatever fails.
THEOREM InductiveInvariant == Spec => []IInv
<1>1. IInv /\ [Next]_vars => IInv'
  BY ThreadsTypedStep, LifeCycleStep, PacketsTypedStep DEF IInv, TypeOK
<1>2. QED
  BY InitIInv, <1>1, PTL DEF Spec

(***************************************************************************)
(* Every variable keeps its type: in particular no queue, no socket and no *)
(* worker ever holds a packet that the hooks have not seen.                *)
(***************************************************************************)
THEOREM TypeCorrect == Spec => []TypeOK
<1>1. IInv => TypeOK
  BY DEF IInv
<1>2. QED
  BY InductiveInvariant, <1>1, PTL

(***************************************************************************)
(* Whatever step of Initialize fails, and whenever Release comes, no       *)
(* worker uses a socket that is gone and no thread outlives the relay.     *)
(***************************************************************************)
THEOREM NoWorkerOutlives == Spec => []NoWorkerOutlivesRelay
<1>1. IInv => NoWorkerOutlivesRelay
  BY DEF IInv, LifeCycle, NoWorkerOutlivesRelay
<1>2. QED
  BY InductiveInvariant, <1>1, PTL

(***************************************************************************)
(* The numbers of the messages: MessageSource.                             *)
(***************************************************************************)

\* What is read off each element of a sequence, and of one that grows.
LEMMA MapAppend ==
  ASSUME NEW S, NEW w \in Seq(S), NEW m \in S, NEW f
  PROVE  [i \in 1..Len(Append(w, m)) |-> f[Append(w, m)[i]]] = Append([i \in 1..Len(w) |-> f[w[i]]], f[m])
<1> DEFINE v == Append(w, m)
           n == [i \in 1..Len(w) |-> f[w[i]]]
           T == {n[i] : i \in 1..Len(w)} \cup {f[m]}
<1>1. Len(w) \in Nat
  BY LenProperties
<1>2. Len(v) = Len(w) + 1 /\ (\A i \in 1..Len(w) : v[i] = w[i]) /\ v[Len(w) + 1] = m
  BY AppendProperties
<1>3. n \in Seq(T) /\ Len(n) = Len(w) /\ f[m] \in T
  <2>1. n \in [1..Len(w) -> T]
    OBVIOUS
  <2>2. QED
    BY <1>1, <2>1, SeqDef, LenProperties
<1>4. \A i \in 1..Len(w) : n[i] = f[w[i]]
  OBVIOUS
<1> HIDE DEF v, n, T
<1>5. /\ Append(n, f[m]) \in Seq(T)
      /\ Len(Append(n, f[m])) = Len(w) + 1
      /\ \A i \in 1..Len(w) : Append(n, f[m])[i] = n[i]
      /\ Append(n, f[m])[Len(w) + 1] = f[m]
  BY <1>3, AppendProperties
<1>6. Append(n, f[m]) \in [1..(Len(w) + 1) -> T]
  BY <1>5, LenProperties
<1>7. \A i \in 1..(Len(w) + 1) : f[v[i]] = Append(n, f[m])[i]
  <2> SUFFICES ASSUME NEW i \in 1..(Len(w) + 1) PROVE f[v[i]] = Append(n, f[m])[i]
    OBVIOUS
  <2>1. CASE i \in 1..Len(w)
    BY <2>1, <1>2, <1>4, <1>5
  <2>2. CASE i = Len(w) + 1
    BY <2>2, <1>2, <1>5
  <2>3. i \in 1..Len(w) \/ i = Len(w) + 1
    BY <1>1
  <2>4. QED
    BY <2>1, <2>2, <2>3
<1>8. [i \in 1..Len(v) |-> f[v[i]]] = Append(n, f[m])
  BY <1>2, <1>6, <1>7
<1>9. QED
  BY <1>8 DEF v, n

Numbered(w) == [i \in 1..Len(w) |-> [session |-> w[i].session, id |-> w[i].id]]

LEMMA NumberedAppend ==
  ASSUME NEW S, NEW w \in Seq(S), NEW m \in S
  PROVE  Numbered(Append(w, m)) = Append(Numbered(w), [session |-> m.session, id |-> m.id])
<1> DEFINE f == [x \in S |-> [session |-> x.session, id |-> x.id]]
<1>1. Append(w, m) \in Seq(S)
  BY AppendProperties
<1>2. \A v \in Seq(S) : Numbered(v) = [i \in 1..Len(v) |-> f[v[i]]]
  BY ElementOfSeq DEF Numbered
<1>3. f[m] = [session |-> m.session, id |-> m.id]
  OBVIOUS
<1> HIDE DEF f
<1>4. [i \in 1..Len(Append(w, m)) |-> f[Append(w, m)[i]]] = Append([i \in 1..Len(w) |-> f[w[i]]], f[m])
  BY MapAppend
<1>5. QED
  BY <1>1, <1>2, <1>3, <1>4

\* Nothing but Initialize and PublisherSend touches what a subscriber counts.
LEMMA OtherSteps ==
  ASSUME [Next]_vars, ~Initialize, ~PublisherSend
  PROVE  UNCHANGED <<session, next_message_id, wire>>
<1>1. CASE \E w \in Worker : StartThread(w) \/ Join(w)
  <2>1. PICK w \in Worker : StartThread(w) \/ Join(w)
    BY <1>1
  <2>2. CASE StartThread(w)
    BY <2>2 DEF StartThread
  <2>3. CASE Join(w)
    BY <2>3 DEF Join
  <2>4. QED
    BY <2>1, <2>2, <2>3
<1>2. CASE ResetSockets
  BY <1>2 DEF ResetSockets
<1>3. CASE EnqueuePublish
  BY <1>3 DEF EnqueuePublish
<1>4. CASE NotifyPublisher
  BY <1>4 DEF NotifyPublisher
<1>5. CASE Shutdown
  BY <1>5 DEF Shutdown
<1>6. CASE PublishPacket
  BY <1>6 DEF PublishPacket
<1>7. CASE LoopTest("pub", "lock") \/ LoopTest("push", "lock") \/ LoopTest("rep", "poll")
  BY <1>7 DEF LoopTest
<1>8. CASE PublisherLock \/ PublisherTimeout
  BY <1>8 DEF PublisherLock, PublisherTimeout, PublisherTake
<1>9. CASE PublisherCount
  BY <1>9 DEF PublisherCount
<1>10. CASE ReliableTake
  BY <1>10 DEF ReliableTake
<1>11. CASE ReliableSend
  BY <1>11 DEF ReliableSend
<1>12. CASE CommandPoll
  BY <1>12 DEF CommandPoll
<1>13. CASE UNCHANGED vars
  BY <1>13 DEF vars
<1>14. QED
  BY <1>1, <1>2, <1>3, <1>4, <1>5, <1>6, <1>7, <1>8, <1>9, <1>10, <1>11, <1>12, <1>13
     DEF Next, Ashita, MainThread, PublisherThread, ReliableQueueThread, CommandThread, Unloaded

\* Initialize begins a session, PublisherSend takes the next id for what it
\* sends, or takes it in vain, or fails before.
LEMMA SourceStep == IInv /\ [Next]_vars => [Source!Next]_(Source!source)
<1> SUFFICES ASSUME IInv, [Next]_vars PROVE [Source!Next]_(Source!source)
  OBVIOUS
<1> USE DEF Source!Next, Source!source
<1>1. CASE Initialize
  <2>1. Source!Load
    BY <1>1 DEF Initialize, Source!Load
  <2>2. QED
    BY <2>1
<1>2. CASE PublisherSend
  <2>1. session > 0 /\ session' = session
    BY <1>2 DEF PublisherSend, IInv, LifeCycle, Worker
  <2>2. CASE MessageSent
    <3> DEFINE message == [session |-> session, id |-> next_message_id, packet |-> hold["pub"]]
    <3>1. wire \in Seq(Message) /\ message \in Message
      <4>1. hold["pub"] \in 1..received /\ session \in 1..session
        BY <1>2, <2>1 DEF PublisherSend, IInv, TypeOK, LifeCycle, ThreadsTyped, PacketsTyped, Worker
      <4>2. QED
        BY <4>1 DEF IInv, TypeOK, PacketsTyped, Message
    <3>2. Numbered(wire') = Append(Numbered(wire), [session |-> session, id |-> next_message_id])
      <4>1. wire' = Append(wire, message)
        BY <2>2 DEF MessageSent
      <4>2. Numbered(Append(wire, message)) = Append(Numbered(wire), [session |-> message.session, id |-> message.id])
        BY ONLY <3>1, NumberedAppend
      <4>3. QED
        BY <4>1, <4>2
    <3>3. Source!Send
      BY <2>1, <2>2, <3>2 DEF MessageSent, Source!Send, Source!TakeId, Source!Message, Numbered
    <3>4. QED
      BY <3>3
  <2>3. CASE SendFailed
    BY <2>1, <2>3 DEF SendFailed, Source!SkipId, Source!TakeId
  <2>4. QED
    BY <1>2, <2>2, <2>3 DEF PublisherSend
<1>3. CASE ~Initialize /\ ~PublisherSend
  BY <1>3, OtherSteps
<1>4. QED
  BY <1>1, <1>2, <1>3

(***************************************************************************)
(* Whatever fails, and however often the plugin is loaded, an id is taken  *)
(* once in a session, in order, and every session starts at 1: what the    *)
(* gap detection of a monitor rests on.                                    *)
(***************************************************************************)
THEOREM SourceRefined == Spec => SourceImplemented
<1>1. Init => Source!Init
  BY DEF Init, Source!Init
<1>2. IInv /\ [Next]_vars => [Source!Next]_(Source!source)
  BY SourceStep
<1>3. QED
  BY <1>1, <1>2, InductiveInvariant, PTL DEF Spec, SourceImplemented, Source!Spec

(***************************************************************************)
(* Sequences at their ends, and what the packets' types say of them.       *)
(***************************************************************************)

LEMMA ElementsEmpty == Elements(<<>>) = {}
  BY DEF Elements

LEMMA ElementsAppend ==
  ASSUME NEW S, NEW s \in Seq(S), NEW e \in S
  PROVE  Elements(Append(s, e)) = Elements(s) \cup {e}
<1> DEFINE t == Append(s, e)
<1>1. Len(t) = Len(s) + 1 /\ (\A i \in 1..Len(s) : t[i] = s[i]) /\ t[Len(s) + 1] = e
  BY AppendProperties
<1>2. Len(s) \in Nat
  BY LenProperties
<1> HIDE DEF t
<1>3. 1..Len(t) = 1..Len(s) \cup {Len(s) + 1}
  BY <1>1, <1>2
<1>4. QED
  BY <1>1, <1>2, <1>3 DEF Elements, t

LEMMA ElementsFront ==
  ASSUME NEW S, NEW s \in Seq(S), s # <<>>
  PROVE  Elements(s) = {Head(s)} \cup Elements(Tail(s))
<1> DEFINE t == Tail(s)
<1>1. Len(t) = Len(s) - 1 /\ (\A i \in 1..Len(t) : t[i] = s[i + 1])
  BY HeadTailProperties
<1>2. Len(s) \in Nat /\ Len(s) > 0 /\ Head(s) = s[1]
  OBVIOUS
<1> HIDE DEF t
<1>3. ASSUME NEW x \in Elements(s) PROVE x \in {Head(s)} \cup Elements(t)
  <2>1. PICK i \in 1..Len(s) : x = s[i]
    BY DEF Elements
  <2>2. CASE i = 1
    BY <1>2, <2>1, <2>2
  <2>3. CASE i # 1
    <3>1. i - 1 \in 1..Len(t) /\ t[i - 1] = s[i]
      BY <1>1, <1>2, <2>1, <2>3
    <3>2. QED
      BY <2>1, <3>1 DEF Elements
  <2>4. QED
    BY <2>2, <2>3
<1>4. Head(s) \in Elements(s)
  BY <1>2 DEF Elements
<1>5. ASSUME NEW x \in Elements(t) PROVE x \in Elements(s)
  <2>1. PICK i \in 1..Len(t) : x = t[i]
    BY DEF Elements
  <2>2. i + 1 \in 1..Len(s) /\ x = s[i + 1]
    BY <1>1, <1>2, <2>1
  <2>3. QED
    BY <2>2 DEF Elements
<1>6. QED
  BY <1>3, <1>4, <1>5 DEF t

\* The packets that a subscriber has been sent.
WirePackets == {m.packet : m \in Elements(wire)}

LEMMA PacketTypes ==
  ASSUME IInv
  PROVE  /\ received \in Nat /\ session \in Nat /\ next_message_id \in Nat
         /\ hold["pub"] \in 0..received /\ hold["push"] \in 0..received
         /\ publish_queue \in Seq(1..received) /\ publish_queue \in Seq(Nat)
         /\ packet_queue \in Seq(1..received) /\ packet_queue \in Seq(Nat)
         /\ pulled \in Seq(1..received) /\ pulled \in Seq(Nat)
         /\ wire \in Seq(Message)
<1>1. /\ publish_queue \in Seq(1..received)
      /\ packet_queue \in Seq(1..received)
      /\ pulled \in Seq(1..received)
      /\ received \in Nat
      /\ wire \in Seq(Message)
  BY DEF IInv, TypeOK, PacketsTyped
<1>2. session \in Nat /\ next_message_id \in Nat
  BY DEF IInv, TypeOK, ThreadsTyped, PacketsTyped
<1>3. hold["pub"] \in 0..received /\ hold["push"] \in 0..received
  BY DEF IInv, TypeOK, PacketsTyped, Worker
<1>4. 1..received \subseteq Nat
  BY <1>1
<1>5. \A q \in Seq(1..received) : q \in Seq(Nat)
  BY <1>4, SeqMonotonic
<1>6. QED
  BY <1>1, <1>2, <1>3, <1>5

LEMMA PacketElements ==
  ASSUME IInv
  PROVE  /\ Elements(publish_queue) \subseteq 1..received
         /\ Elements(packet_queue) \subseteq 1..received
         /\ Elements(pulled) \subseteq 1..received
         /\ Elements(wire) \subseteq Message
         /\ WirePackets \subseteq 1..received
<1>1. /\ Elements(publish_queue) \subseteq 1..received
      /\ Elements(packet_queue) \subseteq 1..received
      /\ Elements(pulled) \subseteq 1..received
      /\ Elements(wire) \subseteq Message
  BY PacketTypes, ElementsTyped
<1>2. QED
  BY <1>1 DEF WirePackets, Message

(***************************************************************************)
(* The limit of the reliable queue.                                        *)
(***************************************************************************)

LEMMA BoundedStep == IInv /\ ReliableBounded /\ [Next]_vars => ReliableBounded'
<1> SUFFICES ASSUME IInv, ReliableBounded, [Next]_vars PROVE ReliableBounded'
  OBVIOUS
<1> USE DEF Goto, Hold, Lose, life, stream, reliable
<1>typed. received \in Nat /\ packet_queue \in Seq(Nat) /\ Len(packet_queue) \in Nat
  BY PacketTypes, LenProperties
<1>1. CASE PublishPacket
  <2>1. \/ packet_queue' = packet_queue
        \/ Len(packet_queue) < MaxQueue /\ packet_queue' = Append(packet_queue, received + 1)
    BY <1>1 DEF PublishPacket, HasRoom
  <2>2. Len(Append(packet_queue, received + 1)) = Len(packet_queue) + 1
    BY <1>typed, AppendProperties
  <2>3. QED
    BY <1>typed, <2>1, <2>2, RelayAssumption DEF ReliableBounded, RelayAssumption
<1>2. CASE ReliableTake
  <2>1. \/ packet_queue' = packet_queue
        \/ packet_queue # <<>> /\ packet_queue' = Tail(packet_queue)
    BY <1>2 DEF ReliableTake
  <2>2. packet_queue # <<>> => Len(Tail(packet_queue)) = Len(packet_queue) - 1
    BY <1>typed, HeadTailProperties
  <2>3. QED
    BY <1>typed, <2>1, <2>2, RelayAssumption DEF ReliableBounded, RelayAssumption
<1>3. CASE ResetSockets
  BY <1>3, RelayAssumption DEF ResetSockets, ReliableBounded, RelayAssumption
<1>4. ASSUME NEW w \in Worker, NEW l \in {"lock", "poll"},
             \/ Initialize \/ StartThread(w) \/ Shutdown \/ Join(w)
             \/ EnqueuePublish \/ NotifyPublisher \/ LoopTest(w, l)
             \/ PublisherLock \/ PublisherTimeout \/ PublisherSend \/ PublisherCount
             \/ ReliableSend \/ CommandPoll \/ UNCHANGED vars
      PROVE  ReliableBounded'
  <2>1. packet_queue' = packet_queue
    BY <1>4 DEF Initialize, StartThread, Shutdown, Join, EnqueuePublish, NotifyPublisher,
                LoopTest, PublisherLock, PublisherTimeout, PublisherTake, PublisherSend,
                PublisherCount, ReliableSend, NotSent, CommandPoll, vars
  <2>2. QED
    BY <2>1 DEF ReliableBounded
<1>5. QED
  BY <1>1, <1>2, <1>3, <1>4
     DEF Next, Ashita, MainThread, PublisherThread, ReliableQueueThread, CommandThread, Unloaded, Worker

(***************************************************************************)
(* The reliable queue never exceeds max_queue_size.                        *)
(***************************************************************************)
THEOREM ReliableQueueBounded == Spec => []ReliableBounded
<1>1. Init => ReliableBounded
  BY RelayAssumption DEF Init, ReliableBounded, RelayAssumption
<1>2. QED
  BY <1>1, BoundedStep, InductiveInvariant, PTL DEF Spec

(***************************************************************************)
(* Where the packets are.                                                  *)
(***************************************************************************)

\* The packets of the two paths, in terms of what the workers hold.
StreamAccount ==
  WirePackets \cup lost["pub"] \cup Elements(publish_queue) \cup ({hold["pub"]} \ {0})
    \cup (IF main = "enqueue" THEN {received} ELSE {})

ReliableAccount ==
  Elements(pulled) \cup lost["push"] \cup Elements(packet_queue) \cup ({hold["push"]} \ {0})

LEMMA Accounts == IInv => StreamPackets = StreamAccount /\ ReliablePackets = ReliableAccount
<1> SUFFICES ASSUME IInv PROVE StreamPackets = StreamAccount /\ ReliablePackets = ReliableAccount
  OBVIOUS
<1>1. \A w \in {"pub", "push"} : thread[w] = "send" <=> hold[w] # 0
  BY DEF IInv, LifeCycle, Worker
<1>2. \A w \in {"pub", "push"} :
        (IF thread[w] = "send" THEN {hold[w]} ELSE {}) = {hold[w]} \ {0}
  BY <1>1
<1>3. QED
  BY <1>2 DEF StreamPackets, StreamAccount, ReliablePackets, ReliableAccount, WirePackets

\* The step in which PublishPacket accepts a packet.
Accepts == PublishPacket /\ main' = "enqueue"

\* Only EnqueuePublish and the publisher move packets of the stream, and none
\* of them is forgotten or made up.
LEMMA StreamAccountStep ==
  ASSUME IInv, [Next]_vars
  PROVE  StreamAccount' = StreamAccount \cup (IF Accepts THEN {received'} ELSE {})
<1> USE DEF Goto, Hold, Lose, life, stream, reliable
<1>typed. /\ received \in Nat
          /\ hold \in [Worker -> 0..received]
          /\ lost \in [Worker -> SUBSET (1..received)]
          /\ publish_queue \in Seq(1..received)
          /\ wire \in Seq(Message)
  BY PacketTypes DEF IInv, TypeOK, PacketsTyped
<1>wire. wire' = wire => WirePackets' = WirePackets
  BY DEF WirePackets
<1>1. CASE PublishPacket
  <2>1. /\ wire' = wire /\ publish_queue' = publish_queue /\ hold' = hold
        /\ main = "idle" /\ main' \in {"idle", "enqueue"}
        /\ lost'["pub"] = lost["pub"]
    BY <1>1, <1>typed DEF PublishPacket, Worker
  <2>2. CASE main' = "idle"
    BY <1>wire, <2>1, <2>2 DEF StreamAccount, Accepts
  <2>3. CASE main' = "enqueue"
    <3>1. StreamAccount' = WirePackets \cup lost["pub"] \cup Elements(publish_queue)
                             \cup ({hold["pub"]} \ {0}) \cup {received'}
      BY <1>wire, <2>1, <2>3 DEF StreamAccount
    <3>2. StreamAccount = WirePackets \cup lost["pub"] \cup Elements(publish_queue)
                             \cup ({hold["pub"]} \ {0})
      BY <2>1 DEF StreamAccount
    <3>3. QED
      BY <1>1, <2>3, <3>1, <3>2 DEF Accepts
  <2>4. QED
    BY <2>1, <2>2, <2>3
<1>2. ASSUME EnqueuePublish PROVE StreamAccount' = StreamAccount
  <2>1. /\ wire' = wire /\ hold' = hold /\ main = "enqueue" /\ main' # "enqueue"
        /\ \/ publish_queue' = Append(publish_queue, received) /\ lost' = lost
           \/ publish_queue' = publish_queue /\ lost'["pub"] = lost["pub"] \cup {received}
    BY <1>2, <1>typed DEF EnqueuePublish, Worker
  <2>2. received \in 1..received
    BY <1>typed, <2>1 DEF IInv, LifeCycle
  <2>3. Elements(Append(publish_queue, received)) = Elements(publish_queue) \cup {received}
    <3>1. publish_queue \in Seq(1..received)
      BY <1>typed
    <3>2. QED
      BY <2>2, <3>1, ElementsAppend
  <2>4. QED
    BY <1>wire, <2>1, <2>3 DEF StreamAccount
<1>3. ASSUME PublisherLock \/ PublisherTimeout
      PROVE  StreamAccount' = StreamAccount
  <2>1. /\ wire' = wire /\ main' = main /\ received' = received /\ lost' = lost
        /\ \/ publish_queue' = publish_queue /\ hold' = hold
           \/ /\ publish_queue # <<>>
              /\ publish_queue' = Tail(publish_queue)
              /\ hold'["pub"] = Head(publish_queue)
    BY <1>3, <1>typed DEF PublisherLock, PublisherTimeout, PublisherTake, Worker
  <2>2. hold["pub"] = 0
    BY <1>3 DEF PublisherLock, PublisherTimeout, IInv, LifeCycle, Worker
  <2>3. publish_queue # <<>> =>
          /\ Head(publish_queue) # 0
          /\ Elements(publish_queue) = {Head(publish_queue)} \cup Elements(Tail(publish_queue))
    BY <1>typed, ElementsFront, QueueFront
  <2>4. QED
    BY <1>wire, <2>1, <2>2, <2>3 DEF StreamAccount
<1>4. ASSUME PublisherSend PROVE StreamAccount' = StreamAccount
  <2>1. hold["pub"] # 0 /\ sockets = Worker
    BY <1>4 DEF PublisherSend, IInv, LifeCycle, Worker
  <2>2. /\ main' = main /\ received' = received /\ hold'["pub"] = 0
        /\ publish_queue' = publish_queue
    BY <1>4, <1>typed DEF PublisherSend, MessageSent, SendFailed, Worker
  <2>3. CASE SendFailed
    <3>1. wire' = wire /\ lost'["pub"] = lost["pub"] \cup {hold["pub"]}
      BY <2>3, <1>typed DEF SendFailed, Worker
    <3>2. QED
      BY <1>wire, <2>1, <2>2, <3>1 DEF StreamAccount
  <2>4. CASE MessageSent
    <3> DEFINE new == [session |-> session, id |-> next_message_id, packet |-> hold["pub"]]
    <3>1. lost' = lost /\ wire' = Append(wire, new)
      BY <2>4 DEF MessageSent
    <3>2. new \in Message
      <4>1. session \in 1..session
        BY <2>1, PacketTypes DEF IInv, LifeCycle, Worker
      <4>2. hold["pub"] \in 1..received
        BY <1>typed, <2>1 DEF Worker
      <4>3. next_message_id \in Nat \ {0}
        BY DEF IInv, TypeOK, PacketsTyped
      <4>4. QED
        BY <4>1, <4>2, <4>3 DEF Message
    <3>3. new.packet = hold["pub"]
      OBVIOUS
    <3> HIDE DEF new
    <3>4. Elements(wire') = Elements(wire) \cup {new}
      BY <1>typed, <3>1, <3>2, ElementsAppend
    <3>5. WirePackets' = WirePackets \cup {hold["pub"]}
      BY <3>3, <3>4 DEF WirePackets
    <3>6. QED
      BY <2>1, <2>2, <3>1, <3>5 DEF StreamAccount
  <2>5. QED
    BY <1>4, <2>3, <2>4 DEF PublisherSend
<1>5. ASSUME ResetSockets PROVE StreamAccount' = StreamAccount
  <2>1. /\ wire' = wire /\ hold' = hold /\ main # "enqueue" /\ main' # "enqueue"
        /\ publish_queue' = <<>>
        /\ lost'["pub"] = lost["pub"] \cup Elements(publish_queue)
    BY <1>5, <1>typed DEF ResetSockets, Worker
  <2>2. QED
    BY <1>wire, <2>1, ElementsEmpty DEF StreamAccount
<1>6. ASSUME ReliableTake \/ ReliableSend PROVE StreamAccount' = StreamAccount
  <2>1. /\ wire' = wire /\ publish_queue' = publish_queue
        /\ main' = main /\ received' = received
        /\ hold'["pub"] = hold["pub"] /\ lost'["pub"] = lost["pub"]
    BY <1>6, <1>typed DEF ReliableTake, ReliableSend, NotSent, Worker
  <2>2. QED
    BY <1>wire, <2>1 DEF StreamAccount
<1>7. ASSUME NEW w \in Worker, NEW l \in {"lock", "poll"},
             \/ Initialize \/ StartThread(w) \/ Shutdown \/ Join(w) \/ NotifyPublisher
             \/ LoopTest(w, l) \/ PublisherCount \/ CommandPoll \/ UNCHANGED vars
      PROVE  StreamAccount' = StreamAccount
  <2>1. /\ wire' = wire /\ publish_queue' = publish_queue /\ hold' = hold /\ lost' = lost
        /\ received' = received
        /\ main' = "enqueue" <=> main = "enqueue"
    BY <1>7 DEF Initialize, StartThread, Shutdown, Join, NotifyPublisher, LoopTest,
                PublisherCount, CommandPoll, vars
  <2>2. QED
    BY <1>wire, <2>1 DEF StreamAccount
<1>8. CASE PublishPacket
  BY <1>1, <1>8
<1>9. CASE ~PublishPacket
  <2>1. StreamAccount' = StreamAccount
    BY <1>2, <1>3, <1>4, <1>5, <1>6, <1>7, <1>9
       DEF Next, Ashita, MainThread, PublisherThread, ReliableQueueThread, CommandThread, Unloaded, Worker
  <2>2. QED
    BY <1>9, <2>1 DEF Accepts
<1>10. QED
  BY <1>8, <1>9

\* Nor does the reliable path: PublishPacket queues or drops, the thread sends
\* or drops, and ResetSockets drops what is left.
LEMMA ReliableAccountStep ==
  ASSUME IInv, [Next]_vars
  PROVE  ReliableAccount' = ReliableAccount \cup (IF Accepts THEN {received'} ELSE {})
<1> USE DEF Goto, Hold, Lose, life, stream, reliable
<1>typed. /\ received \in Nat
          /\ hold \in [Worker -> 0..received]
          /\ lost \in [Worker -> SUBSET (1..received)]
          /\ packet_queue \in Seq(1..received)
          /\ packet_queue \in Seq(Nat)
          /\ pulled \in Seq(1..received)
  BY PacketTypes DEF IInv, TypeOK, PacketsTyped
<1>1. CASE PublishPacket
  <2>1. /\ pulled' = pulled /\ hold' = hold /\ main \in {"idle"} /\ received' \in Nat
        /\ main' \in {"idle", "enqueue"}
        /\ main' = "idle" => packet_queue' = packet_queue /\ lost' = lost
        /\ main' = "enqueue" =>
             \/ packet_queue' = Append(packet_queue, received') /\ lost' = lost
             \/ packet_queue' = packet_queue /\ lost'["push"] = lost["push"] \cup {received'}
    BY <1>1, <1>typed DEF PublishPacket, Worker
  <2>2. CASE main' = "idle"
    BY <2>1, <2>2 DEF ReliableAccount, Accepts
  <2>3. CASE main' = "enqueue"
    <3>1. Elements(Append(packet_queue, received')) = Elements(packet_queue) \cup {received'}
      BY <1>typed, <2>1, ElementsAppend
    <3>2. ReliableAccount' = ReliableAccount \cup {received'}
      BY <2>1, <2>3, <3>1 DEF ReliableAccount
    <3>3. QED
      BY <1>1, <2>3, <3>2 DEF Accepts
  <2>4. QED
    BY <2>1, <2>2, <2>3
<1>2. ASSUME ReliableTake PROVE ReliableAccount' = ReliableAccount
  <2>1. /\ pulled' = pulled /\ lost' = lost
        /\ \/ packet_queue' = packet_queue /\ hold' = hold
           \/ /\ packet_queue # <<>>
              /\ packet_queue' = Tail(packet_queue)
              /\ hold'["push"] = Head(packet_queue)
    BY <1>2, <1>typed DEF ReliableTake, Worker
  <2>2. hold["push"] = 0
    BY <1>2 DEF ReliableTake, IInv, LifeCycle, Worker
  <2>3. packet_queue # <<>> =>
          /\ Head(packet_queue) # 0
          /\ Elements(packet_queue) = {Head(packet_queue)} \cup Elements(Tail(packet_queue))
    BY <1>typed, ElementsFront, QueueFront
  <2>4. QED
    BY <2>1, <2>2, <2>3 DEF ReliableAccount
<1>3. ASSUME ReliableSend PROVE ReliableAccount' = ReliableAccount
  <2>1. hold["push"] # 0
    BY <1>3 DEF ReliableSend, IInv, LifeCycle, Worker
  <2>2. /\ packet_queue' = packet_queue /\ hold'["push"] = 0
        /\ \/ pulled' = Append(pulled, hold["push"]) /\ lost' = lost
           \/ pulled' = pulled /\ lost'["push"] = lost["push"] \cup {hold["push"]}
    BY <1>3, <1>typed DEF ReliableSend, NotSent, Worker
  <2>3. hold["push"] \in 1..received
    BY <1>typed, <2>1 DEF Worker
  <2>4. Elements(Append(pulled, hold["push"])) = Elements(pulled) \cup {hold["push"]}
    <3>1. pulled \in Seq(1..received)
      BY <1>typed
    <3>2. \A p \in 1..received : Elements(Append(pulled, p)) = Elements(pulled) \cup {p}
      BY <3>1, ElementsAppend
    <3>3. QED
      BY <2>3, <3>2
  <2>5. QED
    BY <2>1, <2>2, <2>4 DEF ReliableAccount
<1>4. ASSUME ResetSockets PROVE ReliableAccount' = ReliableAccount
  <2>1. /\ pulled' = pulled /\ hold' = hold /\ packet_queue' = <<>>
        /\ lost'["push"] = lost["push"] \cup Elements(packet_queue)
    BY <1>4, <1>typed DEF ResetSockets, Worker
  <2>2. QED
    BY <2>1, ElementsEmpty DEF ReliableAccount
<1>5. ASSUME EnqueuePublish \/ PublisherLock \/ PublisherTimeout \/ PublisherSend
      PROVE  ReliableAccount' = ReliableAccount
  <2>1. /\ pulled' = pulled /\ packet_queue' = packet_queue
        /\ hold'["push"] = hold["push"] /\ lost'["push"] = lost["push"]
    BY <1>5, <1>typed DEF EnqueuePublish, PublisherLock, PublisherTimeout, PublisherTake,
                          PublisherSend, MessageSent, SendFailed, Worker
  <2>2. QED
    BY <2>1 DEF ReliableAccount
<1>6. ASSUME NEW w \in Worker, NEW l \in {"lock", "poll"},
             \/ Initialize \/ StartThread(w) \/ Shutdown \/ Join(w) \/ NotifyPublisher
             \/ LoopTest(w, l) \/ PublisherCount \/ CommandPoll \/ UNCHANGED vars
      PROVE  ReliableAccount' = ReliableAccount
  <2>1. pulled' = pulled /\ packet_queue' = packet_queue /\ hold' = hold /\ lost' = lost
    BY <1>6 DEF Initialize, StartThread, Shutdown, Join, NotifyPublisher, LoopTest,
                PublisherCount, CommandPoll, vars
  <2>2. QED
    BY <2>1 DEF ReliableAccount
<1>7. CASE PublishPacket
  BY <1>1, <1>7
<1>8. CASE ~PublishPacket
  <2>1. ReliableAccount' = ReliableAccount
    BY <1>2, <1>3, <1>4, <1>5, <1>6, <1>8
       DEF Next, Ashita, MainThread, PublisherThread, ReliableQueueThread, CommandThread, Unloaded, Worker
  <2>2. QED
    BY <1>8, <2>1 DEF Accepts
<1>9. QED
  BY <1>7, <1>8

(***************************************************************************)
(* A packet that PublishPacket accepts is accounted for on both paths, and *)
(* neither path has one that the other has not: whatever fails, a packet   *)
(* is delivered, waiting or known to be dropped.                           *)
(***************************************************************************)
THEOREM PathsAlwaysAgree == Spec => []PathsAgree
<1> DEFINE Agree == StreamAccount = ReliableAccount
<1>1. Init => Agree
  BY ElementsEmpty DEF Init, StreamAccount, ReliableAccount, WirePackets, Worker
<1>2. IInv /\ Agree /\ [Next]_vars => Agree'
  BY StreamAccountStep, ReliableAccountStep
<1>3. IInv /\ Agree => PathsAgree
  BY Accounts DEF PathsAgree
<1>4. QED
  BY <1>1, <1>2, <1>3, InductiveInvariant, PTL DEF Spec

(***************************************************************************)
(* The counters.                                                           *)
(***************************************************************************)

\* The messages sent in this session, counted or about to be.
Sent == stats.packets_published + (IF thread["pub"] = "count" THEN 1 ELSE 0)

LEMMA StatsStep == IInv /\ StatsAgree /\ [Next]_vars => StatsAgree'
<1> SUFFICES ASSUME IInv, StatsAgree, [Next]_vars PROVE StatsAgree'
  OBVIOUS
<1> USE DEF Goto, Hold, Lose, life, stream, reliable
<1>stats. /\ stats \in Counters
          /\ stats.packets_published \in Nat /\ stats.pub_send_errors \in Nat
  BY DEF IInv, TypeOK, PacketsTyped, Counters
<1>thread. thread \in [Worker -> Location] /\ "pub" \in Worker
  BY DEF IInv, TypeOK, ThreadsTyped, Worker
<1>wire. wire \in Seq(Message) /\ Len(wire) \in Nat
  BY PacketTypes, LenProperties
<1>session. session \in Nat /\ next_message_id \in Nat
  BY PacketTypes
<1>sent. Sent \in Nat
  BY <1>stats DEF Sent
<1>agree. /\ Sent <= Len(wire)
          /\ \A i \in 1..Len(wire) : wire[i].session = session <=> i > Len(wire) - Sent
          /\ next_message_id \in (Sent + 1)..(Sent + 1 + stats.pub_send_errors)
  BY DEF StatsAgree, Sent
<1>goal. StatsAgree' <=>
           /\ Sent' <= Len(wire')
           /\ \A i \in 1..Len(wire') : wire'[i].session = session' <=> i > Len(wire') - Sent'
           /\ next_message_id' \in (Sent' + 1)..(Sent' + 1 + stats'.pub_send_errors)
  BY DEF StatsAgree, Sent
<1>same. ASSUME wire' = wire, session' = session, next_message_id' = next_message_id,
                stats'.pub_send_errors = stats.pub_send_errors, Sent' = Sent
         PROVE  StatsAgree'
  BY <1>agree, <1>goal, <1>same
<1>1. CASE Initialize
  <2>1. /\ wire' = wire /\ session' = session + 1 /\ next_message_id' = 1
        /\ stats'.packets_published = 0 /\ stats'.pub_send_errors = 0
        /\ thread'["pub"] = "none"
    BY <1>1 DEF Initialize, NoStats, IInv, LifeCycle, Idle, Worker
  <2>2. Sent' = 0
    BY <2>1 DEF Sent
  <2>3. \A i \in 1..Len(wire) : wire[i].session \in 1..session
    <3>1. \A i \in 1..Len(wire) : wire[i] \in Message
      BY <1>wire, ElementOfSeq
    <3>2. QED
      BY <3>1 DEF Message
  <2>4. \A i \in 1..Len(wire) : wire[i].session # session' /\ ~(i > Len(wire) - 0)
    BY <1>session, <1>wire, <2>1, <2>3
  <2>5. QED
    BY <1>goal, <1>wire, <2>1, <2>2, <2>4
<1>2. CASE PublishPacket
  <2>1. /\ wire' = wire /\ session' = session /\ next_message_id' = next_message_id
        /\ thread' = thread
    BY <1>2 DEF PublishPacket
  <2>2. /\ stats'.packets_published = stats.packets_published
        /\ stats'.pub_send_errors = stats.pub_send_errors
    BY <1>2, <1>stats DEF PublishPacket, Counters
  <2>3. QED
    BY <1>same, <2>1, <2>2 DEF Sent
<1>3. CASE PublisherSend
  <2>1. thread["pub"] = "send" /\ session' = session
    BY <1>3 DEF PublisherSend
  <2>2. CASE SendFailed
    <3>1. /\ wire' = wire /\ next_message_id' \in {next_message_id, next_message_id + 1}
          /\ thread'["pub"] = "top"
      BY <1>thread, <2>2 DEF SendFailed
    <3>2. /\ stats'.packets_published = stats.packets_published
          /\ stats'.pub_send_errors = stats.pub_send_errors + 1
      BY <1>stats, <2>2 DEF SendFailed, Counters
    <3>3. Sent' = Sent
      BY <2>1, <3>1, <3>2 DEF Sent
    <3>4. next_message_id' \in (Sent + 1)..(Sent + 1 + stats'.pub_send_errors)
      BY <1>agree, <1>sent, <1>session, <1>stats, <3>1, <3>2
    <3>5. QED
      BY <1>agree, <1>goal, <2>1, <3>1, <3>3, <3>4
  <2>3. CASE MessageSent
    <3> DEFINE new == [session |-> session, id |-> next_message_id, packet |-> hold["pub"]]
    <3>1. wire' = Append(wire, new) /\ next_message_id' = next_message_id + 1 /\ stats' = stats
      BY <2>3 DEF MessageSent
    <3>2. thread'["pub"] = "count"
      BY <1>thread, <2>3 DEF MessageSent
    <3>3. Sent' = Sent + 1
      BY <1>stats, <2>1, <3>1, <3>2 DEF Sent
    <3>4. new.session = session
      OBVIOUS
    <3> HIDE DEF new
    <3>5. /\ Len(wire') = Len(wire) + 1
          /\ \A i \in 1..Len(wire) : wire'[i] = wire[i]
          /\ wire'[Len(wire) + 1] = new
      BY <1>wire, <3>1
    <3>6. ASSUME NEW i \in 1..Len(wire')
          PROVE  wire'[i].session = session' <=> i > Len(wire') - Sent'
      <4>1. CASE i \in 1..Len(wire)
        <5>1. wire'[i].session = session <=> i > Len(wire) - Sent
          BY <1>agree, <3>5, <4>1
        <5>2. Len(wire') - Sent' = Len(wire) - Sent
          BY <1>sent, <1>wire, <3>3, <3>5
        <5>3. QED
          BY <2>1, <5>1, <5>2
      <4>2. CASE i = Len(wire) + 1
        <5>1. wire'[i].session = session'
          BY <2>1, <3>4, <3>5, <4>2
        <5>2. i > Len(wire') - Sent'
          BY <1>sent, <1>wire, <3>3, <3>5, <4>2
        <5>3. QED
          BY <5>1, <5>2
      <4>3. QED
        BY <1>wire, <3>5, <4>1, <4>2
    <3>7. Sent' <= Len(wire')
      BY <1>agree, <1>sent, <1>wire, <3>3, <3>5
    <3>8. next_message_id' \in (Sent' + 1)..(Sent' + 1 + stats'.pub_send_errors)
      BY <1>agree, <1>sent, <1>session, <1>stats, <3>1, <3>3
    <3>9. QED
      BY <1>goal, <3>6, <3>7, <3>8
  <2>4. QED
    BY <1>3, <2>2, <2>3 DEF PublisherSend
<1>4. CASE PublisherCount
  <2>1. /\ wire' = wire /\ session' = session /\ next_message_id' = next_message_id
        /\ thread["pub"] = "count" /\ thread'["pub"] = "top"
    BY <1>4, <1>thread DEF PublisherCount
  <2>2. /\ stats'.packets_published = stats.packets_published + 1
        /\ stats'.pub_send_errors = stats.pub_send_errors
    BY <1>4, <1>stats DEF PublisherCount, Counters
  <2>3. Sent' = Sent
    BY <1>stats, <2>1, <2>2 DEF Sent
  <2>4. QED
    BY <1>same, <2>1, <2>2, <2>3
<1>5. ASSUME NEW w \in Worker, NEW l \in {"lock", "poll"},
             \/ StartThread(w) \/ Join(w) \/ NotifyPublisher \/ LoopTest(w, l)
             \/ PublisherLock \/ PublisherTimeout
             \/ ReliableTake \/ ReliableSend \/ CommandPoll
      PROVE  StatsAgree'
  <2>1. /\ wire' = wire /\ session' = session /\ next_message_id' = next_message_id
        /\ stats' = stats
    BY <1>5 DEF StartThread, Join, NotifyPublisher, LoopTest, PublisherLock, PublisherTimeout,
                PublisherTake, ReliableTake, ReliableSend, NotSent, CommandPoll
  <2>2. thread'["pub"] = "count" <=> thread["pub"] = "count"
    BY <1>5, <1>thread
       DEF StartThread, Join, NotifyPublisher, LoopTest, PublisherLock, PublisherTimeout,
           PublisherTake, ReliableTake, ReliableSend, NotSent, CommandPoll, Worker
  <2>3. QED
    BY <1>same, <2>1, <2>2 DEF Sent
<1>6. ASSUME Shutdown \/ ResetSockets \/ EnqueuePublish \/ UNCHANGED vars PROVE StatsAgree'
  <2>1. /\ wire' = wire /\ session' = session /\ next_message_id' = next_message_id
        /\ stats' = stats /\ thread' = thread
    BY <1>6 DEF Shutdown, ResetSockets, EnqueuePublish, vars
  <2>2. QED
    BY <1>same, <2>1 DEF Sent
<1>7. QED
  BY <1>1, <1>2, <1>3, <1>4, <1>5, <1>6
     DEF Next, Ashita, MainThread, PublisherThread, ReliableQueueThread, CommandThread, Unloaded, Worker

(***************************************************************************)
(* The counters that a client reads and the ids that a subscriber sees     *)
(* agree with the messages on the wire, in every session, between the send *)
(* and the increment, and after any number of failed sends.                *)
(***************************************************************************)
THEOREM StatsAlwaysAgree == Spec => []StatsAgree
<1>1. Init => StatsAgree
  BY DEF Init, StatsAgree, NoStats, Idle, Worker
<1>2. QED
  BY <1>1, StatsStep, InductiveInvariant, PTL DEF Spec

=============================================================================
