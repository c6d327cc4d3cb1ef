------------------------ MODULE ZmqRelayOrderProofs -------------------------
(***************************************************************************)
(* The order of the packets on both paths of the relay (module ZmqRelay),  *)
(* for any queue size, any number of packets and any number of sessions,   *)
(* and that both paths do what PacketStream allows.                        *)
(***************************************************************************)
EXTENDS ZmqRelayProofs

Increasing(s) == \A i, j \in 1..Len(s) : i < j => s[i] < s[j]

\* Every element of P is before every element of Q.
AllBefore(P, Q) == \A p \in P, q \in Q : p < q

\* What the workers keep: socket, worker's hand and queue follow each other,
\* and the packet that PublishPacket is about to queue comes after all of them.
ReliableOrder ==
  /\ ReliableInOrder
  /\ Increasing(packet_queue)
  /\ AllBefore(Elements(pulled), Elements(packet_queue))
  /\ hold["push"] # 0 =>
       /\ AllBefore(Elements(pulled), {hold["push"]})
       /\ AllBefore({hold["push"]}, Elements(packet_queue))

StreamOrder ==
  /\ StreamInOrder
  /\ \A m \in Elements(wire) : m.session = session => m.id < next_message_id
  /\ Increasing(publish_queue)
  /\ AllBefore(WirePackets, Elements(publish_queue))
  /\ hold["pub"] # 0 =>
       /\ AllBefore(WirePackets, {hold["pub"]})
       /\ AllBefore({hold["pub"]}, Elements(publish_queue))
  /\ main = "enqueue" =>
       AllBefore(WirePackets \cup Elements(publish_queue) \cup {hold["pub"]}, {received})

OrderInv == ReliableOrder /\ StreamOrder

(***************************************************************************)
(* Sequences of numbers at their ends.                                     *)
(***************************************************************************)

LEMMA IncreasingAppend ==
  ASSUME NEW s \in Seq(Nat), NEW n \in Nat, Increasing(s), AllBefore(Elements(s), {n})
  PROVE  Increasing(Append(s, n))
<1> DEFINE t == Append(s, n)
<1>1. Len(t) = Len(s) + 1 /\ (\A i \in 1..Len(s) : t[i] = s[i]) /\ t[Len(s) + 1] = n
  BY AppendProperties
<1>2. Len(s) \in Nat
  BY LenProperties
<1> HIDE DEF t
<1>3. SUFFICES ASSUME NEW i \in 1..Len(t), NEW j \in 1..Len(t), i < j PROVE t[i] < t[j]
  BY DEF Increasing, t
<1>4. i \in 1..Len(s) /\ t[i] = s[i]
  BY <1>1, <1>2, <1>3
<1>5. CASE j \in 1..Len(s)
  BY <1>1, <1>3, <1>4, <1>5 DEF Increasing
<1>6. CASE j = Len(s) + 1
  BY <1>1, <1>4, <1>6 DEF AllBefore, Elements
<1>7. QED
  BY <1>1, <1>2, <1>5, <1>6

LEMMA IncreasingFront ==
  ASSUME NEW s \in Seq(Nat), s # <<>>, Increasing(s)
  PROVE  Increasing(Tail(s)) /\ AllBefore({Head(s)}, Elements(Tail(s)))
<1> DEFINE t == Tail(s)
<1>1. Len(t) = Len(s) - 1 /\ (\A i \in 1..Len(t) : t[i] = s[i + 1])
  BY HeadTailProperties
<1>2. Len(s) \in Nat /\ Len(s) > 0 /\ Head(s) = s[1]
  OBVIOUS
<1> HIDE DEF t
<1>3. \A i \in 1..Len(t) : i + 1 \in 1..Len(s) /\ t[i] = s[i + 1]
  BY <1>1, <1>2
<1>4. ASSUME NEW i \in 1..Len(t), NEW j \in 1..Len(t), i < j PROVE t[i] < t[j]
  <2>1. i + 1 \in 1..Len(s) /\ j + 1 \in 1..Len(s) /\ i + 1 < j + 1
    BY <1>3, <1>4
  <2>2. s[i + 1] < s[j + 1]
    BY <2>1 DEF Increasing
  <2>3. QED
    BY <1>3, <2>2
<1>5. ASSUME NEW i \in 1..Len(t) PROVE s[1] < t[i]
  <2>1. 1 \in 1..Len(s) /\ i + 1 \in 1..Len(s) /\ 1 < i + 1
    BY <1>2, <1>3
  <2>2. s[1] < s[i + 1]
    BY <2>1 DEF Increasing
  <2>3. QED
    BY <1>3, <2>2
<1>6. Increasing(t)
  BY <1>4 DEF Increasing
<1>7. AllBefore({s[1]}, Elements(t))
  BY <1>5 DEF AllBefore, Elements
<1>8. QED
  BY <1>2, <1>6, <1>7 DEF t

(***************************************************************************)
(* The reliable path.                                                      *)
(***************************************************************************)

LEMMA ReliableOrderStep == IInv /\ ReliableOrder /\ [Next]_vars => ReliableOrder'
<1> SUFFICES ASSUME IInv, ReliableOrder, [Next]_vars PROVE ReliableOrder'
  OBVIOUS
<1> USE DEF Goto, Hold, Lose, life, stream, reliable
<1>typed. /\ received \in Nat
          /\ hold \in [Worker -> 0..received]
          /\ packet_queue \in Seq(1..received) /\ packet_queue \in Seq(Nat)
          /\ pulled \in Seq(1..received) /\ pulled \in Seq(Nat)
          /\ Elements(packet_queue) \subseteq 1..received
          /\ Elements(pulled) \subseteq 1..received
  BY PacketTypes, PacketElements DEF IInv, TypeOK, PacketsTyped
<1>hold. hold["push"] \in 0..received
  BY PacketTypes
<1>same. ASSUME pulled' = pulled, packet_queue' = packet_queue, hold'["push"] = hold["push"]
         PROVE  ReliableOrder'
  BY <1>same DEF ReliableOrder, ReliableInOrder, Increasing, AllBefore, Elements
<1>1. CASE PublishPacket
  <2>1. /\ pulled' = pulled /\ hold' = hold
        /\ packet_queue' = packet_queue \/ packet_queue' = Append(packet_queue, received + 1)
    BY <1>1 DEF PublishPacket
  <2>2. CASE packet_queue' = packet_queue
    BY <1>same, <2>1, <2>2
  <2>3. CASE packet_queue' = Append(packet_queue, received + 1)
    <3>1. Increasing(packet_queue')
      <4>1. received + 1 \in Nat /\ AllBefore(Elements(packet_queue), {received + 1})
        BY <1>typed DEF AllBefore
      <4>2. QED
        BY <1>typed, <2>3, <4>1, IncreasingAppend DEF ReliableOrder
    <3>2. Elements(packet_queue') = Elements(packet_queue) \cup {received + 1}
      <4>1. received + 1 \in Nat
        BY <1>typed
      <4>2. QED
        BY <1>typed, <2>3, <4>1, ElementsAppend
    <3>3. AllBefore(Elements(pulled), Elements(packet_queue'))
      BY <1>typed, <3>2 DEF ReliableOrder, AllBefore
    <3>4. hold["push"] # 0 => AllBefore({hold["push"]}, Elements(packet_queue'))
      BY <1>typed, <1>hold, <3>2 DEF ReliableOrder, AllBefore
    <3>5. QED
      BY <2>1, <3>1, <3>3, <3>4 DEF ReliableOrder, ReliableInOrder
  <2>4. QED
    BY <2>1, <2>2, <2>3
<1>2. CASE ReliableTake
  <2>1. CASE packet_queue = <<>>
    BY <1>2, <1>same, <2>1 DEF ReliableTake
  <2>2. CASE packet_queue # <<>>
    <3>1. /\ pulled' = pulled
          /\ packet_queue' = Tail(packet_queue)
          /\ hold'["push"] = Head(packet_queue)
      BY <1>2, <1>typed, <2>2 DEF ReliableTake, Worker
    <3>2. Increasing(packet_queue') /\ AllBefore({hold'["push"]}, Elements(packet_queue'))
      BY <1>typed, <2>2, <3>1, IncreasingFront DEF ReliableOrder
    <3>3. Elements(packet_queue) = {hold'["push"]} \cup Elements(packet_queue')
      BY <1>typed, <2>2, <3>1, ElementsFront
    <3>4. /\ AllBefore(Elements(pulled), Elements(packet_queue'))
          /\ AllBefore(Elements(pulled), {hold'["push"]})
      BY <3>3 DEF ReliableOrder, AllBefore
    <3>5. QED
      BY <3>1, <3>2, <3>4 DEF ReliableOrder, ReliableInOrder
  <2>3. QED
    BY <2>1, <2>2
<1>3. CASE ReliableSend
  <2>1. hold["push"] # 0 /\ hold["push"] \in 1..received
    BY <1>3, <1>hold, <1>typed DEF ReliableSend, IInv, LifeCycle, Worker
  <2>2. /\ packet_queue' = packet_queue
        /\ hold'["push"] = 0
        /\ pulled' = pulled \/ pulled' = Append(pulled, hold["push"])
    BY <1>3, <1>typed DEF ReliableSend, NotSent, Worker
  <2>3. CASE pulled' = pulled
    BY <2>2, <2>3 DEF ReliableOrder, ReliableInOrder
  <2>4. CASE pulled' = Append(pulled, hold["push"])
    <3>1. Elements(pulled') = Elements(pulled) \cup {hold["push"]}
      BY <1>typed, <2>1, <2>4, ElementsAppend
    <3>2. AllBefore(Elements(pulled'), Elements(packet_queue))
      BY <2>1, <3>1 DEF ReliableOrder, AllBefore
    <3>3. Increasing(pulled')
      <4>1. Increasing(pulled)
        BY DEF ReliableOrder, ReliableInOrder, Increasing
      <4>2. AllBefore(Elements(pulled), {hold["push"]}) /\ hold["push"] \in Nat
        BY <2>1 DEF ReliableOrder
      <4>3. QED
        BY <1>typed, <2>4, <4>1, <4>2, IncreasingAppend
    <3>4. ReliableInOrder'
      BY <3>3 DEF ReliableInOrder, Increasing
    <3>5. QED
      BY <2>2, <3>2, <3>4 DEF ReliableOrder
  <2>5. QED
    BY <2>2, <2>3, <2>4
<1>4. CASE ResetSockets
  <2>1. pulled' = pulled /\ packet_queue' = <<>> /\ hold' = hold
    BY <1>4 DEF ResetSockets
  <2>2. Increasing(packet_queue') /\ Elements(packet_queue') = {}
    BY <2>1, ElementsEmpty DEF Increasing
  <2>3. QED
    BY <2>1, <2>2 DEF ReliableOrder, ReliableInOrder, AllBefore
<1>5. ASSUME PublisherLock \/ PublisherTimeout \/ PublisherSend PROVE ReliableOrder'
  <2>1. pulled' = pulled /\ packet_queue' = packet_queue /\ hold'["push"] = hold["push"]
    BY <1>5, <1>typed DEF PublisherLock, PublisherTimeout, PublisherTake, PublisherSend, Worker
  <2>2. QED
    BY <1>same, <2>1
<1>6. ASSUME NEW w \in Worker, NEW l \in {"lock", "poll"},
             \/ Initialize \/ StartThread(w) \/ Shutdown \/ Join(w)
             \/ EnqueuePublish \/ NotifyPublisher
             \/ LoopTest(w, l) \/ PublisherCount \/ CommandPoll \/ UNCHANGED vars
      PROVE  ReliableOrder'
  <2>1. pulled' = pulled /\ packet_queue' = packet_queue /\ hold' = hold
    BY <1>6 DEF Initialize, StartThread, Shutdown, Join, EnqueuePublish, NotifyPublisher,
                LoopTest, PublisherCount, CommandPoll, vars
  <2>2. QED
    BY <1>same, <2>1
<1>7. QED
  BY <1>1, <1>2, <1>3, <1>4, <1>5, <1>6
     DEF Next, Ashita, MainThread, PublisherThread, ReliableQueueThread, CommandThread, Unloaded, Worker

(***************************************************************************)
(* The stream.                                                             *)
(***************************************************************************)

LEMMA StreamOrderStep == IInv /\ StreamOrder /\ [Next]_vars => StreamOrder'
<1> SUFFICES ASSUME IInv, StreamOrder, [Next]_vars PROVE StreamOrder'
  OBVIOUS
<1> USE DEF Goto, Hold, Lose, life, stream, reliable
<1>typed. /\ received \in Nat /\ session \in Nat /\ next_message_id \in Nat
          /\ hold \in [Worker -> 0..received]
          /\ publish_queue \in Seq(1..received) /\ publish_queue \in Seq(Nat)
          /\ wire \in Seq(Message)
          /\ Elements(publish_queue) \subseteq 1..received
          /\ Elements(wire) \subseteq Message
          /\ WirePackets \subseteq 1..received
  BY PacketTypes, PacketElements DEF IInv, TypeOK, PacketsTyped
<1>hold. hold["pub"] \in 0..received
  BY PacketTypes
<1>same. ASSUME wire' = wire, publish_queue' = publish_queue, next_message_id' = next_message_id,
                session' = session, received' = received, hold'["pub"] = hold["pub"],
                main' = "enqueue" => main = "enqueue"
         PROVE  StreamOrder'
  BY <1>same DEF StreamOrder, StreamInOrder, Increasing, AllBefore, Elements, WirePackets
<1>1. CASE Initialize
  <2>1. /\ wire' = wire /\ publish_queue' = publish_queue /\ hold' = hold
        /\ session' = session + 1 /\ main' # "enqueue"
    BY <1>1 DEF Initialize
  <2>2. \A m \in Elements(wire) : m.session # session'
    BY <1>typed, <2>1 DEF Message
  <2>3. WirePackets' = WirePackets /\ Elements(wire') = Elements(wire)
    BY <2>1 DEF WirePackets
  <2>4. QED
    BY <2>1, <2>2, <2>3 DEF StreamOrder, StreamInOrder
<1>2. CASE PublishPacket
  <2>1. /\ wire' = wire /\ publish_queue' = publish_queue /\ hold' = hold
        /\ session' = session /\ next_message_id' = next_message_id
        /\ received' = received + 1
    BY <1>2 DEF PublishPacket
  <2>2. AllBefore(WirePackets \cup Elements(publish_queue) \cup {hold["pub"]}, {received'})
    BY <1>typed, <1>hold, <2>1 DEF AllBefore
  <2>3. WirePackets' = WirePackets /\ Elements(wire') = Elements(wire)
    BY <2>1 DEF WirePackets
  <2>4. QED
    BY <2>1, <2>2, <2>3 DEF StreamOrder, StreamInOrder
<1>3. CASE EnqueuePublish
  <2>1. /\ wire' = wire /\ hold' = hold /\ received' = received
        /\ session' = session /\ next_message_id' = next_message_id
        /\ main = "enqueue" /\ main' # "enqueue"
        /\ publish_queue' = publish_queue \/ publish_queue' = Append(publish_queue, received)
    BY <1>3 DEF EnqueuePublish
  <2>2. CASE publish_queue' = publish_queue
    BY <1>same, <2>1, <2>2
  <2>3. CASE publish_queue' = Append(publish_queue, received)
    <3>1. /\ AllBefore(WirePackets, {received})
          /\ AllBefore(Elements(publish_queue), {received})
          /\ hold["pub"] < received
      BY <2>1 DEF StreamOrder, AllBefore
    <3>2. Elements(publish_queue') = Elements(publish_queue) \cup {received}
      BY <1>typed, <2>3, ElementsAppend
    <3>3. Increasing(publish_queue')
      BY <1>typed, <2>3, <3>1, IncreasingAppend DEF StreamOrder
    <3>4. AllBefore(WirePackets, Elements(publish_queue'))
      BY <3>1, <3>2 DEF StreamOrder, AllBefore
    <3>5. hold["pub"] # 0 => AllBefore({hold["pub"]}, Elements(publish_queue'))
      BY <3>1, <3>2 DEF StreamOrder, AllBefore
    <3>6. WirePackets' = WirePackets /\ Elements(wire') = Elements(wire)
      BY <2>1 DEF WirePackets
    <3>7. QED
      BY <2>1, <3>3, <3>4, <3>5, <3>6 DEF StreamOrder, StreamInOrder
  <2>4. QED
    BY <2>1, <2>2, <2>3
<1>4. ASSUME PublisherLock \/ PublisherTimeout PROVE StreamOrder'
  <2>1. /\ wire' = wire /\ received' = received /\ main' = main
        /\ session' = session /\ next_message_id' = next_message_id
        /\ \/ publish_queue' = publish_queue /\ hold' = hold
           \/ /\ publish_queue # <<>>
              /\ publish_queue' = Tail(publish_queue)
              /\ hold'["pub"] = Head(publish_queue)
    BY <1>4, <1>typed DEF PublisherLock, PublisherTimeout, PublisherTake, Worker
  <2>2. CASE publish_queue' = publish_queue /\ hold' = hold
    BY <1>same, <2>1, <2>2
  <2>3. CASE /\ publish_queue # <<>>
             /\ publish_queue' = Tail(publish_queue)
             /\ hold'["pub"] = Head(publish_queue)
    <3>1. Increasing(publish_queue') /\ AllBefore({hold'["pub"]}, Elements(publish_queue'))
      BY <1>typed, <2>3, IncreasingFront DEF StreamOrder
    <3>2. Elements(publish_queue) = {hold'["pub"]} \cup Elements(publish_queue')
      BY <1>typed, <2>3, ElementsFront
    <3>3. /\ AllBefore(WirePackets, Elements(publish_queue'))
          /\ AllBefore(WirePackets, {hold'["pub"]})
      BY <3>2 DEF StreamOrder, AllBefore
    <3>4. main = "enqueue" =>
            AllBefore(WirePackets \cup Elements(publish_queue') \cup {hold'["pub"]}, {received})
      BY <3>2 DEF StreamOrder, AllBefore
    <3>5. WirePackets' = WirePackets /\ Elements(wire') = Elements(wire)
      BY <2>1 DEF WirePackets
    <3>6. QED
      BY <2>1, <3>1, <3>3, <3>4, <3>5 DEF StreamOrder, StreamInOrder
  <2>4. QED
    BY <2>1, <2>2, <2>3
<1>5. CASE PublisherSend
  <2>1. hold["pub"] # 0 /\ hold["pub"] \in 1..received /\ session \in 1..session
    <3>1. hold["pub"] # 0 /\ sockets = Worker
      BY <1>5 DEF PublisherSend, IInv, LifeCycle, Worker
    <3>2. session > 0
      BY <3>1 DEF IInv, LifeCycle, Worker
    <3>3. QED
      BY <1>hold, <1>typed, <3>1, <3>2
  <2>2. /\ publish_queue' = publish_queue /\ hold'["pub"] = 0
        /\ received' = received /\ session' = session /\ main' = main
    BY <1>5, <1>typed DEF PublisherSend, MessageSent, SendFailed, Worker
  <2>3. CASE SendFailed
    <3>1. wire' = wire /\ next_message_id' \in {next_message_id, next_message_id + 1}
      BY <2>3 DEF SendFailed
    <3>2. WirePackets' = WirePackets /\ Elements(wire') = Elements(wire)
      BY <3>1 DEF WirePackets
    <3>3. \A m \in Elements(wire) : m.session = session => m.id < next_message_id'
      <4>1. \A m \in Elements(wire) : m.id \in Nat
        BY <1>typed DEF Message
      <4>2. QED
        BY <1>typed, <3>1, <4>1 DEF StreamOrder
    <3>4. main = "enqueue" =>
            AllBefore(WirePackets \cup Elements(publish_queue) \cup {0}, {received})
      BY <1>typed, <2>1 DEF StreamOrder, AllBefore
    <3>5. QED
      BY <2>2, <3>1, <3>2, <3>3, <3>4 DEF StreamOrder, StreamInOrder
  <2>4. CASE MessageSent
    <3> DEFINE new == [session |-> session, id |-> next_message_id, packet |-> hold["pub"]]
    <3>1. new \in Message
      BY <2>1 DEF Message, IInv, TypeOK, PacketsTyped
    <3>2. /\ Len(wire) \in Nat
          /\ wire' = Append(wire, new) /\ next_message_id' = next_message_id + 1
          /\ Len(wire') = Len(wire) + 1
          /\ \A i \in 1..Len(wire) : wire'[i] = wire[i]
          /\ wire'[Len(wire) + 1] = new
      BY <1>typed, <2>4, <3>1, AppendProperties, LenProperties DEF MessageSent
    <3>3. new.session = session /\ new.id = next_message_id /\ new.packet = hold["pub"]
      OBVIOUS
    <3> HIDE DEF new
    <3>4. Elements(wire') = Elements(wire) \cup {new}
      BY <1>typed, <3>1, <3>2, ElementsAppend
    <3>5. WirePackets' = WirePackets \cup {hold["pub"]}
      BY <3>3, <3>4 DEF WirePackets
    <3>6. StreamInOrder'
      <4>1. SUFFICES ASSUME NEW i \in 1..Len(wire'), NEW j \in 1..Len(wire'), i < j
                     PROVE  /\ wire'[i].packet < wire'[j].packet
                            /\ wire'[i].session <= wire'[j].session
                            /\ wire'[i].session = wire'[j].session => wire'[i].id < wire'[j].id
        BY DEF StreamInOrder
      <4>2. i \in 1..Len(wire) /\ wire'[i] = wire[i]
        BY <3>2, <4>1
      <4>3. CASE j \in 1..Len(wire)
        BY <3>2, <4>1, <4>2, <4>3 DEF StreamOrder, StreamInOrder
      <4>4. CASE j = Len(wire) + 1
        <5>1. wire'[j] = new
          BY <3>2, <4>4
        <5>2. wire[i] \in Elements(wire) /\ wire[i] \in Message
          BY <1>typed, <4>2 DEF Elements
        <5>3. wire[i].packet < hold["pub"]
          BY <2>1, <5>2 DEF StreamOrder, AllBefore, WirePackets
        <5>4. wire[i].session <= session
          BY <1>typed, <5>2 DEF Message
        <5>5. wire[i].session = session => wire[i].id < next_message_id
          BY <5>2 DEF StreamOrder
        <5>6. QED
          BY <3>3, <4>2, <5>1, <5>3, <5>4, <5>5
      <4>5. QED
        BY <3>2, <4>1, <4>3, <4>4
    <3>7. \A m \in Elements(wire') : m.session = session => m.id < next_message_id'
      <4>1. \A m \in Elements(wire) : m.id \in Nat
        BY <1>typed DEF Message
      <4>2. QED
        BY <1>typed, <3>2, <3>3, <3>4, <4>1 DEF StreamOrder
    <3>8. AllBefore(WirePackets', Elements(publish_queue))
      BY <2>1, <3>5 DEF StreamOrder, AllBefore
    <3>9. main = "enqueue" =>
            AllBefore(WirePackets' \cup Elements(publish_queue) \cup {0}, {received})
      BY <1>typed, <2>1, <3>5 DEF StreamOrder, AllBefore
    <3>10. Increasing(publish_queue')
      BY <2>2 DEF StreamOrder
    <3>11. QED
      BY <2>2, <3>6, <3>7, <3>8, <3>9, <3>10 DEF StreamOrder
  <2>5. QED
    BY <1>5, <2>3, <2>4 DEF PublisherSend
<1>6. CASE ResetSockets
  <2>1. /\ wire' = wire /\ publish_queue' = <<>> /\ hold' = hold /\ main' # "enqueue"
        /\ session' = session /\ next_message_id' = next_message_id
    BY <1>6 DEF ResetSockets
  <2>2. Increasing(publish_queue') /\ Elements(publish_queue') = {}
    BY <2>1, ElementsEmpty DEF Increasing
  <2>3. WirePackets' = WirePackets /\ Elements(wire') = Elements(wire)
    BY <2>1 DEF WirePackets
  <2>4. QED
    BY <2>1, <2>2, <2>3 DEF StreamOrder, StreamInOrder, AllBefore
<1>7. ASSUME ReliableTake \/ ReliableSend PROVE StreamOrder'
  <2>1. /\ wire' = wire /\ publish_queue' = publish_queue /\ next_message_id' = next_message_id
        /\ session' = session /\ received' = received /\ main' = main
        /\ hold'["pub"] = hold["pub"]
    BY <1>7, <1>typed DEF ReliableTake, ReliableSend, Worker
  <2>2. QED
    BY <1>same, <2>1
<1>8. ASSUME NEW w \in Worker, NEW l \in {"lock", "poll"},
             \/ StartThread(w) \/ Shutdown \/ Join(w) \/ NotifyPublisher
             \/ LoopTest(w, l) \/ PublisherCount \/ CommandPoll \/ UNCHANGED vars
      PROVE  StreamOrder'
  <2>1. /\ wire' = wire /\ publish_queue' = publish_queue /\ next_message_id' = next_message_id
        /\ session' = session /\ received' = received /\ hold' = hold
        /\ main' = "enqueue" => main = "enqueue"
    BY <1>8 DEF StartThread, Shutdown, Join, NotifyPublisher, LoopTest, PublisherCount,
                CommandPoll, vars
  <2>2. QED
    BY <1>same, <2>1
<1>9. QED
  BY <1>1, <1>2, <1>3, <1>4, <1>5, <1>6, <1>7, <1>8
     DEF Next, Ashita, MainThread, PublisherThread, ReliableQueueThread, CommandThread, Unloaded, Worker

\* On both paths, socket, hand and queue are in the game's order in every state.
THEOREM OrderInvariant == Spec => []OrderInv
<1>1. Init => OrderInv
  BY ElementsEmpty
     DEF Init, OrderInv, ReliableOrder, StreamOrder, ReliableInOrder, StreamInOrder,
         Increasing, AllBefore, WirePackets, Worker
<1>2. IInv /\ OrderInv /\ [Next]_vars => OrderInv'
  BY ReliableOrderStep, StreamOrderStep DEF OrderInv
<1>3. QED
  BY <1>1, <1>2, InductiveInvariant, PTL DEF Spec

(***************************************************************************)
(* What a subscriber sees is in the order of the game's packets, each at   *)
(* most once, with ids that rise within a session, over any number of      *)
(* loads of the plugin and whatever sends fail.                            *)
(***************************************************************************)
THEOREM StreamOrdered == Spec => []StreamInOrder
<1>1. OrderInv => StreamInOrder
  BY DEF OrderInv, StreamOrder
<1>2. QED
  BY OrderInvariant, <1>1, PTL

(***************************************************************************)
(* So does a PULL worker, although the reliable thread drops what it       *)
(* cannot send and takes on with the next packet.                          *)
(***************************************************************************)
THEOREM ReliableOrdered == Spec => []ReliableInOrder
<1>1. OrderInv => ReliableInOrder
  BY DEF OrderInv, ReliableOrder
<1>2. QED
  BY OrderInvariant, <1>1, PTL

(***************************************************************************)
(* Both paths are PacketStreams.                                           *)
(***************************************************************************)

\* The bound of the model, which PacketStream's packets have, too.
Bounded == received <= MaxPackets

LEMMA BoundedPacketsStep == IInv /\ Bounded /\ [Next]_vars => Bounded'
<1> SUFFICES ASSUME IInv, Bounded, [Next]_vars PROVE Bounded'
  OBVIOUS
<1> USE DEF life, stream, reliable
<1>1. CASE PublishPacket
  BY <1>1, PacketTypes, RelayAssumption DEF PublishPacket, Bounded
<1>2. ASSUME NEW w \in Worker, NEW l \in {"lock", "poll"},
             \/ Initialize \/ StartThread(w) \/ Shutdown \/ Join(w) \/ ResetSockets
             \/ EnqueuePublish \/ NotifyPublisher \/ LoopTest(w, l)
             \/ PublisherLock \/ PublisherTimeout \/ PublisherSend \/ PublisherCount
             \/ ReliableTake \/ ReliableSend \/ CommandPoll \/ UNCHANGED vars
      PROVE  Bounded'
  <2>1. received' = received
    BY <1>2 DEF Initialize, StartThread, Shutdown, Join, ResetSockets, EnqueuePublish, NotifyPublisher,
                LoopTest, PublisherLock, PublisherTimeout, PublisherTake, PublisherSend,
                PublisherCount, ReliableTake, ReliableSend, CommandPoll, vars
  <2>2. QED
    BY <2>1 DEF Bounded
<1>3. QED
  BY <1>1, <1>2
     DEF Next, Ashita, MainThread, PublisherThread, ReliableQueueThread, CommandThread, Unloaded, Worker

LEMMA Prepended ==
  ASSUME NEW q \in Seq(Nat), NEW h \in Nat
  PROVE  /\ <<h>> \o q \in Seq(Nat)
         /\ Len(<<h>> \o q) = 1 + Len(q)
         /\ \A i \in 1..(1 + Len(q)) : (<<h>> \o q)[i] = IF i = 1 THEN h ELSE q[i - 1]
<1>1. <<h>> \in Seq(Nat) /\ Len(<<h>>) = 1 /\ <<h>>[1] = h /\ Len(q) \in Nat
  BY LenProperties
<1> DEFINE one == <<h>>
<1> HIDE DEF one
<1>2. /\ one \o q \in Seq(Nat)
      /\ Len(one \o q) = 1 + Len(q)
      /\ \A i \in 1..(1 + Len(q)) : (one \o q)[i] = IF i <= 1 THEN one[i] ELSE q[i - 1]
  BY <1>1, ConcatProperties DEF one
<1>3. QED
  BY <1>1, <1>2 DEF one

\* What waits is what a worker has in its hand and what is queued behind it.
LEMMA WaitingParts ==
  ASSUME NEW q \in Seq(Nat), NEW h \in Nat, NEW e \in Nat
  PROVE  /\ <<>> \o q = q
         /\ <<h>> \o q \in Seq(Nat) /\ <<h>> \o q # <<>>
         /\ Head(<<h>> \o q) = h /\ Tail(<<h>> \o q) = q
         /\ Elements(<<h>> \o q) = {h} \cup Elements(q)
         /\ <<h>> \o Append(q, e) = Append(<<h>> \o q, e)
         /\ <<>> \o Append(q, e) = Append(q, e)
<1>1. <<h>> \in Seq(Nat) /\ <<>> \in Seq(Nat) /\ Len(q) \in Nat
  BY LenProperties
<1>2. <<>> \o q = q /\ <<>> \o Append(q, e) = Append(q, e)
  BY AppendProperties, ConcatEmptySeq
<1> DEFINE s == <<h>> \o q
<1>3. /\ s \in Seq(Nat)
      /\ Len(s) = 1 + Len(q)
      /\ \A i \in 1..(1 + Len(q)) : s[i] = IF i = 1 THEN h ELSE q[i - 1]
  BY Prepended
<1>4. <<h>> \o Append(q, e) = Append(s, e)
  BY <1>1, <1>3, AppendIsConcat, ConcatAssociative
<1> HIDE DEF s
<1>5. s # <<>> /\ s[1] = h
  BY <1>1, <1>3
<1>6. Head(s) = h /\ Tail(s) \in Seq(Nat) /\ Len(Tail(s)) = Len(q)
      /\ \A i \in 1..Len(q) : Tail(s)[i] = s[i + 1]
  BY <1>1, <1>3, <1>5, HeadTailProperties
<1>7. Tail(s) = q
  <2>1. \A i \in 1..Len(q) : Tail(s)[i] = q[i]
    BY <1>1, <1>3, <1>6
  <2>2. QED
    BY <1>6, <2>1, SeqEqual
<1>8. Elements(s) = {h} \cup Elements(q)
  BY <1>3, <1>5, <1>6, <1>7, ElementsFront
<1>9. QED
  BY <1>2, <1>3, <1>4, <1>5, <1>6, <1>7, <1>8 DEF s

LEMMA HeadAndTail ==
  ASSUME NEW q \in Seq(Nat), q # <<>>
  PROVE  <<Head(q)>> \o Tail(q) = q
<1>1. Head(q) \in Nat /\ Tail(q) \in Seq(Nat) /\ Len(Tail(q)) = Len(q) - 1 /\ Head(q) = q[1]
      /\ \A i \in 1..Len(Tail(q)) : Tail(q)[i] = q[i + 1]
  BY HeadTailProperties
<1>2. Len(q) \in Nat
  BY LenProperties
<1> DEFINE h == Head(q)
           t == Tail(q)
           s == <<h>> \o t
<1>3. /\ s \in Seq(Nat)
      /\ Len(s) = 1 + Len(t)
      /\ \A i \in 1..(1 + Len(t)) : s[i] = IF i = 1 THEN h ELSE t[i - 1]
  <2>1. h \in Nat /\ t \in Seq(Nat)
    BY <1>1
  <2> HIDE DEF h, t
  <2>2. QED
    BY <2>1, Prepended
<1>4. h = q[1] /\ Len(t) = Len(q) - 1 /\ \A i \in 1..Len(t) : t[i] = q[i + 1]
  BY <1>1
<1> HIDE DEF h, t, s
<1>5. \A i \in 1..Len(q) : s[i] = q[i]
  <2> SUFFICES ASSUME NEW i \in 1..Len(q) PROVE s[i] = q[i]
    OBVIOUS
  <2>1. CASE i = 1
    BY <1>2, <1>3, <1>4, <2>1
  <2>2. CASE i # 1
    <3>1. i - 1 \in 1..Len(t) /\ i \in 1..(1 + Len(t)) /\ i - 1 + 1 = i
      BY <1>2, <1>4, <2>2
    <3>2. QED
      BY <1>3, <1>4, <2>2, <3>1
  <2>3. QED
    BY <2>1, <2>2
<1>6. Len(s) = Len(q)
  BY <1>2, <1>3, <1>4
<1>7. s = q
  BY <1>3, <1>5, <1>6, SeqEqual
<1>8. QED
  BY <1>7 DEF s, h, t

\* A worker's packet, if it has one, and the queue behind it.
HandFirst(h, q) == IF h = 0 THEN q ELSE <<h>> \o q

LEMMA HandFirstParts ==
  ASSUME NEW q \in Seq(Nat), NEW h \in Nat
  PROVE  /\ HandFirst(h, q) \in Seq(Nat)
         /\ \A e \in Nat : HandFirst(h, Append(q, e)) = Append(HandFirst(h, q), e)
         /\ Elements(HandFirst(h, q)) = Elements(q) \cup ({h} \ {0})
         /\ h # 0 => /\ HandFirst(h, q) # <<>>
                     /\ Head(HandFirst(h, q)) = h
                     /\ Tail(HandFirst(h, q)) = q
<1>1. CASE h = 0
  BY <1>1 DEF HandFirst
<1>2. CASE h # 0
  <2> DEFINE s == <<h>> \o q
  <2>1. HandFirst(h, q) = s /\ \A e \in Nat : HandFirst(h, Append(q, e)) = <<h>> \o Append(q, e)
    BY <1>2 DEF HandFirst
  <2>2. s \in Seq(Nat) /\ s # <<>> /\ Head(s) = h /\ Tail(s) = q /\ Elements(s) = {h} \cup Elements(q)
    BY WaitingParts
  <2>3. \A e \in Nat : <<h>> \o Append(q, e) = Append(s, e)
    BY WaitingParts
  <2> HIDE DEF s
  <2>4. QED
    BY <1>2, <2>1, <2>2, <2>3
<1>3. QED
  BY <1>1, <1>2

LEMMA HandFirstTake ==
  ASSUME NEW q \in Seq(Nat), q # <<>>, Head(q) # 0
  PROVE  HandFirst(Head(q), Tail(q)) = HandFirst(0, q)
BY HeadAndTail DEF HandFirst

LEMMA InHandFirst ==
  ASSUME IInv, IInv', NEW w \in {"pub", "push"}
  PROVE  /\ \A q \in Seq(Nat) : InHand(w) \o q = HandFirst(hold[w], q)
         /\ \A q \in Seq(Nat) : InHand(w)' \o q = HandFirst(hold'[w], q)
         /\ thread[w] = "send" <=> hold[w] # 0
<1>1. thread[w] = "send" <=> hold[w] # 0
  BY DEF IInv, LifeCycle, Worker
<1>2. thread'[w] = "send" <=> hold'[w] # 0
  BY DEF IInv, LifeCycle, Worker
<1>3. \A q \in Seq(Nat) : <<>> \o q = q
  BY ConcatEmptySeq
<1>4. QED
  BY <1>1, <1>2, <1>3 DEF InHand, HandFirst

\* A packet behind all that wait and all that went out.
LEMMA BehindAll ==
  ASSUME NEW s, NEW p, \A x \in Elements(s) : x < p
  PROVE  \A i \in 1..Len(s) : s[i] < p
BY DEF Elements

\* PublishPacket accepts a packet, ReliableSend delivers or drops the oldest,
\* the relay closes with ResetSockets, and all other steps stutter.
LEMMA ReliableStep ==
  IInv /\ IInv' /\ Bounded' /\ [Next]_vars => [Reliable!Next]_<<InHand("push") \o packet_queue, pulled>>
<1> SUFFICES ASSUME IInv, IInv', Bounded', [Next]_vars
             PROVE  [Reliable!Next]_<<InHand("push") \o packet_queue, pulled>>
  OBVIOUS
<1> USE DEF Goto, Hold, Lose, life, stream, reliable
<1> DEFINE h == hold["push"]
           q == packet_queue
           waiting == InHand("push") \o packet_queue
<1>1. /\ received \in Nat /\ h \in 0..received /\ h \in Nat
      /\ q \in Seq(Nat) /\ pulled \in Seq(Nat)
      /\ Elements(q) \subseteq 1..received /\ Elements(pulled) \subseteq 1..received
  BY PacketTypes, PacketElements
<1>2. q' \in Seq(Nat) /\ hold \in [Worker -> 0..received]
  <2>1. packet_queue' \in Seq(1..received') /\ 1..received' \subseteq Nat
    BY DEF IInv, TypeOK, PacketsTyped
  <2>2. QED
    BY <2>1, SeqMonotonic DEF IInv, TypeOK, PacketsTyped
<1>3. /\ waiting = HandFirst(h, q)
      /\ waiting' = HandFirst(h', q')
      /\ thread["push"] = "send" <=> h # 0
  BY <1>1, <1>2, InHandFirst
<1>4. ASSUME h' = h, q' = q, pulled' = pulled PROVE UNCHANGED <<waiting, pulled>>
  BY <1>3, <1>4
<1>5. CASE PublishPacket
  <2>1. /\ h' = h /\ pulled' = pulled /\ received' = received + 1
        /\ q' = q \/ q' = Append(q, received + 1)
    BY <1>5 DEF PublishPacket
  <2>2. CASE q' = Append(q, received + 1)
    <3> DEFINE p == received + 1
    <3>1. p \in Nat /\ p \in 1..MaxPackets
      BY <1>1, <2>1, RelayAssumption DEF Bounded, RelayAssumption
    <3> HIDE DEF h, q, waiting
    <3>2. waiting' = Append(waiting, p)
      BY <1>1, <1>3, <2>1, <2>2, <3>1, HandFirstParts
    <3>3. Elements(waiting) \subseteq 0..received
      <4>1. Elements(waiting) = Elements(q) \cup ({h} \ {0})
        BY <1>1, <1>3, HandFirstParts
      <4>2. QED
        BY <1>1, <4>1
    <3>4. /\ \A x \in Elements(waiting) : x < p
          /\ \A x \in Elements(pulled) : x < p
      BY <1>1, <3>3
    <3> HIDE DEF p
    <3>5. /\ \A i \in 1..Len(waiting) : waiting[i] < p
          /\ \A i \in 1..Len(pulled) : pulled[i] < p
      BY <3>4, BehindAll
    <3>6. Reliable!Accept
      BY <2>1, <3>1, <3>2, <3>5 DEF Reliable!Accept, waiting
    <3>7. QED
      BY <3>6 DEF Reliable!Next
  <2>3. CASE q' = q
    BY <1>4, <2>1, <2>3
  <2>4. QED
    BY <2>1, <2>2, <2>3
<1>6. CASE ReliableTake
  <2>1. CASE q = <<>>
    BY <1>4, <1>6, <2>1 DEF ReliableTake
  <2>2. CASE q # <<>>
    <3>1. h = 0 /\ h' = Head(q) /\ q' = Tail(q) /\ pulled' = pulled
      BY <1>2, <1>3, <1>6, <2>2 DEF ReliableTake, Worker
    <3>2. Head(q) \in 1..received
      <4>1. Elements(q) = {Head(q)} \cup Elements(Tail(q))
        BY <1>1, <2>2, ElementsFront
      <4>2. QED
        BY <1>1, <4>1
    <3>3. Head(q) # 0
      BY <3>2
    <3> HIDE DEF h, q, waiting
    <3>4. waiting' = waiting
      BY <1>1, <1>3, <2>2, <3>1, <3>3, HandFirstTake
    <3>5. QED
      BY <3>1, <3>4 DEF waiting
  <2>3. QED
    BY <2>1, <2>2
<1>7. CASE ReliableSend
  <2>1. h # 0 /\ h' = 0 /\ q' = q
    BY <1>2, <1>3, <1>7 DEF ReliableSend, NotSent, Worker
  <2>2. pulled' = pulled \/ pulled' = Append(pulled, h)
    BY <1>7 DEF ReliableSend, NotSent
  <2>3. waiting # <<>> /\ Head(waiting) = h /\ Tail(waiting) = q /\ waiting' = q
    <3> HIDE DEF h, q, waiting
    <3>1. waiting' = q
      BY <1>3, <2>1 DEF HandFirst
    <3>2. QED
      BY <1>1, <1>3, <2>1, <3>1, HandFirstParts
  <2>4. Reliable!Deliver \/ Reliable!Drop
    <3> HIDE DEF h, q
    <3>1. QED
      BY <2>2, <2>3 DEF Reliable!Deliver, Reliable!Drop
  <2>5. QED
    BY <2>4 DEF Reliable!Next
<1>8. CASE ResetSockets
  <2>1. hold' = hold /\ q' = <<>> /\ pulled' = pulled /\ thread["push"] # "send"
    BY <1>8 DEF ResetSockets, AllJoined, Idle, Worker
  <2>2. waiting' = <<>>
    BY <1>3, <2>1 DEF HandFirst
  <2>3. Reliable!Close
    BY <2>1, <2>2 DEF Reliable!Close
  <2>4. QED
    BY <2>3 DEF Reliable!Next
<1>9. ASSUME PublisherLock \/ PublisherTimeout \/ PublisherSend PROVE UNCHANGED <<waiting, pulled>>
  <2>1. h' = h /\ q' = q /\ pulled' = pulled
    BY <1>2, <1>9 DEF PublisherLock, PublisherTimeout, PublisherTake, PublisherSend, Worker
  <2>2. QED
    BY <1>4, <2>1
<1>10. ASSUME NEW w \in Worker, NEW l \in {"lock", "poll"},
              \/ Initialize \/ StartThread(w) \/ Shutdown \/ Join(w)
              \/ EnqueuePublish \/ NotifyPublisher
              \/ LoopTest(w, l) \/ PublisherCount \/ CommandPoll \/ UNCHANGED vars
       PROVE  UNCHANGED <<waiting, pulled>>
  <2>1. h' = h /\ q' = q /\ pulled' = pulled
    BY <1>10 DEF Initialize, StartThread, Shutdown, Join, EnqueuePublish, NotifyPublisher,
                 LoopTest, PublisherCount, CommandPoll, vars
  <2>2. QED
    BY <1>4, <2>1
<1> HIDE DEF h, q, waiting
<1>11. QED
  BY <1>5, <1>6, <1>7, <1>8, <1>9, <1>10
     DEF Next, Ashita, MainThread, PublisherThread, ReliableQueueThread, CommandThread, Unloaded, Worker, waiting

\* The packets of the messages on the wire.
PacketsOf(w) == [i \in 1..Len(w) |-> w[i].packet]

LEMMA PacketsOfAppend ==
  ASSUME NEW S, NEW w \in Seq(S), NEW m \in S
  PROVE  PacketsOf(Append(w, m)) = Append(PacketsOf(w), m.packet)
<1> DEFINE f == [x \in S |-> x.packet]
<1>1. f[m] = m.packet
  OBVIOUS
<1>2. \A i \in 1..Len(w) : w[i] \in S
  BY ElementOfSeq
<1>3. Append(w, m) \in Seq(S)
  OBVIOUS
<1>4. \A i \in 1..Len(Append(w, m)) : Append(w, m)[i] \in S
  BY <1>3, ElementOfSeq
<1>5. /\ \A i \in 1..Len(w) : f[w[i]] = w[i].packet
      /\ \A i \in 1..Len(Append(w, m)) : f[Append(w, m)[i]] = Append(w, m)[i].packet
  BY <1>2, <1>4
<1> HIDE DEF f
<1>6. [i \in 1..Len(Append(w, m)) |-> f[Append(w, m)[i]]] = Append([i \in 1..Len(w) |-> f[w[i]]], f[m])
  BY MapAppend
<1>7. [i \in 1..Len(w) |-> f[w[i]]] = PacketsOf(w)
  BY <1>5 DEF PacketsOf
<1>8. [i \in 1..Len(Append(w, m)) |-> f[Append(w, m)[i]]] = PacketsOf(Append(w, m))
  BY <1>5 DEF PacketsOf
<1>9. QED
  BY <1>1, <1>6, <1>7, <1>8

LEMMA PacketsOfWire ==
  ASSUME wire \in Seq(Message)
  PROVE  /\ Len(PacketsOf(wire)) = Len(wire)
         /\ \A i \in 1..Len(wire) : PacketsOf(wire)[i] \in WirePackets
<1>1. Len(wire) \in Nat
  BY LenProperties
<1>2. QED
  BY <1>1 DEF PacketsOf, WirePackets, Elements

\* EnqueuePublish accepts the packet, after all that PublishPacket queued
\* before; PublisherSend delivers or drops the oldest, ResetSockets closes, and
\* all other steps stutter.
LEMMA StreamStep ==
  IInv /\ IInv' /\ StreamOrder /\ Bounded /\ [Next]_vars
    => [Stream!Next]_<<InHand("pub") \o publish_queue, PacketsOf(wire)>>
<1> SUFFICES ASSUME IInv, IInv', StreamOrder, Bounded, [Next]_vars
             PROVE  [Stream!Next]_<<InHand("pub") \o publish_queue, PacketsOf(wire)>>
  OBVIOUS
<1> USE DEF Goto, Hold, Lose, life, stream, reliable
<1> DEFINE h == hold["pub"]
           q == publish_queue
           waiting == InHand("pub") \o publish_queue
           out == PacketsOf(wire)
<1>1. /\ received \in Nat /\ h \in 0..received /\ h \in Nat
      /\ q \in Seq(Nat) /\ wire \in Seq(Message) /\ session \in Nat
      /\ Elements(q) \subseteq 1..received /\ WirePackets \subseteq 1..received
  BY PacketTypes, PacketElements
<1>2. q' \in Seq(Nat) /\ hold \in [Worker -> 0..received]
  <2>1. publish_queue' \in Seq(1..received') /\ 1..received' \subseteq Nat
    BY DEF IInv, TypeOK, PacketsTyped
  <2>2. QED
    BY <2>1, SeqMonotonic DEF IInv, TypeOK, PacketsTyped
<1>3. /\ waiting = HandFirst(h, q)
      /\ waiting' = HandFirst(h', q')
      /\ thread["pub"] = "send" <=> h # 0
  BY <1>1, <1>2, InHandFirst
<1>4. ASSUME h' = h, q' = q, wire' = wire PROVE UNCHANGED <<waiting, out>>
  BY <1>3, <1>4
<1>5. CASE EnqueuePublish
  <2>1. h' = h /\ wire' = wire /\ (q' = q \/ q' = Append(q, received))
    BY <1>5 DEF EnqueuePublish
  <2>2. CASE q' = Append(q, received)
    <3>1. AllBefore(WirePackets \cup Elements(q) \cup {h}, {received})
      BY <1>5 DEF EnqueuePublish, StreamOrder
    <3>2. received \in 1..MaxPackets
      BY <1>1, <3>1, RelayAssumption DEF AllBefore, Bounded, RelayAssumption
    <3> HIDE DEF h, q, waiting
    <3>3. waiting' = Append(waiting, received)
      BY <1>1, <1>3, <2>1, <2>2, HandFirstParts
    <3>4. \A x \in Elements(waiting) : x < received
      <4>1. Elements(waiting) = Elements(q) \cup ({h} \ {0})
        BY <1>1, <1>3, HandFirstParts
      <4>2. QED
        BY <3>1, <4>1 DEF AllBefore
    <3>5. \A i \in 1..Len(waiting) : waiting[i] < received
      BY <3>4, BehindAll
    <3>6. \A i \in 1..Len(out) : out[i] < received
      BY <1>1, <3>1, PacketsOfWire DEF AllBefore
    <3>7. UNCHANGED out
      BY <2>1
    <3> HIDE DEF out
    <3>8. Stream!Accept
      BY <3>2, <3>3, <3>5, <3>6, <3>7 DEF Stream!Accept, waiting, out, PacketsOf
    <3>9. QED
      BY <3>8 DEF Stream!Next
  <2>3. CASE q' = q
    BY <1>4, <2>1, <2>3
  <2>4. QED
    BY <2>1, <2>2, <2>3
<1>6. CASE PublisherLock \/ PublisherTimeout
  <2>1. wire' = wire /\ thread["pub"] # "send"
    BY <1>6 DEF PublisherLock, PublisherTimeout, PublisherTake
  <2>2. \/ h' = h /\ q' = q
        \/ q # <<>> /\ h' = Head(q) /\ q' = Tail(q)
    BY <1>2, <1>6 DEF PublisherLock, PublisherTimeout, PublisherTake, Worker
  <2>3. CASE h' = h /\ q' = q
    BY <1>4, <2>1, <2>3
  <2>4. CASE q # <<>> /\ h' = Head(q) /\ q' = Tail(q)
    <3>1. Head(q) \in 1..received
      <4>1. Elements(q) = {Head(q)} \cup Elements(Tail(q))
        BY <1>1, <2>4, ElementsFront
      <4>2. QED
        BY <1>1, <4>1
    <3>2. Head(q) # 0 /\ h = 0
      BY <1>3, <2>1, <3>1
    <3>3. UNCHANGED out
      BY <2>1
    <3> HIDE DEF h, q, waiting, out
    <3>4. waiting' = waiting
      BY <1>1, <1>3, <2>4, <3>2, HandFirstTake
    <3>5. QED
      BY <3>3, <3>4 DEF waiting, out
  <2>5. QED
    BY <2>2, <2>3, <2>4
<1>7. CASE PublisherSend
  <2>1. h # 0 /\ h' = 0 /\ q' = q
    BY <1>2, <1>3, <1>7 DEF PublisherSend, MessageSent, SendFailed, Worker
  <2>2. out' = out \/ out' = Append(out, h)
    <3>1. CASE SendFailed
      BY <3>1 DEF SendFailed
    <3>2. CASE MessageSent
      <4> DEFINE m == [session |-> session, id |-> next_message_id, packet |-> h]
                 S == Message \cup {m}
      <4>1. wire' = Append(wire, m) /\ m.packet = h
        BY <3>2 DEF MessageSent
      <4>2. wire \in Seq(S)
        BY <1>1, SeqMonotonic
      <4>3. PacketsOf(Append(wire, m)) = Append(PacketsOf(wire), m.packet)
        <5>1. m \in S
          OBVIOUS
        <5> HIDE DEF m, S
        <5>2. QED
          BY <4>2, <5>1, PacketsOfAppend
      <4>4. QED
        BY <4>1, <4>3
    <3>3. QED
      BY <1>7, <3>1, <3>2 DEF PublisherSend
  <2>3. waiting # <<>> /\ Head(waiting) = h /\ Tail(waiting) = q /\ waiting' = q
    <3> HIDE DEF h, q, waiting
    <3>1. waiting' = q
      BY <1>3, <2>1 DEF HandFirst
    <3>2. QED
      BY <1>1, <1>3, <2>1, <3>1, HandFirstParts
  <2>4. Stream!Deliver \/ Stream!Drop
    <3> HIDE DEF h, q, out
    <3>1. QED
      BY <2>2, <2>3 DEF Stream!Deliver, Stream!Drop, out, PacketsOf
  <2>5. QED
    BY <2>4 DEF Stream!Next
<1>8. CASE ResetSockets
  <2>1. hold' = hold /\ q' = <<>> /\ wire' = wire /\ thread["pub"] # "send"
    BY <1>8 DEF ResetSockets, AllJoined, Idle, Worker
  <2>2. waiting' = <<>>
    BY <1>3, <2>1 DEF HandFirst
  <2>3. UNCHANGED out
    BY <2>1
  <2>4. Stream!Close
    BY <2>2, <2>3 DEF Stream!Close, PacketsOf
  <2>5. QED
    BY <2>4 DEF Stream!Next
<1>9. ASSUME ReliableTake \/ ReliableSend PROVE UNCHANGED <<waiting, out>>
  <2>1. h' = h /\ q' = q /\ wire' = wire
    BY <1>2, <1>9 DEF ReliableTake, ReliableSend, NotSent, Worker
  <2>2. QED
    BY <1>4, <2>1
<1>10. ASSUME NEW w \in Worker, NEW l \in {"lock", "poll"},
              \/ Initialize \/ StartThread(w) \/ Shutdown \/ Join(w)
              \/ PublishPacket \/ NotifyPublisher
              \/ LoopTest(w, l) \/ PublisherCount \/ CommandPoll \/ UNCHANGED vars
       PROVE  UNCHANGED <<waiting, out>>
  <2>1. h' = h /\ q' = q /\ wire' = wire
    BY <1>10 DEF Initialize, StartThread, Shutdown, Join, PublishPacket, NotifyPublisher,
                 LoopTest, PublisherCount, CommandPoll, vars
  <2>2. QED
    BY <1>4, <2>1
<1> HIDE DEF h, q, waiting, out
<1>11. QED
  BY <1>5, <1>6, <1>7, <1>8, <1>9, <1>10
     DEF Next, Ashita, MainThread, PublisherThread, ReliableQueueThread, CommandThread, Unloaded, Worker,
         waiting, out

LEMMA InitBounded == Init => Bounded
BY RelayAssumption DEF Init, Bounded, RelayAssumption

\* For any number of packets.
LEMMA BoundedPackets == Spec => []Bounded
<1>1. IInv /\ Bounded /\ [Next]_vars => Bounded'
  BY BoundedPacketsStep
<1>2. QED
  BY <1>1, InitBounded, InductiveInvariant, PTL DEF Spec

(***************************************************************************)
(* The reliable queue, its thread and the PUSH socket do what PacketStream *)
(* allows: they take packets as they come, deliver or drop the oldest, and *)
(* lose what still waits only when the relay goes away.                    *)
(***************************************************************************)
THEOREM ReliableRefined == Spec => Reliable!Spec
<1>1. Init => Reliable!Init
  <2>1. <<>> \o <<>> = <<>>
    BY ConcatEmptySeq
  <2>2. QED
    BY <2>1 DEF Init, Reliable!Init, InHand, Idle, Worker
<1>2. IInv /\ IInv' /\ Bounded' /\ [Next]_vars
        => [Reliable!Next]_<<InHand("push") \o packet_queue, pulled>>
  BY ReliableStep
<1>3. QED
  BY <1>1, <1>2, InductiveInvariant, BoundedPackets, PTL DEF Spec, Reliable!Spec

(***************************************************************************)
(* So do the publish queue, the publisher and the PUB socket, over any     *)
(* number of sessions.                                                     *)
(***************************************************************************)
THEOREM StreamRefined == Spec => Stream!Spec
<1>1. Init => Stream!Init
  <2>1. <<>> \o <<>> = <<>>
    BY ConcatEmptySeq
  <2>2. ASSUME wire = <<>> PROVE [i \in 1..Len(wire) |-> wire[i].packet] = <<>>
    BY <2>2
  <2>3. QED
    BY <2>1, <2>2 DEF Init, Stream!Init, InHand, Idle, Worker
<1>2. IInv /\ IInv' /\ OrderInv /\ Bounded /\ [Next]_vars
        => [Stream!Next]_<<InHand("pub") \o publish_queue, [i \in 1..Len(wire) |-> wire[i].packet]>>
  BY StreamStep DEF OrderInv, PacketsOf
<1>3. QED
  BY <1>1, <1>2, InductiveInvariant, OrderInvariant, BoundedPackets, PTL DEF Spec, Stream!Spec

=============================================================================
