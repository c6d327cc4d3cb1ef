------------------------- MODULE PacketTypesProofs --------------------------
(***************************************************************************)
(* What holds of the messages made of a packet (module PacketTypes), for   *)
(* every packet id, every sync counter and every byte.                     *)
(***************************************************************************)
EXTENDS PacketTypes, SequenceTheorems, TLAPS

\* The PacketInfo is the packet as it came, and the messages are the
\* PacketInfo's, whatever the hook has changed since.
InfoOfPacket ==
  /\ packet \in Packet
  /\ hook \in {"called", "relayed", "returned"}
  /\ hook # "called" => \E sync \in SyncCount(packet) : info = CreatePacketInfo(packet, sync)

MessagesOfInfo ==
  /\ hook = "called" => message = None /\ json = None
  /\ message # None => \E added \in Added : message = Frames(info, added)
  /\ json # None => json = <<to_json(info)>>

IInv == InfoOfPacket /\ MessagesOfInfo

(***************************************************************************)
(* Lemmas about the operators.                                             *)
(***************************************************************************)

\* The frames of a message, with the chunk last or not at all.
LEMMA FramesParts ==
  ASSUME NEW i, NEW added
  PROVE  /\ Frames(i, added) # None
         /\ Frames(i, added)[1] = TopicForPacket(i)
         /\ Frames(i, added)[2] = Augment(Meta(i), added)
         /\ Frames(i, added)[3] = i.data
         /\ SubSeq(Frames(i, added), 4, Len(Frames(i, added))) = IF i.chunk_data = NoChunk THEN <<>> ELSE <<i.chunk_data>>
<1> DEFINE t == TopicForPacket(i)
           m == Augment(to_json(i).meta, added)
           d == i.data
           c == i.chunk_data
           S == {t, m, d, c}
<1>1. m = Augment(Meta(i), added)
  BY DEF to_json
<1>2. Frames(i, added) = <<t, m, d>> \o (IF c = NoChunk THEN <<>> ELSE <<c>>)
  BY DEF Frames
<1> HIDE DEF t, m, d, c
<1>3. <<t, m, d>> \in Seq(S) /\ Len(<<t, m, d>>) = 3 /\ <<c>> \in Seq(S) /\ Len(<<c>>) = 1
  OBVIOUS
<1>4. CASE c = NoChunk
  <2>1. <<t, m, d>> \o <<>> = <<t, m, d>>
    BY <1>3, ConcatEmptySeq
  <2>2. Frames(i, added) = <<t, m, d>>
    BY <1>2, <1>4, <2>1
  <2>3. SubSeq(<<t, m, d>>, 4, 3) = <<>>
    BY <1>3, SubSeqEmpty
  <2>4. QED
    BY <1>1, <1>3, <1>4, <2>2, <2>3 DEF None, t, d, c
<1>5. CASE c # NoChunk
  <2>1. Frames(i, added) = <<t, m, d>> \o <<c>>
    BY <1>2, <1>5
  <2>2. /\ <<t, m, d>> \o <<c>> \in Seq(S)
        /\ Len(<<t, m, d>> \o <<c>>) = 4
        /\ \A k \in 1..4 : (<<t, m, d>> \o <<c>>)[k] = IF k <= 3 THEN <<t, m, d>>[k] ELSE <<c>>[k - 3]
    BY <1>3, ConcatProperties
  <2>3. Frames(i, added) \in Seq(S) /\ Len(Frames(i, added)) = 4
    BY <2>1, <2>2
  <2>4. Frames(i, added)[1] = t /\ Frames(i, added)[2] = m /\ Frames(i, added)[3] = d /\ Frames(i, added)[4] = c
    BY <2>1, <2>2
  <2>5. SubSeq(Frames(i, added), 4, 4) = <<c>>
    <3> DEFINE u == SubSeq(Frames(i, added), 4, 4)
    <3>1. \A k \in 4..4 : Frames(i, added)[k] \in S
      BY <2>4
    <3>2. /\ u \in Seq(S)
          /\ Len(u) = IF 4 <= 4 THEN 4 - 4 + 1 ELSE 0
          /\ \A k \in 1..(4 - 4 + 1) : u[k] = Frames(i, added)[4 + k - 1]
      BY <3>1, SubSeqProperties
    <3>3. Len(u) = 1 /\ u[1] = c
      BY <2>4, <3>2
    <3> HIDE DEF u
    <3>4. \A k \in 1..Len(u) : u[k] = <<c>>[k]
      BY <3>3
    <3>5. u = <<c>>
      BY <1>3, <3>2, <3>3, <3>4, SeqEqual
    <3>6. QED
      BY <3>5 DEF u
  <2>6. Frames(i, added) # None
    BY <2>3 DEF None
  <2>7. QED
    BY <1>1, <1>5, <2>3, <2>4, <2>5, <2>6 DEF t, d, c
<1>6. QED
  BY <1>4, <1>5

\* The fields that the relay adds are none of the others.
LEMMA AddedFields ==
  ASSUME NEW i, NEW added \in Added
  PROVE  /\ DOMAIN Augment(Meta(i), added) = DOMAIN Meta(i) \cup {"version", "session_uuid", "message_id"}
         /\ \A field \in DOMAIN Meta(i) : Augment(Meta(i), added)[field] = Meta(i)[field]
<1>1. DOMAIN added = {"version", "session_uuid", "message_id"}
  BY DEF Added
<1>2. DOMAIN Meta(i) =
        {"direction", "packet_type", "packet_id", "packet_name", "injected", "blocked", "sync_count"}
  BY DEF Meta
<1>3. \A field \in DOMAIN Meta(i) : field \notin DOMAIN added
  BY <1>1, <1>2
<1>4. QED
  BY <1>1, <1>3 DEF Augment

\* What the classification and the tables say, in the words of the topic.
LEMMA NamedByType ==
  ASSUME NEW id, NEW direction \in Direction
  PROVE  LET type == ClassifyPacket(id, direction)
             way == IF direction = "INCOMING" THEN "s2c" ELSE "c2s"
         IN  /\ type.kind \in {"world", "lobby", "patch", "unknown"}
             /\ type.kind # "unknown" => type.way = way
             /\ type.kind = "world" => IsWorldPacket(id)
             /\ GetPacketName(id, type).table =
                  (CASE type.kind = "world" /\ way = "s2c" -> "world_server"
                     [] type.kind = "world" /\ way = "c2s" -> "world_client"
                     [] type.kind = "patch" /\ way = "s2c" -> "patch_server"
                     [] type.kind = "patch" /\ way = "c2s" -> "patch_client"
                     [] type.kind = "lobby"                -> "lobby"
                     [] OTHER                              -> "none")
<1> DEFINE type == ClassifyPacket(id, direction)
           way == IF direction = "INCOMING" THEN "s2c" ELSE "c2s"
<1>1. way \in {"s2c", "c2s"}
  OBVIOUS
<1>2. \/ IsWorldPacket(id) /\ type = [kind |-> "world", way |-> way]
      \/ type = [kind |-> "lobby", way |-> way]
      \/ type = [kind |-> "patch", way |-> way]
      \/ type = [kind |-> "unknown", way |-> "unknown"]
  BY DEF ClassifyPacket, UNKNOWN, IsWorldPacket
<1> HIDE DEF type, way
<1>3. GetPacketName(id, type).table =
                  (CASE type.kind = "world" /\ way = "s2c" -> "world_server"
                     [] type.kind = "world" /\ way = "c2s" -> "world_client"
                     [] type.kind = "patch" /\ way = "s2c" -> "patch_server"
                     [] type.kind = "patch" /\ way = "c2s" -> "patch_client"
                     [] type.kind = "lobby"                -> "lobby"
                     [] OTHER                              -> "none")
  BY <1>1, <1>2 DEF GetPacketName, NameIn
<1>4. QED
  BY <1>1, <1>2, <1>3 DEF type, way

(***************************************************************************)
(* The invariant.                                                          *)
(***************************************************************************)

LEMMA InfoOfPacketStep == InfoOfPacket /\ [Next]_vars => InfoOfPacket'
<1> SUFFICES ASSUME InfoOfPacket, [Next]_vars PROVE InfoOfPacket'
  OBVIOUS
<1> USE DEF InfoOfPacket
<1>1. CASE Relay
  BY <1>1 DEF Relay
<1>2. CASE Change
  BY <1>2 DEF Change
<1>3. CASE UNCHANGED <<packet, hook, info>>
  BY <1>3
<1>4. QED
  BY <1>1, <1>2, <1>3 DEF Next, Publish, Push, Gone, vars

LEMMA MessagesOfInfoStep == InfoOfPacket /\ MessagesOfInfo /\ [Next]_vars => MessagesOfInfo'
<1> SUFFICES ASSUME InfoOfPacket, MessagesOfInfo, [Next]_vars PROVE MessagesOfInfo'
  OBVIOUS
<1> USE DEF MessagesOfInfo, InfoOfPacket
<1>1. CASE Relay
  BY <1>1 DEF Relay
<1>2. CASE Change
  BY <1>2 DEF Change
<1>3. CASE Publish
  BY <1>3 DEF Publish
<1>4. CASE Push
  BY <1>4 DEF Push
<1>5. CASE UNCHANGED vars
  BY <1>5 DEF vars
<1>6. QED
  BY <1>1, <1>2, <1>3, <1>4, <1>5 DEF Next, Gone

\* What holds in every state of the hook and of the two messages.
THEOREM InductiveInvariant == Spec => []IInv
<1>1. Init => IInv
  BY DEF Init, IInv, InfoOfPacket, MessagesOfInfo
<1>2. IInv /\ [Next]_vars => IInv'
  BY InfoOfPacketStep, MessagesOfInfoStep DEF IInv
<1>3. QED
  BY <1>1, <1>2, PTL DEF Spec

\* A message that is there, part by part.
LEMMA SentParts ==
  ASSUME IInv, Sent
  PROVE  \E sync \in SyncCount(packet) :
           LET i == CreatePacketInfo(packet, sync)
           IN  /\ info = i
               /\ Topic = TopicForPacket(i)
               /\ \A field \in DOMAIN Meta(i) : MetaOf[field] = Meta(i)[field]
               /\ DOMAIN MetaOf = DOMAIN Meta(i) \cup {"version", "session_uuid", "message_id"}
               /\ Raw = [sync |-> packet.sync, byte |-> packet.byte]
               /\ SubSeq(message, 4, Len(message)) = IF i.chunk_data = NoChunk THEN <<>> ELSE <<i.chunk_data>>
<1>1. PICK sync \in SyncCount(packet) : info = CreatePacketInfo(packet, sync)
  BY DEF IInv, InfoOfPacket, MessagesOfInfo, Sent
<1>2. PICK added \in Added : message = Frames(info, added)
  BY DEF IInv, MessagesOfInfo, Sent
<1>3. info.data = [sync |-> packet.sync, byte |-> packet.byte]
  BY <1>1 DEF CreatePacketInfo
<1>4. /\ Topic = TopicForPacket(info)
      /\ MetaOf = Augment(Meta(info), added)
      /\ Raw = info.data
      /\ SubSeq(message, 4, Len(message)) = IF info.chunk_data = NoChunk THEN <<>> ELSE <<info.chunk_data>>
  BY <1>2, FramesParts DEF Topic, MetaOf, Raw
<1>5. /\ \A field \in DOMAIN Meta(info) : MetaOf[field] = Meta(info)[field]
      /\ DOMAIN MetaOf = DOMAIN Meta(info) \cup {"version", "session_uuid", "message_id"}
  BY <1>4, AddedFields
<1>6. QED
  BY <1>1, <1>3, <1>4, <1>5

\* A field of a message on the PUB socket, by its name.
LEMMA FieldsOfMeta ==
  ASSUME NEW i, \A field \in DOMAIN Meta(i) : MetaOf[field] = Meta(i)[field]
  PROVE  /\ MetaOf.direction = IF i.direction = "INCOMING" THEN "incoming" ELSE "outgoing"
         /\ MetaOf.packet_type = i.type
         /\ MetaOf.packet_name = i.name
         /\ MetaOf.sync_count = i.sync_count
<1>1. {"direction", "packet_type", "packet_name", "sync_count"} \subseteq DOMAIN Meta(i)
  BY DEF Meta
<1>2. /\ MetaOf.direction = Meta(i).direction
      /\ MetaOf.packet_type = Meta(i).packet_type
      /\ MetaOf.packet_name = Meta(i).packet_name
      /\ MetaOf.sync_count = Meta(i).sync_count
  BY <1>1
<1>3. QED
  BY <1>2 DEF Meta

\* The counter of a world packet is its header's, for every id: IsWorldPacket
\* holds whenever ClassifyPacket says "world".
THEOREM AlwaysSyncFromHeader == Spec => []SyncFromHeader
<1>1. IInv => SyncFromHeader
  <2> SUFFICES ASSUME IInv, Sent, MetaOf.packet_type.kind = "world" PROVE MetaOf.sync_count = Raw.sync
    BY DEF SyncFromHeader
  <2>1. PICK sync \in SyncCount(packet) :
          LET i == CreatePacketInfo(packet, sync)
          IN  /\ \A field \in DOMAIN Meta(i) : MetaOf[field] = Meta(i)[field]
              /\ Raw = [sync |-> packet.sync, byte |-> packet.byte]
    BY SentParts
  <2>2. MetaOf.packet_type = ClassifyPacket(packet.id, packet.direction) /\ MetaOf.sync_count = sync
    BY <2>1, FieldsOfMeta DEF CreatePacketInfo
  <2>3. packet.direction \in Direction
    BY DEF IInv, InfoOfPacket, Packet
  <2>4. IsWorldPacket(packet.id)
    BY <2>2, <2>3, NamedByType
  <2>5. QED
    BY <2>1, <2>2, <2>4 DEF SyncCount, ParseHeader
<1>2. QED
  BY <1>1, InductiveInvariant, PTL

\* Topic, type, direction and table of names agree, for every id.
THEOREM AlwaysMetaAgrees == Spec => []MetaAgrees
<1>1. IInv => MetaAgrees
  <2> SUFFICES ASSUME IInv, Sent PROVE MetaAgrees
    BY DEF MetaAgrees
  <2> DEFINE type == ClassifyPacket(packet.id, packet.direction)
             way == IF packet.direction = "INCOMING" THEN "s2c" ELSE "c2s"
  <2>1. PICK sync \in SyncCount(packet) :
          LET i == CreatePacketInfo(packet, sync)
          IN  /\ Topic = TopicForPacket(i)
              /\ \A field \in DOMAIN Meta(i) : MetaOf[field] = Meta(i)[field]
    BY SentParts
  <2>2. packet.direction \in Direction
    BY DEF IInv, InfoOfPacket, Packet
  <2>3. Topic = <<"kpacket", "v1", type.kind, way, packet.id>>
    BY <2>1 DEF TopicForPacket, CreatePacketInfo, protocol_version
  <2>4. /\ MetaOf.packet_type = type
        /\ MetaOf.packet_name.table = GetPacketName(packet.id, type).table
        /\ MetaOf.direction = IF packet.direction = "INCOMING" THEN "incoming" ELSE "outgoing"
    BY <2>1, FieldsOfMeta DEF CreatePacketInfo
  <2>5. /\ type.kind # "unknown" => type.way = way
        /\ GetPacketName(packet.id, type).table =
             (CASE type.kind = "world" /\ way = "s2c" -> "world_server"
                [] type.kind = "world" /\ way = "c2s" -> "world_client"
                [] type.kind = "patch" /\ way = "s2c" -> "patch_server"
                [] type.kind = "patch" /\ way = "c2s" -> "patch_client"
                [] type.kind = "lobby"                -> "lobby"
                [] OTHER                              -> "none")
    BY <2>2, NamedByType
  <2>6. MetaOf.direction = IF way = "s2c" THEN "incoming" ELSE "outgoing"
    BY <2>2, <2>4 DEF Direction
  <2> HIDE DEF type, way
  <2>7. QED
    BY <2>3, <2>4, <2>5, <2>6 DEF MetaAgrees
<1>2. QED
  BY <1>1, InductiveInvariant, PTL

\* For every packet the two messages carry the same fields, bytes and chunk, and
\* the one on the PUB socket the relay's three fields besides.
THEOREM AlwaysPathsCarrySame == Spec => []PathsCarrySame
<1>1. IInv => PathsCarrySame
  <2> SUFFICES ASSUME IInv, Sent, json # None
               PROVE  /\ DOMAIN MetaOf = DOMAIN json[1].meta \cup {"version", "session_uuid", "message_id"}
                      /\ \A field \in DOMAIN json[1].meta : MetaOf[field] = json[1].meta[field]
                      /\ base64_decode(json[1].data) = Raw
                      /\ SubSeq(message, 4, Len(message)) =
                           [k \in DOMAIN json[1].chunk_data |-> base64_decode(json[1].chunk_data[k])]
    BY DEF PathsCarrySame
  <2>1. /\ \A field \in DOMAIN Meta(info) : MetaOf[field] = Meta(info)[field]
        /\ DOMAIN MetaOf = DOMAIN Meta(info) \cup {"version", "session_uuid", "message_id"}
        /\ Raw = info.data
        /\ SubSeq(message, 4, Len(message)) = IF info.chunk_data = NoChunk THEN <<>> ELSE <<info.chunk_data>>
    <3>1. PICK added \in Added : message = Frames(info, added)
      BY DEF IInv, MessagesOfInfo, Sent
    <3>2. /\ MetaOf = Augment(Meta(info), added)
          /\ Raw = info.data
          /\ SubSeq(message, 4, Len(message)) = IF info.chunk_data = NoChunk THEN <<>> ELSE <<info.chunk_data>>
      BY <3>1, FramesParts DEF MetaOf, Raw
    <3>3. /\ \A field \in DOMAIN Meta(info) : MetaOf[field] = Meta(info)[field]
          /\ DOMAIN MetaOf = DOMAIN Meta(info) \cup {"version", "session_uuid", "message_id"}
      BY <3>2, AddedFields
    <3>4. QED
      BY <3>2, <3>3
  <2>2. json[1] = to_json(info)
    BY DEF IInv, MessagesOfInfo
  <2>3. json[1].meta = Meta(info) /\ base64_decode(json[1].data) = Raw
    BY <2>1, <2>2 DEF to_json, base64_encode, base64_decode
  <2>4. json[1].chunk_data = IF info.chunk_data = NoChunk THEN <<>> ELSE <<base64_encode(info.chunk_data)>>
    BY <2>2 DEF to_json
  <2>5. SubSeq(message, 4, Len(message)) =
          [k \in DOMAIN json[1].chunk_data |-> base64_decode(json[1].chunk_data[k])]
    BY <2>1, <2>4 DEF base64_encode, base64_decode
  <2>6. QED
    BY <2>1, <2>3, <2>5
<1>2. QED
  BY <1>1, InductiveInvariant, PTL

\* The messages have the bytes with which the hook was called, for every packet
\* and whatever the hook does meanwhile.
THEOREM AlwaysOriginalRelayed == Spec => []OriginalRelayed
<1>1. IInv => OriginalRelayed
  <2> SUFFICES ASSUME IInv PROVE OriginalRelayed
    OBVIOUS
  <2> DEFINE bytes == [sync |-> packet.sync, byte |-> packet.byte]
  <2>1. Sent => Raw = bytes
    BY SentParts
  <2>2. json # None => base64_decode(json[1].data) = bytes
    <3> SUFFICES ASSUME json # None PROVE base64_decode(json[1].data) = bytes
      OBVIOUS
    <3>1. PICK sync \in SyncCount(packet) : info = CreatePacketInfo(packet, sync)
      BY DEF IInv, InfoOfPacket, MessagesOfInfo
    <3>2. json[1] = to_json(info)
      BY DEF IInv, MessagesOfInfo
    <3>3. QED
      BY <3>1, <3>2 DEF to_json, base64_encode, base64_decode, CreatePacketInfo
  <2>3. QED
    BY <2>1, <2>2 DEF OriginalRelayed
<1>2. QED
  BY <1>1, InductiveInvariant, PTL

=============================================================================
