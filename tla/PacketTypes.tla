---------------------------- MODULE PacketTypes -----------------------------
(***************************************************************************)
(* One packet through the plugin: the hook of src/src/kpacket.cpp that is  *)
(* called for it, the PacketInfo made of it (src/src/packet_types.cpp),    *)
(* and its message on either path (src/src/zmq_relay.cpp), while the hook  *)
(* goes on to change or block the packet.                                  *)
(*                                                                         *)
(* Of a packet's bytes, the sync counter of its header and the one byte    *)
(* that a hook may change; of a name, the table it comes from.  Left out   *)
(* are the timestamp and the session_id made of it, and the two sizes.     *)
(***************************************************************************)
EXTENDS Naturals, Sequences

CONSTANTS
  Id,          \* the packet ids, 16 bits wide
  Sync,        \* the values of a sync counter
  Byte,        \* the values of the byte that a hook may change
  Chunk,       \* the chunks that packets belong to
  Session,     \* the values of session_uuid_
  MessageId    \* the values of next_message_id_ (module ZmqRelay counts them)

ASSUME PacketAssumption ==
  /\ Id \subseteq 0..65535
  /\ Sync \subseteq Nat
  /\ Byte \subseteq 0..255
  /\ MessageId \subseteq Nat

\* A packet that comes in no chunk.
NoChunk == "no chunk"

ASSUME ChunkAssumption == NoChunk \notin Chunk

\* Not made yet.
None == <<>>

VARIABLES
  packet,     \* the arguments of the hook
  modified,   \* the byte in the buffer that the game will see
  hook,       \* how far the hook is
  blocks,     \* what the hook returned
  info,       \* the PacketInfo
  message,    \* the message on the PUB socket
  json        \* the message on the PUSH socket

vars == <<packet, modified, hook, blocks, info, message, json>>

Direction == {"INCOMING", "OUTGOING"}

Packet ==
  [id : Id, direction : Direction, sync : Sync, byte : Byte, chunk : Chunk \cup {NoChunk},
   injected : BOOLEAN, blocked : BOOLEAN]

\* Other plugins may have changed the game's buffer before this one is called.
Init ==
  /\ packet \in Packet
  /\ modified \in Byte
  /\ hook = "called"
  /\ blocks = FALSE
  /\ info = None
  /\ message = None
  /\ json = None

(***************************************************************************)
(* PacketClassifier.                                                       *)
(***************************************************************************)

\* The ids that world_client_packets, world_server_packets and lobby_packets name.
world_client_packets ==
  {10, 11, 12, 13, 15, 21, 22, 23, 26, 27, 30, 31, 40, 41, 42, 50, 51, 52, 53, 54, 55, 56, 93, 181, 182}

world_server_packets ==
  {5, 6, 8, 9, 10, 11, 13, 14, 17, 23, 28, 29, 30, 31, 32, 40, 41, 90, 210, 211}

lobby_packets == {7, 20, 31, 33, 34, 36, 38, 40, 43}

\* A slip SyncFromHeader detects: the range of ids that fit in one byte.
IsWorldPacketByte(id) == id >= 5 /\ id <= 255

IsWorldPacket(id) == id >= 5 /\ id <= 286

UNKNOWN == [kind |-> "unknown", way |-> "unknown"]

ClassifyPacket(id, direction) ==
  LET way == IF direction = "INCOMING" THEN "s2c" ELSE "c2s"
  IN  IF id >= 5 /\ id <= 286 THEN [kind |-> "world", way |-> way]
      ELSE IF id \in lobby_packets THEN [kind |-> "lobby", way |-> way]
      ELSE IF id >= 1 /\ id <= 8 THEN [kind |-> "patch", way |-> way]
      ELSE UNKNOWN

NameIn(table, ids, id) == [table |-> table, known |-> id \in ids]

GetPacketName(id, type) ==
  CASE type = [kind |-> "world", way |-> "c2s"] -> NameIn("world_client", world_client_packets, id)
    [] type = [kind |-> "world", way |-> "s2c"] -> NameIn("world_server", world_server_packets, id)
    [] type.kind = "lobby"                      -> NameIn("lobby", lobby_packets, id)
    [] type = [kind |-> "patch", way |-> "c2s"] -> NameIn("patch_client", {}, id)
    [] type = [kind |-> "patch", way |-> "s2c"] -> NameIn("patch_server", {}, id)
    [] OTHER                                    -> NameIn("none", {}, id)

(***************************************************************************)
(* PacketParser, in the hook.                                              *)
(***************************************************************************)

\* header.world.sync, the second word of the packet.
ParseHeader(p) == p.sync

\* The member sync_count of a PacketInfo: nothing sets it for a packet that is
\* not a world packet, and it has whatever was in its memory.
SyncCount(p) == IF IsWorldPacket(p.id) THEN {ParseHeader(p)} ELSE Sync

CreatePacketInfo(p, sync) ==
  LET type == ClassifyPacket(p.id, p.direction)
  IN  [id         |-> p.id,
       direction  |-> p.direction,
       type       |-> type,
       name       |-> GetPacketName(p.id, type),
       data       |-> [sync |-> p.sync, byte |-> p.byte],
       injected   |-> p.injected,
       blocked    |-> p.blocked,
       sync_count |-> sync,
       chunk_data |-> p.chunk]

\* A slip OriginalRelayed detects: the PacketInfo is made of the buffer that
\* the game will see.
RelayModified ==
  /\ hook = "called"
  /\ \E sync \in SyncCount(packet) :
       info' = CreatePacketInfo([packet EXCEPT !.byte = modified], sync)
  /\ hook' = "relayed"
  /\ UNCHANGED <<packet, modified, blocks, message, json>>

\* The first half of HandleIncomingPacket and HandleOutgoingPacket, with a relay
\* that runs and takes the packet (module ZmqRelay).
Relay ==
  /\ hook = "called"
  /\ \E sync \in SyncCount(packet) : info' = CreatePacketInfo(packet, sync)
  /\ hook' = "relayed"
  /\ UNCHANGED <<packet, modified, blocks, message, json>>

\* The second half: two packets are changed, and one is blocked.
Change ==
  /\ hook = "relayed"
  /\ hook' = "returned"
  /\ \/ /\ packet.direction = "INCOMING" /\ packet.id = 90
        /\ modified' = IF modified = 29 THEN 8 ELSE modified
        /\ blocks' = (modified' = 12)
     \/ /\ packet.direction = "OUTGOING" /\ packet.id = 93
        /\ modified' = IF modified = 24 THEN 8 ELSE modified
        /\ UNCHANGED blocks
     \/ /\ <<packet.direction, packet.id>> \notin {<<"INCOMING", 90>>, <<"OUTGOING", 93>>}
        /\ UNCHANGED <<modified, blocks>>
  /\ UNCHANGED <<packet, info, message, json>>

(***************************************************************************)
(* The relay's two messages.                                               *)
(***************************************************************************)

\* A byte string as text, from which a client has the bytes again.
base64_encode(bytes) == [base64 |-> bytes]

base64_decode(text) == text.base64

\* The fields of the JSON object that both messages have.
Meta(i) ==
  [direction   |-> IF i.direction = "INCOMING" THEN "incoming" ELSE "outgoing",
   packet_type |-> i.type,
   packet_id   |-> i.id,
   packet_name |-> i.name,
   injected    |-> i.injected,
   blocked     |-> i.blocked,
   sync_count  |-> i.sync_count]

\* chunk_data is a field of its own for a packet that has one.
to_json(i) ==
  [meta       |-> Meta(i),
   data       |-> base64_encode(i.data),
   chunk_data |-> IF i.chunk_data = NoChunk THEN <<>> ELSE <<base64_encode(i.chunk_data)>>]

\* config_.protocol_version.
protocol_version == "v1"

\* The fields that PublisherThread adds; ReliableQueueThread adds none.
Added == [version : {protocol_version}, session_uuid : Session, message_id : MessageId]

\* An assignment to a field of a JSON object sets it, or adds it.
Augment(meta, added) ==
  [field \in DOMAIN meta \cup DOMAIN added |-> IF field \in DOMAIN added THEN added[field] ELSE meta[field]]

\* A slip MetaAgrees detects: the way of the topic is that of the table that
\* knows the id.
TopicByTable(i) ==
  <<"kpacket", protocol_version, i.type.kind, IF i.id \in world_server_packets THEN "s2c" ELSE "c2s", i.id>>

\* The words of the topic, the id in hexadecimal.
TopicForPacket(i) ==
  <<"kpacket", protocol_version, i.type.kind, IF i.direction = "INCOMING" THEN "s2c" ELSE "c2s", i.id>>

\* A slip PathsCarrySame detects: a frame for the chunk in every message.
FramesWithChunk(i, added) ==
  <<TopicForPacket(i), Augment(to_json(i).meta, added), i.data, i.chunk_data>>

\* The frames of a message on the PUB socket, pub_use_multipart_raw being set.
Frames(i, added) ==
  <<TopicForPacket(i), Augment(to_json(i).meta, added), i.data>>
    \o (IF i.chunk_data = NoChunk THEN <<>> ELSE <<i.chunk_data>>)

\* PublisherThread.
Publish ==
  /\ hook # "called"
  /\ message = None
  /\ \E added \in Added : message' = Frames(info, added)
  /\ UNCHANGED <<packet, modified, hook, blocks, info, json>>

\* ReliableQueueThread.
Push ==
  /\ hook # "called"
  /\ json = None
  /\ json' = <<to_json(info)>>
  /\ UNCHANGED <<packet, modified, hook, blocks, info, message>>

\* The packet has gone its way.
Gone ==
  /\ hook = "returned"
  /\ message # None
  /\ json # None
  /\ UNCHANGED vars

Next == Relay \/ Change \/ Publish \/ Push \/ Gone

Spec == Init /\ [][Next]_vars

(***************************************************************************)
(* Properties.                                                             *)
(***************************************************************************)

Sent == message # None

\* The parts of a message on the PUB socket.
Topic == message[1]
MetaOf == message[2]
Raw == message[3]

\* A message that a client takes for a world packet has the counter of its own
\* header: CreatePacketInfo (packet_types.cpp:211) asks IsWorldPacket whether to
\* parse the header, a second test beside that of ClassifyPacket.
SyncFromHeader ==
  Sent /\ MetaOf.packet_type.kind = "world" => MetaOf.sync_count = Raw.sync

\* The four things that a message says of a packet's kind and way agree: its
\* topic (zmq_relay.cpp:438), its packet_type (409) and its direction (408) by
\* three different tests, and its name by the tables (packet_types.cpp:119).
MetaAgrees ==
  Sent =>
    LET type == MetaOf.packet_type
        table == MetaOf.packet_name.table
    IN  /\ Topic[3] = type.kind
        /\ MetaOf.direction = (IF Topic[4] = "s2c" THEN "incoming" ELSE "outgoing")
        /\ type.kind # "unknown" => Topic[4] = type.way
        /\ table = (CASE type.kind = "world" /\ Topic[4] = "s2c" -> "world_server"
                     [] type.kind = "world" /\ Topic[4] = "c2s" -> "world_client"
                     [] type.kind = "patch" /\ Topic[4] = "s2c" -> "patch_server"
                     [] type.kind = "patch" /\ Topic[4] = "c2s" -> "patch_client"
                     [] type.kind = "lobby"                    -> "lobby"
                     [] OTHER                                  -> "none")

\* A client of the PUB socket and one of the PUSH socket see the same packet.
\* Every field of the PUSH message is in the PUB message with the same value, and
\* that has three more (zmq_relay.cpp:201-203); the bytes and the chunk are the
\* same, though one has them in frames, the chunk in a frame that may be missing
\* (216-224), and the other as text in fields (423, 433).
PathsCarrySame ==
  Sent /\ json # None =>
    /\ DOMAIN MetaOf = DOMAIN json[1].meta \cup {"version", "session_uuid", "message_id"}
    /\ \A field \in DOMAIN json[1].meta : MetaOf[field] = json[1].meta[field]
    /\ base64_decode(json[1].data) = Raw
    /\ SubSeq(message, 4, Len(message)) =
         [k \in DOMAIN json[1].chunk_data |-> base64_decode(json[1].chunk_data[k])]

\* Both paths carry the packet as it came, whichever of the hook and the worker
\* threads is first: the hook (kpacket.cpp:247, 273) changes the buffer of the
\* game after it has relayed a copy of the packet, which is sent later.
OriginalRelayed ==
  LET bytes == [sync |-> packet.sync, byte |-> packet.byte]
  IN  /\ Sent => Raw = bytes
      /\ json # None => base64_decode(json[1].data) = bytes

\* The sync_count of every message is the counter of the packet's header, which
\* docs/DESIGN.md:73 calls "Synchronization counter" and DESIGN.md:105 has in
\* every message. (It does not hold.)
SyncAlwaysFromHeader ==
  Sent => MetaOf.sync_count = Raw.sync

=============================================================================
