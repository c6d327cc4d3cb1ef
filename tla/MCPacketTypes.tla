--------------------------- MODULE MCPacketTypes ----------------------------
(***************************************************************************)
(* PacketTypes on both sides of every limit of the classification, the ids *)
(* of every table, and the bytes that the hooks look for.                  *)
(***************************************************************************)
EXTENDS PacketTypes

MCIds == 0..56 \cup {90, 93, 181, 182, 210, 211, 255, 256, 285, 286, 287, 511, 65535}

MCBytes == {0, 12, 24, 29}
=============================================================================
