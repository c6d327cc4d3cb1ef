--------------------------- MODULE MessageSource ----------------------------
(***************************************************************************)
(* What a subscriber may rely on in the numbers of the messages of         *)
(* src/src/zmq_relay.cpp: within a session they rise, an id is taken once, *)
(* and a new session starts again at 1.  An id may be taken and its        *)
(* message not sent.  ZmqRelay implements it; SubscriberThread is fed      *)
(* by it.                                                                  *)
(***************************************************************************)
EXTENDS Naturals, Sequences

VARIABLES
  session,           \* the session that has begun last
  next_message_id,   \* the id of its next message
  wire               \* the messages that went to the PUB socket

source == <<session, next_message_id, wire>>

Init ==
  /\ session = 0
  /\ next_message_id = 1
  /\ wire = <<>>

Message == [session |-> session, id |-> next_message_id]

Load ==
  /\ session' = session + 1
  /\ next_message_id' = 1
  /\ UNCHANGED wire

TakeId ==
  /\ session > 0
  /\ next_message_id' = next_message_id + 1
  /\ UNCHANGED session

Send == TakeId /\ wire' = Append(wire, Message)

\* What is done with the id after it was taken has failed.
SkipId == TakeId /\ UNCHANGED wire

Next == Load \/ Send \/ SkipId

Spec == Init /\ [][Next]_source

=============================================================================
