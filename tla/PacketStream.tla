---------------------------- MODULE PacketStream ----------------------------
(***************************************************************************)
(* What a path of the relay promises to the clients at its far end: the    *)
(* packets it delivers come in the order in which the game produced them,  *)
(* each at most once.  A packet may be dropped, but none waits for ever.   *)
(* Packets are natural numbers, in the order in which the game makes them.  *)
(***************************************************************************)
EXTENDS Naturals, Sequences

CONSTANT Packet   \* the packets the game may produce

VARIABLES
  waiting,   \* accepted, neither delivered nor dropped
  out        \* delivered

Init == waiting = <<>> /\ out = <<>>

\* A packet newer than all before it.
Accept ==
  \E p \in Packet :
    /\ waiting' = Append(waiting, p)
    /\ \A i \in 1..Len(waiting) : waiting[i] < p
    /\ \A i \in 1..Len(out) : out[i] < p
    /\ UNCHANGED out

Deliver == waiting # <<>> /\ out' = Append(out, Head(waiting)) /\ waiting' = Tail(waiting)

Drop == waiting # <<>> /\ waiting' = Tail(waiting) /\ UNCHANGED out

\* The relay goes away with what still waits.
Close == waiting' = <<>> /\ UNCHANGED out

Next == Accept \/ Deliver \/ Drop \/ Close

Spec == Init /\ [][Next]_<<waiting, out>>

FairSpec == Spec /\ WF_<<waiting, out>>(Deliver \/ Drop)

=============================================================================
