------------------------ MODULE PacketMonitorProofs -------------------------
(***************************************************************************)
(* What holds of the console monitor (module PacketMonitor), for any       *)
(* number of commands and whatever the plugin does.                        *)
(***************************************************************************)
EXTENDS PacketMonitor, TLAPS

USE DEF socket

\* The socket: one that may send has nothing under way, one that waits has its
\* request or the answer to it, and who receives has neither of an earlier
\* command.
OneRequest ==
  /\ req \in {"ready", "waiting"}
  /\ req = "ready" => question = "none" /\ answer = "none"
  /\ main = "recv" => question # "stale" /\ answer # "stale"
  /\ question = "none" \/ answer = "none"

LEMMA OneRequestStep == OneRequest /\ [Next]_vars => OneRequest'
<1> SUFFICES ASSUME OneRequest, [Next]_vars PROVE OneRequest'
  OBVIOUS
<1> USE DEF OneRequest
<1>1. CASE Input
  BY <1>1 DEF Input, NewRound, Older
<1>2. CASE Send
  BY <1>2 DEF Send, SendRequest, SendTimesOut
<1>3. CASE Receive
  BY <1>3 DEF Receive, ReceiveAnswer
<1>4. CASE PluginStep
  BY <1>4 DEF PluginStep, Plugin, Load, Unload, AnswerRequest
<1>5. CASE Start \/ ReceiveTimeout \/ Stop \/ Join \/ Destroy \/ MonitorPackets
  BY <1>5 DEF Start, ReceiveTimeout, Stop, Join, Destroy, MonitorPackets, LoopTest, MonitorRecv
<1>6. CASE UNCHANGED vars
  BY <1>6 DEF vars
<1>7. QED
  BY <1>1, <1>2, <1>3, <1>4, <1>5, <1>6 DEF Next, MainThread

\* A response that is printed answers the command just entered: a command that
\* finds the socket waiting for an earlier answer ends with what send throws,
\* and one that gets past send has a socket with nothing of an earlier command.
THEOREM AlwaysResponseFits == Spec => []ResponseFits
<1>1. Init => OneRequest
  BY DEF Init, SocketInit, OneRequest
<1>2. OneRequest /\ [Next]_vars => OneRequest'
  BY OneRequestStep
<1>3. OneRequest => ResponseFits
  BY DEF OneRequest, ResponseFits
<1>4. QED
  BY <1>1, <1>2, <1>3, PTL DEF Spec

=============================================================================
