----------------------------- MODULE ReqSocket ------------------------------
(***************************************************************************)
(* A client's REQ socket on the command interface of a plugin that comes   *)
(* and goes, as the monitors under src/examples use it.  ZeroMQ and the    *)
(* plugin are external here; CommandThread is the plugin's side.           *)
(*                                                                         *)
(* A message is "current" when it belongs to the poll or the command that  *)
(* the client has begun last, whether or not its send succeeds, and        *)
(* "stale" when it belongs to an earlier one.                              *)
(***************************************************************************)
VARIABLES
  up,         \* the plugin is loaded
  req,        \* "ready" to send, or "waiting" for an answer
  question,   \* the request on its way to the plugin
  answer      \* the answer that has arrived

socket == <<req, question, answer>>

SocketInit ==
  /\ up \in BOOLEAN
  /\ req = "ready"
  /\ question = "none"
  /\ answer = "none"

Older(m) == IF m = "none" THEN "none" ELSE "stale"

\* The client begins a poll or a command: all that is under way is of an earlier one.
NewRound ==
  /\ question' = Older(question)
  /\ answer' = Older(answer)
  /\ UNCHANGED req

\* send, when its turn: the request waits in the socket for a plugin that is
\* not there.
SendRequest ==
  /\ req = "ready"
  /\ req' = "waiting"
  /\ question' = "current"
  /\ UNCHANGED answer

\* send out of turn throws EFSM.
SendThrows == req = "waiting"

\* send waits for a connection and times out.
SendTimesOut == req = "ready" /\ ~up

ReceiveAnswer ==
  /\ req = "waiting"
  /\ answer # "none"
  /\ answer' = "none"
  /\ req' = "ready"
  /\ UNCHANGED question

\* recv out of turn throws EFSM.
ReceiveThrows == req = "ready"

\* The plugin may be gone, or just late.
ReceiveTimesOut == req = "waiting" /\ answer = "none"

\* A new socket knows nothing of the old one's request.
NewSocket ==
  /\ req' = "ready"
  /\ question' = "none"
  /\ answer' = "none"

-----------------------------------------------------------------------------
Load == ~up /\ up' = TRUE /\ UNCHANGED socket

\* A request that the plugin has taken goes with it.
Unload ==
  /\ up
  /\ up' = FALSE
  /\ question' \in {question, "none"}
  /\ UNCHANGED <<req, answer>>

AnswerRequest ==
  /\ up
  /\ question # "none"
  /\ answer' = question
  /\ question' = "none"
  /\ UNCHANGED <<up, req>>

Plugin == Load \/ Unload \/ AnswerRequest

=============================================================================
