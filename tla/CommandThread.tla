--------------------------- MODULE CommandThread ----------------------------
(***************************************************************************)
(* The command interface of the relay (src/src/zmq_relay.cpp): the loop of *)
(* CommandThread, ProcessCommand and the handlers, between the main thread *)
(* that shuts it down and the REQ sockets of its clients.                  *)
(*                                                                         *)
(* ZeroMQ, external, from its use: a REP socket alternates between taking  *)
(* a request and sending the answer to it, and throws EFSM out of turn; a  *)
(* REQ socket alternates the other way round.  A request is one of the     *)
(* commands, "other" (well formed, not registered) or "malformed".         *)
(***************************************************************************)
EXTENDS Integers

CONSTANTS
  Client,        \* the clients, each with a REQ socket
  None,          \* no client, no request, no answer
  MaxRequests,   \* bound: requests the clients make
  MaxFailures    \* bound: failures to build or to send an answer

ASSUME CommandAssumption ==
  /\ None \notin Client
  /\ MaxRequests \in Nat
  /\ MaxFailures \in Nat

VARIABLES
  running,              \* running_
  thread,               \* where CommandThread is; "none": joined
  owed,                 \* the client whose answer rep_socket_ waits for
  request,              \* the request in CommandThread's hands
  reply,                \* the answer in CommandThread's hands
  commands_processed,   \* stats_.commands_processed
  packets_injected,     \* stats_.packets_injected
  failures,             \* failures so far
  req,                  \* each client's socket: "ready", "waiting", "closed"
  inbox,                \* each client's request on its way to rep_socket_
  mail,                 \* the answer in each client's REQ socket
  requests              \* requests so far

tally == <<commands_processed, packets_injected, failures>>
server == <<thread, owed, request, reply, tally>>
clients == <<req, mail, requests>>
vars == <<running, server, clients, inbox>>

\* command_handlers_, as the constructor fills it.
Registered == {"status", "hello", "inject", "filter", "stats"}

Request == Registered \cup {"other", "malformed"}

Init ==
  /\ running = TRUE
  /\ thread = "top"
  /\ owed = None
  /\ request = None
  /\ reply = None
  /\ commands_processed = 0
  /\ packets_injected = 0
  /\ failures = 0
  /\ req = [c \in Client |-> "ready"]
  /\ inbox = [c \in Client |-> None]
  /\ mail = [c \in Client |-> None]
  /\ requests = 0

(***************************************************************************)
(* ProcessCommand.                                                         *)
(***************************************************************************)

\* What an answer says: which handler made it, and a number for "stats"
\* (commands_processed) and "inject" (success).
Answer(kind, value) == [kind |-> kind, value |-> value]

Error == Answer("error", 0)

\* The injector that plugin::Initialize installs refuses everything.
PacketInjector == FALSE

\* hello's answer has the player's name from the game's memory, and dump
\* throws when that is not UTF-8: ProcessCommand then answers with the error.
HandleHello == {Answer("hello", 0), Error}

\* A field of params that is of another type ends in the handler's catch.
HandleInject == {Answer("inject", IF PacketInjector THEN 1 ELSE 0), Error}

\* A slip TypeOK detects: the request in hand is deducted.
HandleStatsLessOne(processed) == {Answer("stats", processed - 1)}

HandleStats(processed) == {Answer("stats", processed)}

\* What ProcessCommand may return.
ProcessCommand(r, processed) ==
  CASE r = "hello"                 -> HandleHello
    [] r = "inject"                -> HandleInject
    [] r = "stats"                 -> HandleStats(processed)
    [] r \in {"status", "filter"}  -> {Answer(r, 0)}
    [] r \in {"other", "malformed"} -> {Error}

(***************************************************************************)
(* The loop.                                                               *)
(***************************************************************************)

LoopTest ==
  /\ thread = "top"
  /\ thread' = IF running THEN "poll" ELSE "done"
  /\ UNCHANGED <<running, owed, request, reply, tally, clients, inbox>>

\* recv with dontwait takes the request of one of the clients.
Receive(c) ==
  /\ thread = "poll"
  /\ owed = None
  /\ inbox[c] # None
  /\ owed' = c
  /\ request' = inbox[c]
  /\ inbox' = [inbox EXCEPT ![c] = None]
  /\ thread' = "process"
  /\ UNCHANGED <<running, reply, tally, clients>>

\* A slip ThreadEnds detects: recv waits for a request.
ReceiveBlocks ==
  /\ thread = "poll"
  /\ owed # None
  /\ thread' = "top"
  /\ UNCHANGED <<running, owed, request, reply, tally, clients, inbox>>

\* No request, or recv throws, as it does for ever once an answer is owed that
\* no code path sends any more; in either case the thread sleeps 10 ms.
ReceiveNothing ==
  /\ thread = "poll"
  /\ owed # None \/ \A c \in Client : inbox[c] = None
  /\ thread' = "top"
  /\ UNCHANGED <<running, owed, request, reply, tally, clients, inbox>>

\* A slip InStep and RequestAnswered detect: no catch in ProcessCommand.
ProcessThrows ==
  /\ thread = "process"
  /\ \/ /\ request # "malformed"
        /\ reply' \in ProcessCommand(request, commands_processed)
        /\ thread' = "send"
     \/ /\ request = "malformed"
        /\ thread' = "top"
        /\ UNCHANGED reply
  /\ UNCHANGED <<running, owed, request, tally, clients, inbox>>

\* The handler runs on this thread, within ProcessCommand's try block.
Process ==
  /\ thread = "process"
  /\ reply' \in ProcessCommand(request, commands_processed)
  /\ packets_injected' = packets_injected + (IF reply'.kind = "inject" THEN reply'.value ELSE 0)
  /\ thread' = "send"
  /\ UNCHANGED <<running, owed, request, commands_processed, failures, clients, inbox>>

\* The answer goes to the client whose request was taken last; a REP socket
\* drops it without an error when that client has closed its socket.
Send ==
  /\ thread = "send"
  /\ mail' = IF req[owed] = "waiting" THEN [mail EXCEPT ![owed] = reply] ELSE mail
  /\ owed' = None
  /\ reply' = None
  /\ thread' = "count"
  /\ UNCHANGED <<running, request, tally, req, requests, inbox>>

Count ==
  /\ thread = "count"
  /\ commands_processed' = commands_processed + 1
  /\ request' = None
  /\ thread' = "top"
  /\ UNCHANGED <<running, owed, reply, packets_injected, failures, clients, inbox>>

\* A slip ServiceImplemented detects: the increment is behind the try block.
FailedAndCounted ==
  /\ thread \in {"process", "send"}
  /\ failures < MaxFailures
  /\ failures' = failures + 1
  /\ commands_processed' = commands_processed + 1
  /\ request' = None
  /\ reply' = None
  /\ thread' = "top"
  /\ UNCHANGED <<running, owed, packets_injected, clients, inbox>>

\* There is no memory for the answer (in ProcessCommand's handler of the
\* exception, or for the message), or send throws: the loop catches it, but the
\* socket still owes the answer.
Fail ==
  /\ thread \in {"process", "send"}
  /\ failures < MaxFailures
  /\ failures' = failures + 1
  /\ request' = None
  /\ reply' = None
  /\ thread' = "top"
  /\ UNCHANGED <<running, owed, commands_processed, packets_injected, clients, inbox>>

(***************************************************************************)
(* The main thread, and the clients.                                       *)
(***************************************************************************)

Shutdown ==
  /\ running
  /\ running' = FALSE
  /\ UNCHANGED <<server, clients, inbox>>

\* rep_socket_.reset() after the join: with a linger of 0 the answers that
\* have not left go with the requests.
ResetSocket ==
  /\ thread = "done"
  /\ thread' = "none"
  /\ inbox' = [c \in Client |-> None]
  /\ \E gone \in SUBSET Client : mail' = [c \in Client |-> IF c \in gone THEN None ELSE mail[c]]
  /\ UNCHANGED <<running, owed, request, reply, tally, req, requests>>

Ask(c) ==
  /\ req[c] = "ready"
  /\ requests < MaxRequests
  /\ requests' = requests + 1
  /\ req' = [req EXCEPT ![c] = "waiting"]
  /\ \E r \in Request : inbox' = [inbox EXCEPT ![c] = r]
  /\ UNCHANGED <<running, server, mail>>

Take(c) ==
  /\ req[c] = "waiting"
  /\ mail[c] # None
  /\ mail' = [mail EXCEPT ![c] = None]
  /\ req' = [req EXCEPT ![c] = "ready"]
  /\ UNCHANGED <<running, server, requests, inbox>>

\* A client ends with a request under way, which CommandThread may still serve.
Leave(c) ==
  /\ req[c] = "waiting"
  /\ req' = [req EXCEPT ![c] = "closed"]
  /\ mail' = [mail EXCEPT ![c] = None]
  /\ UNCHANGED <<running, server, requests, inbox>>

-----------------------------------------------------------------------------
Turn ==
  \/ LoopTest
  \/ \E c \in Client : Receive(c)
  \/ ReceiveNothing
  \/ Process
  \/ Send
  \/ Count

Clients == \E c \in Client : Ask(c) \/ Take(c) \/ Leave(c)

\* The relay is gone, and its clients wait in vain.
Ended == thread = "none" /\ UNCHANGED vars

Next == Turn \/ Fail \/ Shutdown \/ ResetSocket \/ Clients \/ Ended

Spec == Init /\ [][Next]_vars

\* The thread and Shutdown keep running, and a REP socket takes the requests of its
\* clients in turn.
FairSpec ==
  /\ Spec
  /\ WF_vars(Turn)
  /\ WF_vars(ResetSocket)
  /\ \A c \in Client : SF_vars(Receive(c))

-----------------------------------------------------------------------------
Kind == {"status", "hello", "inject", "filter", "stats", "error"}

\* Every variable has its type.
TypeOK ==
  /\ running \in BOOLEAN
  /\ thread \in {"top", "poll", "process", "send", "count", "done", "none"}
  /\ owed \in Client \cup {None}
  /\ request \in Request \cup {None}
  /\ reply \in [kind : Kind, value : Nat] \cup {None}
  /\ commands_processed \in Nat
  /\ packets_injected \in Nat
  /\ failures \in 0..MaxFailures
  /\ req \in [Client -> {"ready", "waiting", "closed"}]
  /\ inbox \in [Client -> Request \cup {None}]
  /\ mail \in [Client -> [kind : Kind, value : Nat] \cup {None}]
  /\ requests \in 0..MaxRequests

\* Whatever a request contains, the thread and the REP socket stay in step: an
\* answer is owed only while the thread is working on it, so that the next
\* recv is legal, and a thread that ends owes nobody.  Only a failure to build
\* or to send the answer itself breaks this, and once is enough.
InStep == failures = 0 => (owed # None <=> thread \in {"process", "send"})

\* A request in the REP socket is answered, unless the relay shuts down, its
\* client leaves, or a failure has put the socket out of step.
RequestAnswered ==
  \A c \in Client :
    req[c] = "waiting" ~> (mail[c] # None \/ req[c] # "waiting" \/ ~running \/ failures > 0)

\* Shutdown's join ends: CommandThread leaves its loop, even with the REP socket out
\* of step and without a request: recv does not wait.
ThreadEnds == ~running ~> thread = "none"

\* Not yet served: in the socket, or in the thread's hands.
Asked(c) == IF owed = c /\ thread \in {"process", "send"} THEN request ELSE inbox[c]

Service == INSTANCE CommandService WITH
  Answers <- ProcessCommand,
  asked   <- [c \in Client |-> Asked(c)],
  left    <- {c \in Client : req[c] = "closed"},
  served  <- commands_processed + (IF thread = "count" THEN 1 ELSE 0)

\* The loop with its steps and its failures serves each request in one step,
\* in the order of commands_processed: an answer to "stats" counts exactly the
\* answers sent before it, to whichever client.
ServiceImplemented == Service!Spec

=============================================================================
