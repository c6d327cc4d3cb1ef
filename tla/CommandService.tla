--------------------------- MODULE CommandService ---------------------------
(***************************************************************************)
(* What the command interface promises its clients: a request is served in *)
(* one step, or lost with the plugin, and the answer goes to the client    *)
(* that asked and to its latest request.  An answer to "stats" tells       *)
(* exactly how many requests were served before it.                        *)
(***************************************************************************)
EXTENDS Naturals

CONSTANTS
  Client,
  Request,
  Answers(_, _),   \* the answers to a request, given how many were served before
  None             \* no request, no answer

VARIABLES
  asked,    \* the request of each client that is not served yet
  mail,     \* the answer on its way to each client
  served,   \* how many requests were served
  left      \* the clients that have gone

Init ==
  /\ asked = [c \in Client |-> None]
  /\ mail = [c \in Client |-> None]
  /\ served = 0
  /\ left = {}

\* One request at a time: the client has had its answer, or has lost it.
Ask(c) ==
  /\ c \notin left
  /\ asked[c] = None
  /\ mail[c] = None
  /\ \E r \in Request : asked' = [asked EXCEPT ![c] = r]
  /\ UNCHANGED <<mail, served, left>>

\* The answer is on its way, unless it has no client to go to any more.
Serve(c) ==
  /\ asked[c] # None
  /\ asked' = [asked EXCEPT ![c] = None]
  /\ IF c \in left
     THEN UNCHANGED mail
     ELSE \E a \in Answers(asked[c], served) : mail' = [mail EXCEPT ![c] = a]
  /\ served' = served + 1
  /\ UNCHANGED left

Take(c) ==
  /\ mail[c] # None
  /\ mail' = [mail EXCEPT ![c] = None]
  /\ UNCHANGED <<asked, served, left>>

\* What it has asked for may still be served.
Leave(c) ==
  /\ left' = left \cup {c}
  /\ mail' = [mail EXCEPT ![c] = None]
  /\ UNCHANGED <<asked, served>>

\* Requests and answers go with the plugin.
Lose ==
  /\ \A c \in Client : asked'[c] \in {asked[c], None} /\ mail'[c] \in {mail[c], None}
  /\ DOMAIN asked' = Client /\ DOMAIN mail' = Client
  /\ UNCHANGED <<served, left>>

Next == (\E c \in Client : Ask(c) \/ Serve(c) \/ Take(c) \/ Leave(c)) \/ Lose

Spec == Init /\ [][Next]_<<asked, mail, served, left>>

=============================================================================
