------------------------- MODULE CommandThreadProofs -------------------------
(***************************************************************************)
(* What holds of the command interface (module CommandThread) for any set  *)
(* of clients and any number of requests and failures, and that it         *)
(* implements CommandService.                                              *)
(***************************************************************************)
EXTENDS CommandThread, TLAPS

Serving == thread \in {"process", "send"}

\* What the thread has in its hands: the request of the client it owes the
\* answer, and in the end an answer that ProcessCommand gives to it.
InHands ==
  /\ Serving => owed \in Client /\ request \in Request /\ request # None
  /\ thread = "send" => reply \in ProcessCommand(request, commands_processed)
  /\ thread = "count" => owed = None
  /\ failures = 0 /\ owed # None => Serving

\* A client has at most one of: a request in the socket, one in the thread's
\* hands, an answer; and none of them once it is ready to ask again.
OneOutstanding ==
  \A c \in Client :
    /\ req[c] = "ready" => inbox[c] = None /\ mail[c] = None /\ ~(Serving /\ owed = c)
    /\ Serving /\ owed = c => inbox[c] = None /\ mail[c] = None
    /\ mail[c] # None => inbox[c] = None

IInv == TypeOK /\ InHands /\ OneOutstanding

USE DEF tally, server, clients

LEMMA InitIInv == Init => IInv
<1> SUFFICES ASSUME Init PROVE IInv
  OBVIOUS
<1>1. TypeOK
  BY CommandAssumption DEF Init, TypeOK
<1>2. InHands
  BY DEF Init, InHands, Serving
<1>3. OneOutstanding
  BY DEF Init, OneOutstanding, Serving
<1>4. QED
  BY <1>1, <1>2, <1>3 DEF IInv

\* An answer is a kind and a number, and what the injector refuses is not
\* counted.
LEMMA Answers ==
  ASSUME NEW r \in Request, NEW n \in Nat, NEW a \in ProcessCommand(r, n)
  PROVE  a \in [kind : Kind, value : Nat] /\ (a.kind = "inject" => a.value = 0)
BY DEF Request, Registered, ProcessCommand, HandleHello, HandleInject, HandleStats, PacketInjector,
       Answer, Error, Kind

LEMMA TypeStep == IInv /\ [Next]_vars => TypeOK'
<1> SUFFICES ASSUME IInv, [Next]_vars PROVE TypeOK'
  OBVIOUS
<1> USE DEF TypeOK
<1>typed. TypeOK
  BY DEF IInv
<1>1. CASE LoopTest
  BY <1>1, <1>typed DEF LoopTest
<1>2. ASSUME NEW c \in Client, Receive(c) PROVE TypeOK'
  BY <1>2, <1>typed DEF Receive
<1>3. CASE ReceiveNothing
  BY <1>3, <1>typed DEF ReceiveNothing
<1>4. CASE Process
  <2>1. reply' \in [kind : Kind, value : Nat] /\ (reply'.kind = "inject" => reply'.value = 0)
    BY <1>4, <1>typed, Answers DEF Process, IInv, InHands, Serving
  <2>2. packets_injected' \in Nat
    BY <1>4, <1>typed, <2>1 DEF Process
  <2>3. QED
    BY <1>4, <1>typed, <2>1, <2>2 DEF Process
<1>5. CASE Send
  BY <1>5, <1>typed DEF Send
<1>6. CASE Count
  BY <1>6, <1>typed DEF Count
<1>7. CASE Fail
  BY <1>7, <1>typed, CommandAssumption DEF Fail
<1>8. CASE Shutdown
  BY <1>8, <1>typed DEF Shutdown
<1>9. CASE ResetSocket
  BY <1>9, <1>typed DEF ResetSocket
<1>10. ASSUME NEW c \in Client, Ask(c) PROVE TypeOK'
  BY <1>10, <1>typed, CommandAssumption DEF Ask
<1>11. ASSUME NEW c \in Client, Take(c) PROVE TypeOK'
  BY <1>11, <1>typed DEF Take
<1>12. ASSUME NEW c \in Client, Leave(c) PROVE TypeOK'
  BY <1>12, <1>typed DEF Leave
<1>13. CASE UNCHANGED vars
  BY <1>13, <1>typed DEF vars
<1>14. QED
  BY <1>1, <1>2, <1>3, <1>4, <1>5, <1>6, <1>7, <1>8, <1>9, <1>10, <1>11, <1>12, <1>13
     DEF Next, Turn, Clients, Ended

LEMMA InHandsStep == IInv /\ [Next]_vars => InHands'
<1> SUFFICES ASSUME IInv, [Next]_vars PROVE InHands'
  OBVIOUS
<1> USE DEF InHands, Serving
<1>a. TypeOK /\ InHands
  BY DEF IInv
<1>1. CASE LoopTest
  BY <1>1, <1>a DEF LoopTest
<1>2. ASSUME NEW c \in Client, Receive(c) PROVE InHands'
  BY <1>2, <1>a DEF Receive, TypeOK
<1>3. CASE ReceiveNothing
  BY <1>3, <1>a DEF ReceiveNothing
<1>4. CASE Process
  BY <1>4, <1>a DEF Process
<1>5. CASE Send
  BY <1>5, <1>a DEF Send
<1>6. CASE Count
  BY <1>6, <1>a DEF Count
<1>7. CASE Fail
  BY <1>7, <1>a DEF Fail, TypeOK
<1>8. CASE Shutdown
  BY <1>8, <1>a DEF Shutdown
<1>9. CASE ResetSocket
  BY <1>9, <1>a DEF ResetSocket
<1>10. CASE Clients
  BY <1>10, <1>a DEF Clients, Ask, Take, Leave
<1>11. CASE UNCHANGED vars
  BY <1>11, <1>a DEF vars
<1>12. QED
  BY <1>1, <1>2, <1>3, <1>4, <1>5, <1>6, <1>7, <1>8, <1>9, <1>10, <1>11 DEF Next, Turn, Ended

LEMMA OneOutstandingStep == IInv /\ [Next]_vars => OneOutstanding'
<1> SUFFICES ASSUME IInv, [Next]_vars PROVE OneOutstanding'
  OBVIOUS
<1> USE DEF OneOutstanding, Serving
<1>a. TypeOK /\ InHands /\ OneOutstanding
  BY DEF IInv
<1>1. CASE LoopTest
  BY <1>1, <1>a DEF LoopTest
<1>2. ASSUME NEW c \in Client, Receive(c) PROVE OneOutstanding'
  BY <1>2, <1>a DEF Receive, TypeOK
<1>3. CASE ReceiveNothing
  BY <1>3, <1>a DEF ReceiveNothing
<1>4. CASE Process
  BY <1>4, <1>a DEF Process
<1>5. CASE Send
  BY <1>5, <1>a DEF Send, TypeOK, InHands
<1>6. CASE Count
  BY <1>6, <1>a DEF Count
<1>7. CASE Fail
  BY <1>7, <1>a DEF Fail
<1>8. CASE Shutdown
  BY <1>8, <1>a DEF Shutdown
<1>9. CASE ResetSocket
  BY <1>9, <1>a DEF ResetSocket
<1>10. ASSUME NEW c \in Client, Ask(c) PROVE OneOutstanding'
  BY <1>10, <1>a DEF Ask, TypeOK
<1>11. ASSUME NEW c \in Client, Take(c) PROVE OneOutstanding'
  BY <1>11, <1>a DEF Take, TypeOK
<1>12. ASSUME NEW c \in Client, Leave(c) PROVE OneOutstanding'
  BY <1>12, <1>a DEF Leave, TypeOK
<1>13. CASE UNCHANGED vars
  BY <1>13, <1>a DEF vars
<1>14. QED
  BY <1>1, <1>2, <1>3, <1>4, <1>5, <1>6, <1>7, <1>8, <1>9, <1>10, <1>11, <1>12, <1>13
     DEF Next, Turn, Clients, Ended

\* What holds in every state of the loop, the socket and the clients.
THEOREM InductiveInvariant == Spec => []IInv
<1>1. IInv /\ [Next]_vars => IInv'
  BY TypeStep, InHandsStep, OneOutstandingStep DEF IInv
<1>2. QED
  BY InitIInv, <1>1, PTL DEF Spec

(***************************************************************************)
(* Every variable keeps its type, whatever the clients ask and however     *)
(* often the answer to them fails.                                         *)
(***************************************************************************)
THEOREM TypeCorrect == Spec => []TypeOK
<1>1. IInv => TypeOK
  BY DEF IInv
<1>2. QED
  BY InductiveInvariant, <1>1, PTL

(***************************************************************************)
(* As long as no answer has failed, the REP socket owes an answer exactly  *)
(* while the thread works on it: the next recv is legal whatever the       *)
(* requests contained.                                                     *)
(***************************************************************************)
THEOREM AlwaysInStep == Spec => []InStep
<1>1. IInv => InStep
  BY CommandAssumption DEF IInv, InHands, Serving, InStep
<1>2. QED
  BY InductiveInvariant, <1>1, PTL

(***************************************************************************)
(* The refinement of CommandService.                                       *)
(***************************************************************************)

served == commands_processed + (IF thread = "count" THEN 1 ELSE 0)

asked == [c \in Client |-> Asked(c)]

left == {c \in Client : req[c] = "closed"}

LEMMA InitRefines == Init => Service!Init
<1> SUFFICES ASSUME Init PROVE Service!Init
  OBVIOUS
<1>1. asked = [c \in Client |-> None] /\ left = {} /\ served = 0
  BY DEF Init, asked, Asked, left, served
<1>2. mail = [c \in Client |-> None]
  BY DEF Init
<1>3. QED
  BY <1>1, <1>2 DEF Service!Init, asked, left, served

\* The steps that a client sees nothing of.
LEMMA HiddenSteps ==
  ASSUME IInv, LoopTest \/ (\E c \in Client : Receive(c)) \/ ReceiveNothing \/ Process \/ Count \/ Shutdown
  PROVE  UNCHANGED <<asked, mail, served, left>>
<1> USE DEF asked, Asked, served, left
<1>1. CASE LoopTest
  BY <1>1 DEF LoopTest
<1>2. ASSUME NEW c \in Client, Receive(c) PROVE UNCHANGED <<asked, mail, served, left>>
  <2>1. \A d \in Client : Asked(d)' = Asked(d)
    BY <1>2 DEF Receive, IInv, TypeOK
  <2>2. QED
    BY <1>2, <2>1 DEF Receive
<1>3. CASE ReceiveNothing
  BY <1>3 DEF ReceiveNothing
<1>4. CASE Process
  BY <1>4 DEF Process
<1>5. CASE Count
  BY <1>5 DEF Count, IInv, TypeOK
<1>6. CASE Shutdown
  BY <1>6 DEF Shutdown
<1>7. QED
  BY <1>1, <1>2, <1>3, <1>4, <1>5, <1>6

\* The answer is sent: its client's request is served.
LEMMA SendServes == IInv /\ Send => Service!Serve(owed)
<1> SUFFICES ASSUME IInv, Send PROVE Service!Serve(owed)
  OBVIOUS
<1>1. owed \in Client /\ Asked(owed) = request /\ request # None
  BY DEF Send, IInv, InHands, Serving, Asked
<1>2. asked' = [asked EXCEPT ![owed] = None]
  <2>1. \A c \in Client : Asked(c)' = IF c = owed THEN None ELSE Asked(c)
    BY <1>1 DEF Send, Asked, IInv, OneOutstanding, Serving
  <2>2. QED
    BY <2>1 DEF asked
<1>3. IF owed \in left THEN UNCHANGED mail
      ELSE \E a \in ProcessCommand(asked[owed], served) : mail' = [mail EXCEPT ![owed] = a]
  <2>1. asked[owed] = request /\ served = commands_processed
    BY <1>1 DEF asked, served, Send, IInv, TypeOK
  <2>2. reply \in ProcessCommand(request, commands_processed)
    BY DEF Send, IInv, InHands
  <2>3. req[owed] = IF owed \in left THEN "closed" ELSE "waiting"
    BY <1>1 DEF left, Send, IInv, TypeOK, OneOutstanding, Serving
  <2>4. QED
    BY <1>1, <2>1, <2>2, <2>3 DEF Send
<1>4. served' = served + 1 /\ left' = left
  BY DEF Send, served, left, IInv, TypeOK
<1>5. asked[owed] # None
  BY <1>1 DEF asked
<1>6. QED
  BY <1>2, <1>3, <1>4, <1>5 DEF Service!Serve, asked, served, left

\* A failure and the end of the relay lose what is not served.
LEMMA Loses == IInv /\ (Fail \/ ResetSocket) => Service!Lose
<1> SUFFICES ASSUME IInv, Fail \/ ResetSocket PROVE Service!Lose
  OBVIOUS
<1>1. \A c \in Client : Asked(c)' \in {Asked(c), None}
  BY DEF Asked, Fail, ResetSocket, IInv, OneOutstanding, Serving
<1>2. \A c \in Client : mail'[c] \in {mail[c], None}
  BY DEF Fail, ResetSocket
<1>3. DOMAIN mail' = Client
  BY DEF Fail, ResetSocket, IInv, TypeOK
<1>4. served' = served /\ left' = left
  BY DEF Fail, ResetSocket, served, left
<1>5. QED
  BY <1>1, <1>2, <1>3, <1>4 DEF Service!Lose, served, left

LEMMA ClientSteps ==
  ASSUME IInv, NEW c \in Client
  PROVE  /\ Ask(c) => Service!Ask(c)
         /\ Take(c) => Service!Take(c)
         /\ Leave(c) => Service!Leave(c)
<1>1. ASSUME Ask(c) PROVE Service!Ask(c)
  <2>1. c \notin left /\ mail[c] = None /\ asked[c] = None
    BY <1>1 DEF Ask, left, asked, Asked, IInv, OneOutstanding, Serving
  <2>2. PICK r \in Request : inbox' = [inbox EXCEPT ![c] = r]
    BY <1>1 DEF Ask
  <2>3. asked' = [asked EXCEPT ![c] = r]
    <3>1. \A d \in Client : Asked(d)' = IF d = c THEN r ELSE Asked(d)
      BY <1>1, <2>2 DEF Ask, Asked, IInv, TypeOK, OneOutstanding, Serving
    <3>2. QED
      BY <3>1 DEF asked
  <2>4. served' = served /\ left' = left /\ mail' = mail
    BY <1>1 DEF Ask, served, left, IInv, TypeOK
  <2>5. QED
    BY <2>1, <2>3, <2>4 DEF Service!Ask, asked, served, left
<1>2. ASSUME Take(c) PROVE Service!Take(c)
  <2>1. asked' = asked /\ served' = served /\ left' = left
    BY <1>2 DEF Take, asked, Asked, served, left, IInv, TypeOK
  <2>2. QED
    BY <1>2, <2>1 DEF Take, Service!Take, asked, served, left
<1>3. ASSUME Leave(c) PROVE Service!Leave(c)
  <2>1. asked' = asked /\ served' = served
    BY <1>3 DEF Leave, asked, Asked, served
  <2>2. left' = left \cup {c}
    BY <1>3 DEF Leave, left, IInv, TypeOK
  <2>3. QED
    BY <1>3, <2>1, <2>2 DEF Leave, Service!Leave, asked, served, left
<1>4. QED
  BY <1>1, <1>2, <1>3

LEMMA StepRefines == IInv /\ [Next]_vars => [Service!Next]_<<asked, mail, served, left>>
<1> SUFFICES ASSUME IInv, [Next]_vars PROVE [Service!Next]_<<asked, mail, served, left>>
  OBVIOUS
<1> USE DEF Service!Next
<1>1. CASE LoopTest \/ (\E c \in Client : Receive(c)) \/ ReceiveNothing \/ Process \/ Count \/ Shutdown
  BY <1>1, HiddenSteps
<1>2. CASE Send
  <2>1. owed \in Client
    BY <1>2 DEF Send, IInv, InHands, Serving
  <2>2. QED
    BY <1>2, <2>1, SendServes
<1>3. CASE Fail \/ ResetSocket
  BY <1>3, Loses
<1>4. CASE Clients
  BY <1>4, ClientSteps DEF Clients
<1>5. CASE UNCHANGED vars
  BY <1>5 DEF vars, asked, Asked, served, left
<1>6. QED
  BY <1>1, <1>2, <1>3, <1>4, <1>5 DEF Next, Turn, Ended

(***************************************************************************)
(* The loop, its handlers and its failures implement CommandService: each  *)
(* request is served in one step or lost, the answer goes to the client    *)
(* that asked, and "stats" counts exactly the answers sent before its own. *)
(***************************************************************************)
THEOREM ServiceRefined == Spec => ServiceImplemented
<1>1. IInv /\ [Next]_vars
        => [Service!Next]_<<[c \in Client |-> Asked(c)], mail,
                            commands_processed + (IF thread = "count" THEN 1 ELSE 0),
                            {c \in Client : req[c] = "closed"}>>
  BY StepRefines DEF asked, served, left
<1>2. QED
  BY InitRefines, <1>1, InductiveInvariant, PTL DEF Spec, ServiceImplemented, Service!Spec

=============================================================================
