--------------------------- MODULE PacketMonitor ----------------------------
(***************************************************************************)
(* The console monitor, src/examples/packet_monitor.cpp: its main thread   *)
(* reads commands and sends them to the plugin, its second thread prints   *)
(* the stream until Stop.                                                  *)
(***************************************************************************)
EXTENDS ReqSocket

VARIABLES
  running,          \* running_
  main,             \* where the main thread is
  monitor_thread    \* where MonitorPackets is; "none": not joinable

vars == <<up, socket, running, main, monitor_thread>>

Init ==
  /\ SocketInit
  /\ running = FALSE
  /\ main = "start"
  /\ monitor_thread = "none"

Start ==
  /\ main = "start"
  /\ running' = TRUE
  /\ monitor_thread' = "top"
  /\ main' = "input"
  /\ UNCHANGED <<up, socket>>

\* A line of input: "quit" or the end of it, or a command for SendCommand.
\* (Anything else is reported or ignored.)
Input ==
  /\ main = "input"
  /\ \/ main' = "send" /\ NewRound
     \/ main' = "stop" /\ UNCHANGED socket
  /\ UNCHANGED <<up, running, monitor_thread>>

\* A slip ResponseFits detects: send has a try block of its own, and recv is
\* called whatever it throws.
SendThenReceive ==
  /\ main = "send"
  /\ SendRequest \/ ((SendTimesOut \/ SendThrows) /\ UNCHANGED socket)
  /\ main' = "recv"
  /\ UNCHANGED <<up, running, monitor_thread>>

\* The result of send is not looked at: recv follows a send that has timed out.
\* What send throws SendCommand catches behind recv.
Send ==
  /\ main = "send"
  /\ \/ SendRequest /\ main' = "recv"
     \/ SendTimesOut /\ main' = "recv" /\ UNCHANGED socket
     \/ SendThrows /\ main' = "input" /\ UNCHANGED socket
  /\ UNCHANGED <<up, running, monitor_thread>>

\* The response is printed, or recv has thrown.
Receive ==
  /\ main = "recv"
  /\ ReceiveAnswer \/ (ReceiveThrows /\ UNCHANGED socket)
  /\ main' = "input"
  /\ UNCHANGED <<up, running, monitor_thread>>

\* A slip CommandReturns detects: no rcvtimeo.
NoReceiveTimeout == FALSE

\* Nothing is printed, and the socket goes on waiting.
ReceiveTimeout ==
  /\ main = "recv"
  /\ ReceiveTimesOut
  /\ main' = "input"
  /\ UNCHANGED <<up, socket, running, monitor_thread>>

Stop ==
  /\ main = "stop"
  /\ running' = FALSE
  /\ main' = "join"
  /\ UNCHANGED <<up, socket, monitor_thread>>

Join ==
  /\ main = "join"
  /\ monitor_thread = "done"
  /\ monitor_thread' = "none"
  /\ main' = "destroy"
  /\ UNCHANGED <<up, socket, running>>

\* A slip ExitsWithPlugin detects: main waits for the answer, too.
DestroyAwaitsAnswer ==
  /\ main = "destroy"
  /\ req = "ready"
  /\ main' = "ended"
  /\ UNCHANGED <<up, socket, running, monitor_thread>>

\* main returns and the members go: req_socket_ has the default linger of
\* ZeroMQ, for ever, and the context waits for a request that has not left.
Destroy ==
  /\ main = "destroy"
  /\ question = "none" \/ up
  /\ main' = "ended"
  /\ UNCHANGED <<up, socket, running, monitor_thread>>

LoopTest ==
  /\ monitor_thread = "top"
  /\ monitor_thread' = IF running THEN "recv" ELSE "done"
  /\ UNCHANGED <<up, socket, running, main>>

\* A slip StopReturns detects: recv without dontwait and without rcvtimeo.
MonitorRecvBlocks ==
  /\ monitor_thread = "recv"
  /\ up
  /\ monitor_thread' = "top"
  /\ UNCHANGED <<up, socket, running, main>>

\* recv with dontwait, with or without a packet to print; what recv or
\* ProcessPacket throws is caught inside the loop.
MonitorRecv ==
  /\ monitor_thread = "recv"
  /\ monitor_thread' = "top"
  /\ UNCHANGED <<up, socket, running, main>>

MainThread == Start \/ Send \/ Receive \/ ReceiveTimeout \/ Stop \/ Join \/ Destroy

MonitorPackets == LoopTest \/ MonitorRecv

PluginStep == Plugin /\ UNCHANGED <<running, main, monitor_thread>>

Next == Input \/ MainThread \/ MonitorPackets \/ PluginStep

Spec == Init /\ [][Next]_vars

\* Both threads keep running, and a plugin that is loaded answers.
FairSpec ==
  /\ Spec
  /\ WF_vars(MainThread)
  /\ WF_vars(MonitorPackets)
  /\ WF_vars(AnswerRequest /\ UNCHANGED <<running, main, monitor_thread>>)

-----------------------------------------------------------------------------
\* A response that is printed answers the command just entered, never an
\* earlier one whose answer came too late: a command that finds the socket still
\* waiting for that answer does not get as far as recv (packet_monitor.cpp:220-234).
ResponseFits == main = "recv" => answer # "stale"

\* The prompt comes back from every command, whatever the plugin does.
CommandReturns == main = "send" ~> main = "input"

\* Stop returns: the thread that prints looks at running_ again even when
\* there is nothing to print.
StopReturns == main = "stop" ~> main = "destroy"

\* The program ends after "quit" when the plugin is there for good: a request
\* that waits leaves at last, and no answer is waited for.  (Without the plugin
\* the context waits for ever.)
ExitsWithPlugin == <>[]up => (main = "stop" ~> main = "ended")

=============================================================================
