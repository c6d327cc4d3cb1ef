---------------------------- MODULE HealthThread ----------------------------
(***************************************************************************)
(* HealthThread of src/examples/packet_monitor_ftxui.cpp: a "status"       *)
(* request per second tells the user interface, which is the subject of    *)
(* MonitorUi, whether the plugin is there.  model->is_connected is left    *)
(* out: nothing reads it.                                                  *)
(*                                                                         *)
(* Time passes in ticks of 250 ms.  A wait that should last n ticks may    *)
(* last up to n + Delay, and everything else takes no time.                *)
(***************************************************************************)
EXTENDS ReqSocket, Naturals

CONSTANT Delay   \* bound: how late a thread may be scheduled, in ticks

ASSUME DelayAssumption == Delay \in Nat

VARIABLES
  running,            \* model->running
  health,             \* where the thread is
  timer,              \* what is left of its wait, with the Delay
  consecutive_fail,   \* consecutive_fail, up to 3: nothing tells 3 from more
  ok_age,             \* ticks since last_health_ok_ms, up to Old
  steady              \* history: since the last answer the plugin was there,
                      \* and no poll has failed

thread == <<health, timer, consecutive_fail, ok_age, steady>>

\* A slip SteadyShown detects: two seconds between polls.
SleepLong == 8

\* The waits: sndtimeo and rcvtimeo of 500 ms, and the 1000 ms between polls.
Timeout == 2
Sleep == 4

\* The 2 s for which an answer counts.
Window == 8

\* No older than this is told apart.
Old == Window + 1

NextAge(age) == IF age = Old THEN Old ELSE age + 1

HealthInit ==
  /\ SocketInit
  /\ running = TRUE
  /\ health = "top"
  /\ timer = 0
  /\ consecutive_fail = 0
  /\ ok_age = Old
  /\ steady = FALSE

Wait(n) == timer' = n + Delay

TimeIsUp == timer <= Delay

LoopTest ==
  /\ health = "top"
  /\ \/ running /\ health' = "send" /\ NewRound
     \/ ~running /\ health' = "ended" /\ UNCHANGED socket
  /\ Wait(Timeout)
  /\ UNCHANGED <<up, running, consecutive_fail, ok_age, steady>>

Failed == IF consecutive_fail = 3 THEN 3 ELSE consecutive_fail + 1

\* A slip NoticesUnload detects: the time is stored after every poll.
PollFailedIsOk ==
  /\ consecutive_fail' = Failed
  /\ IF Failed = 3 THEN NewSocket ELSE UNCHANGED socket
  /\ ok_age' = 0
  /\ steady' = FALSE
  /\ health' = "sleep"
  /\ Wait(Sleep)

\* The third failure in a row, and every one after it, makes a new socket.
PollFailed ==
  /\ consecutive_fail' = Failed
  /\ IF Failed = 3 THEN NewSocket ELSE UNCHANGED socket
  /\ steady' = FALSE
  /\ health' = "sleep"
  /\ Wait(Sleep)
  /\ UNCHANGED ok_age

\* A slip AnswersThisPoll detects: what send throws is caught at once, and recv
\* called all the same.
SendThenReceive ==
  /\ health = "send"
  /\ \/ /\ SendRequest
        /\ health' = "recv"
        /\ Wait(Timeout)
        /\ UNCHANGED <<consecutive_fail, ok_age, steady>>
     \/ SendTimesOut /\ TimeIsUp /\ PollFailed
     \/ /\ SendThrows
        /\ health' = "recv"
        /\ Wait(Timeout)
        /\ UNCHANGED <<socket, consecutive_fail, ok_age, steady>>
  /\ UNCHANGED <<up, running>>

\* recv is called only when send has sent.
Send ==
  /\ health = "send"
  /\ \/ /\ SendRequest
        /\ health' = "recv"
        /\ Wait(Timeout)
        /\ UNCHANGED <<consecutive_fail, ok_age, steady>>
     \/ SendTimesOut /\ TimeIsUp /\ PollFailed
     \/ /\ SendThrows   \* catch (...), around the loop
        /\ health' = "ended"
        /\ steady' = FALSE
        /\ UNCHANGED <<socket, timer, consecutive_fail, ok_age>>
  /\ UNCHANGED <<up, running>>

Receive ==
  /\ health = "recv"
  /\ ReceiveAnswer
  /\ ok_age' = 0
  /\ steady' = up
  /\ consecutive_fail' = 0
  /\ health' = "sleep"
  /\ Wait(Sleep)
  /\ UNCHANGED <<up, running>>

\* A slip ThreadsEnd detects: no rcvtimeo.
NoReceiveTimeout == FALSE

ReceiveTimeout ==
  /\ health = "recv"
  /\ ReceiveTimesOut
  /\ TimeIsUp
  /\ PollFailed
  /\ UNCHANGED <<up, running>>

\* The 1000 ms are over.
Wake ==
  /\ health = "sleep"
  /\ TimeIsUp
  /\ health' = "top"
  /\ UNCHANGED <<up, socket, running, timer, consecutive_fail, ok_age, steady>>

Thread == LoopTest \/ Send \/ Receive \/ ReceiveTimeout \/ Wake

\* The end of a poll, where the thread posts an event to the screen.
PollEnds == health \in {"send", "recv"} /\ health' \in {"sleep", "ended"}

\* The thread is in a wait that may go on.
Waiting ==
  \/ health = "ended"
  \/ /\ timer > 0
     /\ \/ health = "sleep"
        \/ health = "send" /\ SendTimesOut
        \/ health = "recv" /\ ReceiveTimesOut

\* A tick passes for the thread.
Elapse ==
  /\ Waiting
  /\ timer' = IF timer = 0 THEN 0 ELSE timer - 1
  /\ ok_age' = NextAge(ok_age)
  /\ UNCHANGED <<up, socket, running, health, consecutive_fail, steady>>

\* The plugin comes, goes and answers.
PluginStep ==
  /\ Plugin
  /\ steady' = (steady /\ up')
  /\ UNCHANGED <<running, health, timer, consecutive_fail, ok_age>>

-----------------------------------------------------------------------------
\* What the thread takes for a sign of life answers the poll it is making, never
\* an earlier one whose answer came too late: a poll that finds the socket still
\* waiting for that answer does not get as far as recv
\* (packet_monitor_ftxui.cpp:143-145, and the catch of 170).
AnswersThisPoll == health = "recv" => answer # "stale"

=============================================================================
