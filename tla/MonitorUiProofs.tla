-------------------------- MODULE MonitorUiProofs ---------------------------
(***************************************************************************)
(* What holds of the FTXUI monitor's header (modules HealthThread and      *)
(* MonitorUi) however late its threads may be scheduled, and how late they *)
(* may be for it to be steady.                                             *)
(***************************************************************************)
EXTENDS MonitorUi, TLAPS

Mark == {"none", "current", "stale"}

FlagsTyped ==
  /\ up \in BOOLEAN /\ running \in BOOLEAN /\ steady \in BOOLEAN
  /\ event \in BOOLEAN /\ shown \in BOOLEAN

ClocksTyped ==
  /\ req \in {"ready", "waiting"}
  /\ question \in Mark /\ answer \in Mark
  /\ health \in {"top", "send", "recv", "sleep", "ended"}
  /\ timer \in Nat /\ ok_age \in 0..Old /\ packet_age \in 0..Old
  /\ ui_tick \in {"sleep", "ended"}
  /\ ui_timer \in 0..(UiPeriod + Delay)
  /\ away \in 0..Gone
  /\ running => ui_tick = "sleep"

Typed == FlagsTyped /\ ClocksTyped

\* A socket that may send has nothing under way, one that waits has its request
\* or the answer to it, never both, and a poll that receives has neither of an
\* earlier poll.
OneRequest ==
  /\ req = "ready" => question = "none" /\ answer = "none"
  /\ question = "none" \/ answer = "none"
  /\ health = "recv" => question # "stale" /\ answer # "stale"

\* There is no sign of life younger than the plugin's absence: an answer that
\* has come in time is received before any time passes.
NoSignOfLife ==
  /\ up => away = 0
  /\ away > 0 /\ health = "recv" => answer = "none"
  /\ away <= ok_age \/ ok_age = Old
  /\ away <= packet_age \/ packet_age = Old

\* What is shown was right at the last turn of UiTickThread or later.
ShownLately ==
  shown /\ running =>
    /\ away <= Tolerance
    /\ ~event => away <= Window + (UiPeriod + Delay - ui_timer)

\* While the plugin answers its polls, the last answer is as old as what has
\* passed of the sleep and of the poll.
AnsweredLately ==
  steady /\ running =>
    /\ up
    /\ health # "ended"
    /\ health = "sleep" => ok_age + timer <= Sleep + Delay
    /\ health \in {"top", "send"} => ok_age <= Sleep + Delay
    /\ health = "recv" => ok_age + timer <= Sleep + Delay + Timeout + Delay

IInv == Typed /\ OneRequest /\ NoSignOfLife /\ ShownLately /\ AnsweredLately

USE DelayAssumption DEF thread, ui, socket, Timeout, Sleep, Window, Old, UiPeriod, Tolerance, Gone

(***************************************************************************)
(* The invariant, step by step.                                            *)
(***************************************************************************)

LEMMA FlagsStep == Typed /\ [Next]_vars => FlagsTyped'
<1> SUFFICES ASSUME Typed, [Next]_vars PROVE FlagsTyped'
  OBVIOUS
<1> USE DEF Typed, FlagsTyped
<1>1. up' \in BOOLEAN /\ steady' \in BOOLEAN
  <2>1. CASE Health
    BY <2>1 DEF Health, Thread, LoopTest, Send, Receive, ReceiveTimeout, Wake, PollFailed
  <2>2. CASE PluginComesAndGoes
    BY <2>2 DEF PluginComesAndGoes, PluginStep, Plugin, Load, Unload, AnswerRequest
  <2>3. CASE UNCHANGED <<up, steady>>
    BY <2>3
  <2>4. QED
    BY <2>1, <2>2, <2>3 DEF Next, Packet, UiTick, Render, Quit, Tick, Elapse, vars
<1>2. running' \in BOOLEAN
  BY DEF Next, Health, Thread, LoopTest, Send, Receive, ReceiveTimeout, Wake, Packet, UiTick, Render, Quit,
         PluginComesAndGoes, PluginStep, Tick, Elapse, vars
<1>3. event' \in BOOLEAN
  BY DEF Next, Health, Packet, UiTick, Render, Quit, PluginComesAndGoes, Tick, vars
<1>4. shown' \in BOOLEAN
  BY DEF Next, Health, Packet, UiTick, Render, Connected, Quit, PluginComesAndGoes, Tick, vars
<1>5. QED
  BY <1>1, <1>2, <1>3, <1>4

LEMMA ClocksStep == Typed /\ OneRequest /\ [Next]_vars => ClocksTyped'
<1> SUFFICES ASSUME Typed, OneRequest, [Next]_vars PROVE ClocksTyped'
  OBVIOUS
<1> USE DEF Typed, ClocksTyped, Mark
<1>1. CASE Health
  <2>1. /\ req' \in {"ready", "waiting"} /\ question' \in Mark /\ answer' \in Mark
        /\ health' \in {"top", "send", "recv", "sleep", "ended"}
    BY <1>1 DEF Health, Thread, LoopTest, Send, Receive, ReceiveTimeout, Wake, PollFailed, NewSocket, SendRequest,
                NewRound, Older, ReceiveAnswer
  <2>2. timer' \in Nat /\ ok_age' \in 0..Old
    BY <1>1 DEF Health, Thread, LoopTest, Send, Receive, ReceiveTimeout, Wake, PollFailed, Wait
  <2>3. UNCHANGED <<running, packet_age, ui_tick, ui_timer, away>>
    BY <1>1 DEF Health, Thread, LoopTest, Send, Receive, ReceiveTimeout, Wake
  <2>4. QED
    BY <2>1, <2>2, <2>3
<1>2. CASE Packet \/ Quit \/ Render
  <2>1. packet_age' \in 0..Old /\ (running' => running)
    BY <1>2 DEF Packet, Quit, Render
  <2>2. UNCHANGED <<socket, health, timer, ok_age, ui_tick, ui_timer, away>>
    BY <1>2 DEF Packet, Quit, Render
  <2>3. QED
    BY <2>1, <2>2
<1>3. CASE UiTick
  BY <1>3 DEF UiTick
<1>4. CASE PluginComesAndGoes
  <2>1. req' \in {"ready", "waiting"} /\ question' \in Mark /\ answer' \in Mark
    BY <1>4 DEF PluginComesAndGoes, PluginStep, Plugin, Load, Unload, AnswerRequest
  <2>2. away' \in 0..Gone /\ UNCHANGED <<running, health, timer, ok_age, packet_age, ui_tick, ui_timer>>
    BY <1>4 DEF PluginComesAndGoes, PluginStep
  <2>3. QED
    BY <2>1, <2>2
<1>5. CASE Tick
  BY <1>5 DEF Tick, Elapse, NextAge
<1>6. CASE UNCHANGED vars
  BY <1>6 DEF vars
<1>7. QED
  BY <1>1, <1>2, <1>3, <1>4, <1>5, <1>6 DEF Next

LEMMA OneRequestStep == Typed /\ OneRequest /\ [Next]_vars => OneRequest'
<1> SUFFICES ASSUME Typed, OneRequest, [Next]_vars PROVE OneRequest'
  OBVIOUS
<1> USE DEF Typed, FlagsTyped, ClocksTyped, OneRequest, Mark
<1>1. CASE Thread
  BY <1>1 DEF Thread, LoopTest, Send, Receive, ReceiveTimeout, Wake, PollFailed, NewSocket, SendRequest, NewRound,
              Older, ReceiveAnswer
<1>2. CASE PluginStep
  BY <1>2 DEF PluginStep, Plugin, Load, Unload, AnswerRequest
<1>3. CASE UNCHANGED <<socket, health>>
  BY <1>3
<1>4. QED
  BY <1>1, <1>2, <1>3 DEF Next, Health, Packet, UiTick, Render, Quit, PluginComesAndGoes, Tick, Elapse, vars

LEMMA NoSignOfLifeStep == Typed /\ OneRequest /\ NoSignOfLife /\ [Next]_vars => NoSignOfLife'
<1> SUFFICES ASSUME Typed, OneRequest, NoSignOfLife, [Next]_vars PROVE NoSignOfLife'
  OBVIOUS
<1> USE DEF Typed, FlagsTyped, ClocksTyped, OneRequest, Mark, NoSignOfLife
<1>1. CASE Health
  BY <1>1 DEF Health, Thread, LoopTest, Send, Receive, ReceiveTimeout, Wake, PollFailed, NewSocket, SendRequest, NewRound,
              Older, ReceiveAnswer
<1>2. CASE Packet
  BY <1>2 DEF Packet
<1>3. CASE PluginComesAndGoes
  BY <1>3 DEF PluginComesAndGoes, PluginStep, Plugin, Load, Unload, AnswerRequest
<1>4. CASE Tick
  BY <1>4 DEF Tick, Elapse, NextAge, Waiting, ReceiveTimesOut
<1>5. CASE UNCHANGED <<up, socket, health, ok_age, packet_age, away>>
  BY <1>5
<1>6. QED
  BY <1>1, <1>2, <1>3, <1>4, <1>5 DEF Next, UiTick, Render, Quit, vars

LEMMA ShownLatelyStep == Typed /\ NoSignOfLife /\ ShownLately /\ [Next]_vars => ShownLately'
<1> SUFFICES ASSUME Typed, NoSignOfLife, ShownLately, [Next]_vars PROVE ShownLately'
  OBVIOUS
<1> USE DEF Typed, FlagsTyped, ClocksTyped, NoSignOfLife, ShownLately
<1>1. CASE Health
  BY <1>1 DEF Health, Thread, LoopTest, Send, Receive, ReceiveTimeout, Wake, PollFailed
<1>2. CASE Packet \/ Quit
  BY <1>2 DEF Packet, Quit
<1>3. CASE UiTick
  BY <1>3 DEF UiTick
<1>4. CASE Render
  BY <1>4 DEF Render, Connected
<1>5. CASE PluginComesAndGoes
  BY <1>5 DEF PluginComesAndGoes, PluginStep, Plugin, Load, Unload, AnswerRequest
<1>6. CASE Tick
  BY <1>6 DEF Tick, Elapse
<1>7. CASE UNCHANGED vars
  BY <1>7 DEF vars
<1>8. QED
  BY <1>1, <1>2, <1>3, <1>4, <1>5, <1>6, <1>7 DEF Next

LEMMA AnsweredLatelyStep == Typed /\ AnsweredLately /\ [Next]_vars => AnsweredLately'
<1> SUFFICES ASSUME Typed, AnsweredLately, [Next]_vars PROVE AnsweredLately'
  OBVIOUS
<1> USE DEF Typed, FlagsTyped, ClocksTyped, AnsweredLately
<1>1. CASE Health
  <2> USE DEF Wait, PollFailed
  <2>1. CASE LoopTest
    BY <1>1, <2>1 DEF Health, LoopTest
  <2>2. CASE Send
    <3>1. CASE SendRequest /\ health' = "recv" /\ timer' = Timeout + Delay
               /\ health = "send" /\ UNCHANGED <<up, running, consecutive_fail, ok_age, steady>>
      BY <3>1
    <3>2. CASE steady' = FALSE
      BY <3>2
    <3>3. QED
      BY <2>2, <3>1, <3>2 DEF Send
  <2>3. CASE Receive
    BY <1>1, <2>3 DEF Health, Receive
  <2>4. CASE ReceiveTimeout
    BY <1>1, <2>4 DEF Health, ReceiveTimeout
  <2>5. CASE Wake
    BY <1>1, <2>5 DEF Health, Wake
  <2>6. QED
    BY <1>1, <2>1, <2>2, <2>3, <2>4, <2>5 DEF Health, Thread
<1>2. CASE Quit
  BY <1>2 DEF Quit
<1>3. CASE PluginComesAndGoes
  BY <1>3 DEF PluginComesAndGoes, PluginStep, Plugin, Load, Unload, AnswerRequest
<1>4. CASE Tick
  BY <1>4 DEF Tick, Elapse, NextAge, Waiting, SendTimesOut
<1>5. CASE UNCHANGED <<up, running, health, timer, ok_age, steady>>
  BY <1>5
<1>6. QED
  BY <1>1, <1>2, <1>3, <1>4, <1>5 DEF Next, Packet, UiTick, Render, vars

(***************************************************************************)
(* The theorems.                                                           *)
(***************************************************************************)

\* What holds in every state of the socket, the poll, the screen and the plugin.
THEOREM InductiveInvariant == Spec => []IInv
<1>1. Init => IInv
  <2> SUFFICES ASSUME Init PROVE IInv
    OBVIOUS
  <2> USE DEF Init, HealthInit, SocketInit
  <2>1. FlagsTyped
    BY DEF FlagsTyped
  <2>2. ClocksTyped
    BY DEF ClocksTyped, Mark
  <2>3. OneRequest /\ ShownLately /\ AnsweredLately
    BY DEF OneRequest, ShownLately, AnsweredLately
  <2>4. NoSignOfLife
    BY <2>1 DEF NoSignOfLife, FlagsTyped
  <2>5. QED
    BY <2>1, <2>2, <2>3, <2>4 DEF IInv, Typed
<1>2. IInv /\ [Next]_vars => IInv'
  BY FlagsStep, ClocksStep, OneRequestStep, NoSignOfLifeStep, ShownLatelyStep, AnsweredLatelyStep DEF IInv, Typed
<1>3. QED
  BY <1>1, <1>2, PTL DEF Spec

\* No answer of an earlier poll is taken for a sign of life, whatever is late:
\* the poll after one that has timed out ends with what send throws, unless the
\* socket is a new one.
THEOREM AlwaysAnswersThisPoll == Spec => []AnswersThisPoll
<1>1. IInv => AnswersThisPoll
  BY DEF IInv, OneRequest, AnswersThisPoll
<1>2. QED
  BY <1>1, InductiveInvariant, PTL

\* For every Delay, the screen does not say "connected" for longer than the
\* window, the period of UiTickThread and the Delay after the plugin has gone.
THEOREM AlwaysShownWhileThere == Spec => []ShownWhileThere
<1>1. IInv => ShownWhileThere
  BY DEF IInv, ShownLately, ShownWhileThere
<1>2. QED
  BY <1>1, InductiveInvariant, PTL

\* The screen is steady as long as no wait is more than a tick late: 4 ticks of
\* sleep and 2 of a poll, with a delay each, fit in the window of 8.
THEOREM SteadyWhenInTime ==
  ASSUME Delay <= 1
  PROVE  Spec => []SteadyShown
<1>1. Init => SteadyShown
  BY DEF Init, HealthInit, SteadyShown
<1>2. IInv /\ steady /\ running => Connected
  BY DEF IInv, Typed, ClocksTyped, AnsweredLately, Connected
<1>3. IInv /\ SteadyShown /\ [Next]_vars => SteadyShown'
  <2> SUFFICES ASSUME IInv, SteadyShown, [Next]_vars PROVE SteadyShown'
    OBVIOUS
  <2>a. Typed
    BY DEF IInv
  <2>1. CASE Health
    BY <2>1, <2>a DEF Health, Thread, LoopTest, Send, Receive, ReceiveTimeout, Wake, PollFailed, PollEnds, SteadyShown, Typed, FlagsTyped
  <2>2. CASE Packet \/ UiTick \/ Quit
    BY <2>2, <2>a DEF Packet, UiTick, Quit, SteadyShown, Typed, FlagsTyped
  <2>3. CASE Render
    BY <2>3, <1>2 DEF Render, SteadyShown
  <2>4. CASE PluginComesAndGoes
    BY <2>4, <2>a DEF PluginComesAndGoes, PluginStep, SteadyShown, Typed, FlagsTyped
  <2>5. CASE Tick \/ UNCHANGED vars
    BY <2>5 DEF Tick, Elapse, vars, SteadyShown
  <2>6. QED
    BY <2>1, <2>2, <2>3, <2>4, <2>5 DEF Next
<1>4. QED
  BY <1>1, <1>3, InductiveInvariant, PTL DEF Spec

=============================================================================
