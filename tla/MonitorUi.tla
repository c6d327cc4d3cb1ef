------------------------------ MODULE MonitorUi ------------------------------
(***************************************************************************)
(* The header of the FTXUI monitor, src/examples/packet_monitor_ftxui.cpp: *)
(* "connected" or "disconnected", rendered on the main thread from what    *)
(* SubscriberThread and HealthThread have stored, whenever one of them or  *)
(* UiTickThread has posted an event.                                       *)
(*                                                                         *)
(* Of SubscriberThread there is the time of the last packet; the module of *)
(* that name has the rest.                                                 *)
(***************************************************************************)
EXTENDS HealthThread

VARIABLES
  packet_age,   \* ticks since last_packet_ms, up to Old
  ui_tick,      \* UiTickThread: "sleep" or "ended"
  ui_timer,     \* what is left of its sleep, with the Delay
  event,        \* an event for the screen is posted
  shown,        \* the screen says "connected"
  away          \* history: ticks for which the plugin has been away, up to Gone

ui == <<packet_age, ui_tick, ui_timer, event, shown>>
vars == <<up, socket, running, thread, ui, away>>

\* The 250 ms that UiTickThread sleeps.
UiPeriod == 1

\* How long after the plugin the screen may say "connected".
Tolerance == Window + UiPeriod + Delay

Gone == Tolerance + 1

Init ==
  /\ HealthInit
  /\ packet_age = Old
  /\ ui_tick = "sleep"
  /\ ui_timer = 0
  /\ event = FALSE
  /\ shown = FALSE
  /\ away = IF up THEN 0 ELSE Gone

Health ==
  /\ Thread
  /\ event' = (event \/ PollEnds)
  /\ UNCHANGED <<packet_age, ui_tick, ui_timer, shown, away>>

\* SubscriberThread has a packet.
Packet ==
  /\ up
  /\ running
  /\ packet_age' = 0
  /\ event' = TRUE
  /\ UNCHANGED <<up, socket, running, thread, ui_tick, ui_timer, shown, away>>

\* A slip ShownWhileThere detects: the thread posts nothing.
UiTickSilent ==
  /\ ui_tick = "sleep"
  /\ ui_timer <= Delay
  /\ ui_tick' = IF running THEN "sleep" ELSE "ended"
  /\ ui_timer' = UiPeriod + Delay
  /\ UNCHANGED <<up, socket, running, thread, packet_age, event, shown, away>>

\* A turn of UiTickThread.
UiTick ==
  /\ ui_tick = "sleep"
  /\ ui_timer <= Delay
  /\ ui_tick' = IF running THEN "sleep" ELSE "ended"
  /\ ui_timer' = UiPeriod + Delay
  /\ event' = (event \/ running)
  /\ UNCHANGED <<up, socket, running, thread, packet_age, shown, away>>

\* recent || recent_ok
Connected == packet_age <= Window \/ ok_age <= Window

\* screen.Loop takes the events that are posted and renders.
Render ==
  /\ running
  /\ event
  /\ event' = FALSE
  /\ shown' = Connected
  /\ UNCHANGED <<up, socket, running, thread, packet_age, ui_tick, ui_timer, away>>

\* 'q' or ESC.
Quit ==
  /\ running
  /\ running' = FALSE
  /\ UNCHANGED <<up, socket, thread, ui, away>>

PluginComesAndGoes ==
  /\ PluginStep
  /\ away' = IF up' THEN 0 ELSE away
  /\ UNCHANGED ui

\* 250 ms pass: everyone waits, and the screen is as it should be.
Tick ==
  /\ Elapse
  /\ running => ~event
  /\ ui_tick = "ended" \/ ui_timer > 0
  /\ ui_timer' = IF ui_timer = 0 THEN 0 ELSE ui_timer - 1
  /\ packet_age' = NextAge(packet_age)
  /\ away' = IF up \/ away = Gone THEN away ELSE away + 1
  /\ UNCHANGED <<ui_tick, event, shown>>

Next == Health \/ Packet \/ UiTick \/ Render \/ Quit \/ PluginComesAndGoes \/ Tick

Spec == Init /\ [][Next]_vars

\* The threads keep running, time does not stand still, and a plugin that is
\* loaded answers.
FairSpec ==
  /\ Spec
  /\ WF_vars(Health)
  /\ WF_vars(UiTick)
  /\ WF_vars(Render)
  /\ SF_vars(Tick)
  /\ WF_vars(PluginComesAndGoes /\ AnswerRequest)

-----------------------------------------------------------------------------
\* The screen never flickers: while the plugin is loaded and answers its polls
\* in time, the screen says "connected", whatever the packets do. A poll, its
\* answer and the pause between two polls fit in the window of 2 s
\* (packet_monitor_ftxui.cpp:135, 168, 206), with threads a tick late each time.
SteadyShown == steady /\ running /\ ~event => shown

\* The screen does not say "connected" much longer than the window after the
\* plugin has gone: UiTickThread posts an event when no other thread has a
\* reason to, and a late answer is not a new sign of life.
ShownWhileThere == shown /\ running => away <= Tolerance

\* A plugin that stays away does not go on being shown.
NoticesUnload == (<>[]~up) => <>[](shown => ~running)

\* Both threads end after the user has quit, whatever the plugin does.
ThreadsEnd == ~running ~> (health = "ended" /\ ui_tick = "ended")

\* packet_monitor_ftxui.cpp:157, "Recreate socket to force reconnect": a plugin
\* that is loaded again for good is seen to answer again and again.
SeesReload == (<>[](up /\ running)) => []<>(ok_age <= Window)

=============================================================================
