-------------------------- MODULE SubscriberThread --------------------------
(***************************************************************************)
(* SubscriberThread of src/examples/packet_monitor_ftxui.cpp, between the  *)
(* relay's PUB socket, which drops what a subscriber cannot take, and the  *)
(* user interface, which reads the rows and the total at different times.  *)
(*                                                                         *)
(* Of a message, its session and its message_id.  Time is counted in       *)
(* arrivals: the nth message arrives at n.                                 *)
(***************************************************************************)
EXTENDS Naturals, Sequences, FiniteSets

CONSTANTS
  MaxRows,       \* model->max_rows
  Batch,         \* the packets of a batch: 10 in the code
  MaxIds,        \* bound: message ids the relay takes, over all sessions
  MaxSessions,   \* bound: how often the plugin is loaded
  MaxStrays      \* bound: messages that are no packets of the relay

ASSUME SubscriberAssumption ==
  /\ MaxRows \in Nat \ {0}
  /\ Batch \in Nat \ {0, 1}
  /\ MaxIds \in Nat
  /\ MaxSessions \in Nat \ {0}
  /\ MaxStrays \in Nat

VARIABLES
  session,              \* session_uuid_ of the relay that is loaded
  next_message_id,      \* its next_message_id_
  wire,                 \* history: what its PUB socket took
  skipped,              \* history: the messages that were not sent
  pipe,                 \* messages on their way to the subscriber
  running,              \* model->running
  sub,                  \* where the thread is
  thrown,               \* history: where an exception ended its loop, or "none"
  strays,               \* how many strays it has passed over
  row,                  \* its row
  rows,                 \* model->rows, newest first
  local_seq_counter,    \* model->local_seq_counter
  last_remote_msg_id,   \* model->last_remote_msg_id
  total_packets,        \* model->total_packets
  batch_count,          \* model->batch_count
  batch_start,          \* model->batch_start_ms
  last_batch_rate,      \* model->last_batch_rate, by the time it covers
  frame                 \* what the renderer has read for the screen; and, as
                        \* a history, the newest row when it read the total

Source == INSTANCE MessageSource

relay == <<session, next_message_id, wire, skipped>>
batch == <<batch_count, batch_start, last_batch_rate>>
model == <<rows, local_seq_counter, last_remote_msg_id, total_packets, batch>>
mishaps == <<thrown, strays>>
vars == <<relay, pipe, running, sub, mishaps, row, model, frame>>

NoRow == [local_seq |-> 0, remote_msg_id |-> 0, gap |-> FALSE, session |-> 0]

Init ==
  /\ Source!Init
  /\ skipped = {}
  /\ pipe = <<>>
  /\ running = TRUE
  /\ sub = "top"
  /\ thrown = "none"
  /\ strays = 0
  /\ row = NoRow
  /\ rows = <<>>
  /\ local_seq_counter = 0
  /\ last_remote_msg_id = 0
  /\ total_packets = 0
  /\ batch_count = 0
  /\ batch_start = 0
  /\ last_batch_rate = [from |-> 0, to |-> 0]
  /\ frame = [newest |-> 0, total |-> 0, later |-> 0, complete |-> FALSE]

(***************************************************************************)
(* The relay, as its subscriber sees it.                                   *)
(***************************************************************************)

\* PublisherThread sends a message, or fails to after it has taken the id.  The
\* PUB socket drops the message of a subscriber that is at its high-water mark
\* or whose subscription it has not seen yet.
PublishMessage ==
  /\ Len(wire) + Cardinality(skipped) < MaxIds
  /\ \/ /\ Source!Send
        /\ pipe' \in {pipe, Append(pipe, Source!Message)}
        /\ UNCHANGED skipped
     \/ /\ Source!SkipId
        /\ skipped' = skipped \cup {Source!Message}
        /\ UNCHANGED pipe
  /\ UNCHANGED <<running, sub, mishaps, row, model, frame>>

\* The plugin is unloaded, with the messages that have not left its socket,
\* and loaded again.
Reload ==
  /\ session < MaxSessions
  /\ Source!Load
  /\ \E n \in 0..Len(pipe) : pipe' = SubSeq(pipe, 1, n)
  /\ UNCHANGED <<skipped, running, sub, mishaps, row, model, frame>>

(***************************************************************************)
(* The thread.                                                             *)
(***************************************************************************)

LoopTest ==
  /\ sub = "top"
  /\ sub' = IF running THEN "recv" ELSE "ended"
  /\ UNCHANGED <<relay, pipe, running, mishaps, row, model, frame>>

\* A slip EverythingShown detects: break for continue.
TimeoutEndsLoop ==
  /\ sub = "recv"
  /\ pipe = <<>>
  /\ sub' = "ended"
  /\ UNCHANGED <<relay, pipe, running, mishaps, row, model, frame>>

\* A slip SubscriberEnds detects: no rcvtimeo.
NoReceiveTimeout == FALSE

\* rcvtimeo is over.
ReceiveTimeout ==
  /\ sub = "recv"
  /\ pipe = <<>>
  /\ sub' = "top"
  /\ UNCHANGED <<relay, pipe, running, mishaps, row, model, frame>>

\* A message of fewer than two frames, or one that is not JSON: the relay sends
\* none, but nothing here says who has bound the endpoint.
SkipStray ==
  /\ sub = "recv"
  /\ strays < MaxStrays
  /\ strays' = strays + 1
  /\ sub' = "top"
  /\ UNCHANGED <<relay, pipe, running, thrown, row, model, frame>>

\* A slip RateOfBatch detects: the batch is not begun anew.
CountBatchOnce(now) ==
  LET count == batch_count + 1
  IN  /\ batch_count' = count
      /\ batch_start' = IF count = 1 THEN now ELSE batch_start
      /\ last_batch_rate' = IF count >= Batch THEN [from |-> batch_start, to |-> now] ELSE last_batch_rate

\* The first packet of a batch starts its time, the last one gives the rate,
\* unless the clock has not moved.
CountBatch(now) ==
  LET count == batch_count + 1
  IN  \/ /\ count < Batch
         /\ batch_count' = count
         /\ batch_start' = IF count = 1 THEN now ELSE batch_start
         /\ UNCHANGED last_batch_rate
      \/ /\ count >= Batch
         /\ batch_count' = 0
         /\ batch_start' = now
         /\ last_batch_rate' \in {last_batch_rate, [from |-> batch_start, to |-> now]}

\* A slip GapsFlagged detects: any later id will do.
GapIfOlder(id) == last_remote_msg_id # 0 /\ id # 0 /\ id <= last_remote_msg_id

Gap(id) == last_remote_msg_id # 0 /\ id # 0 /\ id # last_remote_msg_id + 1

\* A message is received, and everything up to the lock of model->mtx.
Receive ==
  /\ sub = "recv"
  /\ pipe # <<>>
  /\ pipe' = Tail(pipe)
  /\ local_seq_counter' = local_seq_counter + 1
  /\ LET m == Head(pipe)
     IN  /\ row' = [local_seq |-> local_seq_counter', remote_msg_id |-> m.id,
                    gap |-> Gap(m.id), session |-> m.session]
         /\ last_remote_msg_id' = IF m.id # 0 THEN m.id ELSE last_remote_msg_id
  /\ CountBatch(local_seq_counter')
  /\ sub' = "add"
  /\ UNCHANGED <<relay, running, mishaps, rows, total_packets, frame>>

\* A slip RowsAreNewest detects: a full deque takes no new row.
AddRowIfRoom ==
  /\ sub = "add"
  /\ rows' = IF Len(rows) < MaxRows THEN <<row>> \o rows ELSE rows
  /\ sub' = "count"
  /\ UNCHANGED <<relay, pipe, running, mishaps, row, local_seq_counter, last_remote_msg_id, total_packets, batch, frame>>

\* emplace_front and pop_back, under model->mtx.
AddRow ==
  /\ sub = "add"
  /\ rows' = <<row>> \o SubSeq(rows, 1, IF Len(rows) = MaxRows THEN MaxRows - 1 ELSE Len(rows))
  /\ sub' = "count"
  /\ UNCHANGED <<relay, pipe, running, mishaps, row, local_seq_counter, last_remote_msg_id, total_packets, batch, frame>>

\* A slip ScreenAgrees detects: the total is the number of rows.
CountRows ==
  /\ sub = "count"
  /\ total_packets' = Len(rows)
  /\ sub' = "top"
  /\ UNCHANGED <<relay, pipe, running, mishaps, row, rows, local_seq_counter, last_remote_msg_id, batch, frame>>

CountTotal ==
  /\ sub = "count"
  /\ total_packets' = total_packets + 1
  /\ sub' = "top"
  /\ UNCHANGED <<relay, pipe, running, mishaps, row, rows, local_seq_counter, last_remote_msg_id, batch, frame>>

\* The loop is inside of the try block, and the first exception ends the thread:
\* of the sockets before the loop or PostEvent at its end ("top"), of recv, or of
\* emplace_front, which leaves the rows as they were ("add").
Throw ==
  /\ sub \in {"top", "recv", "add"}
  /\ sub' = "ended"
  /\ thrown' = sub
  /\ UNCHANGED <<relay, pipe, running, strays, row, model, frame>>

\* What follows recv throws, and the message is lost: before the batch is
\* counted, after it, or with the number that the row was to have.
ThrowInReceive ==
  /\ sub = "recv"
  /\ pipe # <<>>
  /\ pipe' = Tail(pipe)
  /\ \/ thrown' = "recv" /\ UNCHANGED <<batch, local_seq_counter>>
     \/ thrown' = "recv" /\ CountBatch(local_seq_counter + 1) /\ UNCHANGED local_seq_counter
     \/ thrown' = "add" /\ local_seq_counter' = local_seq_counter + 1 /\ CountBatch(local_seq_counter')
  /\ sub' = "ended"
  /\ UNCHANGED <<relay, running, strays, row, rows, last_remote_msg_id, total_packets, frame>>

(***************************************************************************)
(* The user interface, on the main thread.                                 *)
(***************************************************************************)

NewestRow == IF rows = <<>> THEN 0 ELSE Head(rows).local_seq

\* The body of the screen, under model->mtx.
RenderRows ==
  /\ running
  /\ frame' = [newest |-> NewestRow, total |-> 0, later |-> 0, complete |-> FALSE]
  /\ UNCHANGED <<relay, pipe, running, sub, mishaps, row, model>>

\* The footer of the same screen, after the lock.
RenderTotal ==
  /\ ~frame.complete
  /\ frame' = [frame EXCEPT !.total = total_packets, !.later = NewestRow, !.complete = TRUE]
  /\ UNCHANGED <<relay, pipe, running, sub, mishaps, row, model>>

\* 'q' or ESC.
Quit ==
  /\ running
  /\ running' = FALSE
  /\ UNCHANGED <<relay, pipe, sub, mishaps, row, model, frame>>

-----------------------------------------------------------------------------
Proceed == LoopTest \/ ReceiveTimeout \/ Receive \/ AddRow \/ CountTotal

Mishap == SkipStray \/ Throw \/ ThrowInReceive

Thread == Proceed \/ Mishap

\* The thread has ended.
Ended == sub = "ended" /\ UNCHANGED vars

Next == PublishMessage \/ Reload \/ Thread \/ RenderRows \/ RenderTotal \/ Quit \/ Ended

Spec == Init /\ [][Next]_vars

\* The thread keeps running, and a wait of 250 ms ends; no mishap has to happen.
FairSpec == Spec /\ WF_vars(Proceed)

-----------------------------------------------------------------------------
\* A row that has its number is not among the rows: not yet, or never, if an
\* exception has come between.
RowMissing == sub = "add" \/ thrown = "add"

\* The rows are the newest of all received messages, numbered without a hole,
\* and no more than max_rows of them: emplace_front and pop_back agree with
\* the numbering, which is outside of the lock, wherever an exception ends the
\* loop (packet_monitor_ftxui.cpp:125).
RowsAreNewest ==
  LET newest == local_seq_counter - (IF RowMissing THEN 1 ELSE 0)
  IN  /\ Len(rows) = IF newest < MaxRows THEN newest ELSE MaxRows
      /\ \A i \in 1..Len(rows) : rows[i].local_seq = newest + 1 - i

Taken == {wire[i] : i \in 1..Len(wire)} \cup skipped

\* Within a session the rows are in the order of their ids, and a row says GAP
\* exactly when ids were taken between it and the row before: no lost message
\* goes unnoticed, and none is made up, whatever the PUB socket has dropped,
\* whatever was evicted and however the session began.
GapsFlagged ==
  \A i \in 1..(Len(rows) - 1) : rows[i].session = rows[i + 1].session =>
    /\ rows[i + 1].remote_msg_id < rows[i].remote_msg_id
    /\ rows[i].gap <=>
         \E m \in Taken : /\ m.session = rows[i].session
                          /\ rows[i + 1].remote_msg_id < m.id /\ m.id < rows[i].remote_msg_id

\* The rate is that of a whole batch and of no other packet: batches follow
\* each other without a gap and without sharing a packet, although the start
\* is stored at the end of a batch and again at the start of the next.
RateOfBatch ==
  LET rate == last_batch_rate
  IN  rate.to # 0 => rate.to % Batch = 0 /\ rate.from = rate.to - Batch + 1

\* The rows of a screen are read first and the total after the lock, so that they
\* need not agree, but the total counts the rows of the screen, but for the one
\* that is being added, and no message that had not become a row by then.
ScreenAgrees ==
  frame.complete => frame.newest <= frame.total + 1 /\ frame.total <= frame.later

\* Every message that has reached the monitor is received, shown and counted, in
\* spite of timeouts and strays, as long as nothing is thrown. (The first
\* exception ends the thread, and what arrives after it is never shown.)
EverythingShown ==
  pipe # <<>> ~> (~running \/ thrown # "none" \/ (pipe = <<>> /\ total_packets = local_seq_counter))

\* The thread ends after the user has quit, with or without a plugin.
SubscriberEnds == ~running ~> sub = "ended"

=============================================================================
