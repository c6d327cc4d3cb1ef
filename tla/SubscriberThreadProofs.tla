----------------------- MODULE SubscriberThreadProofs ------------------------
(***************************************************************************)
(* What holds of the FTXUI monitor's subscriber (module SubscriberThread)  *)
(* for any size of the deque and of a batch, and any number of messages    *)
(* and sessions.                                                           *)
(***************************************************************************)
EXTENDS SubscriberThread, SequenceTheorems, TLAPS

Msg == [session : Nat, id : Nat \ {0}]

Row == [local_seq : Nat, remote_msg_id : Nat, gap : BOOLEAN, session : Nat]

RelayTyped ==
  /\ session \in Nat
  /\ next_message_id \in Nat \ {0}
  /\ wire \in Seq(Msg)
  /\ skipped \subseteq Msg
  /\ pipe \in Seq(Msg)

ModelTyped ==
  /\ running \in BOOLEAN
  /\ sub \in {"top", "recv", "add", "count", "ended"}
  /\ thrown \in {"none", "top", "recv", "add"}
  /\ thrown # "none" => sub = "ended"
  /\ strays \in Nat
  /\ row \in Row
  /\ rows \in Seq(Row)
  /\ local_seq_counter \in Nat
  /\ last_remote_msg_id \in Nat
  /\ total_packets \in Nat
  /\ frame \in [newest : Nat, total : Nat, later : Nat, complete : BOOLEAN]

BatchTyped ==
  /\ batch_count \in 0..(Batch - 1)
  /\ batch_start \in Nat
  /\ last_batch_rate \in [from : Nat, to : Nat]

Typed == RelayTyped /\ ModelTyped /\ BatchTyped

\* The number of the newest row, and how many rows are counted.
Newest == local_seq_counter - (IF RowMissing THEN 1 ELSE 0)

Counted == local_seq_counter - (IF RowMissing \/ sub = "count" THEN 1 ELSE 0)

\* The row in the thread's hands has the number after the newest row's, and a
\* screen that is half read has rows that are still there or older.
Numbering ==
  /\ RowsAreNewest
  /\ RowMissing \/ sub = "count" => local_seq_counter > 0
  /\ sub = "add" => row.local_seq = local_seq_counter
  /\ total_packets = Counted
  /\ frame.newest <= Newest
  /\ ScreenAgrees

\* A batch that has begun began with its first packet, as long as every packet
\* that was counted for it has got its number.
Batches ==
  /\ thrown = "none" => local_seq_counter % Batch = batch_count
  /\ thrown = "none" /\ batch_count > 0 => batch_start = local_seq_counter - batch_count + 1
  /\ RateOfBatch

Before(m, n) == m.session < n.session \/ (m.session = n.session /\ m.id < n.id)

\* The relay's ids are taken in order and without a hole, up to the next one.
Numbered ==
  /\ \A m \in Taken : Before(m, Source!Message)
  /\ \A m \in Taken : \A i \in 1..m.id : [session |-> m.session, id |-> i] \in Taken
  /\ \A i \in 1..(next_message_id - 1) : [session |-> session, id |-> i] \in Taken

\* What is lost on the way leaves the order of the rest.
InOrder ==
  /\ \A i \in 1..Len(pipe) : pipe[i] \in Taken
  /\ \A i, j \in 1..Len(pipe) : i < j => Before(pipe[i], pipe[j])

\* The message a row shows, and the message received last.
Shown(r) == [session |-> r.session, id |-> r.remote_msg_id]

Latest == Shown(IF sub = "add" THEN row ELSE rows[1])

\* What GapsFlagged says of a row and the row before it.
Follows(taken, r, before) ==
  r.session = before.session =>
    /\ before.remote_msg_id < r.remote_msg_id
    /\ r.gap <=> \E m \in taken : /\ m.session = r.session
                                  /\ before.remote_msg_id < m.id /\ m.id < r.remote_msg_id

\* The rows come from the relay, the row that is not yet added follows the
\* rows, and all that is under way follows it, as long as anything is received.
Received ==
  /\ \A i \in 1..Len(rows) : Before(Shown(rows[i]), Source!Message)
  /\ sub = "add" => Before(Shown(row), Source!Message)
  /\ local_seq_counter = 0 => last_remote_msg_id = 0
  /\ local_seq_counter > 0 /\ thrown = "none" =>
       /\ last_remote_msg_id = Latest.id
       /\ last_remote_msg_id > 0
       /\ \A i \in 1..Len(pipe) : Before(Latest, pipe[i])
  /\ GapsFlagged
  /\ sub = "add" /\ rows # <<>> => Follows(Taken, row, rows[1])

USE DEF relay, batch, model, mishaps, RowMissing

(***************************************************************************)
(* Lemmas about sequences and numbers.                                     *)
(***************************************************************************)

\* A new first element, and the elements that are kept of the others.
LEMMA PushFront ==
  ASSUME NEW S, NEW s \in Seq(S), NEW e \in S, NEW k \in 0..Len(s)
  PROVE  /\ <<e>> \o SubSeq(s, 1, k) \in Seq(S)
         /\ Len(<<e>> \o SubSeq(s, 1, k)) = k + 1
         /\ (<<e>> \o SubSeq(s, 1, k))[1] = e
         /\ \A i \in 2..(k + 1) : (<<e>> \o SubSeq(s, 1, k))[i] = s[i - 1]
<1>1. Len(s) \in Nat /\ k \in Int /\ k <= Len(s) /\ k >= 0
  BY LenProperties
<1>2. \A i \in 1..k : s[i] \in S
  BY <1>1, ElementOfSeq
<1>3. /\ SubSeq(s, 1, k) \in Seq(S)
      /\ Len(SubSeq(s, 1, k)) = k
      /\ \A i \in 1..k : SubSeq(s, 1, k)[i] = s[i]
  <2>1. /\ SubSeq(s, 1, k) \in Seq(S)
        /\ Len(SubSeq(s, 1, k)) = IF 1 <= k THEN k - 1 + 1 ELSE 0
        /\ \A i \in 1..(k - 1 + 1) : SubSeq(s, 1, k)[i] = s[1 + i - 1]
    BY <1>1, <1>2, SubSeqProperties
  <2>2. k - 1 + 1 = k /\ \A i \in 1..k : 1 + i - 1 = i
    BY <1>1
  <2>3. QED
    BY <1>1, <2>1, <2>2
<1>4. <<e>> \in Seq(S) /\ Len(<<e>>) = 1 /\ <<e>>[1] = e
  OBVIOUS
<1> DEFINE t == SubSeq(s, 1, k)
           one == <<e>>
<1> HIDE DEF t, one
<1>5. /\ one \o t \in Seq(S)
      /\ Len(one \o t) = 1 + k
      /\ \A i \in 1..(1 + k) : (one \o t)[i] = IF i <= 1 THEN one[i] ELSE t[i - 1]
  BY <1>3, <1>4, ConcatProperties DEF t, one
<1>6. (one \o t)[1] = e
  BY <1>1, <1>4, <1>5 DEF one
<1>7. \A i \in 2..(k + 1) : (one \o t)[i] = s[i - 1]
  BY <1>1, <1>3, <1>5 DEF t
<1>8. QED
  BY <1>1, <1>5, <1>6, <1>7 DEF t, one

LEMMA RemainderUnique ==
  ASSUME NEW n \in Nat, NEW b \in Nat, b > 1, NEW q \in Int, NEW r \in 0..(b - 1), n = b * q + r
  PROVE  n % b = r
OBVIOUS

LEMMA NextRemainder ==
  ASSUME NEW n \in Nat, NEW b \in Nat, b > 1
  PROVE  (n + 1) % b = IF (n % b) + 1 < b THEN (n % b) + 1 ELSE 0
<1> DEFINE q == n \div b
           r == n % b
<1>1. q \in Int /\ r \in 0..(b - 1)
  OBVIOUS
<1>2. n - r = b * q
  BY Z3T(30)
<1> HIDE DEF q, r
<1>3. CASE r + 1 < b
  <2>1. n + 1 = b * q + (r + 1) /\ r + 1 \in 0..(b - 1)
    BY <1>1, <1>2, <1>3
  <2>2. n + 1 \in Nat
    OBVIOUS
  <2>3. (n + 1) % b = r + 1
    BY <1>1, <2>1, <2>2, RemainderUnique, Zenon
  <2>4. QED
    BY <1>3, <2>3 DEF r
<1>4. CASE ~(r + 1 < b)
  <2>1. n + 1 = b * (q + 1) + 0 /\ q + 1 \in Int /\ 0 \in 0..(b - 1)
    BY <1>1, <1>2, <1>4
  <2>2. n + 1 \in Nat
    OBVIOUS
  <2>3. (n + 1) % b = 0
    BY <2>1, <2>2, RemainderUnique, Zenon
  <2>4. QED
    BY <1>4, <2>3 DEF r
<1>5. QED
  BY <1>3, <1>4, Zenon

\* The two steps that change the rows.
LEMMA AddRowRows ==
  ASSUME Typed, Numbering, AddRow
  PROVE  /\ rows' \in Seq(Row)
         /\ Len(rows') = IF local_seq_counter < MaxRows THEN local_seq_counter ELSE MaxRows
         /\ Len(rows') > 0 /\ Len(rows') <= Len(rows) + 1
         /\ rows'[1] = row
         /\ \A i \in 2..Len(rows') : rows'[i] = rows[i - 1]
<1> DEFINE k == IF Len(rows) = MaxRows THEN MaxRows - 1 ELSE Len(rows)
<1>1. rows \in Seq(Row) /\ Len(rows) \in Nat /\ row \in Row /\ sub = "add"
  BY LenProperties DEF Typed, ModelTyped, AddRow
<1>2. Len(rows) = IF local_seq_counter - 1 < MaxRows THEN local_seq_counter - 1 ELSE MaxRows
  BY <1>1 DEF Numbering, RowsAreNewest
<1>3. k \in 0..Len(rows) /\ k <= Len(rows)
  BY <1>1, SubscriberAssumption
<1>4. local_seq_counter \in Nat /\ local_seq_counter > 0
  BY <1>1 DEF Typed, ModelTyped, Numbering
<1>5. k + 1 = IF local_seq_counter < MaxRows THEN local_seq_counter ELSE MaxRows
  BY <1>1, <1>2, <1>4, SubscriberAssumption
<1>6. rows' = <<row>> \o SubSeq(rows, 1, k)
  BY DEF AddRow
<1> HIDE DEF k
<1>7. /\ rows' \in Seq(Row)
      /\ Len(rows') = k + 1
      /\ rows'[1] = row
      /\ \A i \in 2..(k + 1) : rows'[i] = rows[i - 1]
  BY <1>1, <1>3, <1>6, PushFront
<1>8. QED
  BY <1>1, <1>3, <1>5, <1>7

LEMMA TakeMessage ==
  ASSUME Typed, Receive
  PROVE  /\ Head(pipe) \in Msg /\ Tail(pipe) \in Seq(Msg)
         /\ Head(pipe) = pipe[1]
         /\ local_seq_counter' = local_seq_counter + 1
         /\ row' \in Row /\ row'.local_seq = local_seq_counter + 1
         /\ last_remote_msg_id' = Head(pipe).id
         /\ Shown(row') = Head(pipe) /\ row'.gap = Gap(Head(pipe).id)
<1>1. pipe \in Seq(Msg) /\ pipe # <<>>
  BY DEF Typed, RelayTyped, Receive
<1>2. Head(pipe) \in Msg /\ Tail(pipe) \in Seq(Msg) /\ Head(pipe) = pipe[1]
  BY <1>1, HeadTailProperties
<1>3. local_seq_counter' = local_seq_counter + 1 /\ local_seq_counter \in Nat
  BY DEF Receive, Typed, ModelTyped
<1>4. row' = [local_seq |-> local_seq_counter', remote_msg_id |-> Head(pipe).id,
              gap |-> Gap(Head(pipe).id), session |-> Head(pipe).session]
  BY DEF Receive
<1>5. Gap(Head(pipe).id) \in BOOLEAN
  BY DEF Gap
<1>6. Head(pipe).id \in Nat \ {0} /\ Head(pipe).session \in Nat
  BY <1>2 DEF Msg
<1>7. last_remote_msg_id' = Head(pipe).id
  BY <1>6 DEF Receive
<1>8. Shown(row') = Head(pipe)
  BY <1>2, <1>4 DEF Shown, Msg
<1>9. QED
  BY <1>2, <1>3, <1>4, <1>5, <1>6, <1>7, <1>8 DEF Row

\* The newest row has the number that the counter says.
LEMMA NewestIsFirst == Typed /\ Numbering => NewestRow = Newest /\ Newest \in Nat
<1> SUFFICES ASSUME Typed, Numbering PROVE NewestRow = Newest /\ Newest \in Nat
  OBVIOUS
<1>1. rows \in Seq(Row) /\ Len(rows) \in Nat /\ local_seq_counter \in Nat
  BY LenProperties DEF Typed, ModelTyped
<1>2. Newest \in Nat /\ Len(rows) = IF Newest < MaxRows THEN Newest ELSE MaxRows
  BY <1>1 DEF Numbering, RowsAreNewest, Newest
<1>3. CASE rows = <<>>
  BY <1>2, <1>3, SubscriberAssumption DEF NewestRow
<1>4. CASE rows # <<>>
  <2>1. Len(rows) > 0 /\ Head(rows) = rows[1]
    BY <1>1, <1>4, EmptySeq
  <2>2. rows[1].local_seq = Newest + 1 - 1
    BY <1>1, <2>1 DEF Numbering, RowsAreNewest, Newest
  <2>3. QED
    BY <1>2, <1>4, <2>1, <2>2 DEF NewestRow
<1>5. QED
  BY <1>3, <1>4, <1>2

\* Which actions leave which variables alone.
LEMMA RelaySteps ==
  ASSUME PublishMessage \/ Reload
  PROVE  UNCHANGED <<running, sub, mishaps, row, model, frame>>
BY DEF PublishMessage, Reload

(***************************************************************************)
(* Types, rows and batches.                                                *)
(***************************************************************************)

LEMMA InitTyped == Init => Typed /\ Numbering /\ Batches
<1> SUFFICES ASSUME Init PROVE Typed /\ Numbering /\ Batches
  OBVIOUS
<1>1. RelayTyped
  BY DEF Init, Source!Init, RelayTyped
<1>2. ModelTyped
  BY DEF Init, NoRow, ModelTyped, Row
<1>3. BatchTyped
  BY SubscriberAssumption DEF Init, BatchTyped
<1>4. Numbering
  <2>1. /\ sub = "top" /\ thrown = "none" /\ rows = <<>> /\ local_seq_counter = 0 /\ total_packets = 0
        /\ frame.newest = 0 /\ frame.complete = FALSE
    BY DEF Init
  <2>2. Len(rows) = 0
    BY <2>1
  <2>3. RowsAreNewest
    <3>1. Len(rows) = IF local_seq_counter < MaxRows THEN local_seq_counter ELSE MaxRows
      BY <2>1, <2>2, SubscriberAssumption
    <3>2. 1..Len(rows) = {}
      BY <2>2
    <3>3. QED
      BY <2>1, <3>1, <3>2 DEF RowsAreNewest
  <2>4. Newest = 0 /\ Counted = 0
    <3>1. ~RowMissing /\ sub # "count"
      BY <2>1
    <3>2. Newest = local_seq_counter - 0 /\ Counted = local_seq_counter - 0
      BY <3>1 DEF Newest, Counted
    <3>3. QED
      BY <2>1, <3>2
  <2>5. QED
    BY <2>1, <2>3, <2>4 DEF Numbering, ScreenAgrees
<1>5. Batches
  <2>1. 0 % Batch = 0
    BY SubscriberAssumption
  <2>2. QED
    BY <2>1 DEF Init, Batches, RateOfBatch
<1>6. QED
  BY <1>1, <1>2, <1>3, <1>4, <1>5 DEF Typed

LEMMA RelayTypedStep == Typed /\ [Next]_vars => RelayTyped'
<1> SUFFICES ASSUME Typed, [Next]_vars PROVE RelayTyped'
  OBVIOUS
<1> USE DEF RelayTyped
<1>a. RelayTyped
  BY DEF Typed
<1>1. CASE PublishMessage
  <2>1. Source!Message \in Msg
    BY <1>a DEF Source!Message, Msg
  <2>2. Append(wire, Source!Message) \in Seq(Msg) /\ Append(pipe, Source!Message) \in Seq(Msg)
    BY <1>a, <2>1
  <2>3. CASE Source!Send /\ pipe' \in {pipe, Append(pipe, Source!Message)} /\ UNCHANGED skipped
    BY <1>a, <2>1, <2>2, <2>3 DEF Source!Send, Source!TakeId
  <2>4. CASE Source!SkipId /\ skipped' = skipped \cup {Source!Message} /\ UNCHANGED pipe
    BY <1>a, <2>1, <2>4 DEF Source!SkipId, Source!TakeId
  <2>5. QED
    BY <1>1, <2>3, <2>4 DEF PublishMessage
<1>2. CASE Reload
  <2>1. PICK n \in 0..Len(pipe) : pipe' = SubSeq(pipe, 1, n)
    BY <1>2 DEF Reload
  <2>2. pipe' \in Seq(Msg)
    BY <1>a, <2>1, SubSeqProperties, ElementOfSeq, LenProperties
  <2>3. QED
    BY <1>2, <1>a, <2>2 DEF Reload, Source!Load
<1>3. CASE Receive \/ ThrowInReceive
  <2>1. pipe # <<>> /\ pipe' = Tail(pipe) /\ UNCHANGED relay
    BY <1>3 DEF Receive, ThrowInReceive
  <2>2. QED
    BY <2>1, <1>a, HeadTailProperties
<1>4. CASE UNCHANGED <<relay, pipe>>
  BY <1>4, <1>a
<1>5. QED
  BY <1>1, <1>2, <1>3, <1>4
     DEF Next, Thread, Proceed, Mishap, SkipStray, Throw, LoopTest, ReceiveTimeout, AddRow, CountTotal, RenderRows, RenderTotal, Quit, Ended, vars

LEMMA ModelTypedStep == Typed /\ Numbering /\ [Next]_vars => ModelTyped'
<1> SUFFICES ASSUME Typed, Numbering, [Next]_vars PROVE ModelTyped'
  OBVIOUS
<1> USE DEF ModelTyped
<1>a. ModelTyped
  BY DEF Typed
<1>1. CASE PublishMessage \/ Reload
  BY <1>1, <1>a, RelaySteps
<1>2. CASE LoopTest \/ ReceiveTimeout \/ Quit
  BY <1>2, <1>a DEF LoopTest, ReceiveTimeout, Quit
<1>d. CASE SkipStray
  BY <1>d, <1>a DEF SkipStray
<1>b. CASE Throw
  BY <1>b, <1>a DEF Throw
<1>c. CASE ThrowInReceive
  BY <1>c, <1>a DEF ThrowInReceive
<1>3. CASE Receive
  <2>1. row' \in Row /\ last_remote_msg_id' \in Nat
    BY <1>3, TakeMessage DEF Msg
  <2>2. QED
    BY <1>3, <1>a, <2>1 DEF Receive
<1>4. CASE AddRow
  BY <1>4, <1>a, AddRowRows DEF AddRow
<1>5. CASE CountTotal
  BY <1>5, <1>a DEF CountTotal
<1>6. CASE RenderRows
  BY <1>6, <1>a, NewestIsFirst DEF RenderRows
<1>7. CASE RenderTotal
  BY <1>7, <1>a, NewestIsFirst DEF RenderTotal
<1>8. CASE UNCHANGED vars
  BY <1>8, <1>a DEF vars
<1>9. QED
  BY <1>1, <1>2, <1>b, <1>c, <1>d, <1>3, <1>4, <1>5, <1>6, <1>7, <1>8 DEF Next, Thread, Proceed, Mishap, Ended

LEMMA NumberingStep == Typed /\ Numbering /\ [Next]_vars => Numbering'
<1> SUFFICES ASSUME Typed, Numbering, [Next]_vars PROVE Numbering'
  OBVIOUS
<1> USE DEF Numbering, RowsAreNewest, ScreenAgrees, Newest, Counted
<1>a. ModelTyped /\ Len(rows) \in Nat /\ Numbering
  BY LenProperties DEF Typed, ModelTyped
<1>1. CASE PublishMessage \/ Reload
  BY <1>1, <1>a, RelaySteps
<1>b. thrown = "none" \/ sub = "ended"
  BY <1>a DEF ModelTyped
<1>2. CASE LoopTest \/ ReceiveTimeout \/ SkipStray \/ Quit
  BY <1>2, <1>a DEF LoopTest, ReceiveTimeout, SkipStray, Quit
<1>c. CASE Throw
  <2>1. thrown = "none" /\ sub \in {"top", "recv", "add"} /\ sub' = "ended" /\ thrown' = sub
        /\ UNCHANGED <<row, model, frame>>
    BY <1>b, <1>c DEF Throw
  <2>2. (RowMissing' <=> RowMissing) /\ Newest' = Newest /\ Counted' = Counted
    BY <2>1
  <2>3. QED
    BY <1>a, <2>1, <2>2
<1>d. CASE ThrowInReceive
  <2>1. /\ thrown = "none" /\ sub = "recv" /\ sub' = "ended"
        /\ UNCHANGED <<row, rows, total_packets, frame>>
        /\ \/ thrown' = "recv" /\ local_seq_counter' = local_seq_counter
           \/ thrown' = "add" /\ local_seq_counter' = local_seq_counter + 1
    BY <1>b, <1>d DEF ThrowInReceive
  <2>2. Newest' = Newest /\ Counted' = Counted
    BY <1>a, <2>1 DEF ModelTyped
  <2>3. Newest = local_seq_counter' - (IF RowMissing' THEN 1 ELSE 0)
    BY <2>2
  <2>4. RowMissing' => local_seq_counter' > 0
    BY <1>a, <2>1 DEF ModelTyped
  <2> HIDE DEF Newest, Counted
  <2>5. frame.newest <= Newest' /\ total_packets = Counted'
    BY <1>a, <2>2
  <2>6. RowsAreNewest'
    BY <1>a, <2>1, <2>3 DEF Newest
  <2>7. QED
    BY <1>a, <2>1, <2>4, <2>5, <2>6
<1>3. CASE Receive
  <2>1. row'.local_seq = local_seq_counter + 1
    BY <1>3, TakeMessage
  <2>2. sub = "recv" /\ sub' = "add" /\ local_seq_counter' = local_seq_counter + 1
        /\ thrown = "none" /\ UNCHANGED <<thrown, rows, total_packets, frame>>
    BY <1>3, <1>b DEF Receive
  <2>3. QED
    BY <1>a, <2>1, <2>2 DEF ModelTyped
<1>4. CASE AddRow
  <2>1. /\ sub = "add" /\ sub' = "count" /\ thrown = "none"
        /\ UNCHANGED <<thrown, local_seq_counter, total_packets, frame>>
    BY <1>4, <1>b DEF AddRow
  <2>2. /\ Len(rows') = IF local_seq_counter < MaxRows THEN local_seq_counter ELSE MaxRows
        /\ Len(rows') > 0 /\ Len(rows') <= Len(rows) + 1
        /\ rows'[1] = row
        /\ \A i \in 2..Len(rows') : rows'[i] = rows[i - 1]
    BY <1>4, AddRowRows
  <2>3. \A i \in 1..Len(rows') : rows'[i].local_seq = local_seq_counter + 1 - i
    <3> SUFFICES ASSUME NEW i \in 1..Len(rows') PROVE rows'[i].local_seq = local_seq_counter + 1 - i
      OBVIOUS
    <3>1. CASE i = 1
      BY <1>a, <2>1, <2>2, <3>1 DEF ModelTyped
    <3>2. CASE i # 1
      <4>1. Len(rows') \in Nat /\ i \in 2..Len(rows') /\ i - 1 \in 1..Len(rows)
        BY <1>a, <2>2, <3>2, SubscriberAssumption DEF ModelTyped
      <4>2. rows[i - 1].local_seq = local_seq_counter - 1 + 1 - (i - 1)
        BY <1>a, <2>1, <4>1
      <4>3. local_seq_counter - 1 + 1 - (i - 1) = local_seq_counter + 1 - i
        BY <1>a DEF ModelTyped
      <4>4. rows'[i] = rows[i - 1]
        BY <2>2, <4>1
      <4>5. QED
        BY <4>2, <4>3, <4>4
    <3>3. QED
      BY <3>1, <3>2
  <2>4. QED
    BY <1>a, <2>1, <2>2, <2>3 DEF ModelTyped
<1>5. CASE CountTotal
  BY <1>5, <1>a DEF CountTotal, ModelTyped
<1>6. CASE RenderRows
  <2>1. frame'.newest = Newest /\ frame'.complete = FALSE /\ UNCHANGED <<sub, mishaps, row, model>>
    BY <1>6, <1>a, NewestIsFirst DEF RenderRows
  <2>2. Newest <= Newest
    BY NewestIsFirst
  <2>3. QED
    BY <1>a, <2>1, <2>2
<1>7. CASE RenderTotal
  <2>1. frame'.newest = frame.newest /\ frame'.total = total_packets /\ frame'.later = Newest
    BY <1>7, NewestIsFirst DEF RenderTotal, ModelTyped
  <2>2. UNCHANGED <<running, sub, mishaps, row, model>>
    BY <1>7 DEF RenderTotal
  <2>3. Newest <= total_packets + 1 /\ total_packets <= Newest
    BY <1>a DEF ModelTyped
  <2>4. frame.newest <= total_packets + 1
    <3>1. frame.newest \in Nat /\ frame.newest <= Newest /\ Newest \in Int /\ total_packets \in Nat
      BY <1>a DEF ModelTyped
    <3> HIDE DEF Newest
    <3>2. QED
      BY <2>3, <3>1
  <2>5. ScreenAgrees'
    BY <2>1, <2>3, <2>4
  <2>6. QED
    BY <1>a, <2>1, <2>2, <2>5
<1>8. CASE UNCHANGED vars
  BY <1>8, <1>a DEF vars
<1>9. QED
  BY <1>1, <1>2, <1>c, <1>d, <1>3, <1>4, <1>5, <1>6, <1>7, <1>8 DEF Next, Thread, Proceed, Mishap, Ended

LEMMA BatchesStep == Typed /\ Batches /\ [Next]_vars => BatchTyped' /\ Batches'
<1> SUFFICES ASSUME Typed, Batches, [Next]_vars PROVE BatchTyped' /\ Batches'
  OBVIOUS
<1>a. BatchTyped /\ local_seq_counter \in Nat /\ Batch \in Nat /\ Batch > 1
  BY SubscriberAssumption DEF Typed, ModelTyped
<1>b. sub \in {"top", "recv", "add", "count"} => thrown = "none"
  BY DEF Typed, ModelTyped
<1>1. ASSUME CountBatch(local_seq_counter + 1), thrown = "none"
      PROVE  /\ BatchTyped' /\ RateOfBatch'
             /\ local_seq_counter' = local_seq_counter + 1 /\ thrown' = "none" => Batches'
  <2> DEFINE n == local_seq_counter
  <2>2. (n + 1) % Batch = IF batch_count + 1 < Batch THEN batch_count + 1 ELSE 0
    BY <1>1, <1>a, NextRemainder DEF Batches
  <2>3. CASE batch_count + 1 < Batch
    <3>1. /\ batch_count' = batch_count + 1
          /\ batch_start' = IF batch_count + 1 = 1 THEN n + 1 ELSE batch_start
          /\ last_batch_rate' = last_batch_rate
      BY <1>1, <1>a, <2>3 DEF CountBatch, BatchTyped
    <3>2. (n + 1) % Batch = batch_count'
      BY <2>2, <2>3, <3>1
    <3>3. batch_start' = (n + 1) - batch_count' + 1
      BY <1>1, <1>a, <3>1 DEF Batches, BatchTyped
    <3>4. BatchTyped' /\ RateOfBatch'
      BY <1>a, <2>3, <3>1 DEF Batches, BatchTyped, RateOfBatch
    <3>5. QED
      BY <3>2, <3>3, <3>4 DEF Batches
  <2>4. CASE ~(batch_count + 1 < Batch)
    <3>1. /\ batch_count' = 0
          /\ batch_start' = n + 1
          /\ last_batch_rate' \in {last_batch_rate, [from |-> batch_start, to |-> n + 1]}
      BY <1>1, <1>a, <2>4 DEF CountBatch, BatchTyped
    <3>2. (n + 1) % Batch = 0
      BY <2>2, <2>4
    <3>3. batch_start = (n + 1) - Batch + 1
      <4>1. batch_count = Batch - 1 /\ batch_count > 0
        BY <1>a, <2>4 DEF BatchTyped
      <4>2. QED
        BY <1>1, <1>a, <4>1 DEF Batches
    <3>4. BatchTyped' /\ RateOfBatch'
      BY <1>a, <3>1, <3>2, <3>3 DEF Batches, BatchTyped, RateOfBatch
    <3>5. QED
      BY <1>a, <3>1, <3>2, <3>4 DEF Batches
  <2>5. QED
    BY <2>3, <2>4
<1>3. CASE Receive
  BY <1>3, <1>b, <1>1 DEF Receive
<1>4. CASE ThrowInReceive
  <2>1. thrown = "none" /\ thrown' # "none"
    BY <1>4, <1>b DEF ThrowInReceive
  <2>2. CASE UNCHANGED batch
    BY <1>a, <2>1, <2>2 DEF Batches, BatchTyped, RateOfBatch
  <2>3. CASE CountBatch(local_seq_counter + 1)
    BY <1>1, <2>1, <2>3 DEF Batches
  <2>4. QED
    BY <1>4, <2>2, <2>3 DEF ThrowInReceive
<1>2. CASE UNCHANGED <<local_seq_counter, batch>> /\ (thrown' = "none" => thrown = "none")
  BY <1>2, <1>a DEF Batches, BatchTyped, RateOfBatch
<1>5. QED
  BY <1>2, <1>3, <1>4, RelaySteps
     DEF Next, Thread, Proceed, Mishap, SkipStray, Throw, LoopTest, ReceiveTimeout, AddRow, CountTotal, RenderRows,
         RenderTotal, Quit, Ended, vars

(***************************************************************************)
(* Ids and gaps.                                                           *)
(***************************************************************************)

\* GapsFlagged, said row by row.
LEMMA FlaggedByRow == GapsFlagged <=> \A i \in 1..(Len(rows) - 1) : Follows(Taken, rows[i], rows[i + 1])
BY DEF GapsFlagged, Follows

\* An id that is taken after a row's message does not count for its gap.
LEMMA FollowsGrows ==
  ASSUME NEW T, NEW r \in Row, NEW o \in Row, NEW n \in Msg, Before(Shown(r), n), Follows(T, r, o)
  PROVE  Follows(T \cup {n}, r, o)
<1>1. ~(n.session = r.session /\ n.id < r.remote_msg_id)
  BY DEF Before, Shown, Row, Msg
<1>2. QED
  BY <1>1 DEF Follows

\* A row is flagged when the id before its own is not that of the row before.
LEMMA GapIsTaken ==
  ASSUME NEW T, T \subseteq Msg, NEW r \in Row, NEW o \in Row, Shown(r) \in T,
         \A m \in T : \A i \in 1..m.id : [session |-> m.session, id |-> i] \in T,
         Before(Shown(o), Shown(r)),
         r.gap <=> r.remote_msg_id # o.remote_msg_id + 1
  PROVE  Follows(T, r, o)
<1> SUFFICES ASSUME r.session = o.session
             PROVE  /\ o.remote_msg_id < r.remote_msg_id
                    /\ r.gap <=> \E m \in T : /\ m.session = r.session
                                              /\ o.remote_msg_id < m.id /\ m.id < r.remote_msg_id
  BY DEF Follows
<1>1. r.remote_msg_id \in Nat /\ o.remote_msg_id \in Nat /\ o.remote_msg_id < r.remote_msg_id
  BY DEF Before, Shown, Row
<1>2. ASSUME r.remote_msg_id # o.remote_msg_id + 1
      PROVE  \E m \in T : m.session = r.session /\ o.remote_msg_id < m.id /\ m.id < r.remote_msg_id
  <2>1. o.remote_msg_id + 1 \in 1..r.remote_msg_id /\ o.remote_msg_id + 1 < r.remote_msg_id
    BY <1>1, <1>2
  <2>2. [session |-> r.session, id |-> o.remote_msg_id + 1] \in T
    BY <2>1 DEF Shown
  <2>3. o.remote_msg_id < o.remote_msg_id + 1
    BY <1>1
  <2>4. QED
    BY <2>1, <2>2, <2>3
<1>3. ASSUME NEW m \in T, o.remote_msg_id < m.id, m.id < r.remote_msg_id
      PROVE  r.remote_msg_id # o.remote_msg_id + 1
  BY <1>1, <1>3 DEF Msg
<1>4. QED
  BY <1>1, <1>2, <1>3

LEMMA TakenTyped == Typed => Taken \subseteq Msg /\ Source!Message \in Msg
<1> SUFFICES ASSUME Typed PROVE Taken \subseteq Msg /\ Source!Message \in Msg
  OBVIOUS
<1>1. wire \in Seq(Msg) /\ skipped \subseteq Msg
  BY DEF Typed, RelayTyped
<1>2. \A i \in 1..Len(wire) : wire[i] \in Msg
  BY <1>1, ElementOfSeq
<1>3. Source!Message \in Msg
  BY DEF Typed, RelayTyped, Source!Message, Msg
<1>4. QED
  BY <1>1, <1>2, <1>3 DEF Taken

LEMMA Taking ==
  ASSUME Typed, PublishMessage
  PROVE  /\ Taken' = Taken \cup {Source!Message}
         /\ session' = session /\ next_message_id' = next_message_id + 1
         /\ pipe' \in {pipe, Append(pipe, Source!Message)}
<1>1. wire \in Seq(Msg) /\ Len(wire) \in Nat /\ Source!Message \in Msg
  BY TakenTyped, LenProperties DEF Typed, RelayTyped
<1>2. CASE Source!Send /\ pipe' \in {pipe, Append(pipe, Source!Message)} /\ UNCHANGED skipped
  <2>1. wire' = Append(wire, Source!Message)
    BY <1>2 DEF Source!Send
  <2>2. /\ Len(wire') = Len(wire) + 1
        /\ \A i \in 1..Len(wire) : wire'[i] = wire[i]
        /\ wire'[Len(wire) + 1] = Source!Message
    BY <1>1, <2>1, AppendProperties
  <2>3. {wire'[i] : i \in 1..Len(wire')} = {wire[i] : i \in 1..Len(wire)} \cup {Source!Message}
    <3>1. 1..Len(wire') = 1..Len(wire) \cup {Len(wire) + 1}
      BY <1>1, <2>2
    <3>2. QED
      BY <2>2, <3>1
  <2>4. QED
    BY <1>2, <2>3 DEF Source!Send, Source!TakeId, Taken
<1>3. CASE Source!SkipId /\ skipped' = skipped \cup {Source!Message} /\ UNCHANGED pipe
  BY <1>3 DEF Source!SkipId, Source!TakeId, Taken
<1>4. QED
  BY <1>2, <1>3 DEF PublishMessage

\* What is before the relay's next message stays before it.
LEMMA NextIsLater ==
  ASSUME Typed, [Next]_vars, NEW m, m.session \in Nat, m.id \in Nat, Before(m, Source!Message)
  PROVE  Before(m, Source!Message')
<1>a. session \in Nat /\ next_message_id \in Nat \ {0}
  BY DEF Typed, RelayTyped
<1>1. \/ session' = session /\ next_message_id' = next_message_id
      \/ session' = session /\ next_message_id' = next_message_id + 1
      \/ session' = session + 1
  BY Taking DEF Next, Thread, Proceed, Mishap, Reload, Source!Load, LoopTest, ReceiveTimeout, SkipStray, Throw,
     ThrowInReceive, Receive, AddRow, CountTotal, RenderRows, RenderTotal, Quit, Ended, vars
<1>2. Source!Message = [session |-> session, id |-> next_message_id]
      /\ Source!Message' = [session |-> session', id |-> next_message_id']
  BY DEF Source!Message
<1>3. QED
  BY <1>a, <1>1, <1>2 DEF Before

LEMMA NumberedStep == Typed /\ Numbered /\ [Next]_vars => Numbered'
<1> SUFFICES ASSUME Typed, Numbered, [Next]_vars PROVE Numbered'
  OBVIOUS
<1>a. session \in Nat /\ next_message_id \in Nat \ {0} /\ Taken \subseteq Msg /\ Numbered
  BY TakenTyped DEF Typed, RelayTyped
<1>1. CASE PublishMessage
  <2>1. /\ Taken' = Taken \cup {Source!Message}
        /\ session' = session /\ next_message_id' = next_message_id + 1
    BY <1>1, Taking
  <2>2. \A m \in Taken' : Before(m, Source!Message')
    <3>1. \A m \in Taken : Before(m, Source!Message')
      BY <1>a, NextIsLater DEF Numbered, Msg
    <3>2. Before(Source!Message, Source!Message')
      BY <1>a, <2>1 DEF Before, Source!Message
    <3>3. QED
      BY <2>1, <3>1, <3>2
  <2>3. \A i \in 1..next_message_id : [session |-> session, id |-> i] \in Taken'
    BY <1>a, <2>1 DEF Numbered, Source!Message
  <2>4. \A m \in Taken' : \A i \in 1..m.id : [session |-> m.session, id |-> i] \in Taken'
    <3>1. \A m \in Taken : \A i \in 1..m.id : [session |-> m.session, id |-> i] \in Taken'
      BY <1>a, <2>1 DEF Numbered
    <3>2. Source!Message.session = session /\ Source!Message.id = next_message_id
      BY DEF Source!Message
    <3>3. QED
      BY <2>1, <2>3, <3>1, <3>2
  <2>5. next_message_id' - 1 = next_message_id
    BY <1>a, <2>1
  <2>6. QED
    BY <2>1, <2>2, <2>3, <2>4, <2>5 DEF Numbered
<1>2. CASE Reload
  <2>1. session' = session + 1 /\ next_message_id' = 1 /\ Taken' = Taken
    BY <1>2 DEF Reload, Source!Load, Taken
  <2>2. \A m \in Taken' : Before(m, Source!Message')
    BY <1>a, <2>1, NextIsLater DEF Numbered, Msg
  <2>3. 1..(next_message_id' - 1) = {}
    BY <2>1
  <2>4. QED
    BY <1>a, <2>1, <2>2, <2>3 DEF Numbered
<1>3. CASE UNCHANGED relay
  BY <1>3, <1>a DEF Numbered, Taken, Source!Message
<1>4. QED
  BY <1>1, <1>2, <1>3
     DEF Next, Thread, Proceed, Mishap, SkipStray, Throw, ThrowInReceive, LoopTest, ReceiveTimeout, Receive, AddRow,
         CountTotal, RenderRows, RenderTotal, Quit, Ended, vars

LEMMA InOrderStep == Typed /\ Numbered /\ InOrder /\ [Next]_vars => InOrder'
<1> SUFFICES ASSUME Typed, Numbered, InOrder, [Next]_vars PROVE InOrder'
  OBVIOUS
<1>a. pipe \in Seq(Msg) /\ Len(pipe) \in Nat /\ Source!Message \in Msg /\ InOrder
  BY TakenTyped, LenProperties DEF Typed, RelayTyped
<1>1. CASE PublishMessage
  <2>1. Taken' = Taken \cup {Source!Message}
    BY <1>1, Taking
  <2>2. CASE pipe' = pipe
    BY <1>a, <2>1, <2>2 DEF InOrder
  <2>3. CASE pipe' = Append(pipe, Source!Message)
    <3>1. /\ Len(pipe') = Len(pipe) + 1
          /\ \A i \in 1..Len(pipe) : pipe'[i] = pipe[i]
          /\ pipe'[Len(pipe) + 1] = Source!Message
      BY <1>a, <2>3, AppendProperties
    <3>2. \A i \in 1..Len(pipe) : Before(pipe[i], Source!Message)
      BY <1>a DEF InOrder, Numbered
    <3>3. \A i \in 1..Len(pipe') : pipe'[i] \in Taken'
      BY <1>a, <2>1, <3>1 DEF InOrder
    <3>4. ASSUME NEW i \in 1..Len(pipe'), NEW j \in 1..Len(pipe'), i < j
          PROVE  Before(pipe'[i], pipe'[j])
      <4>1. i \in 1..Len(pipe)
        BY <1>a, <3>1, <3>4
      <4>2. CASE j \in 1..Len(pipe)
        BY <1>a, <3>1, <3>4, <4>1, <4>2 DEF InOrder
      <4>3. CASE j = Len(pipe) + 1
        BY <3>1, <3>2, <4>1, <4>3
      <4>4. QED
        BY <1>a, <3>1, <4>2, <4>3
    <3>5. QED
      BY <3>3, <3>4 DEF InOrder
  <2>4. QED
    BY <1>1, <2>2, <2>3, Taking
<1>2. CASE Reload
  <2>1. PICK n \in 0..Len(pipe) : pipe' = SubSeq(pipe, 1, n)
    BY <1>2 DEF Reload
  <2>2. n \in Nat /\ n <= Len(pipe)
    BY <1>a
  <2>3. Len(pipe') = n /\ \A i \in 1..n : pipe'[i] = pipe[i]
    BY <1>a, <2>1, <2>2, ElementOfSeq, SubSeqProperties
  <2>4. Taken' = Taken
    BY <1>2 DEF Reload, Source!Load, Taken
  <2>5. 1..n \subseteq 1..Len(pipe)
    BY <1>a, <2>2
  <2>6. QED
    BY <1>a, <2>3, <2>4, <2>5 DEF InOrder
<1>3. CASE Receive \/ ThrowInReceive
  <2>1. pipe' = Tail(pipe) /\ pipe # <<>> /\ Taken' = Taken
    BY <1>3 DEF Receive, ThrowInReceive, Taken
  <2>2. Len(pipe') = Len(pipe) - 1 /\ \A i \in 1..Len(pipe') : pipe'[i] = pipe[i + 1]
    BY <1>a, <2>1, HeadTailProperties
  <2>3. \A i \in 1..Len(pipe') : i \in 1..Len(pipe) /\ i + 1 \in 1..Len(pipe)
    BY <1>a, <2>2
  <2>4. ASSUME NEW i \in 1..Len(pipe'), NEW j \in 1..Len(pipe'), i < j
        PROVE  Before(pipe'[i], pipe'[j])
    <3>1. i + 1 < j + 1
      BY <2>4
    <3>2. QED
      BY <1>a, <2>2, <2>3, <3>1 DEF InOrder
  <2>5. QED
    BY <1>a, <2>1, <2>2, <2>3, <2>4 DEF InOrder
<1>4. CASE UNCHANGED <<relay, pipe>>
  BY <1>4, <1>a DEF InOrder, Taken
<1>5. QED
  BY <1>1, <1>2, <1>3, <1>4
     DEF Next, Thread, Proceed, Mishap, SkipStray, Throw, LoopTest, ReceiveTimeout, AddRow, CountTotal, RenderRows, RenderTotal, Quit, Ended, vars

LEMMA ReceivedTyped ==
  ASSUME Typed, Numbering, Received
  PROVE  /\ pipe \in Seq(Msg) /\ Len(pipe) \in Nat
         /\ \A i \in 1..Len(pipe) : pipe[i] \in Msg
         /\ Source!Message \in Msg /\ Taken \subseteq Msg
         /\ Len(rows) \in Nat
         /\ \A i \in 1..Len(rows) : rows[i] \in Row
         /\ row \in Row
         /\ local_seq_counter \in Nat /\ last_remote_msg_id \in Nat
         /\ local_seq_counter > 0 /\ ~RowMissing => 1 \in 1..Len(rows)
         /\ rows # <<>> => local_seq_counter > 0 /\ 1 \in 1..Len(rows)
         /\ local_seq_counter > 0 /\ thrown = "none" => Before(Latest, Source!Message)
         /\ sub \in {"top", "recv", "add", "count"} => thrown = "none"
<1>1. /\ pipe \in Seq(Msg) /\ Len(pipe) \in Nat
      /\ Source!Message \in Msg /\ Taken \subseteq Msg
      /\ rows \in Seq(Row) /\ Len(rows) \in Nat /\ row \in Row
      /\ local_seq_counter \in Nat /\ last_remote_msg_id \in Nat
  BY TakenTyped, LenProperties DEF Typed, RelayTyped, ModelTyped
<1>2. (\A i \in 1..Len(pipe) : pipe[i] \in Msg) /\ (\A i \in 1..Len(rows) : rows[i] \in Row)
  BY <1>1, ElementOfSeq
<1>3. local_seq_counter > 0 /\ ~RowMissing => 1 \in 1..Len(rows)
  BY <1>1, SubscriberAssumption DEF Numbering, RowsAreNewest
<1>4. rows # <<>> => 1 \in 1..Len(rows)
  BY <1>1, EmptySeq
<1>5. rows # <<>> => local_seq_counter > 0
  <2> SUFFICES ASSUME rows # <<>>, local_seq_counter = 0 PROVE FALSE
    BY <1>1
  <2>1. ~RowMissing /\ Len(rows) > 0
    BY <1>1, <1>4 DEF Numbering
  <2>2. Len(rows) = IF 0 < MaxRows THEN 0 ELSE MaxRows
    BY <2>1 DEF Numbering, RowsAreNewest
  <2>3. QED
    BY <2>1, <2>2, SubscriberAssumption
<1>6. local_seq_counter > 0 /\ thrown = "none" => Before(Latest, Source!Message)
  BY <1>3 DEF Received, Latest
<1>8. sub \in {"top", "recv", "add", "count"} => thrown = "none"
  BY DEF Typed, ModelTyped
<1>7. QED
  BY <1>1, <1>2, <1>3, <1>4, <1>5, <1>6, <1>8

LEMMA ShownTyped == \A r \in Row : Shown(r).session \in Nat /\ Shown(r).id \in Nat
BY DEF Shown, Row

\* Received when the relay moves.
LEMMA ReceivedRelay ==
  ASSUME Typed, Numbering, Numbered, InOrder, Received, [Next]_vars, PublishMessage \/ Reload
  PROVE  Received'
<1>a. UNCHANGED <<sub, thrown, row, rows, local_seq_counter, last_remote_msg_id>> /\ Latest' = Latest
  BY RelaySteps DEF Latest, Shown
<1>1. Taken' = Taken \/ Taken' = Taken \cup {Source!Message}
  BY Taking DEF Reload, Source!Load, Taken
<1>2. \A i \in 1..Len(pipe') : pipe'[i] = Source!Message \/ \E j \in 1..Len(pipe) : pipe'[i] = pipe[j]
  <2>1. CASE PublishMessage
    <3>1. pipe' = pipe \/ pipe' = Append(pipe, Source!Message)
      BY <2>1, Taking
    <3>2. QED
      BY <3>1, ReceivedTyped, AppendProperties
  <2>2. CASE Reload
    <3>1. PICK n \in 0..Len(pipe) : pipe' = SubSeq(pipe, 1, n)
      BY <2>2 DEF Reload
    <3>2. n \in Nat /\ n <= Len(pipe)
      BY ReceivedTyped
    <3>3. Len(pipe') = n /\ \A i \in 1..n : pipe'[i] = pipe[i]
      BY <3>1, <3>2, ReceivedTyped, SubSeqProperties
    <3>4. QED
      BY <3>2, <3>3, ReceivedTyped
  <2>3. QED
    BY <2>1, <2>2
<1>3. local_seq_counter > 0 /\ thrown = "none" => \A i \in 1..Len(pipe') : Before(Latest, pipe'[i])
  BY <1>2, ReceivedTyped DEF Received
<1>4. \A i \in 1..Len(rows) : Before(Shown(rows[i]), Source!Message')
  BY ReceivedTyped, ShownTyped, NextIsLater DEF Received
<1>5. sub = "add" => Before(Shown(row), Source!Message')
  BY ReceivedTyped, ShownTyped, NextIsLater DEF Received
<1>6. \A i \in 1..(Len(rows) - 1) : Follows(Taken', rows[i], rows[i + 1])
  <2> SUFFICES ASSUME NEW i \in 1..(Len(rows) - 1) PROVE Follows(Taken', rows[i], rows[i + 1])
    OBVIOUS
  <2>1. i \in 1..Len(rows) /\ i + 1 \in 1..Len(rows)
    BY ReceivedTyped
  <2>2. /\ rows[i] \in Row /\ rows[i + 1] \in Row /\ Before(Shown(rows[i]), Source!Message)
        /\ Follows(Taken, rows[i], rows[i + 1])
    BY <2>1, ReceivedTyped, FlaggedByRow DEF Received
  <2>3. QED
    BY <1>1, <2>2, ReceivedTyped, FollowsGrows
<1>7. sub = "add" /\ rows # <<>> => Follows(Taken', row, rows[1])
  BY <1>1, ReceivedTyped, FollowsGrows DEF Received
<1>8. GapsFlagged'
  BY <1>a, <1>6 DEF GapsFlagged, Follows
<1>9. QED
  BY <1>a, <1>3, <1>4, <1>5, <1>7, <1>8 DEF Received

\* Received when a message is received: its row follows the newest row.
LEMMA ReceivedReceive ==
  ASSUME Typed, Numbering, Numbered, InOrder, Received, Receive
  PROVE  Received'
<1> DEFINE m == Head(pipe)
<1>a. /\ sub = "recv" /\ sub' = "add" /\ pipe # <<>> /\ pipe' = Tail(pipe) /\ thrown = "none"
      /\ UNCHANGED <<relay, rows>> /\ Taken' = Taken /\ Source!Message' = Source!Message
  BY ReceivedTyped DEF Receive, Taken, Source!Message
<1>b. /\ m \in Msg /\ m = pipe[1] /\ row' \in Row /\ Shown(row') = m /\ row'.gap = Gap(m.id)
      /\ last_remote_msg_id' = m.id /\ local_seq_counter' = local_seq_counter + 1
  BY TakeMessage
<1>1. 1 \in 1..Len(pipe) /\ m \in Taken /\ Before(m, Source!Message)
  BY <1>a, <1>b, ReceivedTyped, EmptySeq DEF InOrder, Numbered
<1>2. Latest' = m
  BY <1>a, <1>b DEF Latest, Shown
<1>3. \A i \in 1..Len(pipe') : Before(m, pipe'[i])
  <2>1. Len(pipe') = Len(pipe) - 1 /\ \A i \in 1..Len(pipe') : pipe'[i] = pipe[i + 1]
    BY <1>a, ReceivedTyped, HeadTailProperties
  <2>2. \A i \in 1..Len(pipe') : i + 1 \in 1..Len(pipe) /\ 1 < i + 1
    BY <2>1, ReceivedTyped
  <2>3. QED
    BY <1>b, <1>1, <2>1, <2>2 DEF InOrder
<1>4. rows # <<>> => Follows(Taken, row', rows[1])
  <2> SUFFICES ASSUME rows # <<>> PROVE Follows(Taken, row', rows[1])
    OBVIOUS
  <2>1. rows[1] \in Row /\ local_seq_counter > 0 /\ Latest = Shown(rows[1])
    BY <1>a, ReceivedTyped DEF Latest
  <2>2. last_remote_msg_id = rows[1].remote_msg_id /\ last_remote_msg_id > 0
    BY <1>a, <2>1 DEF Received, Shown
  <2>3. Before(Shown(rows[1]), Shown(row'))
    BY <1>a, <1>b, <1>1, <2>1 DEF Received
  <2>4. row'.remote_msg_id = m.id /\ m.id # 0
    BY <1>b DEF Shown, Msg
  <2>5. row'.gap <=> row'.remote_msg_id # rows[1].remote_msg_id + 1
    <3>1. last_remote_msg_id # 0
      BY <2>2
    <3>2. Gap(m.id) <=> m.id # rows[1].remote_msg_id + 1
      BY <2>2, <2>4, <3>1 DEF Gap
    <3>3. QED
      BY <1>b, <2>4, <3>2, Zenon
  <2>6. QED
    BY <1>b, <1>1, <2>1, <2>3, <2>5, ReceivedTyped, GapIsTaken DEF Numbered
<1>5. GapsFlagged'
  BY <1>a DEF GapsFlagged, Received
<1>6. local_seq_counter' > 0 /\ last_remote_msg_id' > 0
  BY <1>b, ReceivedTyped DEF Msg
<1>7. QED
  BY <1>a, <1>b, <1>1, <1>2, <1>3, <1>4, <1>5, <1>6 DEF Received

\* Received when the row is added.
LEMMA ReceivedAdd ==
  ASSUME Typed, Numbering, Received, AddRow
  PROVE  Received'
<1>a. /\ sub = "add" /\ sub' = "count" /\ thrown = "none" /\ Taken' = Taken /\ Source!Message' = Source!Message
      /\ UNCHANGED <<relay, pipe, row, local_seq_counter, last_remote_msg_id>>
  BY ReceivedTyped DEF AddRow, Taken, Source!Message
<1>b. /\ Len(rows') \in Nat /\ Len(rows') > 0 /\ Len(rows') <= Len(rows) + 1
      /\ rows'[1] = row
      /\ \A i \in 2..Len(rows') : rows'[i] = rows[i - 1]
  BY AddRowRows, LenProperties
<1>1. Latest' = Latest
  BY <1>a, <1>b DEF Latest, Shown
<1>2. \A i \in 1..Len(rows') : Before(Shown(rows'[i]), Source!Message)
  <2> SUFFICES ASSUME NEW i \in 1..Len(rows') PROVE Before(Shown(rows'[i]), Source!Message)
    OBVIOUS
  <2>1. CASE i = 1
    BY <1>a, <1>b, <2>1 DEF Received
  <2>2. CASE i \in 2..Len(rows')
    <3>1. i - 1 \in 1..Len(rows) /\ rows'[i] = rows[i - 1]
      BY <1>b, <2>2, ReceivedTyped
    <3>2. QED
      BY <3>1 DEF Received
  <2>3. QED
    BY <1>b, <2>1, <2>2
<1>3. \A i \in 1..(Len(rows') - 1) : Follows(Taken, rows'[i], rows'[i + 1])
  <2> SUFFICES ASSUME NEW i \in 1..(Len(rows') - 1) PROVE Follows(Taken, rows'[i], rows'[i + 1])
    OBVIOUS
  <2>1. i + 1 \in 2..Len(rows') /\ i + 1 - 1 = i /\ i \in 1..Len(rows)
    BY <1>b, ReceivedTyped
  <2>2. rows'[i + 1] = rows[i]
    BY <1>b, <2>1
  <2>3. CASE i = 1
    <3>1. rows # <<>>
      BY <2>1, ReceivedTyped, EmptySeq
    <3>2. QED
      BY <1>a, <1>b, <2>2, <2>3, <3>1 DEF Received
  <2>4. CASE i # 1
    <3>1. i \in 2..Len(rows') /\ i - 1 \in 1..(Len(rows) - 1) /\ i - 1 + 1 = i
      BY <1>b, <2>1, <2>4, ReceivedTyped
    <3>2. Follows(Taken, rows[i - 1], rows[i - 1 + 1]) /\ rows'[i] = rows[i - 1]
      BY <1>b, <3>1, FlaggedByRow DEF Received
    <3>3. QED
      BY <2>2, <3>1, <3>2
  <2>5. QED
    BY <2>3, <2>4
<1>4. GapsFlagged'
  BY <1>a, <1>3 DEF GapsFlagged, Follows
<1>5. QED
  BY <1>a, <1>1, <1>2, <1>4 DEF Received

LEMMA ReceivedStep ==
  Typed /\ Numbering /\ Numbered /\ InOrder /\ Received /\ [Next]_vars => Received'
<1> SUFFICES ASSUME Typed, Numbering, Numbered, InOrder, Received, [Next]_vars PROVE Received'
  OBVIOUS
<1>1. CASE PublishMessage \/ Reload
  BY <1>1, ReceivedRelay
<1>2. CASE Receive
  BY <1>2, ReceivedReceive
<1>3. CASE AddRow
  BY <1>3, ReceivedAdd
<1>4. CASE UNCHANGED <<relay, pipe, row, rows, local_seq_counter, last_remote_msg_id, thrown>>
           /\ (sub = "add" <=> sub' = "add")
  <2>1. Taken' = Taken /\ Source!Message' = Source!Message /\ Latest' = Latest /\ (GapsFlagged' <=> GapsFlagged)
    BY <1>4 DEF Taken, Source!Message, Latest, Shown, GapsFlagged
  <2>2. QED
    BY <1>4, <2>1 DEF Received
<1>5. CASE Throw \/ ThrowInReceive
  <2>1. /\ UNCHANGED <<relay, row, rows, last_remote_msg_id>> /\ sub' = "ended" /\ thrown' # "none"
        /\ local_seq_counter' \in {local_seq_counter, local_seq_counter + 1}
    BY <1>5 DEF Throw, ThrowInReceive
  <2>2. Taken' = Taken /\ Source!Message' = Source!Message /\ (GapsFlagged' <=> GapsFlagged)
    BY <2>1 DEF Taken, Source!Message, GapsFlagged
  <2>3. local_seq_counter' = 0 => local_seq_counter = 0
    BY <2>1, ReceivedTyped
  <2>4. QED
    BY <2>1, <2>2, <2>3 DEF Received
<1>6. QED
  BY <1>1, <1>2, <1>3, <1>4, <1>5
     DEF Next, Thread, Proceed, Mishap, SkipStray, LoopTest, ReceiveTimeout, CountTotal, RenderRows, RenderTotal, Quit,
         Ended, vars

(***************************************************************************)
(* The theorems.                                                           *)
(***************************************************************************)

IInv == Typed /\ Numbering /\ Batches /\ Numbered /\ InOrder /\ Received

LEMMA InitStream == Init => Numbered /\ InOrder /\ Received
<1> SUFFICES ASSUME Init PROVE Numbered /\ InOrder /\ Received
  OBVIOUS
<1>1. /\ wire = <<>> /\ skipped = {} /\ pipe = <<>> /\ rows = <<>> /\ sub = "top"
      /\ next_message_id = 1 /\ local_seq_counter = 0 /\ last_remote_msg_id = 0
  BY DEF Init, Source!Init
<1>2. Taken = {}
  BY <1>1 DEF Taken
<1>3. 1..Len(pipe) = {} /\ 1..Len(rows) = {} /\ 1..(Len(rows) - 1) = {} /\ 1..(next_message_id - 1) = {}
  BY <1>1
<1>4. GapsFlagged
  BY <1>3 DEF GapsFlagged
<1>5. ~(local_seq_counter > 0)
  BY <1>1
<1>6. QED
  BY <1>1, <1>2, <1>3, <1>4, <1>5 DEF Numbered, InOrder, Received

\* What holds in every state of the relay, the wire, the thread and the
\* renderer together: the ids, the rows, the batch and the screen.
THEOREM InductiveInvariant == Spec => []IInv
<1>1. Init => IInv
  BY InitTyped, InitStream DEF IInv
<1>2. IInv /\ [Next]_vars => IInv'
  BY RelayTypedStep, ModelTypedStep, NumberingStep, BatchesStep, NumberedStep, InOrderStep, ReceivedStep
     DEF IInv, Typed
<1>3. QED
  BY <1>1, <1>2, PTL DEF Spec

\* emplace_front and pop_back keep the newest max_rows rows, numbered without a
\* hole, for every max_rows.
THEOREM AlwaysRowsAreNewest == Spec => []RowsAreNewest
<1>1. IInv => RowsAreNewest
  BY DEF IInv, Numbering
<1>2. QED
  BY <1>1, InductiveInvariant, PTL

\* The GAP of a row is right between any two rows of a session, for every
\* number of messages, sessions and rows, and whatever the PUB socket drops.
THEOREM AlwaysGapsFlagged == Spec => []GapsFlagged
<1>1. IInv => GapsFlagged
  BY DEF IInv, Received
<1>2. QED
  BY <1>1, InductiveInvariant, PTL

\* The rate is that of a whole batch, for every size of a batch.
THEOREM AlwaysRateOfBatch == Spec => []RateOfBatch
<1>1. IInv => RateOfBatch
  BY DEF IInv, Batches
<1>2. QED
  BY <1>1, InductiveInvariant, PTL

\* Of what the renderer reads in two steps, the total is at least the rows but
\* one, and at most the rows as they are when it is read.
THEOREM AlwaysScreenAgrees == Spec => []ScreenAgrees
<1>1. IInv => ScreenAgrees
  BY DEF IInv, Numbering
<1>2. QED
  BY <1>1, InductiveInvariant, PTL

=============================================================================
