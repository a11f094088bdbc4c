----------------------- MODULE BufferedRecorderProofs -----------------------
(***************************************************************************)
(* The buffered recorder keeps what it accepted, stays within its memory   *)
(* bound and loses no wake-up, for any number of requests, any capacity    *)
(* and any batch size.                                                     *)
(*                                                                         *)
(* The room's count lags behind the flusher only while the flusher holds a *)
(* batch or delivers, and then by at most a batch (Slack).  Whatever an    *)
(* attempt has passed is stored, counted or among its losses (Handled).    *)
(* What is left in memory at each stage of the shutdown is Phase.          *)
(***************************************************************************)
EXTENDS BufferedRecorder, SequenceTheorems, TLAPS

\* Where the flusher stands and what its own state is there
Phase ==
    /\ stopping => closed
    /\ flusher = "retry" => stopping
    /\ flusher = "flush" => ~stopping
    /\ flusher = "drained" => stopping /\ queue = <<>> /\ batch = <<>> /\ retained = <<>>
    /\ flusher \in {"deliver", "retry"} => batch = <<>> /\ (stopping => queue = <<>>)
    /\ flusher # "deliver" => pos = 0 /\ lost = <<>> /\ room = Len(retained)

\* How far the room's count is behind
Slack ==
    ~stopping => /\ Len(batch) + Len(retained) <= room + BatchSize
                 /\ flusher = "idle" => Len(batch) < BatchSize

\* The events of the attempt so far
Stored == sent \cup outbox \cup dropped
Handled == \A i \in 1..pos : retained[i] \in Stored \cup Range(lost)

Bounds == TypeOK /\ Phase /\ Slack /\ MemoryBounded
BufferInv == Bounds /\ Handled /\ AcceptedIsKept
----------------------------------------------------------------------------
\* Sequences

LEMMA AppendRange ==
    ASSUME NEW S, NEW s \in Seq(S), NEW x \in S
    PROVE  Range(Append(s, x)) = Range(s) \cup {x}
<1>1. /\ Append(s, x) \in Seq(S) /\ Len(Append(s, x)) = Len(s) + 1 /\ Len(s) \in Nat
      /\ \A i \in 1..Len(s) : Append(s, x)[i] = s[i]
      /\ Append(s, x)[Len(s) + 1] = x
  BY AppendProperties
<1>2. Range(Append(s, x)) = {Append(s, x)[i] : i \in 1..(Len(s) + 1)} BY <1>1, RangeEquality
<1>3. Range(s) = {s[i] : i \in 1..Len(s)} BY RangeEquality
<1>4. \A i \in 1..(Len(s) + 1) : i \in 1..Len(s) \/ i = Len(s) + 1 BY <1>1
<1>5. 1..Len(s) \subseteq 1..(Len(s) + 1) /\ Len(s) + 1 \in 1..(Len(s) + 1) BY <1>1
<1> QED BY <1>1, <1>2, <1>3, <1>4, <1>5

LEMMA TailRange ==
    ASSUME NEW S, NEW s \in Seq(S), s # <<>>
    PROVE  Range(s) = Range(Tail(s)) \cup {Head(s)}
<1>1. /\ Tail(s) \in Seq(S) /\ Len(Tail(s)) = Len(s) - 1 /\ Len(s) \in Nat \ {0}
      /\ \A i \in 1..(Len(s) - 1) : Tail(s)[i] = s[i + 1]
      /\ Head(s) = s[1]
  BY HeadTailProperties
<1>2. Range(Tail(s)) = {Tail(s)[i] : i \in 1..(Len(s) - 1)} BY <1>1, RangeEquality
<1>3. Range(s) = {s[i] : i \in 1..Len(s)} BY RangeEquality
<1>4. ASSUME NEW i \in 1..Len(s) PROVE s[i] \in Range(Tail(s)) \cup {Head(s)}
  <2>1. CASE i = 1 BY <1>1, <2>1
  <2>2. CASE i # 1
    <3>1. i - 1 \in 1..(Len(s) - 1) /\ (i - 1) + 1 = i BY <1>1, <2>2
    <3>2. Tail(s)[i - 1] = s[i] BY <1>1, <3>1
    <3> QED BY <1>2, <3>1, <3>2
  <2> QED BY <2>1, <2>2
<1>5. ASSUME NEW i \in 1..(Len(s) - 1) PROVE Tail(s)[i] \in Range(s)
  <2>1. i + 1 \in 1..Len(s) BY <1>1
  <2> QED BY <1>1, <1>3, <2>1
<1>6. Head(s) \in Range(s) BY <1>1, <1>3
<1> QED BY <1>2, <1>3, <1>4, <1>5, <1>6

\* What an attempt that reached position p leaves of s, having lost l
LEMMA FailedProperties ==
    ASSUME NEW S, NEW s \in Seq(S), NEW l \in Seq(S), NEW p \in 0..Len(s), Len(l) <= p
    PROVE  LET f == l \o SubSeq(s, p + 1, Len(s)) IN
            /\ f \in Seq(S) /\ Len(f) <= Len(s)
            /\ f = <<>> => l = <<>> /\ p = Len(s)
            /\ Range(l) \subseteq Range(f)
            /\ \A i \in (p + 1)..Len(s) : s[i] \in Range(f)
<1> DEFINE r == SubSeq(s, p + 1, Len(s))
<1>0. Len(s) \in Nat /\ Len(l) \in Nat /\ \A i \in 1..Len(s) : s[i] \in S OBVIOUS
<1>1. /\ r \in Seq(S) /\ Len(r) = Len(s) - p
      /\ \A i \in 1..(Len(s) - p) : r[i] = s[p + i]
  <2>1. p + 1 \in Int /\ Len(s) \in Int /\ \A i \in (p + 1)..Len(s) : s[i] \in S BY <1>0
  <2>2. /\ SubSeq(s, p + 1, Len(s)) \in Seq(S)
        /\ Len(SubSeq(s, p + 1, Len(s))) = IF p + 1 <= Len(s) THEN Len(s) - (p + 1) + 1 ELSE 0
        /\ \A i \in 1..(Len(s) - (p + 1) + 1) : SubSeq(s, p + 1, Len(s))[i] = s[(p + 1) + i - 1]
    BY <2>1, SubSeqProperties
  <2>3. \A i \in 1..(Len(s) - p) : (p + 1) + i - 1 = p + i BY <1>0
  <2>4. Len(s) - (p + 1) + 1 = Len(s) - p BY <1>0
  <2>5. Len(r) = Len(s) - p
    <3>1. p + 1 <= Len(s) \/ p = Len(s) BY <1>0
    <3> QED BY <1>0, <2>2, <3>1
  <2>6. ASSUME NEW i \in 1..(Len(s) - p) PROVE r[i] = s[p + i]
    <3>1. r[i] = s[(p + 1) + i - 1] BY <2>2, <2>4
    <3> QED BY <3>1, <2>3
  <2> QED BY <2>2, <2>5, <2>6
<1> HIDE DEF r
<1>2. /\ l \o r \in Seq(S) /\ Len(l \o r) = Len(l) + Len(r) BY <1>1, ConcatProperties
<1>3. Range(l \o r) = Range(l) \cup Range(r) BY <1>1, RangeConcatenation
<1>4. ASSUME NEW i \in (p + 1)..Len(s) PROVE s[i] \in Range(r)
  <2>1. i - p \in 1..(Len(s) - p) /\ p + (i - p) = i BY <1>0
  <2>2. r[i - p] = s[i] BY <1>1, <2>1
  <2>3. Range(r) = {r[k] : k \in 1..Len(r)} BY <1>1, RangeEquality
  <2> QED BY <1>1, <2>1, <2>2, <2>3
<1>5. Len(l \o r) <= Len(s) BY <1>0, <1>1, <1>2
<1>6. l \o r = <<>> => l = <<>> /\ p = Len(s)
  <2>1. l \o r = <<>> => Len(l) + Len(r) = 0 BY <1>2
  <2> QED BY <1>0, <1>1, <2>1
<1> QED BY <1>2, <1>3, <1>4, <1>5, <1>6 DEF r
----------------------------------------------------------------------------
LEMMA InitInv == Init => BufferInv
<1> SUFFICES ASSUME Init PROVE BufferInv OBVIOUS
<1>1. TypeOK
  <2>1. queue \in Seq(Events) /\ batch \in Seq(Events) /\ retained \in Seq(Events) /\ lost \in Seq(Events)
    BY DEF Init
  <2>2. room \in Nat /\ pos \in 0..Len(retained) /\ chunk \in 0..BatchSize /\ Len(lost) <= pos /\ faults \in Nat
    BY BufferAssumption DEF Init
  <2>3. caller \in [Events -> {"idle", "full", "waiting"} \cup Answered] BY DEF Init
  <2> QED BY <2>1, <2>2, <2>3 DEF Init, TypeOK
<1>2. Phase /\ Slack /\ MemoryBounded BY BufferAssumption DEF Init, Phase, Slack, MemoryBounded
<1>3. Handled /\ AcceptedIsKept BY DEF Init, Handled, AcceptedIsKept
<1> QED BY <1>1, <1>2, <1>3 DEF BufferInv, Bounds

\* What the step of a request may do: answer, store, or enqueue while there
\* is room and the buffer is open.
Requests(e) == Record(e) \/ WaitForRoom(e) \/ GiveUp(e)

LEMMA RequestSteps ==
    ASSUME TypeOK, NEW e \in Events, Requests(e)
    PROVE  /\ Requested
           /\ sent' \subseteq Events /\ outbox' \subseteq Events /\ dropped' \subseteq Events
           /\ Stored \subseteq Stored'
           /\ faults' \in Nat
           /\ queue' = queue \/ (queue' = Append(queue, e) /\ ~closed /\ HasRoom(queue, room))
           /\ \E a \in {"full", "waiting"} \cup Answered :
                /\ caller' = [caller EXCEPT ![e] = a]
                /\ a = "accepted" => e \in Stored' \/ (queue' = Append(queue, e) /\ ~closed)
                /\ a = "waiting" => queue' = queue /\ ~HasRoom(queue, room)
<1>0. sent \subseteq Events /\ outbox \subseteq Events /\ dropped \subseteq Events /\ faults \in Nat BY DEF TypeOK
<1> DEFINE Goal ==
       /\ sent' \subseteq Events /\ outbox' \subseteq Events /\ dropped' \subseteq Events
       /\ Stored \subseteq Stored'
       /\ faults' \in Nat
       /\ queue' = queue \/ (queue' = Append(queue, e) /\ ~closed /\ HasRoom(queue, room))
       /\ \E a \in {"full", "waiting"} \cup Answered :
            /\ caller' = [caller EXCEPT ![e] = a]
            /\ a = "accepted" => e \in Stored' \/ (queue' = Append(queue, e) /\ ~closed)
            /\ a = "waiting" => queue' = queue /\ ~HasRoom(queue, room)
<1>1. ASSUME RecordThrough(e) PROVE Goal
  BY <1>0, <1>1 DEF RecordThrough, Answer, Answered, Fault, Stored
<1>2. ASSUME Enqueue(e), ~closed, HasRoom(queue, room) PROVE Goal
  BY <1>0, <1>2 DEF Enqueue, Answer, Answered, Stored, stores
<1>3. ASSUME Overflow(e) PROVE Goal
  BY <1>0, <1>3 DEF Overflow, Answer, Answered, Fault, Stored
<1>4. ASSUME NEW a \in {"full", "waiting", "refused"}, Answer(e, a), UNCHANGED <<queue, stores>>, faults' \in Nat,
             a = "waiting" => ~HasRoom(queue, room)
      PROVE  Goal
  BY <1>0, <1>4 DEF Answer, Answered, Stored, stores
<1>5. CASE Record(e) BY <1>0, <1>1, <1>2, <1>3, <1>4, <1>5 DEF Record
<1>6. CASE WaitForRoom(e) BY <1>0, <1>1, <1>2, <1>4, <1>6 DEF WaitForRoom
<1>7. CASE GiveUp(e) BY <1>0, <1>4, <1>7 DEF GiveUp, Fault
<1> QED BY <1>5, <1>6, <1>7 DEF Requests, Record, WaitForRoom, GiveUp

\* Waking changes the callers only from "waiting" to "full".
LEMMA WakeSteps ==
    ASSUME TypeOK, NEW q, NEW r, Wake(q, r) \/ WakeAll
    PROVE  /\ caller' \in [Events -> {"idle", "full", "waiting"} \cup Answered]
           /\ \A e \in Events : caller'[e] = "accepted" <=> caller[e] = "accepted"
<1>1. caller \in [Events -> {"idle", "full", "waiting"} \cup Answered] BY DEF TypeOK
<1>2. CASE WakeAll BY <1>1, <1>2 DEF WakeAll
<1>3. CASE UNCHANGED caller BY <1>1, <1>3
<1> QED BY <1>2, <1>3 DEF Wake
----------------------------------------------------------------------------
\* The bounds: types, phases, the lag of the room's count, the memory.

LEMMA RequestKeepsBounds ==
    ASSUME Bounds, NEW e \in Events, Requests(e)
    PROVE  Bounds'
<1>0. TypeOK /\ Phase /\ Slack /\ MemoryBounded BY DEF Bounds
<1>1. /\ UNCHANGED <<room, closed, spilling, flusher, stopping, failing, batch, retained, pos, chunk, lost>>
      /\ sent' \subseteq Events /\ outbox' \subseteq Events /\ dropped' \subseteq Events /\ faults' \in Nat
      /\ queue' = queue \/ (queue' = Append(queue, e) /\ ~closed /\ HasRoom(queue, room))
      /\ \E a \in {"full", "waiting"} \cup Answered : caller' = [caller EXCEPT ![e] = a]
  BY <1>0, RequestSteps DEF Requested, attempt
<1>2. queue' \in Seq(Events) /\ caller' \in [Events -> {"idle", "full", "waiting"} \cup Answered]
  <2>1. queue \in Seq(Events) /\ Append(queue, e) \in Seq(Events) BY <1>0, AppendProperties DEF TypeOK
  <2>2. caller \in [Events -> {"idle", "full", "waiting"} \cup Answered] BY <1>0 DEF TypeOK
  <2> QED BY <1>1, <2>1, <2>2
<1>3. TypeOK' BY <1>0, <1>1, <1>2 DEF TypeOK
<1>4. Phase' BY <1>0, <1>1 DEF Phase
<1>5. Slack' BY <1>0, <1>1 DEF Slack
<1>6. MemoryBounded'
  <2>1. CASE queue' = queue BY <1>0, <1>1, <2>1 DEF MemoryBounded
  <2>2. CASE queue' = Append(queue, e) /\ ~closed /\ HasRoom(queue, room)
    <3>1. ~stopping BY <1>0, <2>2 DEF Phase
    <3>2. Len(batch) + Len(retained) <= room + BatchSize BY <1>0, <3>1 DEF Slack
    <3>3. Len(queue) + room < Capacity BY <2>2 DEF HasRoom
    <3>4. Len(queue') = Len(queue) + 1 BY <1>0, <2>2 DEF TypeOK
    <3>5. Len(queue) \in Nat /\ Len(batch) \in Nat /\ Len(retained) \in Nat /\ room \in Nat BY <1>0 DEF TypeOK
    <3> QED BY <1>1, <3>2, <3>3, <3>4, <3>5, BufferAssumption DEF MemoryBounded
  <2> QED BY <1>1, <2>1, <2>2
<1> QED BY <1>3, <1>4, <1>5, <1>6 DEF Bounds

LEMMA TakeKeepsBounds ==
    ASSUME Bounds, Take
    PROVE  Bounds'
<1>0. TypeOK /\ Phase /\ Slack /\ MemoryBounded BY DEF Bounds
<1>1. /\ flusher = "idle" /\ queue # <<>> /\ flusher' = "took"
      /\ queue' = Tail(queue) /\ batch' = Append(batch, Head(queue))
      /\ UNCHANGED <<room, closed, caller, spilling, stopping, failing, retained, pos, chunk, lost, sent, outbox, dropped, faults>>
  BY DEF Take, calls, attempt, stores
<1>2. /\ queue' \in Seq(Events) /\ Len(queue') = Len(queue) - 1 /\ Len(queue) \in Nat
      /\ batch' \in Seq(Events) /\ Len(batch') = Len(batch) + 1 /\ Len(batch) \in Nat
  BY <1>0, <1>1 DEF TypeOK
<1>3. TypeOK' BY <1>0, <1>1, <1>2 DEF TypeOK
<1>4. Phase' BY <1>0, <1>1 DEF Phase
<1>5. room = Len(retained) /\ Len(retained) \in Nat BY <1>0, <1>1 DEF Phase, TypeOK
<1>6. Slack' BY <1>0, <1>1, <1>2, <1>5, BufferAssumption DEF Slack
<1>7. MemoryBounded' BY <1>0, <1>1, <1>2, <1>5, BufferAssumption DEF MemoryBounded
<1> QED BY <1>3, <1>4, <1>6, <1>7 DEF Bounds

LEMMA DequeuedKeepsBounds ==
    ASSUME Bounds, Dequeued
    PROVE  Bounds'
<1>0. TypeOK /\ Phase /\ Slack /\ MemoryBounded BY DEF Bounds
<1>1. /\ flusher = "took" /\ Wake(queue, room)
      /\ flusher' = IF ~stopping /\ Len(batch) >= BatchSize THEN "flush" ELSE "idle"
      /\ UNCHANGED <<queue, room, closed, spilling, stopping, failing, batch, retained, pos, chunk, lost, sent, outbox, dropped, faults>>
  BY DEF Dequeued, attempt, stores
<1>2. caller' \in [Events -> {"idle", "full", "waiting"} \cup Answered] BY <1>0, <1>1, WakeSteps
<1>3. TypeOK' BY <1>0, <1>1, <1>2 DEF TypeOK
<1>4. Phase' BY <1>0, <1>1 DEF Phase
<1>5. Len(batch) \in Nat BY <1>0 DEF TypeOK
<1>6. Slack' BY <1>0, <1>1, <1>5, BufferAssumption DEF Slack
<1>7. MemoryBounded' BY <1>0, <1>1 DEF MemoryBounded
<1> QED BY <1>3, <1>4, <1>6, <1>7 DEF Bounds

\* The batch joins the retained events.
LEMMA Joined ==
    ASSUME TypeOK, JoinBatch
    PROVE  /\ retained' \in Seq(Events) /\ batch' \in Seq(Events)
           /\ Len(retained') = Len(retained) + Len(batch) /\ Len(batch') = 0 /\ batch' = <<>>
           /\ Len(retained) \in Nat /\ Len(batch) \in Nat
           /\ Range(retained') = Range(retained) \cup Range(batch)
<1>1. retained \in Seq(Events) /\ batch \in Seq(Events) BY DEF TypeOK
<1>2. retained' = retained \o batch /\ batch' = <<>> BY DEF JoinBatch
<1>3. Range(retained') = Range(retained) \cup Range(batch) BY <1>1, <1>2, RangeConcatenation
<1> QED BY <1>1, <1>2, <1>3, ConcatProperties

LEMMA AttemptKeepsBounds ==
    ASSUME Bounds, Attempt, Due \/ (flusher = "idle" /\ stopping /\ queue = <<>>)
    PROVE  Bounds'
<1>0. TypeOK /\ Phase /\ Slack /\ MemoryBounded BY DEF Bounds
<1>1. /\ flusher' = "deliver" /\ pos' = 0 /\ chunk' = 0 /\ lost' = <<>> /\ JoinBatch
      /\ UNCHANGED <<queue, room, closed, caller, spilling, stopping, failing, sent, outbox, dropped, faults>>
  BY DEF Attempt, NewAttempt, calls, stores
<1>2. /\ retained' \in Seq(Events) /\ batch' \in Seq(Events)
      /\ Len(retained') = Len(retained) + Len(batch) /\ Len(batch') = 0 /\ batch' = <<>>
      /\ Len(retained) \in Nat /\ Len(batch) \in Nat
  BY <1>0, <1>1, Joined
<1>3. lost' \in Seq(Events) /\ Len(lost') <= pos' /\ pos' \in 0..Len(retained') /\ chunk' \in 0..BatchSize
  BY <1>1, <1>2, BufferAssumption
<1>4. TypeOK' BY <1>0, <1>1, <1>2, <1>3 DEF TypeOK
<1>5. stopping => queue = <<>> BY <1>0 DEF Due, Phase
<1>6. Phase' BY <1>0, <1>1, <1>2, <1>5 DEF Phase
<1>7. room \in Nat /\ Len(queue) \in Nat BY <1>0 DEF TypeOK
<1>8. Slack' BY <1>0, <1>1, <1>2, <1>7, BufferAssumption DEF Slack
<1>9. MemoryBounded' BY <1>0, <1>1, <1>2, <1>7, BufferAssumption DEF MemoryBounded
<1> QED BY <1>4, <1>6, <1>8, <1>9 DEF Bounds

LEMMA BackOffKeepsBounds ==
    ASSUME Bounds, BackOff, Due
    PROVE  Bounds'
<1>0. TypeOK /\ Phase /\ Slack /\ MemoryBounded BY DEF Bounds
<1>1. /\ flusher' = "idle" /\ room' = Len(retained') /\ JoinBatch /\ Wake(queue, room')
      /\ UNCHANGED <<queue, closed, spilling, stopping, failing, pos, chunk, lost, sent, outbox, dropped, faults>>
  BY DEF BackOff, attempt, stores
<1>2. /\ retained' \in Seq(Events) /\ batch' \in Seq(Events)
      /\ Len(retained') = Len(retained) + Len(batch) /\ Len(batch') = 0 /\ batch' = <<>>
      /\ Len(retained) \in Nat /\ Len(batch) \in Nat
  BY <1>0, <1>1, Joined
<1>3. caller' \in [Events -> {"idle", "full", "waiting"} \cup Answered] BY <1>0, <1>1, WakeSteps
<1>4. pos = 0 /\ lost = <<>> /\ flusher \in {"idle", "flush"} BY <1>0 DEF Due, Phase
<1>5. TypeOK'
  <2>1. pos' \in 0..Len(retained') /\ room' \in Nat BY <1>1, <1>2, <1>4
  <2> QED BY <1>0, <1>1, <1>2, <1>3, <2>1 DEF TypeOK
<1>6. Phase' BY <1>0, <1>1, <1>4 DEF Phase
<1>7. Len(queue) \in Nat BY <1>0 DEF TypeOK
<1>8. Slack' BY <1>1, <1>2, BufferAssumption DEF Slack
<1>9. MemoryBounded' BY <1>0, <1>1, <1>2, <1>7, BufferAssumption DEF MemoryBounded
<1> QED BY <1>5, <1>6, <1>8, <1>9 DEF Bounds

LEMMA DeliverNextKeepsBounds ==
    ASSUME Bounds, DeliverNext
    PROVE  Bounds'
<1>0. TypeOK /\ Phase /\ Slack /\ MemoryBounded BY DEF Bounds
<1>1. /\ flusher = "deliver" /\ chunk < BatchSize /\ pos < Len(retained)
      /\ pos' = pos + 1 /\ chunk' = chunk + 1
      /\ UNCHANGED <<queue, room, closed, caller, flusher, spilling, stopping, failing, batch, retained>>
  BY DEF DeliverNext, InChunk, calls
<1>2. retained \in Seq(Events) /\ Len(retained) \in Nat /\ pos \in 0..Len(retained) /\ pos + 1 \in 1..Len(retained)
  BY <1>0, <1>1 DEF TypeOK
<1>3. retained[pos + 1] \in Events BY <1>2
<1>4. sent' \subseteq Events /\ outbox' \subseteq Events /\ dropped' \subseteq Events /\ faults' \in Nat
  BY <1>0, <1>3 DEF DeliverNext, Fault, TypeOK
<1>5. lost' = lost \/ lost' = Append(lost, retained[pos + 1]) BY DEF DeliverNext
<1>6. lost' \in Seq(Events) /\ Len(lost') <= pos'
  <2>1. lost \in Seq(Events) /\ Len(lost) <= pos /\ Len(lost) \in Nat BY <1>0 DEF TypeOK
  <2>2. Append(lost, retained[pos + 1]) \in Seq(Events) /\ Len(Append(lost, retained[pos + 1])) = Len(lost) + 1
    BY <2>1, <1>3, AppendProperties
  <2>3. pos' = pos + 1 /\ pos \in Nat BY <1>1, <1>2
  <2>4. CASE lost' = lost BY <2>1, <2>3, <2>4
  <2>5. CASE lost' = Append(lost, retained[pos + 1]) BY <2>1, <2>2, <2>3, <2>5
  <2> QED BY <1>5, <2>4, <2>5
<1>7. pos' \in 0..Len(retained') /\ chunk' \in 0..BatchSize BY <1>0, <1>1, <1>2, BufferAssumption DEF TypeOK
<1>8. TypeOK' BY <1>0, <1>1, <1>4, <1>6, <1>7 DEF TypeOK
<1>9. Phase' BY <1>0, <1>1 DEF Phase
<1>10. Slack' /\ MemoryBounded' BY <1>0, <1>1 DEF Slack, MemoryBounded
<1> QED BY <1>8, <1>9, <1>10 DEF Bounds

LEMMA SettleKeepsBounds ==
    ASSUME Bounds, flusher = "deliver", Settle(Failed), UNCHANGED <<queue, closed, spilling, stopping, batch, stores, faults>>
    PROVE  Bounds'
<1>0. TypeOK /\ Phase /\ Slack /\ MemoryBounded BY DEF Bounds
<1>1. /\ retained' = Failed /\ room' = Len(Failed) /\ Wake(queue, room') /\ failing' = (Failed # <<>>)
      /\ flusher' = IF ~stopping THEN "idle" ELSE IF Failed = <<>> THEN "drained" ELSE "retry"
      /\ pos' = 0 /\ chunk' = 0 /\ lost' = <<>>
      /\ UNCHANGED <<queue, closed, spilling, stopping, batch, sent, outbox, dropped, faults>>
  BY DEF Settle, NewAttempt, stores
<1>2. Failed \in Seq(Events) /\ Len(Failed) <= Len(retained) BY <1>0, FailedProperties DEF Failed, TypeOK
<1>3. caller' \in [Events -> {"idle", "full", "waiting"} \cup Answered] BY <1>0, <1>1, WakeSteps
<1>4. batch = <<>> /\ (stopping => queue = <<>>) BY <1>0 DEF Phase
<1>5. /\ Len(Failed) \in Nat /\ Len(retained) \in Nat /\ Len(queue) \in Nat /\ room \in Nat /\ Len(batch) = 0
  BY <1>0, <1>2, <1>4 DEF TypeOK
<1>6. TypeOK'
  <2>1. lost' \in Seq(Events) /\ Len(lost') <= pos' /\ pos' \in 0..Len(retained') /\ chunk' \in 0..BatchSize
    BY <1>1, <1>5, BufferAssumption
  <2>2. flusher' \in {"idle", "took", "flush", "deliver", "retry", "drained"} /\ failing' \in BOOLEAN BY <1>1
  <2> QED BY <1>0, <1>1, <1>2, <1>3, <1>5, <2>1, <2>2 DEF TypeOK
<1>7. Phase' BY <1>0, <1>1, <1>4 DEF Phase
<1>8. Slack' BY <1>1, <1>5, BufferAssumption DEF Slack
<1>9. MemoryBounded' BY <1>0, <1>1, <1>2, <1>5, BufferAssumption DEF MemoryBounded
<1> QED BY <1>6, <1>7, <1>8, <1>9 DEF Bounds

LEMMA AbandonKeepsBounds ==
    ASSUME Bounds, Abandon
    PROVE  Bounds'
<1>0. TypeOK /\ Phase /\ Slack /\ MemoryBounded BY DEF Bounds
<1>1. /\ flusher = "retry" /\ dropped' = dropped \cup Range(retained) /\ retained' = <<>> /\ room' = 0
      /\ Wake(queue, room') /\ flusher' = "drained"
      /\ UNCHANGED <<queue, closed, spilling, stopping, failing, batch, pos, chunk, lost, sent, outbox, faults>>
  BY DEF Abandon, attempt
<1>2. caller' \in [Events -> {"idle", "full", "waiting"} \cup Answered] BY <1>0, <1>1, WakeSteps
<1>3. stopping /\ queue = <<>> /\ batch = <<>> /\ pos = 0 /\ lost = <<>> BY <1>0, <1>1 DEF Phase
<1>4. Range(retained) \subseteq Events BY <1>0 DEF Range, TypeOK
<1>5. retained' \in Seq(Events) /\ Len(retained') = 0 BY <1>1
<1>6. TypeOK'
  <2>1. pos' \in 0..Len(retained') /\ Len(lost') <= pos' BY <1>1, <1>3, <1>5
  <2> QED BY <1>0, <1>1, <1>2, <1>4, <1>5, <2>1 DEF TypeOK
<1>7. Phase' BY <1>0, <1>1, <1>3 DEF Phase
<1>8. Slack' BY <1>1, <1>3 DEF Slack
<1>9. MemoryBounded' BY <1>1, <1>3, BufferAssumption DEF MemoryBounded
<1> QED BY <1>6, <1>7, <1>8, <1>9 DEF Bounds

LEMMA NextKeepsBounds ==
    ASSUME Bounds, [Next]_vars
    PROVE  Bounds'
<1>0. TypeOK /\ Phase /\ Slack /\ MemoryBounded BY DEF Bounds
<1>1. CASE \E e \in Events : Record(e) \/ WaitForRoom(e) \/ GiveUp(e)
  BY <1>1, RequestKeepsBounds DEF Requests
<1>2. CASE Close
  <2>1. /\ closed' = TRUE /\ WakeAll
        /\ UNCHANGED <<queue, room, flusher, spilling, stopping, failing, batch, retained, pos, chunk, lost, sent, outbox, dropped, faults>>
    BY <1>2 DEF Close, attempt, stores
  <2>2. caller' \in [Events -> {"idle", "full", "waiting"} \cup Answered] BY <1>0, <2>1, WakeSteps
  <2>3. TypeOK' BY <1>0, <2>1, <2>2 DEF TypeOK
  <2>4. Phase' /\ Slack' /\ MemoryBounded' BY <1>0, <2>1 DEF Phase, Slack, MemoryBounded
  <2> QED BY <2>3, <2>4 DEF Bounds
<1>3. CASE Take BY <1>3, TakeKeepsBounds
<1>4. CASE Dequeued BY <1>4, DequeuedKeepsBounds
<1>5. CASE Deliver BY <1>5, AttemptKeepsBounds DEF Deliver
<1>6. CASE Postpone BY <1>6, BackOffKeepsBounds DEF Postpone
<1>7. CASE Stop
  <2>1. /\ flusher = "idle" /\ closed /\ stopping' = TRUE
        /\ UNCHANGED <<queue, room, closed, caller, spilling, flusher, failing, batch, retained, pos, chunk, lost, sent, outbox, dropped, faults>>
    BY <1>7 DEF Stop, calls, attempt, stores
  <2>2. TypeOK' BY <1>0, <2>1 DEF TypeOK
  <2>3. Phase' /\ Slack' /\ MemoryBounded' BY <1>0, <2>1 DEF Phase, Slack, MemoryBounded
  <2> QED BY <2>2, <2>3 DEF Bounds
<1>8. CASE LastFlush BY <1>8, AttemptKeepsBounds DEF LastFlush
<1>9. CASE DeliverNext BY <1>9, DeliverNextKeepsBounds
<1>10. CASE EndChunk
  <2>1. CASE lost = <<>> /\ pos < Len(retained)
    <3>1. /\ chunk' = 0
          /\ UNCHANGED <<room, closed, caller, flusher, failing, retained, pos, lost, queue, spilling, stopping, batch, sent, outbox, dropped, faults>>
      BY <1>10, <2>1 DEF EndChunk, stores
    <3>2. TypeOK' BY <1>0, <3>1, BufferAssumption DEF TypeOK
    <3>3. Phase' /\ Slack' /\ MemoryBounded' BY <1>0, <3>1 DEF Phase, Slack, MemoryBounded
    <3> QED BY <3>2, <3>3 DEF Bounds
  <2>2. CASE ~(lost = <<>> /\ pos < Len(retained))
    BY <1>10, <2>2, SettleKeepsBounds DEF EndChunk
  <2> QED BY <2>1, <2>2
<1>11. CASE Retry
  <2>1. /\ flusher = "retry" /\ flusher' = "deliver" /\ pos' = 0 /\ chunk' = 0 /\ lost' = <<>>
        /\ UNCHANGED <<queue, room, closed, caller, spilling, stopping, failing, batch, retained, sent, outbox, dropped, faults>>
    BY <1>11 DEF Retry, NewAttempt, calls, stores
  <2>2. Len(retained) \in Nat /\ lost' \in Seq(Events) BY <1>0, <2>1 DEF TypeOK
  <2>3. pos' \in 0..Len(retained') /\ chunk' \in 0..BatchSize /\ Len(lost') <= pos' BY <2>1, <2>2, BufferAssumption
  <2>4. TypeOK' BY <1>0, <2>1, <2>2, <2>3 DEF TypeOK
  <2>5. Phase' /\ Slack' /\ MemoryBounded' BY <1>0, <2>1 DEF Phase, Slack, MemoryBounded
  <2> QED BY <2>4, <2>5 DEF Bounds
<1>12. CASE Abandon BY <1>12, AbandonKeepsBounds
<1>13. CASE UNCHANGED vars
  <2>1. UNCHANGED <<queue, room, closed, caller, flusher, spilling, stopping, failing, batch, retained, pos, chunk, lost, sent, outbox, dropped, faults>>
    BY <1>13 DEF vars, calls, attempt, stores
  <2> QED BY <1>0, <2>1 DEF Bounds, TypeOK, Phase, Slack, MemoryBounded
<1> QED
  BY <1>1, <1>2, <1>3, <1>4, <1>5, <1>6, <1>7, <1>8, <1>9, <1>10, <1>11, <1>12, <1>13 DEF Next, Flusher
----------------------------------------------------------------------------
\* Nothing accepted is forgotten.

\* A step that loses nothing of memory except to the stores, and answers
\* nobody, keeps AcceptedIsKept.
LEMMA KeepsAccepted ==
    ASSUME AcceptedIsKept,
           \A e \in Events : caller'[e] = "accepted" => caller[e] = "accepted",
           Stored \subseteq Stored',
           InMemory \subseteq InMemory' \cup Stored',
           flusher' = "drained" => InMemory' = {} \/ flusher = "drained"
    PROVE  AcceptedIsKept'
  BY DEF AcceptedIsKept, Stored

LEMMA NextKeepsAccepted ==
    ASSUME Bounds, Bounds', Handled, AcceptedIsKept, [Next]_vars
    PROVE  Handled' /\ AcceptedIsKept'
<1>0. TypeOK /\ Phase /\ Phase' BY DEF Bounds
<1>1. CASE \E e \in Events : Record(e) \/ WaitForRoom(e) \/ GiveUp(e)
  <2> PICK e \in Events : Requests(e) BY <1>1 DEF Requests
  <2>1. /\ UNCHANGED <<closed, flusher, batch, retained, pos, lost>>
        /\ Stored \subseteq Stored'
        /\ queue' = queue \/ queue' = Append(queue, e)
        /\ \E a \in {"full", "waiting"} \cup Answered :
             /\ caller' = [caller EXCEPT ![e] = a]
             /\ a = "accepted" => e \in Stored' \/ (queue' = Append(queue, e) /\ ~closed)
    BY <1>0, RequestSteps DEF Requested, attempt
  <2>2. Handled' BY <2>1 DEF Handled
  <2>3. Range(Append(queue, e)) = Range(queue) \cup {e} BY <1>0, AppendRange DEF TypeOK
  <2>4. InMemory \subseteq InMemory' /\ (queue' = Append(queue, e) => e \in InMemory')
    BY <2>1, <2>3 DEF InMemory
  <2>5. ~closed => flusher' # "drained" BY <1>0, <2>1 DEF Phase
  <2>6. ASSUME NEW f \in Events, caller'[f] = "accepted"
        PROVE  f \in Stored' \/ (f \in InMemory' /\ flusher' # "drained")
    <3>1. CASE f = e BY <1>0, <2>1, <2>4, <2>5, <2>6, <3>1 DEF TypeOK
    <3>2. CASE f # e
      <4>1. caller[f] = "accepted" BY <1>0, <2>1, <2>6, <3>2 DEF TypeOK
      <4> QED BY <2>1, <2>4, <4>1 DEF AcceptedIsKept, Stored
    <3> QED BY <3>1, <3>2
  <2> QED BY <2>2, <2>6 DEF AcceptedIsKept, Stored
<1>2. CASE Close
  <2>1. UNCHANGED <<queue, flusher, batch, retained, pos, lost, sent, outbox, dropped>> /\ WakeAll
    BY <1>2 DEF Close, attempt, stores
  <2>2. \A e \in Events : caller'[e] = "accepted" => caller[e] = "accepted" BY <1>0, <2>1, WakeSteps
  <2>3. UNCHANGED <<InMemory, Stored>> BY <2>1 DEF InMemory, Stored
  <2>4. Handled' BY <2>1, <2>3 DEF Handled
  <2> QED BY <2>1, <2>2, <2>3, <2>4, KeepsAccepted
<1>3. CASE Take
  <2>1. /\ queue # <<>> /\ flusher' = "took" /\ queue' = Tail(queue) /\ batch' = Append(batch, Head(queue))
        /\ UNCHANGED <<caller, retained, pos, lost, sent, outbox, dropped>>
    BY <1>3 DEF Take, calls, attempt, stores
  <2>2. Range(queue) = Range(queue') \cup {Head(queue)} BY <1>0, <2>1, TailRange DEF TypeOK
  <2>3. Range(batch') = Range(batch) \cup {Head(queue)} BY <1>0, <2>1, AppendRange, HeadTailProperties DEF TypeOK
  <2>4. InMemory \subseteq InMemory' BY <2>1, <2>2, <2>3 DEF InMemory
  <2>5. UNCHANGED Stored BY <2>1 DEF Stored
  <2>6. Handled' BY <2>1, <2>5 DEF Handled
  <2> QED BY <2>1, <2>4, <2>5, <2>6, KeepsAccepted
<1>4. CASE Dequeued
  <2>1. /\ UNCHANGED <<queue, batch, retained, pos, lost, sent, outbox, dropped>> /\ Wake(queue, room)
        /\ flusher' # "drained"
    BY <1>4 DEF Dequeued, attempt, stores
  <2>2. \A e \in Events : caller'[e] = "accepted" => caller[e] = "accepted" BY <1>0, <2>1, WakeSteps
  <2>3. UNCHANGED <<InMemory, Stored>> BY <2>1 DEF InMemory, Stored
  <2>4. Handled' BY <2>1, <2>3 DEF Handled
  <2> QED BY <2>1, <2>2, <2>3, <2>4, KeepsAccepted
<1>5. ASSUME Attempt PROVE Handled' /\ AcceptedIsKept'
  <2>1. /\ UNCHANGED <<queue, caller, sent, outbox, dropped>> /\ JoinBatch /\ flusher' = "deliver" /\ pos' = 0
    BY <1>5 DEF Attempt, NewAttempt, calls, stores
  <2>2. InMemory \subseteq InMemory' /\ UNCHANGED Stored BY <1>0, <2>1, Joined DEF InMemory, Stored
  <2>3. Handled' BY <2>1 DEF Handled
  <2> QED BY <2>1, <2>2, <2>3, KeepsAccepted
<1>6. CASE Postpone
  <2>1. /\ UNCHANGED <<queue, pos, sent, outbox, dropped>> /\ JoinBatch /\ flusher' = "idle" /\ Wake(queue, room') /\ Due
    BY <1>6 DEF Postpone, BackOff, attempt, stores
  <2>2. InMemory \subseteq InMemory' /\ UNCHANGED Stored BY <1>0, <2>1, Joined DEF InMemory, Stored
  <2>3. \A e \in Events : caller'[e] = "accepted" => caller[e] = "accepted" BY <1>0, <2>1, WakeSteps
  <2>4. Handled' BY <1>0, <2>1 DEF Handled, Due, Phase
  <2> QED BY <2>1, <2>2, <2>3, <2>4, KeepsAccepted
<1>7. CASE Stop
  <2>1. UNCHANGED <<queue, caller, flusher, batch, retained, pos, lost, sent, outbox, dropped>>
    BY <1>7 DEF Stop, calls, attempt, stores
  <2> QED BY <2>1 DEF Handled, AcceptedIsKept, InMemory, Stored
<1>8. CASE DeliverNext
  <2> DEFINE e == retained[pos + 1]
  <2>1. /\ UNCHANGED <<queue, caller, flusher, batch, retained>> /\ flusher = "deliver" /\ pos' = pos + 1
        /\ pos \in Nat /\ pos < Len(retained) /\ retained \in Seq(Events) /\ lost \in Seq(Events)
    BY <1>0, <1>8 DEF DeliverNext, InChunk, calls, TypeOK
  <2>2. e \in Events BY <2>1
  <2>3. Stored \subseteq Stored' BY <1>8 DEF DeliverNext, Stored
  <2>4. lost' = Append(lost, e) \/ (lost' = lost /\ e \in Stored') BY <1>8 DEF DeliverNext, Stored
  <2>5. Range(Append(lost, e)) = Range(lost) \cup {e} BY <2>1, <2>2, AppendRange
  <2>6. Range(lost) \subseteq Range(lost') /\ e \in Stored' \cup Range(lost') BY <2>4, <2>5
  <2>7. Handled'
    <3> SUFFICES ASSUME NEW i \in 1..(pos + 1) PROVE retained[i] \in Stored' \cup Range(lost')
      BY <2>1 DEF Handled
    <3>1. i \in 1..pos \/ i = pos + 1 BY <2>1
    <3> QED BY <2>3, <2>6, <3>1 DEF Handled
  <2>8. UNCHANGED InMemory BY <2>1 DEF InMemory
  <2> QED BY <2>1, <2>3, <2>7, <2>8, KeepsAccepted
<1>9. CASE EndChunk
  <2>1. CASE lost = <<>> /\ pos < Len(retained)
    <3>1. UNCHANGED <<caller, flusher, retained, pos, lost, queue, batch, sent, outbox, dropped>>
      BY <1>9, <2>1 DEF EndChunk, stores
    <3> QED BY <3>1 DEF Handled, AcceptedIsKept, InMemory, Stored
  <2>2. CASE ~(lost = <<>> /\ pos < Len(retained))
    <3>1. /\ flusher = "deliver" /\ retained' = Failed /\ Wake(queue, room') /\ pos' = 0
          /\ flusher' = "drained" => Failed = <<>>
          /\ UNCHANGED <<queue, batch, sent, outbox, dropped>>
      BY <1>9, <2>2 DEF EndChunk, Settle, NewAttempt, stores
    <3>2. /\ Range(lost) \subseteq Range(Failed)
          /\ \A i \in (pos + 1)..Len(retained) : retained[i] \in Range(Failed)
      BY <1>0, FailedProperties DEF Failed, TypeOK
    <3>3. Range(retained) \subseteq Range(Failed) \cup Stored
      <4> SUFFICES ASSUME NEW i \in 1..Len(retained) PROVE retained[i] \in Range(Failed) \cup Stored
        BY <1>0, RangeEquality DEF TypeOK
      <4>1. i \in 1..pos \/ i \in (pos + 1)..Len(retained) BY <1>0 DEF TypeOK
      <4> QED BY <3>2, <4>1 DEF Handled
    <3>4. UNCHANGED Stored BY <3>1 DEF Stored
    <3>5. InMemory \subseteq InMemory' \cup Stored' BY <3>1, <3>3, <3>4 DEF InMemory
    <3>6. flusher' = "drained" => InMemory' = {} BY <1>0 DEF Phase, InMemory, Range
    <3>7. \A e \in Events : caller'[e] = "accepted" => caller[e] = "accepted" BY <1>0, <3>1, WakeSteps
    <3>8. Handled' BY <3>1 DEF Handled
    <3> QED BY <3>4, <3>5, <3>6, <3>7, <3>8, KeepsAccepted
  <2> QED BY <2>1, <2>2
<1>10. CASE Retry
  <2>1. UNCHANGED <<queue, caller, batch, retained, sent, outbox, dropped>> /\ flusher' = "deliver" /\ pos' = 0
    BY <1>10 DEF Retry, NewAttempt, calls, stores
  <2>2. UNCHANGED <<InMemory, Stored>> BY <2>1 DEF InMemory, Stored
  <2>3. Handled' BY <2>1 DEF Handled
  <2> QED BY <2>1, <2>2, <2>3, KeepsAccepted
<1>11. CASE Abandon
  <2>1. /\ flusher = "retry" /\ dropped' = dropped \cup Range(retained) /\ Wake(queue, room') /\ flusher' = "drained"
        /\ UNCHANGED <<queue, batch, pos, sent, outbox>>
    BY <1>11 DEF Abandon, attempt
  <2>2. Stored \subseteq Stored' /\ InMemory \subseteq InMemory' \cup Stored' BY <2>1 DEF Stored, InMemory
  <2>3. InMemory' = {} BY <1>0, <2>1 DEF Phase, InMemory, Range
  <2>4. \A e \in Events : caller'[e] = "accepted" => caller[e] = "accepted" BY <1>0, <2>1, WakeSteps
  <2>5. Handled' BY <1>0, <2>1 DEF Handled, Phase
  <2> QED BY <2>2, <2>3, <2>4, <2>5, KeepsAccepted
<1>12. CASE UNCHANGED vars
  <2>1. UNCHANGED <<queue, caller, flusher, batch, retained, pos, lost, sent, outbox, dropped>>
    BY <1>12 DEF vars, calls, attempt, stores
  <2> QED BY <2>1 DEF Handled, AcceptedIsKept, InMemory, Stored
<1> QED
  BY <1>1, <1>2, <1>3, <1>4, <1>5, <1>6, <1>7, <1>8, <1>9, <1>10, <1>11, <1>12
  DEF Next, Flusher, Deliver, LastFlush
----------------------------------------------------------------------------
\* NoLostWakeup is inductive with the callers' type: whoever starts to wait
\* does so under the room's mutex, and each opening but the receive wakes in
\* the same critical section.
LEMMA NextKeepsWakeups ==
    ASSUME TypeOK, NoLostWakeup, [Next]_vars
    PROVE  NoLostWakeup'
<1>0. caller \in [Events -> {"idle", "full", "waiting"} \cup Answered] BY DEF TypeOK
<1>1. CASE \E e \in Events : Record(e) \/ WaitForRoom(e) \/ GiveUp(e)
  <2> PICK e \in Events : Requests(e) BY <1>1 DEF Requests
  <2>1. /\ UNCHANGED <<room, flusher>>
        /\ queue' = queue \/ queue' = Append(queue, e)
        /\ \E a \in {"full", "waiting"} \cup Answered :
             /\ caller' = [caller EXCEPT ![e] = a]
             /\ a = "waiting" => queue' = queue /\ ~HasRoom(queue, room)
    BY RequestSteps DEF Requested
  <2>2. HasRoom(queue', room') => HasRoom(queue, room)
    <3>1. room \in Nat /\ Len(queue) \in Nat /\ Len(Append(queue, e)) = Len(queue) + 1
      BY AppendProperties DEF TypeOK
    <3> QED BY <2>1, <3>1, BufferAssumption DEF HasRoom
  <2> SUFFICES ASSUME NEW f \in Events, caller'[f] = "waiting", HasRoom(queue', room')
               PROVE  flusher' = "took"
    BY DEF NoLostWakeup, HasRoom
  <2>3. CASE f = e BY <1>0, <2>1, <2>2, <2>3
  <2>4. CASE f # e
    <3>1. caller[f] = "waiting" BY <1>0, <2>1, <2>4
    <3> QED BY <2>1, <2>2, <3>1 DEF NoLostWakeup
  <2> QED BY <2>3, <2>4
<1>2. ASSUME WakeAll PROVE NoLostWakeup'
  BY <1>0, <1>2 DEF WakeAll, NoLostWakeup
<1>3. ASSUME Wake(queue, room'), queue' = queue PROVE NoLostWakeup'
  BY <1>2, <1>3 DEF Wake, NoLostWakeup, HasRoom
<1>4. ASSUME UNCHANGED <<queue, room, caller>>, flusher # "took" PROVE NoLostWakeup'
  BY <1>4 DEF NoLostWakeup, HasRoom
<1>5. CASE Close BY <1>2, <1>5 DEF Close
<1>6. CASE Take BY <1>6 DEF Take, NoLostWakeup
<1>7. CASE Dequeued BY <1>3, <1>7 DEF Dequeued
<1>8. CASE Deliver \/ LastFlush BY <1>4, <1>8 DEF Deliver, LastFlush, Due, Attempt, calls
<1>9. CASE Postpone BY <1>3, <1>9 DEF Postpone, BackOff
<1>10. CASE Stop BY <1>4, <1>10 DEF Stop, calls
<1>11. CASE DeliverNext BY <1>4, <1>11 DEF DeliverNext, calls
<1>12. CASE EndChunk
  <2>1. CASE lost = <<>> /\ pos < Len(retained) BY <1>4, <1>12, <2>1 DEF EndChunk
  <2>2. CASE ~(lost = <<>> /\ pos < Len(retained)) BY <1>3, <1>12, <2>2 DEF EndChunk, Settle
  <2> QED BY <2>1, <2>2
<1>13. CASE Retry BY <1>4, <1>13 DEF Retry, calls
<1>14. CASE Abandon BY <1>3, <1>14 DEF Abandon
<1>15. CASE UNCHANGED vars BY <1>15 DEF vars, calls, NoLostWakeup, HasRoom
<1> QED
  BY <1>1, <1>5, <1>6, <1>7, <1>8, <1>9, <1>10, <1>11, <1>12, <1>13, <1>14, <1>15 DEF Next, Flusher
----------------------------------------------------------------------------
\* The strengthened invariant of the recorder.
THEOREM BufferInvariant == Spec => []BufferInv
<1>1. BufferInv /\ [Next]_vars => BufferInv' BY NextKeepsBounds, NextKeepsAccepted DEF BufferInv
<1> QED BY <1>1, InitInv, PTL DEF Spec

\* The memory of the buffer is bounded: requests that race the flusher's
\* stale count exceed the configured capacity by at most one batch
\* (buffered_room.go hasRoom, buffered_flusher.go flush).
THEOREM BufferBounded == Spec => []MemoryBounded
<1>1. BufferInv => MemoryBounded BY DEF BufferInv, Bounds
<1> QED BY <1>1, BufferInvariant, PTL

\* Every event whose Record call returned nil is in memory, stored or counted
\* as dropped, also when Close races it (buffered_recorder.go Record, Close).
THEOREM NothingAcceptedVanishes == Spec => []AcceptedIsKept
<1>1. BufferInv => AcceptedIsKept BY DEF BufferInv
<1> QED BY <1>1, BufferInvariant, PTL

\* No request sleeps while there is room (buffered_room.go admitOrWait, wake).
THEOREM WakeupsAreKept == Spec => []NoLostWakeup
<1>1. Init => NoLostWakeup BY DEF Init, NoLostWakeup
<1>2. BufferInv /\ NoLostWakeup /\ [Next]_vars => NoLostWakeup'
  BY NextKeepsWakeups DEF BufferInv, Bounds
<1> QED BY <1>1, <1>2, BufferInvariant, PTL DEF Spec
============================================================================
