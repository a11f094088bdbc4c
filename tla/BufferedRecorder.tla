-------------------------- MODULE BufferedRecorder --------------------------
(***************************************************************************)
(* The buffered recorder: internal/audit/buffered_*.go over the spill and  *)
(* batch recorders of spill.go and batch_recorder.go, as                   *)
(* internal/runtime/audit.go wires them.                                   *)
(*                                                                         *)
(* A request hands its read-class event to a queue and answers; one        *)
(* flusher goroutine delivers the queue in batches and retains what the    *)
(* inner recorder did not accept.  The queue and the retained events share *)
(* the capacity.  A request that finds no room appends to the durable      *)
(* outbox, or, where the deployment has none, waits.                       *)
(*                                                                         *)
(* Each step is one critical section (the stop lock, the room's mutex) or  *)
(* one call.  A refused event may still have reached the broker; that      *)
(* duplicate is the consumer's to drop (AuditConsumer, OneRowPerEvent).    *)
(***************************************************************************)
EXTENDS Naturals, Sequences, Functions

CONSTANTS
    Events,     \* each is recorded once
    Writes,     \* those of the state-change class
    Poison,     \* those the inner recorder can never take
    Capacity,
    BatchSize,
    MaxFaults   \* bound: refused deliveries and appends, timeouts

ASSUME BufferAssumption ==
    /\ Writes \subseteq Events /\ Poison \subseteq Events
    /\ Capacity \in Nat \ {0} /\ BatchSize \in Nat \ {0}
    /\ MaxFaults \in Nat

VARIABLES
    \* -------------------------------------------------- shared with requests
    queue,     \* the channel
    room,      \* bufferRoom.retained: the flusher's events as the room counts them
    closed,
    spilling,  \* wired as a Kafka recorder with the outbox as spill and overflow
    caller,    \* per event: where its Record call stands
    \* ------------------------------------------------------------ the flusher
    flusher,   \* "idle", "took", "flush", "deliver", "retry", "drained"
    stopping,  \* it has seen done
    failing,   \* attempts > 0: a backoff may be running
    batch,
    retained,
    pos,       \* events of retained the current attempt has handled
    chunk,     \* those of them in the current chunk
    lost,      \* those of the current chunk nobody accepted
    \* ---------------------------------------------------------- environment
    sent,      \* events the broker or the ledger has
    outbox,    \* events appended to the outbox
    dropped,   \* events counted as dropped, at a stage that does not retain them
    faults

calls == <<closed, caller>>
attempt == <<pos, chunk, lost>>
stores == <<sent, outbox, dropped>>
vars == <<queue, room, calls, spilling, flusher, stopping, failing, batch, retained, attempt, stores, faults>>

Answered == {"accepted", "refused"}

TypeOK ==
    /\ queue \in Seq(Events) /\ batch \in Seq(Events) /\ retained \in Seq(Events) /\ lost \in Seq(Events)
    /\ room \in Nat /\ pos \in 0..Len(retained) /\ chunk \in 0..BatchSize /\ Len(lost) <= pos
    /\ closed \in BOOLEAN /\ spilling \in BOOLEAN /\ stopping \in BOOLEAN /\ failing \in BOOLEAN
    /\ caller \in [Events -> {"idle", "full", "waiting"} \cup Answered]
    /\ flusher \in {"idle", "took", "flush", "deliver", "retry", "drained"}
    /\ sent \subseteq Events /\ outbox \subseteq Events /\ dropped \subseteq Events
    /\ faults \in Nat

Init ==
    /\ queue = <<>> /\ batch = <<>> /\ retained = <<>> /\ lost = <<>>
    /\ room = 0 /\ pos = 0 /\ chunk = 0
    /\ closed = FALSE /\ spilling \in BOOLEAN /\ stopping = FALSE /\ failing = FALSE
    /\ caller = [e \in Events |-> "idle"]
    /\ flusher = "idle"
    /\ sent = {} /\ outbox = {} /\ dropped = {}
    /\ faults = 0

Fault == faults < MaxFaults /\ faults' = faults + 1
----------------------------------------------------------------------------
\* bufferRoom

HasRoom(q, r) == Len(q) + r < Capacity

WakeAll == caller' = [e \in Events |-> IF caller[e] = "waiting" THEN "full" ELSE caller[e]]

\* Seeded fault: the waiters are woken by an empty queue only.
WakeOnEmpty(q, r) == IF q = <<>> /\ r = 0 THEN WakeAll ELSE UNCHANGED caller

\* wake, with queue q and r retained events: every waiter looks again.
Wake(q, r) == IF HasRoom(q, r) THEN WakeAll ELSE UNCHANGED caller

Answer(e, a) == caller' = [caller EXCEPT ![e] = a]
----------------------------------------------------------------------------
\* Requests

\* An inner Record outside the buffer, then its answer: taken, spilled, or an
\* error to the caller.
RecordThrough(e) ==
    /\ \/ e \notin Poison /\ sent' = sent \cup {e} /\ Answer(e, "accepted") /\ UNCHANGED <<outbox, dropped, faults>>
       \/ /\ e \notin Poison /\ spilling /\ Fault
          /\ outbox' = outbox \cup {e} /\ Answer(e, "accepted") /\ UNCHANGED <<sent, dropped>>
       \/ /\ IF e \in Poison THEN UNCHANGED faults ELSE Fault
          /\ dropped' = IF spilling /\ e \in Poison THEN dropped \cup {e} ELSE dropped
          /\ Answer(e, "refused") /\ UNCHANGED <<sent, outbox>>
    /\ UNCHANGED queue

\* The event goes to the queue.
Enqueue(e) == queue' = Append(queue, e) /\ Answer(e, "accepted") /\ UNCHANGED <<stores, faults>>

\* overflowed: the durable outbox, or an error
Overflow(e) ==
    /\ \/ /\ e \notin Poison /\ outbox' = outbox \cup {e} /\ Answer(e, "accepted")
          /\ UNCHANGED <<dropped, faults>>
       \/ /\ IF e \in Poison THEN UNCHANGED faults ELSE Fault
          /\ dropped' = dropped \cup {e} /\ Answer(e, "refused") /\ UNCHANGED outbox
    /\ UNCHANGED <<queue, sent>>

Requested == UNCHANGED <<room, closed, flusher, spilling, stopping, failing, batch, retained, attempt>>

\* Record: one critical section of the stop lock decides.
Record(e) ==
    /\ caller[e] = "idle"
    /\ \/ (e \in Writes \/ closed) /\ RecordThrough(e)
       \/ e \notin Writes /\ ~closed /\ HasRoom(queue, room) /\ Enqueue(e)
       \/ e \notin Writes /\ ~closed /\ ~HasRoom(queue, room) /\ spilling /\ Overflow(e)
       \/ /\ e \notin Writes /\ ~closed /\ ~HasRoom(queue, room) /\ ~spilling
          /\ Answer(e, "full") /\ UNCHANGED <<queue, stores, faults>>
    /\ Requested

\* waitForRoom, one round
WaitForRoom(e) ==
    /\ caller[e] = "full"
    /\ \/ closed /\ RecordThrough(e)
       \/ ~closed /\ HasRoom(queue, room) /\ Enqueue(e)
       \/ /\ ~closed /\ ~HasRoom(queue, room)
          /\ Answer(e, IF room > 0 THEN "refused" ELSE "waiting")
          /\ UNCHANGED <<queue, stores, faults>>
    /\ Requested

\* The deadline passes or the request is cancelled.
GiveUp(e) ==
    /\ caller[e] = "waiting"
    /\ Fault
    /\ Answer(e, "refused")
    /\ UNCHANGED <<queue, stores>> /\ Requested

\* Close signals the flusher and every waiter.
Close ==
    /\ ~closed
    /\ closed' = TRUE
    /\ WakeAll
    /\ UNCHANGED <<queue, room, flusher, spilling, stopping, failing, batch, retained, attempt, stores, faults>>
----------------------------------------------------------------------------
\* The flusher

\* run and drain: the channel receive, ...
Take ==
    /\ flusher = "idle" /\ queue # <<>>
    /\ queue' = Tail(queue) /\ batch' = Append(batch, Head(queue))
    /\ flusher' = "took"
    /\ UNCHANGED <<room, calls, spilling, stopping, failing, retained, attempt, stores, faults>>

\* flush: the batch joins the retained events, ...
JoinBatch == retained' = retained \o batch /\ batch' = <<>>
NewAttempt == pos' = 0 /\ chunk' = 0 /\ lost' = <<>>

\* ... which are delivered, ...
Attempt ==
    /\ JoinBatch
    /\ flusher' = "deliver" /\ NewAttempt
    /\ UNCHANGED <<queue, room, calls, spilling, stopping, failing, stores, faults>>

\* ... or counted, while the backoff of an earlier failure runs.
BackOff ==
    /\ failing
    /\ JoinBatch
    /\ room' = Len(retained') /\ Wake(queue, room')
    /\ flusher' = "idle"
    /\ UNCHANGED <<queue, closed, spilling, stopping, failing, attempt, stores, faults>>

\* Seeded fault: the receive does not wake the waiters.
QuietDequeue ==
    /\ flusher = "took"
    /\ flusher' = "idle"
    /\ UNCHANGED <<queue, room, calls, spilling, stopping, failing, batch, retained, attempt, stores, faults>>

\* ... then dequeued: the waiters are woken, and run flushes a full batch.
Dequeued ==
    /\ flusher = "took"
    /\ Wake(queue, room)
    /\ flusher' = IF ~stopping /\ Len(batch) >= BatchSize THEN "flush" ELSE "idle"
    /\ UNCHANGED <<queue, room, closed, spilling, stopping, failing, batch, retained, attempt, stores, faults>>

\* The batch is full, or the interval passes.
Due == flusher = "flush" \/ (flusher = "idle" /\ ~stopping /\ (batch # <<>> \/ retained # <<>>))

Deliver == Due /\ Attempt
Postpone == Due /\ BackOff

\* The flusher sees done.
Stop ==
    /\ flusher = "idle" /\ closed /\ ~stopping
    /\ stopping' = TRUE
    /\ UNCHANGED <<queue, room, calls, spilling, flusher, failing, batch, retained, attempt, stores, faults>>

\* Seeded fault: what is queued at stop time is not taken.
DrainNothing == flusher = "idle" /\ stopping /\ Attempt

\* drain: the queue is empty, what is left is delivered.
LastFlush == flusher = "idle" /\ stopping /\ queue = <<>> /\ Attempt

\* settle
Settle(failed) ==
    /\ retained' = failed
    /\ room' = Len(failed) /\ Wake(queue, room')
    /\ failing' = (failed # <<>>)
    /\ flusher' = IF ~stopping THEN "idle" ELSE IF failed = <<>> THEN "drained" ELSE "retry"
    /\ NewAttempt

\* Seeded fault: what failed is added to what was retained before.
RetainedTwice == lost \o retained

\* What an attempt leaves: the chunk's lost events and the chunks not tried
Failed == lost \o SubSeq(retained, pos + 1, Len(retained))

\* Seeded fault: a chunk ends with its first lost event.
UntilLoss == chunk < BatchSize /\ pos < Len(retained) /\ lost = <<>>

\* The chunk has another event.
InChunk == chunk < BatchSize /\ pos < Len(retained)

\* deliver, for the next event of the chunk
DeliverNext ==
    /\ flusher = "deliver" /\ InChunk
    /\ LET e == retained[pos + 1] IN
        \/ /\ e \notin Poison /\ sent' = sent \cup {e}
           /\ UNCHANGED <<outbox, dropped, lost, faults>>
        \/ /\ e \notin Poison /\ spilling /\ Fault
           /\ outbox' = outbox \cup {e} /\ UNCHANGED <<sent, dropped, lost>>
        \/ /\ e \in Poison /\ spilling
           /\ dropped' = dropped \cup {e} /\ UNCHANGED <<sent, outbox, lost, faults>>
        \/ /\ e \notin Poison \/ ~spilling
           /\ IF e \in Poison THEN UNCHANGED faults ELSE Fault
           /\ lost' = Append(lost, e) /\ UNCHANGED <<sent, outbox, dropped>>
    /\ pos' = pos + 1 /\ chunk' = chunk + 1
    /\ UNCHANGED <<queue, room, calls, flusher, spilling, stopping, failing, batch, retained>>

\* deliverAll goes on with the next chunk after one without losses.
EndChunk ==
    /\ flusher = "deliver" /\ ~InChunk
    /\ IF lost = <<>> /\ pos < Len(retained)
         THEN chunk' = 0 /\ UNCHANGED <<room, caller, flusher, failing, retained, pos, lost>>
         ELSE Settle(Failed)
    /\ UNCHANGED <<queue, closed, spilling, stopping, batch, stores, faults>>

\* deliverBeforeDeadline: another attempt, ...
Retry ==
    /\ flusher = "retry"
    /\ flusher' = "deliver" /\ NewAttempt
    /\ UNCHANGED <<queue, room, calls, spilling, stopping, failing, batch, retained, stores, faults>>

\* ... or the deadline: abandon
Abandon ==
    /\ flusher = "retry"
    /\ dropped' = dropped \cup Range(retained)
    /\ retained' = <<>> /\ room' = 0 /\ Wake(queue, room')
    /\ flusher' = "drained"
    /\ UNCHANGED <<queue, closed, spilling, stopping, failing, batch, attempt, sent, outbox, faults>>
----------------------------------------------------------------------------
Flusher == Take \/ Dequeued \/ Deliver \/ Postpone \/ Stop \/ LastFlush \/ DeliverNext \/ EndChunk \/ Retry

Next ==
    \/ \E e \in Events : Record(e) \/ WaitForRoom(e) \/ GiveUp(e)
    \/ Close \/ Flusher \/ Abandon

Spec == Init /\ [][Next]_vars

\* The flusher runs; its select is fair to a ready channel; backoffs and the
\* shutdown deadline pass; a woken caller runs.
FairSpec ==
    /\ Spec
    /\ WF_vars(Flusher)
    /\ SF_vars(Take) /\ SF_vars(Stop) /\ SF_vars(Deliver) /\ SF_vars(Abandon)
    /\ \A e \in Events : WF_vars(WaitForRoom(e))
----------------------------------------------------------------------------
\* Properties

InMemory == Range(queue) \cup Range(batch) \cup Range(retained)

\* The room's count is stale while the flusher holds a batch and while it
\* delivers; still the buffer never holds more than a batch over its capacity.
MemoryBounded == Len(queue) + Len(batch) + Len(retained) <= Capacity + BatchSize

\* An event whose Record returned no error is on its way, stored, or counted
\* as dropped, and Close leaves none behind in memory.
AcceptedIsKept ==
    \A e \in Events : caller[e] = "accepted" =>
        e \in sent \cup outbox \cup dropped \/ (e \in InMemory /\ flusher # "drained")

\* A caller waits on the opened channel only while there is no room, except
\* between a receive and the wake that follows it.
NoLostWakeup ==
    \A e \in Events : caller[e] = "waiting" /\ HasRoom(queue, room) => flusher = "took"

\* Fewer events than a chunk that the ledger always refuses do not keep the
\* others from it, once the outage ends.
AcceptedIsDelivered ==
    \A e \in Events \ Poison : caller[e] = "accepted" ~> (e \in sent \cup outbox \/ closed)

\* Nobody depends on the timeout: a caller without room is answered.
CallersAnswered == \A e \in Events : caller[e] = "full" ~> caller[e] \in Answered

\* Close returns, whatever cannot be delivered.
CloseReturns == closed ~> flusher = "drained"

\* Callers wait for the flusher, the flusher for a broker that may be gone and
\* Close for the flusher: none of them waits for ever.
NobodyHangs == CallersAnswered /\ CloseReturns
============================================================================
