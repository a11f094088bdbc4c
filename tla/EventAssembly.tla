--------------------------- MODULE EventAssembly ---------------------------
(***************************************************************************)
(* Large audit events: internal/audit/consumer_parts.go,                   *)
(* consumer_assembly.go, consumer_assembly_append.go and                   *)
(* consumer_assembly_stream.go.                                            *)
(*                                                                         *)
(* An event that does not fit one record is published as parts followed by *)
(* a manifest.  The consumer stores each of these messages in the          *)
(* transaction that advances its offset, marks the assembly ready when     *)
(* nothing is missing, and after every poll completes the ready            *)
(* assemblies, each in a transaction of its own that appends the ledger    *)
(* row and removes the transient rows.                                     *)
(*                                                                         *)
(* The completion scan is not restricted to the consumer's own partitions, *)
(* so a completion always races the store transactions of every consumer,  *)
(* and after a rebalance two consumers store the same messages.  The       *)
(* database is at its effective isolation level, repeatable read           *)
(* (docs/review-log.md:28): every statement of a transaction reads the     *)
(* snapshot the transaction began with, waits for a row that another open  *)
(* transaction has written, and fails when it would write a row that has   *)
(* changed since its snapshot.                                             *)
(*                                                                         *)
(* Data abstraction: an event is a model value, its encoding a digest; the *)
(* payload of a part is determined by digest and index, so a stored part   *)
(* is the message it came in, and a stored header the manifest message.    *)
(* The statements for one message read one snapshot and run in one         *)
(* savepoint: they are one step.  One partition of the topic; the chain    *)
(* append of AuditConsumer is one atomic step here.                        *)
(***************************************************************************)
EXTENDS Naturals, Sequences, FiniteSets

CONSTANTS
    Consumers,     \* processes of the consumer group
    Events,        \* events too large for one record
    DigestsOf,     \* event -> the transport digests it was ever encoded with
    NoDigest,      \* "no assembly", "no completed transport"
    PartCount,     \* parts of every event
    Tampered,      \* events streamAssembly or prepareEvent rejects
    DatedAhead,    \* events dated into a week no ledger partition covers yet
    Plain,         \* events that were also recorded as a plain record
    Limit,         \* assemblyCompletionBatch
    MaxLog,        \* bound: records of the partition
    MaxFaults      \* bound: redeliveries, rebalances, crashes, lost calls

Digests == UNION {DigestsOf[e] : e \in Events}
Parts == 1..PartCount
Manifest == 0   \* the "part number" of the manifest message

ASSUME AssemblyAssumption ==
    /\ \A e \in Events : DigestsOf[e] # {}
    /\ NoDigest \notin Digests
    /\ PartCount \in Nat /\ PartCount > 0
    /\ Tampered \subseteq Events /\ DatedAhead \subseteq Events /\ Plain \subseteq Events
    /\ Limit \in Nat /\ Limit > 0
    /\ MaxLog \in Nat /\ MaxFaults \in Nat

VARIABLES
    log,        \* the topic partition: sequence of transport messages
    sent,       \* event -> [digest, next]: how far the relay has published it
    offset,     \* messages before the furthest committed consumer offset
    \* ------------------------------------------------- committed tables
    assemblies, \* audit.event_assemblies: event -> transport_digest
    ready,      \* its ready column, as the set of events that have it
    invalid,    \* the events that have an invalid_reason
    older,      \* the order of created_at, event_id among the assemblies
    stored,     \* messages stored: audit.event_assembly_parts, and headers
    completed,  \* audit.completed_transports: event -> digest
    ledger,     \* events with a row in audit.events / audit.projected_events
    manifests,  \* events with permanent read manifest parts in audit.event_parts
    dead,       \* audit.events_dlq: positions of dead-lettered messages
    uncovered,  \* events whose week has no ledger partition
    \* --------------------------- the batch transaction of each consumer
    batch,      \* [from, to]: it stores the messages from+1..to, if to > 0
    next,       \* position of the message at hand
    snap,       \* the snapshot its statements read
    stale,      \* rows other transactions have changed since
    newAsm, newReady, newStored, newDead, \* its uncommitted writes
    \* -------------------------------------- the completion worker of each
    todo,       \* scanned event IDs not yet tried
    locked,     \* the event whose assembly it holds FOR UPDATE, as a set
    faults

tables == <<assemblies, ready, invalid, older, stored, completed, ledger, manifests, dead>>
writes == <<newAsm, newReady, newStored, newDead>>
txVars == <<batch, next, snap, stale, writes>>
vars == <<log, sent, offset, tables, uncovered, txVars, todo, locked, faults>>

----------------------------------------------------------------------------
\* Rows, messages, transactions

Message == [ev : Events, part : Parts \cup {Manifest}, digest : Digests]

\* Row names for locks and conflicts: <<e, 0>> is the assembly row of e, which
\* holds the manifest too, and <<e, i>> the row of its part i.
RowOf(m) == <<m.ev, m.part>>
RowName == Events \X (Parts \cup {Manifest})
RowsOf(e) == {e} \X (Parts \cup {Manifest})

\* What a batch transaction reads of the committed tables
Tables == [asm |-> assemblies, ready |-> ready, stored |-> stored,
           completed |-> completed, ledger |-> ledger]
Snapshot == [asm : [Events -> Digests \cup {NoDigest}], ready : SUBSET Events, stored : SUBSET Message,
             completed : [Events -> Digests \cup {NoDigest}], ledger : SUBSET Events]
EmptyTables ==
    [asm |-> [e \in Events |-> NoDigest], ready |-> {}, stored |-> {},
     completed |-> [e \in Events |-> NoDigest], ledger |-> {}]

NoBatch == [from |-> 0, to |-> 0]

\* Every table, snapshot and transaction holds rows of its kind, and a batch is
\* a stretch of the log that its transaction is inside of or through with.
TypeOK ==
    /\ log \in Seq(Message)
    /\ sent \in [Events -> [digest : Digests, next : 1..(PartCount + 2)]]
    /\ offset \in 0..Len(log)
    /\ assemblies \in [Events -> Digests \cup {NoDigest}]
    /\ ready \subseteq Events /\ invalid \subseteq Events /\ older \subseteq Events \X Events
    /\ stored \subseteq Message
    /\ completed \in [Events -> Digests \cup {NoDigest}]
    /\ ledger \subseteq Events /\ manifests \subseteq Events /\ uncovered \subseteq Events
    /\ dead \subseteq 1..Len(log)
    /\ batch \in [Consumers -> [from : 0..Len(log), to : 0..Len(log)]]
    /\ next \in [Consumers -> Nat]
    /\ \A c \in Consumers : batch[c].to > 0 => batch[c].from < next[c] /\ next[c] <= batch[c].to + 1
    /\ snap \in [Consumers -> Snapshot]
    /\ stale \in [Consumers -> SUBSET RowName]
    /\ newAsm \in [Consumers -> [Events -> Digests \cup {NoDigest}]]
    /\ newReady \in [Consumers -> SUBSET Events]
    /\ newStored \in [Consumers -> SUBSET Message]
    /\ newDead \in [Consumers -> SUBSET (1..Len(log))]
    /\ todo \in [Consumers -> SUBSET Events]
    /\ locked \in [Consumers -> SUBSET Events]
    /\ faults \in Nat

Init ==
    /\ log = << >>
    /\ sent \in [Events -> {[digest |-> d, next |-> 1] : d \in Digests}]
    /\ \A e \in Events : sent[e].digest \in DigestsOf[e]
    /\ offset = 0
    /\ assemblies = [e \in Events |-> NoDigest]
    /\ ready = {} /\ invalid = {} /\ older = {} /\ stored = {}
    /\ completed = [e \in Events |-> NoDigest]
    /\ ledger = {} /\ manifests = {} /\ dead = {}
    /\ uncovered = DatedAhead
    /\ batch = [c \in Consumers |-> NoBatch]
    /\ next = [c \in Consumers |-> 0]
    /\ snap = [c \in Consumers |-> EmptyTables]
    /\ stale = [c \in Consumers |-> {}]
    /\ newAsm = [c \in Consumers |-> [e \in Events |-> NoDigest]]
    /\ newReady = [c \in Consumers |-> {}]
    /\ newStored = [c \in Consumers |-> {}]
    /\ newDead = [c \in Consumers |-> {}]
    /\ todo = [c \in Consumers |-> {}]
    /\ locked = [c \in Consumers |-> {}]
    /\ faults = 0

Fault == faults < MaxFaults /\ faults' = faults + 1
----------------------------------------------------------------------------
\* Publication

\* EncodedEvent.Messages: the parts in order, then the manifest.
Publish(e) ==
    /\ sent[e].next <= PartCount + 1 /\ Len(log) < MaxLog
    /\ log' = Append(log, [ev |-> e, digest |-> sent[e].digest,
                           part |-> IF sent[e].next <= PartCount THEN sent[e].next ELSE Manifest])
    /\ sent' = [sent EXCEPT ![e].next = @ + 1]
    /\ UNCHANGED <<offset, tables, uncovered, txVars, todo, locked, faults>>

\* The relay starts over after a failed acknowledgement; an event encoded
\* anew may carry another digest.
Republish(e) ==
    /\ sent[e].next > 1
    /\ Fault
    /\ \E d \in DigestsOf[e] : sent' = [sent EXCEPT ![e] = [digest |-> d, next |-> 1]]
    /\ UNCHANGED <<log, offset, tables, uncovered, txVars, todo, locked>>

\* A plain record of the same event is projected (AuditConsumer).
ProjectPlain(e) ==
    /\ e \in Plain \ (ledger \cup uncovered)
    /\ ledger' = ledger \cup {e}
    /\ UNCHANGED <<log, sent, offset, assemblies, ready, invalid, older, stored, completed, manifests,
                   dead, uncovered, txVars, todo, locked, faults>>

CoverWeek(e) ==
    /\ e \in uncovered
    /\ uncovered' = uncovered \ {e}
    /\ UNCHANGED <<log, sent, offset, tables, txVars, todo, locked, faults>>
----------------------------------------------------------------------------
\* The batch transaction (projectBatchOnce, storeTransportMessage)

Storing(c) == batch[c].to > 0
HasMessage(c) == Storing(c) /\ next[c] <= batch[c].to
Msg(c) == log[next[c]]
Ev(c) == Msg(c).ev

\* What a statement of c reads: the snapshot with the transaction's own writes
SeenAssembly(c, e) == IF newAsm[c][e] # NoDigest THEN newAsm[c][e] ELSE snap[c].asm[e]
SeenReady(c) == snap[c].ready \cup newReady[c]
SeenStored(c) == snap[c].stored \cup newStored[c]

\* Rows c has written and not committed
Written(c) ==
    {RowOf(m) : m \in newStored[c]}
    \cup {<<e, Manifest>> : e \in {x \in Events : newAsm[c][x] # NoDigest} \cup newReady[c]}

\* A write waits for the transaction that holds the row ...
RowFree(c, row) ==
    \A d \in Consumers \ {c} : row \notin Written(d) /\ (row[2] = Manifest => row[1] \notin locked[d])

\* ... and fails when the row has changed since the snapshot.
RowCurrent(c, row) == row \notin stale[c]

ForgetWrites(c) ==
    /\ newAsm' = [newAsm EXCEPT ![c] = [e \in Events |-> NoDigest]]
    /\ newReady' = [newReady EXCEPT ![c] = {}]
    /\ newStored' = [newStored EXCEPT ![c] = {}]
    /\ newDead' = [newDead EXCEPT ![c] = {}]

\* A fresh transaction over the messages from+1..to
OpenTx(c, from, to) ==
    /\ batch' = [batch EXCEPT ![c] = [from |-> from, to |-> to]]
    /\ next' = [next EXCEPT ![c] = from + 1]
    /\ snap' = [snap EXCEPT ![c] = Tables]
    /\ stale' = [stale EXCEPT ![c] = {}]
    /\ ForgetWrites(c)

CloseTx(c) ==
    /\ batch' = [batch EXCEPT ![c] = NoBatch]
    /\ next' = [next EXCEPT ![c] = 0]
    /\ snap' = [snap EXCEPT ![c] = EmptyTables]
    /\ ForgetWrites(c)

\* A poll returned a batch.  The owner reads on from the committed offset;
\* redelivery, and a second consumer at work on the partition, need a fault.
BeginBatch(c) ==
    /\ ~Storing(c) /\ todo[c] = {}
    /\ \E from \in 0..offset, to \in 1..Len(log) :
        /\ from < to
        /\ IF from = offset /\ \A d \in Consumers : ~Storing(d) THEN UNCHANGED faults ELSE Fault
        /\ OpenTx(c, from, to)
    /\ UNCHANGED <<log, sent, offset, tables, uncovered, todo, locked>>

\* Go on with the next record of the batch.
NextMessage(c) == next' = [next EXCEPT ![c] = @ + 1]

\* completedTransport: the event was completed with these very bytes.
AlreadyCompleted(c) == snap[c].completed[Ev(c)] = Msg(c).digest

\* completedTransport refuses another encoding of a completed event, and an
\* event that was projected without a transport ...
CompletedOtherwise(c) ==
    IF snap[c].completed[Ev(c)] = NoDigest THEN Ev(c) \in snap[c].ledger
    ELSE snap[c].completed[Ev(c)] # Msg(c).digest

\* ... storeAssembly a message of another encoding than its assembly's ...
AssemblyConflicts(c) == SeenAssembly(c, Ev(c)) \notin {NoDigest, Msg(c).digest}

\* ... and storeAssemblyPart other bytes than those stored under the index.
PartConflicts(c) ==
    Msg(c).part # Manifest /\ \E m \in SeenStored(c) : RowOf(m) = RowOf(Msg(c)) /\ m # Msg(c)

Refused(c) == CompletedOtherwise(c) \/ AssemblyConflicts(c) \/ PartConflicts(c)

\* A redelivery of a completed event's message leaves everything as it is.
SkipMessage(c) ==
    /\ HasMessage(c) /\ AlreadyCompleted(c)
    /\ NextMessage(c)
    /\ UNCHANGED <<log, sent, offset, tables, uncovered, batch, snap, stale, writes, todo, locked, faults>>

\* Seeded fault: a message of another encoding is dropped.
DropMessage(c) ==
    /\ HasMessage(c) /\ ~AlreadyCompleted(c) /\ Refused(c)
    /\ NextMessage(c)
    /\ UNCHANGED <<log, sent, offset, tables, uncovered, batch, snap, stale, writes, todo, locked, faults>>

\* rejectTransport: the savepoint is rolled back, the message dead-lettered.
RejectMessage(c) ==
    /\ HasMessage(c) /\ ~AlreadyCompleted(c) /\ Refused(c)
    /\ NextMessage(c)
    /\ newDead' = [newDead EXCEPT ![c] = @ \cup {next[c]}]
    /\ UNCHANGED <<log, sent, offset, tables, uncovered, batch, snap, stale, newAsm, newReady, newStored,
                   todo, locked, faults>>

\* What storeAssembly, storeAssemblyPart or storeAssemblyHeader, and the ready
\* update write for the message at hand
Creates(c) == SeenAssembly(c, Ev(c)) = NoDigest
Adds(c) == \A m \in SeenStored(c) : RowOf(m) # RowOf(Msg(c))

\* Seeded fault: the ready update runs in the branch that stores a part.
ReadyOnPart(c) ==
    /\ Ev(c) \notin SeenReady(c) /\ Msg(c).part # Manifest
    /\ \A i \in Parts \cup {Manifest} :
        \E m \in SeenStored(c) \cup {Msg(c)} : RowOf(m) = <<Ev(c), i>>

\* The ready update: there is a header, and the parts are as many as declared.
BecomesReady(c) ==
    /\ Ev(c) \notin SeenReady(c)
    /\ \A i \in Parts \cup {Manifest} :
        \E m \in SeenStored(c) \cup {Msg(c)} : RowOf(m) = <<Ev(c), i>>

\* The rows the message's statements write
Wanted(c) ==
    (IF Adds(c) THEN {RowOf(Msg(c))} ELSE {})
    \cup (IF Creates(c) \/ BecomesReady(c) THEN {<<Ev(c), Manifest>>} ELSE {})

Stores(c) == HasMessage(c) /\ ~AlreadyCompleted(c) /\ ~Refused(c)

StoreMessage(c) ==
    /\ Stores(c)
    /\ \A row \in Wanted(c) : RowFree(c, row) /\ RowCurrent(c, row)
    /\ newAsm' = [newAsm EXCEPT ![c][Ev(c)] = IF Creates(c) THEN Msg(c).digest ELSE @]
    /\ newStored' = [newStored EXCEPT ![c] = IF Adds(c) THEN @ \cup {Msg(c)} ELSE @]
    /\ newReady' = [newReady EXCEPT ![c] = IF BecomesReady(c) THEN @ \cup {Ev(c)} ELSE @]
    /\ NextMessage(c)
    /\ UNCHANGED <<log, sent, offset, tables, uncovered, batch, snap, stale, newDead, todo, locked, faults>>

WaitsFor(c, d) == Stores(c) /\ Wanted(c) \cap Written(d) # {}

\* A serialization failure (40001), or the victim of a lock cycle (40P01):
\* isRetryableChainErr, and projectBatch starts over in a fresh transaction.
RetryBatch(c) ==
    /\ \/ Stores(c) /\ \E row \in Wanted(c) : ~RowCurrent(c, row)
       \/ \E S \in SUBSET Consumers : c \in S /\ \A x \in S : \E y \in S \ {x} : WaitsFor(x, y)
    /\ OpenTx(c, batch[c].from, batch[c].to)
    /\ UNCHANGED <<log, sent, offset, tables, uncovered, todo, locked, faults>>

\* Other open transactions will find these rows changed.
Outdate(c, rowSet) ==
    stale' = [d \in Consumers |->
        IF d = c THEN {} ELSE IF Storing(d) THEN stale[d] \cup rowSet ELSE stale[d]]

Bigger(a, b) == IF a > b THEN a ELSE b

\* created_at is the time the creating transaction began, and event_id breaks
\* ties: a new assembly takes any place among the others.
AgeOrders(S) ==
    {r \in SUBSET (S \X S) :
        /\ \A x, y \in S : x # y => (<<x, y>> \in r <=> <<y, x>> \notin r)
        /\ \A x \in S : <<x, x>> \notin r
        /\ \A x, y, z \in S : <<x, y>> \in r /\ <<y, z>> \in r => <<x, z>> \in r}

\* The messages, the dead letters and the offset commit together.  (Two
\* batches of one partition conflict on the offset's row as well, so not all
\* the interleavings here happen.)
CommitBatch(c) ==
    /\ Storing(c) /\ next[c] > batch[c].to
    /\ assemblies' = [e \in Events |-> IF newAsm[c][e] # NoDigest THEN newAsm[c][e] ELSE assemblies[e]]
    /\ ready' = ready \cup newReady[c]
    /\ stored' = stored \cup newStored[c]
    /\ older' \in AgeOrders({e \in Events : assemblies'[e] # NoDigest}) /\ older \subseteq older'
    /\ dead' = dead \cup newDead[c]
    /\ offset' = Bigger(offset, batch[c].to)
    /\ CloseTx(c)
    /\ Outdate(c, Written(c))
    /\ UNCHANGED <<log, sent, invalid, completed, ledger, manifests, uncovered, todo, locked, faults>>

\* A database error or a lost connection: the batch rolls back and the
\* partition is wound back.
FailBatch(c) ==
    /\ Storing(c)
    /\ Fault
    /\ CloseTx(c)
    /\ stale' = [stale EXCEPT ![c] = {}]
    /\ UNCHANGED <<log, sent, offset, tables, uncovered, todo, locked>>
----------------------------------------------------------------------------
\* The completion worker (completeAssemblies)

Completable(e) == e \in ready /\ e \notin invalid

\* The scan: ready, not invalid, at most Limit of them, none older left out.
ScanReady(c) ==
    /\ ~Storing(c) /\ todo[c] = {}
    /\ LET found == {e \in Events : Completable(e)} IN
        \E S \in SUBSET found :
            /\ S # {}
            /\ Cardinality(S) <= Limit /\ (S # found => Cardinality(S) = Limit)
            /\ \A e \in S, x \in found \ S : <<e, x>> \in older
            /\ todo' = [todo EXCEPT ![c] = S]
    /\ UNCHANGED <<log, sent, offset, tables, uncovered, txVars, locked, faults>>

Completing(c) == locked[c] # {}

\* completeAssembly locks the row, when it still is what the scan saw.
LockAssembly(c, e) ==
    /\ e \in todo[c] /\ ~Completing(c)
    /\ RowFree(c, <<e, Manifest>>)
    /\ IF Completable(e)
       THEN locked' = [locked EXCEPT ![c] = {e}] /\ UNCHANGED todo
       ELSE todo' = [todo EXCEPT ![c] = @ \ {e}] /\ UNCHANGED locked
    /\ UNCHANGED <<log, sent, offset, tables, uncovered, txVars, faults>>

\* The transaction ends and the worker turns to the next event.
EndCompletion(c, e) ==
    /\ todo' = [todo EXCEPT ![c] = @ \ {e}]
    /\ locked' = [locked EXCEPT ![c] = {}]

\* assemblyPartReader: every declared part is found, of the declared digest.
Whole(e) ==
    \A i \in Parts \cup {Manifest} : [ev |-> e, part |-> i, digest |-> assemblies[e]] \in stored

\* streamAssembly: the parts are there and the digests, the identity and the
\* read evidence check out; prepareEvent accepts the event.
Verified(e) == Whole(e) /\ e \notin Tampered

\* appendAssembledEvent lands the row, or finds the event projected already.
Appendable(e) == e \in ledger \/ e \notin uncovered

ForgetAssembly(e) ==
    /\ assemblies' = [assemblies EXCEPT ![e] = NoDigest]
    /\ ready' = ready \ {e} /\ invalid' = invalid \ {e}
    /\ older' = {p \in older : p[1] # e /\ p[2] # e}

\* Seeded fault: only the assembly row is deleted.
KeepParts(e) ==
    /\ completed' = [completed EXCEPT ![e] = IF @ = NoDigest THEN assemblies[e] ELSE @]
    /\ stored' = {m \in stored : m.ev # e \/ m.part # Manifest}
    /\ ForgetAssembly(e)

\* finishAssembly: the completed digest in, the transient rows out.
FinishAssembly(e) ==
    /\ completed' = [completed EXCEPT ![e] = IF @ = NoDigest THEN assemblies[e] ELSE @]
    /\ stored' = {m \in stored : m.ev # e}
    /\ ForgetAssembly(e)

CompleteAssembly(c, e) ==
    /\ e \in locked[c]
    /\ Verified(e) /\ Appendable(e)
    /\ ledger' = ledger \cup {e}
    /\ manifests' = manifests \cup {e}
    /\ FinishAssembly(e)
    /\ Outdate(c, RowsOf(e))
    /\ EndCompletion(c, e)
    /\ UNCHANGED <<log, sent, offset, dead, uncovered, batch, next, snap, writes, faults>>

\* Seeded fault: an assembly that fails verification is deleted.
DiscardInvalid(c, e) ==
    /\ e \in locked[c]
    /\ ~Verified(e)
    /\ stored' = {m \in stored : m.ev # e}
    /\ ForgetAssembly(e)
    /\ Outdate(c, RowsOf(e))
    /\ EndCompletion(c, e)
    /\ UNCHANGED <<log, sent, offset, completed, ledger, manifests, dead, uncovered, batch, next, snap,
                   writes, faults>>

\* Seeded fault: the mark is part of the transaction that rolls back.
MarkRolledBack(c, e) ==
    /\ e \in locked[c]
    /\ ~Verified(e)
    /\ EndCompletion(c, e)
    /\ UNCHANGED <<log, sent, offset, tables, uncovered, txVars, faults>>

\* errMalformedPayload: the transaction rolls back and a statement of its own
\* marks the row.
MarkInvalid(c, e) ==
    /\ e \in locked[c]
    /\ ~Verified(e)
    /\ invalid' = invalid \cup {e}
    /\ Outdate(c, {<<e, Manifest>>})
    /\ EndCompletion(c, e)
    /\ UNCHANGED <<log, sent, offset, assemblies, ready, older, stored, completed, ledger, manifests, dead,
                   uncovered, batch, next, snap, writes, faults>>

\* The ledger refuses the row: logged, and tried again after a later poll.
RefuseAssembly(c, e) ==
    /\ e \in locked[c]
    /\ Verified(e) /\ ~Appendable(e)
    /\ EndCompletion(c, e)
    /\ UNCHANGED <<log, sent, offset, tables, uncovered, txVars, faults>>

\* A database error, or chain conflicts past assemblyChainRetries.
AbandonCompletion(c, e) ==
    /\ e \in locked[c]
    /\ Fault
    /\ EndCompletion(c, e)
    /\ UNCHANGED <<log, sent, offset, tables, uncovered, txVars>>

\* The process dies: its transaction rolls back.
Crash(c) ==
    /\ Storing(c) \/ todo[c] # {}
    /\ Fault
    /\ CloseTx(c)
    /\ stale' = [stale EXCEPT ![c] = {}]
    /\ todo' = [todo EXCEPT ![c] = {}]
    /\ locked' = [locked EXCEPT ![c] = {}]
    /\ UNCHANGED <<log, sent, offset, tables, uncovered>>
----------------------------------------------------------------------------
\* Nothing to fetch and nothing the scan would return
CaughtUp ==
    /\ offset = Len(log) /\ \A e \in Events : ~Completable(e)
    /\ \A c \in Consumers : ~Storing(c) /\ todo[c] = {}

StoreStep(c) == SkipMessage(c) \/ RejectMessage(c) \/ StoreMessage(c) \/ RetryBatch(c) \/ CommitBatch(c)
CompleteStep(c, e) ==
    LockAssembly(c, e) \/ CompleteAssembly(c, e) \/ MarkInvalid(c, e) \/ RefuseAssembly(c, e)

Next ==
    \/ \E e \in Events : Publish(e) \/ Republish(e) \/ ProjectPlain(e) \/ CoverWeek(e)
    \/ \E c \in Consumers :
        \/ BeginBatch(c) \/ StoreStep(c) \/ FailBatch(c)
        \/ ScanReady(c) \/ \E e \in Events : CompleteStep(c, e) \/ AbandonCompletion(c, e)
        \/ Crash(c)
    \/ CaughtUp /\ UNCHANGED vars

Spec == Init /\ [][Next]_vars

\* What the loop of a consumer does next: poll and store, or scan and complete.
LoopStep(c) ==
    BeginBatch(c) \/ StoreStep(c) \/ ScanReady(c) \/ \E e \in Events : CompleteStep(c, e)

\* The relay publishes what it has begun, the partition manager gets to every
\* week, and the loop of a consumer that is not waiting for a row goes on.
FairSpec ==
    /\ Spec
    /\ \A e \in Events : WF_vars(Publish(e)) /\ WF_vars(CoverWeek(e))
    /\ \A c \in Consumers : WF_vars(LoopStep(c))
----------------------------------------------------------------------------
\* Properties

\* The completion scan takes no partial event and forgets no whole one: an
\* assembly is ready exactly when all its parts and its manifest are stored, in
\* its own encoding, whichever transactions stored the last two of them (the
\* ready update of storeTransportMessage).
ReadyExactlyWhole ==
    \A e \in Events : e \in ready <=> assemblies[e] # NoDigest /\ Whole(e)

\* finishAssembly: a completed transport has its ledger row and its permanent
\* manifest, and no manifest part exists without both.
CompletedHasRow ==
    \A e \in Events :
        /\ completed[e] # NoDigest => e \in ledger /\ e \in manifests
        /\ e \in manifests => completed[e] # NoDigest
        /\ e \in ledger /\ e \notin Plain => completed[e] # NoDigest

\* The design of audit completeness forbids retained transport copies: once
\* an event is completed no assembly row and no message of it is left, nor
\* does a message that was read before the completion bring one back.
NoTransportLeft ==
    \A e \in Events :
        completed[e] # NoDigest => assemblies[e] = NoDigest /\ \A m \in stored : m.ev # e

\* A completion is all or nothing, also against late copies of the messages.
CompletionIsClean == CompletedHasRow /\ NoTransportLeft

\* A message behind the committed offset is kept: in its assembly, in the
\* completed event, or as a dead letter.
OffsetsCoverMessages ==
    \A i \in 1..offset :
        i \in dead \/ completed[log[i].ev] = log[i].digest \/ log[i] \in stored

\* A stored message leaves the transient tables only when the event is in the
\* ledger and completed in the message's own encoding.
EvidenceKept ==
    [][\A m \in stored : m \in stored' \/ (m.ev \in ledger' /\ completed'[m.ev] = m.digest)]_vars

\* All messages of the event, in one encoding, are in the topic.
Published(e, d) ==
    \A i \in Parts \cup {Manifest} :
        \E k \in 1..Len(log) : log[k] = [ev |-> e, part |-> i, digest |-> d]
Assembled(e) == e \in ledger \/ e \in invalid

\* Every event published to the end reaches the ledger or is marked invalid,
\* unless messages of another encoding of it got in the way; refused events
\* do not keep the completion worker from the others.
PublishedIsAssembled ==
    \A e \in Events :
        (\E d \in Digests : DigestsOf[e] = {d} /\ Published(e, d)) ~> Assembled(e)

============================================================================
