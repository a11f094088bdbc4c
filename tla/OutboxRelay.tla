---------------------------- MODULE OutboxRelay ----------------------------
(***************************************************************************)
(* The FoundationDB half of the audit relay: internal/audit/relay.go,      *)
(* relay_foundationdb.go, relay_parts.go, relay_reads.go and               *)
(* internal/adapters/foundationdb/ops_outbox*.go.                          *)
(*                                                                         *)
(* A change appends its audit records to the outbox in its own             *)
(* transaction, under versionstamped keys that sort in commit order.  Each *)
(* audit-consumer runs a relay; the one that holds the lease reads the     *)
(* outbox after its mark, produces to Kafka record by record, and only     *)
(* then clears what the broker acknowledged.  The lease is checked by the  *)
(* clearing transaction but not by the reads and the produces, so a relay  *)
(* that lost its lease goes on producing for a while.                      *)
(*                                                                         *)
(* Data abstraction: an outbox entry is its place in commit order.  The    *)
(* lease's expiry version is the flag "live", which time may lower at any  *)
(* moment the holder has not renewed it.                                   *)
(***************************************************************************)
EXTENDS Naturals, Sequences, FiniteSets

CONSTANTS
    Relays,      \* the relay processes
    NoRelay,     \* the lease is absent
    Gone,        \* the lease of a process that died; a restart has a new ID
    Reads,       \* entries that close a read (manifests and plain read events)
    Undecodable, \* entries that are not valid JSON records
    BatchSize,   \* RelayConfig.BatchSize
    MaxEntries,  \* bound: entries ever appended
    MaxFaults    \* bound: expiries, lost calls, crashes, shutdowns

ASSUME RelayAssumption ==
    /\ NoRelay \notin Relays /\ Gone \notin Relays /\ NoRelay # Gone
    /\ Reads \subseteq Nat /\ Undecodable \subseteq Nat
    /\ BatchSize \in Nat /\ BatchSize > 0
    /\ MaxEntries \in Nat /\ MaxFaults \in Nat

VARIABLES
    appended,  \* entries 1..appended have been committed, in this order
    outbox,    \* the entries still in the keyspace
    receipts,  \* reads whose receipt is marked published
    lease,     \* [owner, live]: the relay lease record
    topic,     \* the Kafka topic: entries in the order the broker took them
    \* ------------------------------------------------- per relay process
    pc,        \* "off", "poll", "read", "produce"
    closing,   \* Close was called
    holding,   \* the lease was held at the last poll
    mark,      \* the last entry it cleared (0: the beginning of the outbox)
    batch,     \* entries read and not yet produced
    accepted,  \* lastAccepted of the drain, 0 when nothing was accepted
    reads,     \* the reads among the records it accepted
    faults

relayVars == <<pc, closing, holding, mark, batch, accepted, reads>>
vars == <<appended, outbox, receipts, lease, topic, relayVars, faults>>

Published == {topic[k] : k \in 1..Len(topic)}

TypeOK ==
    /\ appended \in Nat
    /\ outbox \subseteq 1..appended
    /\ receipts \subseteq Reads
    /\ lease \in [owner : Relays \cup {NoRelay, Gone}, live : BOOLEAN]
    /\ topic \in Seq(1..appended)
    /\ pc \in [Relays -> {"off", "poll", "read", "produce"}]
    /\ closing \in [Relays -> BOOLEAN]
    /\ holding \in [Relays -> BOOLEAN]
    /\ mark \in [Relays -> 0..appended]
    /\ batch \in [Relays -> SUBSET (1..appended)]
    /\ accepted \in [Relays -> 0..appended]
    /\ reads \in [Relays -> SUBSET Reads]
    /\ faults \in Nat

Init ==
    /\ appended = 0 /\ outbox = {} /\ receipts = {}
    /\ lease = [owner |-> NoRelay, live |-> FALSE]
    /\ topic = << >>
    /\ pc = [r \in Relays |-> "off"]
    /\ closing = [r \in Relays |-> FALSE]
    /\ holding = [r \in Relays |-> FALSE]
    /\ mark = [r \in Relays |-> 0]
    /\ batch = [r \in Relays |-> {}]
    /\ accepted = [r \in Relays |-> 0]
    /\ reads = [r \in Relays |-> {}]
    /\ faults = 0

Fault == faults < MaxFaults /\ faults' = faults + 1
----------------------------------------------------------------------------
\* The writers

\* OutboxWriter: a transaction adds one entry, or the parts and the manifest
\* of a large event, under one commit version and rising user versions.
AppendEntries(n) ==
    /\ appended + n <= MaxEntries
    /\ appended' = appended + n
    /\ outbox' = outbox \cup (appended + 1)..(appended + n)
    /\ UNCHANGED <<receipts, lease, topic, relayVars, faults>>
----------------------------------------------------------------------------
\* The relay loop (foundationDBLoop)

Start(r) ==
    /\ pc[r] = "off"
    /\ pc' = [pc EXCEPT ![r] = "poll"]
    /\ closing' = [closing EXCEPT ![r] = FALSE]
    /\ holding' = [holding EXCEPT ![r] = FALSE]
    /\ mark' = [mark EXCEPT ![r] = 0]
    /\ UNCHANGED <<appended, outbox, receipts, lease, topic, batch, accepted, reads, faults>>

\* LeasedOpsOutbox.Hold: absent, the caller's own, or expired.
Available(r) == lease.owner \in {r, NoRelay} \/ ~lease.live

\* holdLease succeeds; a lease newly gained starts from the beginning.
HoldLease(r) ==
    /\ pc[r] = "poll" /\ ~closing[r] /\ Available(r)
    /\ lease' = [owner |-> r, live |-> TRUE]
    /\ mark' = [mark EXCEPT ![r] = IF holding[r] THEN @ ELSE 0]
    /\ holding' = [holding EXCEPT ![r] = TRUE]
    /\ pc' = [pc EXCEPT ![r] = "read"]
    /\ UNCHANGED <<appended, outbox, receipts, topic, closing, batch, accepted, reads, faults>>

\* Another relay holds it, or the call failed.
HoldDenied(r) ==
    /\ pc[r] = "poll" /\ ~closing[r] /\ holding[r]
    /\ IF Available(r) THEN Fault ELSE UNCHANGED faults
    /\ holding' = [holding EXCEPT ![r] = FALSE]
    /\ UNCHANGED <<appended, outbox, receipts, lease, topic, pc, closing, mark, batch, accepted, reads>>

After(r) == {i \in outbox : i > mark[r]}

\* ReadOutboxFrom: the first BatchSize entries after the mark.
ReadBatch(r) ==
    /\ pc[r] = "read"
    /\ \E S \in SUBSET After(r) :
        /\ \A i \in S, j \in After(r) \ S : i < j
        /\ Cardinality(S) <= BatchSize
        /\ S # After(r) => Cardinality(S) = BatchSize
        /\ batch' = [batch EXCEPT ![r] = S]
    /\ accepted' = [accepted EXCEPT ![r] = 0]
    /\ reads' = [reads EXCEPT ![r] = {}]
    /\ pc' = [pc EXCEPT ![r] = "produce"]
    /\ UNCHANGED <<appended, outbox, receipts, lease, topic, closing, holding, mark, faults>>

ReadFails(r) ==
    /\ pc[r] = "read"
    /\ Fault
    /\ pc' = [pc EXCEPT ![r] = "poll"]
    /\ UNCHANGED <<appended, outbox, receipts, lease, topic, closing, holding, mark, batch, accepted,
                   reads>>

\* Seeded fault: the batch is produced from its end.
LastOfBatch(r, i) == i \in batch[r] /\ \A j \in batch[r] : j <= i

\* It is the turn of entry i.
NextEntry(r, i) == i \in batch[r] /\ \A j \in batch[r] : i <= j

\* recordPublishedReads: the reads of the drain so far, with entry i
WithRead(r, i) == reads[r] \cup ({i} \cap Reads)

\* produceEntry: the broker acknowledged the record.
ProduceEntry(r, i) ==
    /\ pc[r] = "produce" /\ NextEntry(r, i) /\ i \notin Undecodable
    /\ topic' = Append(topic, i)
    /\ accepted' = [accepted EXCEPT ![r] = i]
    /\ batch' = [batch EXCEPT ![r] = @ \ {i}]
    /\ reads' = [reads EXCEPT ![r] = WithRead(r, i)]
    /\ UNCHANGED <<appended, outbox, receipts, lease, pc, closing, holding, mark, faults>>

\* Seeded fault: a failed entry is skipped and the batch goes on.
SkipEntry(r, i) ==
    /\ accepted' = [accepted EXCEPT ![r] = i]
    /\ batch' = [batch EXCEPT ![r] = @ \ {i}]

\* The first failure ends the batch.
StopBatch(r, i) ==
    /\ batch' = [batch EXCEPT ![r] = {}]
    /\ UNCHANGED accepted

\* The entry does not decode ...
RejectEntry(r, i) ==
    /\ pc[r] = "produce" /\ NextEntry(r, i) /\ i \in Undecodable
    /\ StopBatch(r, i)
    /\ UNCHANGED <<appended, outbox, receipts, lease, topic, pc, closing, holding, mark,
                   reads, faults>>

\* ... or the produce reports an error: the broker may have taken it anyway.
ProduceFails(r, i) ==
    /\ pc[r] = "produce" /\ NextEntry(r, i) /\ i \notin Undecodable
    /\ Fault
    /\ topic' = Append(topic, i) \/ UNCHANGED topic
    /\ StopBatch(r, i)
    /\ UNCHANGED <<appended, outbox, receipts, lease, pc, closing, holding, mark, reads>>

\* The key range ClearThroughPublished deletes
Cleared(r) == {i \in outbox : i <= accepted[r]}

\* Seeded fault: the receipts are marked in a transaction before the clear.
AcknowledgeFirst(r) ==
    /\ receipts' = receipts \cup reads[r]
    /\ UNCHANGED outbox

\* The clear and the receipts are one transaction.
ClearEntries(r) ==
    /\ outbox' = outbox \ Cleared(r)
    /\ receipts' = receipts \cup reads[r]

\* The end of drainFoundationDB, with something accepted.
ClearThrough(r) ==
    /\ pc[r] = "produce" /\ batch[r] = {} /\ accepted[r] # 0
    /\ lease.owner = r
    /\ ClearEntries(r)
    /\ mark' = [mark EXCEPT ![r] = accepted[r]]
    /\ pc' = [pc EXCEPT ![r] = "poll"]
    /\ UNCHANGED <<appended, lease, topic, closing, holding, batch, accepted, reads, faults>>

\* ErrRelayLeaseLost, or nothing was accepted: the mark stays.
NothingCleared(r) ==
    /\ pc[r] = "produce" /\ batch[r] = {}
    /\ accepted[r] = 0 \/ lease.owner # r
    /\ pc' = [pc EXCEPT ![r] = "poll"]
    /\ UNCHANGED <<appended, outbox, receipts, lease, topic, closing, holding, mark, batch,
                   accepted, reads, faults>>

\* Seeded fault: the mark moves although the clear failed.
MarkDespiteError(r) ==
    /\ pc[r] = "produce" /\ batch[r] = {} /\ accepted[r] # 0 /\ lease.owner = r
    /\ Fault
    /\ ClearEntries(r) \/ UNCHANGED <<outbox, receipts>>
    /\ mark' = [mark EXCEPT ![r] = accepted[r]]
    /\ pc' = [pc EXCEPT ![r] = "poll"]
    /\ UNCHANGED <<appended, lease, topic, closing, holding, batch, accepted, reads>>

\* The clearing transaction reports an error; it may have committed.
ClearFails(r) ==
    /\ pc[r] = "produce" /\ batch[r] = {} /\ accepted[r] # 0 /\ lease.owner = r
    /\ Fault
    /\ ClearEntries(r) \/ UNCHANGED <<outbox, receipts>>
    /\ pc' = [pc EXCEPT ![r] = "poll"]
    /\ UNCHANGED <<appended, lease, topic, closing, holding, mark, batch, accepted, reads>>
----------------------------------------------------------------------------
\* Expiry, shutdown and death

\* A holder that has not renewed in time: a fault while it is alive.
ExpireLease ==
    /\ lease.live
    /\ IF lease.owner = Gone THEN UNCHANGED faults ELSE Fault
    /\ lease' = [lease EXCEPT !.live = FALSE]
    /\ UNCHANGED <<appended, outbox, receipts, topic, relayVars>>

\* Release deletes the lease of its owner.
Released(r) == IF lease.owner = r THEN [owner |-> NoRelay, live |-> FALSE] ELSE lease

\* Close stops waiting after the grace period, and releases the lease whether
\* or not the drain has ended.
Close(r) ==
    /\ pc[r] # "off" /\ ~closing[r]
    /\ Fault
    /\ closing' = [closing EXCEPT ![r] = TRUE]
    /\ lease' = Released(r)
    /\ UNCHANGED <<appended, outbox, receipts, topic, pc, holding, mark, batch, accepted, reads>>

LoopEnds(r) ==
    /\ pc[r] = "poll" /\ closing[r]
    /\ pc' = [pc EXCEPT ![r] = "off"]
    /\ UNCHANGED <<appended, outbox, receipts, lease, topic, closing, holding, mark, batch,
                   accepted, reads, faults>>

Crash(r) ==
    /\ pc[r] # "off"
    /\ Fault
    /\ pc' = [pc EXCEPT ![r] = "off"]
    /\ batch' = [batch EXCEPT ![r] = {}]
    /\ lease' = IF lease.owner = r THEN [lease EXCEPT !.owner = Gone] ELSE lease
    /\ UNCHANGED <<appended, outbox, receipts, topic, closing, holding, mark, accepted, reads>>
----------------------------------------------------------------------------
RelayStep(r) ==
    \/ HoldLease(r) \/ HoldDenied(r) \/ ReadBatch(r)
    \/ \E i \in batch[r] : ProduceEntry(r, i) \/ RejectEntry(r, i)
    \/ ClearThrough(r) \/ NothingCleared(r) \/ LoopEnds(r) \/ Start(r)

Next ==
    \/ \E n \in 1..MaxEntries : AppendEntries(n)
    \/ ExpireLease
    \/ \E r \in Relays :
        \/ RelayStep(r) \/ ReadFails(r) \/ ClearFails(r)
        \/ \E i \in batch[r] : ProduceFails(r, i)
        \/ Close(r) \/ Crash(r)

Spec == Init /\ [][Next]_vars

\* Every relay process goes round its loop and is restarted when it ends, and
\* the lease of a dead one expires.
FairSpec ==
    /\ Spec
    /\ WF_vars(ExpireLease /\ lease.owner = Gone)
    /\ \A r \in Relays : WF_vars(RelayStep(r))
----------------------------------------------------------------------------
\* Properties

\* drainFoundationDB clears after the acknowledgement: a committed entry is in
\* the outbox until the broker has it, whatever relays overlap or die.
NothingLost == \A i \in 1..appended : i \in outbox \/ i \in Published

\* The relay delivers in commit order: no entry reaches the topic before all
\* earlier ones have.  So a manifest follows all of its parts.
InCommitOrder ==
    \A k \in 1..Len(topic) : \A j \in 1..(topic[k] - 1) :
        \E l \in 1..(k - 1) : topic[l] = j

\* A read receipt is marked published only for a record the broker has, and
\* in the transaction that removes its entry.
ReceiptsArePublished == receipts \subseteq Published \ outbox

\* Every entry is delivered and cleared, unless an entry that does not decode
\* comes before it (drainFoundationDB has no way past that one).
EntriesDelivered ==
    \A i \in 1..MaxEntries :
        (i \in outbox /\ \A j \in 1..i : j \notin Undecodable)
            ~> (i \in Published /\ i \notin outbox)

\* Under the same condition every delivered read has its receipt closed, by
\* whichever relay cleared the entry (ClearThroughPublished).
ReceiptsClosed ==
    \A i \in Reads \cap 1..MaxEntries :
        (i \in outbox /\ \A j \in 1..i : j \notin Undecodable) ~> i \in receipts

\* Once the faults stop, the drain catches up with the entries and with their
\* receipts.
DrainCompletes == EntriesDelivered /\ ReceiptsClosed
============================================================================
