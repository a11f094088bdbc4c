--------------------------- MODULE AuditConsumer ---------------------------
(***************************************************************************)
(* The audit-consumer: internal/audit/consumer.go, consumer_fetches.go,    *)
(* chain_append.go, chain_head.go, dlq.go, dlq_key.go, dlq_replay.go.      *)
(*                                                                         *)
(* Consumers of one Kafka group project the records of the audit topic     *)
(* into the YugabyteDB ledger.  Every partition batch is ONE database      *)
(* transaction of many statements (a savepoint per record), and the        *)
(* statements of two consumers interleave: a rebalance hands a partition   *)
(* to another consumer while the previous owner is still inside its        *)
(* transaction.  The model therefore keeps, per consumer, what its open    *)
(* transaction has written (the tx... variables) apart from what is        *)
(* committed, and makes a statement wait for a row another open            *)
(* transaction has written, as the database does.  Statements read what is *)
(* committed when they run (read committed), the weaker of the two levels  *)
(* appendChainRow is written for; under repeatable read a statement that   *)
(* would act on a stale snapshot fails with a serialization error instead, *)
(* which DatabaseError allows at any statement.                            *)
(*                                                                         *)
(* Data abstraction: an event is a model value; a row hash is the sequence *)
(* of the events it covers, i.e. a hash without collisions; timestamps of  *)
(* token uses are small numbers, 0 for an event that uses no token.        *)
(***************************************************************************)
EXTENDS Naturals, Sequences, FiniteSets

CONSTANTS
    Consumers,    \* processes of the group tack-audit-projector
    Partitions,   \* partitions of the topic audit.events.v1
    Chains,       \* (org, shard) hash chains
    Events,       \* audit events, by event_id
    ChainOf,      \* event -> chain: shardOf and the event's org
    PartitionOf,  \* chain -> partition: kafkaPartitionKey
    UseTime,      \* event -> time of the API-token use it reports, or 0
    Malformed,    \* events the decoder or ValidateEvent rejects
    DatedAhead,   \* events dated into a week no ledger partition covers yet
    NoConsumer,   \* "no owner"
    NoPartition,  \* "no transaction is open"
    NoHead,       \* "this transaction has not written that chain head"
    MaxRecords,   \* bound: records per topic partition
    BatchSize,    \* ConsumerConfig.BatchSize, per partition
    MaxChainRetries, \* maxChainRetries: attempts of one batch
    MaxFaults     \* bound: rebalances, crashes and lost calls

ASSUME ConstantsAssumption ==
    /\ ChainOf \in [Events -> Chains]
    /\ PartitionOf \in [Chains -> Partitions]
    /\ UseTime \in [Events -> Nat]
    /\ Malformed \subseteq Events /\ DatedAhead \subseteq Events
    /\ NoConsumer \notin Consumers /\ NoPartition \notin Partitions
    /\ MaxRecords \in Nat /\ BatchSize \in Nat /\ BatchSize > 0
    /\ MaxChainRetries \in Nat /\ MaxChainRetries > 0
    /\ MaxFaults \in Nat

\* A head is what audit.chain_heads stores for one chain; NoHead is not one.
ChainHead == [seq : Nat, hash : Seq(Events)]
Genesis == [seq |-> 0, hash |-> << >>]
ASSUME NoHeadAssumption == NoHead \notin ChainHead

VARIABLES
    \* ------------------------------------------------------------ Kafka
    topic,        \* partition -> sequence of records
    groupOffset,  \* partition -> records before the group's committed offset
    owner,        \* partition -> the consumer the group assigned it to
    position,     \* consumer -> partition -> the client's fetch position
    \* ------------------------------------------- committed ledger tables
    rows,         \* audit.events
    heads,        \* audit.chain_heads; Genesis when the chain has no row
    claimed,      \* audit.projected_events
    piiRows,      \* audit.pii: how many rows were written for each event
    dlq,          \* audit.events_dlq
    ledgerOffset, \* audit.consumer_offsets
    lastUsed,     \* public.api_tokens.last_used of the one token
    uncovered,    \* events dated into a week no partition of audit.events covers
    \* ------------------------------------------------ the consumers' loops
    batch,        \* consumer -> partition -> [from, to, st] of the last poll
    \* --------------------------- the open transaction of projectBatchOnce
    txPart,       \* the partition whose batch it projects, or NoPartition
    txNext,       \* index of the record being projected
    txStep,       \* statement of appendChainRow reached: "claim", "read", "write"
    txAttempt,    \* attempt number of projectBatch
    txRead,       \* the chain head readChainHead returned
    txRows, txHeads, txClaims, txPii, txUsed, \* uncommitted writes
    txTouched, txDead, \* dead-letter keys it wrote, and their rows after it
    \* ------------------------------------------------------------ operator
    letters,      \* dead letters `ops audit dlq replay` has listed and not yet sent
    faults        \* faults so far (bound)

kafka == <<topic, groupOffset, owner, position>>
tables == <<rows, heads, claimed, piiRows, dlq, ledgerOffset, lastUsed>>
txVars == <<txPart, txNext, txStep, txAttempt, txRead, txRows, txHeads,
            txClaims, txPii, txUsed, txTouched, txDead>>
vars == <<kafka, tables, uncovered, batch, txVars, letters, faults>>

----------------------------------------------------------------------------
\* Records, dead letters and ledger rows

\* dlq_key.go: a dead letter is named by the Kafka position of its record.
DeadLetterKey == Partitions \X Nat
NoKey == <<>>
Record == [ev : Events, origin : DeadLetterKey \cup {NoKey}]
DeadLetter == [key : DeadLetterKey, ev : Events, attempts : Nat]
Row == [chain : Chains, seq : Nat, ev : Events, prev : Seq(Events), hash : Seq(Events)]

NoBatch == [from |-> 0, to |-> 0, st |-> "none"]
Batch == [from : Nat, to : Nat, st : {"none", "fetched", "done", "failed"}]

\* Seeded fault: the last write wins.
Incoming(a, b) == b

\* GREATEST of recordTokenUses, and the fold of newestTokenUses
Latest(a, b) == IF a > b THEN a ELSE b

KafkaTypeOK ==
    /\ topic \in [Partitions -> Seq(Record)]
    /\ groupOffset \in [Partitions -> Nat]
    /\ owner \in [Partitions -> Consumers \cup {NoConsumer}]
    /\ position \in [Consumers -> [Partitions -> Nat]]

LedgerTypeOK ==
    /\ rows \subseteq Row
    /\ heads \in [Chains -> ChainHead]
    /\ claimed \subseteq Events
    /\ piiRows \in [Events -> Nat]
    /\ dlq \subseteq DeadLetter
    /\ ledgerOffset \in [Partitions -> Nat]
    /\ lastUsed \in Nat
    /\ uncovered \subseteq Events

LoopTypeOK ==
    /\ batch \in [Consumers -> [Partitions -> Batch]]
    /\ txPart \in [Consumers -> Partitions \cup {NoPartition}]
    /\ txNext \in [Consumers -> Nat]
    /\ txStep \in [Consumers -> {"claim", "read", "write"}]
    /\ txAttempt \in [Consumers -> Nat]

WritesTypeOK ==
    /\ txRead \in [Consumers -> ChainHead]
    /\ txRows \in [Consumers -> SUBSET Row]
    /\ txHeads \in [Consumers -> [Chains -> ChainHead \cup {NoHead}]]
    /\ txClaims \in [Consumers -> SUBSET Events]
    /\ txPii \in [Consumers -> SUBSET Events]
    /\ txUsed \in [Consumers -> Nat]
    /\ txTouched \in [Consumers -> SUBSET DeadLetterKey]
    /\ txDead \in [Consumers -> SUBSET DeadLetter]

\* Every variable has the shape of the table, client or transaction state it
\* stands for; no statement writes a head, a row or a dead letter out of range.
TypeOK ==
    /\ KafkaTypeOK /\ LedgerTypeOK /\ LoopTypeOK /\ WritesTypeOK
    /\ letters \subseteq DeadLetter
    /\ faults \in Nat

Init ==
    /\ topic = [p \in Partitions |-> << >>]
    /\ groupOffset = [p \in Partitions |-> 0]
    /\ owner = [p \in Partitions |-> NoConsumer]
    /\ position = [c \in Consumers |-> [p \in Partitions |-> 0]]
    /\ rows = {}
    /\ heads = [ch \in Chains |-> Genesis]
    /\ claimed = {}
    /\ piiRows = [e \in Events |-> 0]
    /\ dlq = {}
    /\ ledgerOffset = [p \in Partitions |-> 0]
    /\ lastUsed = 0
    /\ uncovered = DatedAhead
    /\ batch = [c \in Consumers |-> [p \in Partitions |-> NoBatch]]
    /\ txPart = [c \in Consumers |-> NoPartition]
    /\ txNext = [c \in Consumers |-> 0]
    /\ txStep = [c \in Consumers |-> "claim"]
    /\ txAttempt = [c \in Consumers |-> 0]
    /\ txRead = [c \in Consumers |-> Genesis]
    /\ txRows = [c \in Consumers |-> {}]
    /\ txHeads = [c \in Consumers |-> [ch \in Chains |-> NoHead]]
    /\ txClaims = [c \in Consumers |-> {}]
    /\ txPii = [c \in Consumers |-> {}]
    /\ txUsed = [c \in Consumers |-> 0]
    /\ txTouched = [c \in Consumers |-> {}]
    /\ txDead = [c \in Consumers |-> {}]
    /\ letters = {}
    /\ faults = 0

\* One more fault of the environment; MaxFaults bounds them.
Fault == faults < MaxFaults /\ faults' = faults + 1
----------------------------------------------------------------------------
\* The producers

\* A producer's record reaches the partition that owns the event's chain.
\* Delivery upstream is at least once, so an event may be produced again.
Produce(e) ==
    LET p == PartitionOf[ChainOf[e]] IN
    /\ Len(topic[p]) < MaxRecords
    /\ topic' = [topic EXCEPT ![p] = Append(@, [ev |-> e, origin |-> NoKey])]
    /\ UNCHANGED <<groupOffset, owner, position, tables, uncovered, batch,
                   txVars, letters, faults>>

\* `ops audit dlq replay --limit n` lists the dead letters with the fewest
\* attempts (ListDeadLetters) ...
ListDeadLetters ==
    /\ letters = {}
    /\ \E chosen \in SUBSET dlq :
        /\ chosen # {}
        /\ \A d \in chosen, x \in dlq \ chosen : d.attempts <= x.attempts
        /\ letters' = chosen
    /\ UNCHANGED <<kafka, tables, uncovered, batch, txVars, faults>>

\* ... and produces their payloads one by one, byte for byte, under a header
\* naming the row, by which time the row may be gone.  A payload that does not
\* decode has no partition key and lands anywhere (replayPartitionKey).
SendLetter(d) ==
    \E p \in Partitions :
        /\ d.ev \notin Malformed => p = PartitionOf[ChainOf[d.ev]]
        /\ Len(topic[p]) < MaxRecords
        /\ topic' = [topic EXCEPT ![p] = Append(@, [ev |-> d.ev, origin |-> d.key])]

Replay(d) ==
    /\ d \in letters
    /\ SendLetter(d)
    /\ letters' = letters \ {d}
    /\ UNCHANGED <<groupOffset, owner, position, tables, uncovered, batch, txVars, faults>>

\* A produce that reports an error stops the replay; the record may be in the
\* topic all the same.
ReplayStopped(d) ==
    /\ d \in letters
    /\ Fault
    /\ SendLetter(d) \/ UNCHANGED topic
    /\ letters' = {}
    /\ UNCHANGED <<groupOffset, owner, position, tables, uncovered, batch, txVars>>

\* The partition manager creates the weekly partition an event needs.
CoverWeek(e) ==
    /\ e \in uncovered
    /\ uncovered' = uncovered \ {e}
    /\ UNCHANGED <<kafka, tables, batch, txVars, letters, faults>>
----------------------------------------------------------------------------
\* The group and the poll loop (Consumer.loop, projectFetches)

InPoll(c) == \E p \in Partitions : batch[c][p].st # "none"
Projecting(c) == txPart[c] # NoPartition

\* The group assigns a partition; the client resumes at the committed offset.
\* The previous owner keeps the batches it has already fetched.
Assign(c, p) ==
    /\ owner[p] # c
    /\ IF owner[p] = NoConsumer THEN UNCHANGED faults ELSE Fault
    /\ owner' = [owner EXCEPT ![p] = c]
    /\ position' = [position EXCEPT ![c][p] = groupOffset[p]]
    /\ UNCHANGED <<topic, groupOffset, tables, uncovered, batch, txVars, letters>>

\* PollRecords returns up to BatchSize records of each owned partition and
\* moves the client's fetch position past them.
Poll(c) ==
    /\ ~InPoll(c)
    /\ \E n \in [Partitions -> 0..BatchSize] :
        /\ \E p \in Partitions : n[p] > 0
        /\ \A p \in Partitions : n[p] > 0 =>
              owner[p] = c /\ position[c][p] + n[p] <= Len(topic[p])
        /\ batch' = [batch EXCEPT ![c] = [p \in Partitions |->
              IF n[p] = 0 THEN NoBatch
              ELSE [from |-> position[c][p], to |-> position[c][p] + n[p], st |-> "fetched"]]]
        /\ position' = [position EXCEPT ![c] = [p \in Partitions |-> @[p] + n[p]]]
    /\ UNCHANGED <<topic, groupOffset, owner, tables, uncovered, txVars, letters, faults>>

\* Seeded fault: the position of a failed partition is left past its records.
NoRewind(c, p) == position[c][p]

\* Where the client fetches next: SetOffsets winds a failed partition back.
FetchPosition(c, p) ==
    IF batch[c][p].st = "failed" /\ owner[p] = c THEN batch[c][p].from
    ELSE position[c][p]

\* The end of projectFetches, once every partition batch of the poll has been
\* tried: the failed ones are wound back, the others are committed to the
\* group.  The commit may be lost to a rebalance (a fault).
FinishPoll(c) ==
    /\ InPoll(c)
    /\ \A p \in Partitions : batch[c][p].st \in {"none", "done", "failed"}
    /\ position' = [position EXCEPT ![c] = [p \in Partitions |-> FetchPosition(c, p)]]
    /\ \/ /\ groupOffset' = [p \in Partitions |->
                IF batch[c][p].st = "done" THEN batch[c][p].to ELSE groupOffset[p]]
          /\ UNCHANGED faults
       \/ /\ UNCHANGED groupOffset
          /\ Fault
    /\ batch' = [batch EXCEPT ![c] = [p \in Partitions |-> NoBatch]]
    /\ UNCHANGED <<topic, owner, tables, uncovered, txVars, letters>>

----------------------------------------------------------------------------
\* projectBatchOnce: one transaction, one savepoint per record

\* The transaction's own writes are forgotten: rollback, or after commit.
ForgetWrites(c) ==
    /\ txStep' = [txStep EXCEPT ![c] = "claim"]
    /\ txRead' = [txRead EXCEPT ![c] = Genesis]
    /\ txRows' = [txRows EXCEPT ![c] = {}]
    /\ txHeads' = [txHeads EXCEPT ![c] = [ch \in Chains |-> NoHead]]
    /\ txClaims' = [txClaims EXCEPT ![c] = {}]
    /\ txPii' = [txPii EXCEPT ![c] = {}]
    /\ txUsed' = [txUsed EXCEPT ![c] = 0]
    /\ txTouched' = [txTouched EXCEPT ![c] = {}]
    /\ txDead' = [txDead EXCEPT ![c] = {}]

CloseTx(c) ==
    /\ ForgetWrites(c)
    /\ txPart' = [txPart EXCEPT ![c] = NoPartition]
    /\ txNext' = [txNext EXCEPT ![c] = 0]
    /\ txAttempt' = [txAttempt EXCEPT ![c] = 0]

BeginBatch(c, p) ==
    /\ ~Projecting(c)
    /\ batch[c][p].st = "fetched"
    /\ txPart' = [txPart EXCEPT ![c] = p]
    /\ txNext' = [txNext EXCEPT ![c] = batch[c][p].from + 1]
    /\ txAttempt' = [txAttempt EXCEPT ![c] = 1]
    /\ ForgetWrites(c)
    /\ UNCHANGED <<kafka, tables, uncovered, batch, letters, faults>>

\* The record under projection
HasRecord(c) == Projecting(c) /\ txNext[c] <= batch[c][txPart[c]].to
Rec(c) == topic[txPart[c]][txNext[c]]
Ev(c) == Rec(c).ev
Chain(c) == ChainOf[Ev(c)]

\* What the transaction sees of the dead-letter table; a row another open
\* transaction has written makes a statement wait.
DlqSeen(c) == {d \in dlq : d.key \notin txTouched[c]} \cup txDead[c]
DlqFree(c, key) == \A d \in Consumers \ {c} : key \notin txTouched[d]

\* The dead letter the record replays: the row its header names, when the
\* stored payload is the record's (verifiedReplayOrigin).
ReplayOrigin(c) == {d \in DlqSeen(c) : d.key = Rec(c).origin /\ d.ev = Ev(c)}

\* resolveDeadLetter: a landed replay deletes the row it came from.
ResolveDeadLetter(c) ==
    IF ReplayOrigin(c) = {}
    THEN UNCHANGED <<txTouched, txDead>>
    ELSE /\ DlqFree(c, Rec(c).origin)
         /\ txTouched' = [txTouched EXCEPT ![c] = @ \cup {Rec(c).origin}]
         /\ txDead' = [txDead EXCEPT ![c] = @ \ ReplayOrigin(c)]

\* The row deadLetterRecord writes: the one a verified replay came from, or
\* one under the record's own position.
LetterKey(c) ==
    IF ReplayOrigin(c) # {} THEN Rec(c).origin ELSE <<txPart[c], txNext[c]>>

\* Seeded fault: a replay that fails again takes its row with it.
ForgetOrigin(c) ==
    /\ DlqFree(c, LetterKey(c))
    /\ txTouched' = [txTouched EXCEPT ![c] = @ \cup {LetterKey(c)}]
    /\ txDead' = [txDead EXCEPT ![c] = @ \cup
          (IF ReplayOrigin(c) # {} THEN {}
           ELSE {[key |-> LetterKey(c), ev |-> Ev(c), attempts |-> 0]})]

\* deadLetterRecord: a failed replay counts an attempt on the row it came
\* from; any other record is kept under its own key, and a redelivery of it
\* leaves the row as it is.
DeadLetterRecord(c) ==
    LET key == LetterKey(c)
        old == {d \in DlqSeen(c) : d.key = key}
        new == IF ReplayOrigin(c) # {}
               THEN {[d EXCEPT !.attempts = @ + 1] : d \in old}
               ELSE {[key |-> key, ev |-> Ev(c), attempts |-> 0]}
    IN  /\ DlqFree(c, key)
        /\ IF ReplayOrigin(c) = {} /\ old # {}
           THEN UNCHANGED <<txTouched, txDead>>
           ELSE /\ txTouched' = [txTouched EXCEPT ![c] = @ \cup {key}]
                /\ txDead' = [txDead EXCEPT ![c] = (@ \ old) \cup new]

\* Go on to the next record of the batch, the savepoint being closed.
NextRecord(c) ==
    /\ txNext' = [txNext EXCEPT ![c] = @ + 1]
    /\ txStep' = [txStep EXCEPT ![c] = "claim"]

\* projectOne rejects the payload before it claims the identity.
RejectPayload(c) ==
    /\ HasRecord(c) /\ txStep[c] = "claim" /\ Ev(c) \in Malformed
    /\ DeadLetterRecord(c)
    /\ NextRecord(c)
    /\ UNCHANGED <<kafka, tables, uncovered, batch, txPart, txAttempt, txRead,
                   txRows, txHeads, txClaims, txPii, txUsed, letters, faults>>

\* Seeded fault: only this batch's claims are looked at.
ClaimedInBatch(c) == Ev(c) \in txClaims[c]

\* claimEventIdentity finds the event_id in audit.projected_events; it waits
\* for the outcome of another open transaction that inserted the same one.
AlreadyClaimed(c) == Ev(c) \in claimed \cup txClaims[c]
ClaimFree(c) == \A d \in Consumers \ {c} : Ev(c) \notin txClaims[d]

ClaimIdentity(c) ==
    /\ HasRecord(c) /\ txStep[c] = "claim" /\ Ev(c) \notin Malformed
    /\ ClaimFree(c)
    /\ ~AlreadyClaimed(c)
    /\ txPii' = [txPii EXCEPT ![c] = @ \cup {Ev(c)}]
    /\ txClaims' = [txClaims EXCEPT ![c] = @ \cup {Ev(c)}]
    /\ txStep' = [txStep EXCEPT ![c] = "read"]
    /\ UNCHANGED <<kafka, tables, uncovered, batch, txPart, txNext, txAttempt,
                   txRead, txRows, txHeads, txUsed, txTouched, txDead, letters, faults>>

\* errAlreadyProjected: the savepoint, with the PII row it wrote, is rolled
\* back, and a replay resolves its dead letter.
AlreadyProjected(c) ==
    /\ HasRecord(c) /\ txStep[c] = "claim" /\ Ev(c) \notin Malformed
    /\ ClaimFree(c)
    /\ AlreadyClaimed(c)
    /\ ResolveDeadLetter(c)
    /\ NextRecord(c)
    /\ UNCHANGED <<kafka, tables, uncovered, batch, txPart, txAttempt, txRead,
                   txRows, txHeads, txClaims, txPii, txUsed, letters, faults>>

\* The head as this transaction sees it: its own write, or the committed one.
SeenHead(c, ch) == IF txHeads[c][ch] # NoHead THEN txHeads[c][ch] ELSE heads[ch]

ReadChainHead(c) ==
    /\ HasRecord(c) /\ txStep[c] = "read"
    /\ txRead' = [txRead EXCEPT ![c] = SeenHead(c, Chain(c))]
    /\ txStep' = [txStep EXCEPT ![c] = "write"]
    /\ UNCHANGED <<kafka, tables, uncovered, batch, txPart, txNext, txAttempt,
                   txRows, txHeads, txClaims, txPii, txUsed, txTouched, txDead,
                   letters, faults>>

\* Seeded fault: the PII row is written outside the savepoint.
RollbackClaimOnly(c) ==
    /\ txClaims' = [txClaims EXCEPT ![c] = @ \ {Ev(c)}]
    /\ UNCHANGED txPii

\* The savepoint is rolled back: the claim and the PII row go with it.
RollbackSavepoint(c) ==
    /\ txClaims' = [txClaims EXCEPT ![c] = @ \ {Ev(c)}]
    /\ txPii' = [txPii EXCEPT ![c] = @ \ {Ev(c)}]

\* The insert into audit.events is refused (SQLSTATE class 23) and the record
\* dead-lettered.
RefuseRow(c) ==
    /\ HasRecord(c) /\ txStep[c] = "write" /\ Ev(c) \in uncovered
    /\ RollbackSavepoint(c)
    /\ DeadLetterRecord(c)
    /\ NextRecord(c)
    /\ UNCHANGED <<kafka, tables, uncovered, batch, txPart, txAttempt, txRead,
                   txRows, txHeads, txUsed, letters, faults>>

\* hashRowForEvent: the row's hash covers everything before it and itself.
NewRow(c) ==
    [chain |-> Chain(c), seq |-> txRead[c].seq + 1, ev |-> Ev(c),
     prev |-> txRead[c].hash, hash |-> Append(txRead[c].hash, Ev(c))]

\* writeChainHead waits while another open transaction has written the head.
HeadFree(c) == \A d \in Consumers \ {c} : txHeads[d][Chain(c)] = NoHead

\* Seeded fault: the head is written without comparing last_seq.
HeadUnchecked(c) == TRUE

\* ... and its compare-and-swap asks that last_seq is what readChainHead saw.
HeadUnmoved(c) == SeenHead(c, Chain(c)).seq = txRead[c].seq

\* appendChainRow succeeds: the head is still the one that was read.
AppendRow(c) ==
    /\ HasRecord(c) /\ txStep[c] = "write" /\ Ev(c) \notin uncovered
    /\ HeadFree(c)
    /\ HeadUnmoved(c)
    /\ txRows' = [txRows EXCEPT ![c] = @ \cup {NewRow(c)}]
    /\ txHeads' = [txHeads EXCEPT ![c][Chain(c)] =
                     [seq |-> NewRow(c).seq, hash |-> NewRow(c).hash]]
    /\ txUsed' = [txUsed EXCEPT ![c] = Latest(@, UseTime[Ev(c)])]
    /\ ResolveDeadLetter(c)
    /\ NextRecord(c)
    /\ UNCHANGED <<kafka, tables, uncovered, batch, txPart, txAttempt, txRead,
                   txClaims, txPii, letters, faults>>

\* projectBatch after a failed attempt: a retryable error starts the batch
\* again in a fresh transaction while attempts are left, any other fails it.
RetryBatch(c) ==
    /\ txAttempt[c] < MaxChainRetries
    /\ ForgetWrites(c)
    /\ txNext' = [txNext EXCEPT ![c] = batch[c][txPart[c]].from + 1]
    /\ txAttempt' = [txAttempt EXCEPT ![c] = @ + 1]
    /\ UNCHANGED <<txPart, batch>>

FailBatch(c) ==
    /\ CloseTx(c)
    /\ batch' = [batch EXCEPT ![c][txPart[c]].st = "failed"]

AfterChainError(c) ==
    \/ RetryBatch(c)
    \/ txAttempt[c] >= MaxChainRetries /\ FailBatch(c)

\* errChainConflict: another writer advanced the chain since it was read.
ChainConflict(c) ==
    /\ HasRecord(c) /\ txStep[c] = "write" /\ Ev(c) \notin uncovered
    /\ HeadFree(c)
    /\ ~HeadUnmoved(c)
    /\ AfterChainError(c)
    /\ UNCHANGED <<kafka, tables, uncovered, letters, faults>>

\* Whether the record's next step ends in a write to the dead-letter table
Rejected(c) ==
    \/ txStep[c] = "claim" /\ Ev(c) \in Malformed
    \/ txStep[c] = "write" /\ Ev(c) \in uncovered
ResolvesLetter(c) ==
    /\ ReplayOrigin(c) # {}
    /\ \/ txStep[c] = "claim" /\ AlreadyClaimed(c) /\ Ev(c) \notin Malformed
       \/ txStep[c] = "write" /\ Ev(c) \notin uncovered /\ HeadUnmoved(c)

\* Whose open transaction the current statement of c waits for
WaitsFor(c, d) ==
    /\ c # d /\ HasRecord(c)
    /\ \/ txStep[c] = "claim" /\ Ev(c) \in txClaims[d] \ Malformed
       \/ txStep[c] = "write" /\ Ev(c) \notin uncovered /\ txHeads[d][Chain(c)] # NoHead
       \/ (Rejected(c) \/ ResolvesLetter(c)) /\ LetterKey(c) \in txTouched[d]

\* The database aborts a transaction of a wait cycle (SQLSTATE 40P01), which
\* is retryable.
DeadlockVictim(c) ==
    /\ \E S \in SUBSET Consumers :
          c \in S /\ \A x \in S : \E y \in S : WaitsFor(x, y)
    /\ AfterChainError(c)
    /\ UNCHANGED <<kafka, tables, uncovered, letters, faults>>

\* A lost connection, a timeout, a missing grant: the batch fails.  Under
\* repeatable read any statement may instead meet a serialization failure
\* (SQLSTATE 40001), which is retryable.
DatabaseError(c) ==
    /\ Projecting(c)
    /\ Fault
    /\ FailBatch(c) \/ AfterChainError(c)
    /\ UNCHANGED <<kafka, tables, uncovered, letters>>

\* recordTokenUses, the offset upsert and COMMIT.
CommitWrites(c) ==
    /\ Projecting(c) /\ txNext[c] > batch[c][txPart[c]].to
    /\ rows' = rows \cup txRows[c]
    /\ heads' = [ch \in Chains |-> SeenHead(c, ch)]
    /\ claimed' = claimed \cup txClaims[c]
    /\ piiRows' = [e \in Events |-> piiRows[e] + (IF e \in txPii[c] THEN 1 ELSE 0)]
    /\ dlq' = DlqSeen(c)
    /\ lastUsed' = Latest(lastUsed, txUsed[c])
    /\ ledgerOffset' = [ledgerOffset EXCEPT ![txPart[c]] = batch[c][txPart[c]].to]

CommitBatch(c) ==
    /\ CommitWrites(c)
    /\ CloseTx(c)
    /\ batch' = [batch EXCEPT ![c][txPart[c]].st = "done"]
    /\ UNCHANGED <<kafka, uncovered, letters, faults>>

\* The transaction commits but its acknowledgement is lost: the consumer
\* takes the batch for failed and winds the partition back.
CommitUnacknowledged(c) ==
    /\ CommitWrites(c)
    /\ Fault
    /\ FailBatch(c)
    /\ UNCHANGED <<kafka, uncovered, letters>>

\* The process dies: its transaction rolls back, the group takes its partitions.
Crash(c) ==
    /\ Fault
    /\ CloseTx(c)
    /\ batch' = [batch EXCEPT ![c] = [p \in Partitions |-> NoBatch]]
    /\ owner' = [p \in Partitions |-> IF owner[p] = c THEN NoConsumer ELSE owner[p]]
    /\ UNCHANGED <<topic, groupOffset, position, tables, uncovered, letters>>
----------------------------------------------------------------------------
\* Every poll comes back empty: the loop goes round without a change.
AllCaughtUp ==
    /\ \A c \in Consumers : ~InPoll(c)
    /\ \A p \in Partitions :
        owner[p] \in Consumers /\ position[owner[p]][p] = Len(topic[p])

ProjectRecord(c) ==
    \/ RejectPayload(c) \/ ClaimIdentity(c) \/ AlreadyProjected(c)
    \/ ReadChainHead(c) \/ RefuseRow(c) \/ AppendRow(c) \/ ChainConflict(c)
    \/ DeadlockVictim(c)

Next ==
    \/ \E e \in Events : Produce(e) \/ CoverWeek(e)
    \/ ListDeadLetters
    \/ \E d \in letters : Replay(d) \/ ReplayStopped(d)
    \/ AllCaughtUp /\ UNCHANGED vars
    \/ \E c \in Consumers :
        \/ \E p \in Partitions : Assign(c, p) \/ BeginBatch(c, p)
        \/ Poll(c) \/ FinishPoll(c)
        \/ ProjectRecord(c) \/ DatabaseError(c)
        \/ CommitBatch(c) \/ CommitUnacknowledged(c) \/ Crash(c)

Spec == Init /\ [][Next]_vars

\* The loop of a running consumer goes on; a statement that waits for a lock
\* gets it before one that asks later (strong fairness: the database queues
\* its waiters); the group gives an orphaned partition to somebody.
\* MaxFaults makes the faults finitely many.
Work(c) ==
    \/ Poll(c) \/ FinishPoll(c) \/ ProjectRecord(c) \/ CommitBatch(c)
    \/ \E p \in Partitions : BeginBatch(c, p)
AssignOrphan(p) == owner[p] = NoConsumer /\ \E c \in Consumers : Assign(c, p)

FairSpec ==
    /\ Spec
    /\ \A c \in Consumers : WF_vars(Work(c)) /\ SF_vars(ProjectRecord(c))
    /\ \A p \in Partitions : WF_vars(AssignOrphan(p))
----------------------------------------------------------------------------
\* Properties

LedgerEvents == {r.ev : r \in rows}

\* One hash chain, as its verifier reads it: R's rows of chain ch are numbered
\* 1..head.seq without a gap or a second row for a number, each is hashed on
\* top of its predecessor, and the head is the last of them.
Chained(R, ch, head) ==
    /\ \A r \in R : r.chain = ch =>
        /\ r.seq \in 1..head.seq
        /\ r.hash = Append(r.prev, r.ev)
        /\ r.seq = 1 => r.prev = << >>
        /\ r.seq = head.seq => r.hash = head.hash
        /\ \A q \in R : q.chain = ch =>
            /\ q.seq = r.seq => q = r
            /\ q.seq + 1 = r.seq => r.prev = q.hash
    /\ \A i \in 1..head.seq : \E r \in R : r.chain = ch /\ r.seq = i
    /\ head.seq = 0 => head.hash = << >>

\* The (org, shard) chains never fork and never have a gap, whichever
\* consumers advance them (appendChainRow, writeChainHead).
ChainIntegrity == \A ch \in Chains : Chained(rows, ch, heads[ch])

\* One identity is one row, on its own chain: what claimEventIdentity is for.
OneRowPerEvent ==
    /\ claimed = LedgerEvents
    /\ \A r \in rows : r.chain = ChainOf[r.ev]
    /\ \A r, q \in rows : r.ev = q.ev => r = q

\* The PII row written before the claim survives exactly when the ledger row
\* does: redeliveries and refusals roll it back with the savepoint.
PIIFollowsRow ==
    \A e \in Events : piiRows[e] = IF e \in LedgerEvents THEN 1 ELSE 0

\* A record is accounted for when its event is in the ledger or a dead letter
\* holds its payload.
Accounted(p, i) ==
    LET rec == topic[p][i] IN
    \/ rec.ev \in LedgerEvents
    \/ \E d \in dlq : d.ev = rec.ev /\ d.key \in {<<p, i>>, rec.origin}

\* projectFetches: "the group offset may lag the ledger but never lead it".
\* The same goes for audit.consumer_offsets.
OffsetsNeverLeadLedger ==
    \A p \in Partitions, i \in 1..MaxRecords :
        i <= groupOffset[p] \/ i <= ledgerOffset[p] =>
            i <= Len(topic[p]) /\ Accounted(p, i)

\* recordTokenUses: whatever the order of deliveries, last_used is the newest
\* use the ledger has.
LastUsedIsNewest ==
    /\ \A r \in rows : UseTime[r.ev] <= lastUsed
    /\ lastUsed # 0 => \E r \in rows : UseTime[r.ev] = lastUsed

\* A dead letter leaves the table only when its event is in the ledger.
DeadLettersKept ==
    [][\A d \in dlq : (\A x \in dlq' : x.key # d.key) => d.ev \in LedgerEvents']_vars

\* Once faults have stopped, every record of the topic ends in the ledger or
\* the dead-letter table.
EveryRecordSettles ==
    \A p \in Partitions, i \in 1..MaxRecords :
        i <= Len(topic[p]) ~> (i <= Len(topic[p]) /\ Accounted(p, i))

\* The ledger as its readers see it: the rows of each chain in seq order.
LedgerTrail ==
    [ch \in Chains |->
        LET R == {r \in rows : r.chain = ch} IN
        [i \in 1..Cardinality(R) |-> (CHOOSE r \in R : r.seq = i).ev]]

Trail == INSTANCE AuditTrail WITH trail <- LedgerTrail

\* The consumers implement the append-only trail: no commit rewrites, reorders
\* or repeats what an earlier one wrote.
ImplementsTrail == Trail!Spec

============================================================================
