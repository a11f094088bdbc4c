# Verification of tack

TLA+ specifications of tack, checked with TLC and, where marked, proved with
TLAPS. tack keeps every domain object as a node in FoundationDB, the audit
ledger in YugabyteDB and a search projection in OpenSearch. Three promises carry
most of its concurrent code, and the models follow them:

* *every change and every read ends, exactly once, in an append-only
  hash-chained ledger, whatever process dies on the way* (AuditConsumer,
  EventAssembly, OutboxRelay, ReadLifecycle, BufferedRecorder);
* *nodes form a tree, also while requests and subtree deletes change it at the
  same time* (NodeTree);
* *the search index follows the nodes, also while writes arrive late and while
  the index itself is replaced* (SearchWork, SearchRebuild).

    tlc -workers 2 -config AuditConsumer_ledger.cfg MCAuditConsumer
    tlapm EventAssemblyProofs.tla

`PROJECT.json` lists the runs, the mutation of the model that breaks each
checked property, the source lines of every definition, the hazards and the
theorems.

## 1. Inventory

### The path of an audit event

    request ── state change ──> FoundationDB outbox ──┐
       │                        (same transaction)    ├─ relay ─> Kafka ─> audit-consumer ─> ledger
       │        operator command ─> YugabyteDB outbox ┘             ^         │   (YugabyteDB)
       │                                                            │         ├─ chains, claims, PII
       ├── read, audited ──> ops_read_state ─> terminal event ──────┤         ├─ dead letters, offsets
       └── read-class event ──> buffered recorder ──────────────────┘         └─ assemblies of large events
                                     └─ spill to the outbox

| Component | State | Operations | What makes it correct |
|---|---|---|---|
| audit-consumer (`internal/audit/consumer*.go`, `chain_*.go`, `dlq*.go`) | fetch positions, one transaction per partition batch; `audit.events`, `chain_heads`, `projected_events`, `pii`, `events_dlq`, `consumer_offsets`, `api_tokens.last_used` | poll, project, commit, rewind; claim, read head, append; dead-letter, resolve; operator replay | chains without fork or gap; one row and one PII row per event; offsets never lead the ledger; letters leave only into the ledger; everything settles |
| event assembly (`consumer_parts.go`, `consumer_assembly*.go`) | `event_assemblies`, their parts, completed transports, permanent manifests | store part, store manifest, mark ready, scan, verify, complete, mark invalid | only whole events are completed; nothing behind the offset is lost; no transport copy is left |
| relay, FoundationDB half (`relay*.go`, `foundationdb/ops_outbox*.go`) | outbox keyspace, lease, read receipts; per process its mark and its drain | append, hold or renew the lease, read batch, produce, clear with receipts, release | nothing lost, commit order, honest receipts, eventual delivery |
| relay, YugabyteDB half (`outbox_yb*.go`, `outbox_reconnect.go`, `relay_yugabyte.go`) | operator outbox rows | insert with reconnect, claim with SKIP LOCKED, publish, delete | as above, without the order |
| audited reads (`read_executor*.go`, `read_recovery*.go`, `read_pending_yb.go`, migration 021) | `ops_read_state`: pending row or receipt; executor phase, renewals, recovery candidates | admit, renew, run, finalize, recover, acknowledge, clean up | no payload without its events; one terminal event; every admitted read ends |
| buffered recorder (`buffered_*.go`, `spill.go`, `batch_recorder.go`) | queue, retained batch, room count, waiters | record, overflow, wait, flush, retry, close, abandon | bounded memory, no silent loss, no lost wake-up, Close returns |
| external steps (`external*.go`) | intent and outcome events | record intent, run the effect, record the outcome | every effect has an intent; outcomes match |
| notarizer, export, verification | signed Merkle roots over chain heads | notarize, export, verify | a verified bundle is what the ledger held |
| partition manager | weekly partitions of the ledger | create, adopt a stray partition | a dated event finds its partition |
| node store (`foundationdb/node_*.go`, `relationship*.go`, `service/node_*.go`) | nodes with `parent_id`, edges in both directions, idempotency records, references, sequences | read snapshots, plan, apply if the snapshots still hold; add and remove edges; delete a leaf | edges and parent_id agree, no orphan, no circle, one node per key |
| subtree deletes (`foundationdb/node_delete_*.go`, `service/node_delete*.go`) | job record: root, destination of moved children, stack | start, one bounded transaction per step, resume by any process, clear | the job ends with the subtree gone, and nothing that moved out is lost |
| search work (`foundationdb/search_work*.go`, `search_schedule*.go`, `search_access_*.go`, `search_retirement.go`, `service/search_worker*.go`, `adapters/search`) | per node: generation, revision, one work record, claim and checkpoint per class, issued pages, pending write deadlines | schedule in the source transaction, claim, register, write guarded, checkpoint, refresh, retire, tell dependents | settled work means the right pages with the right access; old writes never win |
| index replacement (`foundationdb/search_rebuild*.go`, `service/search_worker_rebuild*.go`) | the replacement record, the serving index, copy work, physical indexes, the public alias | begin, create or split, copy, verify, pause, switch, retire, recover | a settled node stays findable, sessions keep their snapshot, a replacement ends |
| search sessions and queries (`foundationdb/search_session*.go`, `service/search_query*.go`) | sessions, replay pages, visited nodes | open, page, replay, expire, clean up | a page is answered again as it was |
| authentication caches (`internal/auth`) | entries with a lifetime | look up, fill, drop | a revocation takes effect within the lifetime |
| backups and alarms (`internal/ops/backup_*.go`) | lock file, retention plan, alarm memory | back up, retain, drill, restore | retention never deletes what a restore reads |

The remaining parts (domain rules, ledger readers, MCP adapter, configuration,
load generator, command line, schema) are listed in `PROJECT.json` with the
reason they are not modelled.

### What is hard

* **Interleaving inside the database.** A rebalance leaves the old owner of a
  partition in its transaction while the new owner projects the same records.
  The head compare-and-swap, the identity claim and the savepoints are all
  that keeps the ledger right.
* **Calls that take effect without an answer.** Commits, produces, inserts and
  the functions of migration 021 may be executed after their caller gave up.
* **Leases that do not fence everything.** The relay's reads and produces, and
  a read's execution, go on after the lease is lost.
* **Crashes between two steps** of every multi-step protocol: store and
  complete, produce and clear, admit and finalize, accept and flush.
* **Plans made on old readings.** A move walks its new ancestors one transaction
  at a time, a subtree job uses a parent it read when it started, a search
  worker writes a page it read before the node changed.
* **Writes that arrive late.** OpenSearch may apply a page write long after its
  worker gave up, when the page has been retired or its index replaced.
* **Progress past failures.** Rewinds, refused events at the head of a
  bounded scan, retained batches, expired leases, Close against a dead broker,
  a paused switch that waits for work its own pause holds back.

`PROJECT.json`, "hazards", has each at its line with the property that covers
it.

## 2. Plan

| # | Modules | State |
|---|---|---|
| 1 | `AuditConsumer`, abstract `AuditTrail`, `AuditConsumerProofs` | checked; safety and the refinement proved |
| 2 | `EventAssembly`, `EventAssemblyProofs` | checked; safety proved |
| 3 | `OutboxRelay`, `OutboxRelayProofs` | checked; safety proved |
| 4 | `ReadLifecycle`, `ReadLifecycleProofs` | checked; safety proved |
| 5 | `BufferedRecorder`, `BufferedRecorderProofs` | checked; safety proved |
| 6 | `NodeTree` (node store and subtree deletes composed), `NodeTreeProofs` | checked; safety and the circle property proved |
| 7 | `SearchWork`, `SearchWorkProofs` | checked; safety proved |
| 8 | `SearchRebuild` (page work, replacement and a session composed), `SearchRebuildProofs` | checked; safety proved |
| 9 | search sessions with replay, `OperatorOutbox` | open |

Every safety property that a passing run checks is proved (section 5).

## 3. The models

Actions carry the name of the function or statement they model; `PROJECT.json`
"map" has their lines. Each module opens with its abstractions. Common to all:
`MaxFaults` bounds how many faults a behaviour has, `Fault` is the conjunct of
an action that spends one, and the other `Max...` constants bound counters the
code leaves unbounded. A definition that no action uses and that sits just
before the one it resembles (`HeadUnchecked` before `HeadUnmoved`) is the
plausible bug the property behind it is known to catch.

### AuditConsumer

A consumer polls up to `BatchSize` records of each partition it owns (`Poll`)
and projects the batch of one partition in one transaction: `BeginBatch`, then
per record `RejectPayload` | `ClaimIdentity` or `AlreadyProjected`,
`ReadChainHead`, `AppendRow` or `RefuseRow` or `ChainConflict`; then
`CommitBatch`. `FinishPoll` marks the committed partitions in Kafka and rewinds
the failed ones (consumer_fetches.go). What an open transaction has written is
in the `tx...` variables and becomes visible at commit; a statement that touches
a row another transaction wrote waits for it, `DeadlockVictim` ends a cycle of
waiters, `DatabaseError` and `CommitUnacknowledged` are the failing calls, and
`Crash` and `Assign` move partitions between consumers at any moment.
`ListDeadLetters` and `Replay` are the operator's command. Statements read the
newest committed data; under repeatable read a stale statement fails, which
`DatabaseError` covers.

A hash is the sequence of events it covers, so equal hashes mean equal
histories; this is the assumption that the hash has no collisions. The
partition manager appears as `CoverWeek`, which gives an event the weekly
partition it lacked.

`AuditTrail` is what a reader of the ledger relies on: per chain a sequence
that is only extended, in which no event occurs twice. `ImplementsTrail` maps
the committed rows to it.

### EventAssembly

Events too large for a record, as parts and a manifest of one transport digest.
`SkipMessage`, `RejectMessage` and `StoreMessage` are the outcomes of
`storeTransportMessage`, `CommitBatch` advances the offset with them, and
`ScanReady`, `LockAssembly` and `CompleteAssembly` | `MarkInvalid` |
`RefuseAssembly` are the completion worker, which every consumer runs after
every poll on *all* partitions. The statements for one message are one step,
since they read one snapshot inside one savepoint.

Transactions run at repeatable read, the level docs/review-log.md:28 says the
deployed database gives them. `snap` is what a batch transaction reads beside
its own writes (`newAsm`, `newReady`, `newStored`, `newDead`), and `stale` the
rows that others have changed since. A write waits for a row another open
transaction has written or locked (`RowFree`) and fails on a stale one
(`RowCurrent`); `RetryBatch` is the fresh transaction after that, or after a
deadlock. `Plain` events were also recorded as a plain record; two digests of
one event are two encodings of it. The chain append is one step here because
AuditConsumer has it in detail.

### OutboxRelay

Entries are their place in commit order (versionstamped keys). A relay's loop
is `HoldLease` or `HoldDenied`, `ReadBatch`, `ProduceEntry` one by one and
`ClearThrough`, the only transaction that checks the lease. `ExpireLease` may
come at any moment, also in the middle of a drain; `ReadFails`, `ProduceFails`
and `ClearFails` fail with and without effect; `Close` releases the lease while
the drain may go on (the grace period), and `Crash` leaves the lease to a dead
owner (`Gone`). `RejectEntry` is an entry that does not decode: the drain ends
before it, and the relay retries it for ever.

### ReadLifecycle

One request reads for one organization or for several (`ExecuteReadGroup`). Its
phases are `Admit` (retried), `RunRead` while `Renew` extends the leases,
`CheckOwner` and `SaveFinal` per organization, and only then `Answer` returns the
payload or the read's own error; `Withhold` keeps both back when an event could
not be saved. The outcome that is recorded is the reader's own verdict and does
not follow from the payload: a read without an error may call itself refused or
failed, and its payload is still returned. `RunRead` therefore chooses the two
separately (`ReadOutcomes`, `payload`). `Scan` and `RecoverOne` are the recovery loops, which take no lock.
Each call of the store has a `...Lost` variant after which the statement may
take effect at any later time (`strays`, `ResolveStray`), also after its
caller has crashed. `Relay`, `RelayFails` and `Cleanup` take the record to Kafka
and the row through publication to deletion.

### BufferedRecorder

One step per critical section of the recorder's two locks. `Record` enqueues,
overflows to the outbox, records through, or starts to wait (`WaitForRoom`,
`GiveUp`). The flusher takes (`Take`, `Dequeued`), delivers what is due in
chunks (`DeliverNext`, `EndChunk`), keeps what failed, backs off (`Postpone`)
and drains at `Close` until `Abandon` at the deadline. `spilling`, chosen in the
initial state, is the wiring: a Kafka recorder with the outbox as spill and
overflow, where a `Poison` event cannot be marshalled and is counted as dropped;
or the ledger recorder without one, where requests wait for room and the ledger
refuses such an event always. Not modelled: Kafka without an outbox behind it,
and a panic of the flusher. With as many forever-refused events as `Capacity`,
waiting callers depend on their timeout; the instance has fewer.

### NodeTree

A request reads, plans and applies in separate transactions. `BeginMove`,
`BeginCreate` and `BeginDelete` take the snapshots of the source and the first
ancestor, `Walk` reads one more ancestor per transaction, and `Apply` or
`DeleteNode` commits only if everything the plan read still holds (`Accepted`,
`PlanHolds`: digests, parent chain, edges, incoming references). `ApplyUnknown`
and `DeleteNodeUnknown` are commits whose result is unknown and which therefore
run again on their own effects. `AddLink` and `Remove` are relationship
requests, with the guard against removing the only parent (`MayRemove`).

`StartSubtreeDelete` stores a job with the parent its moved children will go to;
each `DeleteSubtreeStep` is one transaction on the last node of the stack: a
vanished node is popped (`StepGone`), its first hierarchy child is moved to the
stored parent or put on the stack (`StepChild`), a page of its edges is cleared
when there are too many (`StepPage`), or it is deleted (`StepDelete`). Any
process may take the next step. `EdgePage` is the bound the code puts on edges
per transaction, and `Under` the type rules. Older data with two parent edges of
one node is an initial state, because the code handles it. `invalid` holds the
nodes whose stored record strict validation refuses to write: `Revalidate`, an
event, changes it, as an activation or a schema change does, and `StrictRefuses`
then stops the mutations of such a node and the job's moves of it.
`StepFails` has the two refusals that no retry of a step gets over: a child with
several parents (`MeetsAmbiguous`) and a child that may move but whose moved record
is refused (`MoveRefused`).

Left out: references, sequences, schema epochs and the unchecked writes of
operator repairs.

### SearchWork

One node and its search work. A source change raises the generation and, by the
table `Plan`, rewrites, restarts or removes the pending work of every class
(`EditContent`, `Move`, `Delete`). Workers claim one class at a time (`Claim`).
A live slice reads the content, registers each page, probes its state in the
index and sends a conditional write (`ReadContent`, `Register`, `Probe`, `Send`,
`CompletePage`), refreshes and finishes, scheduling the cleanup of older pages.
An access slice compiles the node's access, rewrites every issued page and tells
its dependents (`Compile`, `BeginAccess`, `ReadDocuments`, `UpdateAccess`,
`CompleteAccess`, `ScheduleDependents`). A cleanup slice retires pages, and the
last one of a deleted node removes its search state. `TimesOut` and `Crash`
leave a request in `late`, which `LateArrives` may apply at any later time; the
code's defence is the pending deadline (`PendingExpires`) together with the
generation and the sequence number every write is conditional on. `Exclude` is
the node without a permission boundary. `Restart` is the text that changed under
the cursor, and also the refresh that finds its pages made by a projection that is
no longer active (restartObsoleteProjection).

A page's text is its revision, its access one grant. `Returns` says whether a
node may come back to a grant it has left: without it SettledAccess holds, with
it the finding below appears.

### SearchRebuild

The same page work reduced to its control, around the replacement of the index.
The record goes through creating, copying, verifying, switching and retiring, or
to failed; `ClaimRebuild` dispatches on it, and each further action is one
transaction or one engine request of rebuildCreate, rebuildCopy, rebuildVerify,
rebuildSwitch, rebuildRetire or rebuildRecover. `BeginRebuild` starts a full, a
split or a restored one. From copying on, page writes also go to the
replacement: `MirrorPut` after `Put`, `MirrorMissed` when it fails or is given
up, `CompletePage` with the owed copy in the same transaction, `KeepMirrorMiss`
when the checkpoint itself is refused. `StepFails` abandons a slice anywhere, and
`TargetNotGreen` and `SplitFails` are the failures that end a replacement.
`OpenSnapshot`, `CreateSession` and `SessionEnds` are one search session.

The slices of all workers are one sequence: the record changes only under the
claim of the rebuild item, and a slice's context is cancelled when its lease
ends. Index operations are applied in the order of submission, except abandoned
page writes. Leases, the pause and the write horizon are facts that time may
end. One node, verification in batches of one; access and cleanup work are
SearchWork's. Access rollouts are left out, so all pages have the required write
versions and verification schedules copies but no access work
(scheduleAccessRepair). `Mixes` bounds which numbers of changes, replacements and
faults come together. dropSearchWork, which clears a copy item that has no replacement to
go to, has no action: no reachable state has such an item (also with 2 workers or
2 faults), and `Finished` in RebuildEnds says that none is left.

## 4. The runs

| Run | Instance | Shows |
|---|---|---|
| `audit_ledger` | 2 consumers, 1 partition and chain, 3 events (one malformed, one refused until its week is covered), 2 records, batches of 2, 2 attempts, 2 faults, operator replays, fair | ChainIntegrity, OneRowPerEvent, PIIFollowsRow, OffsetsNeverLeadLedger, LastUsedIsNewest, DeadLettersKept, refinement ImplementsTrail, EveryRecordSettles |
| `assembly` | 2 consumers, 2 events of 1 part: one in 2 encodings, plain too and refused for a while, one never verified; scan limit 1, log of 4, 1 fault, fair | ReadyExactlyWhole, CompletionIsClean, OffsetsCoverMessages, EvidenceKept, PublishedIsAssembled |
| `relay_drain` | 2 relays, 4 entries (the third undecodable), batches of 2, 2 faults, fair | NothingLost, InCommitOrder, ReceiptsArePublished, DrainCompletes |
| `read_end` | a group read of 2 with any outcome, with or without a payload, 2 recovery loops, 2 leases, 1 fault, fair | ReturnedIsRecorded, OneTerminalEvent, ReceiptsMatch, ReadsEnd |
| `buffer` | 5 events (a write, one refused for ever), capacity 2, batches of 2, 1 fault, both wirings, fair | MemoryBounded, AcceptedIsKept, NoLostWakeup, AcceptedIsDelivered, NobodyHangs |
| `node_tree` | 2 requests on a chain of 4 nodes, with and without an older second parent, 1 key, edge page 1, 1 event (a link, a validation change or an unknown commit), fair | ParentsAgree, NoOrphans, OneNodePerKey, PlansKeepAcyclic, JobsEnd |
| `search_work` | 2 workers, 2 grants, 1 page per revision, 2 events (changes or faults), fair | ActivePagesIssued, SettledContent, SettledAccess, DependentsTold, GenerationsRise, WorkDrains |
| `index_switch` | 1 worker, 2 pages, a session; 1 change, 1 replacement and 1 fault, or 2 replacements and 2 faults, any modes, fair | SettledIsSearchable, SnapshotsKept, RebuildEnds |
| `search_retired` | 2 workers, 1 event | violation: finding 1 |
| `search_access` | 1 worker, `Returns`, 2 events | violation: finding 2 |
| `node_cycle` | 3 requests on a chain of 4 nodes | violation: finding 3 |
| `alias_lost` | 1 replacement, 2 faults | violation of FailedKeepsAlias: finding 4 |

The bounds are chosen so that each race happens. Two records of an event mean
that one is a redelivery, batches of two mean that a savepoint follows another
in the same transaction, and two faults allow a rebalance followed by a lost
commit of the new owner. Four entries in batches of two give two drains with the
undecodable entry in the second. Two reads in one group are the least with a
partial finalization. Five requests on a capacity of two fill the queue, the
flusher's batch and the overflow. Where a fair run is small, its invariants do
not depend on it: those of AuditConsumer, EventAssembly, OutboxRelay,
ReadLifecycle, BufferedRecorder, NodeTree, SearchWork and SearchRebuild are
proved for all constants (section 5).

The chain of four with two requests has the cases of NodeTree: two moves that
close a circle only together, a delete below a moved node, a job that meets the
other's changes, and a page of edges that does not hold all of them. `search_work`
spends its two events on two changes, a change and a fault, or two faults. The
invariants of `index_switch` were also run on larger instances without a
violation before they were proved: with 2 workers (9.6 million), with 2 faults (5.0
million) and with 2 changes of one page (2.3 million). Its second mix, two
replacements and two faults, is for RebuildEnds: a fault between MoveAlias and
CompleteSwitch and a target that then is not green strand the alias, and a second
replacement may follow. A change together with two faults was run once for all
three properties with one page (1.0 million states, also without a violation);
RebuildEnds with a change and two replacements is not checked. The fair runs use no
symmetry.

`assembly` has the least number of messages (a part and a manifest) and of
consumers with which the last two rows of an assembly are stored by racing
transactions. Its four safety properties are proved for any number of consumers,
parts, encodings and faults; PublishedIsAssembled is checked here only. It speaks
of the event with one encoding, e2; the other one competes with it for the
completion worker.

Deadlock is checked for AuditConsumer, EventAssembly and OutboxRelay, which
poll for ever (`AllCaughtUp` and `CaughtUp` are an empty poll). It is switched
off where an instance ends: the requests of ReadLifecycle and NodeTree, a closed
recorder, and search work that has drained.

### Fairness

* **AuditConsumer.** WF of a consumer's loop, which nothing suspends; SF of its
  statements, since the database queues lock waiters and a later transaction
  does not overtake them for ever; WF of assigning an orphaned partition, the
  group coordinator's duty.
* **EventAssembly.** WF of the next step of each consumer's loop, whichever it
  is, of publishing what has begun and of covering a week. No fairness between
  poll and scan and none between lock waiters is needed: the log is finite and
  refused events are covered in the end.
* **OutboxRelay.** WF of each relay's loop, restarted when it ends, and of the
  expiry of a dead owner's lease. Nothing is assumed about faults except that
  they are finitely many.
* **ReadLifecycle.** WF of each request, recovery loop, the relay, the
  resolution of strays, lease expiry and cleanup; not of renewals.
* **BufferedRecorder.** WF of the flusher and of woken callers; SF of `Take` and
  `Stop`, because Go's select chooses at random among ready cases, of `Deliver`,
  because the backoff ends, and of `Abandon`, because the deadline passes. No
  fairness of `GiveUp`: NobodyHangs does not lean on the timeout.
* **NodeTree.** WF of the steps of a job, as far as ResumeSubtreeDeletes
  provides it: its pass ends at the first job whose step fails, so a job is
  promised nothing while another one is `Blocked`. JobsEnd excepts jobs whose
  own next step is refused each time as well. Requests may stop anywhere.
* **SearchWork.** WF of each worker's next step and of its claims per class, of
  the end of leases and of pending deadlines. The worker loop shares its time
  between the classes by weight, so no class is passed over for ever.
* **SearchRebuild.** The same, and WF of the rebuild slices and of the end of a
  session, which has an absolute deadline. Nothing is assumed about late arrivals.

### Findings

1. `search_retired`. A cleanup slice that claimed before a revision's pages were
   refreshed clears the cleanup record that the refresh has just scheduled at
   the same generation (search_retirement.go:165). The older pages stay
   searchable with no work left to retire them.
2. `search_access`. Access work compares the compiled access with the recorded
   one, not with what the pages hold (search_access_progress.go:48). A node that
   moves away, is written, and moves back keeps pages with the other grant.
   Results are authorized when read, so the effect is a missing result.
3. `node_cycle`. A subtree delete moves a child of its root to the parent that
   was read when the job started, without looking at that parent's ancestors
   (node_delete_move.go:59). After two legal moves that parent is below the
   child, or is the child.
4. `alias_lost`. search_worker_rebuild.go:129 says of a failed replacement "The
   public alias still selects the source in this state." Not when the switch was
   interrupted after moveAlias and the target is then not green until
   ReplacementPauseLimit: the record goes to failed with the alias on the target,
   recovery deletes the target, and the alias selects nothing. Ranker.Open then
   refuses every new search, and a later replacement fails at moveAlias each time,
   with the claims paused. RebuildEnds states this as its one exception
   (`AliasStranded`): such a replacement ends without an alias, and nothing is
   promised of the ones after it.

Divergences that were met on the way and have no run of their own:

* SessionStore.Create does not read the serving index. A session whose snapshot
  was opened before the switch and stored after the retirement scan can lose its
  index; SnapshotsKept is stated for the others (`session.late`).
* node_delete_jobs.go says ResumeSubtreeDeletes "finishes every running subtree
  delete job without a step in the last staleAfter". A job that meets a node
  with several parents, or a child whose move strict validation refuses, fails its
  step every time, and the pass ends there, so stale jobs with later IDs are not
  resumed.
* dlq.go:66 says `attempt_count` counts operator replays and nothing else. A
  replay that fails again and is delivered again is counted again.
* dlq.go:15 calls the dead-letter table the landing zone for every event the
  consumer could not commit. An assembled event that fails verification stays in
  `event_assemblies` with an `invalid_reason`.
* consumer_offsets_read.go:30 says every record before a committed offset is in
  the ledger or the dead-letter table. A stored part of a large event is in
  neither until the event is complete; OffsetsCoverMessages is what holds.
* The 24 hours of a create's idempotency record are honoured by the service's
  lookup only; the store's check has no expiry, and refuses a key whose node was
  deleted. An update, a delete or a create without a key reports a conflict
  when its first commit of unknown result did apply.

## 5. The proofs

All theorems hold for every value of the constants that satisfies the named
assumption of the module (`ConstantsAssumption`, `NoHeadAssumption`,
`AssemblyAssumption`, `RelayAssumption`, `ReadAssumption`, `BufferAssumption`,
`NodeTreeAssumption`, `SearchWorkAssumption`, `SearchRebuildAssumption`): the
functions have their domains, the sentinels are not members of the sets they
extend, and sizes are positive. The sets need not be finite. TLC evaluates these
assumptions in every run.

* **AuditConsumerProofs, TypeCorrect.** The type of a record under projection
  depends on its index lying inside its partition, so the invariant adds
  `BatchBounds`: batches are stretches of their partition and an open
  transaction is at a record of a fetched batch.
* **AuditConsumerProofs, ChainsNeverFork.** ChainIntegrity is not inductive: a
  commit publishes rows numbered and hashed earlier, on a head read earlier
  still. `ChainInv` says what an open transaction has prepared. Together with
  the committed rows it is a chain already (`PreparedChains`); nobody else
  prepares on that chain (`OneWriterPerChain`, from the row lock); and a head
  that was read and still has its number is still the head
  (`ReadIsCurrentOrOld`). The last is why comparing `seq` alone in the
  compare-and-swap is enough.
* **AuditConsumerProofs, EventsProjectedOnce and PIIExactlyWithRow.** Claims of
  open transactions are disjoint from each other and from the committed ones, and
  each belongs to a prepared row or to the current record; the PII rows of a
  transaction are those of its claims.
* **AuditConsumerProofs, NothingLostBehindOffsets.** An offset is committed from a
  batch fetched, projected and perhaps taken over long before, and the dead letter
  a transaction counts on may be deleted by another. `LetterInv` says what a dead
  letter is, that one open transaction at a time holds its key, and that a
  transaction which took one over writes it again or has settled its event;
  `OffsetInv` follows the positions from the offset a partition is resumed at,
  through the batch fetched there, to the offset committed for it.
* **AuditConsumerProofs, TokenUseIsNewest and DeadLettersOnlyResolved.** The newest
  use an open transaction has collected is one of its prepared rows', and what it
  resolves it has found projected or has prepared.
* **AuditConsumerProofs, LedgerImplementsTrail.** Every step is an extension of some
  chains at their ends by events no chain has, or a stutter. The number of rows
  of a chain is its head's sequence number, so a commit keeps every place.
* **EventAssemblyProofs, ReadyMeansWhole, CompletionsAreClean, MessagesAreCovered,
  EvidenceOnlyMoves.** None of the properties is inductive, since a commit merges
  rows decided on an old snapshot into tables that have moved on. `IInv` says that
  the committed tables are consistent (`Consistent`: ready means whole, one
  encoding per event, nothing of a completed event left) and that what a batch
  transaction sees, its snapshot with its own writes, is a consistent set of
  tables too, in which every message before the one at hand is settled (`TxGood`).
  The conflict rules of repeatable read then carry the proof: rows others changed
  since the snapshot are stale for the transaction (`SnapshotLasts`,
  `SnapshotCurrent`), its own rows are still free (`WritesNew`), and two open
  transactions write different rows (`WritesApart`). So a commit merges two
  consistent sets that differ only in rows one of them did not touch. `LocksGood`
  is the same for a completion's row lock.
* **OutboxRelayProofs, NoEntryLost, DeliveredInOrder, ReceiptsHonest.** Each
  drain has delivered everything up to its mark and to what it accepted
  (`Progress`), and everything before an entry of its batch is in the batch or
  delivered (`BatchIsNext`), because entries leave the outbox only when
  delivered. The lease does not occur in the argument: safety does not depend on
  it, only the amount of duplicated work does.
* **ReadLifecycleProofs, PayloadNeedsRecord, TerminalEventUnique,
  ReceiptsAgree.** A record exists only for a read whose row is its receipt or
  has been cleaned up for good (`SentClosed`), so a pending read has none and
  whoever turns the row into a receipt writes the only one. `ExecutorInv` says
  which final events a request has seen saved: its own, with the outcome of the
  read and the evidence of its payload. PayloadNeedsRecord is about the answer,
  payload or error, whatever the outcome.
* **BufferedRecorderProofs, BufferBounded, NothingAcceptedVanishes,
  WakeupsAreKept.** The room's count lags behind the flusher by at most a batch
  (`Slack`), what an attempt has passed is stored, counted or among its losses
  (`Handled`), and `Phase` says what may be left in memory at each stage of the
  shutdown.

* **NodeTreeProofs, ParentEdgesKept, NoDeleteOrphans.** Proved together: that a
  node's parent exists and that the edge to it is there need each other, since a
  plan checks edges and a delete checks incoming edges. The inductive invariant
  is `TypeInv` with ParentsAgree and NoOrphans; each action needs only that what
  its plan read still holds in the transaction that applies it.
* **NodeTreeProofs, KeyCreatesOnce.** `KeyInv`: every node created with a key is
  the node its idempotency record names.
* **NodeTreeProofs, NoPlanClosesCircle.** A circle that appears in an applied
  plan must go through the moved node, so it contains the new parent and then,
  one after the other, every ancestor the plan read; `ChainHolds` compares that
  chain with the stored one at commit, and it ends at a root or before the moved
  node. The argument needs no bound on the depth.

* **SearchWorkProofs.** What reaches the index was decided on a page reading, a
  registration, a claim and a generation that may all be old, so every property
  needs the worth of old decisions. `Effect` first groups the 28 actions by what
  they change; each layer of the invariant is then shown once per group.
  *TypeCorrect, RecordsStayCurrent*: `TypeInv` ties records, checkpoints and
  slices to the node's counters; the bound on revisions needs that a change owes
  at most one exclusion (`Owed`). *PagesStayIssued, GenerationsNeverFall*:
  `IndexInv` says that while a request's sequence number is the page's, the page
  is what its decision read, and that a page whose content is on its way stays
  issued until it is retired. *ContentSettles*: `Reached` counts the pages the
  live work, or its absence, promises; `ContentInv` has them served, and says that
  a cleanup of a node that left search has every issued page before it.
  *DependentsStayTold*: `ToldInv` follows the recorded access from the access
  record through the checkpoint and the slice to what dependents were told.
  *AccessSettles*: `LiveInv` keeps older content away from pages that are done
  (`Covers`), `SlicesFresh` and `CursorFresh` say which pages the access loop has
  behind it, across checkpoints and takeovers, and `PagesAccessGood` that a
  recorded access, or the one registered pages are tracked with, is in every done
  page with no older update under way (`NoStray`). It has the hypothesis
  `~Returns`: with it, an access the node moves to is new, and no record, page or
  late request can hold it already (`UsedGood`); without it the property is false,
  which is finding 2.
* **SearchRebuildProofs, TypeCorrect and SnapshotsAreKept.** A slice may be
  abandoned anywhere and taken up again from the record alone. `MachineInv` says
  in which states of the record a position of a slice can be (`StateAt`), which
  index serves and which are source and target (`Roles`) and which exist
  (`Standing`); `WorkInv` ties records, checkpoints and late requests to the
  revision and to the claims. `SessionInv` says that a session's index is the
  serving one, or the source of a replacement that has still to look for sessions
  before it deletes it.
* **SearchRebuildProofs, SettledStaysSearchable and SwitchHasNoGap.**
  SettledIsSearchable is about the serving index, and the switch changes which
  one that is, so the invariant follows both. `Served`: a page that live work has
  passed is in the serving index. A `Gap` is a page which the replacement lacks
  and neither live work nor a copy still brings; `Gaps` says that verification
  has still to come to every gap, and that there is none while the record says
  switching. `Stored` and `LeftToCopy` say what a worker between two transactions
  has done for the page it holds: a mirror write that was missed or skipped
  becomes an owed copy in the transaction that moves the checkpoint. `Window`:
  from the end of the pause to the switch no lease is held and no copy is owed, so
  what the refresh of the replacement has made searchable stays so until it
  serves. The steps of the workers, of time and of the slice are each shown to
  have one common shape (pages are only added, progress only from what is stored,
  copies only end when stored), and that shape preserves the page invariant.

The type invariants of OutboxRelay, ReadLifecycle, BufferedRecorder and NodeTree
are conjuncts of their inductive invariants; AuditConsumerProofs,
EventAssemblyProofs, SearchWorkProofs and SearchRebuildProofs state TypeCorrect.
Every inductive invariant was an invariant of a TLC run before it was proved.

**Only model-checked.** The nine liveness properties, which need ENABLED and are out
of the prover's reach. The properties of the runs that expect a violation are false
(section 4).

## 6. Not modelled

Field validation, JSON, hashing and signatures are verdicts or injective
encodings. Clocks are nondeterministic expiries. Kafka is a log with a group
offset per partition, and the broker neither loses nor reorders what it
acknowledged. The database is a set of tables with row locks and the isolation
each model names; FoundationDB transactions are atomic steps, and
OpenSearch applies a conditional write atomically.

What is left of the stateful parts, and why:

* **Search sessions and queries** beyond the life of a session in SearchRebuild:
  page replay and visited nodes are single FoundationDB transactions on one
  session's keys, and ranking is OpenSearch's.
* **Search access rollout, projections, model repair, warnings.** Scans that
  schedule the work SearchWork models; their own records are cursors.
* **Operator outbox inserts, external steps, notarizer, export.** Inserts with a
  reconnect and recorded intents produce events that AuditConsumer projects;
  notarization and export are signatures over a ledger that is only extended
  (`AuditTrail`).
* **Node references, sequences, schema epochs.** One-transaction counters and
  keys beside the mutations NodeTree has.
* **Authentication caches, ledger tables, MCP adapter.** Single-statement writes
  and entries with a lifetime.
* **Backups, restore drills, deployment and repair commands** (`internal/ops`,
  a quarter of the code): sequences of external tools, whose state and failure
  semantics are those of the tools.
* **Generated code, configuration and wiring, load generator, test environment,
  Terraform provider, command line**: no protocol of their own.
