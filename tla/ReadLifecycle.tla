--------------------------- MODULE ReadLifecycle ---------------------------
(***************************************************************************)
(* Audited reads: internal/audit/read_executor*.go, read_lifecycle.go,     *)
(* read_recovery*.go, read_pending_yb.go and the ops_read_* functions of   *)
(* migrations/021_audit_read_pending.sql, with the relay as far as it      *)
(* touches receipts.                                                       *)
(*                                                                         *)
(* A request admits one read event per organization, runs the read while   *)
(* it renews the leases, saves the final events and only then returns the  *)
(* payload.  Recovery workers, one per application instance and without a  *)
(* lock, save an "incomplete" event for a read whose lease expired.  A     *)
(* call whose answer is lost may still take effect later ("stray").        *)
(*                                                                         *)
(* Data abstraction: a transport digest is the record it is a digest of; a *)
(* lease deadline is a renewal count and a flag.  An event ID and its      *)
(* owner token are made for one admission, so the owner comparison is      *)
(* between equal values here.                                              *)
(***************************************************************************)
EXTENDS Naturals, FiniteSets

CONSTANTS
    Reads,      \* the read events, in the order their request admits them
    Requests,   \* the requests; each belongs to one execution of ExecuteRead(Group)
    RequestOf,  \* the request of each read
    Workers,    \* recovery loops
    ScanLimit,  \* ReadRecoveryScanLimit
    MaxLease,   \* bound: leases of one read, the first and its renewals
    MaxFaults   \* bound: lost calls, crashes, invalid results

ASSUME ReadAssumption ==
    /\ Reads \subseteq Nat /\ RequestOf \in [Reads -> Requests]
    /\ ScanLimit \in Nat \ {0} /\ MaxLease \in Nat /\ MaxFaults \in Nat

Executor == "executor"
\* How a read's own event may end: a tool, the JSON-RPC body or the HTTP status
\* decides, whether or not there is a payload.
ReadOutcomes == {"completed", "refused", "failed"}
Outcomes == ReadOutcomes \cup {"incomplete"}
\* An encoded terminal event, with or without the evidence (digest) of a
\* payload; two recoveries observe different times.
Record == [ev : Reads, outcome : Outcomes, evidence : BOOLEAN, by : Workers \cup {Executor}]
\* A row of public.ops_read_state
NoRow == [kind |-> "none"]
PendingRow == [kind : {"pending"}, gen : Nat, lease : Nat, late : BOOLEAN, open : BOOLEAN]
Receipt == [kind : {"done"}, rec : Record, published : BOOLEAN]
RowStates == {NoRow} \cup PendingRow \cup Receipt
\* A call whose answer the caller no longer waits for
Call == [op : {"begin"}, ev : Reads]
            \cup [op : {"renew"}, ev : Reads, gen : Nat]
            \cup [op : {"finalize"}, ev : Reads, gen : Nat, rec : Record]
            \cup [op : {"recover"}, ev : Reads, gen : Nat, lease : Nat, rec : Record]

VARIABLES
    row,       \* public.ops_read_state by event
    outbox,    \* terminal records waiting for the relay
    sent,      \* records Kafka has
    strays,    \* calls in flight without a caller
    \* ------------------------------------------------------- per request
    phase,     \* "admit", "run", "check", "save", or how the request ended
    todo,      \* reads the phase still has to deal with
    result,    \* outcome of the read, "none" before it ran
    payload,   \* the read gave a payload that could be encoded
    token,     \* per read: the generation its owner holds, 0 before admission
    renewing,  \* reads whose renewal goroutine runs
    \* ------------------------------------------------------- per worker
    cands,     \* expired reads of the current scan
    faults

store == <<row, outbox, sent>>
executor == <<phase, todo, result, payload, token, renewing>>
vars == <<store, strays, executor, cands, faults>>

ReadsOf(q) == {e \in Reads : RequestOf[e] = q}
\* The payload is returned; the read's own error is; ErrReadNotRecorded is; the
\* process is gone.
Ended == {"returned", "failed", "withheld", "dead"}

TypeOK ==
    /\ row \in [Reads -> RowStates]
    /\ outbox \subseteq Record /\ sent \subseteq Record
    /\ strays \subseteq Call
    /\ phase \in [Requests -> {"admit", "run", "check", "save"} \cup Ended]
    /\ todo \in [Requests -> SUBSET Reads]
    /\ result \in [Requests -> {"none"} \cup ReadOutcomes]
    /\ payload \in [Requests -> BOOLEAN]
    /\ token \in [Reads -> Nat]
    /\ renewing \subseteq Reads
    /\ cands \in [Workers -> SUBSET [ev : Reads, gen : Nat, lease : Nat]]
    /\ faults \in Nat

Init ==
    /\ row = [e \in Reads |-> NoRow]
    /\ outbox = {} /\ sent = {} /\ strays = {}
    /\ phase = [q \in Requests |-> "admit"]
    /\ todo = [q \in Requests |-> ReadsOf(q)]
    /\ result = [q \in Requests |-> "none"]
    /\ payload = [q \in Requests |-> FALSE]
    /\ token = [e \in Reads |-> 0]
    /\ renewing = {}
    /\ cands = [w \in Workers |-> {}]
    /\ faults = 0

Fault == faults < MaxFaults /\ faults' = faults + 1

Stray(c) == strays' = strays \cup {c} \/ UNCHANGED strays
----------------------------------------------------------------------------
\* The statements of the store, each one transaction

Pending(e) == row[e].kind = "pending"
Owned(e, g) == Pending(e) /\ row[e].gen = g
\* Seeded fault: finalization asks only whether the read is known.
KnownRead(e, g) == row[e] # NoRow

\* ops_read_finalize accepts the token: the read is pending under its generation.
MayFinalize(e, g) == Owned(e, g)

\* Seeded fault: the receipt is found by its owner alone.
AnyReceiptConfirms(e, rec) == row[e].kind = "done"

\* A terminal receipt confirms an earlier finalization (ConfirmsReadCommit).
Confirmed(e, rec) == row[e].kind = "done" /\ row[e].rec = rec /\ rec.outcome # "incomplete"

\* ops_read_begin on an unknown event
OpsReadBegin(e) ==
    row' = [row EXCEPT ![e] = [kind |-> "pending", gen |-> 1, lease |-> 1, late |-> FALSE, open |-> TRUE]]

\* ops_read_renew
OpsReadRenew(e) == row' = [row EXCEPT ![e].lease = @ + 1, ![e].late = FALSE]

\* Seeded fault: the receipt is committed before the event.
SaveReceiptFirst(e, rec) ==
    /\ row' = [row EXCEPT ![e] = [kind |-> "done", rec |-> rec, published |-> FALSE]]
    /\ outbox' = outbox \cup {rec} \/ UNCHANGED outbox

\* The terminal receipt takes the place of the pending row, with the event in
\* the outbox.
SaveTerminal(e, rec) ==
    /\ row' = [row EXCEPT ![e] = [kind |-> "done", rec |-> rec, published |-> FALSE]]
    /\ outbox' = outbox \cup {rec}

\* ops_read_recover: nobody renewed since the scan, and the lease is still over.
Recoverable(e, g, l) == Owned(e, g) /\ row[e].lease = l /\ row[e].late
----------------------------------------------------------------------------
\* The executor (executeReads)

\* The admissions are handled in order.
Turn(q, e) == e \in todo[q] /\ \A f \in todo[q] : e <= f
Last(q, e) == todo[q] = {e}
\* The renewals that go on when q's stop
OthersRenewing(q) == renewing \ ReadsOf(q)

\* The loop goes on to the next read, or to phase p with all of them.
Advance(q, e, p) ==
    /\ todo' = [todo EXCEPT ![q] = IF Last(q, e) THEN ReadsOf(q) ELSE @ \ {e}]
    /\ phase' = [phase EXCEPT ![q] = IF Last(q, e) THEN p ELSE IF @ = "save" THEN "check" ELSE @]

\* notRecorded
Withhold(q) == phase' = [phase EXCEPT ![q] = "withheld"]

\* admitRead, BeginRead: a new row, or the retry of an admission that took.
Admit(q, e) ==
    /\ phase[q] = "admit" /\ Turn(q, e)
    /\ \/ row[e] = NoRow /\ OpsReadBegin(e) /\ token' = [token EXCEPT ![e] = 1]
       \/ Pending(e) /\ row[e].open /\ UNCHANGED row /\ token' = [token EXCEPT ![e] = row[e].gen]
    /\ Advance(q, e, "run")
    /\ renewing' = IF Last(q, e) THEN renewing \cup ReadsOf(q) ELSE renewing
    /\ UNCHANGED <<outbox, sent, strays, result, payload, cands, faults>>

\* ErrReadAdmissionExpired or ErrReadOwnerLost
AdmitRefused(q, e) ==
    /\ phase[q] = "admit" /\ Turn(q, e)
    /\ row[e].kind = "done" \/ (Pending(e) /\ ~row[e].open)
    /\ Withhold(q)
    /\ UNCHANGED <<store, strays, todo, result, payload, token, renewing, cands, faults>>

\* No answer: another attempt, or the retry window or the request is over.
AdmitLost(q, e) ==
    /\ phase[q] = "admit" /\ Turn(q, e)
    /\ Fault
    /\ Stray([op |-> "begin", ev |-> e])
    /\ Withhold(q) \/ UNCHANGED phase
    /\ UNCHANGED <<store, todo, result, payload, token, renewing, cands>>

\* KeepReadOwned: the first failed renewal is the last.
Renew(e) ==
    /\ e \in renewing
    /\ IF Owned(e, token[e])
         THEN row[e].lease < MaxLease /\ OpsReadRenew(e) /\ UNCHANGED renewing
         ELSE renewing' = renewing \ {e} /\ UNCHANGED row
    /\ UNCHANGED <<outbox, sent, strays, phase, todo, result, payload, token, cands, faults>>

RenewLost(e) ==
    /\ e \in renewing
    /\ Fault
    /\ Stray([op |-> "renew", ev |-> e, gen |-> token[e]])
    /\ renewing' = renewing \ {e}
    /\ UNCHANGED <<store, phase, todo, result, payload, token, cands>>

\* read() and prepareRead: a payload with the outcome its read gave it, or, when
\* the read or the encoding fails, none.  The renewals stop.
RunRead(q) ==
    /\ phase[q] = "run"
    /\ \E o \in ReadOutcomes, b \in BOOLEAN :
        /\ b \/ o = "failed"
        /\ result' = [result EXCEPT ![q] = o] /\ payload' = [payload EXCEPT ![q] = b]
    /\ phase' = [phase EXCEPT ![q] = "check"]
    /\ renewing' = OthersRenewing(q)
    /\ UNCHANGED <<store, strays, todo, token, cands, faults>>

\* readCompletion: the final event, the same bytes in every attempt
Final(q, e) == [ev |-> e, outcome |-> result[q], evidence |-> payload[q], by |-> Executor]
\* What executeReads returns after the last final event: the payload, whatever
\* the outcome, unless the read or its encoding failed
Answer(q) == IF payload[q] THEN "returned" ELSE "failed"

\* finalizeRead: no answer, so another attempt, or the deadline has passed.
RetryFinalize(q, e) ==
    /\ Fault
    /\ Stray([op |-> "finalize", ev |-> e, gen |-> token[e], rec |-> Final(q, e)])
    /\ \E p \in {"check", "withheld"} : phase' = [phase EXCEPT ![q] = p]
    /\ UNCHANGED todo

\* readCompletion fails: the final event does not validate.
InvalidCompletion(q) ==
    /\ phase[q] = "check"
    /\ Fault
    /\ Withhold(q)
    /\ UNCHANGED <<store, strays, todo, result, payload, token, renewing, cands>>

\* FinalizeRead, its first statement (ops_read_template)
CheckOwner(q, e) ==
    /\ phase[q] = "check" /\ Turn(q, e)
    /\ CASE Owned(e, token[e]) -> phase' = [phase EXCEPT ![q] = "save"] /\ UNCHANGED todo
         [] Confirmed(e, Final(q, e)) -> Advance(q, e, Answer(q))
         [] OTHER -> Withhold(q) /\ UNCHANGED todo
    /\ UNCHANGED <<store, strays, result, payload, token, renewing, cands, faults>>

\* ... and its second (ops_read_finalize)
SaveFinal(q, e) ==
    /\ phase[q] = "save" /\ Turn(q, e)
    /\ CASE Confirmed(e, Final(q, e)) -> Advance(q, e, Answer(q)) /\ UNCHANGED <<row, outbox>>
         [] MayFinalize(e, token[e]) -> SaveTerminal(e, Final(q, e)) /\ Advance(q, e, Answer(q))
         [] OTHER -> Withhold(q) /\ UNCHANGED <<todo, row, outbox>>
    /\ UNCHANGED <<sent, strays, result, payload, token, renewing, cands, faults>>

FinalizeLost(q, e) ==
    /\ phase[q] \in {"check", "save"} /\ Turn(q, e)
    /\ RetryFinalize(q, e)
    /\ UNCHANGED <<store, result, payload, token, renewing, cands>>

\* The calls a dying process leaves behind
InFlight(q, e) ==
    IF phase[q] = "admit" THEN [op |-> "begin", ev |-> e]
    ELSE IF phase[q] = "run" THEN [op |-> "renew", ev |-> e, gen |-> token[e]]
    ELSE [op |-> "finalize", ev |-> e, gen |-> token[e], rec |-> Final(q, e)]

Crash(q, e) ==
    /\ phase[q] \notin Ended /\ Turn(q, e)
    /\ Fault
    /\ phase' = [phase EXCEPT ![q] = "dead"]
    /\ renewing' = OthersRenewing(q)
    /\ IF phase[q] = "check" THEN UNCHANGED strays ELSE Stray(InFlight(q, e))
    /\ UNCHANGED <<store, todo, result, payload, token, cands>>
----------------------------------------------------------------------------
\* Strays: a statement reaches the server after its caller gave up, or never

StrayTakes(c) ==
    \/ c.op = "begin" /\ row[c.ev] = NoRow /\ OpsReadBegin(c.ev) /\ UNCHANGED outbox
    \/ c.op = "renew" /\ Owned(c.ev, c.gen) /\ row[c.ev].lease < MaxLease /\ OpsReadRenew(c.ev)
         /\ UNCHANGED outbox
    \/ c.op = "finalize" /\ MayFinalize(c.ev, c.gen) /\ SaveTerminal(c.ev, c.rec)
    \/ c.op = "recover" /\ Recoverable(c.ev, c.gen, c.lease) /\ SaveTerminal(c.ev, c.rec)
    \/ UNCHANGED <<row, outbox>>

ResolveStray(c) ==
    /\ c \in strays
    /\ strays' = strays \ {c}
    /\ StrayTakes(c)
    /\ UNCHANGED <<sent, executor, cands, faults>>
----------------------------------------------------------------------------
\* Recovery (RunReadRecovery), time and the relay

\* Seeded fault: the expiry index is written by renewals only.
RenewedExpired == {e \in Reads : Pending(e) /\ row[e].late /\ row[e].lease > 1}

Expired == {e \in Reads : Pending(e) /\ row[e].late}

\* ops_read_expired
Scan(w) ==
    /\ cands[w] = {}
    /\ \E S \in SUBSET Expired :
        /\ S # {} /\ Cardinality(S) <= ScanLimit
        /\ S # Expired => Cardinality(S) = ScanLimit
        /\ cands' = [cands EXCEPT ![w] = {[ev |-> e, gen |-> row[e].gen, lease |-> row[e].lease] : e \in S}]
    /\ UNCHANGED <<store, strays, executor, faults>>

\* IncompleteReadEvent
Incomplete(w, e) == [ev |-> e, outcome |-> "incomplete", evidence |-> FALSE, by |-> w]

RecoverOne(w, k) ==
    /\ k \in cands[w]
    /\ cands' = [cands EXCEPT ![w] = @ \ {k}]
    /\ IF Recoverable(k.ev, k.gen, k.lease) THEN SaveTerminal(k.ev, Incomplete(w, k.ev))
                                             ELSE UNCHANGED <<row, outbox>>
    /\ UNCHANGED <<sent, strays, executor, faults>>

\* A failed call, or a worker that stops, leaves the rest of the scan.
RecoverLost(w, k) ==
    /\ k \in cands[w]
    /\ Fault
    /\ Stray([op |-> "recover", ev |-> k.ev, gen |-> k.gen, lease |-> k.lease, rec |-> Incomplete(w, k.ev)])
    /\ cands' = [cands EXCEPT ![w] = {}]
    /\ UNCHANGED <<store, executor>>

\* The lease deadline passes; clocks may differ, so at any time.
ExpireLease(e) ==
    /\ Pending(e) /\ ~row[e].late
    /\ row' = [row EXCEPT ![e].late = TRUE]
    /\ UNCHANGED <<outbox, sent, strays, executor, cands, faults>>

CloseAdmission(e) ==
    /\ Pending(e) /\ row[e].open
    /\ row' = [row EXCEPT ![e].open = FALSE]
    /\ UNCHANGED <<outbox, sent, strays, executor, cands, faults>>

\* ops_read_acknowledge: TK003 when the receipt is of another record
AckRefused(m) == row[m.ev].kind = "done" /\ row[m.ev].rec # m

\* ClaimBatch for one row: publish, delete the row and mark the receipt.
Relay(m) ==
    /\ m \in outbox
    /\ sent' = sent \cup {m}
    /\ ~AckRefused(m)
    /\ outbox' = outbox \ {m}
    /\ row' = IF row[m.ev].kind = "done" THEN [row EXCEPT ![m.ev].published = TRUE] ELSE row
    /\ UNCHANGED <<strays, executor, cands, faults>>

\* Published, but the claim transaction failed.
RelayFails(m) ==
    /\ m \in outbox
    /\ IF AckRefused(m) THEN UNCHANGED faults ELSE Fault
    /\ sent' = sent \cup {m}
    /\ UNCHANGED <<row, outbox, strays, executor, cands>>

\* ops_read_cleanup: ReadReceiptRetention, an hour, is longer than the retry
\* windows of 30 seconds and than any call in flight.
Retained(e) == row[e].kind = "done" /\ row[e].published

Cleanup(e) ==
    /\ Retained(e)
    /\ phase[RequestOf[e]] \notin {"admit", "check", "save"}
    /\ \A c \in strays : c.ev # e
    /\ row' = [row EXCEPT ![e] = NoRow]
    /\ UNCHANGED <<outbox, sent, strays, executor, cands, faults>>
----------------------------------------------------------------------------
Execute(q) ==
    \/ RunRead(q)
    \/ \E e \in Reads : Admit(q, e) \/ AdmitRefused(q, e) \/ CheckOwner(q, e) \/ SaveFinal(q, e)

Recover(w) == Scan(w) \/ \E k \in cands[w] : RecoverOne(w, k)

Next ==
    \/ \E q \in Requests :
        \/ Execute(q) \/ InvalidCompletion(q)
        \/ \E e \in Reads : AdmitLost(q, e) \/ FinalizeLost(q, e) \/ Crash(q, e)
    \/ \E e \in Reads : Renew(e) \/ RenewLost(e) \/ ExpireLease(e) \/ CloseAdmission(e) \/ Cleanup(e)
    \/ \E c \in strays : ResolveStray(c)
    \/ \E w \in Workers : Recover(w) \/ \E k \in cands[w] : RecoverLost(w, k)
    \/ \E m \in outbox : Relay(m) \/ RelayFails(m)

Spec == Init /\ [][Next]_vars

\* Requests, recovery loops and the relay run; time passes.
FairSpec ==
    /\ Spec
    /\ \A q \in Requests : WF_vars(Execute(q))
    /\ \A w \in Workers : WF_vars(Recover(w))
    /\ WF_vars(\E m \in outbox : Relay(m))
    /\ WF_vars(\E c \in strays : ResolveStray(c))
    /\ \A e \in Reads : WF_vars(ExpireLease(e)) /\ WF_vars(Cleanup(e))
----------------------------------------------------------------------------
\* Properties

Recorded == outbox \cup sent

\* ExecuteRead returns a payload, or the read's own error, only after every
\* organization has the executor's event: with the read's own outcome, with the
\* payload's digest exactly when a payload is returned, and with no other event
\* (an "incomplete" of recovery, an earlier result) that contradicts it.
ReturnedIsRecorded ==
    \A e \in Reads : LET q == RequestOf[e] IN
        phase[q] \in {"returned", "failed"} =>
            \A m \in Record : m.ev = e =>
                (m \in Recorded <=>
                    /\ m.by = Executor /\ m.outcome = result[q]
                    /\ m.evidence = (phase[q] = "returned"))

\* Finalization, recovery and their lost calls race for one terminal event:
\* never two different ones, so the relay's retries are duplicates.
OneTerminalEvent == \A m, n \in Recorded : m.ev = n.ev => m = n

\* The receipt is of the record in the outbox until it is marked, so the relay
\* is never refused by ops_read_acknowledge and a marked one is at the broker.
ReceiptsMatch ==
    /\ \A m \in outbox : row[m.ev].kind = "done" /\ row[m.ev].rec = m /\ ~row[m.ev].published
    /\ \A e \in Reads : row[e].kind = "done" =>
        IF row[e].published THEN row[e].rec \in sent ELSE row[e].rec \in outbox

\* An admitted read, however its owner fails, reaches the broker as one event.
AdmittedIsSent == \A e \in Reads : Pending(e) ~> \E m \in sent : m.ev = e

\* The transient row of every read is gone in the end.
RowsAreTransient == \A e \in Reads : row[e] # NoRow ~> row[e] = NoRow

\* Every admitted read ends: its event is sent and its row removed.
ReadsEnd == AdmittedIsSent /\ RowsAreTransient
============================================================================
