------------------------ MODULE EventAssemblyProofs ------------------------
(***************************************************************************)
(* Proofs about EventAssembly: type correctness, ReadyExactlyWhole,        *)
(* CompletionIsClean, OffsetsCoverMessages and EvidenceKept, for any       *)
(* number of consumers, events, encodings and parts.                       *)
(*                                                                         *)
(* The argument: what a batch transaction sees, its snapshot with its own  *)
(* writes, is at every moment a consistent set of tables in which every    *)
(* message before the one at hand is settled.  The conflict rules of       *)
(* repeatable read keep the rows it has written apart from everything that *)
(* commits meanwhile, so a commit merges two consistent sets of tables.    *)
(***************************************************************************)
EXTENDS EventAssembly, TLAPS

----------------------------------------------------------------------------
\* The inductive invariant

\* A set of tables in which stored messages have their assembly's encoding,
\* ready assemblies are whole, and a stored manifest makes its assembly ready
MessageOf(e, i, d) == [ev |-> e, part |-> i, digest |-> d]

Consistent(T) ==
    /\ \A m \in T.stored : T.asm[m.ev] = m.digest
    /\ \A m \in T.stored : m.part = Manifest => m.ev \in T.ready
    /\ \A e \in T.ready :
        T.asm[e] # NoDigest /\ \A i \in Parts \cup {Manifest} : MessageOf(e, i, T.asm[e]) \in T.stored

\* The tables have taken the message in, or have a reason not to want it.
Settled(T, m) ==
    \/ T.completed[m.ev] # NoDigest
    \/ m.ev \in T.ledger
    \/ T.asm[m.ev] # NoDigest /\ (T.asm[m.ev] = m.digest => m \in T.stored)

\* What the statements of c read
Seen(c) ==
    [asm |-> [e \in Events |-> SeenAssembly(c, e)], ready |-> SeenReady(c), stored |-> SeenStored(c),
     completed |-> snap[c].completed, ledger |-> snap[c].ledger]

\* A manifest follows its parts, and the relay is as far as it says.
LogInOrder ==
    /\ \A k \in 1..Len(log) : log[k].part = Manifest =>
        \A i \in Parts : \E j \in 1..(k - 1) : log[j] = MessageOf(log[k].ev, i, log[k].digest)
    /\ \A e \in Events : \A i \in Parts : i < sent[e].next =>
        \E j \in 1..Len(log) : log[j] = MessageOf(e, i, sent[e].digest)

TablesGood ==
    /\ Consistent(Tables)
    /\ \A i \in 1..offset : Settled(Tables, log[i])

\* What the batch of c has done with message i
Handled(c, i) ==
    i \in newDead[c] \/ snap[c].completed[log[i].ev] = log[i].digest \/ log[i] \in SeenStored(c)

SeenGood(c) == Storing(c) =>
    /\ batch[c].from <= offset
    /\ Consistent(Seen(c))
    /\ \A i \in 1..(next[c] - 1) : Settled(Seen(c), log[i])
    /\ \A i \in (batch[c].from + 1)..(next[c] - 1) : Handled(c, i)

\* What a snapshot shows is still there or completed since ...
SnapshotLasts(c) == Storing(c) =>
    /\ snap[c].ledger \subseteq ledger
    /\ \A m \in snap[c].stored : m \in stored \/ completed[m.ev] = m.digest
    /\ \A e \in Events :
        /\ snap[c].asm[e] # NoDigest => assemblies[e] = snap[c].asm[e] \/ completed[e] # NoDigest
        /\ e \in snap[c].ready => e \in ready \/ completed[e] # NoDigest
        /\ \/ snap[c].completed[e] = completed[e]
           \/ snap[c].completed[e] = NoDigest /\ RowsOf(e) \subseteq stale[c]

\* ... and a row that is not stale is as the snapshot shows it.
SnapshotCurrent(c) == Storing(c) =>
    /\ \A m \in Message : RowOf(m) \notin stale[c] => (m \in stored <=> m \in snap[c].stored)
    /\ \A e \in Events : <<e, Manifest>> \notin stale[c] =>
        assemblies[e] = snap[c].asm[e] /\ (e \in ready <=> e \in snap[c].ready)

Touches(c, e) == newAsm[c][e] # NoDigest \/ e \in newReady[c] \/ \E m \in newStored[c] : m.ev = e

\* Uncommitted writes are new: of assemblies that are neither ready nor completed.
WritesNew(c) ==
    /\ \A e \in Events : newAsm[c][e] # NoDigest => assemblies[e] = NoDigest
    /\ \A e \in Events : Touches(c, e) => e \notin ready /\ completed[e] = NoDigest
    /\ \A m \in newStored[c], n \in stored : RowOf(m) # RowOf(n)

WritesApart(c, d) == c # d => \A row \in Written(c) : row \notin Written(d)

OneTx(c) == SeenGood(c) /\ SnapshotLasts(c) /\ SnapshotCurrent(c) /\ WritesNew(c)

TxGood ==
    /\ \A c \in Consumers : OneTx(c)
    /\ \A c, d \in Consumers : WritesApart(c, d)

\* The completion worker holds a ready assembly that nobody else holds, and
\* its consumer stores nothing meanwhile.
LocksGood ==
    /\ \A c \in Consumers : locked[c] \subseteq todo[c] /\ locked[c] \subseteq ready
    /\ \A c \in Consumers : todo[c] # {} => ~Storing(c)
    /\ \A c, d \in Consumers : c # d => locked[c] \cap locked[d] = {}

IInv ==
    /\ TypeOK /\ LogInOrder /\ TablesGood /\ TxGood /\ LocksGood
    /\ CompletionIsClean /\ OffsetsCoverMessages
----------------------------------------------------------------------------
\* Types

USE DEF Parts, Manifest

LEMMA DigestFacts ==
    /\ NoDigest \notin Digests
    /\ \A m \in Message : m.ev \in Events /\ m.part \in Parts \cup {Manifest} /\ m.digest \in Digests
                          /\ m = MessageOf(m.ev, m.part, m.digest)
    /\ \A e \in Events, i \in Parts \cup {Manifest}, d \in Digests : MessageOf(e, i, d) \in Message
BY AssemblyAssumption DEF Message, MessageOf

\* The message at hand is in the log.
LEMMA HasMessageFacts ==
    ASSUME TypeOK, NEW c \in Consumers, HasMessage(c)
    PROVE  /\ next[c] \in 1..Len(log) /\ batch[c].from < next[c] /\ next[c] <= batch[c].to
           /\ batch[c].from \in 0..Len(log) /\ batch[c].to \in 1..Len(log)
           /\ Msg(c) \in Message /\ Ev(c) \in Events /\ Msg(c).digest \in Digests
           /\ Msg(c) = log[next[c]]
<1>1. /\ batch[c].from \in 0..Len(log) /\ batch[c].to \in 0..Len(log) /\ next[c] \in Nat
      /\ batch[c].to > 0 /\ batch[c].from < next[c] /\ next[c] <= batch[c].to
    BY DEF TypeOK, HasMessage, Storing
<1>2. Len(log) \in Nat /\ log \in Seq(Message)
    BY DEF TypeOK
<1>3. next[c] \in 1..Len(log) /\ batch[c].to \in 1..Len(log)
    BY <1>1, <1>2
<1>4. Msg(c) \in Message
    BY <1>2, <1>3 DEF Msg
<1> QED BY <1>1, <1>3, <1>4, DigestFacts DEF Msg, Ev

\* Only a transaction with a message at hand is retried.
LEMMA RetryFacts ==
    ASSUME NEW c \in Consumers, RetryBatch(c)
    PROVE  HasMessage(c)
<1>1. CASE \E S \in SUBSET Consumers : c \in S /\ \A x \in S : \E y \in S \ {x} : WaitsFor(x, y)
    BY <1>1 DEF WaitsFor, Stores
<1> QED BY <1>1 DEF RetryBatch, Stores

LEMMA SeenTyped ==
    ASSUME TypeOK, NEW c \in Consumers
    PROVE  /\ \A e \in Events : SeenAssembly(c, e) \in Digests \cup {NoDigest}
           /\ SeenReady(c) \subseteq Events /\ SeenStored(c) \subseteq Message
           /\ Written(c) \subseteq RowName
           /\ snap[c] \in Snapshot
BY DigestFacts DEF TypeOK, SeenAssembly, SeenReady, SeenStored, Written, RowOf, RowName, Snapshot

LEMMA TablesTyped ==
    ASSUME TypeOK
    PROVE  Tables \in Snapshot
BY DEF TypeOK, Tables, Snapshot

LEMMA TypeInit ==
    Init => TypeOK
<1> SUFFICES ASSUME Init PROVE TypeOK
    OBVIOUS
<1>1. EmptyTables \in Snapshot
    BY DEF EmptyTables, Snapshot
<1>2. sent \in [Events -> [digest : Digests, next : 1..(PartCount + 2)]]
    BY AssemblyAssumption DEF Init
<1>3. log = << >> /\ Len(log) = 0 /\ log \in Seq(Message)
    BY DEF Init
<1> QED BY <1>1, <1>2, <1>3, AssemblyAssumption DEF Init, TypeOK, NoBatch

\* The transaction's part of the types, for the steps that begin and end one
LEMMA OpenTyped ==
    ASSUME TypeOK, NEW c \in Consumers, NEW from \in 0..Len(log), NEW to \in 1..Len(log), from < to,
           OpenTx(c, from, to), UNCHANGED <<log, sent, offset, tables, uncovered, todo, locked>>,
           faults' \in Nat
    PROVE  TypeOK'
<1>1. batch' \in [Consumers -> [from : 0..Len(log), to : 0..Len(log)]]
    BY DEF TypeOK, OpenTx
<1>2. next' \in [Consumers -> Nat]
    BY DEF TypeOK, OpenTx
<1>3. \A d \in Consumers :
        batch'[d].to > 0 => batch'[d].from < next'[d] /\ next'[d] <= batch'[d].to + 1
    BY DEF TypeOK, OpenTx
<1>4. snap' \in [Consumers -> Snapshot]
    BY TablesTyped DEF TypeOK, OpenTx
<1>5. /\ stale' \in [Consumers -> SUBSET RowName] /\ newReady' \in [Consumers -> SUBSET Events]
      /\ newStored' \in [Consumers -> SUBSET Message] /\ newDead' \in [Consumers -> SUBSET (1..Len(log))]
    BY DEF TypeOK, OpenTx, ForgetWrites
<1>6. newAsm' \in [Consumers -> [Events -> Digests \cup {NoDigest}]]
    BY DEF TypeOK, OpenTx, ForgetWrites
<1> QED BY <1>1, <1>2, <1>3, <1>4, <1>5, <1>6 DEF TypeOK, tables

LEMMA CloseTyped ==
    ASSUME TypeOK, NEW c \in Consumers, CloseTx(c)
    PROVE  /\ batch' \in [Consumers -> [from : 0..Len(log), to : 0..Len(log)]]
           /\ next' \in [Consumers -> Nat]
           /\ \A d \in Consumers :
                batch'[d].to > 0 => batch'[d].from < next'[d] /\ next'[d] <= batch'[d].to + 1
           /\ snap' \in [Consumers -> Snapshot]
           /\ newReady' \in [Consumers -> SUBSET Events]
           /\ newStored' \in [Consumers -> SUBSET Message]
           /\ newDead' \in [Consumers -> SUBSET (1..Len(log))]
           /\ newAsm' \in [Consumers -> [Events -> Digests \cup {NoDigest}]]
<1>1. EmptyTables \in Snapshot
    BY DEF EmptyTables, Snapshot
<1>2. NoBatch \in [from : 0..Len(log), to : 0..Len(log)] /\ NoBatch.to = 0
    BY DEF NoBatch, TypeOK
<1>3. batch' \in [Consumers -> [from : 0..Len(log), to : 0..Len(log)]]
    BY <1>2 DEF TypeOK, CloseTx
<1>4. next' \in [Consumers -> Nat]
    BY DEF TypeOK, CloseTx
<1>5. ASSUME NEW d \in Consumers, batch'[d].to > 0
      PROVE  batch'[d].from < next'[d] /\ next'[d] <= batch'[d].to + 1
    BY <1>2, <1>5 DEF TypeOK, CloseTx
<1>6. snap' \in [Consumers -> Snapshot]
    BY <1>1 DEF TypeOK, CloseTx
<1>7. /\ newReady' \in [Consumers -> SUBSET Events] /\ newStored' \in [Consumers -> SUBSET Message]
      /\ newDead' \in [Consumers -> SUBSET (1..Len(log))]
    BY DEF TypeOK, CloseTx, ForgetWrites
<1>8. newAsm' \in [Consumers -> [Events -> Digests \cup {NoDigest}]]
    BY DEF TypeOK, CloseTx, ForgetWrites
<1> QED BY <1>3, <1>4, <1>5, <1>6, <1>7, <1>8

LEMMA OutdateTyped ==
    ASSUME TypeOK, NEW c \in Consumers, NEW R \in SUBSET RowName, Outdate(c, R)
    PROVE  stale' \in [Consumers -> SUBSET RowName]
BY DEF TypeOK, Outdate

LEMMA TypePublish ==
    ASSUME TypeOK, NEW e \in Events, Publish(e)
    PROVE  TypeOK'
<1> DEFINE m == [ev |-> e, digest |-> sent[e].digest,
                 part |-> IF sent[e].next <= PartCount THEN sent[e].next ELSE Manifest]
<1>1. m \in Message
    BY AssemblyAssumption DEF TypeOK, Message
<1>2. log' = Append(log, m) /\ log \in Seq(Message)
    BY DEF Publish, TypeOK
<1> HIDE DEF m
<1>3. log' \in Seq(Message) /\ Len(log') = Len(log) + 1 /\ Len(log) \in Nat
    BY <1>1, <1>2
<1>4. sent' \in [Events -> [digest : Digests, next : 1..(PartCount + 2)]]
  <2>1. sent[e].next + 1 \in 1..(PartCount + 2)
    BY AssemblyAssumption DEF TypeOK, Publish
  <2>2. sent[e] \in [digest : Digests, next : 1..(PartCount + 2)]
    BY DEF TypeOK
  <2>3. [sent[e] EXCEPT !.next = @ + 1] \in [digest : Digests, next : 1..(PartCount + 2)]
    BY <2>1, <2>2
  <2>4. sent' = [sent EXCEPT ![e] = [sent[e] EXCEPT !.next = @ + 1]]
    BY DEF Publish
  <2> QED BY <2>3, <2>4 DEF TypeOK
<1>5. offset' \in 0..Len(log') /\ dead' \subseteq 1..Len(log')
    BY <1>3 DEF TypeOK, Publish, tables
<1>6. batch' \in [Consumers -> [from : 0..Len(log'), to : 0..Len(log')]]
    BY <1>3 DEF TypeOK, Publish, txVars
<1>7. newDead' \in [Consumers -> SUBSET (1..Len(log'))]
    BY <1>3 DEF TypeOK, Publish, txVars, writes
<1> QED BY <1>3, <1>4, <1>5, <1>6, <1>7 DEF TypeOK, Publish, tables, txVars, writes

LEMMA TypeStore ==
    ASSUME TypeOK, NEW c \in Consumers, SkipMessage(c) \/ RejectMessage(c) \/ StoreMessage(c)
    PROVE  TypeOK'
<1>1. HasMessage(c) /\ NextMessage(c)
    BY DEF SkipMessage, RejectMessage, StoreMessage, Stores
<1>2. /\ next[c] \in 1..Len(log) /\ batch[c].from < next[c] /\ next[c] <= batch[c].to
      /\ batch[c].from \in 0..Len(log) /\ batch[c].to \in 1..Len(log)
      /\ Msg(c) \in Message /\ Ev(c) \in Events /\ Msg(c).digest \in Digests
    BY <1>1, HasMessageFacts
<1>3. next' \in [Consumers -> Nat]
    BY <1>1, <1>2 DEF TypeOK, NextMessage
<1>4. /\ UNCHANGED <<log, sent, offset, tables, uncovered, batch, snap, stale, todo, locked, faults>>
    BY DEF SkipMessage, RejectMessage, StoreMessage, writes
<1>5. \A d \in Consumers :
        batch'[d].to > 0 => batch'[d].from < next'[d] /\ next'[d] <= batch'[d].to + 1
    BY <1>1, <1>2, <1>4 DEF TypeOK, NextMessage
<1>6. CASE SkipMessage(c)
    BY <1>3, <1>4, <1>5, <1>6 DEF TypeOK, SkipMessage, tables, writes
<1>7. CASE RejectMessage(c)
  <2>1. newDead' \in [Consumers -> SUBSET (1..Len(log))]
    BY <1>2, <1>7 DEF TypeOK, RejectMessage
  <2>2. UNCHANGED <<newAsm, newReady, newStored>>
    BY <1>7 DEF RejectMessage
  <2> QED BY <1>3, <1>4, <1>5, <2>1, <2>2 DEF TypeOK, tables
<1>8. CASE StoreMessage(c)
  <2>1. newAsm' \in [Consumers -> [Events -> Digests \cup {NoDigest}]]
    BY <1>2, <1>8 DEF TypeOK, StoreMessage
  <2>2. newStored' \in [Consumers -> SUBSET Message]
    BY <1>2, <1>8 DEF TypeOK, StoreMessage
  <2>3. newReady' \in [Consumers -> SUBSET Events]
    BY <1>2, <1>8 DEF TypeOK, StoreMessage
  <2>4. UNCHANGED newDead
    BY <1>8 DEF StoreMessage
  <2> QED BY <1>3, <1>4, <1>5, <2>1, <2>2, <2>3, <2>4 DEF TypeOK, tables
<1> QED BY <1>6, <1>7, <1>8

LEMMA AgeOrdersTyped ==
    \A S : AgeOrders(S) \subseteq SUBSET (S \X S)
BY DEF AgeOrders

LEMMA TypeCommit ==
    ASSUME TypeOK, NEW c \in Consumers, CommitBatch(c)
    PROVE  TypeOK'
<1> USE DEF CommitBatch
<1>1. stale' \in [Consumers -> SUBSET RowName]
    BY OutdateTyped, SeenTyped
<1>2. offset' \in 0..Len(log)
    BY DEF TypeOK, Bigger
<1>3. assemblies' \in [Events -> Digests \cup {NoDigest}]
    BY DEF TypeOK
<1>4. older' \subseteq Events \X Events
  <2> DEFINE S == {e \in Events : assemblies'[e] # NoDigest}
  <2>1. older' \in SUBSET (S \X S)
    BY AgeOrdersTyped
  <2> QED BY <2>1
<1>5. stored' \subseteq Message /\ ready' \subseteq Events /\ dead' \subseteq 1..Len(log)
    BY DEF TypeOK
<1>6. CloseTx(c)
    OBVIOUS
<1> HIDE DEF CommitBatch
<1>7. UNCHANGED <<log, sent, invalid, completed, ledger, manifests, uncovered, todo, locked, faults>>
    BY DEF CommitBatch
<1> QED BY <1>1, <1>2, <1>3, <1>4, <1>5, <1>6, <1>7, CloseTyped DEF TypeOK

LEMMA TypeEnd ==
    ASSUME TypeOK, NEW c \in Consumers, FailBatch(c) \/ Crash(c)
    PROVE  TypeOK'
<1>1. CloseTx(c) /\ faults' \in Nat /\ UNCHANGED <<log, sent, offset, tables, uncovered>>
    BY DEF FailBatch, Crash, Fault, TypeOK
<1>2. stale' \in [Consumers -> SUBSET RowName]
    BY DEF TypeOK, FailBatch, Crash
<1>3. todo' \in [Consumers -> SUBSET Events] /\ locked' \in [Consumers -> SUBSET Events]
    BY DEF TypeOK, FailBatch, Crash
<1> QED BY <1>1, <1>2, <1>3, CloseTyped DEF TypeOK, tables

LEMMA TypeComplete ==
    ASSUME TypeOK, NEW c \in Consumers, NEW e \in Events,
           CompleteStep(c, e) \/ AbandonCompletion(c, e)
    PROVE  TypeOK'
<1>1. todo' \in [Consumers -> SUBSET Events] /\ locked' \in [Consumers -> SUBSET Events]
  <2>1. CASE LockAssembly(c, e)
    <3>1. CASE Completable(e)
      <4>1. locked' = [locked EXCEPT ![c] = {e}] /\ UNCHANGED todo
        BY <2>1, <3>1 DEF LockAssembly
      <4> QED BY <4>1 DEF TypeOK
    <3>2. CASE ~Completable(e)
      <4>1. todo' = [todo EXCEPT ![c] = @ \ {e}] /\ UNCHANGED locked
        BY <2>1, <3>2 DEF LockAssembly
      <4> QED BY <4>1 DEF TypeOK
    <3> QED BY <3>1, <3>2
  <2>2. CASE EndCompletion(c, e)
    BY <2>2 DEF TypeOK, EndCompletion
  <2> QED BY <2>1, <2>2 DEF CompleteStep, AbandonCompletion, CompleteAssembly, MarkInvalid, RefuseAssembly
<1>2. RowsOf(e) \subseteq RowName /\ {<<e, Manifest>>} \subseteq RowName
    BY DEF RowsOf, RowName
<1>3. stale' \in [Consumers -> SUBSET RowName]
    BY <1>2, OutdateTyped DEF TypeOK, CompleteStep, AbandonCompletion, LockAssembly, CompleteAssembly,
       MarkInvalid, RefuseAssembly, txVars
<1>4. CASE CompleteAssembly(c, e)
  <2>1. /\ assemblies' \in [Events -> Digests \cup {NoDigest}]
        /\ completed' \in [Events -> Digests \cup {NoDigest}]
    BY <1>4 DEF TypeOK, CompleteAssembly, FinishAssembly, ForgetAssembly
  <2>2. /\ ready' \subseteq Events /\ invalid' \subseteq Events /\ older' \subseteq Events \X Events
        /\ stored' \subseteq Message /\ ledger' \subseteq Events /\ manifests' \subseteq Events
    BY <1>4 DEF TypeOK, CompleteAssembly, FinishAssembly, ForgetAssembly
  <2> QED BY <1>1, <1>3, <1>4, <2>1, <2>2 DEF TypeOK, CompleteAssembly, writes
<1>5. CASE MarkInvalid(c, e)
    BY <1>1, <1>3, <1>5 DEF TypeOK, MarkInvalid, writes
<1>6. CASE LockAssembly(c, e) \/ RefuseAssembly(c, e) \/ AbandonCompletion(c, e)
  <2>1. UNCHANGED <<log, sent, offset, tables, uncovered, txVars>> /\ faults' \in Nat
    BY <1>6 DEF TypeOK, LockAssembly, RefuseAssembly, AbandonCompletion, Fault
  <2> QED BY <1>1, <2>1 DEF TypeOK, tables, txVars, writes
<1> QED BY <1>4, <1>5, <1>6 DEF CompleteStep

LEMMA TypeStep ==
    ASSUME TypeOK, [Next]_vars
    PROVE  TypeOK'
<1>1. ASSUME NEW e \in Events, Republish(e) \/ ProjectPlain(e) \/ CoverWeek(e)
      PROVE  TypeOK'
  <2>1. CASE Republish(e)
    <3>1. PICK d \in DigestsOf[e] : sent' = [sent EXCEPT ![e] = [digest |-> d, next |-> 1]]
      BY <2>1 DEF Republish
    <3>2. d \in Digests /\ 1 \in 1..(PartCount + 2)
      BY AssemblyAssumption DEF Digests
    <3>3. sent' \in [Events -> [digest : Digests, next : 1..(PartCount + 2)]]
      BY <3>1, <3>2 DEF TypeOK
    <3> QED BY <2>1, <3>3 DEF TypeOK, Republish, Fault, tables, txVars, writes
  <2> QED BY <1>1, <2>1 DEF TypeOK, ProjectPlain, CoverWeek, tables, txVars, writes
<1>2. ASSUME NEW c \in Consumers, BeginBatch(c)
      PROVE  TypeOK'
  <2>1. PICK from \in 0..offset, to \in 1..Len(log) : from < to /\ OpenTx(c, from, to)
    BY <1>2 DEF BeginBatch
  <2>2. faults' \in Nat
    BY <1>2 DEF BeginBatch, Fault, TypeOK
  <2>3. from \in 0..Len(log)
    BY DEF TypeOK
  <2> QED BY <1>2, <2>1, <2>2, <2>3, OpenTyped DEF BeginBatch
<1>3. ASSUME NEW c \in Consumers, RetryBatch(c)
      PROVE  TypeOK'
  <2>1. HasMessage(c)
    BY <1>3, RetryFacts
  <2>2. /\ batch[c].from \in 0..Len(log) /\ batch[c].to \in 1..Len(log) /\ batch[c].from < batch[c].to
    BY <2>1, HasMessageFacts
  <2> QED BY <1>3, <2>2, OpenTyped DEF RetryBatch, TypeOK
<1>4. ASSUME NEW c \in Consumers, ScanReady(c)
      PROVE  TypeOK'
  <2>1. todo' \in [Consumers -> SUBSET Events]
    BY <1>4 DEF TypeOK, ScanReady
  <2> QED BY <1>4, <2>1 DEF TypeOK, ScanReady, tables, txVars, writes
<1>5. CASE UNCHANGED vars
    BY <1>5 DEF TypeOK, vars, tables, txVars, writes
<1> QED BY <1>1, <1>2, <1>3, <1>4, <1>5, TypePublish, TypeStore, TypeCommit, TypeEnd, TypeComplete
    DEF Next, StoreStep

\* Every table, snapshot and transaction of EventAssembly keeps its type, and
\* no transaction leaves its batch.
THEOREM TypeCorrect == Spec => []TypeOK
<1>1. TypeOK /\ [Next]_vars => TypeOK'
    BY TypeStep
<1> QED BY <1>1, TypeInit, PTL DEF Spec

----------------------------------------------------------------------------
\* What a stored message does to what its transaction sees

\* Consistent tables hold one message under a row.
LEMMA OneMessagePerRow ==
    ASSUME NEW T, Consistent(T), T.stored \subseteq Message,
           NEW m \in T.stored, NEW n \in T.stored, RowOf(m) = RowOf(n)
    PROVE  m = n
<1>1. T.asm[m.ev] = m.digest /\ T.asm[n.ev] = n.digest
    BY DEF Consistent
<1>2. m.ev = n.ev /\ m.part = n.part
    BY DEF RowOf
<1>3. m = MessageOf(m.ev, m.part, m.digest) /\ n = MessageOf(n.ev, n.part, n.digest)
    BY DigestFacts
<1> QED BY <1>1, <1>2, <1>3

\* The guards of a stored message: its event is not completed, and the
\* assembly c sees of it, if any, has its encoding.
LEMMA StoreGuards ==
    ASSUME TypeOK, NEW c \in Consumers, Stores(c)
    PROVE  /\ snap[c].completed[Ev(c)] = NoDigest /\ Ev(c) \notin snap[c].ledger
           /\ SeenAssembly(c, Ev(c)) \in {NoDigest, Msg(c).digest}
           /\ Storing(c) /\ HasMessage(c) /\ Ev(c) = Msg(c).ev
BY HasMessageFacts DEF Stores, HasMessage, AlreadyCompleted, Refused, CompletedOtherwise, AssemblyConflicts, Ev

\* If no row is added, the message at hand is among the stored ones c sees.
LEMMA NotAddedIsSeen ==
    ASSUME TypeOK, NEW c \in Consumers, SeenGood(c), Stores(c), ~Adds(c)
    PROVE  Msg(c) \in SeenStored(c) /\ ~Creates(c)
<1>1. Storing(c) /\ HasMessage(c) /\ SeenAssembly(c, Ev(c)) \in {NoDigest, Msg(c).digest} /\ Ev(c) = Msg(c).ev
    BY StoreGuards
<1>2. Msg(c) \in Message /\ Msg(c).digest \in Digests /\ SeenStored(c) \subseteq Message
    BY <1>1, HasMessageFacts, SeenTyped
<1>3. PICK m \in SeenStored(c) : RowOf(m) = RowOf(Msg(c))
    BY DEF Adds
<1>4. SeenAssembly(c, m.ev) = m.digest
    BY <1>1, <1>2, DigestFacts DEF SeenGood, Consistent, Seen
<1>5. m.ev = Ev(c) /\ m.part = Msg(c).part
    BY <1>1, <1>3 DEF RowOf
<1>6. m.digest = Msg(c).digest /\ SeenAssembly(c, Ev(c)) # NoDigest
    BY <1>1, <1>2, <1>4, <1>5, DigestFacts
<1>7. m = Msg(c)
    BY <1>1, <1>2, <1>5, <1>6, DigestFacts
<1> QED BY <1>6, <1>7 DEF Creates

LEMMA StoreSees ==
    ASSUME TypeOK, NEW c \in Consumers, SeenGood(c), StoreMessage(c),
           NEW m \in Message, m = Msg(c), NEW e \in Events, e = Ev(c)
    PROVE  /\ SeenStored(c)' = SeenStored(c) \cup {m}
           /\ SeenAssembly(c, e)' = m.digest
           /\ \A x \in Events : SeenAssembly(c, x) # NoDigest \/ x # e => SeenAssembly(c, x)' = SeenAssembly(c, x)
           /\ BecomesReady(c) => SeenReady(c)' = SeenReady(c) \cup {e}
           /\ ~BecomesReady(c) => SeenReady(c)' = SeenReady(c)
<1>1. Stores(c) /\ snap' = snap
    BY DEF StoreMessage
<1>2. /\ SeenAssembly(c, e) \in {NoDigest, m.digest} /\ m.ev = e /\ m.digest \in Digests /\ m.digest # NoDigest
    BY <1>1, StoreGuards, HasMessageFacts, DigestFacts
<1>3. SeenStored(c)' = SeenStored(c) \cup {m}
  <2>1. CASE Adds(c)
    <3>1. newStored'[c] = newStored[c] \cup {m}
      BY <2>1 DEF StoreMessage, TypeOK
    <3> QED BY <1>1, <3>1 DEF SeenStored
  <2>2. CASE ~Adds(c)
    <3>1. newStored'[c] = newStored[c]
      BY <2>2 DEF StoreMessage, TypeOK
    <3>2. m \in SeenStored(c)
      BY <1>1, <2>2, NotAddedIsSeen
    <3> QED BY <1>1, <3>1, <3>2 DEF SeenStored
  <2> QED BY <2>1, <2>2
<1>4. \A x \in Events : x # e => newAsm'[c][x] = newAsm[c][x]
    BY DEF StoreMessage, TypeOK
<1>5. newAsm'[c][e] = IF Creates(c) THEN m.digest ELSE newAsm[c][e]
    BY DEF StoreMessage, TypeOK
<1>6. SeenAssembly(c, e)' = m.digest
  <2>1. CASE Creates(c)
    BY <1>2, <1>5, <2>1 DEF SeenAssembly
  <2>2. CASE ~Creates(c)
    BY <1>1, <1>2, <1>5, <2>2 DEF SeenAssembly, Creates
  <2> QED BY <2>1, <2>2
<1>7. \A x \in Events : x # e => SeenAssembly(c, x)' = SeenAssembly(c, x)
    BY <1>1, <1>4 DEF SeenAssembly
<1>8. SeenAssembly(c, e) # NoDigest => SeenAssembly(c, e)' = SeenAssembly(c, e)
    BY <1>2, <1>6
<1>9. newReady'[c] = IF BecomesReady(c) THEN newReady[c] \cup {e} ELSE newReady[c]
    BY DEF StoreMessage, TypeOK
<1>10. BecomesReady(c) => SeenReady(c)' = SeenReady(c) \cup {e}
    BY <1>1, <1>9 DEF SeenReady
<1>11. ~BecomesReady(c) => SeenReady(c)' = SeenReady(c)
    BY <1>1, <1>9 DEF SeenReady
<1> QED BY <1>3, <1>6, <1>7, <1>8, <1>10, <1>11

\* A manifest that is stored finds all its parts: they precede it in the log,
\* and what precedes it is settled.
LEMMA ManifestFindsParts ==
    ASSUME TypeOK, LogInOrder, NEW c \in Consumers, SeenGood(c), Stores(c),
           NEW m \in Message, m = Msg(c), m.part = Manifest, NEW i \in Parts
    PROVE  MessageOf(m.ev, i, m.digest) \in SeenStored(c)
<1>1. /\ Storing(c) /\ HasMessage(c) /\ Ev(c) = m.ev /\ m.ev \in Events
      /\ snap[c].completed[m.ev] = NoDigest /\ m.ev \notin snap[c].ledger
      /\ SeenAssembly(c, m.ev) \in {NoDigest, m.digest}
    BY StoreGuards, DigestFacts
<1>2. m = log[next[c]] /\ next[c] \in 1..Len(log)
    BY <1>1, HasMessageFacts
<1>3. PICK j \in 1..(next[c] - 1) : log[j] = MessageOf(m.ev, i, m.digest)
    BY <1>2 DEF LogInOrder
<1>4. Settled(Seen(c), log[j])
    BY <1>1, <1>3 DEF SeenGood
<1>5. log[j].ev = m.ev /\ log[j].digest = m.digest
    BY <1>3 DEF MessageOf
<1>6. SeenAssembly(c, m.ev) # NoDigest /\ (SeenAssembly(c, m.ev) = m.digest => log[j] \in SeenStored(c))
    BY <1>1, <1>4, <1>5 DEF Settled, Seen
<1> QED BY <1>1, <1>3, <1>6

LEMMA StoreConsistent ==
    ASSUME TypeOK, LogInOrder, NEW c \in Consumers, SeenGood(c), StoreMessage(c)
    PROVE  Consistent(Seen(c))'
<1>0. Stores(c) /\ HasMessage(c) /\ Storing(c)
    BY StoreGuards DEF StoreMessage
<1>1. PICK m \in Message, e \in Events : m = Msg(c) /\ e = Ev(c)
    BY <1>0, HasMessageFacts
<1>2. /\ SeenStored(c)' = SeenStored(c) \cup {m}
      /\ SeenAssembly(c, e)' = m.digest
      /\ \A x \in Events : SeenAssembly(c, x) # NoDigest \/ x # e => SeenAssembly(c, x)' = SeenAssembly(c, x)
      /\ BecomesReady(c) => SeenReady(c)' = SeenReady(c) \cup {e}
      /\ ~BecomesReady(c) => SeenReady(c)' = SeenReady(c)
    BY <1>1, StoreSees
<1>3. m.ev = e /\ SeenAssembly(c, e) \in {NoDigest, m.digest} /\ m.digest \in Digests
    BY <1>0, <1>1, StoreGuards, DigestFacts
<1>4. /\ \A x \in SeenStored(c) : SeenAssembly(c, x.ev) = x.digest
      /\ \A x \in SeenStored(c) : x.part = Manifest => x.ev \in SeenReady(c)
      /\ \A x \in SeenReady(c) : SeenAssembly(c, x) # NoDigest
            /\ \A i \in Parts \cup {Manifest} : MessageOf(x, i, SeenAssembly(c, x)) \in SeenStored(c)
    BY <1>0, SeenTyped, DigestFacts DEF SeenGood, Consistent, Seen
<1>5. SeenStored(c) \subseteq Message /\ SeenReady(c) \subseteq Events
    BY SeenTyped
<1>6. ASSUME NEW x \in SeenStored(c)'
      PROVE  SeenAssembly(c, x.ev)' = x.digest /\ x.ev \in Events
  <2>1. CASE x = m
    BY <1>2, <1>3, <2>1
  <2>2. CASE x \in SeenStored(c)
    <3>1. SeenAssembly(c, x.ev) = x.digest /\ x.ev \in Events /\ x.digest \in Digests /\ x.digest # NoDigest
      BY <1>4, <1>5, <2>2, DigestFacts
    <3> QED BY <1>2, <3>1
  <2> QED BY <1>2, <2>1, <2>2
<1>7. ASSUME NEW x \in SeenStored(c)', x.part = Manifest
      PROVE  x.ev \in SeenReady(c)'
  <2>1. CASE x \in SeenStored(c)
    BY <1>2, <1>4, <1>7, <2>1
  <2>2. CASE x = m
    <3>1. CASE e \in SeenReady(c)
      BY <1>2, <1>3, <2>2, <3>1
    <3>2. CASE e \notin SeenReady(c)
      <4>1. \A i \in Parts : MessageOf(m.ev, i, m.digest) \in SeenStored(c)
        BY <1>0, <1>1, <1>7, <2>2, ManifestFindsParts
      <4>2. ASSUME NEW i \in Parts \cup {Manifest}
            PROVE  \E n \in SeenStored(c) \cup {m} : RowOf(n) = <<e, i>>
        <5>1. CASE i = Manifest
          BY <1>3, <1>7, <2>2, <5>1 DEF RowOf
        <5>2. CASE i \in Parts
          <6>1. RowOf(MessageOf(m.ev, i, m.digest)) = <<e, i>>
            BY <1>3 DEF RowOf, MessageOf
          <6> QED BY <4>1, <5>2, <6>1
        <5> QED BY <5>1, <5>2
      <4>3. BecomesReady(c)
        BY <1>1, <3>2, <4>2 DEF BecomesReady
      <4> QED BY <1>2, <1>3, <2>2, <4>3
    <3> QED BY <3>1, <3>2
  <2> QED BY <1>2, <2>1, <2>2
<1>8. ASSUME NEW x \in SeenReady(c)'
      PROVE  /\ x \in Events /\ SeenAssembly(c, x)' # NoDigest
             /\ \A i \in Parts \cup {Manifest} : MessageOf(x, i, SeenAssembly(c, x)') \in SeenStored(c)'
  <2>1. CASE x \in SeenReady(c)
    BY <1>2, <1>4, <1>5, <2>1
  <2>2. CASE x \notin SeenReady(c)
    <3>1. x = e /\ BecomesReady(c)
      BY <1>2, <2>2
    <3>2. m.digest # NoDigest
      BY <1>3, DigestFacts
    <3>3. ASSUME NEW i \in Parts \cup {Manifest}
          PROVE  MessageOf(e, i, m.digest) \in SeenStored(c)'
      <4>1. PICK n \in SeenStored(c) \cup {m} : RowOf(n) = <<e, i>>
        BY <1>1, <3>1 DEF BecomesReady
      <4>2. n \in SeenStored(c)' /\ n \in Message
        BY <1>2, <1>5
      <4>3. n.ev = e /\ n.part = i
        BY <4>1 DEF RowOf
      <4>4. n.digest = m.digest
        BY <1>2, <1>6, <4>2, <4>3
      <4>5. n = MessageOf(e, i, m.digest)
        BY <4>2, <4>3, <4>4, DigestFacts
      <4> QED BY <4>2, <4>5
    <3> QED BY <1>2, <3>1, <3>2, <3>3
  <2> QED BY <2>1, <2>2
<1> QED BY <1>6, <1>7, <1>8 DEF Consistent, Seen

\* A transaction that a step leaves alone keeps its view, if the log only grows.
LEMMA SeenKept ==
    ASSUME TypeOK, NEW c \in Consumers, SeenGood(c),
           batch'[c] = batch[c], next'[c] = next[c], snap'[c] = snap[c], newAsm'[c] = newAsm[c],
           newReady'[c] = newReady[c], newStored'[c] = newStored[c], newDead'[c] = newDead[c],
           offset <= offset', offset' \in Nat, \A i \in 1..Len(log) : log'[i] = log[i]
    PROVE  SeenGood(c)'
<1>1. Storing(c)' <=> Storing(c)
    BY DEF Storing
<1>2. Seen(c)' = Seen(c)
    BY DEF Seen, SeenAssembly, SeenReady, SeenStored
<1>3. SUFFICES ASSUME Storing(c)
               PROVE  /\ batch'[c].from <= offset'
                      /\ Consistent(Seen(c))'
                      /\ \A i \in 1..(next'[c] - 1) : Settled(Seen(c)', log'[i])
                      /\ \A i \in (batch'[c].from + 1)..(next'[c] - 1) : Handled(c, i)'
    BY <1>1 DEF SeenGood
<1>4. /\ batch[c].from \in Nat /\ batch[c].to <= Len(log) /\ next[c] \in Nat /\ next[c] <= batch[c].to + 1
      /\ offset \in Nat /\ Len(log) \in Nat /\ batch[c].to \in Nat
    BY <1>3 DEF TypeOK, Storing
<1>5. batch'[c].from <= offset'
    BY <1>3, <1>4 DEF SeenGood
<1>6. Consistent(Seen(c))'
    BY <1>2, <1>3 DEF SeenGood, Consistent
<1>7. \A i \in 1..(next[c] - 1) : i \in 1..Len(log)
    BY <1>4
<1>8. ASSUME NEW i \in 1..(next'[c] - 1)
      PROVE  Settled(Seen(c)', log'[i])
    BY <1>2, <1>3, <1>7 DEF SeenGood
<1>9. ASSUME NEW i \in (batch'[c].from + 1)..(next'[c] - 1)
      PROVE  Handled(c, i)'
  <2>1. i \in 1..Len(log) /\ Handled(c, i)
    BY <1>3, <1>4 DEF SeenGood
  <2> QED BY <2>1 DEF Handled, SeenStored
<1> QED BY <1>5, <1>6, <1>8, <1>9

\* A message that is skipped, refused or stored is settled in what follows.
LEMMA SeenStep ==
    ASSUME TypeOK, LogInOrder, NEW c \in Consumers, SeenGood(c),
           SkipMessage(c) \/ RejectMessage(c) \/ StoreMessage(c)
    PROVE  SeenGood(c)'
<1>1. /\ HasMessage(c) /\ NextMessage(c)
      /\ UNCHANGED <<log, offset, batch, snap>>
    BY DEF SkipMessage, RejectMessage, StoreMessage, Stores
<1>2. /\ next[c] \in 1..Len(log) /\ batch[c].from < next[c] /\ batch[c].from \in Nat
      /\ Storing(c)
    BY <1>1, HasMessageFacts DEF HasMessage
<1>3. PICK m \in Message, e \in Events, k \in Nat : m = Msg(c) /\ e = Ev(c) /\ k = next[c] /\ log[k] = m /\ m.ev = e
    BY <1>1, HasMessageFacts, DigestFacts DEF Ev
<1>4. next'[c] = k + 1
    BY <1>1, <1>2, <1>3 DEF NextMessage, TypeOK
<1>5. SUFFICES /\ Consistent(Seen(c))'
               /\ \A i \in 1..(k - 1) : Settled(Seen(c), log[i]) => Settled(Seen(c)', log[i])
               /\ Settled(Seen(c)', m)
               /\ \A i \in 1..(k - 1) : Handled(c, i) => Handled(c, i)'
               /\ Handled(c, k)'
  <2>1. batch'[c].from <= offset'
    BY <1>1, <1>2 DEF SeenGood
  <2>2. ASSUME NEW i \in 1..(next'[c] - 1)
        PROVE  Settled(Seen(c)', log'[i])
    <3>1. CASE i \in 1..(k - 1)
      BY <1>1, <1>2, <1>3, <1>5, <3>1 DEF SeenGood
    <3>2. CASE i = k
      BY <1>1, <1>3, <1>5, <3>2
    <3> QED BY <1>4, <3>1, <3>2
  <2>3. ASSUME NEW i \in (batch'[c].from + 1)..(next'[c] - 1)
        PROVE  Handled(c, i)'
    BY <1>1, <1>2, <1>3, <1>4, <1>5 DEF SeenGood
  <2> QED BY <1>5, <2>1, <2>2, <2>3 DEF SeenGood
<1>6. SeenStored(c) \subseteq Message /\ \A i \in 1..(k - 1) : log[i] \in Message
    BY <1>2, <1>3, SeenTyped DEF TypeOK
<1>7. CASE SkipMessage(c)
  <2>1. Seen(c)' = Seen(c) /\ newDead'[c] = newDead[c] /\ SeenStored(c)' = SeenStored(c)
    BY <1>7 DEF SkipMessage, Seen, SeenAssembly, SeenReady, SeenStored, writes
  <2>2. snap[c].completed[e] = m.digest /\ m.digest # NoDigest
    BY <1>3, <1>7, DigestFacts DEF SkipMessage, AlreadyCompleted
  <2>3. Settled(Seen(c)', m)
    BY <1>3, <2>1, <2>2 DEF Settled, Seen
  <2>4. Handled(c, k)'
    BY <1>1, <1>3, <2>2 DEF Handled
  <2> QED BY <1>1, <1>2, <2>1, <2>3, <2>4 DEF SeenGood, Consistent, Handled
<1>8. CASE RejectMessage(c)
  <2>1. Seen(c)' = Seen(c) /\ newDead'[c] = newDead[c] \cup {k} /\ SeenStored(c)' = SeenStored(c)
    BY <1>3, <1>8 DEF RejectMessage, Seen, SeenAssembly, SeenReady, SeenStored, TypeOK
  <2>2. Settled(Seen(c), m)
    <3>1. CASE CompletedOtherwise(c)
      BY <1>3, <3>1 DEF CompletedOtherwise, Settled, Seen
    <3>2. CASE AssemblyConflicts(c)
      BY <1>3, <3>2 DEF AssemblyConflicts, Settled, Seen
    <3>3. CASE PartConflicts(c) /\ ~AssemblyConflicts(c)
      <4>1. PICK n \in SeenStored(c) : RowOf(n) = RowOf(m) /\ n # m
        BY <1>3, <3>3 DEF PartConflicts
      <4>2. SeenAssembly(c, n.ev) = n.digest /\ n \in Message
        BY <1>2, <1>6, DigestFacts DEF SeenGood, Consistent, Seen
      <4>3. n.ev = e /\ n.part = m.part
        BY <1>3, <4>1 DEF RowOf
      <4>4. n.digest = m.digest
        BY <1>3, <3>3, <4>2, <4>3, DigestFacts DEF AssemblyConflicts
      <4> QED BY <1>3, <4>1, <4>2, <4>3, <4>4, DigestFacts
    <3> QED BY <1>8, <3>1, <3>2, <3>3 DEF RejectMessage, Refused
  <2> QED BY <1>1, <1>2, <2>1, <2>2 DEF SeenGood, Consistent, Handled
<1>9. CASE StoreMessage(c)
  <2>1. /\ SeenStored(c)' = SeenStored(c) \cup {m}
        /\ SeenAssembly(c, e)' = m.digest
        /\ \A x \in Events : SeenAssembly(c, x) # NoDigest \/ x # e => SeenAssembly(c, x)' = SeenAssembly(c, x)
    BY <1>3, <1>9, StoreSees
  <2>2. newDead' = newDead
    BY <1>9 DEF StoreMessage
  <2>3. m.digest # NoDigest
    BY DigestFacts
  <2>4. Settled(Seen(c)', m)
    BY <1>3, <2>1, <2>3 DEF Settled, Seen
  <2>5. ASSUME NEW i \in 1..(k - 1), Settled(Seen(c), log[i])
        PROVE  Settled(Seen(c)', log[i])
    <3>1. PICK n \in Message : n = log[i] /\ n.ev \in Events
      BY <1>6, DigestFacts
    <3>2. Seen(c)'.completed = Seen(c).completed /\ Seen(c)'.ledger = Seen(c).ledger
      BY <1>1 DEF Seen
    <3>3. CASE SeenAssembly(c, n.ev) # NoDigest /\ (SeenAssembly(c, n.ev) = n.digest => n \in SeenStored(c))
      BY <2>1, <3>1, <3>3 DEF Settled, Seen
    <3> QED BY <2>5, <3>1, <3>2, <3>3 DEF Settled, Seen
  <2>6. ASSUME NEW i \in 1..(k - 1), Handled(c, i)
        PROVE  Handled(c, i)'
    BY <1>1, <2>1, <2>2, <2>6 DEF Handled
  <2>7. Handled(c, k)'
    BY <1>1, <1>3, <2>1 DEF Handled
  <2> QED BY <1>9, <2>4, <2>5, <2>6, <2>7, StoreConsistent
<1> QED BY <1>7, <1>8, <1>9

----------------------------------------------------------------------------
\* What a stored message writes

\* The conflict rules at work: a row that may be written is missing from the
\* committed tables too, and its event is neither ready nor completed.
LEMMA StoreIsNew ==
    ASSUME TypeOK, TablesGood, NEW c \in Consumers, SnapshotLasts(c), SnapshotCurrent(c), StoreMessage(c),
           NEW m \in Message, m = Msg(c), NEW e \in Events, e = Ev(c)
    PROVE  /\ Creates(c) => assemblies[e] = NoDigest
           /\ Adds(c) => \A n \in stored : RowOf(m) # RowOf(n)
           /\ Creates(c) \/ Adds(c) \/ BecomesReady(c) => e \notin ready /\ completed[e] = NoDigest
<1>1. /\ Storing(c) /\ m.ev = e /\ snap[c].completed[e] = NoDigest
    BY StoreGuards DEF StoreMessage
<1>2. \A row \in Wanted(c) : row \notin stale[c]
    BY DEF StoreMessage, RowCurrent
<1>3. stored \subseteq Message /\ ready \subseteq Events
    BY DEF TypeOK
<1>4. ASSUME NEW x \in ready
      PROVE  assemblies[x] # NoDigest /\ \A i \in Parts \cup {Manifest} : MessageOf(x, i, assemblies[x]) \in stored
    BY DEF TablesGood, Consistent, Tables
<1>5. ASSUME Creates(c) PROVE assemblies[e] = NoDigest
  <2>1. <<e, Manifest>> \in Wanted(c)
    BY <1>5 DEF Wanted
  <2>2. snap[c].asm[e] = NoDigest
    BY <1>5 DEF Creates, SeenAssembly
  <2> QED BY <1>1, <1>2, <2>1, <2>2 DEF SnapshotCurrent
<1>6. ASSUME Adds(c), NEW n \in stored PROVE RowOf(m) # RowOf(n)
  <2>1. RowOf(m) \in Wanted(c)
    BY <1>6 DEF Wanted
  <2>2. n \notin snap[c].stored \/ RowOf(n) # RowOf(m)
    BY <1>6 DEF Adds, SeenStored
  <2> QED BY <1>1, <1>2, <1>3, <2>1, <2>2 DEF SnapshotCurrent
<1>7. ASSUME Creates(c) \/ Adds(c) \/ BecomesReady(c)
      PROVE  completed[e] = NoDigest
  <2>1. PICK row \in Wanted(c) : row = RowOf(m) \/ row = <<e, Manifest>>
    BY <1>7 DEF Wanted
  <2>2. row \in RowsOf(e)
    BY <1>1, <2>1, DigestFacts DEF RowsOf, RowOf
  <2> QED BY <1>1, <1>2, <2>2 DEF SnapshotLasts
<1>8. ASSUME Creates(c), e \in ready PROVE FALSE
    BY <1>4, <1>5, <1>8
<1>9. ASSUME Adds(c), e \in ready PROVE FALSE
  <2>1. m.part \in Parts \cup {Manifest}
    BY DigestFacts
  <2>2. MessageOf(e, m.part, assemblies[e]) \in stored
    BY <1>4, <1>9, <2>1
  <2>3. RowOf(MessageOf(e, m.part, assemblies[e])) = RowOf(m)
    BY <1>1 DEF RowOf, MessageOf
  <2> QED BY <1>6, <1>9, <2>2, <2>3
<1>10. ASSUME BecomesReady(c), e \in ready PROVE FALSE
  <2>1. <<e, Manifest>> \in Wanted(c)
    BY <1>10 DEF Wanted
  <2>2. e \notin snap[c].ready
    BY <1>10 DEF BecomesReady, SeenReady
  <2> QED BY <1>1, <1>2, <1>10, <2>1, <2>2 DEF SnapshotCurrent
<1> QED BY <1>5, <1>6, <1>7, <1>8, <1>9, <1>10

\* What StoreMessage assigns, row by row
LEMMA StoreWrites ==
    ASSUME TypeOK, NEW c \in Consumers, StoreMessage(c),
           NEW m \in Message, m = Msg(c), NEW e \in Events, e = Ev(c)
    PROVE  /\ m.ev = e
           /\ \A x \in Events : newAsm'[c][x] # newAsm[c][x] => x = e /\ Creates(c)
           /\ \A x \in newReady'[c] : x \in newReady[c] \/ (x = e /\ BecomesReady(c))
           /\ \A n \in newStored'[c] : n \in newStored[c] \/ (n = m /\ Adds(c))
           /\ \A d \in Consumers : d # c =>
                newAsm'[d] = newAsm[d] /\ newReady'[d] = newReady[d] /\ newStored'[d] = newStored[d]
<1>1. m.ev = e
    BY StoreGuards DEF StoreMessage
<1>2. \A x \in Events : x # e => newAsm'[c][x] = newAsm[c][x]
    BY DEF StoreMessage, TypeOK
<1>3. newAsm'[c][e] = IF Creates(c) THEN m.digest ELSE newAsm[c][e]
    BY DEF StoreMessage, TypeOK
<1>4. \A x \in newReady'[c] : x \in newReady[c] \/ (x = e /\ BecomesReady(c))
    BY DEF StoreMessage, TypeOK
<1>5. \A n \in newStored'[c] : n \in newStored[c] \/ (n = m /\ Adds(c))
    BY DEF StoreMessage, TypeOK
<1>6. \A d \in Consumers : d # c =>
        newAsm'[d] = newAsm[d] /\ newReady'[d] = newReady[d] /\ newStored'[d] = newStored[d]
    BY DEF StoreMessage, TypeOK
<1> QED BY <1>1, <1>2, <1>3, <1>4, <1>5, <1>6

LEMMA StoreWritesNew ==
    ASSUME TypeOK, TablesGood, NEW c \in Consumers, SnapshotLasts(c), SnapshotCurrent(c), StoreMessage(c),
           WritesNew(c)
    PROVE  WritesNew(c)'
<1>1. PICK m \in Message, e \in Events : m = Msg(c) /\ e = Ev(c)
    BY HasMessageFacts DEF StoreMessage, Stores
<1>2. /\ m.ev = e
      /\ \A x \in Events : newAsm'[c][x] # newAsm[c][x] => x = e /\ Creates(c)
      /\ \A x \in newReady'[c] : x \in newReady[c] \/ (x = e /\ BecomesReady(c))
      /\ \A n \in newStored'[c] : n \in newStored[c] \/ (n = m /\ Adds(c))
    BY <1>1, StoreWrites
<1>3. /\ Creates(c) => assemblies[e] = NoDigest
      /\ Adds(c) => \A n \in stored : RowOf(m) # RowOf(n)
      /\ Creates(c) \/ Adds(c) \/ BecomesReady(c) => e \notin ready /\ completed[e] = NoDigest
    BY <1>1, StoreIsNew
<1>4. UNCHANGED <<assemblies, ready, stored, completed>>
    BY DEF StoreMessage, tables
<1>5. ASSUME NEW x \in Events, newAsm'[c][x] # NoDigest
      PROVE  assemblies'[x] = NoDigest
    BY <1>2, <1>3, <1>4, <1>5 DEF WritesNew
<1>6. ASSUME NEW x \in Events, Touches(c, x)'
      PROVE  x \notin ready' /\ completed'[x] = NoDigest
  <2>1. Touches(c, x) \/ (x = e /\ (Creates(c) \/ Adds(c) \/ BecomesReady(c)))
    BY <1>2, <1>6 DEF Touches
  <2> QED BY <1>3, <1>4, <2>1 DEF WritesNew
<1>7. ASSUME NEW n \in newStored'[c], NEW k \in stored'
      PROVE  RowOf(n) # RowOf(k)
    BY <1>2, <1>3, <1>4 DEF WritesNew
<1> QED BY <1>5, <1>6, <1>7 DEF WritesNew, RowOf

\* A transaction without writes of its own has written no row.
LEMMA NothingWritten ==
    ASSUME NEW c \in Consumers, newAsm'[c] = [e \in Events |-> NoDigest], newReady'[c] = {}, newStored'[c] = {}
    PROVE  Written(c)' = {} /\ \A e \in Events : ~Touches(c, e)'
BY DEF Written, Touches

LEMMA StoreApart ==
    ASSUME TypeOK, NEW c \in Consumers, StoreMessage(c), \A a, b \in Consumers : WritesApart(a, b)
    PROVE  \A a, b \in Consumers : WritesApart(a, b)'
<1>1. PICK m \in Message, e \in Events : m = Msg(c) /\ e = Ev(c)
    BY HasMessageFacts DEF StoreMessage, Stores
<1>2. /\ m.ev = e
      /\ \A x \in Events : newAsm'[c][x] # newAsm[c][x] => x = e /\ Creates(c)
      /\ \A x \in newReady'[c] : x \in newReady[c] \/ (x = e /\ BecomesReady(c))
      /\ \A n \in newStored'[c] : n \in newStored[c] \/ (n = m /\ Adds(c))
      /\ \A d \in Consumers : d # c =>
           newAsm'[d] = newAsm[d] /\ newReady'[d] = newReady[d] /\ newStored'[d] = newStored[d]
    BY <1>1, StoreWrites
<1>3. ASSUME NEW row \in Written(c)' PROVE row \in Written(c) \/ row \in Wanted(c)
  <2>1. CASE \E n \in newStored'[c] : row = RowOf(n)
    BY <1>1, <1>2, <2>1 DEF Written, Wanted
  <2>2. CASE \E x \in Events : row = <<x, Manifest>> /\ newAsm'[c][x] # NoDigest
    BY <1>1, <1>2, <2>2 DEF Written, Wanted
  <2>3. CASE \E x \in newReady'[c] : row = <<x, Manifest>>
    BY <1>1, <1>2, <2>3 DEF Written, Wanted
  <2> QED BY <2>1, <2>2, <2>3 DEF Written, RowOf
<1>4. ASSUME NEW d \in Consumers, d # c PROVE Written(d)' = Written(d)
    BY <1>2, <1>4 DEF Written, RowOf
<1>5. ASSUME NEW d \in Consumers, d # c, NEW row \in Wanted(c) PROVE row \notin Written(d)
    BY <1>5 DEF StoreMessage, RowFree
<1>6. ASSUME NEW a \in Consumers, NEW b \in Consumers, a # b, NEW row \in Written(a)'
      PROVE  row \notin Written(b)'
  <2>1. CASE a = c
    BY <1>3, <1>4, <1>5, <1>6, <2>1 DEF WritesApart
  <2>2. CASE b = c
    BY <1>3, <1>4, <1>5, <1>6, <2>2 DEF WritesApart
  <2>3. CASE a # c /\ b # c
    BY <1>4, <1>6, <2>3 DEF WritesApart
  <2> QED BY <2>1, <2>2, <2>3
<1> QED BY <1>6 DEF WritesApart

----------------------------------------------------------------------------
\* Transactions a step leaves alone, opens or closes

SameTx(c) ==
    /\ batch'[c] = batch[c] /\ next'[c] = next[c] /\ snap'[c] = snap[c] /\ newDead'[c] = newDead[c]
    /\ newAsm'[c] = newAsm[c] /\ newReady'[c] = newReady[c] /\ newStored'[c] = newStored[c]

NoWrites(c) ==
    newAsm[c] = [e \in Events |-> NoDigest] /\ newReady[c] = {} /\ newStored[c] = {} /\ newDead[c] = {}

LEMMA SnapshotKept ==
    ASSUME NEW c \in Consumers, batch'[c] = batch[c], snap'[c] = snap[c], stale[c] \subseteq stale'[c],
           UNCHANGED <<assemblies, ready, stored, completed, ledger>>, SnapshotLasts(c), SnapshotCurrent(c)
    PROVE  SnapshotLasts(c)' /\ SnapshotCurrent(c)'
<1>1. Storing(c)' <=> Storing(c)
    BY DEF Storing
<1>2. SnapshotLasts(c)'
    BY <1>1 DEF SnapshotLasts
<1>3. SnapshotCurrent(c)'
    BY <1>1 DEF SnapshotCurrent, RowOf
<1> QED BY <1>2, <1>3

LEMMA WritesKept ==
    ASSUME NEW c \in Consumers, newAsm'[c] = newAsm[c], newReady'[c] = newReady[c], newStored'[c] = newStored[c]
    PROVE  Written(c)' = Written(c) /\ \A e \in Events : Touches(c, e)' <=> Touches(c, e)
BY DEF Written, Touches, RowOf

LEMMA TxKept ==
    ASSUME TypeOK, NEW c \in Consumers, OneTx(c), SameTx(c), stale[c] \subseteq stale'[c],
           UNCHANGED <<assemblies, ready, stored, completed, ledger>>,
           offset <= offset', offset' \in Nat, \A i \in 1..Len(log) : log'[i] = log[i]
    PROVE  OneTx(c)' /\ Written(c)' = Written(c)
<1>1. SeenGood(c)'
    BY SeenKept DEF OneTx, SameTx
<1>2. SnapshotLasts(c)' /\ SnapshotCurrent(c)'
    BY SnapshotKept DEF OneTx, SameTx
<1>3. Written(c)' = Written(c) /\ \A e \in Events : Touches(c, e)' <=> Touches(c, e)
    BY WritesKept DEF SameTx
<1>4. WritesNew(c)'
    BY <1>3 DEF OneTx, SameTx, WritesNew, RowOf
<1> QED BY <1>1, <1>2, <1>3, <1>4 DEF OneTx

\* A transaction that is opened sees the committed tables ...
LEMMA OpenGood ==
    ASSUME TypeOK, TablesGood, NEW c \in Consumers, NEW from \in 0..Len(log), NEW to \in 1..Len(log),
           from < to, from <= offset, OpenTx(c, from, to),
           UNCHANGED <<log, offset, assemblies, ready, stored, completed, ledger>>
    PROVE  OneTx(c)' /\ Written(c)' = {}
<1>1. /\ batch'[c] = [from |-> from, to |-> to] /\ next'[c] = from + 1 /\ snap'[c] = Tables
      /\ stale'[c] = {} /\ NoWrites(c)'
    BY DEF OpenTx, ForgetWrites, NoWrites, TypeOK
<1>2. Seen(c)' = Tables
    BY <1>1 DEF Seen, SeenAssembly, SeenReady, SeenStored, Tables, NoWrites, TypeOK
<1>3. \A i \in 1..from : i \in 1..offset
    BY DEF TypeOK
<1>4. SeenGood(c)'
  <2>1. Consistent(Seen(c)')
    BY <1>2 DEF TablesGood
  <2>2. ASSUME NEW i \in 1..(next'[c] - 1)
        PROVE  Settled(Seen(c)', log'[i])
    BY <1>1, <1>2, <1>3 DEF TablesGood
  <2>3. \A i \in (batch'[c].from + 1)..(next'[c] - 1) : FALSE
    BY <1>1
  <2>4. batch'[c].from <= offset'
    BY <1>1
  <2> QED BY <2>1, <2>2, <2>3, <2>4 DEF SeenGood, Consistent
<1>5. SnapshotLasts(c)'
    BY <1>1 DEF SnapshotLasts, Tables
<1>6. SnapshotCurrent(c)'
    BY <1>1 DEF SnapshotCurrent, Tables
<1>7. Written(c)' = {} /\ \A e \in Events : ~Touches(c, e)'
    BY <1>1, NothingWritten DEF NoWrites
<1>8. WritesNew(c)'
    BY <1>1, <1>7 DEF WritesNew, NoWrites
<1> QED BY <1>4, <1>5, <1>6, <1>7, <1>8 DEF OneTx

\* ... and one that is closed leaves nothing to say.
LEMMA CloseGood ==
    ASSUME TypeOK, NEW c \in Consumers, CloseTx(c)
    PROVE  OneTx(c)' /\ Written(c)' = {} /\ ~Storing(c)'
<1>1. batch'[c] = NoBatch /\ NoWrites(c)'
    BY DEF CloseTx, ForgetWrites, NoWrites, TypeOK
<1>2. ~Storing(c)'
    BY <1>1 DEF Storing, NoBatch
<1>3. Written(c)' = {} /\ \A e \in Events : ~Touches(c, e)'
    BY <1>1, NothingWritten DEF NoWrites
<1>4. WritesNew(c)'
    BY <1>1, <1>3 DEF WritesNew, NoWrites
<1> QED BY <1>2, <1>3, <1>4 DEF OneTx, SeenGood, SnapshotLasts, SnapshotCurrent

\* Rows written stay apart when no transaction but those emptied changes its own.
LEMMA ApartKept ==
    ASSUME \A a, b \in Consumers : WritesApart(a, b),
           \A a \in Consumers : Written(a)' = Written(a) \/ Written(a)' = {}
    PROVE  \A a, b \in Consumers : WritesApart(a, b)'
BY DEF WritesApart

----------------------------------------------------------------------------
\* Each step keeps the invariant

LEMMA InvInit == Init => IInv
<1> SUFFICES ASSUME Init PROVE IInv
    OBVIOUS
<1>1. TypeOK
    BY TypeInit
<1>2. Len(log) = 0 /\ offset = 0 /\ \A e \in Events : sent[e].next = 1
    BY DEF Init
<1>3. LogInOrder
    BY <1>2 DEF LogInOrder
<1>4. TablesGood
    BY <1>2 DEF Init, TablesGood, Consistent, Tables
<1>5. ASSUME NEW c \in Consumers PROVE ~Storing(c) /\ NoWrites(c)
    BY DEF Init, Storing, NoBatch, NoWrites
<1>6. ASSUME NEW c \in Consumers PROVE Written(c) = {} /\ OneTx(c)
    BY <1>5 DEF Written, OneTx, SeenGood, SnapshotLasts, SnapshotCurrent, WritesNew, Touches, NoWrites
<1>7. TxGood
    BY <1>6 DEF TxGood, WritesApart
<1>8. LocksGood
    BY DEF LocksGood, Init
<1>9. CompletionIsClean /\ OffsetsCoverMessages
    BY <1>2 DEF Init, CompletionIsClean, CompletedHasRow, NoTransportLeft, OffsetsCoverMessages
<1> QED BY <1>1, <1>3, <1>4, <1>7, <1>8, <1>9 DEF IInv

\* Steps that leave the committed tables and the offset alone
LEMMA TablesKept ==
    ASSUME TypeOK, TablesGood, CompletionIsClean, OffsetsCoverMessages,
           UNCHANGED <<offset, assemblies, ready, stored, completed, ledger, manifests, dead>>,
           \A i \in 1..Len(log) : log'[i] = log[i]
    PROVE  TablesGood' /\ CompletionIsClean' /\ OffsetsCoverMessages'
<1>1. Tables' = Tables
    BY DEF Tables
<1>2. \A i \in 1..offset : i \in 1..Len(log)
    BY DEF TypeOK
<1>3. TablesGood'
    BY <1>1, <1>2 DEF TablesGood, Consistent
<1>4. CompletionIsClean'
    BY DEF CompletionIsClean, CompletedHasRow, NoTransportLeft
<1>5. OffsetsCoverMessages'
    BY <1>2 DEF OffsetsCoverMessages
<1> QED BY <1>3, <1>4, <1>5

LEMMA InvPublish ==
    ASSUME IInv, NEW e \in Events, Publish(e)
    PROVE  IInv'
<1> USE DEF IInv
<1>1. TypeOK'
    BY TypePublish
<1>2. PICK m : /\ m = [ev |-> e, digest |-> sent[e].digest,
                       part |-> IF sent[e].next <= PartCount THEN sent[e].next ELSE Manifest]
               /\ log' = Append(log, m)
    BY DEF Publish
<1>3. Len(log') = Len(log) + 1 /\ Len(log) \in Nat /\ log'[Len(log) + 1] = m
      /\ \A i \in 1..Len(log) : log'[i] = log[i]
    BY <1>2 DEF TypeOK
<1>4. /\ sent'[e].next = sent[e].next + 1 /\ sent'[e].digest = sent[e].digest
      /\ \A x \in Events : x # e => sent'[x] = sent[x]
      /\ sent[e].next \in 1..(PartCount + 1) /\ \A x \in Events : sent[x].next \in Nat
    BY AssemblyAssumption DEF Publish, TypeOK
<1>5. LogInOrder'
  <2>1. ASSUME NEW k \in 1..Len(log'), log'[k].part = Manifest, NEW i \in Parts
        PROVE  \E j \in 1..(k - 1) : log'[j] = MessageOf(log'[k].ev, i, log'[k].digest)
    <3>1. CASE k \in 1..Len(log)
      <4>1. PICK j \in 1..(k - 1) : log[j] = MessageOf(log[k].ev, i, log[k].digest)
        BY <1>3, <2>1, <3>1 DEF LogInOrder
      <4>2. j \in 1..Len(log)
        BY <1>3, <3>1
      <4> QED BY <1>3, <3>1, <4>1, <4>2
    <3>2. CASE k = Len(log) + 1
      <4>1. log'[k].ev = e /\ log'[k].digest = sent[e].digest /\ ~(sent[e].next <= PartCount)
        BY <1>2, <1>3, <1>4, <2>1, <3>2, AssemblyAssumption
      <4>2. i < sent[e].next
        BY <1>4, <4>1, AssemblyAssumption
      <4>3. PICK j \in 1..Len(log) : log[j] = MessageOf(e, i, sent[e].digest)
        BY <4>2 DEF LogInOrder
      <4> QED BY <1>3, <3>2, <4>1, <4>3
    <3> QED BY <1>3, <3>1, <3>2
  <2>2. ASSUME NEW x \in Events, NEW i \in Parts, i < sent'[x].next
        PROVE  \E j \in 1..Len(log') : log'[j] = MessageOf(x, i, sent'[x].digest)
    <3>1. CASE i < sent[x].next
      <4>1. PICK j \in 1..Len(log) : log[j] = MessageOf(x, i, sent[x].digest)
        BY <3>1 DEF LogInOrder
      <4>2. j \in 1..Len(log') /\ sent'[x].digest = sent[x].digest
        BY <1>3, <1>4
      <4> QED BY <1>3, <4>1, <4>2
    <3>2. CASE ~(i < sent[x].next)
      <4>1. x = e /\ i = sent[e].next
        BY <1>4, <2>2, <3>2
      <4>2. m = MessageOf(e, i, sent'[e].digest)
        BY <1>2, <1>4, <4>1, AssemblyAssumption DEF MessageOf
      <4> QED BY <1>3, <4>1, <4>2
    <3> QED BY <3>1, <3>2
  <2> QED BY <2>1, <2>2 DEF LogInOrder
<1>6. UNCHANGED <<offset, tables, txVars, todo, locked>>
    BY DEF Publish
<1>7. TablesGood' /\ CompletionIsClean' /\ OffsetsCoverMessages'
    BY <1>3, <1>6, TablesKept DEF tables
<1>8. \A c \in Consumers : OneTx(c)' /\ Written(c)' = Written(c)
    BY <1>3, <1>6, TxKept DEF TxGood, SameTx, tables, txVars, writes, TypeOK
<1>9. TxGood'
    BY <1>8, ApartKept DEF TxGood
<1>10. LocksGood'
    BY <1>6 DEF LocksGood, Storing, tables, txVars
<1> QED BY <1>1, <1>5, <1>7, <1>9, <1>10

\* Steps of the relay and the completion worker that change no table
LEMMA InvQuiet ==
    ASSUME IInv, TypeOK', LogInOrder', LocksGood',
           UNCHANGED <<log, offset, txVars, assemblies, ready, stored, completed, ledger, manifests, dead>>
    PROVE  IInv'
<1> USE DEF IInv
<1>1. TablesGood' /\ CompletionIsClean' /\ OffsetsCoverMessages'
    BY TablesKept
<1>2. \A c \in Consumers : OneTx(c)' /\ Written(c)' = Written(c)
    BY TxKept DEF TxGood, SameTx, txVars, writes, TypeOK
<1>3. TxGood'
    BY <1>2, ApartKept DEF TxGood
<1> QED BY <1>1, <1>3

LEMMA InvRelay ==
    ASSUME IInv, NEW e \in Events, TypeOK', Republish(e) \/ CoverWeek(e)
    PROVE  IInv'
<1>1. LogInOrder'
  <2>1. CASE CoverWeek(e)
    BY <2>1 DEF CoverWeek, IInv, LogInOrder
  <2>2. CASE Republish(e)
    <3>1. log' = log /\ sent'[e].next = 1 /\ \A x \in Events : x # e => sent'[x] = sent[x]
      BY <2>2 DEF Republish, IInv, TypeOK
    <3> QED BY <3>1 DEF IInv, LogInOrder
  <2> QED BY <2>1, <2>2
<1>2. LocksGood'
    BY DEF Republish, CoverWeek, IInv, LocksGood, Storing, tables, txVars
<1>3. UNCHANGED <<log, offset, txVars, assemblies, ready, stored, completed, ledger, manifests, dead>>
    BY DEF Republish, CoverWeek, tables
<1> QED BY <1>1, <1>2, <1>3, InvQuiet

LEMMA InvWorker ==
    ASSUME IInv, TypeOK', NEW c \in Consumers,
           \/ ScanReady(c)
           \/ \E e \in Events : LockAssembly(c, e) \/ RefuseAssembly(c, e) \/ AbandonCompletion(c, e)
    PROVE  IInv'
<1>1. UNCHANGED <<log, sent, offset, txVars, assemblies, ready, stored, completed, ledger, manifests, dead>>
    BY DEF ScanReady, LockAssembly, RefuseAssembly, AbandonCompletion, tables
<1>2. \A d \in Consumers : Storing(d)' <=> Storing(d)
    BY <1>1 DEF Storing, txVars
<1>3. LocksGood'
  <2>1. CASE ScanReady(c)
    BY <1>1, <1>2, <2>1 DEF ScanReady, IInv, LocksGood, TypeOK
  <2>2. ASSUME NEW e \in Events, LockAssembly(c, e), Completable(e)
        PROVE  LocksGood'
    <3>1. locked' = [locked EXCEPT ![c] = {e}] /\ todo' = todo /\ e \in todo[c] /\ e \in ready
      BY <2>2 DEF LockAssembly, Completable
    <3>2. \A d \in Consumers : d # c => e \notin locked[d]
      BY <2>2 DEF LockAssembly, RowFree
    <3>3. locked'[c] = {e} /\ \A d \in Consumers : d # c => locked'[d] = locked[d]
      BY <3>1 DEF IInv, TypeOK
    <3>4. \A a, b \in Consumers : a # b => locked'[a] \cap locked'[b] = {}
      BY <3>2, <3>3 DEF IInv, LocksGood
    <3> QED BY <1>1, <1>2, <3>1, <3>3, <3>4 DEF IInv, LocksGood
  <2>3. ASSUME NEW e \in Events, LockAssembly(c, e), ~Completable(e)
        PROVE  LocksGood'
    <3>1. todo' = [todo EXCEPT ![c] = @ \ {e}] /\ locked' = locked /\ locked[c] = {}
      BY <2>3 DEF LockAssembly, Completing
    <3> QED BY <1>1, <1>2, <3>1 DEF IInv, LocksGood, TypeOK
  <2>4. ASSUME NEW e \in Events, EndCompletion(c, e)
        PROVE  LocksGood'
    BY <1>1, <1>2, <2>4 DEF EndCompletion, IInv, LocksGood, TypeOK
  <2> QED BY <2>1, <2>2, <2>3, <2>4 DEF RefuseAssembly, AbandonCompletion
<1>4. LogInOrder'
    BY <1>1 DEF IInv, LogInOrder
<1> QED BY <1>1, <1>3, <1>4, InvQuiet

LEMMA InvOpen ==
    ASSUME IInv, TypeOK', NEW c \in Consumers, BeginBatch(c) \/ RetryBatch(c)
    PROVE  IInv'
<1> USE DEF IInv
<1>1. UNCHANGED <<log, sent, offset, tables, todo, locked>>
    BY DEF BeginBatch, RetryBatch
<1>2. PICK from \in 0..Len(log), to \in 1..Len(log) : from < to /\ from <= offset /\ OpenTx(c, from, to)
  <2>1. CASE BeginBatch(c)
    <3>1. PICK from \in 0..offset, to \in 1..Len(log) : from < to /\ OpenTx(c, from, to)
      BY <2>1 DEF BeginBatch
    <3>2. from \in 0..Len(log) /\ from <= offset
      BY DEF TypeOK
    <3> QED BY <3>1, <3>2
  <2>2. CASE RetryBatch(c)
    <3>1. HasMessage(c) /\ OneTx(c)
      BY <2>2, RetryFacts DEF TxGood
    <3>2. /\ batch[c].from \in 0..Len(log) /\ batch[c].to \in 1..Len(log)
          /\ batch[c].from < next[c] /\ next[c] <= batch[c].to /\ next[c] \in 1..Len(log)
      BY <3>1, HasMessageFacts
    <3>3. batch[c].from <= offset
      BY <3>1 DEF OneTx, SeenGood, HasMessage
    <3>4. batch[c].from < batch[c].to
      BY <3>2 DEF TypeOK
    <3> QED BY <2>2, <3>2, <3>3, <3>4 DEF RetryBatch
  <2> QED BY <2>1, <2>2
<1>3. todo[c] = {}
    BY RetryFacts DEF BeginBatch, LocksGood, HasMessage
<1>4. OneTx(c)' /\ Written(c)' = {}
    BY <1>1, <1>2, OpenGood DEF tables
<1>5. ASSUME NEW d \in Consumers, d # c PROVE SameTx(d) /\ stale'[d] = stale[d]
    BY <1>2, <1>5 DEF OpenTx, ForgetWrites, SameTx, TypeOK
<1>6. ASSUME NEW d \in Consumers, d # c PROVE OneTx(d)' /\ Written(d)' = Written(d)
  <2>1. offset <= offset' /\ offset' \in Nat
    BY <1>1 DEF TypeOK
  <2>2. OneTx(d) /\ SameTx(d) /\ stale[d] \subseteq stale'[d]
    BY <1>6, <1>5 DEF TxGood
  <2>3. UNCHANGED <<assemblies, ready, stored, completed, ledger>> /\ log' = log
    BY <1>1 DEF tables
  <2> QED BY <2>1, <2>2, <2>3, TxKept
<1>7. TxGood'
    BY <1>4, <1>6, ApartKept DEF TxGood
<1>8. TablesGood' /\ CompletionIsClean' /\ OffsetsCoverMessages'
    BY <1>1, TablesKept DEF tables
<1>9. LocksGood'
  <2>1. \A d \in Consumers : d # c => (Storing(d)' <=> Storing(d))
    BY <1>5 DEF SameTx, Storing
  <2> QED BY <1>1, <1>3, <2>1 DEF LocksGood, tables
<1>10. LogInOrder'
    BY <1>1 DEF LogInOrder
<1> QED BY <1>7, <1>8, <1>9, <1>10

LEMMA InvStore ==
    ASSUME IInv, TypeOK', NEW c \in Consumers, SkipMessage(c) \/ RejectMessage(c) \/ StoreMessage(c)
    PROVE  IInv'
<1> USE DEF IInv
<1>1. UNCHANGED <<log, sent, offset, tables, batch, snap, stale, todo, locked>>
    BY DEF SkipMessage, RejectMessage, StoreMessage
<1>2. NextMessage(c)
    BY DEF SkipMessage, RejectMessage, StoreMessage
<1>3. ASSUME NEW d \in Consumers, d # c PROVE SameTx(d)
    BY <1>1, <1>2, <1>3 DEF SkipMessage, RejectMessage, StoreMessage, NextMessage, SameTx, writes, TypeOK
<1>4. ASSUME NEW d \in Consumers, d # c PROVE OneTx(d)'
    BY <1>1, <1>3, <1>4, TxKept DEF TxGood, tables, TypeOK
<1>5. OneTx(c)
    BY DEF TxGood
<1>6. SeenGood(c)'
    BY <1>5, SeenStep DEF OneTx
<1>7. SnapshotLasts(c)' /\ SnapshotCurrent(c)'
    BY <1>1, <1>5, SnapshotKept DEF OneTx, tables
<1>8. WritesNew(c)' /\ \A a, b \in Consumers : WritesApart(a, b)'
  <2>1. CASE StoreMessage(c)
    BY <1>5, <2>1, StoreWritesNew, StoreApart DEF OneTx, TxGood
  <2>2. CASE SkipMessage(c) \/ RejectMessage(c)
    <3>1. UNCHANGED <<newAsm, newReady, newStored>>
      BY <2>2 DEF SkipMessage, RejectMessage, writes
    <3>2. \A d \in Consumers : Written(d)' = Written(d) /\ \A e \in Events : Touches(d, e)' <=> Touches(d, e)
      BY <3>1, WritesKept
    <3>3. WritesNew(c)'
      BY <1>1, <1>5, <3>1, <3>2 DEF OneTx, WritesNew, RowOf, tables
    <3> QED BY <3>2, <3>3, ApartKept DEF TxGood
  <2> QED BY <2>1, <2>2
<1>9. TxGood'
    BY <1>4, <1>6, <1>7, <1>8 DEF TxGood, OneTx
<1>10. TablesGood' /\ CompletionIsClean' /\ OffsetsCoverMessages'
    BY <1>1, TablesKept DEF tables
<1>11. LocksGood' /\ LogInOrder'
    BY <1>1 DEF LocksGood, LogInOrder, Storing, tables
<1> QED BY <1>9, <1>10, <1>11

LEMMA InvEnd ==
    ASSUME IInv, TypeOK', NEW c \in Consumers, FailBatch(c) \/ Crash(c)
    PROVE  IInv'
<1> USE DEF IInv
<1>1. CloseTx(c) /\ UNCHANGED <<log, sent, offset, tables>> /\ stale' = [stale EXCEPT ![c] = {}]
    BY DEF FailBatch, Crash
<1>2. OneTx(c)' /\ Written(c)' = {} /\ ~Storing(c)'
    BY <1>1, CloseGood
<1>3. ASSUME NEW d \in Consumers, d # c PROVE SameTx(d) /\ stale'[d] = stale[d]
    BY <1>1, <1>3 DEF CloseTx, ForgetWrites, SameTx, TypeOK
<1>4. ASSUME NEW d \in Consumers, d # c PROVE OneTx(d)' /\ Written(d)' = Written(d)
  <2>1. offset <= offset' /\ offset' \in Nat
    BY <1>1 DEF TypeOK
  <2>2. OneTx(d) /\ SameTx(d) /\ stale[d] \subseteq stale'[d]
    BY <1>4, <1>3 DEF TxGood
  <2>3. UNCHANGED <<assemblies, ready, stored, completed, ledger>> /\ log' = log
    BY <1>1 DEF tables
  <2> QED BY <2>1, <2>2, <2>3, TxKept
<1>5. TxGood'
    BY <1>2, <1>4, ApartKept DEF TxGood
<1>6. TablesGood' /\ CompletionIsClean' /\ OffsetsCoverMessages'
    BY <1>1, TablesKept DEF tables
<1>7. LocksGood'
  <2>1. \A d \in Consumers : d # c => (Storing(d)' <=> Storing(d))
    BY <1>3 DEF SameTx, Storing
  <2>2. CASE UNCHANGED <<todo, locked>>
    BY <1>1, <1>2, <2>1, <2>2 DEF LocksGood, tables
  <2>3. CASE todo' = [todo EXCEPT ![c] = {}] /\ locked' = [locked EXCEPT ![c] = {}]
    BY <1>1, <1>2, <2>1, <2>3 DEF LocksGood, tables, TypeOK
  <2> QED BY <2>2, <2>3 DEF FailBatch, Crash
<1>8. LogInOrder'
    BY <1>1 DEF LogInOrder
<1> QED BY <1>5, <1>6, <1>7, <1>8

\* A consumer that stores nothing has only its (empty) writes to answer for.
LEMMA IdleGood ==
    ASSUME NEW c \in Consumers, ~Storing(c)', WritesNew(c)'
    PROVE  OneTx(c)'
BY DEF OneTx, SeenGood, SnapshotLasts, SnapshotCurrent

LEMMA InvPlain ==
    ASSUME IInv, TypeOK', NEW e \in Events, ProjectPlain(e)
    PROVE  IInv'
<1> USE DEF IInv
<1>1. /\ UNCHANGED <<log, sent, offset, assemblies, ready, stored, completed, manifests, dead, txVars, todo, locked>>
      /\ ledger' = ledger \cup {e} /\ e \in Plain
    BY DEF ProjectPlain
<1>2. TablesGood'
  <2>1. Consistent(Tables)'
    BY <1>1 DEF TablesGood, Consistent, Tables
  <2>2. ASSUME NEW i \in 1..offset PROVE Settled(Tables', log[i])
    <3>1. Settled(Tables, log[i])
      BY DEF TablesGood
    <3> QED BY <1>1, <3>1 DEF Settled, Tables
  <2> QED BY <1>1, <2>1, <2>2 DEF TablesGood
<1>3. ASSUME NEW c \in Consumers PROVE OneTx(c)' /\ Written(c)' = Written(c)
  <2>1. OneTx(c) /\ SameTx(c) /\ stale'[c] = stale[c]
    BY <1>1 DEF TxGood, SameTx, txVars, writes
  <2>2. SeenGood(c)'
    <3>1. offset <= offset' /\ offset' \in Nat /\ log' = log
      BY <1>1 DEF TypeOK
    <3> QED BY <2>1, <3>1, SeenKept DEF OneTx, SameTx
  <2>3. Storing(c)' <=> Storing(c)
    BY <2>1 DEF Storing, SameTx
  <2>4. SnapshotLasts(c)'
    BY <1>1, <2>1, <2>3 DEF OneTx, SameTx, SnapshotLasts
  <2>5. SnapshotCurrent(c)'
    BY <1>1, <2>1, <2>3 DEF OneTx, SameTx, SnapshotCurrent, RowOf
  <2>6. Written(c)' = Written(c) /\ \A x \in Events : Touches(c, x)' <=> Touches(c, x)
    BY <2>1, WritesKept DEF SameTx
  <2>7. WritesNew(c)'
    BY <1>1, <2>1, <2>6 DEF OneTx, SameTx, WritesNew, RowOf
  <2> QED BY <2>2, <2>4, <2>5, <2>6, <2>7 DEF OneTx
<1>4. TxGood'
    BY <1>3, ApartKept DEF TxGood
<1>5. LocksGood' /\ LogInOrder'
    BY <1>1 DEF LocksGood, LogInOrder, Storing, txVars
<1>6. CompletionIsClean'
    BY <1>1 DEF CompletionIsClean, CompletedHasRow, NoTransportLeft
<1>7. OffsetsCoverMessages'
    BY <1>1 DEF OffsetsCoverMessages
<1> QED BY <1>2, <1>4, <1>5, <1>6, <1>7

\* A consumer whose worker holds an assembly stores nothing.
LEMMA LockedIdle ==
    ASSUME LocksGood, NEW c \in Consumers, locked[c] # {}
    PROVE  ~Storing(c)
BY DEF LocksGood

LEMMA InvMark ==
    ASSUME IInv, TypeOK', NEW c \in Consumers, NEW e \in Events, MarkInvalid(c, e)
    PROVE  IInv'
<1> USE DEF IInv
<1>1. /\ UNCHANGED <<log, sent, offset, assemblies, ready, stored, completed, ledger, manifests, dead,
                     batch, next, snap, writes>>
      /\ Outdate(c, {<<e, Manifest>>}) /\ EndCompletion(c, e) /\ ~Storing(c)
    BY LockedIdle DEF MarkInvalid
<1>2. \A d \in Consumers : SameTx(d) /\ (Storing(d)' <=> Storing(d))
    BY <1>1 DEF SameTx, Storing, writes
<1>3. \A d \in Consumers : d # c => stale[d] \subseteq stale'[d]
    BY <1>1 DEF Outdate
<1>4. ASSUME NEW d \in Consumers PROVE OneTx(d)' /\ Written(d)' = Written(d)
  <2>1. OneTx(d) /\ SameTx(d)
    BY <1>2 DEF TxGood
  <2>2. CASE d # c
    <3>1. offset <= offset' /\ offset' \in Nat /\ log' = log
      BY <1>1 DEF TypeOK
    <3> QED BY <1>1, <1>3, <2>1, <2>2, <3>1, TxKept
  <2>3. CASE d = c
    <3>1. Written(c)' = Written(c) /\ \A x \in Events : Touches(c, x)' <=> Touches(c, x)
      BY <2>1, <2>3, WritesKept DEF SameTx
    <3>2. WritesNew(c)'
      BY <1>1, <2>1, <2>3, <3>1 DEF OneTx, SameTx, WritesNew, RowOf
    <3> QED BY <1>1, <1>2, <2>3, <3>1, <3>2, IdleGood
  <2> QED BY <2>2, <2>3
<1>5. TxGood'
    BY <1>4, ApartKept DEF TxGood
<1>6. TablesGood' /\ CompletionIsClean' /\ OffsetsCoverMessages'
    BY <1>1, TablesKept
<1>7. LocksGood'
    BY <1>1, <1>2 DEF LocksGood, EndCompletion, TypeOK
<1>8. LogInOrder'
    BY <1>1 DEF LogInOrder
<1> QED BY <1>5, <1>6, <1>7, <1>8
----------------------------------------------------------------------------
\* Completion

\* What finishAssembly does to the tables, for an event that was ready
LEMMA CompletionFacts ==
    ASSUME IInv, NEW c \in Consumers, NEW e \in Events, CompleteAssembly(c, e)
    PROVE  /\ e \in ready /\ e \in locked[c] /\ assemblies[e] # NoDigest /\ completed[e] = NoDigest
           /\ completed'[e] = assemblies[e] /\ \A x \in Events : x # e => completed'[x] = completed[x]
           /\ assemblies'[e] = NoDigest /\ \A x \in Events : x # e => assemblies'[x] = assemblies[x]
           /\ ready' = ready \ {e} /\ stored' = {m \in stored : m.ev # e}
           /\ ledger' = ledger \cup {e} /\ manifests' = manifests \cup {e}
           /\ \A m \in stored : m.ev = e => m.digest = assemblies[e]
           /\ \A d \in Consumers : ~Touches(d, e)
<1>1. e \in ready /\ e \in locked[c]
    BY DEF CompleteAssembly, IInv, LocksGood
<1>2. assemblies[e] # NoDigest /\ \A m \in stored : m.ev = e => m.digest = assemblies[e]
    BY <1>1 DEF IInv, TablesGood, Consistent, Tables
<1>3. completed[e] = NoDigest
    BY <1>2 DEF IInv, CompletionIsClean, NoTransportLeft
<1>4. \A d \in Consumers : ~Touches(d, e)
    BY <1>1 DEF IInv, TxGood, OneTx, WritesNew
<1>5. completed'[e] = assemblies[e] /\ \A x \in Events : x # e => completed'[x] = completed[x]
    BY <1>3 DEF CompleteAssembly, FinishAssembly, IInv, TypeOK
<1>6. assemblies'[e] = NoDigest /\ \A x \in Events : x # e => assemblies'[x] = assemblies[x]
    BY DEF CompleteAssembly, FinishAssembly, ForgetAssembly, IInv, TypeOK
<1> QED BY <1>1, <1>2, <1>3, <1>4, <1>5, <1>6 DEF CompleteAssembly, FinishAssembly, ForgetAssembly

LEMMA InvComplete ==
    ASSUME IInv, TypeOK', NEW c \in Consumers, NEW e \in Events, CompleteAssembly(c, e)
    PROVE  IInv'
<1> USE DEF IInv
<1>1. /\ e \in ready /\ e \in locked[c] /\ assemblies[e] # NoDigest /\ completed[e] = NoDigest
      /\ completed'[e] = assemblies[e] /\ \A x \in Events : x # e => completed'[x] = completed[x]
      /\ assemblies'[e] = NoDigest /\ \A x \in Events : x # e => assemblies'[x] = assemblies[x]
      /\ ready' = ready \ {e} /\ stored' = {m \in stored : m.ev # e}
      /\ ledger' = ledger \cup {e} /\ manifests' = manifests \cup {e}
      /\ \A m \in stored : m.ev = e => m.digest = assemblies[e]
      /\ \A d \in Consumers : ~Touches(d, e)
    BY CompletionFacts
<1>2. /\ UNCHANGED <<log, sent, offset, dead, batch, next, snap, writes>>
      /\ Outdate(c, RowsOf(e)) /\ EndCompletion(c, e) /\ ~Storing(c)
    BY <1>1, LockedIdle DEF CompleteAssembly
<1>3. \A m \in stored : m \in Message /\ m.ev \in Events
    BY DigestFacts DEF TypeOK
<1>4. TablesGood'
  <2>1. Consistent(Tables)'
    <3>1. \A m \in stored' : assemblies'[m.ev] = m.digest /\ (m.part = Manifest => m.ev \in ready')
      BY <1>1, <1>3 DEF TablesGood, Consistent, Tables
    <3>2. ASSUME NEW x \in ready'
          PROVE  /\ assemblies'[x] # NoDigest
                 /\ \A i \in Parts \cup {Manifest} : MessageOf(x, i, assemblies'[x]) \in stored'
      <4>1. x \in ready /\ x # e /\ x \in Events
        BY <1>1 DEF TypeOK
      <4>2. assemblies[x] # NoDigest /\ \A i \in Parts \cup {Manifest} : MessageOf(x, i, assemblies[x]) \in stored
        BY <4>1 DEF TablesGood, Consistent, Tables
      <4>3. \A i \in Parts \cup {Manifest} : MessageOf(x, i, assemblies[x]).ev = x
        BY DEF MessageOf
      <4> QED BY <1>1, <4>1, <4>2, <4>3
    <3> QED BY <3>1, <3>2 DEF Consistent, Tables
  <2>2. ASSUME NEW i \in 1..offset PROVE Settled(Tables', log[i])
    <3>1. Settled(Tables, log[i]) /\ log[i].ev \in Events
      BY DigestFacts DEF TablesGood, TypeOK
    <3>2. CASE log[i].ev = e
      BY <1>1, <3>2 DEF Settled, Tables
    <3>3. CASE log[i].ev # e
      BY <1>1, <3>1, <3>3 DEF Settled, Tables
    <3> QED BY <3>2, <3>3
  <2> QED BY <1>2, <2>1, <2>2 DEF TablesGood
<1>5. ASSUME NEW d \in Consumers PROVE OneTx(d)' /\ Written(d)' = Written(d)
  <2>1. OneTx(d) /\ SameTx(d) /\ (Storing(d)' <=> Storing(d))
    BY <1>2 DEF TxGood, SameTx, Storing, writes
  <2>2. SeenGood(d)'
    <3>1. offset <= offset' /\ offset' \in Nat /\ log' = log
      BY <1>2 DEF TypeOK
    <3> QED BY <2>1, <3>1, SeenKept DEF OneTx, SameTx
  <2>3. Written(d)' = Written(d) /\ \A x \in Events : Touches(d, x)' <=> Touches(d, x)
    BY <2>1, WritesKept DEF SameTx
  <2>4. WritesNew(d)'
    <3>1. ASSUME NEW x \in Events, newAsm'[d][x] # NoDigest PROVE assemblies'[x] = NoDigest
      BY <1>1, <2>1, <3>1 DEF OneTx, WritesNew, SameTx
    <3>2. ASSUME NEW x \in Events, Touches(d, x)' PROVE x \notin ready' /\ completed'[x] = NoDigest
      BY <1>1, <2>1, <2>3, <3>2 DEF OneTx, WritesNew
    <3>3. ASSUME NEW m \in newStored'[d], NEW n \in stored' PROVE RowOf(m) # RowOf(n)
      BY <1>1, <2>1 DEF OneTx, WritesNew, SameTx
    <3> QED BY <3>1, <3>2, <3>3 DEF WritesNew, RowOf
  <2>5. CASE ~Storing(d)
    BY <2>1, <2>3, <2>4, <2>5, IdleGood
  <2>6. CASE Storing(d)
    <3>1. stale'[d] = stale[d] \cup RowsOf(e) /\ snap'[d] = snap[d]
      BY <1>2, <2>6 DEF Outdate
    <3>2. snap[d].stored \subseteq Message
      BY DEF TypeOK, Snapshot
    <3>3. SnapshotLasts(d) /\ SnapshotCurrent(d)
      BY <2>1 DEF OneTx
    <3>4. ASSUME NEW m \in snap[d].stored PROVE m \in stored' \/ completed'[m.ev] = m.digest
      <4>1. m.ev \in Events /\ m.digest # NoDigest /\ (m \in stored \/ completed[m.ev] = m.digest)
        BY <2>6, <3>2, <3>3, DigestFacts DEF SnapshotLasts
      <4> QED BY <1>1, <4>1
    <3>5. ASSUME NEW x \in Events
          PROVE  /\ snap[d].asm[x] # NoDigest => assemblies'[x] = snap[d].asm[x] \/ completed'[x] # NoDigest
                 /\ x \in snap[d].ready => x \in ready' \/ completed'[x] # NoDigest
                 /\ \/ snap[d].completed[x] = completed'[x]
                    \/ snap[d].completed[x] = NoDigest /\ RowsOf(x) \subseteq stale'[d]
      <4>1. /\ snap[d].asm[x] # NoDigest => assemblies[x] = snap[d].asm[x] \/ completed[x] # NoDigest
            /\ x \in snap[d].ready => x \in ready \/ completed[x] # NoDigest
            /\ \/ snap[d].completed[x] = completed[x]
               \/ snap[d].completed[x] = NoDigest /\ RowsOf(x) \subseteq stale[d]
        BY <2>6, <3>3 DEF SnapshotLasts
      <4> QED BY <1>1, <3>1, <4>1
    <3>6. SnapshotLasts(d)'
      <4>1. snap[d].ledger \subseteq ledger'
        BY <1>1, <2>6, <3>3 DEF SnapshotLasts
      <4> QED BY <3>1, <3>4, <3>5, <4>1 DEF SnapshotLasts
    <3>7. ASSUME NEW m \in Message, RowOf(m) \notin stale'[d] PROVE m \in stored' <=> m \in snap[d].stored
      <4>1. m.ev # e /\ RowOf(m) \notin stale[d]
        BY <3>1, <3>7, DigestFacts DEF RowsOf, RowOf
      <4> QED BY <1>1, <2>6, <3>3, <4>1 DEF SnapshotCurrent
    <3>8. ASSUME NEW x \in Events, <<x, Manifest>> \notin stale'[d]
          PROVE  assemblies'[x] = snap[d].asm[x] /\ (x \in ready' <=> x \in snap[d].ready)
      <4>1. x # e /\ <<x, Manifest>> \notin stale[d]
        BY <3>1, <3>8 DEF RowsOf
      <4> QED BY <1>1, <2>6, <3>3, <4>1 DEF SnapshotCurrent
    <3>9. SnapshotCurrent(d)'
      BY <3>1, <3>7, <3>8 DEF SnapshotCurrent, RowOf
    <3> QED BY <2>2, <2>3, <2>4, <3>6, <3>9 DEF OneTx
  <2> QED BY <2>5, <2>6
<1>6. TxGood'
    BY <1>5, ApartKept DEF TxGood
<1>7. LocksGood'
  <2>1. \A d \in Consumers : Storing(d)' <=> Storing(d)
    BY <1>2 DEF Storing
  <2>2. \A d \in Consumers : d # c => e \notin locked[d]
    BY <1>1 DEF LocksGood
  <2>3. locked'[c] = {} /\ todo'[c] = todo[c] \ {e}
        /\ \A d \in Consumers : d # c => locked'[d] = locked[d] /\ todo'[d] = todo[d]
    BY <1>2 DEF EndCompletion, TypeOK
  <2>4. \A d \in Consumers : locked'[d] \subseteq todo'[d] /\ locked'[d] \subseteq ready'
    BY <1>1, <2>2, <2>3 DEF LocksGood
  <2>5. \A d \in Consumers : todo'[d] # {} => ~Storing(d)'
    BY <1>2, <2>1, <2>3 DEF LocksGood
  <2>6. \A a, b \in Consumers : a # b => locked'[a] \cap locked'[b] = {}
    BY <2>3 DEF LocksGood
  <2> QED BY <2>4, <2>5, <2>6 DEF LocksGood
<1>8. CompletionIsClean'
    BY <1>1, <1>3 DEF CompletionIsClean, CompletedHasRow, NoTransportLeft
<1>9. OffsetsCoverMessages'
  <2>1. ASSUME NEW i \in 1..offset
        PROVE  i \in dead \/ completed'[log[i].ev] = log[i].digest \/ log[i] \in stored'
    <3>1. i \in dead \/ completed[log[i].ev] = log[i].digest \/ log[i] \in stored
      BY DEF OffsetsCoverMessages
    <3>2. log[i] \in Message
      BY DEF TypeOK
    <3>3. log[i].ev \in Events /\ log[i].digest # NoDigest
      BY <3>2, DigestFacts
    <3> QED BY <1>1, <3>1, <3>3
  <2> QED BY <1>2, <2>1 DEF OffsetsCoverMessages
<1>10. LogInOrder'
    BY <1>2 DEF LogInOrder
<1> QED BY <1>4, <1>6, <1>7, <1>8, <1>9, <1>10

----------------------------------------------------------------------------
\* Commit

\* What c saw is what the tables hold once c has committed, except for what
\* was completed meanwhile.
LEMMA CommitFacts ==
    ASSUME IInv, NEW c \in Consumers, CommitBatch(c)
    PROVE  /\ Storing(c) /\ next[c] = batch[c].to + 1
           /\ \A e \in Events : assemblies[e] # NoDigest => assemblies'[e] = assemblies[e]
           /\ \A e \in Events : SeenAssembly(c, e) # NoDigest /\ completed[e] = NoDigest =>
                assemblies'[e] = SeenAssembly(c, e)
           /\ \A m \in SeenStored(c) : m \in stored' \/ completed[m.ev] = m.digest
           /\ \A e \in SeenReady(c) : e \in ready' \/ completed[e] # NoDigest
           /\ \A e \in newReady[c] : completed[e] = NoDigest
           /\ \A m \in newStored[c] : completed[m.ev] = NoDigest
           /\ \A e \in Events : newAsm[c][e] # NoDigest => completed[e] = NoDigest
           /\ stored' = stored \cup newStored[c] /\ ready' = ready \cup newReady[c]
           /\ dead' = dead \cup newDead[c] /\ UNCHANGED <<completed, ledger, manifests, log>>
<1> USE DEF IInv
<1>1. Storing(c) /\ next[c] = batch[c].to + 1
  <2>1. Storing(c) /\ next[c] > batch[c].to
    BY DEF CommitBatch
  <2>2. next[c] <= batch[c].to + 1 /\ next[c] \in Nat /\ batch[c].to \in Nat
    BY <2>1 DEF TypeOK, Storing
  <2> QED BY <2>1, <2>2
<1>2. WritesNew(c) /\ SnapshotLasts(c)
    BY DEF TxGood, OneTx
<1>3. /\ stored' = stored \cup newStored[c] /\ ready' = ready \cup newReady[c]
      /\ dead' = dead \cup newDead[c] /\ UNCHANGED <<completed, ledger, manifests, log>>
      /\ \A e \in Events : assemblies'[e] = IF newAsm[c][e] # NoDigest THEN newAsm[c][e] ELSE assemblies[e]
    BY DEF CommitBatch
<1>4. \A e \in Events : assemblies[e] # NoDigest => assemblies'[e] = assemblies[e]
    BY <1>2, <1>3 DEF WritesNew
<1>5. ASSUME NEW e \in Events, SeenAssembly(c, e) # NoDigest, completed[e] = NoDigest
      PROVE  assemblies'[e] = SeenAssembly(c, e)
  <2>1. CASE newAsm[c][e] # NoDigest
    BY <1>3, <2>1 DEF SeenAssembly
  <2>2. CASE newAsm[c][e] = NoDigest
    BY <1>1, <1>2, <1>3, <1>5, <2>2 DEF SeenAssembly, SnapshotLasts
  <2> QED BY <2>1, <2>2
<1>6. \A m \in SeenStored(c) : m \in stored' \/ completed[m.ev] = m.digest
    BY <1>1, <1>2, <1>3 DEF SeenStored, SnapshotLasts
<1>7. \A e \in SeenReady(c) : e \in ready' \/ completed[e] # NoDigest
    BY <1>1, <1>2, <1>3, SeenTyped DEF SeenReady, SnapshotLasts
<1>8. newReady[c] \subseteq Events /\ \A m \in newStored[c] : m.ev \in Events
    BY DigestFacts DEF TypeOK
<1>9. /\ \A e \in newReady[c] : completed[e] = NoDigest
      /\ \A m \in newStored[c] : completed[m.ev] = NoDigest
      /\ \A e \in Events : newAsm[c][e] # NoDigest => completed[e] = NoDigest
    BY <1>2, <1>8 DEF WritesNew, Touches
<1> QED BY <1>1, <1>3, <1>4, <1>5, <1>6, <1>7, <1>9

LEMMA CommitTables ==
    ASSUME IInv, NEW c \in Consumers, CommitBatch(c)
    PROVE  TablesGood' /\ OffsetsCoverMessages' /\ CompletionIsClean'
<1> USE DEF IInv
<1>1. /\ Storing(c) /\ next[c] = batch[c].to + 1
      /\ \A e \in Events : assemblies[e] # NoDigest => assemblies'[e] = assemblies[e]
      /\ \A e \in Events : SeenAssembly(c, e) # NoDigest /\ completed[e] = NoDigest =>
            assemblies'[e] = SeenAssembly(c, e)
      /\ \A m \in SeenStored(c) : m \in stored' \/ completed[m.ev] = m.digest
      /\ \A e \in SeenReady(c) : e \in ready' \/ completed[e] # NoDigest
      /\ \A e \in newReady[c] : completed[e] = NoDigest
      /\ \A m \in newStored[c] : completed[m.ev] = NoDigest
      /\ \A e \in Events : newAsm[c][e] # NoDigest => completed[e] = NoDigest
      /\ stored' = stored \cup newStored[c] /\ ready' = ready \cup newReady[c]
      /\ dead' = dead \cup newDead[c] /\ UNCHANGED <<completed, ledger, manifests, log>>
    BY CommitFacts
<1>2. SeenGood(c) /\ SnapshotLasts(c)
    BY DEF TxGood, OneTx
<1>3. /\ \A x \in SeenStored(c) : SeenAssembly(c, x.ev) = x.digest
      /\ \A x \in SeenStored(c) : x.part = Manifest => x.ev \in SeenReady(c)
      /\ \A x \in SeenReady(c) : SeenAssembly(c, x) # NoDigest
            /\ \A i \in Parts \cup {Manifest} : MessageOf(x, i, SeenAssembly(c, x)) \in SeenStored(c)
    BY <1>1, <1>2, SeenTyped, DigestFacts DEF SeenGood, Consistent, Seen
<1>4. /\ \A m \in SeenStored(c) : m \in Message /\ m.ev \in Events /\ m.digest # NoDigest
      /\ \A m \in stored : m \in Message /\ m.ev \in Events /\ m.digest # NoDigest
      /\ ready \subseteq Events /\ newReady[c] \subseteq SeenReady(c) /\ SeenReady(c) \subseteq Events
      /\ newStored[c] \subseteq SeenStored(c)
    BY SeenTyped, DigestFacts DEF TypeOK, SeenReady, SeenStored
<1>5. /\ \A x \in stored : assemblies[x.ev] = x.digest
      /\ \A x \in stored : x.part = Manifest => x.ev \in ready
      /\ \A x \in ready : assemblies[x] # NoDigest
            /\ \A i \in Parts \cup {Manifest} : MessageOf(x, i, assemblies[x]) \in stored
    BY DEF TablesGood, Consistent, Tables
<1>6. ASSUME NEW m \in stored' PROVE assemblies'[m.ev] = m.digest
    BY <1>1, <1>3, <1>4, <1>5
<1>7. ASSUME NEW m \in stored', m.part = Manifest PROVE m.ev \in ready'
    BY <1>1, <1>3, <1>4, <1>5, <1>7
<1>8. ASSUME NEW e \in ready'
      PROVE  assemblies'[e] # NoDigest /\ \A i \in Parts \cup {Manifest} : MessageOf(e, i, assemblies'[e]) \in stored'
  <2>1. CASE e \in ready
    BY <1>1, <1>4, <1>5, <2>1
  <2>2. CASE e \in newReady[c]
    <3>1. SeenAssembly(c, e) # NoDigest /\ completed[e] = NoDigest /\ assemblies'[e] = SeenAssembly(c, e)
      BY <1>1, <1>3, <1>4, <2>2
    <3>2. ASSUME NEW i \in Parts \cup {Manifest} PROVE MessageOf(e, i, SeenAssembly(c, e)) \in stored'
      <4>1. PICK m : m = MessageOf(e, i, SeenAssembly(c, e)) /\ m \in SeenStored(c)
        BY <1>3, <1>4, <2>2
      <4>2. m.ev = e /\ m.digest # NoDigest
        BY <1>4, <4>1 DEF MessageOf
      <4> QED BY <1>1, <3>1, <4>1, <4>2
    <3> QED BY <3>1, <3>2
  <2> QED BY <1>1, <2>1, <2>2
<1>9. Consistent(Tables)'
    BY <1>6, <1>7, <1>8 DEF Consistent, Tables
<1>10. /\ offset \in Nat /\ batch[c].to \in Nat /\ batch[c].from \in Nat /\ batch[c].from <= offset
       /\ offset <= Len(log) /\ batch[c].to <= Len(log) /\ Len(log) \in Nat
       /\ offset' = Bigger(offset, batch[c].to)
    BY <1>1, <1>2 DEF TypeOK, SeenGood, CommitBatch
<1>11. ASSUME NEW i \in 1..offset', NEW m, m = log[i] PROVE m \in Message /\ m.ev \in Events /\ m.digest # NoDigest
  <2>1. i \in 1..Len(log)
    BY <1>10 DEF Bigger
  <2> QED BY <1>11, <2>1, DigestFacts DEF TypeOK
<1>12. ASSUME NEW i \in 1..offset', NEW m, m = log[i] PROVE Settled(Tables', m)
  <2>1. m \in Message /\ m.ev \in Events /\ m.digest # NoDigest
    BY <1>11, <1>12
  <2>2. CASE i \in 1..offset
    <3>1. Settled(Tables, m)
      BY <1>12, <2>2 DEF TablesGood
    <3> QED BY <1>1, <2>1, <3>1 DEF Settled, Tables
  <2>3. CASE i \notin 1..offset
    <3>1. i \in 1..(next[c] - 1)
      BY <1>1, <1>10, <2>3 DEF Bigger
    <3>2. Settled(Seen(c), m)
      BY <1>1, <1>2, <1>12, <3>1 DEF SeenGood
    <3>3. CASE completed[m.ev] # NoDigest
      BY <1>1, <3>3 DEF Settled, Tables
    <3>4. CASE m.ev \in snap[c].ledger
      BY <1>1, <1>2, <3>4 DEF Settled, Tables, SnapshotLasts
    <3>5. CASE completed[m.ev] = NoDigest /\ snap[c].completed[m.ev] # NoDigest
      BY <1>1, <1>2, <2>1, <3>5 DEF SnapshotLasts
    <3>6. CASE /\ completed[m.ev] = NoDigest
               /\ SeenAssembly(c, m.ev) # NoDigest /\ (SeenAssembly(c, m.ev) = m.digest => m \in SeenStored(c))
      <4>1. assemblies'[m.ev] = SeenAssembly(c, m.ev)
        BY <1>1, <2>1, <3>6
      <4>2. m \in SeenStored(c) => m \in stored'
        BY <1>1, <2>1, <3>6
      <4> QED BY <3>6, <4>1, <4>2 DEF Settled, Tables
    <3> QED BY <2>1, <3>2, <3>3, <3>4, <3>5, <3>6 DEF Settled, Seen
  <2> QED BY <2>2, <2>3
<1>13. TablesGood'
    BY <1>1, <1>9, <1>12 DEF TablesGood
<1>14. ASSUME NEW i \in 1..offset', NEW m, m = log[i]
       PROVE  i \in dead' \/ completed'[m.ev] = m.digest \/ m \in stored'
  <2>1. m \in Message /\ m.ev \in Events /\ m.digest # NoDigest
    BY <1>11, <1>14
  <2>2. CASE i \in 1..offset
    BY <1>1, <1>14, <2>2 DEF OffsetsCoverMessages
  <2>3. CASE i \notin 1..offset
    <3>1. i \in (batch[c].from + 1)..(next[c] - 1)
      BY <1>1, <1>10, <2>3 DEF Bigger
    <3>2. i \in newDead[c] \/ snap[c].completed[m.ev] = m.digest \/ m \in SeenStored(c)
      BY <1>1, <1>2, <1>14, <3>1 DEF SeenGood, Handled
    <3>3. snap[c].completed[m.ev] = m.digest => completed[m.ev] = m.digest
      BY <1>1, <1>2, <2>1 DEF SnapshotLasts
    <3> QED BY <1>1, <3>2, <3>3
  <2> QED BY <2>2, <2>3
<1>15. OffsetsCoverMessages'
    BY <1>1, <1>14 DEF OffsetsCoverMessages
<1>16. CompletionIsClean'
  <2>1. CompletedHasRow'
    BY <1>1 DEF CompletionIsClean, CompletedHasRow
  <2>2. ASSUME NEW e \in Events, completed[e] # NoDigest
        PROVE  assemblies'[e] = NoDigest /\ \A m \in stored' : m.ev # e
    <3>1. assemblies[e] = NoDigest /\ \A m \in stored : m.ev # e
      BY <2>2 DEF CompletionIsClean, NoTransportLeft
    <3>2. newAsm[c][e] = NoDigest /\ \A m \in newStored[c] : m.ev # e
      BY <1>1, <2>2
    <3> QED BY <1>1, <3>1, <3>2 DEF CommitBatch
  <2> QED BY <1>1, <2>1, <2>2 DEF CompletionIsClean, NoTransportLeft
<1> QED BY <1>13, <1>15, <1>16

\* The other transactions find the committed rows stale, and hold none of them.
LEMMA CommitOthers ==
    ASSUME IInv, TypeOK', NEW c \in Consumers, CommitBatch(c), NEW d \in Consumers, d # c
    PROVE  OneTx(d)' /\ Written(d)' = Written(d)
<1> USE DEF IInv
<1>1. /\ Storing(c)
      /\ \A e \in Events : assemblies[e] # NoDigest => assemblies'[e] = assemblies[e]
      /\ \A m \in SeenStored(c) : m \in stored' \/ completed[m.ev] = m.digest
      /\ stored' = stored \cup newStored[c] /\ ready' = ready \cup newReady[c]
      /\ UNCHANGED <<completed, ledger, log>>
    BY CommitFacts
<1>2. \A e \in Events : newAsm[c][e] = NoDigest => assemblies'[e] = assemblies[e]
    BY DEF CommitBatch
<1>3. SameTx(d) /\ OneTx(d) /\ (Storing(d)' <=> Storing(d))
    BY DEF CommitBatch, CloseTx, ForgetWrites, SameTx, Storing, TypeOK, TxGood
<1>4. /\ \A row \in Written(c) : row \notin Written(d)
      /\ \A e \in Events : newAsm[c][e] # NoDigest => <<e, Manifest>> \in Written(c)
      /\ \A e \in newReady[c] : <<e, Manifest>> \in Written(c)
      /\ \A m \in newStored[c] : RowOf(m) \in Written(c)
      /\ \A e \in Events : newAsm[d][e] # NoDigest => <<e, Manifest>> \in Written(d)
      /\ \A e \in newReady[d] : <<e, Manifest>> \in Written(d)
      /\ \A m \in newStored[d] : RowOf(m) \in Written(d)
  <2>1. \A row \in Written(c) : row \notin Written(d)
    BY DEF TxGood, WritesApart
  <2> QED BY <2>1 DEF Written
<1>5. SeenGood(d)'
  <2>1. offset <= offset' /\ offset' \in Nat /\ log' = log
    BY <1>1 DEF CommitBatch, Bigger, TypeOK
  <2> QED BY <1>3, <2>1, SeenKept DEF OneTx, SameTx
<1>6. Written(d)' = Written(d) /\ \A x \in Events : Touches(d, x)' <=> Touches(d, x)
    BY <1>3, WritesKept DEF SameTx
<1>7. newReady[c] \subseteq Events /\ newStored[d] \subseteq Message /\ newStored[c] \subseteq Message
    BY DEF TypeOK
<1>8. WritesNew(d)'
  <2>1. ASSUME NEW x \in Events, newAsm'[d][x] # NoDigest PROVE assemblies'[x] = NoDigest
    BY <1>2, <1>3, <1>4, <2>1 DEF OneTx, WritesNew, SameTx
  <2>2. ASSUME NEW x \in Events, Touches(d, x)' PROVE x \notin ready' /\ completed'[x] = NoDigest
    <3>1. Touches(d, x) /\ x \notin ready /\ completed[x] = NoDigest
      BY <1>3, <1>6, <2>2 DEF OneTx, WritesNew
    <3>2. ASSUME x \in newReady[c] PROVE FALSE
      <4>1. PICK m \in newStored[d] : m.ev = x
        BY <1>4, <3>1, <3>2 DEF Touches
      <4>2. m \in Message /\ m.part \in Parts \cup {Manifest}
        BY <1>7, DigestFacts
      <4>3. PICK n : n = MessageOf(x, m.part, SeenAssembly(c, x)) /\ n \in SeenStored(c) /\ SeenAssembly(c, x) # NoDigest
        BY <1>1, <3>2, <4>2 DEF TxGood, OneTx, SeenGood, Consistent, Seen, SeenReady
      <4>4. RowOf(n) = RowOf(m) /\ n.ev = x /\ n.digest # NoDigest
        BY <4>1, <4>3 DEF RowOf, MessageOf
      <4>5. n \in stored \/ n \in newStored[c]
        BY <1>1, <3>1, <4>3, <4>4
      <4>6. CASE n \in stored
        BY <1>3, <4>4, <4>6 DEF OneTx, WritesNew
      <4>7. CASE n \in newStored[c]
        BY <1>4, <4>4, <4>7
      <4> QED BY <4>5, <4>6, <4>7
    <3> QED BY <1>1, <3>1, <3>2
  <2>3. ASSUME NEW m \in newStored'[d], NEW n \in stored' PROVE RowOf(m) # RowOf(n)
    <3>1. m \in newStored[d]
      BY <1>3 DEF SameTx
    <3>2. CASE n \in stored
      BY <1>3, <3>1, <3>2 DEF OneTx, WritesNew
    <3>3. CASE n \in newStored[c]
      BY <1>4, <3>1, <3>3
    <3> QED BY <1>1, <3>2, <3>3
  <2> QED BY <2>1, <2>2, <2>3 DEF WritesNew, RowOf
<1>9. CASE ~Storing(d)
    BY <1>3, <1>6, <1>8, <1>9, IdleGood
<1>10. CASE Storing(d)
  <2>1. stale'[d] = stale[d] \cup Written(c) /\ snap'[d] = snap[d]
    BY <1>3, <1>10 DEF CommitBatch, Outdate, SameTx
  <2>2. SnapshotLasts(d) /\ SnapshotCurrent(d)
    BY <1>3 DEF OneTx
  <2>3. SnapshotLasts(d)'
    <3>1. snap[d].ledger \subseteq ledger' /\ \A m \in snap[d].stored : m \in stored' \/ completed'[m.ev] = m.digest
      BY <1>1, <1>10, <2>2 DEF SnapshotLasts
    <3>2. ASSUME NEW x \in Events
          PROVE  /\ snap[d].asm[x] # NoDigest => assemblies'[x] = snap[d].asm[x] \/ completed'[x] # NoDigest
                 /\ x \in snap[d].ready => x \in ready' \/ completed'[x] # NoDigest
                 /\ \/ snap[d].completed[x] = completed'[x]
                    \/ snap[d].completed[x] = NoDigest /\ RowsOf(x) \subseteq stale'[d]
      BY <1>1, <1>10, <2>1, <2>2 DEF SnapshotLasts
    <3> QED BY <2>1, <3>1, <3>2 DEF SnapshotLasts
  <2>4. SnapshotCurrent(d)'
    <3>1. ASSUME NEW m \in Message, RowOf(m) \notin stale'[d] PROVE m \in stored' <=> m \in snap[d].stored
      BY <1>1, <1>4, <1>10, <2>1, <2>2, <3>1 DEF SnapshotCurrent
    <3>2. ASSUME NEW x \in Events, <<x, Manifest>> \notin stale'[d]
          PROVE  assemblies'[x] = snap[d].asm[x] /\ (x \in ready' <=> x \in snap[d].ready)
      BY <1>1, <1>2, <1>4, <1>10, <2>1, <2>2, <3>2 DEF SnapshotCurrent
    <3> QED BY <2>1, <3>1, <3>2 DEF SnapshotCurrent, RowOf
  <2> QED BY <1>5, <1>6, <1>8, <2>3, <2>4 DEF OneTx
<1> QED BY <1>9, <1>10

LEMMA InvCommit ==
    ASSUME IInv, TypeOK', NEW c \in Consumers, CommitBatch(c)
    PROVE  IInv'
<1> USE DEF IInv
<1>1. OneTx(c)' /\ Written(c)' = {} /\ ~Storing(c)'
    BY CloseGood DEF CommitBatch
<1>2. \A d \in Consumers : d # c => OneTx(d)' /\ Written(d)' = Written(d)
    BY CommitOthers
<1>3. TxGood'
    BY <1>1, <1>2, ApartKept DEF TxGood
<1>4. LocksGood'
  <2>1. \A d \in Consumers : d # c => (Storing(d)' <=> Storing(d))
    BY DEF CommitBatch, CloseTx, Storing, TypeOK
  <2>2. UNCHANGED <<todo, locked>> /\ ready \subseteq ready'
    BY DEF CommitBatch
  <2> QED BY <1>1, <2>1, <2>2 DEF LocksGood
<1>5. LogInOrder'
    BY DEF CommitBatch, LogInOrder
<1> QED BY <1>3, <1>4, <1>5, CommitTables

LEMMA InvStep ==
    ASSUME IInv, [Next]_vars
    PROVE  IInv'
<1>1. TypeOK'
    BY TypeStep DEF IInv
<1>2. CASE UNCHANGED vars
  <2>1. UNCHANGED <<log, offset, txVars, assemblies, ready, stored, completed, ledger, manifests, dead>>
    BY <1>2 DEF vars, tables
  <2>2. LogInOrder' /\ LocksGood'
    BY <1>2 DEF IInv, LogInOrder, LocksGood, Storing, vars, tables, txVars
  <2> QED BY <1>1, <2>1, <2>2, InvQuiet
<1> QED BY <1>1, <1>2, InvPublish, InvRelay, InvPlain, InvOpen, InvStore, InvCommit, InvEnd, InvWorker, InvComplete,
       InvMark DEF Next, StoreStep, CompleteStep

\* The inductive invariant holds in every reachable state of EventAssembly.
THEOREM InvariantHolds == Spec => []IInv
<1>1. IInv /\ [Next]_vars => IInv'
    BY InvStep
<1> QED BY <1>1, InvInit, PTL DEF Spec
----------------------------------------------------------------------------
\* The theorems

\* For any number of consumers, events, encodings and parts an assembly is
\* ready exactly when it is whole: the completion scan takes no partial event,
\* and no order of parts, manifest, redeliveries and retries leaves a whole
\* event unmarked (storeTransportMessage).
THEOREM ReadyMeansWhole == Spec => []ReadyExactlyWhole
<1>1. IInv => ReadyExactlyWhole
  <2> SUFFICES ASSUME IInv, NEW e \in Events
               PROVE  e \in ready <=> assemblies[e] # NoDigest /\ Whole(e)
    BY DEF ReadyExactlyWhole
  <2>1. Consistent(Tables)
    BY DEF IInv, TablesGood
  <2>2. ASSUME e \in ready PROVE assemblies[e] # NoDigest /\ Whole(e)
    BY <2>1, <2>2 DEF Consistent, Tables, Whole, MessageOf
  <2>3. ASSUME Whole(e) PROVE e \in ready
    <3>1. PICK m \in stored : m = [ev |-> e, part |-> Manifest, digest |-> assemblies[e]]
      BY <2>3 DEF Whole
    <3>2. m.part = Manifest /\ m.ev = e
      BY <3>1
    <3> QED BY <2>1, <3>2 DEF Consistent, Tables
  <2> QED BY <2>2, <2>3
<1> QED BY <1>1, InvariantHolds, PTL

\* Every completed event has its ledger row and its permanent manifest, and
\* no stored message, also none that a transaction read before the completion
\* and wrote after it (completedTransport, finishAssembly).
THEOREM CompletionsAreClean == Spec => []CompletionIsClean
<1>1. IInv => CompletionIsClean
    BY DEF IInv
<1> QED BY <1>1, InvariantHolds, PTL

\* No message behind the committed offset is lost: it is stored, completed in
\* its own encoding, or dead-lettered (projectBatchOnce, rejectTransport).
THEOREM MessagesAreCovered == Spec => []OffsetsCoverMessages
<1>1. IInv => OffsetsCoverMessages
    BY DEF IInv
<1> QED BY <1>1, InvariantHolds, PTL

\* Stored evidence leaves the transient tables only for the ledger, and with
\* its own encoding recorded as the completed one (finishAssembly, and
\* completeAssemblyWithRetry for an assembly that fails verification).
THEOREM EvidenceOnlyMoves == Spec => EvidenceKept
<1>1. IInv /\ [Next]_vars =>
        [\A m \in stored : m \in stored' \/ (m.ev \in ledger' /\ completed'[m.ev] = m.digest)]_vars
  <2> SUFFICES ASSUME IInv, Next, NEW m \in stored
               PROVE  m \in stored' \/ (m.ev \in ledger' /\ completed'[m.ev] = m.digest)
    OBVIOUS
  <2>1. ASSUME NEW c \in Consumers, NEW e \in Events, CompleteAssembly(c, e)
        PROVE  m \in stored' \/ (m.ev \in ledger' /\ completed'[m.ev] = m.digest)
    BY <2>1, CompletionFacts
  <2>2. ASSUME NEW c \in Consumers, CommitBatch(c) PROVE m \in stored'
    BY <2>2 DEF CommitBatch
  <2>3. ASSUME NEW e \in Events, Publish(e) \/ Republish(e) \/ ProjectPlain(e) \/ CoverWeek(e)
        PROVE  m \in stored'
    BY <2>3 DEF Publish, Republish, ProjectPlain, CoverWeek, tables
  <2>4. ASSUME NEW c \in Consumers, BeginBatch(c) \/ SkipMessage(c) \/ RejectMessage(c) \/ StoreMessage(c)
                                    \/ RetryBatch(c) \/ FailBatch(c) \/ ScanReady(c) \/ Crash(c)
        PROVE  m \in stored'
    BY <2>4 DEF BeginBatch, SkipMessage, RejectMessage, StoreMessage, RetryBatch, FailBatch, ScanReady, Crash, tables
  <2>5. ASSUME NEW c \in Consumers, NEW e \in Events,
               LockAssembly(c, e) \/ MarkInvalid(c, e) \/ RefuseAssembly(c, e) \/ AbandonCompletion(c, e)
        PROVE  m \in stored'
    BY <2>5 DEF LockAssembly, MarkInvalid, RefuseAssembly, AbandonCompletion, tables
  <2>6. CASE UNCHANGED vars
    BY <2>6 DEF vars, tables
  <2> QED BY <2>1, <2>2, <2>3, <2>4, <2>5, <2>6 DEF Next, StoreStep, CompleteStep
<1> QED BY <1>1, InvariantHolds, PTL DEF Spec, EvidenceKept
============================================================================
