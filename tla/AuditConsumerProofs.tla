------------------------ MODULE AuditConsumerProofs ------------------------
(***************************************************************************)
(* Proofs about AuditConsumer, for every number of consumers, partitions,  *)
(* chains and events and every bound.                                      *)
(***************************************************************************)
EXTENDS AuditConsumer, TLAPS, FiniteSetTheorems

----------------------------------------------------------------------------
\* Type correctness

\* A batch is a stretch of its partition, and an open transaction is at a
\* record of a fetched batch or past its last one.
BatchBounds ==
    /\ \A c \in Consumers, p \in Partitions :
          batch[c][p].from <= batch[c][p].to /\ batch[c][p].to <= Len(topic[p])
    /\ \A c \in Consumers : Projecting(c) =>
          batch[c][txPart[c]].st = "fetched" /\ txNext[c] > batch[c][txPart[c]].from
    /\ \A c \in Consumers : txStep[c] # "claim" => HasRecord(c)

TypeInv == TypeOK /\ BatchBounds

\* The record under projection exists, so everything read off it has a type.
LEMMA RecordTyped ==
    ASSUME TypeInv, NEW c \in Consumers, HasRecord(c)
    PROVE  /\ txPart[c] \in Partitions
           /\ txNext[c] \in 1..Len(topic[txPart[c]])
           /\ Rec(c) \in Record /\ Ev(c) \in Events
           /\ Rec(c).origin \in DeadLetterKey \cup {NoKey}
           /\ Chain(c) \in Chains
           /\ <<txPart[c], txNext[c]>> \in DeadLetterKey
<1>1. txPart[c] \in Partitions /\ txNext[c] \in Nat
  BY DEF TypeInv, TypeOK, LoopTypeOK, HasRecord, Projecting
<1>2. txNext[c] \in 1..Len(topic[txPart[c]])
  BY <1>1 DEF TypeInv, BatchBounds, TypeOK, LoopTypeOK, KafkaTypeOK, HasRecord, Projecting, Batch
<1>3. Rec(c) \in Record
  BY <1>1, <1>2 DEF TypeInv, TypeOK, KafkaTypeOK, Rec
<1>4. Ev(c) \in Events /\ Rec(c).origin \in DeadLetterKey \cup {NoKey}
  BY <1>3 DEF Ev, Record
<1> QED
  BY <1>1, <1>2, <1>3, <1>4, ConstantsAssumption DEF Chain, DeadLetterKey

LEMMA InitTypeInv == Init => TypeInv
  BY ConstantsAssumption DEF Init, TypeInv, TypeOK, KafkaTypeOK, LedgerTypeOK, LoopTypeOK,
     WritesTypeOK, BatchBounds, Genesis, ChainHead, NoBatch, Batch, Projecting, HasRecord

\* The topic grows at its end, so no record a batch covers changes.
LEMMA TopicGrows ==
    ASSUME TypeInv, NEW p \in Partitions, NEW r \in Record,
           topic' = [topic EXCEPT ![p] = Append(@, r)]
    PROVE  /\ topic' \in [Partitions -> Seq(Record)]
           /\ \A q \in Partitions : Len(topic'[q]) >= Len(topic[q])
           /\ \A q \in Partitions : \A i \in 1..Len(topic[q]) : topic'[q][i] = topic[q][i]
  BY DEF TypeInv, TypeOK, KafkaTypeOK

\* A step that leaves the loops and the transactions alone and only extends
\* the topic keeps the bounds.
LEMMA BoundsFrame ==
    ASSUME TypeInv, KafkaTypeOK', UNCHANGED <<batch, txPart, txNext, txStep>>,
           \A q \in Partitions : Len(topic'[q]) >= Len(topic[q])
    PROVE  BatchBounds'
<1>1. \A c \in Consumers, p \in Partitions :
        /\ batch[c][p].from \in Nat /\ batch[c][p].to \in Nat
        /\ Len(topic[p]) \in Nat /\ Len(topic'[p]) \in Nat
  BY DEF TypeInv, TypeOK, LoopTypeOK, KafkaTypeOK, Batch
<1> QED
  BY <1>1 DEF TypeInv, BatchBounds, Projecting, HasRecord

LEMMA ProduceType == ASSUME TypeInv, NEW e \in Events, Produce(e) PROVE TypeInv'
<1> DEFINE p == PartitionOf[ChainOf[e]]
<1>1. p \in Partitions /\ [ev |-> e, origin |-> NoKey] \in Record
  BY ConstantsAssumption DEF Record
<1>2. topic' = [topic EXCEPT ![p] = Append(@, [ev |-> e, origin |-> NoKey])]
  BY DEF Produce
<1>3. KafkaTypeOK' /\ \A q \in Partitions : Len(topic'[q]) >= Len(topic[q])
  BY <1>1, <1>2, TopicGrows DEF Produce, TypeInv, TypeOK, KafkaTypeOK
<1>4. BatchBounds'
  BY <1>3, BoundsFrame DEF Produce, txVars
<1> QED
  BY <1>3, <1>4 DEF Produce, TypeInv, TypeOK, LedgerTypeOK, LoopTypeOK, WritesTypeOK, tables, txVars

LEMMA SendType ==
    ASSUME TypeInv, NEW d \in letters, SendLetter(d), UNCHANGED <<groupOffset, owner, position>>
    PROVE  KafkaTypeOK' /\ \A q \in Partitions : Len(topic'[q]) >= Len(topic[q])
<1>1. PICK p \in Partitions : topic' = [topic EXCEPT ![p] = Append(@, [ev |-> d.ev, origin |-> d.key])]
  BY DEF SendLetter
<1>2. [ev |-> d.ev, origin |-> d.key] \in Record
  BY DEF TypeInv, TypeOK, DeadLetter, Record
<1> QED
  BY <1>1, <1>2, TopicGrows DEF TypeInv, TypeOK, KafkaTypeOK

LEMMA OperatorType ==
    ASSUME TypeInv,
           \/ ListDeadLetters
           \/ \E d \in letters : Replay(d) \/ ReplayStopped(d)
           \/ \E e \in Events : CoverWeek(e)
    PROVE  TypeInv'
<1>1. CASE ListDeadLetters
  <2>1. TypeOK' BY <1>1 DEF ListDeadLetters, TypeInv, TypeOK, KafkaTypeOK, LedgerTypeOK, LoopTypeOK,
          WritesTypeOK, kafka, tables, txVars
  <2>2. BatchBounds' BY <1>1, <2>1, BoundsFrame DEF ListDeadLetters, TypeOK, TypeInv, KafkaTypeOK, kafka, txVars
  <2> QED BY <2>1, <2>2 DEF TypeInv
<1>2. ASSUME NEW d \in letters, Replay(d) \/ ReplayStopped(d) PROVE TypeInv'
  <2>1. KafkaTypeOK' /\ \A q \in Partitions : Len(topic'[q]) >= Len(topic[q])
    BY <1>2, SendType DEF Replay, ReplayStopped, TypeInv, TypeOK, KafkaTypeOK
  <2>2. TypeOK'
    BY <1>2, <2>1 DEF Replay, ReplayStopped, Fault, TypeInv, TypeOK, LedgerTypeOK, LoopTypeOK,
       WritesTypeOK, tables, txVars
  <2>3. BatchBounds' BY <1>2, <2>1, BoundsFrame DEF Replay, ReplayStopped, txVars
  <2> QED BY <2>2, <2>3 DEF TypeInv
<1>3. ASSUME NEW e \in Events, CoverWeek(e) PROVE TypeInv'
  <2>1. TypeOK' BY <1>3 DEF CoverWeek, TypeInv, TypeOK, KafkaTypeOK, LedgerTypeOK, LoopTypeOK,
          WritesTypeOK, kafka, tables, txVars
  <2>2. BatchBounds' BY <1>3, <2>1, BoundsFrame DEF CoverWeek, TypeInv, TypeOK, KafkaTypeOK, kafka, txVars
  <2> QED BY <2>1, <2>2 DEF TypeInv
<1> QED BY <1>1, <1>2, <1>3

LEMMA ForgetType ==
    ASSUME TypeInv, NEW c \in Consumers, ForgetWrites(c)
    PROVE  WritesTypeOK' /\ txStep' = [txStep EXCEPT ![c] = "claim"]
  BY DEF ForgetWrites, TypeInv, TypeOK, WritesTypeOK, Genesis, ChainHead

\* The poll loop: Assign, Poll, FinishPoll, BeginBatch, Crash
LEMMA LoopType ==
    ASSUME TypeInv, NEW c \in Consumers,
           \/ \E p \in Partitions : Assign(c, p) \/ BeginBatch(c, p)
           \/ Poll(c) \/ FinishPoll(c) \/ Crash(c)
    PROVE  TypeInv'
<1>1. ASSUME NEW p \in Partitions, Assign(c, p) PROVE TypeInv'
  <2>3. KafkaTypeOK' BY <1>1 DEF Assign, TypeInv, TypeOK, KafkaTypeOK
  <2>4. LedgerTypeOK' BY <1>1 DEF Assign, TypeInv, TypeOK, LedgerTypeOK, tables
  <2>5. LoopTypeOK' /\ WritesTypeOK' /\ letters' \subseteq DeadLetter
    BY <1>1 DEF Assign, TypeInv, TypeOK, LoopTypeOK, WritesTypeOK, txVars
  <2>6. faults' \in Nat BY <1>1 DEF Assign, Fault, TypeInv, TypeOK
  <2>1. TypeOK' BY <2>3, <2>4, <2>5, <2>6 DEF TypeOK
  <2>2. BatchBounds' BY <1>1, <2>1, BoundsFrame DEF Assign, TypeInv, TypeOK, KafkaTypeOK, txVars
  <2> QED BY <2>1, <2>2 DEF TypeInv
<1>2. ASSUME NEW p \in Partitions, BeginBatch(c, p) PROVE TypeInv'
  <2>1. WritesTypeOK' /\ txStep' = [txStep EXCEPT ![c] = "claim"]
    BY <1>2, ForgetType DEF BeginBatch
  <2>2. LoopTypeOK' BY <1>2, <2>1 DEF BeginBatch, TypeInv, TypeOK, LoopTypeOK, Batch
  <2>3. TypeOK' BY <1>2, <2>1, <2>2 DEF BeginBatch, TypeInv, TypeOK, KafkaTypeOK, LedgerTypeOK, kafka, tables
  <2>4. BatchBounds'
    BY <1>2, <2>1 DEF BeginBatch, TypeInv, TypeOK, LoopTypeOK, BatchBounds, Projecting, HasRecord, Batch, kafka
  <2> QED BY <2>3, <2>4 DEF TypeInv
<1>3. ASSUME Poll(c) PROVE TypeInv'
  <2>1. PICK n \in [Partitions -> 0..BatchSize] :
          /\ \A p \in Partitions : n[p] > 0 =>
                owner[p] = c /\ position[c][p] + n[p] <= Len(topic[p])
          /\ batch' = [batch EXCEPT ![c] = [p \in Partitions |->
                IF n[p] = 0 THEN NoBatch
                ELSE [from |-> position[c][p], to |-> position[c][p] + n[p], st |-> "fetched"]]]
          /\ position' = [position EXCEPT ![c] = [p \in Partitions |-> @[p] + n[p]]]
    BY <1>3 DEF Poll
  <2>2. \A p \in Partitions : n[p] \in Nat /\ position[c][p] \in Nat
    BY ConstantsAssumption DEF TypeInv, TypeOK, KafkaTypeOK
  <2>3. \A p \in Partitions : batch'[c][p] = IF n[p] = 0 THEN NoBatch
          ELSE [from |-> position[c][p], to |-> position[c][p] + n[p], st |-> "fetched"]
    BY <2>1 DEF TypeInv, TypeOK, LoopTypeOK
  <2>4. \A d \in Consumers : d # c => batch'[d] = batch[d]
    BY <2>1 DEF TypeInv, TypeOK, LoopTypeOK
  <2>5. \A p \in Partitions : batch'[c][p] \in Batch
          /\ batch'[c][p].from <= batch'[c][p].to /\ batch'[c][p].to <= Len(topic[p])
    <3> SUFFICES ASSUME NEW p \in Partitions
                 PROVE  batch'[c][p] \in Batch
                          /\ batch'[c][p].from <= batch'[c][p].to /\ batch'[c][p].to <= Len(topic[p])
      OBVIOUS
    <3>1. Len(topic[p]) \in Nat BY DEF TypeInv, TypeOK, KafkaTypeOK
    <3>2. CASE n[p] = 0
      <4>1. batch'[c][p] = NoBatch BY <2>3, <3>2
      <4> QED BY <3>1, <4>1 DEF NoBatch, Batch
    <3>3. CASE n[p] # 0
      <4>1. position[c][p] + n[p] <= Len(topic[p]) BY <2>1, <2>2, <3>3
      <4>2. batch'[c][p] = [from |-> position[c][p], to |-> position[c][p] + n[p], st |-> "fetched"]
        BY <2>3, <3>3
      <4> QED BY <2>2, <3>1, <4>1, <4>2 DEF Batch
    <3> QED BY <3>2, <3>3
  <2>6. batch' \in [Consumers -> [Partitions -> Batch]]
    BY <2>1, <2>2 DEF TypeInv, TypeOK, LoopTypeOK, NoBatch, Batch
  <2>13. [p \in Partitions |-> position[c][p] + n[p]] \in [Partitions -> Nat] BY <2>2
  <2>14. position \in [Consumers -> [Partitions -> Nat]] BY DEF TypeInv, TypeOK, KafkaTypeOK
  <2>15. position' \in [Consumers -> [Partitions -> Nat]] BY <2>1, <2>13, <2>14
  <2>7. KafkaTypeOK' BY <1>3, <2>15 DEF Poll, TypeInv, TypeOK, KafkaTypeOK
  <2>11. LedgerTypeOK' BY <1>3 DEF Poll, TypeInv, TypeOK, LedgerTypeOK, tables
  <2>12. LoopTypeOK' /\ WritesTypeOK' /\ letters' \subseteq DeadLetter /\ faults' \in Nat
    BY <1>3, <2>6 DEF Poll, TypeInv, TypeOK, LoopTypeOK, WritesTypeOK, txVars
  <2>8. TypeOK' BY <2>7, <2>11, <2>12 DEF TypeOK
  <2>9. ~Projecting(c) /\ txStep[c] = "claim"
    <3>1. \A p \in Partitions : batch[c][p].st = "none" BY <1>3 DEF Poll, InPoll
    <3>2. ~Projecting(c) BY <3>1 DEF TypeInv, TypeOK, LoopTypeOK, BatchBounds, Projecting
    <3> QED BY <3>2 DEF TypeInv, BatchBounds, HasRecord
  <2>10. BatchBounds'
    BY <1>3, <2>4, <2>5, <2>9 DEF Poll, TypeInv, BatchBounds, Projecting, HasRecord, txVars
  <2> QED BY <2>8, <2>10 DEF TypeInv
<1>4. ASSUME FinishPoll(c) PROVE TypeInv'
  <2>1. batch' = [batch EXCEPT ![c] = [p \in Partitions |-> NoBatch]] BY <1>4 DEF FinishPoll
  <2>2. \A p \in Partitions : FetchPosition(c, p) \in Nat /\ batch[c][p].to \in Nat
    BY DEF FetchPosition, TypeInv, TypeOK, KafkaTypeOK, LoopTypeOK, Batch
  <2>3. KafkaTypeOK' BY <1>4, <2>2 DEF FinishPoll, TypeInv, TypeOK, KafkaTypeOK
  <2>4. TypeOK' BY <1>4, <2>1, <2>3 DEF FinishPoll, Fault, TypeInv, TypeOK, LedgerTypeOK, LoopTypeOK,
          WritesTypeOK, tables, txVars, NoBatch, Batch
  <2>5. ~Projecting(c) /\ txStep[c] = "claim"
    BY <1>4 DEF FinishPoll, TypeInv, TypeOK, LoopTypeOK, BatchBounds, Projecting, HasRecord
  <2>6. \A p \in Partitions : Len(topic[p]) \in Nat BY DEF TypeInv, TypeOK, KafkaTypeOK
  <2>7. BatchBounds'
    BY <1>4, <2>1, <2>5, <2>6 DEF FinishPoll, TypeInv, TypeOK, LoopTypeOK, BatchBounds, Projecting, HasRecord, txVars, NoBatch
  <2> QED BY <2>4, <2>7 DEF TypeInv
<1>5. ASSUME Crash(c) PROVE TypeInv'
  <2>1. WritesTypeOK' /\ txStep' = [txStep EXCEPT ![c] = "claim"] BY <1>5, ForgetType DEF Crash, CloseTx
  <2>2. LoopTypeOK' BY <1>5, <2>1 DEF Crash, CloseTx, TypeInv, TypeOK, LoopTypeOK, NoBatch, Batch
  <2>3. TypeOK' BY <1>5, <2>1, <2>2 DEF Crash, Fault, TypeInv, TypeOK, KafkaTypeOK, LedgerTypeOK, tables
  <2>4. \A p \in Partitions : Len(topic[p]) \in Nat BY DEF TypeInv, TypeOK, KafkaTypeOK
  <2>5. BatchBounds'
    BY <1>5, <2>1, <2>4 DEF Crash, CloseTx, TypeInv, TypeOK, LoopTypeOK, BatchBounds, Projecting, HasRecord, NoBatch
  <2> QED BY <2>3, <2>5 DEF TypeInv
<1> QED BY <1>1, <1>2, <1>3, <1>4, <1>5

LEMMA LettersTyped ==
    ASSUME TypeInv, NEW c \in Consumers, HasRecord(c)
    PROVE  /\ DlqSeen(c) \subseteq DeadLetter /\ ReplayOrigin(c) \subseteq DeadLetter
           /\ LetterKey(c) \in DeadLetterKey
           /\ ReplayOrigin(c) # {} => Rec(c).origin \in DeadLetterKey
<1>1. DlqSeen(c) \subseteq DeadLetter BY DEF DlqSeen, TypeInv, TypeOK, LedgerTypeOK, WritesTypeOK
<1>2. ReplayOrigin(c) \subseteq DeadLetter BY <1>1 DEF ReplayOrigin
<1>3. ReplayOrigin(c) # {} => Rec(c).origin \in DeadLetterKey
  BY <1>2 DEF ReplayOrigin, DeadLetter
<1> QED BY <1>1, <1>2, <1>3, RecordTyped DEF LetterKey

LEMMA DeadLetterType ==
    ASSUME TypeInv, NEW c \in Consumers, HasRecord(c), DeadLetterRecord(c) \/ ResolveDeadLetter(c)
    PROVE  /\ txTouched' \in [Consumers -> SUBSET DeadLetterKey]
           /\ txDead' \in [Consumers -> SUBSET DeadLetter]
<1>1. CASE ResolveDeadLetter(c)
  BY <1>1, LettersTyped DEF ResolveDeadLetter, TypeInv, TypeOK, WritesTypeOK
<1>2. CASE DeadLetterRecord(c)
  <2> DEFINE key == LetterKey(c)
             old == {d \in DlqSeen(c) : d.key = key}
             new == IF ReplayOrigin(c) # {}
                    THEN {[d EXCEPT !.attempts = @ + 1] : d \in old}
                    ELSE {[key |-> key, ev |-> Ev(c), attempts |-> 0]}
  <2>1. \A d \in DeadLetter : [d EXCEPT !.attempts = @ + 1] \in DeadLetter BY DEF DeadLetter
  <2>2. [key |-> key, ev |-> Ev(c), attempts |-> 0] \in DeadLetter
    BY LettersTyped, RecordTyped DEF DeadLetter
  <2>3. old \subseteq DeadLetter BY LettersTyped
  <2>4. new \subseteq DeadLetter BY <2>1, <2>2, <2>3
  <2> HIDE DEF new, old
  <2>5. \/ UNCHANGED <<txTouched, txDead>>
        \/ /\ txTouched' = [txTouched EXCEPT ![c] = @ \cup {key}]
           /\ txDead' = [txDead EXCEPT ![c] = (@ \ old) \cup new]
    BY <1>2, Zenon DEF DeadLetterRecord, new, old
  <2>6. txTouched \in [Consumers -> SUBSET DeadLetterKey] /\ txDead \in [Consumers -> SUBSET DeadLetter]
    BY DEF TypeInv, TypeOK, WritesTypeOK
  <2>7. key \in DeadLetterKey BY LettersTyped
  <2> HIDE DEF key
  <2>8. CASE UNCHANGED <<txTouched, txDead>> BY <2>6, <2>8
  <2>9. CASE /\ txTouched' = [txTouched EXCEPT ![c] = @ \cup {key}]
             /\ txDead' = [txDead EXCEPT ![c] = (@ \ old) \cup new]
    <3>1. txTouched' \in [Consumers -> SUBSET DeadLetterKey] BY <2>6, <2>7, <2>9
    <3>2. txDead' \in [Consumers -> SUBSET DeadLetter] BY <2>4, <2>6, <2>9
    <3> QED BY <3>1, <3>2
  <2> QED BY <2>5, <2>8, <2>9
<1> QED BY <1>1, <1>2

\* Going on to the next record, or to the next statement of this one, stays
\* inside the batch.
LEMMA StepBounds ==
    ASSUME TypeInv, NEW c \in Consumers, HasRecord(c),
           UNCHANGED <<topic, batch, txPart, txAttempt>>,
           \/ NextRecord(c)
           \/ txNext' = txNext /\ \E st \in {"read", "write"} : txStep' = [txStep EXCEPT ![c] = st]
    PROVE  LoopTypeOK' /\ BatchBounds'
<1>1. LoopTypeOK'
  <2>1. CASE NextRecord(c) BY <2>1 DEF NextRecord, TypeInv, TypeOK, LoopTypeOK
  <2>2. CASE ~NextRecord(c) BY <2>2 DEF TypeInv, TypeOK, LoopTypeOK
  <2> QED BY <2>1, <2>2
<1>2. \A d \in Consumers : Projecting(d) =>
        batch[d][txPart[d]].from \in Nat /\ batch[d][txPart[d]].to \in Nat /\ txNext[d] \in Nat
  BY DEF TypeInv, TypeOK, LoopTypeOK, Projecting, Batch
<1>3. BatchBounds'
  <2>1. CASE NextRecord(c)
    BY <1>2, <2>1, RecordTyped DEF NextRecord, TypeInv, TypeOK, LoopTypeOK, BatchBounds, Projecting, HasRecord
  <2>2. CASE ~NextRecord(c)
    BY <2>2 DEF TypeInv, TypeOK, LoopTypeOK, BatchBounds, Projecting, HasRecord
  <2> QED BY <2>1, <2>2
<1> QED BY <1>1, <1>3

LEMMA SeenHeadTyped ==
    ASSUME TypeInv, NEW c \in Consumers, NEW ch \in Chains
    PROVE  SeenHead(c, ch) \in ChainHead
  BY DEF SeenHead, TypeInv, TypeOK, LedgerTypeOK, WritesTypeOK

LEMMA NewRowTyped ==
    ASSUME TypeInv, NEW c \in Consumers, HasRecord(c)
    PROVE  /\ NewRow(c) \in Row
           /\ [seq |-> NewRow(c).seq, hash |-> NewRow(c).hash] \in ChainHead
<1>1. NewRow(c) \in Row
  <2>1. txRead[c].seq + 1 \in Nat /\ txRead[c].hash \in Seq(Events)
    BY DEF TypeInv, TypeOK, WritesTypeOK, ChainHead
  <2>2. Append(txRead[c].hash, Ev(c)) \in Seq(Events)
    <3>1. Ev(c) \in Events BY RecordTyped
    <3> HIDE DEF NewRow
    <3> QED BY <2>1, <3>1
  <2> QED BY <2>1, <2>2, RecordTyped DEF NewRow, Row
<1> QED BY <1>1 DEF Row, ChainHead

\* The statements of one record
LEMMA StatementType ==
    ASSUME TypeInv, NEW c \in Consumers,
           \/ RejectPayload(c) \/ ClaimIdentity(c) \/ AlreadyProjected(c)
           \/ ReadChainHead(c) \/ RefuseRow(c) \/ AppendRow(c)
    PROVE  TypeInv'
<1>1. HasRecord(c) /\ UNCHANGED <<kafka, tables, uncovered, batch, txPart, txAttempt, letters, faults>>
  BY DEF RejectPayload, ClaimIdentity, AlreadyProjected, ReadChainHead, RefuseRow, AppendRow
<1>2. \/ NextRecord(c)
      \/ txNext' = txNext /\ \E st \in {"read", "write"} : txStep' = [txStep EXCEPT ![c] = st]
  BY DEF RejectPayload, ClaimIdentity, AlreadyProjected, ReadChainHead, RefuseRow, AppendRow
<1>3. LoopTypeOK' /\ BatchBounds' BY <1>1, <1>2, StepBounds DEF kafka
<1>4. WritesTypeOK'
  <2>1. CASE RejectPayload(c)
    BY <1>1, <2>1, DeadLetterType DEF RejectPayload, TypeInv, TypeOK, WritesTypeOK
  <2>2. CASE ClaimIdentity(c)
    BY <1>1, <2>2, RecordTyped DEF ClaimIdentity, TypeInv, TypeOK, WritesTypeOK
  <2>3. CASE AlreadyProjected(c)
    BY <1>1, <2>3, DeadLetterType DEF AlreadyProjected, TypeInv, TypeOK, WritesTypeOK
  <2>4. CASE ReadChainHead(c)
    BY <1>1, <2>4, RecordTyped, SeenHeadTyped DEF ReadChainHead, TypeInv, TypeOK, WritesTypeOK
  <2>5. CASE RefuseRow(c)
    BY <1>1, <2>5, DeadLetterType DEF RefuseRow, RollbackSavepoint, TypeInv, TypeOK, WritesTypeOK
  <2>6. CASE AppendRow(c)
    <3>1. Latest(txUsed[c], UseTime[Ev(c)]) \in Nat
      BY <1>1, RecordTyped, ConstantsAssumption DEF Latest, TypeInv, TypeOK, WritesTypeOK
    <3>2. txHeads' \in [Consumers -> [Chains -> ChainHead \cup {NoHead}]]
      BY <1>1, <2>6, NewRowTyped, RecordTyped DEF AppendRow, TypeInv, TypeOK, WritesTypeOK
    <3> QED
      BY <1>1, <2>6, <3>1, <3>2, DeadLetterType, NewRowTyped DEF AppendRow, TypeInv, TypeOK, WritesTypeOK
  <2> QED BY <2>1, <2>2, <2>3, <2>4, <2>5, <2>6
<1> QED
  BY <1>1, <1>3, <1>4 DEF TypeInv, TypeOK, KafkaTypeOK, LedgerTypeOK, kafka, tables

\* The ends of a transaction that did not commit
LEMMA AbortType ==
    ASSUME TypeInv, NEW c \in Consumers, Projecting(c), RetryBatch(c) \/ FailBatch(c),
           UNCHANGED topic
    PROVE  LoopTypeOK' /\ WritesTypeOK' /\ BatchBounds'
<1>1. WritesTypeOK' /\ txStep' = [txStep EXCEPT ![c] = "claim"]
  BY ForgetType DEF RetryBatch, FailBatch, CloseTx
<1>2. txPart[c] \in Partitions BY DEF Projecting, TypeInv, TypeOK, LoopTypeOK
<1>3. batch[c][txPart[c]] \in Batch BY <1>2 DEF TypeInv, TypeOK, LoopTypeOK
<1>4. CASE RetryBatch(c)
  <2>1. LoopTypeOK' BY <1>1, <1>3, <1>4 DEF RetryBatch, TypeInv, TypeOK, LoopTypeOK, Batch
  <2>2. BatchBounds'
    BY <1>1, <1>3, <1>4 DEF RetryBatch, TypeInv, TypeOK, LoopTypeOK, BatchBounds, Projecting, HasRecord, Batch
  <2> QED BY <1>1, <2>1, <2>2
<1>5. CASE FailBatch(c)
  <2>1. batch' = [batch EXCEPT ![c][txPart[c]].st = "failed"] BY <1>5 DEF FailBatch
  <2>2. LoopTypeOK'
    <3>1. [batch[c][txPart[c]] EXCEPT !.st = "failed"] \in Batch BY <1>3 DEF Batch
    <3>2. batch' \in [Consumers -> [Partitions -> Batch]]
      BY <1>2, <2>1, <3>1 DEF TypeInv, TypeOK, LoopTypeOK
    <3> QED BY <1>1, <1>5, <3>2 DEF FailBatch, CloseTx, TypeInv, TypeOK, LoopTypeOK
  <2>3. \A d \in Consumers, p \in Partitions :
          batch'[d][p].from = batch[d][p].from /\ batch'[d][p].to = batch[d][p].to
    BY <1>2, <1>3, <2>1 DEF TypeInv, TypeOK, LoopTypeOK, Batch
  <2>4. \A d \in Consumers : d # c => batch'[d] = batch[d]
    BY <2>1 DEF TypeInv, TypeOK, LoopTypeOK
  <2>5. BatchBounds'
    BY <1>1, <1>5, <2>3, <2>4 DEF FailBatch, CloseTx, TypeInv, TypeOK, LoopTypeOK, BatchBounds, Projecting, HasRecord
  <2> QED BY <1>1, <2>2, <2>5
<1> QED BY <1>4, <1>5

LEMMA AbortingType ==
    ASSUME TypeInv, NEW c \in Consumers,
           ChainConflict(c) \/ DeadlockVictim(c) \/ DatabaseError(c)
    PROVE  TypeInv'
<1>1. Projecting(c) BY DEF ChainConflict, DeadlockVictim, DatabaseError, WaitsFor, HasRecord
<1>2. /\ RetryBatch(c) \/ FailBatch(c)
      /\ UNCHANGED <<kafka, tables, uncovered, letters>> /\ faults' \in Nat
  BY DEF ChainConflict, DeadlockVictim, DatabaseError, AfterChainError, Fault, TypeInv, TypeOK
<1>3. LoopTypeOK' /\ WritesTypeOK' /\ BatchBounds' BY <1>1, <1>2, AbortType DEF kafka
<1> QED BY <1>2, <1>3 DEF TypeInv, TypeOK, KafkaTypeOK, LedgerTypeOK, kafka, tables

LEMMA CommitType ==
    ASSUME TypeInv, NEW c \in Consumers, CommitBatch(c) \/ CommitUnacknowledged(c)
    PROVE  TypeInv'
<1>1. Projecting(c) /\ CommitWrites(c) /\ UNCHANGED <<kafka, uncovered, letters>> /\ faults' \in Nat
  BY DEF CommitBatch, CommitUnacknowledged, CommitWrites, Fault, TypeInv, TypeOK
<1>2. txPart[c] \in Partitions /\ batch[c][txPart[c]] \in Batch
  BY <1>1 DEF Projecting, TypeInv, TypeOK, LoopTypeOK
<1>3. LedgerTypeOK'
  <2>1. heads' \in [Chains -> ChainHead] BY <1>1, SeenHeadTyped DEF CommitWrites
  <2>2. piiRows' \in [Events -> Nat] BY <1>1 DEF CommitWrites, TypeInv, TypeOK, LedgerTypeOK
  <2>3. lastUsed' \in Nat
    BY <1>1 DEF CommitWrites, Latest, TypeInv, TypeOK, LedgerTypeOK, WritesTypeOK
  <2>4. ledgerOffset' \in [Partitions -> Nat]
    BY <1>1, <1>2 DEF CommitWrites, TypeInv, TypeOK, LedgerTypeOK, Batch
  <2> QED BY <1>1, <2>1, <2>2, <2>3, <2>4
    DEF CommitWrites, DlqSeen, TypeInv, TypeOK, LedgerTypeOK, WritesTypeOK
<1>4. LoopTypeOK' /\ WritesTypeOK' /\ BatchBounds'
  <2>1. CASE CommitUnacknowledged(c)
    BY <1>1, <2>1, AbortType DEF CommitUnacknowledged, kafka
  <2>2. CASE CommitBatch(c)
    <3>1. WritesTypeOK' /\ txStep' = [txStep EXCEPT ![c] = "claim"]
      BY <2>2, ForgetType DEF CommitBatch, CloseTx
    <3>2. batch' = [batch EXCEPT ![c][txPart[c]].st = "done"] BY <2>2 DEF CommitBatch
    <3>3. LoopTypeOK'
      <4>1. [batch[c][txPart[c]] EXCEPT !.st = "done"] \in Batch BY <1>2 DEF Batch
      <4>2. batch' \in [Consumers -> [Partitions -> Batch]]
        BY <1>2, <3>2, <4>1 DEF TypeInv, TypeOK, LoopTypeOK
      <4> QED BY <2>2, <3>1, <4>2 DEF CommitBatch, CloseTx, TypeInv, TypeOK, LoopTypeOK
    <3>4. \A d \in Consumers, p \in Partitions :
            batch'[d][p].from = batch[d][p].from /\ batch'[d][p].to = batch[d][p].to
      BY <1>2, <3>2 DEF TypeInv, TypeOK, LoopTypeOK, Batch
    <3>5. \A d \in Consumers : d # c => batch'[d] = batch[d]
      BY <3>2 DEF TypeInv, TypeOK, LoopTypeOK
    <3>6. BatchBounds'
      BY <1>1, <2>2, <3>1, <3>4, <3>5 DEF CommitBatch, CloseTx, TypeInv, TypeOK, LoopTypeOK, BatchBounds,
         Projecting, HasRecord, kafka
    <3> QED BY <3>1, <3>3, <3>6
  <2> QED BY <1>1, <2>1, <2>2 DEF CommitBatch, CommitUnacknowledged
<1> QED BY <1>1, <1>3, <1>4 DEF TypeInv, TypeOK, KafkaTypeOK, kafka

LEMMA StutterType == ASSUME TypeInv, UNCHANGED vars PROVE TypeInv'
  BY DEF vars, kafka, tables, txVars, TypeInv, TypeOK, KafkaTypeOK, LedgerTypeOK, LoopTypeOK, WritesTypeOK,
     BatchBounds, Projecting, HasRecord

LEMMA NextType == ASSUME TypeInv, [Next]_vars PROVE TypeInv'
<1>1. CASE UNCHANGED vars BY <1>1, StutterType
<1>2. ASSUME NEW e \in Events, Produce(e) \/ CoverWeek(e) PROVE TypeInv'
  BY <1>2, ProduceType, OperatorType
<1>3. CASE ListDeadLetters \/ \E d \in letters : Replay(d) \/ ReplayStopped(d)
  BY <1>3, OperatorType
<1>4. ASSUME NEW c \in Consumers,
             \/ \E p \in Partitions : Assign(c, p) \/ BeginBatch(c, p)
             \/ Poll(c) \/ FinishPoll(c) \/ Crash(c)
      PROVE  TypeInv'
  BY <1>4, LoopType
<1>5. ASSUME NEW c \in Consumers, ProjectRecord(c) \/ DatabaseError(c) PROVE TypeInv'
  BY <1>5, StatementType, AbortingType DEF ProjectRecord
<1>6. ASSUME NEW c \in Consumers, CommitBatch(c) \/ CommitUnacknowledged(c) PROVE TypeInv'
  BY <1>6, CommitType
<1> QED BY <1>1, <1>2, <1>3, <1>4, <1>5, <1>6 DEF Next

LEMMA TypeInvariant == Spec => []TypeInv
  BY InitTypeInv, NextType, PTL DEF Spec

\* Every reachable state is well typed: no statement of a projection writes a
\* row, a head, an offset or a dead letter out of range, and no transaction
\* reads a record its partition does not have.
THEOREM TypeCorrect == Spec => []TypeOK
<1>1. TypeInv => TypeOK BY DEF TypeInv
<1> QED BY <1>1, TypeInvariant, PTL
----------------------------------------------------------------------------
(***************************************************************************)
(* The hash chains: however the transactions of any number of consumers    *)
(* interleave, no chain forks and no event has two rows.                   *)
(*                                                                         *)
(* ChainIntegrity alone is not inductive: a commit publishes rows that     *)
(* were numbered and hashed statements earlier, on a head that was read    *)
(* earlier still.  ChainInv therefore says what each open transaction has  *)
(* prepared: together with the committed rows it is already a chain, no    *)
(* other transaction prepares on the same chain, and a head that was read  *)
(* and still has its number is still the head.                             *)
(***************************************************************************)
\* Only one open transaction has written a chain's head ...
OneWriterPerChain ==
    \A c, d \in Consumers, ch \in Chains :
        txHeads[c][ch] # NoHead /\ txHeads[d][ch] # NoHead => c = d

\* ... what it wrote is ahead of the committed head ...
WriterAhead ==
    \A c \in Consumers, ch \in Chains :
        txHeads[c][ch] # NoHead => txHeads[c][ch].seq > heads[ch].seq

\* ... it has rows only on chains whose head it wrote ...
RowsUnderHead ==
    \A c \in Consumers : \A r \in txRows[c] : txHeads[c][r.chain] # NoHead

\* ... and its rows continue the committed chain.
PreparedChains ==
    \A c \in Consumers, ch \in Chains : Chained(rows \cup txRows[c], ch, SeenHead(c, ch))

\* A head that was read is the head it was, or its number has passed.
ReadIsCurrentOrOld ==
    \A c \in Consumers : txStep[c] = "write" =>
        /\ txRead[c].seq <= SeenHead(c, Chain(c)).seq
        /\ txRead[c].seq = SeenHead(c, Chain(c)).seq => txRead[c] = SeenHead(c, Chain(c))

ChainInv ==
    /\ OneWriterPerChain /\ WriterAhead /\ RowsUnderHead
    /\ ChainIntegrity /\ PreparedChains /\ ReadIsCurrentOrOld

----------------------------------------------------------------------------
\* Facts about Chained

\* Only the rows of the chain matter.
LEMMA ChainedSameRows ==
    ASSUME NEW R, NEW S, NEW ch, NEW h, Chained(R, ch, h),
           \A r : r.chain = ch => (r \in R <=> r \in S)
    PROVE  Chained(S, ch, h)
  BY DEF Chained

\* A row hashed on the head extends the chain by one.
LEMMA ChainedExtend ==
    ASSUME NEW R \in SUBSET Row, NEW r \in Row, NEW h \in ChainHead, Chained(R, r.chain, h),
           r.seq = h.seq + 1, r.prev = h.hash, r.hash = Append(r.prev, r.ev)
    PROVE  Chained(R \cup {r}, r.chain, [seq |-> r.seq, hash |-> r.hash])
<1> DEFINE g == [seq |-> r.seq, hash |-> r.hash]
           S == R \cup {r}
<1>1. h.seq \in Nat /\ r.seq \in Nat /\ g.seq = h.seq + 1 /\ g.hash = r.hash
  BY DEF ChainHead, Row
<1>2. \A q \in R : q.seq \in Nat BY DEF Row
<1>3. ASSUME NEW q \in S, q.chain = r.chain
      PROVE  /\ q.seq \in 1..g.seq
             /\ q.hash = Append(q.prev, q.ev)
             /\ q.seq = 1 => q.prev = << >>
             /\ q.seq = g.seq => q.hash = g.hash
  <2>1. CASE q = r BY <1>1, <2>1 DEF Chained
  <2>2. CASE q # r
    <3>1. q \in R BY <2>2
    <3>2. q.seq \in 1..h.seq BY <1>3, <3>1 DEF Chained
    <3> QED BY <1>1, <1>3, <3>1, <3>2 DEF Chained
  <2> QED BY <2>1, <2>2
<1>4. ASSUME NEW q \in S, q.chain = r.chain, NEW x \in S, x.chain = r.chain
      PROVE  /\ x.seq = q.seq => x = q
             /\ x.seq + 1 = q.seq => q.prev = x.hash
  <2>1. CASE q \in R /\ x \in R BY <1>4, <2>1 DEF Chained
  <2>2. CASE q = r /\ x = r BY <1>1, <2>2
  <2>3. CASE q = r /\ x \in R
    <3>1. x.seq \in 1..h.seq /\ (x.seq = h.seq => x.hash = h.hash) BY <1>4, <2>3 DEF Chained
    <3> QED BY <1>1, <2>3, <3>1
  <2>4. CASE q \in R /\ x = r
    <3>1. q.seq \in 1..h.seq BY <1>4, <2>4 DEF Chained
    <3> QED BY <1>1, <2>4, <3>1
  <2> QED BY <2>1, <2>2, <2>3, <2>4
<1>5. \A i \in 1..g.seq : \E q \in S : q.chain = r.chain /\ q.seq = i
  <2> SUFFICES ASSUME NEW i \in 1..g.seq PROVE \E q \in S : q.chain = r.chain /\ q.seq = i
    OBVIOUS
  <2>1. CASE i = g.seq BY <2>1
  <2>2. CASE i # g.seq
    <3>1. i \in 1..h.seq BY <1>1, <2>2
    <3> QED BY <3>1 DEF Chained
  <2> QED BY <2>1, <2>2
<1>6. g.seq # 0 BY <1>1
<1> HIDE DEF g, S
<1>7. Chained(S, r.chain, g) BY <1>3, <1>4, <1>5, <1>6 DEF Chained
<1> QED BY <1>7 DEF g, S

----------------------------------------------------------------------------
\* The invariant holds initially and every step preserves it

LEMMA InitChain == Init => ChainInv
<1> SUFFICES ASSUME Init PROVE ChainInv OBVIOUS
<1>1. \A ch \in Chains : Chained({}, ch, Genesis) BY DEF Chained, Genesis
<1>2. \A c \in Consumers, ch \in Chains : SeenHead(c, ch) = Genesis /\ rows \cup txRows[c] = {}
  BY DEF Init, SeenHead
<1> QED BY <1>1, <1>2 DEF Init, ChainInv, OneWriterPerChain, WriterAhead, RowsUnderHead,
    ChainIntegrity, PreparedChains, ReadIsCurrentOrOld

\* The record a transaction is at stays the same while others work.
LEMMA SameRecord ==
    ASSUME TypeInv, NEW d \in Consumers, txStep[d] # "claim",
           txPart'[d] = txPart[d], txNext'[d] = txNext[d],
           \A q \in Partitions : \A i \in 1..Len(topic[q]) : topic'[q][i] = topic[q][i]
    PROVE  Ev(d)' = Ev(d) /\ Chain(d)' = Chain(d) /\ Ev(d) \in Events /\ Chain(d) \in Chains
<1>1. HasRecord(d) BY DEF TypeInv, BatchBounds
<1> QED BY <1>1, RecordTyped DEF Rec, Ev, Chain

\* A step that leaves the ledger and what is prepared for it alone
LEMMA ChainFrame ==
    ASSUME TypeInv, ChainInv, UNCHANGED <<rows, heads, txRows, txHeads>>,
           \A d \in Consumers : txStep'[d] = "write" =>
               /\ Chain(d)' \in Chains
               /\ \/ txStep[d] = "write" /\ txRead'[d] = txRead[d] /\ Chain(d)' = Chain(d)
                  \/ txRead'[d] = SeenHead(d, Chain(d)')
    PROVE  ChainInv'
<1>1. \A d \in Consumers, ch \in Chains : SeenHead(d, ch)' = SeenHead(d, ch) BY DEF SeenHead
<1>2. \A d \in Consumers, ch \in Chains : SeenHead(d, ch).seq \in Nat
  BY SeenHeadTyped DEF ChainHead
<1>3. ReadIsCurrentOrOld'
  <2> SUFFICES ASSUME NEW d \in Consumers, txStep'[d] = "write"
               PROVE  /\ txRead'[d].seq <= SeenHead(d, Chain(d))'.seq
                      /\ txRead'[d].seq = SeenHead(d, Chain(d))'.seq => txRead'[d] = SeenHead(d, Chain(d))'
    BY DEF ReadIsCurrentOrOld, SeenHead
  <2>1. SeenHead(d, Chain(d))' = SeenHead(d, Chain(d)') BY <1>1 DEF SeenHead
  <2>2. CASE txRead'[d] = SeenHead(d, Chain(d)') BY <1>2, <2>1, <2>2
  <2>3. CASE txStep[d] = "write" /\ txRead'[d] = txRead[d] /\ Chain(d)' = Chain(d)
    BY <2>1, <2>3 DEF ChainInv, ReadIsCurrentOrOld
  <2> QED BY <2>2, <2>3
<1>4. PreparedChains' BY <1>1 DEF ChainInv, PreparedChains
<1> QED BY <1>3, <1>4 DEF ChainInv, OneWriterPerChain, WriterAhead, RowsUnderHead, ChainIntegrity

\* A rollback: the consumer forgets what it prepared, the others go on.
LEMMA ChainRollback ==
    ASSUME TypeInv, ChainInv, NEW c \in Consumers, ForgetWrites(c), UNCHANGED <<rows, heads>>,
           \A d \in Consumers : d # c /\ txStep[d] # "claim" => Chain(d)' = Chain(d)
    PROVE  ChainInv'
<1>1. \A ch \in Chains : txHeads'[c][ch] = NoHead
  BY DEF ForgetWrites, TypeInv, TypeOK, WritesTypeOK
<1>2. txRows'[c] = {} /\ txStep'[c] = "claim"
  BY DEF ForgetWrites, TypeInv, TypeOK, LoopTypeOK, WritesTypeOK
<1>3. \A d \in Consumers : d # c => /\ txHeads'[d] = txHeads[d] /\ txRows'[d] = txRows[d]
                                   /\ txStep'[d] = txStep[d] /\ txRead'[d] = txRead[d]
  BY DEF ForgetWrites, TypeInv, TypeOK, LoopTypeOK, WritesTypeOK
<1>4. \A ch \in Chains : SeenHead(c, ch)' = heads[ch] BY <1>1 DEF SeenHead
<1>5. \A d \in Consumers, ch \in Chains : d # c => SeenHead(d, ch)' = SeenHead(d, ch)
  BY <1>3 DEF SeenHead
<1>6. OneWriterPerChain' /\ WriterAhead'
  BY <1>1, <1>3 DEF ChainInv, OneWriterPerChain, WriterAhead
<1>7. RowsUnderHead' BY <1>2, <1>3 DEF ChainInv, RowsUnderHead
<1>8. PreparedChains'
  <2> SUFFICES ASSUME NEW d \in Consumers, NEW ch \in Chains
               PROVE  Chained(rows \cup txRows'[d], ch, SeenHead(d, ch)')
    BY DEF PreparedChains
  <2>1. CASE d = c
    <3>1. rows \cup txRows'[d] = rows BY <1>2, <2>1
    <3> QED BY <1>4, <2>1, <3>1 DEF ChainInv, ChainIntegrity
  <2>2. CASE d # c BY <1>3, <1>5, <2>2 DEF ChainInv, PreparedChains
  <2> QED BY <2>1, <2>2
<1>9. ReadIsCurrentOrOld'
  <2> SUFFICES ASSUME NEW d \in Consumers, txStep'[d] = "write"
               PROVE  /\ txRead'[d].seq <= SeenHead(d, Chain(d))'.seq
                      /\ txRead'[d].seq = SeenHead(d, Chain(d))'.seq => txRead'[d] = SeenHead(d, Chain(d))'
    BY DEF ReadIsCurrentOrOld
  <2>1. d # c BY <1>2
  <2>2. txStep[d] = "write" /\ Chain(d)' = Chain(d) /\ HasRecord(d)
    BY <1>3, <2>1 DEF TypeInv, BatchBounds
  <2>3. SeenHead(d, Chain(d))' = SeenHead(d, Chain(d)) BY <1>3, <2>1, <2>2 DEF SeenHead
  <2> QED BY <1>3, <2>1, <2>2, <2>3 DEF ChainInv, ReadIsCurrentOrOld
<1> QED BY <1>6, <1>7, <1>8, <1>9 DEF ChainInv, ChainIntegrity

\* AppendRow: the row is hashed on the head the transaction sees.
LEMMA ChainAppend ==
    ASSUME TypeInv, ChainInv, NEW c \in Consumers, AppendRow(c)
    PROVE  ChainInv'
<1>a. PICK ch : ch = Chain(c) OBVIOUS
<1>b. PICK r : r = NewRow(c) OBVIOUS
<1>c. PICK g : g = [seq |-> r.seq, hash |-> r.hash] OBVIOUS
<1>1. /\ HasRecord(c) /\ txStep[c] = "write" /\ HeadFree(c) /\ HeadUnmoved(c)
      /\ txRows' = [txRows EXCEPT ![c] = @ \cup {r}]
      /\ txHeads' = [txHeads EXCEPT ![c][ch] = g]
      /\ txStep' = [txStep EXCEPT ![c] = "claim"]
      /\ txNext' = [txNext EXCEPT ![c] = @ + 1]
      /\ UNCHANGED <<topic, rows, heads, txRead, txPart>>
  BY <1>a, <1>b, <1>c DEF AppendRow, NextRecord, kafka, tables
<1>2. ch \in Chains /\ r \in Row /\ g \in ChainHead
  BY <1>a, <1>b, <1>c, <1>1, RecordTyped, NewRowTyped
<1>3. txRead[c] = SeenHead(c, ch) /\ SeenHead(c, ch) \in ChainHead
  BY <1>a, <1>1, <1>2, SeenHeadTyped DEF ChainInv, ReadIsCurrentOrOld, HeadUnmoved
<1>4. /\ r.chain = ch /\ r.seq = SeenHead(c, ch).seq + 1 /\ r.prev = SeenHead(c, ch).hash
      /\ r.hash = Append(r.prev, r.ev)
  BY <1>a, <1>b, <1>3 DEF NewRow
<1>5. rows \cup txRows[c] \subseteq Row
  BY DEF TypeInv, TypeOK, LedgerTypeOK, WritesTypeOK
<1>6. Chained((rows \cup txRows[c]) \cup {r}, ch, g)
  BY <1>c, <1>2, <1>3, <1>4, <1>5, ChainedExtend DEF ChainInv, PreparedChains
<1>7. g # NoHead /\ g.seq = SeenHead(c, ch).seq + 1 BY <1>c, <1>2, <1>4, NoHeadAssumption
<1>8. /\ txHeads'[c][ch] = g
      /\ \A k \in Chains : k # ch => txHeads'[c][k] = txHeads[c][k]
      /\ \A d \in Consumers : d # c => txHeads'[d] = txHeads[d]
  BY <1>1, <1>2 DEF TypeInv, TypeOK, WritesTypeOK
<1>9. /\ txRows'[c] = txRows[c] \cup {r} /\ txStep'[c] = "claim"
      /\ \A d \in Consumers : d # c => txRows'[d] = txRows[d] /\ txStep'[d] = txStep[d] /\ txNext'[d] = txNext[d]
  BY <1>1 DEF TypeInv, TypeOK, LoopTypeOK, WritesTypeOK
<1>10. SeenHead(c, ch)' = g BY <1>7, <1>8 DEF SeenHead
<1>11. \A d \in Consumers, k \in Chains : d # c \/ k # ch => SeenHead(d, k)' = SeenHead(d, k)
  BY <1>1, <1>8 DEF SeenHead
<1>12. OneWriterPerChain'
  BY <1>a, <1>1, <1>8 DEF ChainInv, OneWriterPerChain, HeadFree
<1>13. WriterAhead'
  <2>1. g.seq > heads[ch].seq
    <3>1. heads[ch].seq \in Nat /\ SeenHead(c, ch).seq \in Nat
      BY <1>2, <1>3 DEF TypeInv, TypeOK, LedgerTypeOK, ChainHead
    <3>2. SeenHead(c, ch).seq >= heads[ch].seq
      BY <1>2, <3>1 DEF SeenHead, ChainInv, WriterAhead
    <3> QED BY <1>7, <3>1, <3>2
  <2> QED BY <1>1, <1>8, <2>1 DEF ChainInv, WriterAhead
<1>14. RowsUnderHead'
  <2> SUFFICES ASSUME NEW d \in Consumers, NEW x \in txRows'[d] PROVE txHeads'[d][x.chain] # NoHead
    BY DEF RowsUnderHead
  <2>1. CASE d # c BY <1>8, <1>9, <2>1 DEF ChainInv, RowsUnderHead
  <2>2. CASE d = c /\ x = r BY <1>4, <1>7, <1>8, <2>2
  <2>3. CASE d = c /\ x # r
    <3>1. x \in txRows[c] /\ x.chain \in Chains
      BY <1>9, <2>3 DEF TypeInv, TypeOK, WritesTypeOK, Row
    <3> QED BY <1>7, <1>8, <2>3, <3>1 DEF ChainInv, RowsUnderHead
  <2> QED BY <2>1, <2>2, <2>3
<1>15. PreparedChains'
  <2> SUFFICES ASSUME NEW d \in Consumers, NEW k \in Chains
               PROVE  Chained(rows' \cup txRows'[d], k, SeenHead(d, k)')
    BY DEF PreparedChains
  <2>1. CASE d # c BY <1>1, <1>9, <1>11, <2>1 DEF ChainInv, PreparedChains
  <2>2. CASE d = c /\ k = ch
    <3>1. rows' \cup txRows'[d] = (rows \cup txRows[c]) \cup {r} BY <1>1, <1>9, <2>2
    <3> QED BY <1>6, <1>10, <2>2, <3>1
  <2>3. CASE d = c /\ k # ch
    <3>1. Chained(rows \cup txRows[c], k, SeenHead(c, k)) BY DEF ChainInv, PreparedChains
    <3>2. \A x : x.chain = k => (x \in rows \cup txRows[c] <=> x \in rows' \cup txRows'[d])
      BY <1>1, <1>4, <1>9, <2>3
    <3>3. Chained(rows' \cup txRows'[d], k, SeenHead(c, k)) BY <3>1, <3>2, ChainedSameRows
    <3> QED BY <1>11, <2>3, <3>3
  <2> QED BY <2>1, <2>2, <2>3
<1>16. ReadIsCurrentOrOld'
  <2> SUFFICES ASSUME NEW d \in Consumers, txStep'[d] = "write"
               PROVE  /\ txRead'[d].seq <= SeenHead(d, Chain(d))'.seq
                      /\ txRead'[d].seq = SeenHead(d, Chain(d))'.seq => txRead'[d] = SeenHead(d, Chain(d))'
    BY DEF ReadIsCurrentOrOld
  <2>1. d # c /\ txStep[d] = "write" BY <1>9
  <2>2. Chain(d)' = Chain(d) /\ Chain(d) \in Chains BY <1>1, <1>9, <2>1, SameRecord
  <2>3. SeenHead(d, Chain(d))' = SeenHead(d, Chain(d)) BY <1>1, <1>8, <2>1, <2>2 DEF SeenHead
  <2> QED BY <1>1, <2>1, <2>3 DEF ChainInv, ReadIsCurrentOrOld
<1> QED BY <1>1, <1>12, <1>13, <1>14, <1>15, <1>16 DEF ChainInv, ChainIntegrity

\* COMMIT: what the transaction prepared becomes the chain.
LEMMA ChainCommit ==
    ASSUME TypeInv, ChainInv, NEW c \in Consumers, CommitWrites(c), ForgetWrites(c),
           \A d \in Consumers : d # c /\ txStep[d] # "claim" => Chain(d)' = Chain(d)
    PROVE  ChainInv'
<1>1. rows' = rows \cup txRows[c] /\ heads' = [ch \in Chains |-> SeenHead(c, ch)]
  BY DEF CommitWrites
<1>2. txRows'[c] = {} /\ txStep'[c] = "claim" /\ \A ch \in Chains : txHeads'[c][ch] = NoHead
  BY DEF ForgetWrites, TypeInv, TypeOK, LoopTypeOK, WritesTypeOK
<1>3. \A d \in Consumers : d # c => /\ txHeads'[d] = txHeads[d] /\ txRows'[d] = txRows[d]
                                   /\ txStep'[d] = txStep[d] /\ txRead'[d] = txRead[d]
  BY DEF ForgetWrites, TypeInv, TypeOK, LoopTypeOK, WritesTypeOK
<1>4. \A ch \in Chains : SeenHead(c, ch)' = SeenHead(c, ch) BY <1>1, <1>2 DEF SeenHead
<1>5. ASSUME NEW d \in Consumers, d # c, NEW ch \in Chains, txHeads[d][ch] # NoHead
      PROVE  SeenHead(c, ch) = heads[ch] /\ SeenHead(d, ch)' = SeenHead(d, ch)
             /\ \A r \in txRows[c] : r.chain # ch
  <2>1. txHeads[c][ch] = NoHead BY <1>5 DEF ChainInv, OneWriterPerChain
  <2> QED BY <1>3, <1>5, <2>1 DEF SeenHead, ChainInv, RowsUnderHead
<1>6. ASSUME NEW d \in Consumers, d # c, NEW ch \in Chains, txHeads[d][ch] = NoHead
      PROVE  SeenHead(d, ch) = heads[ch] /\ SeenHead(d, ch)' = SeenHead(c, ch)
             /\ \A r \in txRows[d] : r.chain # ch
  BY <1>1, <1>3, <1>6 DEF SeenHead, ChainInv, RowsUnderHead
<1>7. OneWriterPerChain' /\ RowsUnderHead'
  BY <1>2, <1>3 DEF ChainInv, OneWriterPerChain, RowsUnderHead
<1>8. WriterAhead'
  <2> SUFFICES ASSUME NEW d \in Consumers, NEW ch \in Chains, txHeads'[d][ch] # NoHead
               PROVE  txHeads'[d][ch].seq > heads'[ch].seq
    BY DEF WriterAhead
  <2>1. d # c /\ txHeads[d][ch] # NoHead /\ txHeads'[d][ch] = txHeads[d][ch] BY <1>2, <1>3
  <2>2. heads'[ch] = heads[ch] BY <1>1, <1>5, <2>1
  <2> QED BY <2>1, <2>2 DEF ChainInv, WriterAhead
<1>9. ChainIntegrity' BY <1>1 DEF ChainInv, ChainIntegrity, PreparedChains
<1>10. PreparedChains'
  <2> SUFFICES ASSUME NEW d \in Consumers, NEW ch \in Chains
               PROVE  Chained(rows' \cup txRows'[d], ch, SeenHead(d, ch)')
    BY DEF PreparedChains
  <2>1. CASE d = c
    <3>1. rows' \cup txRows'[d] = rows \cup txRows[c] BY <1>1, <1>2, <2>1
    <3> QED BY <1>4, <2>1, <3>1 DEF ChainInv, PreparedChains
  <2>2. CASE d # c /\ txHeads[d][ch] # NoHead
    <3>1. \A x : x.chain = ch => (x \in rows \cup txRows[d] <=> x \in rows' \cup txRows'[d])
      BY <1>1, <1>3, <1>5, <2>2
    <3>2. Chained(rows \cup txRows[d], ch, SeenHead(d, ch)) BY DEF ChainInv, PreparedChains
    <3>3. Chained(rows' \cup txRows'[d], ch, SeenHead(d, ch)) BY <3>1, <3>2, ChainedSameRows
    <3> QED BY <1>5, <2>2, <3>3
  <2>3. CASE d # c /\ txHeads[d][ch] = NoHead
    <3>1. \A x : x.chain = ch => (x \in rows \cup txRows[c] <=> x \in rows' \cup txRows'[d])
      BY <1>1, <1>3, <1>6, <2>3
    <3>2. Chained(rows \cup txRows[c], ch, SeenHead(c, ch)) BY DEF ChainInv, PreparedChains
    <3>3. Chained(rows' \cup txRows'[d], ch, SeenHead(c, ch)) BY <3>1, <3>2, ChainedSameRows
    <3> QED BY <1>6, <2>3, <3>3
  <2> QED BY <2>1, <2>2, <2>3
<1>11. ReadIsCurrentOrOld'
  <2> SUFFICES ASSUME NEW d \in Consumers, txStep'[d] = "write"
               PROVE  /\ txRead'[d].seq <= SeenHead(d, Chain(d))'.seq
                      /\ txRead'[d].seq = SeenHead(d, Chain(d))'.seq => txRead'[d] = SeenHead(d, Chain(d))'
    BY DEF ReadIsCurrentOrOld
  <2>1. d # c /\ txStep[d] = "write" /\ txRead'[d] = txRead[d] BY <1>2, <1>3
  <2>2. HasRecord(d) /\ Chain(d)' = Chain(d) BY <2>1 DEF TypeInv, BatchBounds
  <2>3. PICK ch \in Chains : ch = Chain(d) BY <2>2, RecordTyped
  <2>4. SeenHead(d, Chain(d))' = SeenHead(d, ch)' BY <2>2, <2>3 DEF SeenHead
  <2>5. /\ txRead[d].seq <= SeenHead(d, ch).seq
        /\ txRead[d].seq = SeenHead(d, ch).seq => txRead[d] = SeenHead(d, ch)
    BY <2>1, <2>3 DEF ChainInv, ReadIsCurrentOrOld
  <2>6. CASE txHeads[d][ch] # NoHead BY <1>5, <2>1, <2>4, <2>5, <2>6
  <2>7. CASE txHeads[d][ch] = NoHead
    <3>1. SeenHead(d, ch) = heads[ch] /\ SeenHead(d, ch)' = SeenHead(c, ch) BY <1>6, <2>1, <2>7
    <3>2. CASE txHeads[c][ch] = NoHead
      <4>1. SeenHead(c, ch) = heads[ch] BY <3>2 DEF SeenHead
      <4> QED BY <2>1, <2>4, <2>5, <3>1, <4>1
    <3>3. CASE txHeads[c][ch] # NoHead
      <4>1. SeenHead(c, ch) = txHeads[c][ch] /\ txHeads[c][ch].seq > heads[ch].seq
        BY <3>3 DEF SeenHead, ChainInv, WriterAhead
      <4>2. txRead[d].seq \in Nat /\ heads[ch].seq \in Nat /\ SeenHead(c, ch).seq \in Nat
        BY SeenHeadTyped DEF TypeInv, TypeOK, LedgerTypeOK, WritesTypeOK, ChainHead
      <4> QED BY <2>1, <2>4, <2>5, <3>1, <4>1, <4>2
    <3> QED BY <3>2, <3>3
  <2> QED BY <2>6, <2>7
<1> QED BY <1>7, <1>8, <1>9, <1>10, <1>11 DEF ChainInv

LEMMA ChainNext == ASSUME TypeInv, ChainInv, [Next]_vars PROVE ChainInv'
<1> DEFINE TopicKept == \A q \in Partitions : \A i \in 1..Len(topic[q]) : topic'[q][i] = topic[q][i]
<1>1. ASSUME TopicKept, UNCHANGED <<rows, heads, txRows, txHeads, txRead, txStep, txPart, txNext>>
      PROVE  ChainInv'
  <2>1. \A d \in Consumers : txStep[d] # "claim" => Chain(d)' = Chain(d) /\ Chain(d) \in Chains
    BY <1>1, SameRecord
  <2> QED BY <1>1, <2>1, ChainFrame
<1>2. CASE UNCHANGED vars BY <1>1, <1>2 DEF vars, kafka, tables, txVars
<1>3. ASSUME NEW e \in Events, Produce(e) PROVE ChainInv'
  <2>1. PartitionOf[ChainOf[e]] \in Partitions /\ [ev |-> e, origin |-> NoKey] \in Record
    BY ConstantsAssumption DEF Record
  <2>2. TopicKept BY <1>3, <2>1, TopicGrows DEF Produce
  <2> QED BY <1>1, <1>3, <2>2 DEF Produce, tables, txVars
<1>4. ASSUME NEW e \in Events, CoverWeek(e) PROVE ChainInv'
  BY <1>1, <1>4 DEF CoverWeek, kafka, tables, txVars
<1>5. CASE ListDeadLetters BY <1>1, <1>5 DEF ListDeadLetters, kafka, tables, txVars
<1>6. ASSUME NEW d \in letters, Replay(d) \/ ReplayStopped(d) PROVE ChainInv'
  <2>1. TopicKept
    <3>1. CASE UNCHANGED topic BY <3>1
    <3>2. CASE SendLetter(d)
      <4>1. PICK p \in Partitions : topic' = [topic EXCEPT ![p] = Append(@, [ev |-> d.ev, origin |-> d.key])]
        BY <3>2 DEF SendLetter
      <4>2. [ev |-> d.ev, origin |-> d.key] \in Record BY DEF TypeInv, TypeOK, DeadLetter, Record
      <4> QED BY <4>1, <4>2, TopicGrows
    <3> QED BY <1>6, <3>1, <3>2 DEF Replay, ReplayStopped
  <2> QED BY <1>1, <1>6, <2>1 DEF Replay, ReplayStopped, tables, txVars
<1>7. ASSUME NEW c \in Consumers, Poll(c) \/ FinishPoll(c) \/ \E p \in Partitions : Assign(c, p)
      PROVE  ChainInv'
  BY <1>1, <1>7 DEF Poll, FinishPoll, Assign, tables, txVars
<1>8. ASSUME NEW c \in Consumers, UNCHANGED topic,
             txPart' = [txPart EXCEPT ![c] = txPart'[c]], txNext' = [txNext EXCEPT ![c] = txNext'[c]]
      PROVE  \A d \in Consumers : d # c /\ txStep[d] # "claim" => Chain(d)' = Chain(d) /\ Chain(d) \in Chains
  BY <1>8, SameRecord DEF TypeInv, TypeOK, LoopTypeOK
<1>9. ASSUME NEW c \in Consumers,
             \/ \E p \in Partitions : BeginBatch(c, p)
             \/ Crash(c) \/ ChainConflict(c) \/ DeadlockVictim(c) \/ DatabaseError(c)
      PROVE  ChainInv'
  <2>1. ForgetWrites(c) /\ UNCHANGED <<rows, heads, topic>>
    BY <1>9 DEF BeginBatch, Crash, ChainConflict, DeadlockVictim, DatabaseError, AfterChainError,
       RetryBatch, FailBatch, CloseTx, kafka, tables
  <2>2. /\ txPart' = [txPart EXCEPT ![c] = txPart'[c]]
        /\ txNext' = [txNext EXCEPT ![c] = txNext'[c]]
    BY <1>9 DEF BeginBatch, Crash, ChainConflict, DeadlockVictim, DatabaseError, AfterChainError,
       RetryBatch, FailBatch, CloseTx, TypeInv, TypeOK, LoopTypeOK
  <2> QED BY <1>8, <2>1, <2>2, ChainRollback
<1>10. ASSUME NEW c \in Consumers, CommitBatch(c) \/ CommitUnacknowledged(c) PROVE ChainInv'
  <2>1. CommitWrites(c) /\ ForgetWrites(c) /\ UNCHANGED topic
    BY <1>10 DEF CommitBatch, CommitUnacknowledged, FailBatch, CloseTx, kafka
  <2>2. /\ txPart' = [txPart EXCEPT ![c] = txPart'[c]]
        /\ txNext' = [txNext EXCEPT ![c] = txNext'[c]]
    BY <1>10 DEF CommitBatch, CommitUnacknowledged, FailBatch, CloseTx, TypeInv, TypeOK, LoopTypeOK
  <2> QED BY <1>8, <2>1, <2>2, ChainCommit
<1>11. ASSUME NEW c \in Consumers, AppendRow(c) PROVE ChainInv' BY <1>11, ChainAppend
<1>12. ASSUME NEW c \in Consumers,
              RejectPayload(c) \/ ClaimIdentity(c) \/ AlreadyProjected(c) \/ RefuseRow(c)
       PROVE  ChainInv'
  <2>1. /\ UNCHANGED <<rows, heads, txRows, txHeads, txRead, txPart, topic>>
        /\ txNext' = [txNext EXCEPT ![c] = txNext'[c]]
        /\ txStep'[c] # "write"
        /\ \A d \in Consumers : d # c => txStep'[d] = txStep[d]
    BY <1>12 DEF RejectPayload, ClaimIdentity, AlreadyProjected, RefuseRow, NextRecord, kafka, tables,
       TypeInv, TypeOK, LoopTypeOK
  <2>2. \A d \in Consumers : d # c /\ txStep[d] # "claim" => Chain(d)' = Chain(d) /\ Chain(d) \in Chains
    BY <1>8, <2>1 DEF TypeInv, TypeOK, LoopTypeOK
  <2> QED BY <2>1, <2>2, ChainFrame
<1>13. ASSUME NEW c \in Consumers, ReadChainHead(c) PROVE ChainInv'
  <2>1. /\ HasRecord(c) /\ UNCHANGED <<rows, heads, txRows, txHeads, txPart, txNext, topic>>
        /\ txRead'[c] = SeenHead(c, Chain(c))
        /\ \A d \in Consumers : d # c => txStep'[d] = txStep[d] /\ txRead'[d] = txRead[d]
    BY <1>13 DEF ReadChainHead, kafka, tables, TypeInv, TypeOK, LoopTypeOK, WritesTypeOK
  <2>2. \A d \in Consumers : Chain(d)' = Chain(d) BY <2>1 DEF Chain, Ev, Rec
  <2>3. \A d \in Consumers : d = c \/ txStep[d] # "claim" => Chain(d) \in Chains
    BY <2>1, RecordTyped DEF TypeInv, BatchBounds
  <2> QED BY <2>1, <2>2, <2>3, ChainFrame
<1> QED
  BY <1>2, <1>3, <1>4, <1>5, <1>6, <1>7, <1>9, <1>10, <1>11, <1>12, <1>13 DEF Next, ProjectRecord

\* Whatever the interleaving of consumers, rebalances, lost acknowledgements,
\* deadlock victims and crashes, the committed rows of every (org, shard)
\* form one gapless, unforked hash chain that ends at its head.
THEOREM ChainsNeverFork == Spec => []ChainIntegrity
<1>1. Init => TypeInv /\ ChainInv BY InitTypeInv, InitChain
<1>2. TypeInv /\ ChainInv /\ [Next]_vars => TypeInv' /\ ChainInv' BY NextType, ChainNext
<1>3. ChainInv => ChainIntegrity BY DEF ChainInv
<1> QED BY <1>1, <1>2, <1>3, PTL DEF Spec
----------------------------------------------------------------------------
(***************************************************************************)
(* The identity claim: however often and by however many consumers a       *)
(* record is delivered, its event has one ledger row and one PII row.      *)
(*                                                                         *)
(* The strengthening speaks of the open transactions: their claims are     *)
(* disjoint from each other and from the committed ones, and a claim       *)
(* belongs to a prepared row or to the record being projected.             *)
(***************************************************************************)
\* Nobody else holds, or has committed, a claim of an open transaction.
ClaimsExclusive ==
    /\ \A c \in Consumers : \A e \in txClaims[c] : e \notin claimed
    /\ \A c, d \in Consumers : \A e \in txClaims[c] : e \in txClaims[d] => c = d

\* Prepared rows are claimed, one per event, each on its event's chain.
PreparedRowsClaimed ==
    \A c \in Consumers :
        /\ \A r \in txRows[c] : r.ev \in txClaims[c] /\ r.chain = ChainOf[r.ev]
        /\ \A r, q \in txRows[c] : r.ev = q.ev => r = q

\* A claim has its row, or is the one the current record has just made.
ClaimsUsed ==
    \A c \in Consumers :
        /\ \A e \in txClaims[c] :
              (\E r \in txRows[c] : r.ev = e) \/ (txStep[c] # "claim" /\ e = Ev(c))
        /\ txStep[c] # "claim" => Ev(c) \in txClaims[c] /\ \A r \in txRows[c] : r.ev # Ev(c)

\* The PII row is written, and rolled back, with the claim.
PIIWithClaim == \A c \in Consumers : txPii[c] = txClaims[c]

ClaimInv ==
    /\ OneRowPerEvent /\ PIIFollowsRow
    /\ ClaimsExclusive /\ PreparedRowsClaimed /\ ClaimsUsed /\ PIIWithClaim

LEMMA InitClaim == Init => ClaimInv
  BY DEF Init, ClaimInv, OneRowPerEvent, PIIFollowsRow, ClaimsExclusive, PreparedRowsClaimed, ClaimsUsed,
     PIIWithClaim, LedgerEvents

\* A step that leaves claims and rows alone
LEMMA ClaimFrame ==
    ASSUME TypeInv, ClaimInv, UNCHANGED <<rows, claimed, piiRows, txRows, txClaims, txPii>>,
           \A d \in Consumers : /\ txStep'[d] = "claim" <=> txStep[d] = "claim"
                                /\ txStep[d] # "claim" => Ev(d)' = Ev(d)
    PROVE  ClaimInv'
<1>1. OneRowPerEvent' /\ PIIFollowsRow' BY DEF ClaimInv, OneRowPerEvent, PIIFollowsRow, LedgerEvents
<1>2. ClaimsUsed' BY DEF ClaimInv, ClaimsUsed
<1> QED BY <1>1, <1>2 DEF ClaimInv, ClaimsExclusive, PreparedRowsClaimed, PIIWithClaim

LEMMA ClaimRollback ==
    ASSUME TypeInv, ClaimInv, NEW c \in Consumers, ForgetWrites(c), UNCHANGED <<rows, claimed, piiRows>>,
           \A d \in Consumers : d # c /\ txStep[d] # "claim" => Ev(d)' = Ev(d)
    PROVE  ClaimInv'
<1>1. txRows'[c] = {} /\ txClaims'[c] = {} /\ txPii'[c] = {} /\ txStep'[c] = "claim"
  BY DEF ForgetWrites, TypeInv, TypeOK, LoopTypeOK, WritesTypeOK
<1>2. \A d \in Consumers : d # c => /\ txRows'[d] = txRows[d] /\ txClaims'[d] = txClaims[d]
                                   /\ txPii'[d] = txPii[d] /\ txStep'[d] = txStep[d]
  BY DEF ForgetWrites, TypeInv, TypeOK, LoopTypeOK, WritesTypeOK
<1>3. OneRowPerEvent' /\ PIIFollowsRow' BY DEF ClaimInv, OneRowPerEvent, PIIFollowsRow, LedgerEvents
<1>4. ClaimsUsed' BY <1>1, <1>2 DEF ClaimInv, ClaimsUsed
<1>5. ClaimsExclusive' BY <1>1, <1>2 DEF ClaimInv, ClaimsExclusive
<1> QED BY <1>1, <1>2, <1>3, <1>4, <1>5 DEF ClaimInv, PreparedRowsClaimed, PIIWithClaim

\* claimEventIdentity: the event is in no other transaction and not committed.
LEMMA ClaimClaim == ASSUME TypeInv, ClaimInv, NEW c \in Consumers, ClaimIdentity(c) PROVE ClaimInv'
<1>1. /\ HasRecord(c) /\ txStep[c] = "claim" /\ ClaimFree(c) /\ ~AlreadyClaimed(c)
      /\ UNCHANGED <<topic, rows, claimed, piiRows, txRows, txPart, txNext>>
  BY DEF ClaimIdentity, kafka, tables
<1>2. /\ txClaims'[c] = txClaims[c] \cup {Ev(c)} /\ txPii'[c] = txPii[c] \cup {Ev(c)} /\ txStep'[c] = "read"
      /\ \A d \in Consumers : d # c => /\ txClaims'[d] = txClaims[d] /\ txPii'[d] = txPii[d]
                                      /\ txStep'[d] = txStep[d]
  BY DEF ClaimIdentity, TypeInv, TypeOK, LoopTypeOK, WritesTypeOK
<1>3. \A d \in Consumers : Ev(d)' = Ev(d) BY <1>1 DEF Ev, Rec
<1>4. OneRowPerEvent' /\ PIIFollowsRow' BY <1>1 DEF ClaimInv, OneRowPerEvent, PIIFollowsRow, LedgerEvents
<1>5. Ev(c) \notin claimed /\ Ev(c) \notin txClaims[c]
      /\ \A d \in Consumers : d # c => Ev(c) \notin txClaims[d]
  BY <1>1 DEF AlreadyClaimed, ClaimFree
<1>6. ClaimsExclusive' BY <1>1, <1>2, <1>5 DEF ClaimInv, ClaimsExclusive
<1>7. PreparedRowsClaimed' BY <1>1, <1>2 DEF ClaimInv, PreparedRowsClaimed
<1>8. ClaimsUsed'
  <2>1. \A r \in txRows[c] : r.ev # Ev(c) BY <1>5 DEF ClaimInv, PreparedRowsClaimed
  <2> QED BY <1>1, <1>2, <1>3, <2>1 DEF ClaimInv, ClaimsUsed
<1> QED BY <1>2, <1>4, <1>6, <1>7, <1>8 DEF ClaimInv, PIIWithClaim

LEMMA ClaimAppend == ASSUME TypeInv, ClaimInv, NEW c \in Consumers, AppendRow(c) PROVE ClaimInv'
<1>1. /\ HasRecord(c) /\ txStep[c] = "write"
      /\ UNCHANGED <<topic, rows, claimed, piiRows, txClaims, txPii, txPart>>
  BY DEF AppendRow, kafka, tables
<1>2. /\ txRows'[c] = txRows[c] \cup {NewRow(c)} /\ txStep'[c] = "claim"
      /\ \A d \in Consumers : d # c => /\ txRows'[d] = txRows[d] /\ txStep'[d] = txStep[d]
                                      /\ txNext'[d] = txNext[d]
  BY DEF AppendRow, NextRecord, TypeInv, TypeOK, LoopTypeOK, WritesTypeOK
<1>3. \A d \in Consumers : d # c /\ txStep[d] # "claim" => Ev(d)' = Ev(d) BY <1>1, <1>2, SameRecord
<1>4. NewRow(c).ev = Ev(c) /\ NewRow(c).chain = ChainOf[Ev(c)] BY DEF NewRow, Chain
<1>5. Ev(c) \in txClaims[c] /\ \A r \in txRows[c] : r.ev # Ev(c) BY <1>1 DEF ClaimInv, ClaimsUsed
<1>6. OneRowPerEvent' /\ PIIFollowsRow' BY <1>1 DEF ClaimInv, OneRowPerEvent, PIIFollowsRow, LedgerEvents
<1>7. PreparedRowsClaimed'
  <2>1. \A r \in txRows'[c] : r.ev \in txClaims'[c] /\ r.chain = ChainOf[r.ev]
    BY <1>1, <1>2, <1>4, <1>5 DEF ClaimInv, PreparedRowsClaimed
  <2>2. \A r, q \in txRows'[c] : r.ev = q.ev => r = q
    BY <1>2, <1>4, <1>5 DEF ClaimInv, PreparedRowsClaimed
  <2> QED BY <1>1, <1>2, <2>1, <2>2 DEF ClaimInv, PreparedRowsClaimed
<1>8. ClaimsUsed' BY <1>1, <1>2, <1>3, <1>4 DEF ClaimInv, ClaimsUsed
<1> QED BY <1>1, <1>6, <1>7, <1>8 DEF ClaimInv, ClaimsExclusive, PIIWithClaim

\* The refused insert takes the claim and the PII row back.
LEMMA ClaimRefuse == ASSUME TypeInv, ClaimInv, NEW c \in Consumers, RefuseRow(c) PROVE ClaimInv'
<1>1. HasRecord(c) /\ txStep[c] = "write" /\ UNCHANGED <<topic, rows, claimed, piiRows, txRows, txPart>>
  BY DEF RefuseRow, kafka, tables
<1>2. /\ txClaims'[c] = txClaims[c] \ {Ev(c)} /\ txPii'[c] = txPii[c] \ {Ev(c)} /\ txStep'[c] = "claim"
      /\ \A d \in Consumers : d # c => /\ txClaims'[d] = txClaims[d] /\ txPii'[d] = txPii[d]
                                      /\ txStep'[d] = txStep[d] /\ txNext'[d] = txNext[d]
  BY DEF RefuseRow, RollbackSavepoint, NextRecord, TypeInv, TypeOK, LoopTypeOK, WritesTypeOK
<1>3. \A d \in Consumers : d # c /\ txStep[d] # "claim" => Ev(d)' = Ev(d) BY <1>1, <1>2, SameRecord
<1>4. \A r \in txRows[c] : r.ev # Ev(c) BY <1>1 DEF ClaimInv, ClaimsUsed
<1>5. OneRowPerEvent' /\ PIIFollowsRow' BY <1>1 DEF ClaimInv, OneRowPerEvent, PIIFollowsRow, LedgerEvents
<1>6. ClaimsExclusive' BY <1>1, <1>2 DEF ClaimInv, ClaimsExclusive
<1>7. PreparedRowsClaimed' BY <1>1, <1>2, <1>4 DEF ClaimInv, PreparedRowsClaimed
<1>8. ClaimsUsed' BY <1>1, <1>2, <1>3 DEF ClaimInv, ClaimsUsed
<1> QED BY <1>2, <1>5, <1>6, <1>7, <1>8 DEF ClaimInv, PIIWithClaim

LEMMA ClaimCommit ==
    ASSUME TypeInv, ClaimInv, NEW c \in Consumers, CommitWrites(c), ForgetWrites(c),
           \A d \in Consumers : d # c /\ txStep[d] # "claim" => Ev(d)' = Ev(d)
    PROVE  ClaimInv'
<1>1. /\ rows' = rows \cup txRows[c] /\ claimed' = claimed \cup txClaims[c]
      /\ piiRows' = [e \in Events |-> piiRows[e] + (IF e \in txPii[c] THEN 1 ELSE 0)]
  BY DEF CommitWrites
<1>2. txRows'[c] = {} /\ txClaims'[c] = {} /\ txPii'[c] = {} /\ txStep'[c] = "claim"
  BY DEF ForgetWrites, TypeInv, TypeOK, LoopTypeOK, WritesTypeOK
<1>3. \A d \in Consumers : d # c => /\ txRows'[d] = txRows[d] /\ txClaims'[d] = txClaims[d]
                                   /\ txPii'[d] = txPii[d] /\ txStep'[d] = txStep[d]
  BY DEF ForgetWrites, TypeInv, TypeOK, LoopTypeOK, WritesTypeOK
<1>4. txStep[c] = "claim"
  <2>1. ~HasRecord(c)
    BY DEF CommitWrites, HasRecord, Projecting, TypeInv, TypeOK, LoopTypeOK, Batch
  <2> QED BY <2>1 DEF TypeInv, BatchBounds
<1>5. \A e \in txClaims[c] : \E r \in txRows[c] : r.ev = e BY <1>4 DEF ClaimInv, ClaimsUsed
<1>6. claimed' = LedgerEvents'
  BY <1>1, <1>5 DEF ClaimInv, OneRowPerEvent, LedgerEvents, PreparedRowsClaimed
<1>7. \A r \in rows : r.ev \in claimed BY DEF ClaimInv, OneRowPerEvent, LedgerEvents
<1>8. \A r \in rows, q \in txRows[c] : r.ev # q.ev
  BY <1>7 DEF ClaimInv, ClaimsExclusive, PreparedRowsClaimed
<1>9. OneRowPerEvent'
  BY <1>1, <1>6, <1>8 DEF ClaimInv, OneRowPerEvent, PreparedRowsClaimed
<1>10. PIIFollowsRow'
  <2> SUFFICES ASSUME NEW e \in Events PROVE piiRows'[e] = IF e \in LedgerEvents' THEN 1 ELSE 0
    BY DEF PIIFollowsRow
  <2>1. piiRows[e] = IF e \in claimed THEN 1 ELSE 0 BY DEF ClaimInv, PIIFollowsRow, OneRowPerEvent
  <2>2. e \in txPii[c] <=> e \in txClaims[c] BY DEF ClaimInv, PIIWithClaim
  <2>3. ~(e \in claimed /\ e \in txClaims[c]) BY DEF ClaimInv, ClaimsExclusive
  <2> QED BY <1>1, <1>6, <2>1, <2>2, <2>3
<1>11. ClaimsExclusive' BY <1>1, <1>2, <1>3 DEF ClaimInv, ClaimsExclusive
<1>12. ClaimsUsed' BY <1>2, <1>3 DEF ClaimInv, ClaimsUsed
<1> QED BY <1>2, <1>3, <1>9, <1>10, <1>11, <1>12 DEF ClaimInv, PreparedRowsClaimed, PIIWithClaim

LEMMA ClaimNext == ASSUME TypeInv, ClaimInv, [Next]_vars PROVE ClaimInv'
<1> DEFINE TopicKept == \A q \in Partitions : \A i \in 1..Len(topic[q]) : topic'[q][i] = topic[q][i]
<1>1. ASSUME TopicKept, UNCHANGED <<rows, claimed, piiRows, txRows, txClaims, txPii, txStep, txPart, txNext>>
      PROVE  ClaimInv'
  BY <1>1, SameRecord, ClaimFrame
<1>2. CASE UNCHANGED vars BY <1>1, <1>2 DEF vars, kafka, tables, txVars
<1>3. ASSUME NEW e \in Events, Produce(e) PROVE ClaimInv'
  <2>1. PartitionOf[ChainOf[e]] \in Partitions /\ [ev |-> e, origin |-> NoKey] \in Record
    BY ConstantsAssumption DEF Record
  <2>2. TopicKept BY <1>3, <2>1, TopicGrows DEF Produce
  <2> QED BY <1>1, <1>3, <2>2 DEF Produce, tables, txVars
<1>4. ASSUME NEW e \in Events, CoverWeek(e) PROVE ClaimInv'
  BY <1>1, <1>4 DEF CoverWeek, kafka, tables, txVars
<1>5. CASE ListDeadLetters BY <1>1, <1>5 DEF ListDeadLetters, kafka, tables, txVars
<1>6. ASSUME NEW d \in letters, Replay(d) \/ ReplayStopped(d) PROVE ClaimInv'
  <2>1. TopicKept
    <3>1. CASE UNCHANGED topic BY <3>1
    <3>2. CASE SendLetter(d)
      <4>1. PICK p \in Partitions : topic' = [topic EXCEPT ![p] = Append(@, [ev |-> d.ev, origin |-> d.key])]
        BY <3>2 DEF SendLetter
      <4>2. [ev |-> d.ev, origin |-> d.key] \in Record BY DEF TypeInv, TypeOK, DeadLetter, Record
      <4> QED BY <4>1, <4>2, TopicGrows
    <3> QED BY <1>6, <3>1, <3>2 DEF Replay, ReplayStopped
  <2> QED BY <1>1, <1>6, <2>1 DEF Replay, ReplayStopped, tables, txVars
<1>7. ASSUME NEW c \in Consumers, Poll(c) \/ FinishPoll(c) \/ \E p \in Partitions : Assign(c, p)
      PROVE  ClaimInv'
  BY <1>1, <1>7 DEF Poll, FinishPoll, Assign, tables, txVars
<1>8. ASSUME NEW c \in Consumers, UNCHANGED topic,
             txPart' = [txPart EXCEPT ![c] = txPart'[c]], txNext' = [txNext EXCEPT ![c] = txNext'[c]]
      PROVE  \A d \in Consumers : d # c /\ txStep[d] # "claim" => Ev(d)' = Ev(d)
  BY <1>8, SameRecord DEF TypeInv, TypeOK, LoopTypeOK
<1>9. ASSUME NEW c \in Consumers,
             \/ \E p \in Partitions : BeginBatch(c, p)
             \/ Crash(c) \/ ChainConflict(c) \/ DeadlockVictim(c) \/ DatabaseError(c)
      PROVE  ClaimInv'
  <2>1. ForgetWrites(c) /\ UNCHANGED <<rows, claimed, piiRows, topic>>
    BY <1>9 DEF BeginBatch, Crash, ChainConflict, DeadlockVictim, DatabaseError, AfterChainError,
       RetryBatch, FailBatch, CloseTx, kafka, tables
  <2>2. /\ txPart' = [txPart EXCEPT ![c] = txPart'[c]]
        /\ txNext' = [txNext EXCEPT ![c] = txNext'[c]]
    BY <1>9 DEF BeginBatch, Crash, ChainConflict, DeadlockVictim, DatabaseError, AfterChainError,
       RetryBatch, FailBatch, CloseTx, TypeInv, TypeOK, LoopTypeOK
  <2> QED BY <1>8, <2>1, <2>2, ClaimRollback
<1>10. ASSUME NEW c \in Consumers, CommitBatch(c) \/ CommitUnacknowledged(c) PROVE ClaimInv'
  <2>1. CommitWrites(c) /\ ForgetWrites(c) /\ UNCHANGED topic
    BY <1>10 DEF CommitBatch, CommitUnacknowledged, FailBatch, CloseTx, kafka
  <2>2. /\ txPart' = [txPart EXCEPT ![c] = txPart'[c]]
        /\ txNext' = [txNext EXCEPT ![c] = txNext'[c]]
    BY <1>10 DEF CommitBatch, CommitUnacknowledged, FailBatch, CloseTx, TypeInv, TypeOK, LoopTypeOK
  <2> QED BY <1>8, <2>1, <2>2, ClaimCommit
<1>11. ASSUME NEW c \in Consumers, ClaimIdentity(c) \/ AppendRow(c) \/ RefuseRow(c) PROVE ClaimInv'
  BY <1>11, ClaimClaim, ClaimAppend, ClaimRefuse
<1>12. ASSUME NEW c \in Consumers, RejectPayload(c) \/ AlreadyProjected(c) PROVE ClaimInv'
  <2>1. /\ UNCHANGED <<rows, claimed, piiRows, txRows, txClaims, txPii, txPart, topic>>
        /\ txNext' = [txNext EXCEPT ![c] = txNext'[c]]
        /\ txStep[c] = "claim" /\ txStep'[c] = "claim"
        /\ \A d \in Consumers : d # c => txStep'[d] = txStep[d]
    BY <1>12 DEF RejectPayload, AlreadyProjected, NextRecord, kafka, tables, TypeInv, TypeOK, LoopTypeOK
  <2>2. \A d \in Consumers : d # c /\ txStep[d] # "claim" => Ev(d)' = Ev(d)
    BY <1>8, <2>1 DEF TypeInv, TypeOK, LoopTypeOK
  <2> QED BY <2>1, <2>2, ClaimFrame
<1>13. ASSUME NEW c \in Consumers, ReadChainHead(c) PROVE ClaimInv'
  <2>1. /\ UNCHANGED <<rows, claimed, piiRows, txRows, txClaims, txPii, txPart, txNext, topic>>
        /\ txStep[c] = "read" /\ txStep'[c] = "write"
        /\ \A d \in Consumers : d # c => txStep'[d] = txStep[d]
    BY <1>13 DEF ReadChainHead, kafka, tables, TypeInv, TypeOK, LoopTypeOK
  <2>2. \A d \in Consumers : Ev(d)' = Ev(d) BY <2>1 DEF Ev, Rec
  <2> QED BY <2>1, <2>2, ClaimFrame
<1> QED
  BY <1>2, <1>3, <1>4, <1>5, <1>6, <1>7, <1>9, <1>10, <1>11, <1>12, <1>13 DEF Next, ProjectRecord

LEMMA ClaimInvariant == Spec => [](TypeInv /\ ClaimInv)
<1>1. Init => TypeInv /\ ClaimInv BY InitTypeInv, InitClaim
<1>2. TypeInv /\ ClaimInv /\ [Next]_vars => TypeInv' /\ ClaimInv' BY NextType, ClaimNext
<1> QED BY <1>1, <1>2, PTL DEF Spec

\* An event that is produced, redelivered, replayed or projected by two
\* consumers at once has at most one row, and audit.projected_events is
\* exactly the set of events the ledger holds.
THEOREM EventsProjectedOnce == Spec => []OneRowPerEvent
<1>1. TypeInv /\ ClaimInv => OneRowPerEvent BY DEF ClaimInv
<1> QED BY <1>1, ClaimInvariant, PTL

\* A ledger row has its PII row and no PII row is left over from a delivery
\* that was refused, repeated or rolled back.
THEOREM PIIExactlyWithRow == Spec => []PIIFollowsRow
<1>1. TypeInv /\ ClaimInv => PIIFollowsRow BY DEF ClaimInv
<1> QED BY <1>1, ClaimInvariant, PTL

----------------------------------------------------------------------------
(***************************************************************************)
(* Nothing behind an offset is lost: a record before the group's offset or *)
(* before the ledger's own is in the ledger or kept as a dead letter.      *)
(*                                                                         *)
(* OffsetsNeverLeadLedger is not inductive: an offset is committed from a  *)
(* batch that was fetched, projected, taken over and redelivered many      *)
(* steps before, and a dead letter another transaction deletes may be the  *)
(* one this transaction counts on.  LetterInv therefore says what a dead   *)
(* letter is and when it may go, and OffsetInv follows the positions from  *)
(* the offset a partition is resumed at, through the batch fetched from    *)
(* there, to the offset committed for it.                                  *)
(*                                                                         *)
(* From the same invariant: last_used is the newest use, dead letters go   *)
(* only for their row, and the ledger implements the trail of AuditTrail.  *)
(***************************************************************************)

----------------------------------------------------------------------------
\* Dead letters

\* A dead letter holds the event of the record its key names.
Faithful(d) ==
    /\ d.key[2] \in 1..Len(topic[d.key[1]])
    /\ d.ev = topic[d.key[1]][d.key[2]].ev

LettersFaithful ==
    /\ \A d \in dlq : Faithful(d)
    /\ \A c \in Consumers : \A d \in txDead[c] : Faithful(d)

\* A key is in the hands of one open transaction at most.
LettersLocked ==
    /\ \A c \in Consumers : \A d \in txDead[c] : d.key \in txTouched[c]
    /\ \A c, d \in Consumers : \A k \in txTouched[c] : k \in txTouched[d] => c = d

\* The event is in the ledger, or will be when c commits.
Settled(c, e) == e \in LedgerEvents \/ \E r \in txRows[c] : r.ev = e

\* A committed dead letter that c has taken over is written again by c, or its
\* event is settled.
LettersAnswered ==
    \A c \in Consumers : \A x \in dlq :
        x.key \in txTouched[c] => (\E y \in txDead[c] : y.key = x.key) \/ Settled(c, x.ev)

LetterInv == LettersFaithful /\ LettersLocked /\ LettersAnswered

\* What c will leave of record i of partition p when it commits
SeenAccounted(c, p, i) ==
    \/ Settled(c, topic[p][i].ev)
    \/ \E d \in DlqSeen(c) : d.ev = topic[p][i].ev /\ d.key \in {<<p, i>>, topic[p][i].origin}

\* The records an open transaction has been through are accounted for in it.
AccountedBy(c) ==
    Projecting(c) =>
        /\ txNext[c] <= batch[c][txPart[c]].to + 1
        /\ \A i \in (batch[c][txPart[c]].from + 1)..(txNext[c] - 1) : SeenAccounted(c, txPart[c], i)

BatchAccounted == \A c \in Consumers : AccountedBy(c)

\* The first n records of the partition are accounted for.
Covered(p, n) == n <= Len(topic[p]) /\ \A i \in 1..n : Accounted(p, i)

OffsetsCovered == \A p \in Partitions : Covered(p, groupOffset[p]) /\ Covered(p, ledgerOffset[p])

\* A batch starts where everything is accounted for, and a committed one ends there.
BatchCovered(c, p) ==
    /\ batch[c][p].st # "none" => Covered(p, batch[c][p].from)
    /\ batch[c][p].st = "done" => Covered(p, batch[c][p].to)

\* The owner of a partition fetches next where everything is accounted for, or
\* right behind the batch it is working on.
PositionCovered(c, p) ==
    owner[p] = c =>
        \/ Covered(p, position[c][p])
        \/ batch[c][p].st # "none" /\ position[c][p] = batch[c][p].to

PairsCovered == \A c \in Consumers, p \in Partitions : BatchCovered(c, p) /\ PositionCovered(c, p)

OffsetInv == BatchAccounted /\ OffsetsCovered /\ PairsCovered

\* A transaction reports the newest token use among the rows it prepares.
UsesPrepared ==
    \A c \in Consumers :
        /\ \A r \in txRows[c] : UseTime[r.ev] <= txUsed[c]
        /\ txUsed[c] # 0 => \E r \in txRows[c] : UseTime[r.ev] = txUsed[c]

TokenInv == LastUsedIsNewest /\ UsesPrepared

IInv == TypeInv /\ ClaimInv /\ LetterInv /\ OffsetInv /\ TokenInv

----------------------------------------------------------------------------
\* What no step undoes

\* Records stay where they are ...
TopicKept ==
    \A q \in Partitions :
        /\ Len(topic[q]) <= Len(topic'[q])
        /\ \A i \in 1..Len(topic[q]) : topic'[q][i] = topic[q][i]

\* ... events stay in the ledger, and a dead letter goes only for its event.
LedgerKept ==
    /\ LedgerEvents \subseteq LedgerEvents'
    /\ \A x \in dlq : (\E y \in dlq' : y.key = x.key /\ y.ev = x.ev) \/ x.ev \in LedgerEvents'

LEMMA TopicSteps == ASSUME TypeInv, [Next]_vars PROVE TopicKept
<1>1. CASE UNCHANGED topic BY <1>1 DEF TopicKept, TypeInv, TypeOK, KafkaTypeOK
<1>2. ASSUME NEW e \in Events, Produce(e) PROVE TopicKept
  <2>1. PartitionOf[ChainOf[e]] \in Partitions /\ [ev |-> e, origin |-> NoKey] \in Record
    BY ConstantsAssumption DEF Record
  <2> QED BY <1>2, <2>1, TopicGrows DEF Produce, TopicKept
<1>3. ASSUME NEW d \in letters, SendLetter(d) PROVE TopicKept
  <2>1. PICK p \in Partitions : topic' = [topic EXCEPT ![p] = Append(@, [ev |-> d.ev, origin |-> d.key])]
    BY <1>3 DEF SendLetter
  <2>2. [ev |-> d.ev, origin |-> d.key] \in Record BY DEF TypeInv, TypeOK, DeadLetter, Record
  <2> QED BY <2>1, <2>2, TopicGrows DEF TopicKept
<1>4. \/ UNCHANGED topic
      \/ \E e \in Events : Produce(e)
      \/ \E d \in letters : SendLetter(d)
  BY DEF Next, vars, kafka, CoverWeek, ListDeadLetters, Replay, ReplayStopped, Assign, BeginBatch, Poll,
     FinishPoll, ProjectRecord, RejectPayload, ClaimIdentity, AlreadyProjected, ReadChainHead, RefuseRow,
     AppendRow, ChainConflict, DeadlockVictim, DatabaseError, CommitBatch, CommitUnacknowledged, Crash
<1> QED BY <1>1, <1>2, <1>3, <1>4

LEMMA CoveredStays ==
    ASSUME TypeInv, TopicKept, LedgerKept, KafkaTypeOK', NEW p \in Partitions, NEW n \in Nat, Covered(p, n)
    PROVE  Covered(p, n)'
<1>1. Len(topic[p]) \in Nat /\ Len(topic'[p]) \in Nat /\ n <= Len(topic'[p])
  BY DEF TypeInv, TypeOK, KafkaTypeOK, Covered, TopicKept
<1>2. ASSUME NEW i \in 1..n PROVE Accounted(p, i)'
  <2>1. topic'[p][i] = topic[p][i] BY <1>1, <1>2 DEF Covered, TopicKept
  <2>2. Accounted(p, i) BY <1>2 DEF Covered
  <2> QED BY <2>1, <2>2 DEF Accounted, LedgerKept
<1> QED BY <1>1, <1>2 DEF Covered

\* Offsets, batches and positions that do not change stay covered.
LEMMA CoverFrame ==
    ASSUME TypeInv, OffsetInv, TopicKept, LedgerKept, KafkaTypeOK',
           UNCHANGED <<groupOffset, ledgerOffset>>
    PROVE  OffsetsCovered'
<1>1. \A p \in Partitions : groupOffset[p] \in Nat /\ ledgerOffset[p] \in Nat
  BY DEF TypeInv, TypeOK, KafkaTypeOK, LedgerTypeOK
<1>2. \A p \in Partitions : Covered(p, groupOffset[p])' BY <1>1, CoveredStays DEF OffsetInv, OffsetsCovered
<1>3. \A p \in Partitions : Covered(p, ledgerOffset[p])' BY <1>1, CoveredStays DEF OffsetInv, OffsetsCovered
<1> QED BY <1>2, <1>3 DEF OffsetsCovered

\* A batch that stays in its state, or fails, and the position behind it
LEMMA PairFrame ==
    ASSUME TypeInv, OffsetInv, TopicKept, LedgerKept, KafkaTypeOK', NEW c \in Consumers, NEW p \in Partitions,
           batch'[c][p].from = batch[c][p].from, batch'[c][p].to = batch[c][p].to,
           batch'[c][p].st = batch[c][p].st \/ (batch[c][p].st # "none" /\ batch'[c][p].st = "failed")
    PROVE  /\ BatchCovered(c, p)'
           /\ (owner'[p] = c => owner[p] = c /\ position'[c][p] = position[c][p]) => PositionCovered(c, p)'
<1>1. PICK from \in Nat, to \in Nat, pos \in Nat :
        from = batch[c][p].from /\ to = batch[c][p].to /\ pos = position[c][p]
  BY DEF TypeInv, TypeOK, LoopTypeOK, KafkaTypeOK, Batch
<1>2. BatchCovered(c, p) /\ PositionCovered(c, p) BY DEF OffsetInv, PairsCovered
<1>3. \A n \in Nat : Covered(p, n) => Covered(p, n)' BY CoveredStays
<1>4. batch[c][p].st # "none" => Covered(p, from)' BY <1>1, <1>2, <1>3 DEF BatchCovered
<1>5. batch[c][p].st = "done" => Covered(p, to)' BY <1>1, <1>2, <1>3 DEF BatchCovered
<1>6. owner[p] = c => Covered(p, pos)' \/ (batch[c][p].st # "none" /\ pos = to)
  BY <1>1, <1>2, <1>3 DEF PositionCovered
<1>7. BatchCovered(c, p)' BY <1>1, <1>4, <1>5 DEF BatchCovered, Covered
<1>8. ASSUME owner'[p] = c => owner[p] = c /\ position'[c][p] = position[c][p] PROVE PositionCovered(c, p)'
  BY <1>1, <1>6, <1>8 DEF PositionCovered, Covered
<1> QED BY <1>7, <1>8

----------------------------------------------------------------------------
\* Dead letters under the steps of one transaction

\* What a step of c may not lose of its own view
OwnKept(c) ==
    /\ \A e : Settled(c, e) => Settled(c, e)'
    /\ \A x \in DlqSeen(c) : (\E y \in DlqSeen(c)' : y.key = x.key /\ y.ev = x.ev) \/ Settled(c, x.ev)'

\* Two dead letters of one key hold the same event.
LEMMA SameKeySameEvent ==
    ASSUME LetterInv, NEW c \in Consumers, NEW x \in DlqSeen(c), NEW y \in DlqSeen(c), x.key = y.key
    PROVE  x.ev = y.ev
  BY DEF LetterInv, LettersFaithful, Faithful, DlqSeen

LEMMA FaithfulStays ==
    ASSUME TypeInv, TopicKept, KafkaTypeOK', NEW d \in DeadLetter, Faithful(d)
    PROVE  Faithful(d)'
<1>1. d.key[1] \in Partitions /\ d.key[2] \in Nat BY DEF DeadLetter, DeadLetterKey
<1>2. Len(topic[d.key[1]]) \in Nat /\ Len(topic'[d.key[1]]) \in Nat BY <1>1 DEF TypeInv, TypeOK, KafkaTypeOK
<1> QED BY <1>1, <1>2 DEF Faithful, TopicKept

\* The transaction is closed, rolled back or begun: it has no letters.
LEMMA LetterRollback ==
    ASSUME TypeInv, LetterInv, NEW c \in Consumers, ForgetWrites(c), UNCHANGED <<topic, dlq, rows>>
    PROVE  LetterInv'
<1>1. txTouched'[c] = {} /\ txDead'[c] = {} BY DEF ForgetWrites, TypeInv, TypeOK, WritesTypeOK
<1>2. \A d \in Consumers : d # c =>
        txTouched'[d] = txTouched[d] /\ txDead'[d] = txDead[d] /\ txRows'[d] = txRows[d]
  BY DEF ForgetWrites, TypeInv, TypeOK, WritesTypeOK
<1>3. LettersFaithful' BY <1>1, <1>2 DEF LetterInv, LettersFaithful, Faithful
<1>4. LettersLocked' BY <1>1, <1>2 DEF LetterInv, LettersLocked
<1>5. LettersAnswered' BY <1>1, <1>2 DEF LetterInv, LettersAnswered, Settled, LedgerEvents
<1> QED BY <1>3, <1>4, <1>5 DEF LetterInv

\* A step that leaves the dead letters alone and prepares no fewer rows
LEMMA LetterFrame ==
    ASSUME TypeInv, LetterInv, TopicKept, KafkaTypeOK', UNCHANGED <<dlq, txTouched, txDead, rows>>,
           \A c \in Consumers : txRows[c] \subseteq txRows'[c]
    PROVE  LetterInv' /\ \A c \in Consumers : OwnKept(c)
<1>1. dlq \subseteq DeadLetter /\ \A c \in Consumers : txDead[c] \subseteq DeadLetter
  BY DEF TypeInv, TypeOK, LedgerTypeOK, WritesTypeOK
<1>2. LettersFaithful' BY <1>1, FaithfulStays DEF LetterInv, LettersFaithful
<1>3. LettersLocked' BY DEF LetterInv, LettersLocked
<1>4. \A c \in Consumers : \A e : Settled(c, e) => Settled(c, e)' BY DEF Settled, LedgerEvents
<1>5. LettersAnswered' BY <1>4 DEF LetterInv, LettersAnswered
<1>6. \A c \in Consumers : DlqSeen(c)' = DlqSeen(c) BY DEF DlqSeen
<1> QED BY <1>2, <1>3, <1>4, <1>5, <1>6 DEF LetterInv, OwnKept

\* resolveDeadLetter deletes rows only of an event that is settled by now.
LEMMA ResolveKeeps ==
    ASSUME TypeInv, LetterInv, NEW c \in Consumers, HasRecord(c), ResolveDeadLetter(c),
           UNCHANGED <<topic, dlq, rows>>, NEW ev, ev = Ev(c), Settled(c, ev)',
           \A d \in Consumers : txRows[d] \subseteq txRows'[d]
    PROVE  LetterInv' /\ OwnKept(c)
<1>1. \A d \in Consumers : \A e : Settled(d, e) => Settled(d, e)' BY DEF Settled, LedgerEvents
<1>2. CASE ReplayOrigin(c) = {}
  <2>1. UNCHANGED <<txTouched, txDead>> BY <1>2 DEF ResolveDeadLetter
  <2>2. LettersFaithful' BY <2>1 DEF LetterInv, LettersFaithful, Faithful
  <2>3. LettersLocked' BY <2>1 DEF LetterInv, LettersLocked
  <2>4. LettersAnswered' BY <1>1, <2>1 DEF LetterInv, LettersAnswered
  <2>5. DlqSeen(c)' = DlqSeen(c) BY <2>1 DEF DlqSeen
  <2> QED BY <1>1, <2>2, <2>3, <2>4, <2>5 DEF LetterInv, OwnKept
<1>3. CASE ReplayOrigin(c) # {}
  <2> DEFINE key == Rec(c).origin
  <2>1. /\ DlqFree(c, key)
        /\ txTouched' = [txTouched EXCEPT ![c] = @ \cup {key}]
        /\ txDead' = [txDead EXCEPT ![c] = @ \ ReplayOrigin(c)]
    BY <1>3 DEF ResolveDeadLetter
  <2>2. txTouched'[c] = txTouched[c] \cup {key} /\ txDead'[c] = txDead[c] \ ReplayOrigin(c)
    BY <2>1 DEF TypeInv, TypeOK, WritesTypeOK
  <2>3. \A d \in Consumers : d # c => txTouched'[d] = txTouched[d] /\ txDead'[d] = txDead[d]
    BY <2>1 DEF TypeInv, TypeOK, WritesTypeOK
  <2>4. PICK z \in DlqSeen(c) : z.key = key /\ z.ev = ev BY <1>3 DEF ReplayOrigin
  <2>5. \A x \in DlqSeen(c) : x.key = key => x.ev = ev /\ x \in ReplayOrigin(c)
    BY <2>4, SameKeySameEvent DEF ReplayOrigin
  <2> HIDE DEF key
  <2>6. LettersFaithful' BY <2>2, <2>3 DEF LetterInv, LettersFaithful, Faithful
  <2>7. LettersLocked'
    <3>1. \A d \in Consumers : \A x \in txDead'[d] : x.key \in txTouched'[d]
      BY <2>2, <2>3 DEF LetterInv, LettersLocked
    <3>2. \A d \in Consumers : d # c => key \notin txTouched[d] BY <2>1 DEF DlqFree
    <3>3. \A a, b \in Consumers : \A k \in txTouched'[a] : k \in txTouched'[b] => a = b
      BY <2>2, <2>3, <3>2 DEF LetterInv, LettersLocked
    <3> QED BY <3>1, <3>3 DEF LettersLocked
  <2>8. LettersAnswered'
    <3> SUFFICES ASSUME NEW d \in Consumers, NEW x \in dlq', x.key \in txTouched'[d]
                 PROVE  (\E y \in txDead'[d] : y.key = x.key) \/ Settled(d, x.ev)'
      BY DEF LettersAnswered
    <3>1. CASE d # c BY <1>1, <2>3, <3>1 DEF LetterInv, LettersAnswered
    <3>2. CASE d = c /\ x.key # key
      <4>1. (\E y \in txDead[c] : y.key = x.key) \/ Settled(c, x.ev)
        BY <2>2, <3>2 DEF LetterInv, LettersAnswered
      <4>2. \A y \in ReplayOrigin(c) : y.key = key BY DEF ReplayOrigin, key
      <4> QED BY <1>1, <2>2, <3>2, <4>1, <4>2
    <3>3. CASE d = c /\ x.key = key
      <4>1. CASE key \notin txTouched[c]
        <5>1. x \in DlqSeen(c) BY <3>3, <4>1 DEF DlqSeen
        <5> QED BY <2>5, <3>3, <5>1
      <4>2. CASE key \in txTouched[c]
        <5>1. z.key = x.key /\ Faithful(z) /\ Faithful(x)
          BY <2>4, <3>3 DEF LetterInv, LettersFaithful, DlqSeen
        <5>2. x.ev = ev BY <2>4, <5>1 DEF Faithful
        <5> QED BY <3>3, <5>2
      <4> QED BY <4>1, <4>2
    <3> QED BY <3>1, <3>2, <3>3
  <2>9. OwnKept(c)
    <3>1. ASSUME NEW x \in DlqSeen(c), x.key # key PROVE x \in DlqSeen(c)'
      <4>1. x \notin ReplayOrigin(c) BY <3>1 DEF ReplayOrigin, key
      <4> QED BY <2>2, <3>1, <4>1 DEF DlqSeen
    <3> QED BY <1>1, <2>5, <3>1 DEF OwnKept
  <2> QED BY <2>6, <2>7, <2>8, <2>9 DEF LetterInv
<1> QED BY <1>2, <1>3

\* deadLetterRecord loses no row and leaves one for the record at hand.
LEMMA DeadLetterKeeps ==
    ASSUME TypeInv, LetterInv, NEW c \in Consumers, HasRecord(c), DeadLetterRecord(c),
           UNCHANGED <<topic, dlq, rows, txRows>>
    PROVE  /\ LetterInv' /\ OwnKept(c)
           /\ \E y \in DlqSeen(c)' : y.ev = Ev(c) /\ y.key = LetterKey(c)
<1> DEFINE key == LetterKey(c)
           old == {d \in DlqSeen(c) : d.key = key}
           add == IF ReplayOrigin(c) # {}
                  THEN {[d EXCEPT !.attempts = @ + 1] : d \in old}
                  ELSE {[key |-> key, ev |-> Ev(c), attempts |-> 0]}
<1>1. \A d \in Consumers : \A e : Settled(d, e) <=> Settled(d, e)' BY DEF Settled, LedgerEvents
<1>2. DlqSeen(c) \subseteq DeadLetter BY LettersTyped
<1>3. \A d \in DlqSeen(c) : Faithful(d) BY DEF LetterInv, LettersFaithful, DlqSeen
<1>4. \A d \in old : LET n == [d EXCEPT !.attempts = @ + 1] IN n.key = key /\ n.ev = d.ev
  BY <1>2 DEF DeadLetter
<1>5. txPart[c] \in Partitions /\ txNext[c] \in 1..Len(topic[txPart[c]]) BY RecordTyped
<1>6. ReplayOrigin(c) = {} => key = <<txPart[c], txNext[c]>> BY DEF LetterKey
<1>7. ReplayOrigin(c) # {} => \E d \in old : d.ev = Ev(c) BY DEF LetterKey, ReplayOrigin
<1>8. \A y \in add : y.key = key
  <2>1. CASE ReplayOrigin(c) # {} BY <1>4, <2>1
  <2>2. CASE ReplayOrigin(c) = {} BY <2>2
  <2> QED BY <2>1, <2>2
<1>9. \A y \in add : Faithful(y)
  <2>1. CASE ReplayOrigin(c) # {}
    <3> SUFFICES ASSUME NEW y \in add PROVE Faithful(y) OBVIOUS
    <3>1. PICK d \in old : y = [d EXCEPT !.attempts = @ + 1] BY <2>1
    <3>2. y.key = d.key /\ y.ev = d.ev BY <1>4, <3>1
    <3> QED BY <1>3, <3>2 DEF Faithful
  <2>2. CASE ReplayOrigin(c) = {} BY <1>5, <1>6, <2>2 DEF Faithful, Ev, Rec
  <2> QED BY <2>1, <2>2
<1>10. \E y \in add : y.ev = Ev(c)
  <2>1. CASE ReplayOrigin(c) # {} BY <1>4, <1>7, <2>1
  <2>2. CASE ReplayOrigin(c) = {} BY <2>2
  <2> QED BY <2>1, <2>2
<1>11. \A x \in old : \E y \in add : ReplayOrigin(c) # {} => y.ev = x.ev
  <2>1. CASE ReplayOrigin(c) # {} BY <1>4, <2>1
  <2>2. CASE ReplayOrigin(c) = {} BY <2>2
  <2> QED BY <2>1, <2>2
<1>12. /\ DlqFree(c, key)
       /\ \/ /\ ReplayOrigin(c) = {} /\ old # {}
             /\ UNCHANGED <<txTouched, txDead>>
          \/ /\ ~(ReplayOrigin(c) = {} /\ old # {})
             /\ txTouched' = [txTouched EXCEPT ![c] = @ \cup {key}]
             /\ txDead' = [txDead EXCEPT ![c] = (@ \ old) \cup add]
  BY Zenon DEF DeadLetterRecord
<1>13. \A x \in old : x.key = key /\ x \in DlqSeen(c) OBVIOUS
<1>14. \A x \in DlqSeen(c) : x.key = key => x \in old OBVIOUS
<1> HIDE DEF old, add
<1>15. CASE ReplayOrigin(c) = {} /\ old # {} /\ UNCHANGED <<txTouched, txDead>>
  <2>2. LettersFaithful' BY <1>15 DEF LetterInv, LettersFaithful, Faithful
  <2>3. LettersLocked' BY <1>15 DEF LetterInv, LettersLocked
  <2>4. LettersAnswered' BY <1>1, <1>15 DEF LetterInv, LettersAnswered
  <2>5. DlqSeen(c)' = DlqSeen(c) BY <1>15 DEF DlqSeen
  <2>6. PICK x \in old : TRUE BY <1>15
  <2>7. x.ev = Ev(c) /\ x.key = key /\ x \in DlqSeen(c)
    BY <1>3, <1>5, <1>6, <1>13, <1>15, <2>6 DEF Faithful, Ev, Rec
  <2> QED BY <1>1, <2>2, <2>3, <2>4, <2>5, <2>7 DEF LetterInv, OwnKept
<1>16. CASE /\ ~(ReplayOrigin(c) = {} /\ old # {})
            /\ txTouched' = [txTouched EXCEPT ![c] = @ \cup {key}]
            /\ txDead' = [txDead EXCEPT ![c] = (@ \ old) \cup add]
  <2> HIDE DEF key
  <2>2. txTouched'[c] = txTouched[c] \cup {key} /\ txDead'[c] = (txDead[c] \ old) \cup add
    BY <1>16 DEF TypeInv, TypeOK, WritesTypeOK
  <2>3. \A d \in Consumers : d # c => txTouched'[d] = txTouched[d] /\ txDead'[d] = txDead[d]
    BY <1>16 DEF TypeInv, TypeOK, WritesTypeOK
  <2>4. \A y \in add : Faithful(y)' BY <1>9 DEF Faithful
  <2>5. LettersFaithful'
    <3>1. \A d \in Consumers : \A y \in txDead[d] : Faithful(y)' BY DEF LetterInv, LettersFaithful, Faithful
    <3>2. \A y \in dlq' : Faithful(y)' BY DEF LetterInv, LettersFaithful, Faithful
    <3>3. \A d \in Consumers : \A y \in txDead'[d] : Faithful(y)' BY <2>2, <2>3, <2>4, <3>1
    <3> QED BY <3>2, <3>3 DEF LettersFaithful
  <2>6. LettersLocked'
    <3>1. \A d \in Consumers : \A x \in txDead'[d] : x.key \in txTouched'[d]
      BY <1>8, <2>2, <2>3 DEF LetterInv, LettersLocked
    <3>2. \A d \in Consumers : d # c => key \notin txTouched[d] BY <1>12 DEF DlqFree
    <3>3. \A a, b \in Consumers : \A k \in txTouched'[a] : k \in txTouched'[b] => a = b
      BY <2>2, <2>3, <3>2 DEF LetterInv, LettersLocked
    <3> QED BY <3>1, <3>3 DEF LettersLocked
  <2>7. PICK w \in add : w.ev = Ev(c) BY <1>10
  <2>8. w \in txDead'[c] /\ w.key = key BY <1>8, <2>2
  <2>9. LettersAnswered'
    <3> SUFFICES ASSUME NEW d \in Consumers, NEW x \in dlq', x.key \in txTouched'[d]
                 PROVE  (\E y \in txDead'[d] : y.key = x.key) \/ Settled(d, x.ev)'
      BY DEF LettersAnswered
    <3>1. CASE d # c BY <1>1, <2>3, <3>1 DEF LetterInv, LettersAnswered
    <3>2. CASE d = c /\ x.key = key BY <2>8, <3>2
    <3>3. CASE d = c /\ x.key # key
      <4>1. (\E y \in txDead[c] : y.key = x.key) \/ Settled(c, x.ev)
        BY <2>2, <3>3 DEF LetterInv, LettersAnswered
      <4> QED BY <1>1, <1>13, <2>2, <3>3, <4>1
    <3> QED BY <3>1, <3>2, <3>3
  <2>10. w \in DlqSeen(c)' BY <2>8 DEF DlqSeen
  <2>11. OwnKept(c)
    <3>1. ASSUME NEW x \in DlqSeen(c) PROVE \E y \in DlqSeen(c)' : y.key = x.key /\ y.ev = x.ev
      <4>1. CASE x.key # key
        <5>1. x \in DlqSeen(c)' BY <1>13, <2>2, <4>1 DEF DlqSeen
        <5> QED BY <5>1
      <4>2. CASE x.key = key
        <5>1. x \in old /\ ReplayOrigin(c) # {} BY <1>14, <1>16, <4>2
        <5>2. PICK y \in add : y.ev = x.ev BY <1>11, <5>1
        <5>3. y \in DlqSeen(c)' /\ y.key = key BY <1>8, <2>2 DEF DlqSeen
        <5> QED BY <4>2, <5>2, <5>3
      <4> QED BY <4>1, <4>2
    <3> QED BY <1>1, <3>1 DEF OwnKept
  <2> QED BY <2>5, <2>6, <2>7, <2>8, <2>9, <2>10, <2>11 DEF LetterInv, key
<1> QED BY <1>12, <1>15, <1>16
----------------------------------------------------------------------------
\* Records of the batch under the steps of its own and of other transactions

\* Another transaction's step does not take away what d counts on.
LEMMA OtherAccounted ==
    ASSUME TypeInv, OffsetInv, TopicKept, LedgerKept, KafkaTypeOK', NEW d \in Consumers,
           txPart'[d] = txPart[d], txNext'[d] = txNext[d], txRows'[d] = txRows[d],
           txTouched'[d] = txTouched[d], txDead'[d] = txDead[d],
           Projecting(d) => batch'[d][txPart[d]] = batch[d][txPart[d]]
    PROVE  AccountedBy(d)'
<1> SUFFICES ASSUME Projecting(d)' PROVE AccountedBy(d)' BY DEF AccountedBy
<1>1. Projecting(d) BY DEF Projecting
<1>2. PICK p \in Partitions : p = txPart[d] BY <1>1 DEF Projecting, TypeInv, TypeOK, LoopTypeOK
<1>3. AccountedBy(d) BY DEF OffsetInv, BatchAccounted
<1>4. /\ batch[d][p].from \in Nat /\ batch[d][p].to \in Nat /\ txNext[d] \in Nat
      /\ batch[d][p].to <= Len(topic[p]) /\ Len(topic[p]) \in Nat
  BY <1>2 DEF TypeInv, TypeOK, LoopTypeOK, KafkaTypeOK, BatchBounds, Batch
<1>5. ASSUME NEW i \in (batch[d][p].from + 1)..(txNext[d] - 1) PROVE SeenAccounted(d, p, i)'
  <2>1. i \in 1..Len(topic[p]) BY <1>1, <1>2, <1>3, <1>4, <1>5 DEF AccountedBy
  <2>2. topic'[p][i] = topic[p][i] BY <2>1 DEF TopicKept
  <2>3. SeenAccounted(d, p, i) BY <1>1, <1>2, <1>3, <1>5 DEF AccountedBy
  <2>4. \A e : Settled(d, e) => Settled(d, e)' BY DEF Settled, LedgerKept
  <2>5. \A x \in DlqSeen(d) : (\E y \in DlqSeen(d)' : y.key = x.key /\ y.ev = x.ev) \/ Settled(d, x.ev)'
    BY DEF DlqSeen, LedgerKept, Settled
  <2> QED BY <2>2, <2>3, <2>4, <2>5 DEF SeenAccounted
<1> QED BY <1>1, <1>2, <1>3, <1>5 DEF AccountedBy

\* A step of c itself that goes on to the next record, or stays at this one
LEMMA OwnAccounted ==
    ASSUME TypeInv, OffsetInv, NEW c \in Consumers, HasRecord(c), OwnKept(c), UNCHANGED <<topic, batch, txPart>>,
           NEW p, p = txPart[c], NEW n, n = txNext[c],
           txNext'[c] = n \/ (txNext'[c] = n + 1 /\ SeenAccounted(c, p, n)')
    PROVE  AccountedBy(c)'
<1>1. Projecting(c) /\ AccountedBy(c) /\ n <= batch[c][p].to /\ n \in Nat /\ p \in Partitions
  BY RecordTyped DEF HasRecord, OffsetInv, BatchAccounted, TypeInv, TypeOK, LoopTypeOK
<1>2. batch[c][p].from \in Nat /\ batch[c][p].to \in Nat BY <1>1 DEF TypeInv, TypeOK, LoopTypeOK, Batch
<1>3. ASSUME NEW i \in (batch[c][p].from + 1)..(n - 1) PROVE SeenAccounted(c, p, i)'
  <2>1. SeenAccounted(c, p, i) BY <1>1, <1>3 DEF AccountedBy
  <2> QED BY <2>1 DEF SeenAccounted, OwnKept
<1>4. ASSUME NEW i \in (batch[c][p].from + 1)..(txNext'[c] - 1) PROVE SeenAccounted(c, p, i)'
  <2>1. CASE i = n BY <1>1, <1>2, <1>4, <2>1
  <2>2. CASE i # n BY <1>1, <1>2, <1>3, <1>4, <2>2
  <2> QED BY <2>1, <2>2
<1> QED BY <1>1, <1>2, <1>4 DEF AccountedBy
LEMMA QuietCover ==
    ASSUME TypeInv, OffsetInv, TopicKept, LedgerKept, KafkaTypeOK',
           UNCHANGED <<groupOffset, ledgerOffset, owner, position, batch>>
    PROVE  OffsetsCovered' /\ PairsCovered'
<1>1. OffsetsCovered' BY CoverFrame
<1>2. \A c \in Consumers, p \in Partitions : BatchCovered(c, p)' /\ PositionCovered(c, p)' BY PairFrame
<1> QED BY <1>1, <1>2 DEF PairsCovered

LEMMA TablesKept == ASSUME UNCHANGED <<rows, dlq>> PROVE LedgerKept
  BY DEF LedgerKept, LedgerEvents

\* Every statement of projectOne leaves the record accounted for, or stays at it.
LEMMA ProjectAccounted ==
    ASSUME IInv, KafkaTypeOK', NEW c \in Consumers,
           \/ RejectPayload(c) \/ RefuseRow(c) \/ AlreadyProjected(c)
           \/ AppendRow(c) \/ ClaimIdentity(c) \/ ReadChainHead(c)
    PROVE  LetterInv' /\ AccountedBy(c)'
<1>1. HasRecord(c) /\ UNCHANGED <<topic, batch, txPart, dlq, rows>>
  BY DEF RejectPayload, RefuseRow, AlreadyProjected, AppendRow, ClaimIdentity, ReadChainHead, kafka, tables
<1>2. TypeInv /\ ClaimInv /\ LetterInv /\ OffsetInv BY DEF IInv
<1>3. PICK p, n, e : p = txPart[c] /\ n = txNext[c] /\ e = Ev(c) OBVIOUS
<1>4. topic[p][n].ev = e /\ topic[p][n] = Rec(c) /\ topic'[p][n] = topic[p][n]
  BY <1>1, <1>3 DEF Ev, Rec
<1>5. NextRecord(c) => txNext'[c] = n + 1
  BY <1>2, <1>3 DEF NextRecord, TypeInv, TypeOK, LoopTypeOK
<1>6. CASE RejectPayload(c) \/ RefuseRow(c)
  <2>1. DeadLetterRecord(c) /\ NextRecord(c) /\ UNCHANGED txRows BY <1>6 DEF RejectPayload, RefuseRow
  <2>2. PICK key : key = LetterKey(c) OBVIOUS
  <2>3. LetterInv' /\ OwnKept(c) /\ \E y \in DlqSeen(c)' : y.ev = e /\ y.key = key
    <3>1. LetterInv' /\ OwnKept(c) /\ \E y \in DlqSeen(c)' : y.ev = Ev(c) /\ y.key = LetterKey(c)
      BY <1>1, <1>2, <2>1, DeadLetterKeeps
    <3> QED BY <1>3, <2>2, <3>1
  <2>4. key \in {<<p, n>>, topic[p][n].origin} BY <1>3, <1>4, <2>2 DEF LetterKey
  <2>5. SeenAccounted(c, p, n)' BY <1>4, <2>3, <2>4 DEF SeenAccounted
  <2> QED BY <1>1, <1>2, <1>3, <1>5, <2>1, <2>3, <2>5, OwnAccounted
<1>7. CASE AlreadyProjected(c)
  <2>1. ResolveDeadLetter(c) /\ NextRecord(c) /\ UNCHANGED txRows /\ AlreadyClaimed(c) /\ txStep[c] = "claim"
    BY <1>7 DEF AlreadyProjected
  <2>2. Settled(c, e) BY <1>2, <1>3, <2>1 DEF AlreadyClaimed, Settled, ClaimInv, OneRowPerEvent, ClaimsUsed
  <2>3. Settled(c, e)' BY <1>1, <2>1, <2>2 DEF Settled, LedgerEvents
  <2>4. LetterInv' /\ OwnKept(c) BY <1>1, <1>2, <1>3, <2>1, <2>3, ResolveKeeps
  <2>5. SeenAccounted(c, p, n)' BY <1>4, <2>3 DEF SeenAccounted
  <2> QED BY <1>1, <1>2, <1>3, <1>5, <2>1, <2>4, <2>5, OwnAccounted
<1>8. CASE AppendRow(c)
  <2>1. ResolveDeadLetter(c) /\ NextRecord(c) /\ txRows' = [txRows EXCEPT ![c] = @ \cup {NewRow(c)}]
    BY <1>8 DEF AppendRow
  <2>2. txRows'[c] = txRows[c] \cup {NewRow(c)} /\ \A d \in Consumers : txRows[d] \subseteq txRows'[d]
    BY <1>2, <2>1 DEF TypeInv, TypeOK, WritesTypeOK
  <2>3. NewRow(c).ev = e BY <1>3 DEF NewRow
  <2>4. Settled(c, e)' BY <2>2, <2>3 DEF Settled
  <2>5. LetterInv' /\ OwnKept(c) BY <1>1, <1>2, <1>3, <2>1, <2>2, <2>4, ResolveKeeps
  <2>6. SeenAccounted(c, p, n)' BY <1>4, <2>4 DEF SeenAccounted
  <2> QED BY <1>1, <1>2, <1>3, <1>5, <2>1, <2>5, <2>6, OwnAccounted
<1>9. CASE ClaimIdentity(c) \/ ReadChainHead(c)
  <2>1. UNCHANGED <<txTouched, txDead, txRows, txNext>> BY <1>9 DEF ClaimIdentity, ReadChainHead
  <2>2. TopicKept BY <1>1, <1>2 DEF TopicKept, TypeInv, TypeOK, KafkaTypeOK
  <2>3. LetterInv' /\ OwnKept(c) BY <1>1, <1>2, <2>1, <2>2, LetterFrame
  <2> QED BY <1>1, <1>2, <1>3, <2>1, <2>3, OwnAccounted
<1> QED BY <1>6, <1>7, <1>8, <1>9

LEMMA ProjectOffset ==
    ASSUME IInv, TypeInv', NEW c \in Consumers,
           \/ RejectPayload(c) \/ RefuseRow(c) \/ AlreadyProjected(c)
           \/ AppendRow(c) \/ ClaimIdentity(c) \/ ReadChainHead(c)
    PROVE  LetterInv' /\ OffsetInv'
<1>1. TypeInv /\ OffsetInv /\ KafkaTypeOK' BY DEF IInv, TypeInv, TypeOK
<1>2. UNCHANGED <<kafka, tables, batch, txPart>>
  BY DEF RejectPayload, RefuseRow, AlreadyProjected, AppendRow, ClaimIdentity, ReadChainHead
<1>3. LedgerKept BY <1>2, TablesKept DEF tables
<1>4. TopicKept BY <1>1, <1>2 DEF TopicKept, TypeInv, TypeOK, KafkaTypeOK, kafka
<1>5. OffsetsCovered' /\ PairsCovered' BY <1>1, <1>2, <1>3, <1>4, QuietCover DEF kafka, tables
<1>6. LetterInv' /\ AccountedBy(c)' BY <1>1, ProjectAccounted
<1>7. ASSUME NEW d \in Consumers, d # c PROVE AccountedBy(d)'
  <2>1. txNext'[d] = txNext[d] /\ txRows'[d] = txRows[d]
    BY <1>1, <1>7 DEF RejectPayload, RefuseRow, AlreadyProjected, AppendRow, ClaimIdentity, ReadChainHead,
       NextRecord, TypeInv, TypeOK, LoopTypeOK, WritesTypeOK
  <2>2. txTouched'[d] = txTouched[d] /\ txDead'[d] = txDead[d]
    BY <1>1, <1>7 DEF RejectPayload, RefuseRow, AlreadyProjected, AppendRow, ClaimIdentity, ReadChainHead,
       DeadLetterRecord, ResolveDeadLetter, TypeInv, TypeOK, WritesTypeOK
  <2> QED BY <1>1, <1>2, <1>3, <1>4, <2>1, <2>2, OtherAccounted
<1>8. BatchAccounted' BY <1>6, <1>7 DEF BatchAccounted
<1> QED BY <1>5, <1>6, <1>8 DEF OffsetInv
----------------------------------------------------------------------------
\* Transactions that begin, retry, fail or die

LEMMA RollbackOffset ==
    ASSUME IInv, TypeInv', NEW c \in Consumers,
           \/ \E p \in Partitions : BeginBatch(c, p)
           \/ Crash(c) \/ ChainConflict(c) \/ DeadlockVictim(c) \/ DatabaseError(c)
    PROVE  LetterInv' /\ OffsetInv'
<1>1. TypeInv /\ OffsetInv /\ LetterInv /\ KafkaTypeOK' BY DEF IInv, TypeInv, TypeOK
<1>2. ForgetWrites(c) /\ UNCHANGED <<topic, groupOffset, position, tables>>
  BY DEF BeginBatch, Crash, ChainConflict, DeadlockVictim, DatabaseError, AfterChainError,
     RetryBatch, FailBatch, CloseTx, kafka
<1>3. LetterInv' BY <1>1, <1>2, LetterRollback DEF tables
<1>4. LedgerKept BY <1>2, TablesKept DEF tables
<1>5. TopicKept BY <1>1, <1>2 DEF TopicKept, TypeInv, TypeOK, KafkaTypeOK
<1>6. OffsetsCovered' BY <1>1, <1>2, <1>4, <1>5, CoverFrame DEF tables
<1>7. \A d \in Consumers : d # c =>
        /\ txPart'[d] = txPart[d] /\ txNext'[d] = txNext[d] /\ batch'[d] = batch[d]
        /\ txRows'[d] = txRows[d] /\ txTouched'[d] = txTouched[d] /\ txDead'[d] = txDead[d]
  <2>1. \A d \in Consumers : d # c =>
          txRows'[d] = txRows[d] /\ txTouched'[d] = txTouched[d] /\ txDead'[d] = txDead[d]
    BY <1>1, <1>2 DEF ForgetWrites, TypeInv, TypeOK, WritesTypeOK
  <2>2. \A d \in Consumers : d # c => txPart'[d] = txPart[d] /\ txNext'[d] = txNext[d] /\ batch'[d] = batch[d]
    BY <1>1 DEF BeginBatch, Crash, ChainConflict, DeadlockVictim, DatabaseError, AfterChainError,
       RetryBatch, FailBatch, CloseTx, TypeInv, TypeOK, LoopTypeOK
  <2> QED BY <2>1, <2>2
<1>8. \A d \in Consumers : d # c => AccountedBy(d)' BY <1>1, <1>4, <1>5, <1>7, OtherAccounted
<1>9. Projecting(c)' =>
        /\ txPart'[c] \in Partitions /\ batch'[c] = batch[c]
        /\ txNext'[c] = batch[c][txPart'[c]].from + 1
  BY <1>1 DEF BeginBatch, Crash, ChainConflict, DeadlockVictim, DatabaseError, AfterChainError,
       RetryBatch, FailBatch, CloseTx, Projecting, HasRecord, TypeInv, TypeOK, LoopTypeOK
<1>10. AccountedBy(c)'
  <2> SUFFICES ASSUME Projecting(c)' PROVE AccountedBy(c)' BY DEF AccountedBy
  <2>1. PICK p \in Partitions : p = txPart'[c] BY <1>9
  <2>2. /\ batch[c][p].from \in Nat /\ batch[c][p].to \in Nat /\ batch[c][p].from <= batch[c][p].to
        /\ batch'[c][p] = batch[c][p] /\ txNext'[c] = batch[c][p].from + 1
    BY <1>1, <1>9, <2>1 DEF TypeInv, TypeOK, LoopTypeOK, BatchBounds, Batch
  <2> QED BY <2>1, <2>2 DEF AccountedBy
<1>11. BatchAccounted' BY <1>8, <1>10 DEF BatchAccounted
<1>12. CASE Crash(c)
  <2>1. /\ batch' = [batch EXCEPT ![c] = [p \in Partitions |-> NoBatch]]
        /\ owner' = [p \in Partitions |-> IF owner[p] = c THEN NoConsumer ELSE owner[p]]
    BY <1>12 DEF Crash
  <2>2. ASSUME NEW d \in Consumers, NEW p \in Partitions PROVE BatchCovered(d, p)' /\ PositionCovered(d, p)'
    <3>1. CASE d = c
      <4>1. batch'[c][p] = NoBatch /\ owner'[p] # c
        BY <1>1, <2>1, ConstantsAssumption DEF TypeInv, TypeOK, LoopTypeOK
      <4> QED BY <3>1, <4>1 DEF BatchCovered, PositionCovered, NoBatch
    <3>2. CASE d # c
      <4>1. batch'[d] = batch[d] /\ (owner'[p] = d => owner[p] = d) BY <1>7, <2>1, <3>2, ConstantsAssumption
      <4> QED BY <1>1, <1>2, <1>4, <1>5, <4>1, PairFrame
    <3> QED BY <3>1, <3>2
  <2> QED BY <1>3, <1>6, <1>11, <2>2 DEF OffsetInv, PairsCovered
<1>13. CASE ~Crash(c)
  <2>1. UNCHANGED owner
    BY <1>13 DEF BeginBatch, ChainConflict, DeadlockVictim, DatabaseError, kafka
  <2>2. batch' = batch \/ (txPart[c] \in Partitions /\ batch[c][txPart[c]].st = "fetched"
                            /\ batch' = [batch EXCEPT ![c][txPart[c]].st = "failed"])
    <3>1. batch' = batch \/ (Projecting(c) /\ batch' = [batch EXCEPT ![c][txPart[c]].st = "failed"])
      <4>1. CASE \E p \in Partitions : BeginBatch(c, p) BY <4>1 DEF BeginBatch
      <4>2. CASE ChainConflict(c) BY <4>2 DEF ChainConflict, HasRecord, AfterChainError, RetryBatch, FailBatch
      <4>3. CASE DatabaseError(c) BY <4>3 DEF DatabaseError, AfterChainError, RetryBatch, FailBatch
      <4>4. CASE DeadlockVictim(c)
        BY <4>4 DEF DeadlockVictim, WaitsFor, HasRecord, AfterChainError, RetryBatch, FailBatch
      <4> QED BY <1>13, <4>1, <4>2, <4>3, <4>4
    <3> QED BY <1>1, <3>1 DEF Projecting, TypeInv, TypeOK, LoopTypeOK, BatchBounds
  <2>3. ASSUME NEW d \in Consumers, NEW p \in Partitions PROVE BatchCovered(d, p)' /\ PositionCovered(d, p)'
    <3>1. /\ batch'[d][p].from = batch[d][p].from /\ batch'[d][p].to = batch[d][p].to
          /\ batch'[d][p].st = batch[d][p].st \/ (batch[d][p].st # "none" /\ batch'[d][p].st = "failed")
      <4>1. CASE batch' = batch BY <4>1
      <4>2. ASSUME NEW r \in Partitions, batch[c][r].st = "fetched", batch' = [batch EXCEPT ![c][r].st = "failed"]
            PROVE  /\ batch'[d][p].from = batch[d][p].from /\ batch'[d][p].to = batch[d][p].to
                   /\ d = c /\ p = r => batch'[d][p].st = "failed"
                   /\ ~(d = c /\ p = r) => batch'[d][p] = batch[d][p]
        <5>1. batch \in [Consumers -> [Partitions -> Batch]] BY <1>1 DEF TypeInv, TypeOK, LoopTypeOK
        <5>2. batch'[c][r] = [batch[c][r] EXCEPT !.st = "failed"] BY <4>2, <5>1
        <5>3. ~(d = c /\ p = r) => batch'[d][p] = batch[d][p] BY <4>2, <5>1
        <5>4. batch'[c][r].from = batch[c][r].from /\ batch'[c][r].to = batch[c][r].to /\ batch'[c][r].st = "failed"
          BY <5>1, <5>2 DEF Batch
        <5> QED BY <5>3, <5>4
      <4> QED BY <2>2, <4>1, <4>2
    <3> QED BY <1>1, <1>2, <1>4, <1>5, <2>1, <3>1, PairFrame
  <2> QED BY <1>3, <1>6, <1>11, <2>3 DEF OffsetInv, PairsCovered
<1> QED BY <1>12, <1>13
----------------------------------------------------------------------------
\* The commit of a batch

LEMMA CommitKeeps ==
    ASSUME TypeInv, LetterInv, NEW c \in Consumers, CommitWrites(c)
    PROVE  LedgerKept /\ \A e : Settled(c, e) => e \in LedgerEvents'
<1>1. rows' = rows \cup txRows[c] /\ dlq' = DlqSeen(c) BY DEF CommitWrites
<1>2. \A e : Settled(c, e) => e \in LedgerEvents' BY <1>1 DEF Settled, LedgerEvents
<1>3. LedgerEvents \subseteq LedgerEvents' BY <1>1 DEF LedgerEvents
<1>4. ASSUME NEW x \in dlq PROVE (\E y \in dlq' : y.key = x.key /\ y.ev = x.ev) \/ x.ev \in LedgerEvents'
  <2>1. CASE x.key \notin txTouched[c]
    <3>1. x \in dlq' BY <1>1, <2>1 DEF DlqSeen
    <3> QED BY <3>1
  <2>2. CASE x.key \in txTouched[c]
    <3>1. CASE Settled(c, x.ev) BY <1>2, <3>1
    <3>2. ASSUME NEW y \in txDead[c], y.key = x.key PROVE \E z \in dlq' : z.key = x.key /\ z.ev = x.ev
      <4>1. Faithful(x) /\ Faithful(y) BY DEF LetterInv, LettersFaithful
      <4>2. y.ev = x.ev BY <3>2, <4>1 DEF Faithful
      <4>3. y \in dlq' BY <1>1 DEF DlqSeen
      <4> QED BY <3>2, <4>2, <4>3
    <3> QED BY <2>2, <3>1, <3>2 DEF LetterInv, LettersAnswered
  <2> QED BY <2>1, <2>2
<1> QED BY <1>2, <1>3, <1>4 DEF LedgerKept

LEMMA CommitLetters ==
    ASSUME TypeInv, LetterInv, NEW c \in Consumers, CommitWrites(c), ForgetWrites(c), UNCHANGED topic
    PROVE  LetterInv'
<1>1. rows' = rows \cup txRows[c] /\ dlq' = DlqSeen(c) BY DEF CommitWrites
<1>2. txTouched'[c] = {} /\ txDead'[c] = {} BY DEF ForgetWrites, TypeInv, TypeOK, WritesTypeOK
<1>3. \A d \in Consumers : d # c =>
        txTouched'[d] = txTouched[d] /\ txDead'[d] = txDead[d] /\ txRows'[d] = txRows[d]
  BY DEF ForgetWrites, TypeInv, TypeOK, WritesTypeOK
<1>4. \A x : Faithful(x) => Faithful(x)' BY DEF Faithful
<1>5. LettersFaithful' BY <1>1, <1>2, <1>3, <1>4 DEF LetterInv, LettersFaithful, DlqSeen
<1>6. LettersLocked' BY <1>2, <1>3 DEF LetterInv, LettersLocked
<1>7. LettersAnswered'
  <2> SUFFICES ASSUME NEW d \in Consumers, NEW x \in dlq', x.key \in txTouched'[d]
               PROVE  (\E y \in txDead'[d] : y.key = x.key) \/ Settled(d, x.ev)'
    BY DEF LettersAnswered
  <2>1. d # c /\ x.key \in txTouched[d] BY <1>2, <1>3
  <2>2. x.key \notin txTouched[c] BY <2>1 DEF LetterInv, LettersLocked
  <2>3. x \in dlq BY <1>1, <2>2 DEF DlqSeen, LetterInv, LettersLocked
  <2>4. (\E y \in txDead[d] : y.key = x.key) \/ Settled(d, x.ev) BY <2>1, <2>3 DEF LetterInv, LettersAnswered
  <2>5. Settled(d, x.ev) => Settled(d, x.ev)' BY <1>1, <1>3, <2>1 DEF Settled, LedgerEvents
  <2> QED BY <1>3, <2>1, <2>4, <2>5
<1> QED BY <1>5, <1>6, <1>7 DEF LetterInv

\* What the committed batch leaves behind covers it to its end.
LEMMA CommitCovers ==
    ASSUME IInv, KafkaTypeOK', NEW c \in Consumers, CommitWrites(c), UNCHANGED topic,
           NEW p \in Partitions, p = txPart[c], NEW to \in Nat, to = batch[c][p].to
    PROVE  Covered(p, to)'
<1>1. TypeInv /\ LetterInv /\ OffsetInv /\ Projecting(c) /\ txNext[c] > to
  BY DEF IInv, CommitWrites
<1>2. AccountedBy(c) /\ BatchCovered(c, p) BY <1>1 DEF OffsetInv, BatchAccounted, PairsCovered
<1>3. PICK from \in Nat : from = batch[c][p].from BY <1>1 DEF TypeInv, TypeOK, LoopTypeOK, Batch
<1>4. batch[c][p].st = "fetched" /\ to <= Len(topic[p]) /\ Len(topic[p]) \in Nat /\ txNext[c] \in Nat
  BY <1>1 DEF TypeInv, TypeOK, LoopTypeOK, KafkaTypeOK, BatchBounds
<1>5. TopicKept BY <1>1 DEF TopicKept, TypeInv, TypeOK, KafkaTypeOK
<1>6. LedgerKept /\ \A e : Settled(c, e) => e \in LedgerEvents' BY <1>1, CommitKeeps
<1>7. Covered(p, from) BY <1>2, <1>3, <1>4 DEF BatchCovered
<1>8. Covered(p, from)' BY <1>1, <1>5, <1>6, <1>7, CoveredStays
<1>9. ASSUME NEW i \in (from + 1)..to PROVE Accounted(p, i)'
  <2>1. SeenAccounted(c, p, i) BY <1>1, <1>2, <1>3, <1>4, <1>9 DEF AccountedBy
  <2>2. dlq' = DlqSeen(c) BY DEF CommitWrites
  <2> QED BY <1>6, <2>1, <2>2 DEF SeenAccounted, Accounted
<1> QED BY <1>4, <1>8, <1>9 DEF Covered

LEMMA CommitOffset ==
    ASSUME IInv, TypeInv', NEW c \in Consumers, CommitBatch(c) \/ CommitUnacknowledged(c)
    PROVE  LetterInv' /\ OffsetInv'
<1>1. /\ TypeInv /\ OffsetInv /\ LetterInv /\ KafkaTypeOK'
      /\ CommitWrites(c) /\ ForgetWrites(c) /\ UNCHANGED kafka /\ Projecting(c)
  BY DEF IInv, TypeInv, TypeOK, CommitBatch, CommitUnacknowledged, FailBatch, CloseTx, CommitWrites
<1>2. LetterInv' BY <1>1, CommitLetters DEF kafka
<1>3. LedgerKept BY <1>1, CommitKeeps
<1>4. TopicKept BY <1>1 DEF TopicKept, TypeInv, TypeOK, KafkaTypeOK, kafka
<1>5. PICK p \in Partitions : p = txPart[c] BY <1>1 DEF Projecting, TypeInv, TypeOK, LoopTypeOK
<1>6. PICK to \in Nat : to = batch[c][p].to BY <1>1, <1>5 DEF TypeInv, TypeOK, LoopTypeOK, Batch
<1>7. Covered(p, to)' BY <1>1, <1>5, <1>6, CommitCovers DEF kafka
<1>8. PICK st \in {"done", "failed"} : batch' = [batch EXCEPT ![c][p].st = st]
  BY <1>5 DEF CommitBatch, CommitUnacknowledged, FailBatch
<1>9. \A d \in Consumers, q \in Partitions :
        /\ batch'[d][q].from = batch[d][q].from /\ batch'[d][q].to = batch[d][q].to
        /\ d = c /\ q = p => batch'[d][q].st = st
        /\ ~(d = c /\ q = p) => batch'[d][q] = batch[d][q]
  <2>1. batch \in [Consumers -> [Partitions -> Batch]] BY <1>1 DEF TypeInv, TypeOK, LoopTypeOK
  <2>2. batch'[c][p] = [batch[c][p] EXCEPT !.st = st] BY <1>8, <2>1
  <2>3. \A d \in Consumers, q \in Partitions : ~(d = c /\ q = p) => batch'[d][q] = batch[d][q] BY <1>8, <2>1
  <2>4. batch'[c][p].from = batch[c][p].from /\ batch'[c][p].to = batch[c][p].to /\ batch'[c][p].st = st
    BY <2>1, <2>2 DEF Batch
  <2> QED BY <2>3, <2>4
<1>10. batch[c][p].st = "fetched" BY <1>1, <1>5 DEF TypeInv, BatchBounds
<1>11. OffsetsCovered'
  <2>1. ledgerOffset' = [ledgerOffset EXCEPT ![p] = to] /\ UNCHANGED groupOffset
    BY <1>1, <1>5, <1>6 DEF CommitWrites, kafka
  <2>2. ASSUME NEW q \in Partitions PROVE Covered(q, groupOffset[q])' /\ Covered(q, ledgerOffset[q])'
    <3>1. PICK g \in Nat, l \in Nat : g = groupOffset[q] /\ l = ledgerOffset[q]
      BY <1>1 DEF TypeInv, TypeOK, KafkaTypeOK, LedgerTypeOK
    <3>2. Covered(q, g)' /\ Covered(q, l)'
      BY <1>1, <1>3, <1>4, <3>1, CoveredStays DEF OffsetInv, OffsetsCovered
    <3>3. groupOffset'[q] = g /\ ledgerOffset'[q] = IF q = p THEN to ELSE l
      BY <1>1, <2>1, <3>1 DEF TypeInv, TypeOK, LedgerTypeOK
    <3> QED BY <1>7, <3>2, <3>3 DEF Covered
  <2> QED BY <2>2 DEF OffsetsCovered
<1>12. PairsCovered'
  <2> SUFFICES ASSUME NEW d \in Consumers, NEW q \in Partitions
               PROVE  BatchCovered(d, q)' /\ PositionCovered(d, q)'
    BY DEF PairsCovered
  <2>1. CASE ~(d = c /\ q = p /\ st = "done")
    BY <1>1, <1>3, <1>4, <1>9, <1>10, <2>1, PairFrame DEF kafka
  <2>2. CASE d = c /\ q = p /\ st = "done"
    <3>1. PICK from \in Nat, pos \in Nat : from = batch[c][p].from /\ pos = position[c][p]
      BY <1>1 DEF TypeInv, TypeOK, LoopTypeOK, KafkaTypeOK, Batch
    <3>2. BatchCovered(c, p) /\ PositionCovered(c, p) BY <1>1 DEF OffsetInv, PairsCovered
    <3>3. Covered(p, from)' BY <1>1, <1>3, <1>4, <1>10, <3>1, <3>2, CoveredStays DEF BatchCovered
    <3>4. BatchCovered(d, q)' BY <1>6, <1>7, <1>9, <2>2, <3>1, <3>3 DEF BatchCovered, Covered
    <3>5. owner[p] = c => Covered(p, pos)' \/ pos = to
      BY <1>1, <1>3, <1>4, <1>6, <3>1, <3>2, CoveredStays DEF PositionCovered
    <3>6. PositionCovered(d, q)' BY <1>1, <1>7, <2>2, <3>1, <3>5 DEF PositionCovered, Covered, kafka
    <3> QED BY <3>4, <3>6
  <2> QED BY <2>1, <2>2
<1>13. BatchAccounted'
  <2>1. AccountedBy(c)'
    <3>1. txPart'[c] = NoPartition
      BY <1>1 DEF CommitBatch, CommitUnacknowledged, FailBatch, CloseTx, TypeInv, TypeOK, LoopTypeOK
    <3> QED BY <3>1 DEF AccountedBy, Projecting
  <2>2. ASSUME NEW d \in Consumers, d # c PROVE AccountedBy(d)'
    <3>1. txRows'[d] = txRows[d] /\ txTouched'[d] = txTouched[d] /\ txDead'[d] = txDead[d]
      BY <1>1, <2>2 DEF ForgetWrites, TypeInv, TypeOK, WritesTypeOK
    <3>2. txPart'[d] = txPart[d] /\ txNext'[d] = txNext[d] /\ batch'[d] = batch[d]
      BY <1>1, <1>8, <2>2 DEF CommitBatch, CommitUnacknowledged, FailBatch, CloseTx, TypeInv, TypeOK, LoopTypeOK
    <3> QED BY <1>1, <1>3, <1>4, <3>1, <3>2, OtherAccounted
  <2> QED BY <2>1, <2>2 DEF BatchAccounted
<1> QED BY <1>2, <1>11, <1>12, <1>13 DEF OffsetInv
----------------------------------------------------------------------------
\* Producers, operators and the poll loop: no open transaction changes.

LEMMA QuietStep ==
    ASSUME IInv, TypeInv', TopicKept, UNCHANGED <<tables, txVars>>,
           \A d \in Consumers : Projecting(d) => batch'[d][txPart[d]] = batch[d][txPart[d]]
    PROVE  LedgerKept /\ LetterInv' /\ BatchAccounted'
<1>1. TypeInv /\ LetterInv /\ OffsetInv /\ KafkaTypeOK' BY DEF IInv, TypeInv, TypeOK
<1>2. LedgerKept BY TablesKept DEF tables
<1>3. LetterInv' BY <1>1, LetterFrame DEF tables, txVars
<1>4. \A d \in Consumers : AccountedBy(d)' BY <1>1, <1>2, OtherAccounted DEF txVars
<1> QED BY <1>2, <1>3, <1>4 DEF BatchAccounted

LEMMA AssignOffset ==
    ASSUME IInv, TypeInv', TopicKept, NEW c \in Consumers, NEW p \in Partitions, Assign(c, p)
    PROVE  LetterInv' /\ OffsetInv'
<1>1. /\ owner' = [owner EXCEPT ![p] = c] /\ position' = [position EXCEPT ![c][p] = groupOffset[p]]
      /\ UNCHANGED <<topic, groupOffset, tables, txVars, batch>>
      /\ TypeInv /\ OffsetInv /\ KafkaTypeOK'
  BY DEF Assign, IInv, TypeInv, TypeOK
<1>2. LedgerKept /\ LetterInv' /\ BatchAccounted' BY <1>1, QuietStep
<1>3. OffsetsCovered' BY <1>1, <1>2, CoverFrame DEF tables
<1>4. ASSUME NEW d \in Consumers, NEW q \in Partitions PROVE BatchCovered(d, q)' /\ PositionCovered(d, q)'
  <2>1. batch'[d][q] = batch[d][q] BY <1>1
  <2>2. CASE ~(d = c /\ q = p)
    <3>1. owner'[q] = d => owner[q] = d /\ position'[d][q] = position[d][q]
      BY <1>1, <2>2 DEF TypeInv, TypeOK, KafkaTypeOK
    <3> QED BY <1>1, <1>2, <2>1, <3>1, PairFrame
  <2>3. CASE d = c /\ q = p
    <3>1. position'[d][q] = groupOffset'[q] BY <1>1, <2>3 DEF TypeInv, TypeOK, KafkaTypeOK
    <3>2. Covered(q, groupOffset[q])' BY <1>3 DEF OffsetsCovered
    <3>3. PositionCovered(d, q)' BY <3>1, <3>2 DEF PositionCovered, Covered
    <3> QED BY <1>1, <1>2, <2>1, <3>3, PairFrame
  <2> QED BY <2>2, <2>3
<1> QED BY <1>2, <1>3, <1>4 DEF OffsetInv, PairsCovered

LEMMA PollOffset ==
    ASSUME IInv, TypeInv', TopicKept, NEW c \in Consumers, Poll(c)
    PROVE  LetterInv' /\ OffsetInv'
<1>1. /\ UNCHANGED <<topic, groupOffset, owner, tables, txVars>> /\ ~InPoll(c)
      /\ TypeInv /\ OffsetInv /\ KafkaTypeOK'
  BY DEF Poll, IInv, TypeInv, TypeOK
<1>2. \A p \in Partitions : batch[c][p].st = "none" BY <1>1 DEF InPoll
<1>3. ~Projecting(c) BY <1>1, <1>2 DEF Projecting, TypeInv, TypeOK, LoopTypeOK, BatchBounds
<1>4. PICK n \in [Partitions -> 0..BatchSize] :
        /\ \A p \in Partitions : n[p] > 0 =>
              owner[p] = c /\ position[c][p] + n[p] <= Len(topic[p])
        /\ batch' = [batch EXCEPT ![c] = [p \in Partitions |->
              IF n[p] = 0 THEN NoBatch
              ELSE [from |-> position[c][p], to |-> position[c][p] + n[p], st |-> "fetched"]]]
        /\ position' = [position EXCEPT ![c] = [p \in Partitions |-> @[p] + n[p]]]
  BY DEF Poll
<1>5. \A d \in Consumers : d # c => batch'[d] = batch[d] /\ position'[d] = position[d]
  BY <1>1, <1>4 DEF TypeInv, TypeOK, LoopTypeOK, KafkaTypeOK
<1>6. LedgerKept /\ LetterInv' /\ BatchAccounted' BY <1>1, <1>3, <1>5, QuietStep
<1>7. OffsetsCovered' BY <1>1, <1>6, CoverFrame DEF tables
<1>8. ASSUME NEW d \in Consumers, NEW q \in Partitions PROVE BatchCovered(d, q)' /\ PositionCovered(d, q)'
  <2>1. CASE d # c BY <1>1, <1>5, <1>6, <2>1, PairFrame
  <2>2. CASE d = c
    <3>1. PICK pos \in Nat : pos = position[c][q] BY <1>1 DEF TypeInv, TypeOK, KafkaTypeOK
    <3>2. n[q] \in Nat BY ConstantsAssumption
    <3>3. position'[c][q] = pos + n[q] BY <1>1, <1>4, <3>1 DEF TypeInv, TypeOK, KafkaTypeOK
    <3>4. batch'[c][q] = IF n[q] = 0 THEN NoBatch ELSE [from |-> pos, to |-> pos + n[q], st |-> "fetched"]
      BY <1>1, <1>4, <3>1 DEF TypeInv, TypeOK, LoopTypeOK
    <3>5. owner[q] = c => Covered(q, pos)'
      <4>1. PositionCovered(c, q) BY <1>1 DEF OffsetInv, PairsCovered
      <4>2. owner[q] = c => Covered(q, pos) BY <1>2, <3>1, <4>1 DEF PositionCovered
      <4> QED BY <1>1, <1>6, <4>2, CoveredStays
    <3>6. CASE n[q] = 0
      <4>1. batch'[c][q].st = "none" /\ position'[c][q] = pos BY <3>1, <3>3, <3>4, <3>6 DEF NoBatch
      <4> QED BY <1>1, <2>2, <3>5, <4>1 DEF BatchCovered, PositionCovered, Covered
    <3>7. CASE n[q] # 0
      <4>1. owner[q] = c BY <1>4, <3>2, <3>7
      <4>2. batch'[c][q].st = "fetched" /\ batch'[c][q].from = pos /\ batch'[c][q].to = position'[c][q]
        BY <3>3, <3>4, <3>7
      <4> QED BY <2>2, <3>5, <4>1, <4>2 DEF BatchCovered, PositionCovered, Covered
    <3> QED BY <3>6, <3>7
  <2> QED BY <2>1, <2>2
<1> QED BY <1>6, <1>7, <1>8 DEF OffsetInv, PairsCovered

LEMMA FinishOffset ==
    ASSUME IInv, TypeInv', TopicKept, NEW c \in Consumers, FinishPoll(c)
    PROVE  LetterInv' /\ OffsetInv'
<1>1. /\ UNCHANGED <<topic, owner, tables, txVars>>
      /\ \A p \in Partitions : batch[c][p].st \in {"none", "done", "failed"}
      /\ position' = [position EXCEPT ![c] = [p \in Partitions |-> FetchPosition(c, p)]]
      /\ batch' = [batch EXCEPT ![c] = [p \in Partitions |-> NoBatch]]
      /\ TypeInv /\ OffsetInv /\ KafkaTypeOK'
  BY DEF FinishPoll, IInv, TypeInv, TypeOK
<1>2. ~Projecting(c)
  <2> SUFFICES ASSUME Projecting(c) PROVE FALSE OBVIOUS
  <2>1. txPart[c] \in Partitions BY <1>1 DEF Projecting, TypeInv, TypeOK, LoopTypeOK
  <2>2. batch[c][txPart[c]].st = "fetched" BY <1>1 DEF TypeInv, BatchBounds
  <2>3. batch[c][txPart[c]].st \in {"none", "done", "failed"} BY <1>1, <2>1
  <2> QED BY <2>2, <2>3
<1>3. \A d \in Consumers : d # c => batch'[d] = batch[d] /\ position'[d] = position[d]
  BY <1>1 DEF TypeInv, TypeOK, LoopTypeOK, KafkaTypeOK
<1>4. LedgerKept /\ LetterInv' /\ BatchAccounted' BY <1>1, <1>2, <1>3, QuietStep
<1>5. ASSUME NEW q \in Partitions
      PROVE  /\ Covered(q, groupOffset[q])' /\ Covered(q, ledgerOffset[q])'
             /\ PositionCovered(c, q)'
  <2>1. PICK g \in Nat, l \in Nat, to \in Nat, from \in Nat, pos \in Nat :
          /\ g = groupOffset[q] /\ l = ledgerOffset[q] /\ pos = position[c][q]
          /\ to = batch[c][q].to /\ from = batch[c][q].from
    <3>1. batch[c][q].to \in Nat /\ batch[c][q].from \in Nat BY <1>1 DEF TypeInv, TypeOK, LoopTypeOK, Batch
    <3>2. groupOffset[q] \in Nat /\ ledgerOffset[q] \in Nat /\ position[c][q] \in Nat
      BY <1>1 DEF TypeInv, TypeOK, KafkaTypeOK, LedgerTypeOK
    <3> QED BY <3>1, <3>2
  <2>2. \A k \in Nat : Covered(q, k) => Covered(q, k)' BY <1>1, <1>4, CoveredStays
  <2>3. Covered(q, g)' /\ Covered(q, l)' BY <1>1, <2>1, <2>2 DEF OffsetInv, OffsetsCovered
  <2>4. BatchCovered(c, q) /\ PositionCovered(c, q) BY <1>1 DEF OffsetInv, PairsCovered
  <2>5. batch[c][q].st = "done" => Covered(q, to)' BY <2>1, <2>2, <2>4 DEF BatchCovered
  <2>6. batch[c][q].st = "failed" => Covered(q, from)' BY <2>1, <2>2, <2>4 DEF BatchCovered
  <2>7. owner[q] = c => Covered(q, pos)' \/ (batch[c][q].st # "none" /\ pos = to)
    BY <2>1, <2>2, <2>4 DEF PositionCovered
  <2>8. groupOffset'[q] = g \/ (batch[c][q].st = "done" /\ groupOffset'[q] = to)
    BY <2>1 DEF FinishPoll
  <2>9. ledgerOffset'[q] = l BY <1>1, <2>1 DEF tables
  <2>10. Covered(q, groupOffset[q])' /\ Covered(q, ledgerOffset[q])'
    BY <2>3, <2>5, <2>8, <2>9 DEF Covered
  <2>11. position'[c][q] = IF batch[c][q].st = "failed" /\ owner[q] = c THEN from ELSE pos
    BY <1>1, <2>1 DEF FetchPosition, TypeInv, TypeOK, KafkaTypeOK
  <2>12. owner[q] = c =>
           (position'[c][q] = from /\ Covered(q, from)') \/ (position'[c][q] = pos /\ Covered(q, pos)')
    BY <1>1, <2>5, <2>6, <2>7, <2>11
  <2>13. PositionCovered(c, q)' BY <1>1, <2>12 DEF PositionCovered, Covered
  <2> QED BY <2>10, <2>13
<1>6. ASSUME NEW d \in Consumers, NEW q \in Partitions PROVE BatchCovered(d, q)' /\ PositionCovered(d, q)'
  <2>1. CASE d # c BY <1>1, <1>3, <1>4, <2>1, PairFrame
  <2>2. CASE d = c
    <3>1. batch'[c][q] = NoBatch BY <1>1 DEF TypeInv, TypeOK, LoopTypeOK
    <3> QED BY <1>5, <2>2, <3>1 DEF BatchCovered, NoBatch
  <2> QED BY <2>1, <2>2
<1> QED BY <1>4, <1>5, <1>6 DEF OffsetInv, OffsetsCovered, PairsCovered

\* Producers, the operator's replay and the partition manager
LEMMA OutsideOffset ==
    ASSUME IInv, TypeInv', TopicKept, UNCHANGED <<groupOffset, owner, position, tables, batch, txVars>>
    PROVE  LetterInv' /\ OffsetInv'
<1>1. TypeInv /\ OffsetInv /\ KafkaTypeOK' BY DEF IInv, TypeInv, TypeOK
<1>2. LedgerKept /\ LetterInv' /\ BatchAccounted' BY QuietStep
<1>3. OffsetsCovered' /\ PairsCovered' BY <1>1, <1>2, QuietCover DEF tables
<1> QED BY <1>2, <1>3 DEF OffsetInv

LEMMA OffsetNext == ASSUME IInv, TypeInv', [Next]_vars PROVE LetterInv' /\ OffsetInv'
<1>1. TopicKept BY TopicSteps DEF IInv
<1>2. ASSUME NEW c \in Consumers,
             \/ \E p \in Partitions : BeginBatch(c, p)
             \/ Crash(c) \/ ChainConflict(c) \/ DeadlockVictim(c) \/ DatabaseError(c)
      PROVE  LetterInv' /\ OffsetInv'
  BY <1>2, RollbackOffset
<1>3. ASSUME NEW c \in Consumers,
             \/ RejectPayload(c) \/ RefuseRow(c) \/ AlreadyProjected(c)
             \/ AppendRow(c) \/ ClaimIdentity(c) \/ ReadChainHead(c)
      PROVE  LetterInv' /\ OffsetInv'
  BY <1>3, ProjectOffset
<1>4. ASSUME NEW c \in Consumers, CommitBatch(c) \/ CommitUnacknowledged(c) PROVE LetterInv' /\ OffsetInv'
  BY <1>4, CommitOffset
<1>5. ASSUME NEW c \in Consumers, Poll(c) \/ FinishPoll(c) \/ \E p \in Partitions : Assign(c, p)
      PROVE  LetterInv' /\ OffsetInv'
  BY <1>1, <1>5, PollOffset, FinishOffset, AssignOffset
<1>6. CASE \/ UNCHANGED vars \/ ListDeadLetters
           \/ \E e \in Events : Produce(e) \/ CoverWeek(e)
           \/ \E d \in letters : Replay(d) \/ ReplayStopped(d)
  <2>1. UNCHANGED <<groupOffset, owner, position, tables, batch, txVars>>
    BY <1>6 DEF vars, kafka, ListDeadLetters, Produce, CoverWeek, Replay, ReplayStopped
  <2> QED BY <1>1, <2>1, OutsideOffset
<1> QED BY <1>2, <1>3, <1>4, <1>5, <1>6 DEF Next, ProjectRecord
----------------------------------------------------------------------------
\* The API token's last use

LEMMA LatestBounds ==
    ASSUME NEW a \in Nat, NEW b \in Nat
    PROVE  Latest(a, b) \in {a, b} /\ a <= Latest(a, b) /\ b <= Latest(a, b) /\ Latest(a, b) \in Nat
  BY DEF Latest

LEMMA TokenFrame ==
    ASSUME TypeInv, TokenInv, UNCHANGED <<rows, lastUsed>>,
           \A d \in Consumers : \/ txRows'[d] = txRows[d] /\ txUsed'[d] = txUsed[d]
                                \/ txRows'[d] = {} /\ txUsed'[d] = 0
    PROVE  TokenInv'
<1>1. LastUsedIsNewest' BY DEF TokenInv, LastUsedIsNewest
<1>2. UsesPrepared' BY DEF TokenInv, UsesPrepared
<1> QED BY <1>1, <1>2 DEF TokenInv

LEMMA TokenAppend == ASSUME TypeInv, TokenInv, NEW c \in Consumers, AppendRow(c) PROVE TokenInv'
<1>1. PICK e \in Events : e = Ev(c) /\ NewRow(c).ev = e BY RecordTyped DEF AppendRow, NewRow
<1>2. PICK row, t : row = NewRow(c) /\ t = UseTime[e] OBVIOUS
<1>3. t \in Nat /\ txUsed[c] \in Nat BY <1>2, ConstantsAssumption DEF TypeInv, TypeOK, WritesTypeOK
<1>4. txRows'[c] = txRows[c] \cup {row} /\ txUsed'[c] = Latest(txUsed[c], t)
  BY <1>1, <1>2 DEF AppendRow, TypeInv, TypeOK, WritesTypeOK
<1>5. \A d \in Consumers : d # c => txRows'[d] = txRows[d] /\ txUsed'[d] = txUsed[d]
  BY DEF AppendRow, TypeInv, TypeOK, WritesTypeOK
<1>6. UNCHANGED <<rows, lastUsed>> BY DEF AppendRow, tables
<1>7. LastUsedIsNewest' BY <1>6 DEF TokenInv, LastUsedIsNewest
<1>8. \A r \in txRows[c] : UseTime[r.ev] \in Nat BY ConstantsAssumption DEF TypeInv, TypeOK, WritesTypeOK, Row
<1>9. UseTime[row.ev] = t BY <1>1, <1>2
<1>10. PICK u : u = Latest(txUsed[c], t) OBVIOUS
<1>11. u \in {txUsed[c], t} /\ txUsed[c] <= u /\ t <= u /\ u \in Nat BY <1>3, <1>10, LatestBounds
<1>12. \A r \in txRows'[c] : UseTime[r.ev] <= txUsed'[c]
  BY <1>3, <1>4, <1>8, <1>9, <1>10, <1>11 DEF TokenInv, UsesPrepared
<1>13. txUsed'[c] # 0 => \E r \in txRows'[c] : UseTime[r.ev] = txUsed'[c]
  BY <1>4, <1>9, <1>10, <1>11 DEF TokenInv, UsesPrepared
<1>14. UsesPrepared' BY <1>5, <1>12, <1>13 DEF TokenInv, UsesPrepared
<1> QED BY <1>7, <1>14 DEF TokenInv

LEMMA TokenCommit ==
    ASSUME TypeInv, TokenInv, NEW c \in Consumers, CommitWrites(c), ForgetWrites(c)
    PROVE  TokenInv'
<1>1. rows' = rows \cup txRows[c] /\ lastUsed' = Latest(lastUsed, txUsed[c]) BY DEF CommitWrites
<1>2. lastUsed \in Nat /\ txUsed[c] \in Nat BY DEF TypeInv, TypeOK, LedgerTypeOK, WritesTypeOK
<1>3. lastUsed' \in {lastUsed, txUsed[c]} /\ lastUsed <= lastUsed' /\ txUsed[c] <= lastUsed' /\ lastUsed' \in Nat
  BY <1>1, <1>2, LatestBounds
<1>4. \A r \in rows \cup txRows[c] : UseTime[r.ev] \in Nat
  BY ConstantsAssumption DEF TypeInv, TypeOK, LedgerTypeOK, WritesTypeOK, Row
<1>5. \A r \in rows' : UseTime[r.ev] <= lastUsed'
  BY <1>1, <1>2, <1>3, <1>4 DEF TokenInv, LastUsedIsNewest, UsesPrepared
<1>6. lastUsed' # 0 => \E r \in rows' : UseTime[r.ev] = lastUsed'
  BY <1>1, <1>3 DEF TokenInv, LastUsedIsNewest, UsesPrepared
<1>7. \A d \in Consumers : \/ d # c /\ txRows'[d] = txRows[d] /\ txUsed'[d] = txUsed[d]
                           \/ txRows'[d] = {} /\ txUsed'[d] = 0
  BY DEF ForgetWrites, TypeInv, TypeOK, WritesTypeOK
<1>8. UsesPrepared' BY <1>7 DEF TokenInv, UsesPrepared
<1> QED BY <1>5, <1>6, <1>8 DEF TokenInv, LastUsedIsNewest

LEMMA TokenNext == ASSUME TypeInv, TokenInv, [Next]_vars PROVE TokenInv'
<1>1. ASSUME NEW c \in Consumers, CommitBatch(c) \/ CommitUnacknowledged(c) PROVE TokenInv'
  BY <1>1, TokenCommit DEF CommitBatch, CommitUnacknowledged, FailBatch, CloseTx
<1>2. ASSUME NEW c \in Consumers, AppendRow(c) PROVE TokenInv' BY <1>2, TokenAppend
<1>3. ASSUME NEW c \in Consumers,
             \/ \E p \in Partitions : BeginBatch(c, p)
             \/ Crash(c) \/ ChainConflict(c) \/ DeadlockVictim(c) \/ DatabaseError(c)
      PROVE  TokenInv'
  <2>1. ForgetWrites(c) /\ UNCHANGED <<rows, lastUsed>>
    BY <1>3 DEF BeginBatch, Crash, ChainConflict, DeadlockVictim, DatabaseError, AfterChainError,
       RetryBatch, FailBatch, CloseTx, tables
  <2>2. \A d \in Consumers : \/ txRows'[d] = txRows[d] /\ txUsed'[d] = txUsed[d]
                             \/ txRows'[d] = {} /\ txUsed'[d] = 0
    BY <2>1 DEF ForgetWrites, TypeInv, TypeOK, WritesTypeOK
  <2> QED BY <2>1, <2>2, TokenFrame
<1>4. ASSUME UNCHANGED <<rows, lastUsed, txRows, txUsed>> PROVE TokenInv' BY <1>4, TokenFrame
<1>5. ASSUME NEW c \in Consumers,
             \/ RejectPayload(c) \/ RefuseRow(c) \/ AlreadyProjected(c) \/ ClaimIdentity(c) \/ ReadChainHead(c)
             \/ Poll(c) \/ FinishPoll(c) \/ \E p \in Partitions : Assign(c, p)
      PROVE  TokenInv'
  BY <1>4, <1>5 DEF RejectPayload, RefuseRow, AlreadyProjected, ClaimIdentity, ReadChainHead, Poll, FinishPoll,
     Assign, tables, txVars
<1>6. CASE \/ UNCHANGED vars \/ ListDeadLetters
           \/ \E e \in Events : Produce(e) \/ CoverWeek(e)
           \/ \E d \in letters : Replay(d) \/ ReplayStopped(d)
  BY <1>4, <1>6 DEF vars, ListDeadLetters, Produce, CoverWeek, Replay, ReplayStopped, tables, txVars
<1> QED BY <1>1, <1>2, <1>3, <1>5, <1>6 DEF Next, ProjectRecord
----------------------------------------------------------------------------
\* The invariant and what it gives

LEMMA InitIInv == ASSUME Init PROVE IInv
<1>1. TypeInv /\ ClaimInv BY InitTypeInv, InitClaim
<1>2. LetterInv BY DEF Init, LetterInv, LettersFaithful, LettersLocked, LettersAnswered
<1>3. BatchAccounted BY DEF Init, BatchAccounted, AccountedBy, Projecting
<1>4. \A p \in Partitions : Covered(p, 0) BY DEF Init, Covered
<1>5. OffsetsCovered BY <1>4 DEF Init, OffsetsCovered
<1>6. PairsCovered BY ConstantsAssumption DEF Init, PairsCovered, BatchCovered, PositionCovered, NoBatch
<1>7. TokenInv BY DEF Init, TokenInv, LastUsedIsNewest, UsesPrepared
<1> QED BY <1>1, <1>2, <1>3, <1>5, <1>6, <1>7 DEF IInv, OffsetInv

LEMMA NextIInv == ASSUME IInv, [Next]_vars PROVE IInv'
<1>1. TypeInv' BY NextType DEF IInv
<1>2. ClaimInv' BY ClaimNext DEF IInv
<1>3. LetterInv' /\ OffsetInv' BY <1>1, OffsetNext
<1>4. TokenInv' BY TokenNext DEF IInv
<1> QED BY <1>1, <1>2, <1>3, <1>4 DEF IInv

LEMMA LedgerInvariant == Spec => []IInv
<1>1. Init => IInv BY InitIInv
<1>2. IInv /\ [Next]_vars => IInv' BY NextIInv
<1> QED BY <1>1, <1>2, PTL DEF Spec

\* Whatever rebalances, crashes, lost acknowledgements and replays happen
\* around projectFetches and projectBatch, every record before the group's
\* committed offset, or before the offset audit.consumer_offsets holds, is in
\* the ledger or kept as a dead letter.
THEOREM NothingLostBehindOffsets == Spec => []OffsetsNeverLeadLedger
<1>1. IInv => OffsetsNeverLeadLedger
  <2> SUFFICES ASSUME IInv, NEW p \in Partitions, NEW i \in 1..MaxRecords,
                      i <= groupOffset[p] \/ i <= ledgerOffset[p]
               PROVE  i <= Len(topic[p]) /\ Accounted(p, i)
    BY DEF OffsetsNeverLeadLedger
  <2>1. groupOffset[p] \in Nat /\ ledgerOffset[p] \in Nat /\ Len(topic[p]) \in Nat /\ i \in Nat /\ i > 0
    BY ConstantsAssumption DEF IInv, TypeInv, TypeOK, KafkaTypeOK, LedgerTypeOK
  <2>2. Covered(p, groupOffset[p]) /\ Covered(p, ledgerOffset[p]) BY DEF IInv, OffsetInv, OffsetsCovered
  <2> QED BY <2>1, <2>2 DEF Covered
<1> QED BY <1>1, LedgerInvariant, PTL

\* recordTokenUses never moves last_used back and never reports a use the
\* ledger does not hold, in whatever order batches commit.
THEOREM TokenUseIsNewest == Spec => []LastUsedIsNewest
<1>1. IInv => LastUsedIsNewest BY DEF IInv, TokenInv
<1> QED BY <1>1, LedgerInvariant, PTL
----------------------------------------------------------------------------
\* The ledger never takes back a row, and a dead letter only for its row

\* The only steps that write the ledger's tables are commits.
LEMMA LedgerSteps == ASSUME IInv, [Next]_vars PROVE rows \subseteq rows' /\ LedgerKept
<1>1. ASSUME NEW c \in Consumers, CommitBatch(c) \/ CommitUnacknowledged(c) PROVE rows \subseteq rows' /\ LedgerKept
  <2>1. CommitWrites(c) BY <1>1 DEF CommitBatch, CommitUnacknowledged
  <2>2. LedgerKept BY <2>1, CommitKeeps DEF IInv
  <2> QED BY <2>1, <2>2 DEF CommitWrites
<1>2. CASE UNCHANGED <<rows, dlq>> BY <1>2, TablesKept
<1>3. UNCHANGED <<rows, dlq>> \/ \E c \in Consumers : CommitBatch(c) \/ CommitUnacknowledged(c)
  BY DEF Next, vars, tables, Produce, CoverWeek, ListDeadLetters, Replay, ReplayStopped, Assign, BeginBatch, Poll,
     FinishPoll, ProjectRecord, RejectPayload, ClaimIdentity, AlreadyProjected, ReadChainHead, RefuseRow,
     AppendRow, ChainConflict, DeadlockVictim, DatabaseError, Crash
<1> QED BY <1>1, <1>2, <1>3

\* Neither resolveDeadLetter nor a replay that fails again, nor a commit of
\* either by another consumer, removes a dead letter whose event is not in
\* the ledger.
THEOREM DeadLettersOnlyResolved == Spec => DeadLettersKept
<1>1. ASSUME IInv, [Next]_vars
      PROVE  \A d \in dlq : (\A x \in dlq' : x.key # d.key) => d.ev \in LedgerEvents'
  BY <1>1, LedgerSteps DEF LedgerKept
<1>2. IInv /\ [Next]_vars =>
        [\A d \in dlq : (\A x \in dlq' : x.key # d.key) => d.ev \in LedgerEvents']_vars
  BY <1>1
<1> QED BY <1>2, LedgerInvariant, PTL DEF Spec, DeadLettersKept
----------------------------------------------------------------------------
\* The ledger as a trail

ChainRows(ch) == {r \in rows : r.chain = ch}
RowAt(ch, i) == CHOOSE r \in ChainRows(ch) : r.seq = i

\* A chain has one row for each number up to its head's ...
LEMMA RowsByNumber ==
    ASSUME LedgerTypeOK, ChainIntegrity, NEW ch \in Chains
    PROVE  /\ heads[ch].seq \in Nat
           /\ \A i \in 1..heads[ch].seq : RowAt(ch, i) \in ChainRows(ch) /\ RowAt(ch, i).seq = i
           /\ \A r \in ChainRows(ch) : r.seq \in 1..heads[ch].seq /\ r = RowAt(ch, r.seq)
<1>1. heads[ch].seq \in Nat BY DEF LedgerTypeOK, ChainHead
<1>2. Chained(rows, ch, heads[ch]) BY DEF ChainIntegrity
<1>3. ASSUME NEW i \in 1..heads[ch].seq PROVE RowAt(ch, i) \in ChainRows(ch) /\ RowAt(ch, i).seq = i
  <2>1. \E r \in ChainRows(ch) : r.seq = i BY <1>2 DEF Chained, ChainRows
  <2> QED BY <2>1 DEF RowAt
<1>4. ASSUME NEW r \in ChainRows(ch) PROVE r.seq \in 1..heads[ch].seq /\ r = RowAt(ch, r.seq)
  <2>1. r \in rows /\ r.chain = ch BY DEF ChainRows
  <2>2. r.seq \in 1..heads[ch].seq BY <1>2, <2>1 DEF Chained
  <2>3. RowAt(ch, r.seq) \in rows /\ RowAt(ch, r.seq).chain = ch /\ RowAt(ch, r.seq).seq = r.seq
    BY <1>3, <2>2 DEF ChainRows
  <2> QED BY <1>2, <2>1, <2>2, <2>3 DEF Chained
<1> QED BY <1>1, <1>3, <1>4

\* ... so the head's number counts them.
LEMMA RowsCounted ==
    ASSUME LedgerTypeOK, ChainIntegrity, NEW ch \in Chains
    PROVE  Cardinality(ChainRows(ch)) = heads[ch].seq
<1> DEFINE n == heads[ch].seq
           f == [i \in 1..n |-> RowAt(ch, i)]
<1>1. n \in Nat BY RowsByNumber
<1>2. f \in [1..n -> ChainRows(ch)] BY RowsByNumber
<1>3. \A i, j \in 1..n : f[i] = f[j] => i = j
  <2>1. \A i \in 1..n : f[i].seq = i BY RowsByNumber
  <2> QED BY <2>1
<1>4. \A r \in ChainRows(ch) : \E i \in 1..n : f[i] = r BY RowsByNumber
<1> HIDE DEF f, n
<1>5. f \in Bijection(1..n, ChainRows(ch)) BY <1>2, <1>3, <1>4 DEF Bijection, Injection, Surjection, IsInjective
<1>6. ExistsBijection(1..n, ChainRows(ch)) BY <1>5 DEF ExistsBijection
<1> QED BY <1>1, <1>6, FS_CountingElements DEF n

\* The trail of a chain is the events of its rows, by number.
TrailShape ==
    /\ DOMAIN LedgerTrail = Chains
    /\ \A ch \in Chains :
        /\ LedgerTrail[ch] \in Seq(Events)
        /\ Len(LedgerTrail[ch]) = heads[ch].seq
        /\ \A i \in 1..heads[ch].seq :
              \E r \in rows : r.chain = ch /\ r.seq = i /\ r.ev = LedgerTrail[ch][i]

LEMMA ShapeHolds == ASSUME LedgerTypeOK, ChainIntegrity PROVE TrailShape
<1>1. DOMAIN LedgerTrail = Chains BY DEF LedgerTrail
<1>2. ASSUME NEW ch \in Chains
      PROVE  /\ LedgerTrail[ch] \in Seq(Events)
             /\ Len(LedgerTrail[ch]) = heads[ch].seq
             /\ \A i \in 1..heads[ch].seq :
                   \E r \in rows : r.chain = ch /\ r.seq = i /\ r.ev = LedgerTrail[ch][i]
  <2>1. PICK n \in Nat : n = heads[ch].seq BY RowsByNumber
  <2>2. LedgerTrail[ch] = [i \in 1..Cardinality(ChainRows(ch)) |-> RowAt(ch, i).ev]
    BY DEF LedgerTrail, ChainRows, RowAt
  <2>3. LedgerTrail[ch] = [i \in 1..n |-> RowAt(ch, i).ev] BY <2>1, <2>2, RowsCounted
  <2>4. \A i \in 1..n : /\ RowAt(ch, i) \in rows /\ RowAt(ch, i).chain = ch /\ RowAt(ch, i).seq = i
    BY <2>1, RowsByNumber DEF ChainRows
  <2>5. \A i \in 1..n : RowAt(ch, i).ev \in Events BY <2>4 DEF LedgerTypeOK, Row
  <2>6. LedgerTrail[ch] \in Seq(Events) /\ Len(LedgerTrail[ch]) = n
    <3>1. PICK s : s = LedgerTrail[ch] OBVIOUS
    <3>2. s \in [1..n -> Events] /\ DOMAIN s = 1..n BY <2>3, <2>5, <3>1
    <3> QED BY <3>1, <3>2
  <2> QED BY <2>1, <2>3, <2>4, <2>6
<1> QED BY <1>1, <1>2 DEF TrailShape

LEMMA InitTrail == ASSUME Init PROVE Trail!Init
<1>1. LedgerTypeOK BY InitTypeInv DEF TypeInv, TypeOK
<1>2. ChainIntegrity BY InitChain DEF ChainInv
<1>3. TrailShape BY <1>1, <1>2, ShapeHolds
<1>4. \A ch \in Chains : LedgerTrail[ch] = << >> BY <1>3 DEF TrailShape, Init, Genesis
<1>5. LedgerTrail = [ch \in Chains |-> LedgerTrail[ch]] BY DEF LedgerTrail
<1> QED BY <1>4, <1>5 DEF Trail!Init

LEMMA StepExtends ==
    ASSUME TrailShape, TrailShape', ChainIntegrity', LedgerTypeOK, LedgerTypeOK', OneRowPerEvent', rows \subseteq rows'
    PROVE  Trail!Extend
<1>1. ASSUME NEW ch \in Chains PROVE Trail!Grows(ch)
  <2>1. PICK s \in Seq(Events), t \in Seq(Events) : s = LedgerTrail[ch] /\ t = LedgerTrail'[ch]
    BY DEF TrailShape
  <2>2. PICK n \in Nat, m \in Nat : n = heads[ch].seq /\ m = heads'[ch].seq
    BY DEF LedgerTypeOK, ChainHead
  <2>3. Len(s) = n /\ Len(t) = m BY <2>1, <2>2 DEF TrailShape
  <2>4. \A i \in 1..n : \E r \in rows : r.chain = ch /\ r.seq = i /\ r.ev = s[i] BY <2>1, <2>2 DEF TrailShape
  <2>5. \A i \in 1..m : \E r \in rows' : r.chain = ch /\ r.seq = i /\ r.ev = t[i] BY <2>1, <2>2 DEF TrailShape
  <2>6. \A r, q \in rows' : r.chain = ch /\ q.chain = ch => r.seq \in 1..m /\ (r.seq = q.seq => r = q)
    BY <2>2 DEF ChainIntegrity, Chained
  <2>7. n <= m
    <3>1. CASE n = 0 BY <3>1
    <3>2. CASE n # 0
      <4>1. n \in 1..n BY <3>2
      <4>2. n \in 1..m BY <2>4, <2>6, <4>1
      <4> QED BY <4>2
    <3> QED BY <3>1, <3>2
  <2>8. \A i \in 1..n : s[i] = t[i]
    <3> SUFFICES ASSUME NEW i \in 1..n PROVE s[i] = t[i] OBVIOUS
    <3>1. PICK r \in rows : r.chain = ch /\ r.seq = i /\ r.ev = s[i] BY <2>4
    <3>2. i \in 1..m BY <2>7
    <3>3. PICK q \in rows' : q.chain = ch /\ q.seq = i /\ q.ev = t[i] BY <2>5, <3>2
    <3> QED BY <2>6, <3>1, <3>3
  <2>9. SubSeq(t, 1, n) = s
    <3>1. \A i \in 1..n : t[i] \in Events BY <2>3, <2>7
    <3>2. PICK u : u = SubSeq(t, 1, n) OBVIOUS
    <3>3. u \in Seq(Events) /\ Len(u) = n /\ \A i \in 1..n : u[i] = t[i]
      BY <2>3, <2>7, <3>2
    <3> QED BY <2>3, <2>8, <3>2, <3>3
  <2> QED BY <2>1, <2>3, <2>7, <2>9 DEF Trail!Grows
<1>2. Trail!NoEventTwice'
  <2> SUFFICES ASSUME NEW a \in Chains, NEW b \in Chains,
                      NEW i \in 1..Len(LedgerTrail'[a]), NEW j \in 1..Len(LedgerTrail'[b]),
                      LedgerTrail'[a][i] = LedgerTrail'[b][j]
               PROVE  a = b /\ i = j
    BY DEF Trail!NoEventTwice
  <2>1. i \in 1..heads'[a].seq /\ j \in 1..heads'[b].seq BY DEF TrailShape
  <2>2. PICK r \in rows' : r.chain = a /\ r.seq = i /\ r.ev = LedgerTrail'[a][i] BY <2>1 DEF TrailShape
  <2>3. PICK q \in rows' : q.chain = b /\ q.seq = j /\ q.ev = LedgerTrail'[b][j] BY <2>1 DEF TrailShape
  <2>4. r = q BY <2>2, <2>3 DEF OneRowPerEvent
  <2> QED BY <2>2, <2>3, <2>4
<1>3. DOMAIN LedgerTrail' = Chains BY DEF TrailShape
<1> QED BY <1>1, <1>2, <1>3 DEF Trail!Extend

\* The consumers implement the append-only trail of AuditTrail: projectBatch's
\* commits, in any interleaving, only ever append new events at the end of
\* each (org, shard) chain, and no event has two places in the ledger.
THEOREM LedgerImplementsTrail == Spec => ImplementsTrail
<1> DEFINE Inv == IInv /\ ChainIntegrity /\ TrailShape
<1>1. IInv /\ ChainIntegrity => TrailShape BY ShapeHolds DEF IInv, TypeInv, TypeOK
<1>2. Spec => []Inv BY <1>1, LedgerInvariant, ChainsNeverFork, PTL
<1>3. Init => Trail!Init BY InitTrail
<1>4. Inv /\ Inv' /\ [Next]_vars => [Trail!Extend]_LedgerTrail
  BY StepExtends, LedgerSteps DEF IInv, TypeInv, TypeOK, ClaimInv
<1> QED BY <1>2, <1>3, <1>4, PTL DEF Spec, ImplementsTrail, Trail!Spec
============================================================================
