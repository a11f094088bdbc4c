------------------------- MODULE OutboxRelayProofs -------------------------
(***************************************************************************)
(* The relay loses nothing, delivers in commit order and closes a receipt  *)
(* only with its delivered entry, for any number of relays and entries.    *)
(*                                                                         *)
(* The lease plays no part in the argument: it saves work, and the safety  *)
(* rests on what each drain knows.  A drain has delivered everything up to *)
(* its mark and up to what it accepted (Progress), and whatever precedes   *)
(* an entry of its batch is in the batch too or already delivered          *)
(* (BatchIsNext), because an entry leaves the outbox only when delivered.  *)
(***************************************************************************)
EXTENDS OutboxRelay, TLAPS

\* What a relay has cleared or had accepted is delivered, with all before it.
Progress ==
    \A r \in Relays :
        /\ \A j \in 1..mark[r] : j \in Published
        /\ \A j \in 1..accepted[r] : j \in Published
        /\ \A i \in reads[r] : i \in 1..accepted[r]

\* The batch starts after what was accepted and leaves no gap.
BatchIsNext ==
    \A r \in Relays : \A i \in batch[r] :
        /\ accepted[r] < i
        /\ \A j \in 1..(i - 1) : j \in batch[r] \/ j \in Published

RelayInv == TypeOK /\ NothingLost /\ InCommitOrder /\ ReceiptsArePublished /\ Progress /\ BatchIsNext
----------------------------------------------------------------------------
LEMMA InitInv == Init => RelayInv
<1> SUFFICES ASSUME Init PROVE RelayInv OBVIOUS
<1>1. TypeOK BY RelayAssumption DEF Init, TypeOK
<1>2. NothingLost /\ ReceiptsArePublished /\ InCommitOrder /\ Progress /\ BatchIsNext
  BY DEF Init, NothingLost, ReceiptsArePublished, InCommitOrder, Progress, BatchIsNext, Published
<1> QED BY <1>1, <1>2 DEF RelayInv

\* A longer outbox leaves the topic well typed.
LEMMA TopicGrows ==
    ASSUME NEW m \in Nat, NEW n \in Nat, m <= n, NEW s \in Seq(1..m)
    PROVE  s \in Seq(1..n)
  OBVIOUS

LEMMA TopicElements ==
    ASSUME NEW S, NEW s \in Seq(S)
    PROVE  Len(s) \in Nat /\ \A k \in 1..Len(s) : s[k] \in S
  OBVIOUS

\* The broker takes entry i: the delivered entries are the old ones and i.
LEMMA TakenByBroker ==
    ASSUME TypeOK, NEW i \in 1..appended, topic' = Append(topic, i), appended' = appended
    PROVE  /\ topic' \in Seq(1..appended)
           /\ Published' = Published \cup {i}
<1>1. topic \in Seq(1..appended) BY DEF TypeOK
<1>2. /\ topic' \in Seq(1..appended) /\ Len(topic') = Len(topic) + 1
      /\ \A k \in 1..Len(topic) : topic'[k] = topic[k]
      /\ topic'[Len(topic) + 1] = i
  BY <1>1
<1>3. Published \cup {i} \subseteq Published' BY <1>1, <1>2 DEF Published
<1>4. ASSUME NEW k \in 1..Len(topic') PROVE topic'[k] \in Published \cup {i}
  <2>1. CASE k = Len(topic) + 1 BY <1>2, <2>1
  <2>2. CASE k \in 1..Len(topic) BY <1>2, <2>2 DEF Published
  <2> QED BY <1>1, <1>2, <2>1, <2>2
<1>5. Published' \subseteq Published \cup {i} BY <1>4 DEF Published
<1> QED BY <1>2, <1>3, <1>5

\* It may take an entry when all earlier ones are delivered.
LEMMA OrderKept ==
    ASSUME RelayInv, NEW i \in 1..appended, \A j \in 1..(i - 1) : j \in Published,
           topic' = Append(topic, i)
    PROVE  InCommitOrder'
<1>1. topic \in Seq(1..appended) BY DEF RelayInv, TypeOK
<1>2. /\ Len(topic) \in Nat /\ Len(topic') = Len(topic) + 1
      /\ \A k \in 1..Len(topic) : topic'[k] = topic[k] /\ topic[k] \in 1..appended
      /\ topic'[Len(topic) + 1] = i
  <2>1. Len(topic) \in Nat /\ \A k \in 1..Len(topic) : topic[k] \in 1..appended
    BY <1>1, TopicElements
  <2>2. Len(topic') = Len(topic) + 1 /\ \A k \in 1..Len(topic) : topic'[k] = topic[k] BY <1>1
  <2> QED BY <1>1, <2>1, <2>2
<1> SUFFICES ASSUME NEW k \in 1..Len(topic'), NEW j \in 1..(topic'[k] - 1)
             PROVE  \E l \in 1..(k - 1) : topic'[l] = j
  BY DEF InCommitOrder
<1>3. CASE k = Len(topic) + 1
  <2>1. j \in Published BY <1>2, <1>3
  <2>2. PICK l \in 1..Len(topic) : topic[l] = j BY <2>1 DEF Published
  <2> QED BY <1>2, <1>3, <2>2
<1>4. CASE k \in 1..Len(topic)
  <2>1. PICK l \in 1..(k - 1) : topic[l] = j BY <1>2, <1>4 DEF RelayInv, InCommitOrder
  <2> QED BY <1>2, <1>4, <2>1
<1> QED BY <1>2, <1>3, <1>4

\* A step that moves neither the records nor what the relays know of them
LEMMA Frame ==
    ASSUME RelayInv, UNCHANGED <<appended, outbox, receipts, topic, mark, batch, accepted, reads>>
    PROVE  /\ NothingLost' /\ InCommitOrder' /\ ReceiptsArePublished' /\ Progress' /\ BatchIsNext'
  BY DEF RelayInv, NothingLost, InCommitOrder, ReceiptsArePublished, Progress, BatchIsNext, Published
----------------------------------------------------------------------------
\* One lemma per action

LEMMA AppendStep == ASSUME RelayInv, NEW n \in 1..MaxEntries, AppendEntries(n) PROVE RelayInv'
<1>1. /\ appended \in Nat /\ n \in Nat /\ appended' = appended + n
      /\ outbox' = outbox \cup (appended + 1)..(appended + n)
      /\ UNCHANGED <<receipts, lease, topic, pc, closing, holding, mark, batch, accepted, reads, faults>>
  BY RelayAssumption DEF AppendEntries, relayVars, RelayInv, TypeOK
<1>2. TypeOK'
  <2>1. topic' \in Seq(1..appended') BY <1>1, TopicGrows DEF RelayInv, TypeOK
  <2>2. outbox' \subseteq 1..appended' BY <1>1 DEF RelayInv, TypeOK
  <2>3. mark' \in [Relays -> 0..appended'] /\ accepted' \in [Relays -> 0..appended']
    BY <1>1 DEF RelayInv, TypeOK
  <2>4. batch' \in [Relays -> SUBSET (1..appended')] BY <1>1 DEF RelayInv, TypeOK
  <2> QED BY <1>1, <2>1, <2>2, <2>3, <2>4 DEF RelayInv, TypeOK
<1>3. Published' = Published BY <1>1 DEF Published
<1>4. Published \subseteq 1..appended BY DEF Published, RelayInv, TypeOK
<1>5. NothingLost' BY <1>1, <1>3 DEF RelayInv, NothingLost
<1>6. ReceiptsArePublished' BY <1>1, <1>3, <1>4 DEF RelayInv, ReceiptsArePublished
<1>7. InCommitOrder' BY <1>1 DEF RelayInv, InCommitOrder
<1>8. Progress' /\ BatchIsNext' BY <1>1, <1>3 DEF RelayInv, Progress, BatchIsNext
<1> QED BY <1>2, <1>5, <1>6, <1>7, <1>8 DEF RelayInv

\* Starting, and a lease newly gained: back to the beginning of the outbox
LEMMA MarkStep ==
    ASSUME RelayInv, NEW r \in Relays, Start(r) \/ HoldLease(r)
    PROVE  RelayInv'
<1>1. /\ mark' \in [Relays -> 0..appended] /\ \A q \in Relays : mark'[q] \in {0, mark[q]}
      /\ UNCHANGED <<appended, outbox, receipts, topic, batch, accepted, reads, faults>>
  <2>1. CASE Start(r) BY <2>1 DEF Start, RelayInv, TypeOK
  <2>2. CASE HoldLease(r) BY <2>2 DEF HoldLease, RelayInv, TypeOK
  <2> QED BY <2>1, <2>2
<1>2. /\ pc' \in [Relays -> {"off", "poll", "read", "produce"}]
      /\ closing' \in [Relays -> BOOLEAN] /\ holding' \in [Relays -> BOOLEAN]
      /\ lease' \in [owner : Relays \cup {NoRelay, Gone}, live : BOOLEAN]
  <2>1. CASE Start(r) BY <2>1 DEF Start, RelayInv, TypeOK
  <2>2. CASE HoldLease(r) BY <2>2 DEF HoldLease, RelayInv, TypeOK
  <2> QED BY <2>1, <2>2
<1>3. TypeOK' BY <1>1, <1>2 DEF RelayInv, TypeOK
<1>4. Published' = Published BY <1>1 DEF Published
<1>5. NothingLost' /\ InCommitOrder' /\ ReceiptsArePublished' /\ BatchIsNext'
  BY <1>1, <1>4 DEF RelayInv, NothingLost, InCommitOrder, ReceiptsArePublished, BatchIsNext
<1>6. Progress' BY <1>1, <1>4 DEF RelayInv, Progress
<1> QED BY <1>3, <1>5, <1>6 DEF RelayInv

\* Steps on the lease and the loop's own state only
LEMMA LoopStep ==
    ASSUME RelayInv, NEW r \in Relays,
           HoldDenied(r) \/ ReadFails(r) \/ NothingCleared(r) \/ Close(r) \/ LoopEnds(r)
    PROVE  RelayInv'
<1>1. UNCHANGED <<appended, outbox, receipts, topic, mark, batch, accepted, reads>>
  <2>1. CASE HoldDenied(r) BY <2>1 DEF HoldDenied
  <2>2. CASE ReadFails(r) BY <2>2 DEF ReadFails
  <2>3. CASE NothingCleared(r) BY <2>3 DEF NothingCleared
  <2>4. CASE Close(r) BY <2>4 DEF Close
  <2>5. CASE LoopEnds(r) BY <2>5 DEF LoopEnds
  <2> QED BY <2>1, <2>2, <2>3, <2>4, <2>5
<1>2. /\ pc' \in [Relays -> {"off", "poll", "read", "produce"}]
      /\ closing' \in [Relays -> BOOLEAN] /\ holding' \in [Relays -> BOOLEAN] /\ faults' \in Nat
  <2>1. CASE HoldDenied(r) BY <2>1 DEF HoldDenied, Fault, RelayInv, TypeOK
  <2>2. CASE ReadFails(r) BY <2>2 DEF ReadFails, Fault, RelayInv, TypeOK
  <2>3. CASE NothingCleared(r) BY <2>3 DEF NothingCleared, RelayInv, TypeOK
  <2>4. CASE Close(r) BY <2>4 DEF Close, Fault, RelayInv, TypeOK
  <2>5. CASE LoopEnds(r) BY <2>5 DEF LoopEnds, RelayInv, TypeOK
  <2> QED BY <2>1, <2>2, <2>3, <2>4, <2>5
<1>3. lease' \in [owner : Relays \cup {NoRelay, Gone}, live : BOOLEAN]
  <2>1. CASE lease' = lease BY <2>1 DEF RelayInv, TypeOK
  <2>2. CASE Close(r) BY <2>2 DEF Close, Released, RelayInv, TypeOK
  <2> QED BY <2>1, <2>2 DEF HoldDenied, ReadFails, NothingCleared, LoopEnds
<1>4. TypeOK' BY <1>1, <1>2, <1>3 DEF RelayInv, TypeOK
<1> QED BY <1>1, <1>4, Frame DEF RelayInv

LEMMA ExpireStep == ASSUME RelayInv, ExpireLease PROVE RelayInv'
<1>1. UNCHANGED <<appended, outbox, receipts, topic, pc, closing, holding, mark, batch, accepted, reads>>
  BY DEF ExpireLease, relayVars
<1>2. faults' \in Nat BY DEF ExpireLease, Fault, RelayInv, TypeOK
<1>3. lease' \in [owner : Relays \cup {NoRelay, Gone}, live : BOOLEAN]
  BY DEF ExpireLease, RelayInv, TypeOK
<1>4. TypeOK' BY <1>1, <1>2, <1>3 DEF RelayInv, TypeOK
<1> QED BY <1>1, <1>4, Frame DEF RelayInv

\* The batch is the outbox after the mark, cut at its size: what precedes an
\* entry of it is in it, at or before the mark, or gone from the outbox.
LEMMA ReadStep == ASSUME RelayInv, NEW r \in Relays, ReadBatch(r) PROVE RelayInv'
<1>1. PICK S \in SUBSET After(r) :
        /\ \A i \in S, j \in After(r) \ S : i < j
        /\ batch' = [batch EXCEPT ![r] = S]
  BY DEF ReadBatch
<1>2. /\ accepted' = [accepted EXCEPT ![r] = 0] /\ reads' = [reads EXCEPT ![r] = {}]
      /\ pc' = [pc EXCEPT ![r] = "produce"]
      /\ UNCHANGED <<appended, outbox, receipts, lease, topic, closing, holding, mark, faults>>
  BY DEF ReadBatch
<1>3. S \subseteq 1..appended /\ appended \in Nat BY <1>1 DEF After, RelayInv, TypeOK
<1>4. TypeOK' BY <1>1, <1>2, <1>3 DEF RelayInv, TypeOK
<1>5. Published' = Published BY <1>2 DEF Published
<1>6. NothingLost' /\ InCommitOrder' /\ ReceiptsArePublished'
  BY <1>2, <1>5 DEF RelayInv, NothingLost, InCommitOrder, ReceiptsArePublished
<1>7. Progress' BY <1>2, <1>5 DEF RelayInv, Progress, TypeOK
<1>8. ASSUME NEW i \in S, NEW j \in 1..(i - 1) PROVE j \in S \/ j \in Published
  <2>1. j \in 1..appended /\ i \in 1..appended /\ j < i BY <1>3
  <2>2. CASE j \notin outbox BY <2>1, <2>2 DEF RelayInv, NothingLost
  <2>3. CASE j \in outbox /\ j <= mark[r]
    <3>1. mark[r] \in 0..appended BY DEF RelayInv, TypeOK
    <3> QED BY <2>1, <2>3, <3>1 DEF RelayInv, Progress
  <2>4. CASE j \in outbox /\ ~(j <= mark[r])
    <3>1. mark[r] \in 0..appended BY DEF RelayInv, TypeOK
    <3>2. j \in After(r) BY <2>1, <2>4, <3>1 DEF After
    <3> QED BY <1>1, <2>1, <3>2
  <2> QED BY <2>2, <2>3, <2>4
<1>9. BatchIsNext'
  <2> SUFFICES ASSUME NEW q \in Relays, NEW i \in batch'[q]
               PROVE  /\ accepted'[q] < i
                      /\ \A j \in 1..(i - 1) : j \in batch'[q] \/ j \in Published
    BY <1>5 DEF BatchIsNext
  <2>1. CASE q = r
    <3>1. batch'[q] = S /\ accepted'[q] = 0 BY <1>1, <1>2, <2>1 DEF RelayInv, TypeOK
    <3> QED BY <1>3, <1>8, <3>1
  <2>2. CASE q # r
    <3>1. batch'[q] = batch[q] /\ accepted'[q] = accepted[q] BY <1>1, <1>2, <2>2 DEF RelayInv, TypeOK
    <3> QED BY <3>1 DEF RelayInv, BatchIsNext
  <2> QED BY <2>1, <2>2
<1> QED BY <1>4, <1>6, <1>7, <1>9 DEF RelayInv

\* The least entry of a batch follows only delivered ones.
LEMMA NextIsDue ==
    ASSUME RelayInv, NEW r \in Relays, NEW i, NextEntry(r, i)
    PROVE  i \in 1..appended /\ accepted[r] < i /\ \A j \in 1..(i - 1) : j \in Published
<1>1. i \in batch[r] /\ (\A j \in batch[r] : i <= j) /\ batch[r] \subseteq 1..appended /\ appended \in Nat
  BY DEF NextEntry, RelayInv, TypeOK
<1>2. accepted[r] < i /\ \A j \in 1..(i - 1) : j \in batch[r] \/ j \in Published
  BY <1>1 DEF RelayInv, BatchIsNext
<1>3. ASSUME NEW j \in 1..(i - 1) PROVE j \notin batch[r] BY <1>1
<1> QED BY <1>1, <1>2, <1>3

LEMMA ProduceStep ==
    ASSUME RelayInv, NEW r \in Relays, NEW i \in batch[r], ProduceEntry(r, i)
    PROVE  RelayInv'
<1>1. /\ NextEntry(r, i) /\ topic' = Append(topic, i)
      /\ accepted' = [accepted EXCEPT ![r] = i] /\ batch' = [batch EXCEPT ![r] = @ \ {i}]
      /\ reads' = [reads EXCEPT ![r] = reads[r] \cup ({i} \cap Reads)]
      /\ UNCHANGED <<appended, outbox, receipts, lease, pc, closing, holding, mark, faults>>
  BY DEF ProduceEntry, WithRead
<1>2. i \in 1..appended /\ accepted[r] < i /\ \A j \in 1..(i - 1) : j \in Published
  BY <1>1, NextIsDue
<1>3. topic' \in Seq(1..appended) /\ Published' = Published \cup {i}
  BY <1>1, <1>2, TakenByBroker DEF RelayInv
<1>4. TypeOK' BY <1>1, <1>2, <1>3 DEF RelayInv, TypeOK
<1>5. InCommitOrder' BY <1>1, <1>2, OrderKept
<1>6. NothingLost' BY <1>1, <1>3 DEF RelayInv, NothingLost
<1>7. ReceiptsArePublished' BY <1>1, <1>3 DEF RelayInv, ReceiptsArePublished
<1>8. /\ accepted'[r] = i /\ batch'[r] = batch[r] \ {i} /\ reads'[r] = reads[r] \cup ({i} \cap Reads)
      /\ \A q \in Relays : q # r => /\ accepted'[q] = accepted[q] /\ batch'[q] = batch[q]
                                    /\ reads'[q] = reads[q]
  BY <1>1 DEF RelayInv, TypeOK
<1>9. /\ appended \in Nat /\ batch[r] \subseteq 1..appended
      /\ \A q \in Relays : accepted[q] \in 0..appended /\ mark[q] \in 0..appended
  BY DEF RelayInv, TypeOK
<1>10. Progress'
  <2>1. \A j \in 1..i : j \in Published' BY <1>2, <1>3
  <2>2. \A j \in reads'[r] : j \in 1..i BY <1>2, <1>8, <1>9 DEF RelayInv, Progress
  <2> QED BY <1>1, <1>3, <1>8, <1>9, <2>1, <2>2 DEF RelayInv, Progress
<1>11. BatchIsNext'
  <2>1. \A j \in batch[r] \ {i} : i < j BY <1>1, <1>2, <1>9 DEF NextEntry
  <2> QED BY <1>3, <1>8, <1>9, <2>1 DEF RelayInv, BatchIsNext
<1> QED BY <1>4, <1>5, <1>6, <1>7, <1>10, <1>11 DEF RelayInv

\* A batch that ends early, its last record taken by the broker or not
LEMMA StopStep ==
    ASSUME RelayInv, NEW r \in Relays, NEW i \in batch[r], RejectEntry(r, i) \/ ProduceFails(r, i)
    PROVE  RelayInv'
<1>1. /\ NextEntry(r, i) /\ (topic' = Append(topic, i) \/ topic' = topic)
      /\ batch' = [batch EXCEPT ![r] = {}] /\ faults' \in Nat
      /\ UNCHANGED <<appended, outbox, receipts, lease, pc, closing, holding, mark, accepted, reads>>
  BY DEF RejectEntry, ProduceFails, StopBatch, Fault, RelayInv, TypeOK
<1>2. i \in 1..appended /\ \A j \in 1..(i - 1) : j \in Published BY <1>1, NextIsDue
<1>3. topic' \in Seq(1..appended) /\ Published \subseteq Published'
  <2>1. CASE topic' = topic BY <2>1 DEF Published, RelayInv, TypeOK
  <2>2. CASE topic' = Append(topic, i) BY <1>1, <1>2, <2>2, TakenByBroker DEF RelayInv
  <2> QED BY <1>1, <2>1, <2>2
<1>4. InCommitOrder'
  <2>1. CASE topic' = topic BY <2>1 DEF InCommitOrder, RelayInv
  <2>2. CASE topic' = Append(topic, i) BY <1>2, <2>2, OrderKept
  <2> QED BY <1>1, <2>1, <2>2
<1>5. TypeOK' BY <1>1, <1>3 DEF RelayInv, TypeOK
<1>6. NothingLost' /\ ReceiptsArePublished' /\ Progress'
  BY <1>1, <1>3 DEF RelayInv, NothingLost, ReceiptsArePublished, Progress
<1>7. \A q \in Relays : batch'[q] \in {{}, batch[q]} BY <1>1 DEF RelayInv, TypeOK
<1>8. BatchIsNext'
  <2>1. \A q \in Relays : \A j \in batch'[q] : batch'[q] = batch[q] BY <1>7
  <2> QED BY <1>1, <1>3, <2>1 DEF RelayInv, BatchIsNext
<1> QED BY <1>4, <1>5, <1>6, <1>8 DEF RelayInv

\* The clear removes delivered entries only, and every read it acknowledges is
\* among them.
LEMMA ClearStep == ASSUME RelayInv, NEW r \in Relays, ClearThrough(r) \/ ClearFails(r) PROVE RelayInv'
<1>1. /\ ClearEntries(r) \/ UNCHANGED <<outbox, receipts>>
      /\ mark' = mark \/ mark' = [mark EXCEPT ![r] = accepted[r]]
      /\ pc' = [pc EXCEPT ![r] = "poll"] /\ faults' \in Nat
      /\ UNCHANGED <<appended, lease, topic, closing, holding, batch, accepted, reads>>
  BY DEF ClearThrough, ClearFails, Fault, RelayInv, TypeOK
<1>2. /\ accepted[r] \in 0..appended /\ appended \in Nat /\ reads[r] \subseteq Reads
      /\ outbox \subseteq 1..appended /\ reads[r] \subseteq 1..accepted[r]
      /\ \A j \in 1..accepted[r] : j \in Published
  BY DEF RelayInv, TypeOK, Progress
<1>3. Published' = Published BY <1>1 DEF Published
<1>4. /\ outbox' \subseteq outbox /\ receipts' \subseteq receipts \cup reads[r]
      /\ \A j \in outbox : j \in outbox' \/ j \in 1..accepted[r]
      /\ receipts' # receipts => \A j \in 1..accepted[r] : j \notin outbox'
  <2>1. CASE ClearEntries(r) BY <1>2, <2>1 DEF ClearEntries, Cleared
  <2>2. CASE UNCHANGED <<outbox, receipts>> BY <2>2
  <2> QED BY <1>1, <2>1, <2>2
<1>5. TypeOK' BY <1>1, <1>2, <1>4 DEF RelayInv, TypeOK
<1>6. NothingLost' BY <1>1, <1>2, <1>3, <1>4 DEF RelayInv, NothingLost
<1>7. ReceiptsArePublished' BY <1>2, <1>3, <1>4 DEF RelayInv, ReceiptsArePublished
<1>8. InCommitOrder' /\ BatchIsNext' BY <1>1, <1>3 DEF RelayInv, InCommitOrder, BatchIsNext
<1>9. \A q \in Relays : mark'[q] \in {mark[q], accepted[q]} BY <1>1 DEF RelayInv, TypeOK
<1>10. Progress' BY <1>1, <1>3, <1>9 DEF RelayInv, Progress
<1> QED BY <1>5, <1>6, <1>7, <1>8, <1>10 DEF RelayInv

LEMMA CrashStep == ASSUME RelayInv, NEW r \in Relays, Crash(r) PROVE RelayInv'
<1>1. /\ batch' = [batch EXCEPT ![r] = {}] /\ pc' = [pc EXCEPT ![r] = "off"] /\ faults' \in Nat
      /\ UNCHANGED <<appended, outbox, receipts, topic, closing, holding, mark, accepted, reads>>
  BY DEF Crash, Fault, RelayInv, TypeOK
<1>2. lease' \in [owner : Relays \cup {NoRelay, Gone}, live : BOOLEAN] BY DEF Crash, RelayInv, TypeOK
<1>3. TypeOK' BY <1>1, <1>2 DEF RelayInv, TypeOK
<1>4. Published' = Published BY <1>1 DEF Published
<1>5. NothingLost' /\ InCommitOrder' /\ ReceiptsArePublished' /\ Progress'
  BY <1>1, <1>4 DEF RelayInv, NothingLost, InCommitOrder, ReceiptsArePublished, Progress
<1>6. \A q \in Relays : \A j \in batch'[q] : batch'[q] = batch[q] BY <1>1 DEF RelayInv, TypeOK
<1>7. BatchIsNext' BY <1>1, <1>4, <1>6 DEF RelayInv, BatchIsNext
<1> QED BY <1>3, <1>5, <1>7 DEF RelayInv
----------------------------------------------------------------------------
\* RelayInv is inductive: every step of every relay, writer and fault keeps it.
THEOREM RelayInvariant == Spec => []RelayInv
<1>1. RelayInv /\ [Next]_vars => RelayInv'
  <2> SUFFICES ASSUME RelayInv, [Next]_vars PROVE RelayInv' OBVIOUS
  <2>1. CASE \E n \in 1..MaxEntries : AppendEntries(n) BY <2>1, AppendStep
  <2>2. CASE ExpireLease BY <2>2, ExpireStep
  <2>3. ASSUME NEW r \in Relays, RelayStep(r) PROVE RelayInv'
    <3>1. CASE HoldLease(r) \/ Start(r) BY <3>1, MarkStep
    <3>2. CASE HoldDenied(r) \/ NothingCleared(r) \/ LoopEnds(r) BY <3>2, LoopStep
    <3>3. CASE ReadBatch(r) BY <3>3, ReadStep
    <3>4. CASE \E i \in batch[r] : ProduceEntry(r, i) \/ RejectEntry(r, i)
      BY <3>4, ProduceStep, StopStep
    <3>5. CASE ClearThrough(r) BY <3>5, ClearStep
    <3> QED BY <2>3, <3>1, <3>2, <3>3, <3>4, <3>5 DEF RelayStep
  <2>4. ASSUME NEW r \in Relays,
               \/ ReadFails(r) \/ ClearFails(r) \/ (\E i \in batch[r] : ProduceFails(r, i))
               \/ Close(r) \/ Crash(r)
        PROVE  RelayInv'
    BY <2>4, LoopStep, ClearStep, StopStep, CrashStep
  <2>5. CASE UNCHANGED vars
    <3>1. UNCHANGED <<appended, outbox, receipts, lease, topic, pc, closing, holding, mark, batch,
                      accepted, reads, faults>>
      BY <2>5 DEF vars, relayVars
    <3>2. TypeOK' BY <3>1 DEF RelayInv, TypeOK
    <3> QED BY <3>1, <3>2, Frame DEF RelayInv
  <2> QED BY <2>1, <2>2, <2>3, <2>4, <2>5 DEF Next
<1> QED BY <1>1, InitInv, PTL DEF Spec

\* drainFoundationDB and ClearThroughPublished: a committed outbox entry is in
\* the outbox or with the broker, however many relays drain at once.
THEOREM NoEntryLost == Spec => []NothingLost
<1>1. RelayInv => NothingLost BY DEF RelayInv
<1> QED BY <1>1, RelayInvariant, PTL

\* The broker first sees the entries in commit order, also when a relay that
\* lost its lease goes on producing: a manifest never precedes its parts.
THEOREM DeliveredInOrder == Spec => []InCommitOrder
<1>1. RelayInv => InCommitOrder BY DEF RelayInv
<1> QED BY <1>1, RelayInvariant, PTL

\* A read receipt is marked published only once the broker has the record and
\* its entry is gone.
THEOREM ReceiptsHonest == Spec => []ReceiptsArePublished
<1>1. RelayInv => ReceiptsArePublished BY DEF RelayInv
<1> QED BY <1>1, RelayInvariant, PTL
============================================================================
