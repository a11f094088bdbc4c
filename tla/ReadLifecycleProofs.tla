------------------------ MODULE ReadLifecycleProofs ------------------------
(***************************************************************************)
(* A payload is returned only with its events, and every read has one      *)
(* terminal event, for any number of requests, reads, recovery workers and *)
(* lost calls.                                                             *)
(*                                                                         *)
(* A record exists only for a read whose row is its receipt or has been    *)
(* cleaned up (SentClosed); a pending read has none, so whoever turns the  *)
(* row into a receipt writes the only one.  A cleaned-up read cannot be    *)
(* admitted again: its request is past admission and no begin is in        *)
(* flight.  The executor's progress (ExecutorInv) says which final events  *)
(* it has seen saved.                                                      *)
(***************************************************************************)
EXTENDS ReadLifecycle, TLAPS

\* A receipt is of its own event.
OwnReceipt == \A e \in Reads : row[e].kind = "done" => row[e].rec.ev = e

\* A record at the broker has its receipt, or its read is closed for good.
SentClosed ==
    \A m \in sent :
        \/ row[m.ev].kind = "done" /\ row[m.ev].rec = m
        \/ /\ row[m.ev] = NoRow /\ phase[RequestOf[m.ev]] # "admit"
           /\ \A c \in strays : c.op = "begin" => c.ev # m.ev

StoreInv == OneTerminalEvent /\ ReceiptsMatch /\ OwnReceipt /\ SentClosed

StraysOwn == \A c \in strays : c.op \in {"finalize", "recover"} => c.rec.ev = c.ev

ExecutorInv ==
    \A q \in Requests :
        /\ todo[q] \subseteq ReadsOf(q)
        /\ phase[q] = "run" => todo[q] = ReadsOf(q)
        /\ phase[q] \in {"check", "save"} =>
            /\ result[q] # "none"
            /\ \A e \in ReadsOf(q) \ todo[q] : Final(q, e) \in Recorded
        /\ phase[q] \in {"returned", "failed"} =>
            /\ payload[q] = (phase[q] = "returned")
            /\ \A e \in ReadsOf(q) : Final(q, e) \in Recorded

ReadInv == TypeOK /\ StoreInv /\ StraysOwn /\ ExecutorInv

LEMMA InitInv == Init => ReadInv
<1> SUFFICES ASSUME Init PROVE ReadInv OBVIOUS
<1>1. TypeOK BY DEF Init, TypeOK, RowStates, ReadsOf
<1>2. StoreInv
  BY DEF Init, StoreInv, OneTerminalEvent, ReceiptsMatch, OwnReceipt, SentClosed, Recorded, NoRow
<1>3. StraysOwn /\ ExecutorInv BY DEF Init, StraysOwn, ExecutorInv
<1> QED BY <1>1, <1>2, <1>3 DEF ReadInv
----------------------------------------------------------------------------
\* What the store's statements do to StoreInv

\* No request goes back to admission, and a begin is sent during it only.
AdmissionOnly ==
    /\ \A q \in Requests : phase'[q] = "admit" => phase[q] = "admit"
    /\ \A c \in strays' : c.op = "begin" => c \in strays \/ phase[RequestOf[c.ev]] = "admit"

LEMMA StoreFrame ==
    ASSUME ReadInv, AdmissionOnly, UNCHANGED store
    PROVE  StoreInv'
<1>1. UNCHANGED <<row, outbox, sent>> BY DEF store
<1>2. SentClosed'
  <2> SUFFICES ASSUME NEW m \in sent, ~(row[m.ev].kind = "done" /\ row[m.ev].rec = m)
               PROVE  /\ row[m.ev] = NoRow /\ phase'[RequestOf[m.ev]] # "admit"
                      /\ \A c \in strays' : c.op = "begin" => c.ev # m.ev
    BY <1>1 DEF SentClosed
  <2>1. /\ row[m.ev] = NoRow /\ phase[RequestOf[m.ev]] # "admit"
        /\ \A c \in strays : c.op = "begin" => c.ev # m.ev
    BY DEF ReadInv, StoreInv, SentClosed
  <2>2. RequestOf[m.ev] \in Requests BY ReadAssumption DEF ReadInv, TypeOK, Record
  <2> QED BY <2>1, <2>2 DEF AdmissionOnly
<1> QED BY <1>1, <1>2 DEF ReadInv, StoreInv, OneTerminalEvent, ReceiptsMatch, OwnReceipt, Recorded

\* The row of e changes, between unknown and pending or within pending.
LEMMA StorePending ==
    ASSUME ReadInv, AdmissionOnly, NEW e \in Reads, UNCHANGED <<outbox, sent>>,
           \A f \in Reads : f # e => row'[f] = row[f],
           row'[e].kind = "pending",
           \/ Pending(e)
           \/ row[e] = NoRow /\ (phase[RequestOf[e]] = "admit" \/ \E c \in strays : c.op = "begin" /\ c.ev = e)
    PROVE  StoreInv'
<1>1. row[e].kind # "done" BY DEF Pending, NoRow
<1>2. \A m \in sent : m.ev # e BY <1>1 DEF ReadInv, StoreInv, SentClosed, Pending, NoRow
<1>3. \A m \in outbox : m.ev # e BY <1>1 DEF ReadInv, StoreInv, ReceiptsMatch
<1>4. \A m \in outbox \cup sent : m.ev \in Reads BY DEF ReadInv, TypeOK, Record
<1>5. SentClosed'
  <2> SUFFICES ASSUME NEW m \in sent
               PROVE  \/ row'[m.ev].kind = "done" /\ row'[m.ev].rec = m
                      \/ /\ row'[m.ev] = NoRow /\ phase'[RequestOf[m.ev]] # "admit"
                         /\ \A c \in strays' : c.op = "begin" => c.ev # m.ev
    BY DEF SentClosed
  <2>1. row'[m.ev] = row[m.ev] BY <1>2, <1>4
  <2>2. RequestOf[m.ev] \in Requests BY <1>4, ReadAssumption
  <2> QED BY <2>1, <2>2 DEF ReadInv, StoreInv, SentClosed, AdmissionOnly
<1>6. ReceiptsMatch' BY <1>3, <1>4 DEF ReadInv, StoreInv, ReceiptsMatch
<1>7. OwnReceipt' BY DEF ReadInv, StoreInv, OwnReceipt
<1> QED BY <1>5, <1>6, <1>7 DEF ReadInv, StoreInv, OneTerminalEvent, Recorded

\* A pending read gets its receipt: it had no record before.
LEMMA StoreTerminal ==
    ASSUME ReadInv, AdmissionOnly, NEW e \in Reads, NEW rec \in Record, rec.ev = e,
           Pending(e), SaveTerminal(e, rec), UNCHANGED sent
    PROVE  StoreInv'
<1>1. /\ row'[e] = [kind |-> "done", rec |-> rec, published |-> FALSE]
      /\ \A f \in Reads : f # e => row'[f] = row[f]
      /\ outbox' = outbox \cup {rec}
  BY DEF SaveTerminal, ReadInv, TypeOK
<1>2. \A m \in outbox \cup sent : m.ev # e
  BY DEF ReadInv, StoreInv, SentClosed, ReceiptsMatch, Pending, NoRow
<1>3. \A m \in outbox \cup sent : m.ev \in Reads BY DEF ReadInv, TypeOK, Record
<1>4. OneTerminalEvent' BY <1>1, <1>2 DEF ReadInv, StoreInv, OneTerminalEvent, Recorded
<1>5. ReceiptsMatch' BY <1>1, <1>2, <1>3 DEF ReadInv, StoreInv, ReceiptsMatch
<1>6. OwnReceipt' BY <1>1 DEF ReadInv, StoreInv, OwnReceipt
<1>7. SentClosed'
  <2> SUFFICES ASSUME NEW m \in sent
               PROVE  \/ row'[m.ev].kind = "done" /\ row'[m.ev].rec = m
                      \/ /\ row'[m.ev] = NoRow /\ phase'[RequestOf[m.ev]] # "admit"
                         /\ \A c \in strays' : c.op = "begin" => c.ev # m.ev
    BY DEF SentClosed
  <2>1. row'[m.ev] = row[m.ev] BY <1>1, <1>2, <1>3
  <2>2. RequestOf[m.ev] \in Requests BY <1>3, ReadAssumption
  <2> QED BY <2>1, <2>2 DEF ReadInv, StoreInv, SentClosed, AdmissionOnly
<1> QED BY <1>4, <1>5, <1>6, <1>7 DEF StoreInv

\* The executor has seen what it saw: records do not go away.
LEMMA ExecutorFrame ==
    ASSUME ReadInv, Recorded \subseteq Recorded', UNCHANGED <<phase, todo, result, payload>>
    PROVE  ExecutorInv'
  BY DEF ReadInv, ExecutorInv, Final

\* A request's step: the others keep their part.
LEMMA ExecutorStep ==
    ASSUME ReadInv, NEW q \in Requests, Recorded \subseteq Recorded',
           \A p \in Requests : p # q =>
              /\ phase'[p] = phase[p] /\ todo'[p] = todo[p]
              /\ result'[p] = result[p] /\ payload'[p] = payload[p],
           todo'[q] \subseteq ReadsOf(q),
           phase'[q] = "run" => todo'[q] = ReadsOf(q),
           phase'[q] \in {"check", "save"} =>
              result'[q] # "none" /\ \A e \in ReadsOf(q) \ todo'[q] : Final(q, e)' \in Recorded',
           phase'[q] \in {"returned", "failed"} =>
              payload'[q] = (phase'[q] = "returned") /\ \A e \in ReadsOf(q) : Final(q, e)' \in Recorded'
    PROVE  ExecutorInv'
<1> SUFFICES ASSUME NEW p \in Requests
             PROVE  /\ todo'[p] \subseteq ReadsOf(p)
                    /\ phase'[p] = "run" => todo'[p] = ReadsOf(p)
                    /\ phase'[p] \in {"check", "save"} =>
                        /\ result'[p] # "none"
                        /\ \A e \in ReadsOf(p) \ todo'[p] : Final(p, e)' \in Recorded'
                    /\ phase'[p] \in {"returned", "failed"} =>
                        /\ payload'[p] = (phase'[p] = "returned")
                        /\ \A e \in ReadsOf(p) : Final(p, e)' \in Recorded'
  BY DEF ExecutorInv, ReadsOf
<1>1. CASE p = q BY <1>1
<1>2. CASE p # q
  <2>1. \A e \in Reads : Final(p, e)' = Final(p, e) BY <1>2 DEF Final
  <2> QED BY <1>2, <2>1 DEF ReadInv, ExecutorInv, ReadsOf
<1> QED BY <1>1, <1>2
----------------------------------------------------------------------------
\* Facts the action lemmas share

LEMMA TurnFacts ==
    ASSUME ReadInv, NEW q \in Requests, NEW e, Turn(q, e)
    PROVE  e \in Reads /\ e \in ReadsOf(q) /\ RequestOf[e] = q /\ e \in todo[q]
  BY DEF Turn, ReadInv, ExecutorInv, ReadsOf

LEMMA FinalIsRecord ==
    ASSUME ReadInv, NEW q \in Requests, NEW e \in Reads, phase[q] \in {"check", "save"}
    PROVE  Final(q, e) \in Record /\ Final(q, e).ev = e
<1>1. result[q] \in ReadOutcomes /\ payload[q] \in BOOLEAN BY DEF ReadInv, TypeOK, ExecutorInv
<1> QED BY <1>1 DEF Final, Record, Outcomes

LEMMA PendingType == ASSUME TypeOK, NEW e \in Reads, Pending(e) PROVE row[e] \in PendingRow
  BY DEF TypeOK, Pending, RowStates, NoRow, Receipt

LEMMA BeginType ==
    ASSUME TypeOK, NEW e \in Reads, OpsReadBegin(e)
    PROVE  row' \in [Reads -> RowStates] /\ row'[e].kind = "pending"
           /\ \A f \in Reads : f # e => row'[f] = row[f]
<1>1. [kind |-> "pending", gen |-> 1, lease |-> 1, late |-> FALSE, open |-> TRUE] \in PendingRow
  BY DEF PendingRow
<1> QED BY <1>1 DEF OpsReadBegin, TypeOK, RowStates

LEMMA RenewType ==
    ASSUME TypeOK, NEW e \in Reads, Pending(e), OpsReadRenew(e)
    PROVE  row' \in [Reads -> RowStates] /\ row'[e].kind = "pending"
           /\ \A f \in Reads : f # e => row'[f] = row[f]
<1>1. row[e] \in PendingRow BY PendingType
<1>2. row'[e] = [row[e] EXCEPT !.lease = @ + 1, !.late = FALSE] BY DEF OpsReadRenew, TypeOK
<1>3. row'[e] = [kind |-> "pending", gen |-> row[e].gen, lease |-> row[e].lease + 1, late |-> FALSE,
                 open |-> row[e].open]
  BY <1>1, <1>2 DEF PendingRow
<1>4. row[e].gen \in Nat /\ row[e].lease + 1 \in Nat /\ row[e].open \in BOOLEAN BY <1>1 DEF PendingRow
<1>5. row'[e] \in PendingRow BY <1>3, <1>4 DEF PendingRow
<1> QED BY <1>3, <1>5 DEF OpsReadRenew, TypeOK, RowStates

LEMMA TerminalType ==
    ASSUME TypeOK, NEW e \in Reads, NEW rec \in Record, SaveTerminal(e, rec)
    PROVE  row' \in [Reads -> RowStates] /\ outbox' \subseteq Record
<1>1. [kind |-> "done", rec |-> rec, published |-> FALSE] \in Receipt BY DEF Receipt
<1> QED BY <1>1 DEF SaveTerminal, TypeOK, RowStates

\* A stray of a well-typed call, or none
LEMMA StrayType ==
    ASSUME ReadInv, NEW c \in Call, Stray(c), c.op \in {"finalize", "recover"} => c.rec.ev = c.ev
    PROVE  strays' \subseteq Call /\ StraysOwn' /\ \A d \in strays' : d \in strays \/ d = c
  BY DEF Stray, ReadInv, TypeOK, StraysOwn

LEMMA FaultType == ASSUME TypeOK, Fault PROVE faults' \in Nat
  BY DEF Fault, TypeOK

\* The next read, or the next phase
LEMMA AdvanceFacts ==
    ASSUME ReadInv, NEW q \in Requests, NEW e \in todo[q], NEW p, p # "save", Advance(q, e, p)
    PROVE  /\ \A r \in Requests : r # q => phase'[r] = phase[r] /\ todo'[r] = todo[r]
           /\ \/ /\ todo[q] = {e} /\ todo'[q] = ReadsOf(q) /\ phase'[q] = p
              \/ /\ todo'[q] = todo[q] \ {e}
                 /\ phase'[q] = IF phase[q] = "save" THEN "check" ELSE phase[q]
           /\ todo' \in [Requests -> SUBSET Reads]
           /\ DOMAIN phase' = Requests
           /\ phase' = [phase EXCEPT ![q] = phase'[q]]
  BY DEF Advance, Last, ReadInv, TypeOK, ReadsOf
----------------------------------------------------------------------------
\* One lemma per action

LEMMA AdmitStep ==
    ASSUME ReadInv, NEW q \in Requests, NEW e \in Reads, Admit(q, e)
    PROVE  ReadInv'
<1>1. /\ phase[q] = "admit" /\ Turn(q, e) /\ Advance(q, e, "run")
      /\ UNCHANGED <<outbox, sent, strays, result, payload, cands, faults>>
      /\ renewing' \subseteq Reads
  BY DEF Admit, ReadInv, TypeOK, ReadsOf
<1>2. e \in ReadsOf(q) /\ RequestOf[e] = q /\ e \in todo[q] BY <1>1, TurnFacts
<1>3. /\ \A r \in Requests : r # q => phase'[r] = phase[r] /\ todo'[r] = todo[r]
      /\ \/ todo'[q] = ReadsOf(q) /\ phase'[q] = "run"
         \/ todo'[q] = todo[q] \ {e} /\ phase'[q] = "admit"
      /\ todo' \in [Requests -> SUBSET Reads]
      /\ phase' = [phase EXCEPT ![q] = phase'[q]]
  BY <1>1, <1>2, AdvanceFacts
<1>4. phase' \in [Requests -> {"admit", "run", "check", "save"} \cup Ended] BY <1>3 DEF ReadInv, TypeOK
<1>5. AdmissionOnly BY <1>1, <1>3 DEF AdmissionOnly
<1>6. row' \in [Reads -> RowStates] /\ token' \in [Reads -> Nat] /\ StoreInv'
  <2>1. CASE row[e] = NoRow /\ OpsReadBegin(e) /\ token' = [token EXCEPT ![e] = 1]
    <3>1. row' \in [Reads -> RowStates] /\ row'[e].kind = "pending"
          /\ \A f \in Reads : f # e => row'[f] = row[f]
      BY <2>1, BeginType DEF ReadInv
    <3>2. StoreInv' BY <1>1, <1>2, <1>5, <2>1, <3>1, StorePending
    <3> QED BY <2>1, <3>1, <3>2 DEF ReadInv, TypeOK
  <2>2. CASE Pending(e) /\ UNCHANGED row /\ token' = [token EXCEPT ![e] = row[e].gen]
    <3>1. row[e].gen \in Nat BY <2>2, PendingType DEF ReadInv, PendingRow
    <3>2. StoreInv' BY <1>1, <1>5, <2>2, StoreFrame DEF store
    <3> QED BY <2>2, <3>1, <3>2 DEF ReadInv, TypeOK
  <2> QED BY <2>1, <2>2 DEF Admit
<1>7. TypeOK' BY <1>1, <1>3, <1>4, <1>6 DEF ReadInv, TypeOK
<1>8. ExecutorInv'
  <2>1. Recorded' = Recorded BY <1>1 DEF Recorded
  <2>2. todo'[q] \subseteq ReadsOf(q) /\ (phase'[q] = "run" => todo'[q] = ReadsOf(q))
        /\ phase'[q] \in {"admit", "run"}
    BY <1>3 DEF ReadInv, ExecutorInv
  <2> QED BY <1>1, <1>3, <2>1, <2>2, ExecutorStep
<1>9. StraysOwn' BY <1>1 DEF ReadInv, StraysOwn
<1> QED BY <1>6, <1>7, <1>8, <1>9 DEF ReadInv

\* A request ends without its payload, or dies; calls of it may be left.
LEMMA RefusedStep ==
    ASSUME ReadInv, NEW q \in Requests, UNCHANGED <<store, todo, result, payload, token, cands>>,
           renewing' \subseteq Reads, faults' \in Nat, NEW p \in {"withheld", "dead"},
           phase' = [phase EXCEPT ![q] = p] \/ UNCHANGED phase,
           strays' \subseteq Call, StraysOwn',
           \A c \in strays' : c.op = "begin" => c \in strays \/ phase[RequestOf[c.ev]] = "admit"
    PROVE  ReadInv'
<1>1. phase' \in [Requests -> {"admit", "run", "check", "save"} \cup Ended] BY DEF ReadInv, TypeOK, Ended
<1>2. TypeOK' BY <1>1 DEF ReadInv, TypeOK, store
<1>3. AdmissionOnly BY DEF AdmissionOnly, ReadInv, TypeOK
<1>4. StoreInv' BY <1>3, StoreFrame
<1>5. Recorded' = Recorded BY DEF Recorded, store
<1>6. ExecutorInv'
  <2>1. CASE UNCHANGED phase BY <1>5, <2>1, ExecutorFrame
  <2>2. CASE phase' = [phase EXCEPT ![q] = p]
    <3>1. phase'[q] \in {"withheld", "dead"} /\ \A r \in Requests : r # q => phase'[r] = phase[r]
      BY <2>2 DEF ReadInv, TypeOK
    <3>2. todo'[q] \subseteq ReadsOf(q) BY DEF ReadInv, ExecutorInv
    <3> QED BY <1>5, <3>1, <3>2, ExecutorStep
  <2> QED BY <2>1, <2>2
<1> QED BY <1>2, <1>4, <1>6 DEF ReadInv

LEMMA AdmitRefusedStep ==
    ASSUME ReadInv, NEW q \in Requests, NEW e \in Reads, AdmitRefused(q, e)
    PROVE  ReadInv'
<1>1. /\ phase' = [phase EXCEPT ![q] = "withheld"]
      /\ UNCHANGED <<store, strays, todo, result, payload, token, renewing, cands, faults>>
  BY DEF AdmitRefused, Withhold
<1>2. renewing' \subseteq Reads /\ faults' \in Nat /\ strays' \subseteq Call /\ StraysOwn'
  BY <1>1 DEF ReadInv, TypeOK, StraysOwn
<1> QED BY <1>1, <1>2, RefusedStep

LEMMA AdmitLostStep ==
    ASSUME ReadInv, NEW q \in Requests, NEW e \in Reads, AdmitLost(q, e)
    PROVE  ReadInv'
<1> DEFINE c == [op |-> "begin", ev |-> e]
<1>1. /\ phase[q] = "admit" /\ Turn(q, e) /\ Fault /\ Stray(c)
      /\ phase' = [phase EXCEPT ![q] = "withheld"] \/ UNCHANGED phase
      /\ UNCHANGED <<store, todo, result, payload, token, renewing, cands>>
  BY DEF AdmitLost, Withhold
<1>2. c \in Call /\ c.op = "begin" /\ c.ev = e BY DEF Call
<1> HIDE DEF c
<1>3. strays' \subseteq Call /\ StraysOwn' /\ \A d \in strays' : d \in strays \/ d = c BY <1>1, <1>2, StrayType
<1>4. RequestOf[e] = q BY <1>1, TurnFacts
<1>5. \A d \in strays' : d.op = "begin" => d \in strays \/ phase[RequestOf[d.ev]] = "admit"
  BY <1>1, <1>2, <1>3, <1>4
<1>6. renewing' \subseteq Reads /\ faults' \in Nat BY <1>1, FaultType DEF ReadInv, TypeOK
<1> QED BY <1>1, <1>3, <1>5, <1>6, RefusedStep

\* A step of no request's program: the executor keeps its part.
LEMMA OtherStep ==
    ASSUME ReadInv, TypeOK', StoreInv', StraysOwn', Recorded \subseteq Recorded',
           UNCHANGED <<phase, todo, result, payload>>
    PROVE  ReadInv'
  BY ExecutorFrame DEF ReadInv

LEMMA RenewStep ==
    ASSUME ReadInv, NEW e \in Reads, Renew(e)
    PROVE  ReadInv'
<1>1. UNCHANGED <<outbox, sent, strays, phase, todo, result, payload, token, cands, faults>> BY DEF Renew
<1>2. AdmissionOnly BY <1>1 DEF AdmissionOnly
<1>3. row' \in [Reads -> RowStates] /\ renewing' \subseteq Reads /\ StoreInv'
  <2>1. CASE Owned(e, token[e])
    <3>1. Pending(e) /\ OpsReadRenew(e) /\ UNCHANGED renewing BY <2>1 DEF Renew, Owned
    <3>2. row' \in [Reads -> RowStates] /\ row'[e].kind = "pending"
          /\ \A f \in Reads : f # e => row'[f] = row[f]
      BY <3>1, RenewType DEF ReadInv
    <3>3. StoreInv' BY <1>1, <1>2, <3>1, <3>2, StorePending
    <3> QED BY <3>1, <3>2, <3>3 DEF ReadInv, TypeOK
  <2>2. CASE ~Owned(e, token[e])
    <3>1. renewing' = renewing \ {e} /\ UNCHANGED row BY <2>2 DEF Renew
    <3>2. StoreInv' BY <1>1, <1>2, <3>1, StoreFrame DEF store
    <3> QED BY <3>1, <3>2 DEF ReadInv, TypeOK
  <2> QED BY <2>1, <2>2
<1>4. TypeOK' BY <1>1, <1>3 DEF ReadInv, TypeOK
<1>5. StraysOwn' /\ Recorded' = Recorded BY <1>1 DEF ReadInv, StraysOwn, Recorded
<1> QED BY <1>1, <1>3, <1>4, <1>5, OtherStep

LEMMA RenewLostStep ==
    ASSUME ReadInv, NEW e \in Reads, RenewLost(e)
    PROVE  ReadInv'
<1> DEFINE c == [op |-> "renew", ev |-> e, gen |-> token[e]]
<1>1. Fault /\ Stray(c) /\ renewing' = renewing \ {e}
      /\ UNCHANGED <<store, phase, todo, result, payload, token, cands>>
  BY DEF RenewLost
<1>2. c \in Call /\ c.op = "renew" BY DEF Call, ReadInv, TypeOK
<1> HIDE DEF c
<1>3. strays' \subseteq Call /\ StraysOwn' /\ \A d \in strays' : d \in strays \/ d = c BY <1>1, <1>2, StrayType
<1>4. AdmissionOnly BY <1>1, <1>2, <1>3 DEF AdmissionOnly
<1>5. StoreInv' BY <1>1, <1>4, StoreFrame
<1>6. TypeOK' BY <1>1, <1>3, FaultType DEF ReadInv, TypeOK, store
<1>7. Recorded' = Recorded BY <1>1 DEF Recorded, store
<1> QED BY <1>1, <1>3, <1>5, <1>6, <1>7, OtherStep

LEMMA RunReadStep ==
    ASSUME ReadInv, NEW q \in Requests, RunRead(q)
    PROVE  ReadInv'
<1>1. PICK o \in ReadOutcomes, b \in BOOLEAN :
        result' = [result EXCEPT ![q] = o] /\ payload' = [payload EXCEPT ![q] = b]
  BY DEF RunRead
<1>2. /\ phase[q] = "run" /\ phase' = [phase EXCEPT ![q] = "check"]
      /\ renewing' \subseteq Reads
      /\ UNCHANGED <<store, strays, todo, token, cands, faults>>
  BY DEF RunRead, OthersRenewing, ReadInv, TypeOK
<1>3. phase' \in [Requests -> {"admit", "run", "check", "save"} \cup Ended] BY <1>2 DEF ReadInv, TypeOK
<1>4. TypeOK' BY <1>1, <1>2, <1>3 DEF ReadInv, TypeOK, store
<1>5. AdmissionOnly BY <1>2 DEF AdmissionOnly, ReadInv, TypeOK
<1>6. StoreInv' BY <1>2, <1>5, StoreFrame
<1>7. StraysOwn' /\ Recorded' = Recorded BY <1>2 DEF ReadInv, StraysOwn, Recorded, store
<1>8. ExecutorInv'
  <2>1. phase'[q] = "check" /\ result'[q] # "none" /\ todo'[q] = ReadsOf(q)
    BY <1>1, <1>2 DEF ReadInv, TypeOK, ExecutorInv, ReadOutcomes
  <2>2. \A r \in Requests : r # q =>
          /\ phase'[r] = phase[r] /\ todo'[r] = todo[r]
          /\ result'[r] = result[r] /\ payload'[r] = payload[r]
    BY <1>1, <1>2 DEF ReadInv, TypeOK
  <2> QED BY <1>7, <2>1, <2>2, ExecutorStep
<1> QED BY <1>4, <1>6, <1>7, <1>8 DEF ReadInv

LEMMA InvalidCompletionStep ==
    ASSUME ReadInv, NEW q \in Requests, InvalidCompletion(q)
    PROVE  ReadInv'
<1>1. /\ Fault /\ phase' = [phase EXCEPT ![q] = "withheld"]
      /\ UNCHANGED <<store, strays, todo, result, payload, token, renewing, cands>>
  BY DEF InvalidCompletion, Withhold
<1>2. renewing' \subseteq Reads /\ faults' \in Nat /\ strays' \subseteq Call /\ StraysOwn'
  BY <1>1, FaultType DEF ReadInv, TypeOK, StraysOwn
<1> QED BY <1>1, <1>2, RefusedStep

\* The read's final event is saved: the executor goes on.
LEMMA SavedStep ==
    ASSUME ReadInv, NEW q \in Requests, NEW e \in Reads, phase[q] \in {"check", "save"}, Turn(q, e),
           Advance(q, e, Answer(q)), UNCHANGED <<result, payload>>, Recorded \subseteq Recorded',
           Final(q, e) \in Recorded'
    PROVE  /\ ExecutorInv'
           /\ phase' \in [Requests -> {"admit", "run", "check", "save"} \cup Ended]
           /\ todo' \in [Requests -> SUBSET Reads]
           /\ \A r \in Requests : phase'[r] = "admit" => phase[r] = "admit"
<1>1. e \in ReadsOf(q) /\ e \in todo[q] BY TurnFacts
<1>2. Answer(q) \in {"returned", "failed"} /\ payload[q] = (Answer(q) = "returned")
  BY DEF Answer, ReadInv, TypeOK
<1>3. /\ \A r \in Requests : r # q => phase'[r] = phase[r] /\ todo'[r] = todo[r]
      /\ \/ todo[q] = {e} /\ todo'[q] = ReadsOf(q) /\ phase'[q] = Answer(q)
         \/ todo'[q] = todo[q] \ {e} /\ phase'[q] = "check"
      /\ todo' \in [Requests -> SUBSET Reads]
      /\ phase' = [phase EXCEPT ![q] = phase'[q]]
  BY <1>1, <1>2, AdvanceFacts
<1>4. phase' \in [Requests -> {"admit", "run", "check", "save"} \cup Ended]
  BY <1>2, <1>3 DEF ReadInv, TypeOK, Ended
<1>5. /\ todo[q] \subseteq ReadsOf(q) /\ result[q] # "none"
      /\ \A f \in ReadsOf(q) \ todo[q] : Final(q, f) \in Recorded
  BY DEF ReadInv, ExecutorInv
<1>6. \A f \in Reads : Final(q, f)' = Final(q, f) BY DEF Final
<1>7. \A f \in ReadsOf(q) \ (todo[q] \ {e}) : Final(q, f)' \in Recorded'
  BY <1>5, <1>6 DEF ReadsOf
<1>8. ExecutorInv'
  <2>1. CASE todo[q] = {e} /\ todo'[q] = ReadsOf(q) /\ phase'[q] = Answer(q)
    <3>1. \A f \in ReadsOf(q) : Final(q, f)' \in Recorded' BY <1>7, <2>1
    <3> QED BY <1>2, <1>3, <2>1, <3>1, ExecutorStep
  <2>2. CASE todo'[q] = todo[q] \ {e} /\ phase'[q] = "check"
    BY <1>3, <1>5, <1>7, <2>2, ExecutorStep
  <2> QED BY <1>3, <2>1, <2>2
<1> QED BY <1>2, <1>3, <1>4, <1>8

\* A confirmed final event is at the broker or on its way.
LEMMA ConfirmedIsRecorded ==
    ASSUME ReadInv, NEW e \in Reads, NEW rec, Confirmed(e, rec)
    PROVE  rec \in Recorded
  BY DEF Confirmed, ReadInv, StoreInv, ReceiptsMatch, Recorded

\* The request's phase alone changes, within its final attempt or to its end.
LEMMA PhaseStep ==
    ASSUME ReadInv, NEW q \in Requests, phase[q] \in {"check", "save"}, NEW p \in {"check", "save", "withheld"},
           phase' = [phase EXCEPT ![q] = p], UNCHANGED <<todo, result, payload>>, Recorded' = Recorded
    PROVE  /\ ExecutorInv'
           /\ phase' \in [Requests -> {"admit", "run", "check", "save"} \cup Ended]
           /\ \A r \in Requests : phase'[r] = "admit" => phase[r] = "admit"
<1>1. phase'[q] = p /\ \A r \in Requests : r # q => phase'[r] = phase[r] BY DEF ReadInv, TypeOK
<1>2. phase' \in [Requests -> {"admit", "run", "check", "save"} \cup Ended] BY DEF ReadInv, TypeOK, Ended
<1>3. /\ todo[q] \subseteq ReadsOf(q) /\ result[q] # "none"
      /\ \A f \in ReadsOf(q) \ todo[q] : Final(q, f) \in Recorded
  BY DEF ReadInv, ExecutorInv
<1>4. \A f \in ReadsOf(q) \ todo'[q] : Final(q, f)' \in Recorded' BY <1>3 DEF Final
<1>5. ExecutorInv' BY <1>1, <1>3, <1>4, ExecutorStep
<1> QED BY <1>1, <1>2, <1>5

LEMMA CheckOwnerStep ==
    ASSUME ReadInv, NEW q \in Requests, NEW e \in Reads, CheckOwner(q, e)
    PROVE  ReadInv'
<1>1. phase[q] = "check" /\ Turn(q, e) /\ UNCHANGED <<store, strays, result, payload, token, renewing, cands, faults>>
  BY DEF CheckOwner
<1>2. Recorded' = Recorded /\ StraysOwn' BY <1>1 DEF Recorded, store, ReadInv, StraysOwn
<1>3. \/ \E p \in {"save", "withheld"} : phase' = [phase EXCEPT ![q] = p] /\ UNCHANGED todo
      \/ Confirmed(e, Final(q, e)) /\ Advance(q, e, Answer(q))
  BY DEF CheckOwner, Withhold
<1>4. /\ ExecutorInv' /\ phase' \in [Requests -> {"admit", "run", "check", "save"} \cup Ended]
      /\ todo' \in [Requests -> SUBSET Reads]
      /\ \A r \in Requests : phase'[r] = "admit" => phase[r] = "admit"
  <2>1. CASE \E p \in {"save", "withheld"} : phase' = [phase EXCEPT ![q] = p] /\ UNCHANGED todo
    BY <1>1, <1>2, <2>1, PhaseStep DEF ReadInv, TypeOK
  <2>2. CASE Confirmed(e, Final(q, e)) /\ Advance(q, e, Answer(q))
    <3>1. Final(q, e) \in Recorded BY <2>2, ConfirmedIsRecorded
    <3> QED BY <1>1, <1>2, <2>2, <3>1, SavedStep
  <2> QED BY <1>3, <2>1, <2>2
<1>5. AdmissionOnly BY <1>1, <1>4 DEF AdmissionOnly
<1>6. StoreInv' BY <1>1, <1>5, StoreFrame
<1>7. TypeOK' BY <1>1, <1>4 DEF ReadInv, TypeOK, store
<1> QED BY <1>2, <1>4, <1>6, <1>7 DEF ReadInv

LEMMA SaveFinalStep ==
    ASSUME ReadInv, NEW q \in Requests, NEW e \in Reads, SaveFinal(q, e)
    PROVE  ReadInv'
<1>1. phase[q] = "save" /\ Turn(q, e) /\ UNCHANGED <<sent, strays, result, payload, token, renewing, cands, faults>>
  BY DEF SaveFinal
<1>2. StraysOwn' BY <1>1 DEF ReadInv, StraysOwn
<1>3. Final(q, e) \in Record /\ Final(q, e).ev = e BY <1>1, FinalIsRecord
<1>4. \/ Confirmed(e, Final(q, e)) /\ Advance(q, e, Answer(q)) /\ UNCHANGED <<row, outbox>>
      \/ MayFinalize(e, token[e]) /\ SaveTerminal(e, Final(q, e)) /\ Advance(q, e, Answer(q))
      \/ phase' = [phase EXCEPT ![q] = "withheld"] /\ UNCHANGED <<todo, row, outbox>>
  BY DEF SaveFinal, Withhold
<1>5. CASE Confirmed(e, Final(q, e)) /\ Advance(q, e, Answer(q)) /\ UNCHANGED <<row, outbox>>
  <2>1. Final(q, e) \in Recorded /\ Recorded' = Recorded BY <1>1, <1>5, ConfirmedIsRecorded DEF Recorded
  <2>2. /\ ExecutorInv' /\ phase' \in [Requests -> {"admit", "run", "check", "save"} \cup Ended]
        /\ todo' \in [Requests -> SUBSET Reads]
        /\ \A r \in Requests : phase'[r] = "admit" => phase[r] = "admit"
    BY <1>1, <1>5, <2>1, SavedStep
  <2>3. AdmissionOnly BY <1>1, <2>2 DEF AdmissionOnly
  <2>4. StoreInv' BY <1>1, <1>5, <2>3, StoreFrame DEF store
  <2>5. TypeOK' BY <1>1, <1>5, <2>2 DEF ReadInv, TypeOK
  <2> QED BY <1>2, <2>2, <2>4, <2>5 DEF ReadInv
<1>6. CASE MayFinalize(e, token[e]) /\ SaveTerminal(e, Final(q, e)) /\ Advance(q, e, Answer(q))
  <2>1. Final(q, e) \in Recorded' /\ Recorded \subseteq Recorded' BY <1>1, <1>6 DEF Recorded, SaveTerminal
  <2>2. /\ ExecutorInv' /\ phase' \in [Requests -> {"admit", "run", "check", "save"} \cup Ended]
        /\ todo' \in [Requests -> SUBSET Reads]
        /\ \A r \in Requests : phase'[r] = "admit" => phase[r] = "admit"
    BY <1>1, <1>6, <2>1, SavedStep
  <2>3. AdmissionOnly BY <1>1, <2>2 DEF AdmissionOnly
  <2>4. Pending(e) BY <1>6 DEF MayFinalize, Owned
  <2>5. StoreInv' BY <1>1, <1>3, <1>6, <2>3, <2>4, StoreTerminal
  <2>6. row' \in [Reads -> RowStates] /\ outbox' \subseteq Record BY <1>3, <1>6, TerminalType DEF ReadInv
  <2>7. TypeOK' BY <1>1, <2>2, <2>6 DEF ReadInv, TypeOK
  <2> QED BY <1>2, <2>2, <2>5, <2>7 DEF ReadInv
<1>7. CASE phase' = [phase EXCEPT ![q] = "withheld"] /\ UNCHANGED <<todo, row, outbox>>
  <2>1. renewing' \subseteq Reads /\ faults' \in Nat /\ strays' \subseteq Call BY <1>1 DEF ReadInv, TypeOK
  <2> QED BY <1>1, <1>2, <1>7, <2>1, RefusedStep DEF store
<1> QED BY <1>4, <1>5, <1>6, <1>7

\* A finalization whose answer is lost is a well-typed stray of its own event.
LEMMA FinalizeCall ==
    ASSUME ReadInv, NEW q \in Requests, NEW e \in Reads, phase[q] \in {"check", "save"}
    PROVE  /\ [op |-> "finalize", ev |-> e, gen |-> token[e], rec |-> Final(q, e)] \in Call
           /\ Final(q, e).ev = e
<1>1. Final(q, e) \in Record /\ Final(q, e).ev = e BY FinalIsRecord
<1>2. token[e] \in Nat BY DEF ReadInv, TypeOK
<1> QED BY <1>1, <1>2 DEF Call

LEMMA FinalizeLostStep ==
    ASSUME ReadInv, NEW q \in Requests, NEW e \in Reads, FinalizeLost(q, e)
    PROVE  ReadInv'
<1> DEFINE c == [op |-> "finalize", ev |-> e, gen |-> token[e], rec |-> Final(q, e)]
<1>1. /\ phase[q] \in {"check", "save"} /\ Fault /\ Stray(c)
      /\ UNCHANGED <<store, todo, result, payload, token, renewing, cands>>
  BY DEF FinalizeLost, RetryFinalize
<1>2. PICK p \in {"check", "withheld"} : phase' = [phase EXCEPT ![q] = p] BY DEF FinalizeLost, RetryFinalize
<1>3. c \in Call /\ c.op = "finalize" /\ c.rec.ev = c.ev BY <1>1, FinalizeCall
<1> HIDE DEF c
<1>4. strays' \subseteq Call /\ StraysOwn' /\ \A d \in strays' : d \in strays \/ d = c BY <1>1, <1>3, StrayType
<1>5. Recorded' = Recorded BY <1>1 DEF Recorded, store
<1>6. /\ ExecutorInv' /\ phase' \in [Requests -> {"admit", "run", "check", "save"} \cup Ended]
      /\ \A r \in Requests : phase'[r] = "admit" => phase[r] = "admit"
  BY <1>1, <1>2, <1>5, PhaseStep
<1>7. AdmissionOnly BY <1>3, <1>4, <1>6 DEF AdmissionOnly
<1>8. StoreInv' BY <1>1, <1>7, StoreFrame
<1>9. TypeOK' BY <1>1, <1>4, <1>6, FaultType DEF ReadInv, TypeOK, store
<1> QED BY <1>4, <1>6, <1>8, <1>9 DEF ReadInv

LEMMA InFlightCall ==
    ASSUME ReadInv, NEW q \in Requests, NEW e \in Reads, RequestOf[e] = q, phase[q] \notin Ended
    PROVE  /\ InFlight(q, e) \in Call
           /\ InFlight(q, e).op \in {"finalize", "recover"} => InFlight(q, e).rec.ev = InFlight(q, e).ev
           /\ InFlight(q, e).op = "begin" => phase[RequestOf[InFlight(q, e).ev]] = "admit"
<1>1. CASE phase[q] = "admit"
  <2>1. InFlight(q, e) = [op |-> "begin", ev |-> e] BY <1>1 DEF InFlight
  <2> QED BY <1>1, <2>1 DEF Call
<1>2. CASE phase[q] = "run"
  <2>1. InFlight(q, e) = [op |-> "renew", ev |-> e, gen |-> token[e]] BY <1>2 DEF InFlight
  <2>2. token[e] \in Nat BY DEF ReadInv, TypeOK
  <2> QED BY <2>1, <2>2 DEF Call
<1>3. CASE phase[q] \in {"check", "save"}
  <2>1. InFlight(q, e) = [op |-> "finalize", ev |-> e, gen |-> token[e], rec |-> Final(q, e)]
    BY <1>3 DEF InFlight
  <2> QED BY <1>3, <2>1, FinalizeCall
<1> QED BY <1>1, <1>2, <1>3 DEF ReadInv, TypeOK

LEMMA CrashStep ==
    ASSUME ReadInv, NEW q \in Requests, NEW e \in Reads, Crash(q, e)
    PROVE  ReadInv'
<1>1. /\ phase[q] \notin Ended /\ Turn(q, e) /\ Fault /\ phase' = [phase EXCEPT ![q] = "dead"]
      /\ renewing' \subseteq Reads /\ UNCHANGED <<store, todo, result, payload, token, cands>>
  BY DEF Crash, OthersRenewing, ReadInv, TypeOK
<1>2. RequestOf[e] = q BY <1>1, TurnFacts
<1>3. PICK c : c = InFlight(q, e) OBVIOUS
<1>4. /\ c \in Call /\ (c.op \in {"finalize", "recover"} => c.rec.ev = c.ev)
      /\ (c.op = "begin" => phase[RequestOf[c.ev]] = "admit")
  BY <1>1, <1>2, <1>3, InFlightCall
<1>5. Stray(c) BY <1>3 DEF Crash, Stray
<1>6. strays' \subseteq Call /\ StraysOwn' /\ \A d \in strays' : d \in strays \/ d = c BY <1>4, <1>5, StrayType
<1>7. \A d \in strays' : d.op = "begin" => d \in strays \/ phase[RequestOf[d.ev]] = "admit" BY <1>4, <1>6
<1>8. faults' \in Nat BY <1>1, FaultType DEF ReadInv
<1> QED BY <1>1, <1>6, <1>7, <1>8, RefusedStep

LEMMA ResolveStrayStep ==
    ASSUME ReadInv, NEW c \in strays, ResolveStray(c)
    PROVE  ReadInv'
<1>1. strays' = strays \ {c} /\ UNCHANGED <<sent, phase, todo, result, payload, token, renewing, cands, faults>>
  BY DEF ResolveStray, executor
<1>2. AdmissionOnly /\ StraysOwn' BY <1>1 DEF AdmissionOnly, ReadInv, StraysOwn
<1>3. c \in Call /\ c.ev \in Reads BY DEF ReadInv, TypeOK, Call
<1>4. row' \in [Reads -> RowStates] /\ outbox \subseteq outbox' /\ outbox' \subseteq Record /\ StoreInv'
  <2>1. CASE c.op = "begin" /\ row[c.ev] = NoRow /\ OpsReadBegin(c.ev) /\ UNCHANGED outbox
    <3>1. row' \in [Reads -> RowStates] /\ row'[c.ev].kind = "pending"
          /\ \A f \in Reads : f # c.ev => row'[f] = row[f]
      BY <1>3, <2>1, BeginType DEF ReadInv
    <3>2. StoreInv' BY <1>1, <1>2, <1>3, <2>1, <3>1, StorePending
    <3> QED BY <2>1, <3>1, <3>2 DEF ReadInv, TypeOK
  <2>2. CASE c.op = "renew" /\ Owned(c.ev, c.gen) /\ OpsReadRenew(c.ev) /\ UNCHANGED outbox
    <3>1. row' \in [Reads -> RowStates] /\ row'[c.ev].kind = "pending"
          /\ \A f \in Reads : f # c.ev => row'[f] = row[f]
      BY <1>3, <2>2, RenewType DEF ReadInv, Owned
    <3>2. StoreInv' BY <1>1, <1>2, <1>3, <2>2, <3>1, StorePending DEF Owned
    <3> QED BY <2>2, <3>1, <3>2 DEF ReadInv, TypeOK
  <2>3. CASE c.op \in {"finalize", "recover"} /\ Pending(c.ev) /\ SaveTerminal(c.ev, c.rec)
    <3>1. c.rec \in Record /\ c.rec.ev = c.ev BY <1>3, <2>3 DEF ReadInv, StraysOwn, Call
    <3>2. row' \in [Reads -> RowStates] /\ outbox' \subseteq Record BY <1>3, <2>3, <3>1, TerminalType DEF ReadInv
    <3>3. StoreInv' BY <1>1, <1>2, <1>3, <2>3, <3>1, StoreTerminal
    <3> QED BY <2>3, <3>2, <3>3 DEF SaveTerminal
  <2>4. CASE UNCHANGED <<row, outbox>>
    <3>1. StoreInv' BY <1>1, <1>2, <2>4, StoreFrame DEF store
    <3> QED BY <2>4, <3>1 DEF ReadInv, TypeOK
  <2> QED BY <2>1, <2>2, <2>3, <2>4 DEF ResolveStray, StrayTakes, MayFinalize, Recoverable, Owned
<1>5. TypeOK' BY <1>1, <1>4 DEF ReadInv, TypeOK
<1>6. Recorded \subseteq Recorded' BY <1>1, <1>4 DEF Recorded
<1> QED BY <1>1, <1>2, <1>4, <1>5, <1>6, OtherStep

LEMMA ScanStep ==
    ASSUME ReadInv, NEW w \in Workers, Scan(w)
    PROVE  ReadInv'
<1>1. UNCHANGED <<store, strays, phase, todo, result, payload, token, renewing, faults>> BY DEF Scan, executor
<1>2. PICK S \in SUBSET Expired :
        cands' = [cands EXCEPT ![w] = {[ev |-> e, gen |-> row[e].gen, lease |-> row[e].lease] : e \in S}]
  BY DEF Scan
<1>3. \A e \in S : e \in Reads /\ row[e].gen \in Nat /\ row[e].lease \in Nat
  BY PendingType DEF Expired, ReadInv, PendingRow
<1>4. {[ev |-> e, gen |-> row[e].gen, lease |-> row[e].lease] : e \in S} \in SUBSET [ev : Reads, gen : Nat, lease : Nat]
  BY <1>3
<1>5. TypeOK' BY <1>1, <1>2, <1>4 DEF ReadInv, TypeOK, store
<1>6. AdmissionOnly /\ StraysOwn' /\ Recorded' = Recorded
  BY <1>1 DEF AdmissionOnly, ReadInv, StraysOwn, Recorded, store
<1>7. StoreInv' BY <1>1, <1>6, StoreFrame
<1> QED BY <1>1, <1>5, <1>6, <1>7, OtherStep

LEMMA RecoverOneStep ==
    ASSUME ReadInv, NEW w \in Workers, NEW k \in cands[w], RecoverOne(w, k)
    PROVE  ReadInv'
<1>1. /\ cands' = [cands EXCEPT ![w] = @ \ {k}]
      /\ UNCHANGED <<sent, strays, phase, todo, result, payload, token, renewing, faults>>
  BY DEF RecoverOne, executor
<1>2. AdmissionOnly /\ StraysOwn' BY <1>1 DEF AdmissionOnly, ReadInv, StraysOwn
<1>3. k.ev \in Reads BY DEF ReadInv, TypeOK
<1>4. Incomplete(w, k.ev) \in Record /\ Incomplete(w, k.ev).ev = k.ev BY <1>3 DEF Incomplete, Record, Outcomes
<1>5. row' \in [Reads -> RowStates] /\ outbox \subseteq outbox' /\ outbox' \subseteq Record /\ StoreInv'
  <2>1. CASE Recoverable(k.ev, k.gen, k.lease)
    <3>1. Pending(k.ev) /\ SaveTerminal(k.ev, Incomplete(w, k.ev)) BY <2>1 DEF RecoverOne, Recoverable, Owned
    <3>2. row' \in [Reads -> RowStates] /\ outbox' \subseteq Record BY <1>3, <1>4, <3>1, TerminalType DEF ReadInv
    <3>3. StoreInv' BY <1>1, <1>2, <1>3, <1>4, <3>1, StoreTerminal
    <3> QED BY <3>1, <3>2, <3>3 DEF SaveTerminal
  <2>2. CASE ~Recoverable(k.ev, k.gen, k.lease)
    <3>1. UNCHANGED <<row, outbox>> BY <2>2 DEF RecoverOne
    <3>2. StoreInv' BY <1>1, <1>2, <3>1, StoreFrame DEF store
    <3> QED BY <3>1, <3>2 DEF ReadInv, TypeOK
  <2> QED BY <2>1, <2>2
<1>6. TypeOK' BY <1>1, <1>5 DEF ReadInv, TypeOK
<1>7. Recorded \subseteq Recorded' BY <1>1, <1>5 DEF Recorded
<1> QED BY <1>1, <1>2, <1>5, <1>6, <1>7, OtherStep

LEMMA RecoverLostStep ==
    ASSUME ReadInv, NEW w \in Workers, NEW k \in cands[w], RecoverLost(w, k)
    PROVE  ReadInv'
<1> DEFINE c == [op |-> "recover", ev |-> k.ev, gen |-> k.gen, lease |-> k.lease, rec |-> Incomplete(w, k.ev)]
<1>1. /\ Fault /\ Stray(c) /\ cands' = [cands EXCEPT ![w] = {}]
      /\ UNCHANGED <<store, phase, todo, result, payload, token, renewing>>
  BY DEF RecoverLost, executor
<1>2. k.ev \in Reads /\ k.gen \in Nat /\ k.lease \in Nat BY DEF ReadInv, TypeOK
<1>3. Incomplete(w, k.ev) \in Record /\ Incomplete(w, k.ev).ev = k.ev BY <1>2 DEF Incomplete, Record, Outcomes
<1>4. c \in Call /\ c.op = "recover" /\ c.rec.ev = c.ev BY <1>2, <1>3 DEF Call
<1> HIDE DEF c
<1>5. strays' \subseteq Call /\ StraysOwn' /\ \A d \in strays' : d \in strays \/ d = c BY <1>1, <1>4, StrayType
<1>6. AdmissionOnly BY <1>1, <1>4, <1>5 DEF AdmissionOnly
<1>7. StoreInv' BY <1>1, <1>6, StoreFrame
<1>8. TypeOK' BY <1>1, <1>5, FaultType DEF ReadInv, TypeOK, store
<1>9. Recorded' = Recorded BY <1>1 DEF Recorded, store
<1> QED BY <1>1, <1>5, <1>7, <1>8, <1>9, OtherStep

\* A flag of a pending row changes.
LEMMA ClockStep ==
    ASSUME ReadInv, NEW e \in Reads, Pending(e), NEW r \in PendingRow, row' = [row EXCEPT ![e] = r],
           UNCHANGED <<outbox, sent, strays, executor, cands, faults>>
    PROVE  ReadInv'
<1>1. UNCHANGED <<outbox, sent, strays, phase, todo, result, payload, token, renewing, cands, faults>> BY DEF executor
<1>2. row' \in [Reads -> RowStates] /\ row'[e].kind = "pending" /\ \A f \in Reads : f # e => row'[f] = row[f]
  BY DEF ReadInv, TypeOK, RowStates, PendingRow
<1>3. AdmissionOnly /\ StraysOwn' /\ Recorded' = Recorded
  BY <1>1 DEF AdmissionOnly, ReadInv, StraysOwn, Recorded
<1>4. StoreInv' BY <1>1, <1>2, <1>3, StorePending
<1>5. TypeOK' BY <1>1, <1>2 DEF ReadInv, TypeOK
<1> QED BY <1>1, <1>3, <1>4, <1>5, OtherStep

LEMMA ExpireLeaseStep ==
    ASSUME ReadInv, NEW e \in Reads, ExpireLease(e) \/ CloseAdmission(e)
    PROVE  ReadInv'
<1>1. Pending(e) /\ UNCHANGED <<outbox, sent, strays, executor, cands, faults>>
  BY DEF ExpireLease, CloseAdmission
<1>2. row[e] \in PendingRow BY <1>1, PendingType DEF ReadInv
<1>3. CASE ExpireLease(e)
  <2>1. row' = [row EXCEPT ![e] = [row[e] EXCEPT !.late = TRUE]] BY <1>3 DEF ExpireLease, ReadInv, TypeOK
  <2>2. [row[e] EXCEPT !.late = TRUE] \in PendingRow BY <1>2 DEF PendingRow
  <2> QED BY <1>1, <2>1, <2>2, ClockStep
<1>4. CASE CloseAdmission(e)
  <2>1. row' = [row EXCEPT ![e] = [row[e] EXCEPT !.open = FALSE]] BY <1>4 DEF CloseAdmission, ReadInv, TypeOK
  <2>2. [row[e] EXCEPT !.open = FALSE] \in PendingRow BY <1>2 DEF PendingRow
  <2> QED BY <1>1, <2>1, <2>2, ClockStep
<1> QED BY <1>3, <1>4

LEMMA MarkedReceipt ==
    ASSUME NEW r \in Receipt
    PROVE  /\ [r EXCEPT !.published = TRUE] \in Receipt
           /\ [r EXCEPT !.published = TRUE].kind = "done"
           /\ [r EXCEPT !.published = TRUE].rec = r.rec
           /\ [r EXCEPT !.published = TRUE].published = TRUE
  BY DEF Receipt

\* The relay marks the receipt of the record it publishes.
LEMMA RelayStep ==
    ASSUME ReadInv, NEW m \in outbox, Relay(m)
    PROVE  ReadInv'
<1>1. /\ sent' = sent \cup {m} /\ outbox' = outbox \ {m}
      /\ UNCHANGED <<strays, phase, todo, result, payload, token, renewing, cands, faults>>
  BY DEF Relay, executor
<1>2. m \in Record /\ m.ev \in Reads BY DEF ReadInv, TypeOK, Record
<1>3. row[m.ev].kind = "done" /\ row[m.ev].rec = m /\ ~row[m.ev].published
  BY DEF ReadInv, StoreInv, ReceiptsMatch
<1>4. row[m.ev] \in Receipt BY <1>2, <1>3 DEF ReadInv, TypeOK, RowStates, NoRow, PendingRow
<1>5. row' = [row EXCEPT ![m.ev] = [row[m.ev] EXCEPT !.published = TRUE]] BY <1>2, <1>3 DEF Relay, ReadInv, TypeOK
<1>6. /\ [row[m.ev] EXCEPT !.published = TRUE] \in Receipt
      /\ [row[m.ev] EXCEPT !.published = TRUE].kind = "done"
      /\ [row[m.ev] EXCEPT !.published = TRUE].rec = m
      /\ [row[m.ev] EXCEPT !.published = TRUE].published = TRUE
  BY <1>3, <1>4, MarkedReceipt
<1>7. /\ row'[m.ev].kind = "done" /\ row'[m.ev].rec = m /\ row'[m.ev].published = TRUE
      /\ \A f \in Reads : f # m.ev => row'[f] = row[f]
  BY <1>2, <1>5, <1>6 DEF ReadInv, TypeOK
<1>8. row' \in [Reads -> RowStates] BY <1>2, <1>5, <1>6 DEF ReadInv, TypeOK, RowStates
<1>9. TypeOK' BY <1>1, <1>2, <1>8 DEF ReadInv, TypeOK
<1>10. StraysOwn' /\ Recorded' = Recorded BY <1>1 DEF ReadInv, StraysOwn, Recorded
<1>11. \A n \in outbox \cup sent : n.ev \in Reads /\ (n.ev = m.ev => n = m)
  BY DEF ReadInv, StoreInv, OneTerminalEvent, Recorded, TypeOK, Record
<1>12. OneTerminalEvent' BY <1>10 DEF ReadInv, StoreInv, OneTerminalEvent
<1>13. ReceiptsMatch'
  <2>1. \A n \in outbox' : row'[n.ev] = row[n.ev] BY <1>1, <1>7, <1>11
  <2>2. \A n \in outbox' : row'[n.ev].kind = "done" /\ row'[n.ev].rec = n /\ ~row'[n.ev].published
    BY <1>1, <2>1 DEF ReadInv, StoreInv, ReceiptsMatch
  <2>3. ASSUME NEW f \in Reads, row'[f].kind = "done"
        PROVE  IF row'[f].published THEN row'[f].rec \in sent' ELSE row'[f].rec \in outbox'
    <3>1. CASE f = m.ev BY <1>1, <1>7, <3>1
    <3>2. CASE f # m.ev
      <4>1. row'[f] = row[f] BY <1>7, <3>2
      <4>2. row[f].rec # m BY <2>3, <3>2, <4>1 DEF ReadInv, StoreInv, OwnReceipt
      <4> QED BY <1>1, <2>3, <4>1, <4>2 DEF ReadInv, StoreInv, ReceiptsMatch
    <3> QED BY <3>1, <3>2
  <2> QED BY <2>2, <2>3 DEF ReceiptsMatch
<1>14. OwnReceipt' BY <1>7 DEF ReadInv, StoreInv, OwnReceipt
<1>15. SentClosed'
  <2> SUFFICES ASSUME NEW n \in sent'
               PROVE  \/ row'[n.ev].kind = "done" /\ row'[n.ev].rec = n
                      \/ /\ row'[n.ev] = NoRow /\ phase'[RequestOf[n.ev]] # "admit"
                         /\ \A c \in strays' : c.op = "begin" => c.ev # n.ev
    BY DEF SentClosed
  <2>1. CASE n = m BY <1>7, <2>1
  <2>2. CASE n # m
    <3>1. n \in sent /\ row'[n.ev] = row[n.ev] BY <1>1, <1>7, <1>11, <2>2
    <3> QED BY <1>1, <3>1 DEF ReadInv, StoreInv, SentClosed
  <2> QED BY <2>1, <2>2
<1>16. StoreInv' BY <1>12, <1>13, <1>14, <1>15 DEF StoreInv
<1> QED BY <1>1, <1>9, <1>10, <1>16, OtherStep

LEMMA RelayFailsStep ==
    ASSUME ReadInv, NEW m \in outbox, RelayFails(m)
    PROVE  ReadInv'
<1>1. sent' = sent \cup {m} /\ UNCHANGED <<row, outbox, strays, phase, todo, result, payload, token, renewing, cands>>
  BY DEF RelayFails, executor
<1>2. faults' \in Nat BY FaultType DEF RelayFails, ReadInv, TypeOK
<1>3. TypeOK' BY <1>1, <1>2 DEF ReadInv, TypeOK
<1>4. StraysOwn' /\ Recorded' = Recorded BY <1>1 DEF ReadInv, StraysOwn, Recorded
<1>5. OneTerminalEvent' BY <1>4 DEF ReadInv, StoreInv, OneTerminalEvent
<1>6. ReceiptsMatch' /\ OwnReceipt' BY <1>1 DEF ReadInv, StoreInv, ReceiptsMatch, OwnReceipt
<1>7. row[m.ev].kind = "done" /\ row[m.ev].rec = m BY DEF ReadInv, StoreInv, ReceiptsMatch
<1>8. SentClosed' BY <1>1, <1>7 DEF ReadInv, StoreInv, SentClosed
<1>9. StoreInv' BY <1>5, <1>6, <1>8 DEF StoreInv
<1> QED BY <1>1, <1>3, <1>4, <1>9, OtherStep

\* Only a published receipt goes, when no admission can follow.
LEMMA CleanupStep ==
    ASSUME ReadInv, NEW e \in Reads, Cleanup(e)
    PROVE  ReadInv'
<1>1. /\ row[e].kind = "done" /\ row[e].published /\ phase[RequestOf[e]] # "admit"
      /\ \A c \in strays : c.ev # e
      /\ UNCHANGED <<outbox, sent, strays, phase, todo, result, payload, token, renewing, cands, faults>>
  BY DEF Cleanup, Retained, executor
<1>2. row'[e] = NoRow /\ \A f \in Reads : f # e => row'[f] = row[f] BY DEF Cleanup, ReadInv, TypeOK
<1>3. row' \in [Reads -> RowStates] BY DEF Cleanup, ReadInv, TypeOK, RowStates
<1>4. TypeOK' BY <1>1, <1>3 DEF ReadInv, TypeOK
<1>5. StraysOwn' /\ Recorded' = Recorded BY <1>1 DEF ReadInv, StraysOwn, Recorded
<1>6. OneTerminalEvent' BY <1>5 DEF ReadInv, StoreInv, OneTerminalEvent
<1>7. \A m \in outbox : m.ev \in Reads /\ m.ev # e BY <1>1 DEF ReadInv, StoreInv, ReceiptsMatch, TypeOK, Record
<1>8. ReceiptsMatch' BY <1>1, <1>2, <1>7 DEF ReadInv, StoreInv, ReceiptsMatch, NoRow
<1>9. OwnReceipt' BY <1>2 DEF ReadInv, StoreInv, OwnReceipt, NoRow
<1>10. SentClosed'
  <2> SUFFICES ASSUME NEW m \in sent
               PROVE  \/ row'[m.ev].kind = "done" /\ row'[m.ev].rec = m
                      \/ /\ row'[m.ev] = NoRow /\ phase'[RequestOf[m.ev]] # "admit"
                         /\ \A c \in strays' : c.op = "begin" => c.ev # m.ev
    BY <1>1 DEF SentClosed
  <2>1. m.ev \in Reads BY DEF ReadInv, TypeOK, Record
  <2>2. CASE m.ev = e BY <1>1, <1>2, <2>2
  <2>3. CASE m.ev # e BY <1>1, <1>2, <2>1, <2>3 DEF ReadInv, StoreInv, SentClosed
  <2> QED BY <2>2, <2>3
<1>11. StoreInv' BY <1>6, <1>8, <1>9, <1>10 DEF StoreInv
<1> QED BY <1>1, <1>4, <1>5, <1>11, OtherStep

LEMMA StutterStep == ASSUME ReadInv, UNCHANGED vars PROVE ReadInv'
<1>1. UNCHANGED <<row, outbox, sent, strays, phase, todo, result, payload, token, renewing, cands, faults>>
  BY DEF vars, store, executor
<1>2. TypeOK' BY <1>1 DEF ReadInv, TypeOK
<1>3. AdmissionOnly /\ StraysOwn' /\ Recorded' = Recorded
  BY <1>1 DEF AdmissionOnly, ReadInv, StraysOwn, Recorded
<1>4. StoreInv' BY <1>1, <1>3, StoreFrame DEF store
<1> QED BY <1>1, <1>2, <1>3, <1>4, OtherStep
----------------------------------------------------------------------------
\* The store, the calls in flight and the requests' progress agree in every
\* reachable state.
THEOREM ReadInvariant == Spec => []ReadInv
<1>1. ASSUME ReadInv, [Next]_vars PROVE ReadInv'
  <2>1. ASSUME NEW q \in Requests, Execute(q) PROVE ReadInv'
    BY <1>1, <2>1, RunReadStep, AdmitStep, AdmitRefusedStep, CheckOwnerStep, SaveFinalStep DEF Execute
  <2>2. ASSUME NEW q \in Requests, InvalidCompletion(q) PROVE ReadInv'
    BY <1>1, <2>2, InvalidCompletionStep
  <2>3. ASSUME NEW q \in Requests, NEW e \in Reads, AdmitLost(q, e) \/ FinalizeLost(q, e) \/ Crash(q, e)
        PROVE  ReadInv'
    BY <1>1, <2>3, AdmitLostStep, FinalizeLostStep, CrashStep
  <2>4. ASSUME NEW e \in Reads, Renew(e) \/ RenewLost(e) \/ ExpireLease(e) \/ CloseAdmission(e) \/ Cleanup(e)
        PROVE  ReadInv'
    BY <1>1, <2>4, RenewStep, RenewLostStep, ExpireLeaseStep, CleanupStep
  <2>5. ASSUME NEW c \in strays, ResolveStray(c) PROVE ReadInv' BY <1>1, <2>5, ResolveStrayStep
  <2>6. ASSUME NEW w \in Workers, Recover(w) PROVE ReadInv' BY <1>1, <2>6, ScanStep, RecoverOneStep DEF Recover
  <2>7. ASSUME NEW w \in Workers, NEW k \in cands[w], RecoverLost(w, k) PROVE ReadInv'
    BY <1>1, <2>7, RecoverLostStep
  <2>8. ASSUME NEW m \in outbox, Relay(m) \/ RelayFails(m) PROVE ReadInv'
    BY <1>1, <2>8, RelayStep, RelayFailsStep
  <2>9. CASE UNCHANGED vars BY <1>1, <2>9, StutterStep
  <2> QED BY <1>1, <2>1, <2>2, <2>3, <2>4, <2>5, <2>6, <2>7, <2>8, <2>9 DEF Next
<1> QED BY <1>1, InitInv, PTL DEF Spec

LEMMA RecordedIsReturned == ReadInv => ReturnedIsRecorded
<1> SUFFICES ASSUME ReadInv, NEW e \in Reads, phase[RequestOf[e]] \in {"returned", "failed"},
                    NEW m \in Record, m.ev = e
             PROVE  m \in Recorded <=>
                      /\ m.by = Executor /\ m.outcome = result[RequestOf[e]]
                      /\ m.evidence = (phase[RequestOf[e]] = "returned")
  BY DEF ReturnedIsRecorded
<1> DEFINE q == RequestOf[e]
<1>1. q \in Requests /\ e \in ReadsOf(q) BY ReadAssumption DEF ReadsOf
<1>2. Final(q, e) \in Recorded /\ payload[q] = (phase[q] = "returned") BY <1>1 DEF ReadInv, ExecutorInv
<1>3. Final(q, e).ev = e BY DEF Final
<1>4. m \in Recorded <=> m = Final(q, e) BY <1>2, <1>3 DEF ReadInv, StoreInv, OneTerminalEvent
<1>5. m = Final(q, e) <=> m.by = Executor /\ m.outcome = result[q] /\ m.evidence = payload[q]
  BY DEF Final, Record
<1> QED BY <1>2, <1>4, <1>5

\* ExecuteRead never returns a payload, or the read's own error, before every
\* organization has its event, with the read's outcome and, for a payload, its
\* digest, whoever else tried to close the read.
THEOREM PayloadNeedsRecord == Spec => []ReturnedIsRecorded
  BY ReadInvariant, RecordedIsReturned, PTL

\* Finalization, recovery and late calls leave at most one terminal event.
THEOREM TerminalEventUnique == Spec => []OneTerminalEvent
<1>1. ReadInv => OneTerminalEvent BY DEF ReadInv, StoreInv
<1> QED BY <1>1, ReadInvariant, PTL

\* The relay always finds the receipt of the record it holds, so
\* ops_read_acknowledge never refuses it.
THEOREM ReceiptsAgree == Spec => []ReceiptsMatch
<1>1. ReadInv => ReceiptsMatch BY DEF ReadInv, StoreInv
<1> QED BY <1>1, ReadInvariant, PTL
============================================================================
