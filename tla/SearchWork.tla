----------------------------- MODULE SearchWork -----------------------------
(***************************************************************************)
(* The durable search work of one node, and the workers that index it:     *)
(* internal/adapters/foundationdb/search_schedule.go, search_work*.go,     *)
(* search_pending*.go, search_access_progress.go, search_access_pages.go,  *)
(* search_dependents.go, search_fanout.go, search_retirement.go and        *)
(* search_exclusion.go; internal/service/search_worker*.go and             *)
(* search_cleanup.go; and the guarded writes of internal/adapters/search.  *)
(*                                                                         *)
(* A source transaction raises the node's generation and rewrites every    *)
(* pending work record to it.  Workers claim one class of work under a     *)
(* lease.  Live work writes the pages of the current revision, access work *)
(* replaces the access keys of every issued page, cleanup work retires the *)
(* pages of older revisions.  A FoundationDB transaction is one step; an   *)
(* OpenSearch request is a read of the page's state and a conditional      *)
(* write, and a request its worker stopped waiting for may still be        *)
(* applied later.                                                          *)
(*                                                                         *)
(* Data abstraction: the text of a page is the revision it belongs to, the *)
(* compiled access keys of a node are one grant (its entry point), a lease *)
(* and a pending write's deadline are flags that time may lower, and work  *)
(* is read in batches of one document.  The replacement copy class is      *)
(* SearchRebuild's; projections appear only as the changed text that       *)
(* makes a worker restart the revision.                                    *)
(***************************************************************************)
EXTENDS Naturals, FiniteSets

CONSTANTS
    Workers,     \* the search workers of every process
    NoOwner,     \* the owner of a released claim
    Grants,      \* the access keys a node can compile to
    Home,        \* the grant it is created with
    NoParent,    \* the hierarchy defect: no permission boundary
    NoKeys,      \* the empty key list of an access record
    Gone,        \* told to counterparts: the node was deleted
    Pages,       \* pages per revision
    Returns,     \* a node may move back to a grant it left
    MaxEvents    \* bound: source changes, and failed calls, timeouts, lapses,
                 \* crashes, restarts, spent budgets

ASSUME SearchWorkAssumption ==
    /\ NoOwner \notin Workers /\ Home \in Grants
    /\ NoParent \notin Grants /\ NoKeys \notin Grants /\ Gone \notin Grants
    /\ NoParent # NoKeys /\ Gone # NoKeys /\ Gone # NoParent
    /\ Pages \in Nat /\ Pages > 0
    /\ Returns \in BOOLEAN
    /\ MaxEvents \in Nat

Classes == {"live", "access", "cleanup"}

\* Revisions are generations; a bounded run raises the generation at most twice
\* per source change, once per restart and once more for a first exclusion.
MaxRevision == 3 + 2 * MaxEvents
Documents == (1..MaxRevision) \X (0..Pages - 1)
NoDocument == <<0, 0>>
Keys == Grants \cup {NoKeys}

VARIABLES
    present,   \* the node exists
    grant,     \* the access its hierarchy compiles to now
    used,      \* grants it ever had
    fdb,       \* the node's search keys in FoundationDB
    told,      \* what its dependents were last scheduled for
    index,     \* the serving OpenSearch index, by document
    late,      \* requests whose worker stopped waiting
    worker,    \* per worker: the claim it works on and its position
    events     \* changes and faults so far

source == <<present, grant, used>>
vars == <<source, fdb, told, index, late, worker, events>>

NoRecord == [gen |-> 0, rev |-> 0, deleted |-> FALSE]
NoClaim == [owner |-> NoOwner, gen |-> 0, live |-> FALSE]
NoCursor == [gen |-> 0, rev |-> 0, ord |-> 0, doc |-> NoDocument,
             phase |-> "pages"]
NoAccess == [found |-> FALSE, keys |-> NoKeys, pages |-> FALSE,
             dependents |-> FALSE, tracked |-> FALSE, page |-> NoKeys]
AbsentPage == [seq |-> 0, gen |-> 0, retired |-> FALSE, keys |-> NoKeys]
Idle == [pc |-> "idle", class |-> "live", gen |-> 0, rev |-> 0,
         deleted |-> FALSE, ord |-> 0, phase |-> "pages", keys |-> NoKeys,
         doc |-> NoDocument, seq |-> 0, held |-> FALSE, done |-> FALSE]

PCs == {"idle", "content", "register", "probe", "send", "complete", "refresh",
        "compile", "begin", "documents", "update", "dependents", "exclude",
        "yield"}

Phases == {"pages", "refresh", "dependents"}

\* The node's search keys: the counters, and per class the pending work, its
\* lease and its checkpoint; the registered pages, the pending write deadlines
\* and the recorded access.
Records == [gen : Nat, rev : Nat, deleted : BOOLEAN]
Leases == [owner : Workers \cup {NoOwner}, gen : Nat, live : BOOLEAN]
Checkpoints == [gen : Nat, rev : Nat, ord : 0..Pages,
                doc : Documents \cup {NoDocument}, phase : Phases]
AccessStates == [found : BOOLEAN, keys : Keys, pages : BOOLEAN,
                 dependents : BOOLEAN, tracked : BOOLEAN, page : Keys]
SearchKeys ==
    [gen : Nat, rev : Nat, work : [Classes -> Records], claim : [Classes -> Leases],
     cursor : [Classes -> Checkpoints], issued : SUBSET Documents,
     held : SUBSET Documents, access : AccessStates, excluded : BOOLEAN]

Requests == [doc : Documents, class : Classes, gen : Nat, keys : Keys, seq : Nat]
PageStates == [seq : Nat, gen : Nat, retired : BOOLEAN, keys : Keys]
Slices ==
    [pc : PCs, class : Classes, gen : Nat, rev : Nat, deleted : BOOLEAN,
     ord : 0..Pages, phase : Phases, keys : Keys,
     doc : Documents \cup {NoDocument}, seq : Nat, held : BOOLEAN, done : BOOLEAN]

TypeOK ==
    /\ present \in BOOLEAN
    /\ grant \in Grants \cup {NoParent} /\ used \subseteq Grants
    /\ fdb \in SearchKeys
    /\ told \in Keys \cup {Gone}
    /\ index \in [Documents -> PageStates]
    /\ late \subseteq Requests
    /\ worker \in [Workers -> Slices]
    /\ events \in 0..MaxEvents

-----------------------------------------------------------------------------
(* Scheduling: scheduleSearchChange inside a source transaction.           *)

\* Mutants of Plan: a deletion that only rewrites cleanup work; a content change
\* that drops pending access work.
PlanDeletionRewrites ==
    [content   |-> [live |-> "put", access |-> "restart", cleanup |-> "rewrite"],
     access    |-> [live |-> "rewrite", access |-> "put", cleanup |-> "rewrite"],
     deletion  |-> [live |-> "remove", access |-> "remove", cleanup |-> "rewrite"],
     exclusion |-> [live |-> "remove", access |-> "remove", cleanup |-> "put"],
     repair    |-> [live |-> "put", access |-> "put", cleanup |-> "rewrite"]]

PlanContentRemovesAccess ==
    [content   |-> [live |-> "put", access |-> "remove", cleanup |-> "rewrite"],
     access    |-> [live |-> "rewrite", access |-> "put", cleanup |-> "rewrite"],
     deletion  |-> [live |-> "remove", access |-> "remove", cleanup |-> "put"],
     exclusion |-> [live |-> "remove", access |-> "remove", cleanup |-> "put"],
     repair    |-> [live |-> "put", access |-> "put", cleanup |-> "rewrite"]]

\* searchRecordPlans: what one change does to each pending class.
Plan == [content   |-> [live |-> "put", access |-> "restart", cleanup |-> "rewrite"],
         access    |-> [live |-> "rewrite", access |-> "put", cleanup |-> "rewrite"],
         deletion  |-> [live |-> "remove", access |-> "remove", cleanup |-> "put"],
         exclusion |-> [live |-> "remove", access |-> "remove", cleanup |-> "put"],
         repair    |-> [live |-> "put", access |-> "put", cleanup |-> "rewrite"]]

\* clearSearchWork, and the "remove" plan: everything a class keeps.
WithoutWork(s, class) ==
    [s EXCEPT !.work[class] = NoRecord, !.claim[class] = NoClaim,
              !.cursor[class] = NoCursor,
              !.held = IF class = "live" THEN {} ELSE @]

ApplyRecordPlan(s, class, plan, current) ==
    LET existing == s.work[class] IN
    CASE plan = "remove" -> WithoutWork(s, class)
      [] plan # "remove" /\ plan # "put" /\ existing = NoRecord -> s
      [] plan = "rewrite" /\ existing # NoRecord ->
            [s EXCEPT !.work[class] = [existing EXCEPT !.gen = current.gen]]
      [] OTHER ->
            [s EXCEPT !.work[class] = current, !.cursor[class] = NoCursor]

\* initializeSearchAccess: a node without access state gets an empty one.
InitializeAccess(s) ==
    IF s.access.found THEN s
    ELSE [s EXCEPT !.access = [NoAccess EXCEPT !.found = TRUE,
                                               !.tracked = s.issued = {}]]

\* exclusionAdjustedChange.
Adjusted(s, change) ==
    IF change = "access" /\ s.excluded THEN "repair" ELSE change

ScheduleSearchChange(s, asked) ==
    LET change == Adjusted(s, asked)
        gen == s.gen + 1
        rev == IF change \in {"content", "exclusion", "repair"}
               THEN gen ELSE s.rev
        current == [gen |-> gen, rev |-> rev, deleted |-> change = "deletion"]
        counted == [s EXCEPT !.gen = gen, !.rev = rev,
                             !.excluded = @ /\ change # "deletion"]
        planned == ApplyRecordPlan(ApplyRecordPlan(ApplyRecordPlan(counted,
                       "live", Plan[change].live, current),
                       "access", Plan[change].access, current),
                       "cleanup", Plan[change].cleanup, current)
    IN  IF change = "deletion" THEN planned ELSE InitializeAccess(planned)

\* scheduleDeletedFanout: access work of the deleted node, for its counterparts.
ScheduleDeletedFanout(s) ==
    [s EXCEPT !.work["access"] = [gen |-> s.gen, rev |-> s.rev, deleted |-> TRUE],
              !.cursor["access"] = [NoCursor EXCEPT !.gen = s.gen, !.rev = s.rev,
                                                    !.phase = "dependents"]]

Event == events < MaxEvents /\ events' = events + 1
Change == Event

\* A content edit of the node.
EditContent ==
    /\ present /\ Change
    /\ fdb' = ScheduleSearchChange(fdb, "content")
    /\ UNCHANGED <<source, told, index, late, worker>>

\* A grant the node can move to; a broken hierarchy is always possible.
Reachable(k) ==
    /\ k # grant
    /\ k = NoParent \/ Returns \/ k \notin used

\* A relationship of the node itself changes: scheduleRelatedSearchWork.
Move(k) ==
    /\ present /\ Reachable(k) /\ Change
    /\ grant' = k /\ used' = used \cup ({k} \cap Grants)
    /\ fdb' = ScheduleSearchChange(fdb, "access")
    /\ UNCHANGED <<present, told, index, late, worker>>

Delete(counterparts) ==
    /\ present /\ Change
    /\ present' = FALSE
    /\ LET s == ScheduleSearchChange(fdb, "deletion")
       IN  fdb' = IF counterparts THEN ScheduleDeletedFanout(s) ELSE s
    /\ told' = IF counterparts THEN told ELSE Gone
    /\ UNCHANGED <<grant, used, index, late, worker>>

-----------------------------------------------------------------------------
(* Claims.                                                                 *)

Fault == Event

\* Where a worker starts in a claimed item.
FirstStep(class, phase) ==
    CASE class = "live" /\ phase = "pages" -> "content"
      [] class = "live" /\ phase # "pages" -> "refresh"
      [] class = "access" /\ phase = "dependents" -> "dependents"
      [] class = "access" /\ phase # "dependents" -> "compile"
      [] class = "cleanup" -> "documents"

\* readProgress: the stored checkpoint, when it belongs to this record.
Progress(s, class) ==
    LET record == s.work[class]  cursor == s.cursor[class] IN
    IF \/ class = "live" /\ cursor.rev = record.rev
       \/ class # "live" /\ cursor.gen = record.gen
    THEN cursor ELSE NoCursor

Claimed(w, class) ==
    LET record == fdb.work[class]  cursor == Progress(fdb, class) IN
    [Idle EXCEPT !.pc = FirstStep(class, cursor.phase), !.class = class,
                 !.gen = record.gen, !.rev = record.rev,
                 !.deleted = record.deleted, !.ord = cursor.ord,
                 !.doc = cursor.doc, !.phase = cursor.phase]

\* claimWorkItem: drop a record of another generation, respect a claim of
\* this generation whose lease has not ended, otherwise lease the item.
Claim(w, class) ==
    LET record == fdb.work[class]  claim == fdb.claim[class] IN
    /\ worker[w].pc = "idle" /\ record # NoRecord
    /\ ~(claim.gen = record.gen /\ claim.live)
    /\ IF record.gen # fdb.gen
       THEN /\ fdb' = [fdb EXCEPT !.work[class] = NoRecord, !.claim[class] = NoClaim,
                                  !.held = IF class = "live" THEN {} ELSE @]
            /\ UNCHANGED worker
       ELSE /\ fdb' = [fdb EXCEPT !.claim[class] =
                           [owner |-> w, gen |-> record.gen, live |-> TRUE]]
            /\ worker' = [worker EXCEPT ![w] = Claimed(w, class)]
    /\ UNCHANGED <<source, told, index, late, events>>

\* verifyClaim, at the start of every transaction of a slice.
Verified(w) ==
    LET me == worker[w]  claim == fdb.claim[me.class] IN
    /\ fdb.work[me.class].gen = me.gen /\ fdb.gen = me.gen
    /\ claim.owner = w /\ claim.gen = me.gen /\ claim.live

Working(class) == \E w \in Workers : /\ worker[w].pc # "idle"
                                     /\ worker[w].class = class
                                     /\ fdb.claim[class].owner = w

\* Time ends a lease: of a released or abandoned item in the normal course,
\* of an item in work when its worker is slower than the lease.
LeaseLapses(class) ==
    /\ fdb.claim[class].live
    /\ IF Working(class) THEN Fault ELSE UNCHANGED events
    /\ fdb' = [fdb EXCEPT !.claim[class].live = FALSE]
    /\ UNCHANGED <<source, told, index, late, worker>>

Goes(w, pc) == worker' = [worker EXCEPT ![w].pc = pc]
Ends(w) == worker' = [worker EXCEPT ![w] = Idle]

\* Release: the work stays pending behind a claim nobody owns.
Released(s, w) ==
    IF ~Verified(w) THEN s
    ELSE [s EXCEPT !.claim[worker[w].class] =
             [owner |-> NoOwner, gen |-> worker[w].gen, live |-> TRUE]]

\* Yield: the claim is cleared, the work and its checkpoint stay.
Yield(w) ==
    /\ worker[w].pc = "yield"
    /\ fdb' = IF Verified(w) THEN [fdb EXCEPT !.claim[worker[w].class] = NoClaim]
              ELSE fdb
    /\ Ends(w)
    /\ UNCHANGED <<source, told, index, late, events>>

\* contentSlice between two pages or before the refresh.
BudgetSpent(w) ==
    /\ worker[w].pc \in {"content", "refresh"} /\ Fault
    /\ Goes(w, "yield")
    /\ UNCHANGED <<source, fdb, told, index, late>>

\* A call failed for sure: settle and settleEngine release the work.
CallFails(w) ==
    /\ worker[w].pc \notin {"idle", "yield", "exclude"} /\ Fault
    /\ fdb' = Released(fdb, w)
    /\ Ends(w)
    /\ UNCHANGED <<source, told, index, late>>

\* The write a worker has in flight.
Request(w) == [doc |-> worker[w].doc, class |-> worker[w].class,
               gen |-> worker[w].gen, keys |-> worker[w].keys,
               seq |-> worker[w].seq]

\* The process ends; a request it sent may still reach the index.
Crash(w) ==
    /\ worker[w].pc # "idle" /\ Fault
    /\ late' = IF worker[w].pc \in {"send", "update"}
               THEN late \cup {Request(w)} ELSE late
    /\ Ends(w)
    /\ UNCHANGED <<source, fdb, told, index>>

\* OperationTimeout ends the wait for a write.  settleAbandonedWrite records
\* the page's pending write with the release, the other classes only release.
TimesOut(w) ==
    /\ worker[w].pc \in {"send", "update"} /\ Fault
    /\ late' = late \cup {Request(w)}
    /\ LET s == Released(fdb, w) IN
       fdb' = IF worker[w].class = "live" /\ Verified(w)
              THEN [s EXCEPT !.held = @ \cup {worker[w].doc}] ELSE s
    /\ Ends(w)
    /\ UNCHANGED <<source, told, index>>

-----------------------------------------------------------------------------
(* The index.                                                              *)

\* Mutant of Accepts: an index request without its precondition.
AcceptsUnconditionally(q) ==
    LET page == index[q.doc] IN
    q.class = "access" => page.seq > 0 /\ ~page.retired /\ page.gen < q.gen

\* accessUpdateScript under the document lock, and a guarded index or create.
Accepts(q) ==
    LET page == index[q.doc] IN
    IF q.class = "access" THEN page.seq > 0 /\ ~page.retired /\ page.gen < q.gen
    ELSE page.seq = q.seq

Stored(q) ==
    [index EXCEPT ![q.doc] =
        [seq |-> @.seq + 1, gen |-> q.gen, retired |-> q.class = "cleanup",
         keys |-> IF q.class = "cleanup" THEN NoKeys ELSE q.keys]]

\* An abandoned request arrives after all; nothing makes it.
LateArrives(q) ==
    /\ q \in late
    /\ late' = late \ {q}
    /\ index' = IF Accepts(q) THEN Stored(q) ELSE index
    /\ UNCHANGED <<source, fdb, told, worker, events>>

\* Mutant of PendingExpires: the wait ends only with the abandoned request.
PendingExpiresOnArrival(d) ==
    /\ d \in fdb.held /\ \A q \in late : q.doc # d
    /\ fdb' = [fdb EXCEPT !.held = @ \ {d}]
    /\ UNCHANGED <<source, told, index, late, worker, events>>

\* WriteCompletionHorizon after the abandonment passes: checkPendingWrite.
PendingExpires(d) ==
    /\ d \in fdb.held
    /\ fdb' = [fdb EXCEPT !.held = @ \ {d}]
    /\ UNCHANGED <<source, told, index, late, worker, events>>

-----------------------------------------------------------------------------
(* Live work: contentSlice.                                                *)

\* Content of the claimed generation, with the access compiled for it.
ReadContent(w) ==
    /\ worker[w].pc = "content"
    /\ IF ~present \/ fdb.gen # worker[w].gen THEN Goes(w, "yield")
       ELSE IF grant = NoParent THEN Goes(w, "exclude")
       ELSE worker' = [worker EXCEPT ![w].pc = "register", ![w].keys = grant,
                           ![w].doc = <<worker[w].rev, worker[w].ord>>]
    /\ UNCHANGED <<source, fdb, told, index, late, events>>

\* ErrContentChanged: the projected text changed under the cursor.  Or
\* restartObsoleteProjection, in the transaction of CompleteRefresh: the pages
\* were made by a projection that is no longer the active one.
Restart(w) ==
    /\ worker[w].pc \in {"content", "register", "refresh"} /\ worker[w].class = "live"
    /\ worker[w].pc = "refresh" => Progress(fdb, "live").phase = "refresh"
    /\ Fault
    /\ fdb' = IF ~Verified(w) THEN fdb
              ELSE ScheduleSearchChange([fdb EXCEPT !.claim["live"] = NoClaim], "content")
    /\ Ends(w)
    /\ UNCHANGED <<source, told, index, late>>

\* verifyPage: the next page of the claimed revision.
PageVerified(w) ==
    LET me == worker[w] IN
    /\ Verified(w) /\ fdb.work["live"].rev = me.rev /\ fdb.rev = me.rev
    /\ Progress(fdb, "live").phase = "pages" /\ Progress(fdb, "live").ord = me.ord
    /\ fdb.access.found

\* trackRegisteredAccess.
Tracked(access, keys) ==
    CASE ~access.tracked -> access
      [] access.tracked /\ access.page = NoKeys -> [access EXCEPT !.page = keys]
      [] access.tracked /\ access.page = keys -> access
      [] OTHER -> [access EXCEPT !.page = NoKeys, !.tracked = FALSE]

Register(w) ==
    /\ worker[w].pc = "register"
    /\ IF PageVerified(w)
       THEN /\ fdb' = [fdb EXCEPT !.issued = @ \cup {worker[w].doc},
                                  !.access = Tracked(@, worker[w].keys)]
            /\ worker' = [worker EXCEPT ![w].pc = "probe",
                                        ![w].held = worker[w].doc \in fdb.held]
       ELSE Goes(w, "yield") /\ UNCHANGED fdb
    /\ UNCHANGED <<source, told, index, late, events>>

\* Mutant of Decision: a retirement leaves an absent page absent.
DecisionSkipsAbsent(w) ==
    LET me == worker[w]  page == index[me.doc] IN
    CASE page.seq = 0 /\ me.class = "cleanup" -> "skip"
      [] page.seq = 0 /\ me.class # "cleanup" -> IF me.held THEN "held" ELSE "write"
      [] page.seq > 0 /\ me.class = "cleanup" ->
            IF page.gen > me.gen THEN "skip" ELSE "write"
      [] OTHER -> IF page.retired \/ page.gen > me.gen THEN "stale"
                  ELSE IF page.gen = me.gen THEN "skip" ELSE "write"

\* decideGuardedWrite over the page that writeGuarded read.
Decision(w) ==
    LET me == worker[w]  page == index[me.doc] IN
    CASE page.seq = 0 -> IF me.held THEN "held" ELSE "write"
      [] page.seq > 0 /\ me.class = "cleanup" ->
            IF page.gen > me.gen THEN "skip" ELSE "write"
      [] OTHER -> IF page.retired \/ page.gen > me.gen THEN "stale"
                  ELSE IF page.gen = me.gen THEN "skip" ELSE "write"

\* The read of a guarded write.  A held page releases the work: awaitPendingWrite.
Probe(w) ==
    /\ worker[w].pc = "probe"
    /\ CASE Decision(w) = "write" ->
              /\ worker' = [worker EXCEPT ![w].pc = "send", ![w].seq = index[worker[w].doc].seq]
              /\ UNCHANGED fdb
         [] Decision(w) = "skip" -> Goes(w, "complete") /\ UNCHANGED fdb
         [] Decision(w) = "stale" -> Goes(w, "yield") /\ UNCHANGED fdb
         [] Decision(w) = "held" -> fdb' = Released(fdb, w) /\ Ends(w)
    /\ UNCHANGED <<source, told, index, late, events>>

\* The conditional write; a 409 reads the page again.
Send(w) ==
    /\ worker[w].pc = "send"
    /\ IF Accepts(Request(w)) THEN index' = Stored(Request(w)) /\ Goes(w, "complete")
       ELSE UNCHANGED index /\ Goes(w, "probe")
    /\ UNCHANGED <<source, fdb, told, late, events>>

\* The last of maxGuardedAttempts conflicts releases the work.
ConflictsExhausted(w) ==
    /\ worker[w].pc = "send" /\ ~Accepts(Request(w))
    /\ fdb' = Released(fdb, w)
    /\ Ends(w)
    /\ UNCHANGED <<source, told, index, late, events>>

CompletePage(w) ==
    LET me == worker[w]
        last == me.ord + 1 = Pages
        phase == IF last THEN "refresh" ELSE "pages" IN
    /\ me.pc = "complete" /\ me.class = "live"
    /\ IF PageVerified(w)
       THEN /\ fdb' = [fdb EXCEPT
                  !.held = IF me.held THEN @ \ {me.doc} ELSE @,
                  !.cursor["live"] = [gen |-> me.gen, rev |-> me.rev, ord |-> me.ord + 1,
                                      doc |-> NoDocument, phase |-> phase]]
            /\ worker' = [worker EXCEPT ![w].ord = me.ord + 1, ![w].phase = phase,
                              ![w].pc = IF last THEN "refresh" ELSE "content",
                              ![w].doc = NoDocument, ![w].seq = 0, ![w].held = FALSE,
                              ![w].keys = NoKeys]
       ELSE Goes(w, "yield") /\ UNCHANGED fdb
    /\ UNCHANGED <<source, told, index, late, events>>

\* The live work ends, the exclusion is lifted and older revisions are due.
CompleteRefresh(w) ==
    /\ worker[w].pc = "refresh"
    /\ IF Verified(w) /\ Progress(fdb, "live").phase = "refresh"
       THEN /\ fdb' = [WithoutWork(fdb, "live") EXCEPT
                  !.excluded = FALSE,
                  !.work["cleanup"] = [fdb.work["live"] EXCEPT !.deleted = FALSE]]
            /\ Ends(w)
       ELSE Goes(w, "yield") /\ UNCHANGED fdb
    /\ UNCHANGED <<source, told, index, late, events>>

\* excludeNode, for live and access work without a permission boundary.
Exclude(w) ==
    /\ worker[w].pc = "exclude"
    /\ fdb' = IF ~Verified(w) THEN fdb
              ELSE [ScheduleSearchChange(WithoutWork(fdb, worker[w].class), "exclusion")
                       EXCEPT !.access.keys = NoKeys, !.access.pages = FALSE,
                              !.access.dependents = FALSE, !.excluded = TRUE]
    /\ Ends(w)
    /\ UNCHANGED <<source, told, index, late, events>>

-----------------------------------------------------------------------------
(* Access work: accessSlice.                                               *)

Compile(w) ==
    /\ worker[w].pc = "compile"
    /\ IF ~present THEN Goes(w, "yield")
       ELSE IF grant = NoParent THEN Goes(w, "exclude")
       ELSE worker' = [worker EXCEPT ![w].pc = "begin", ![w].keys = grant]
    /\ UNCHANGED <<source, fdb, told, index, late, events>>

AccessCursor(me, doc, phase) ==
    [gen |-> me.gen, rev |-> me.rev, ord |-> 0, doc |-> doc, phase |-> phase]

\* Mutant of PagesStored: the registered access is not compared.
PagesStoredUncompared(access, keys) == access.tracked /\ ~access.pages

\* checkRegisteredPages: tracking shows that no issued page needs a rewrite.
PagesStored(access, keys) ==
    access.tracked /\ ~access.pages /\ access.page \in {NoKeys, keys}

BeginAccess(w) ==
    LET me == worker[w]
        access == fdb.access
        rewrite == ~PagesStored(access, me.keys) IN
    /\ me.pc = "begin"
    /\ CASE ~Verified(w) -> Goes(w, "yield") /\ UNCHANGED fdb
         [] Verified(w) /\ access.keys # me.keys ->
              /\ fdb' = [fdb EXCEPT
                     !.access = [@ EXCEPT !.keys = me.keys, !.pages = rewrite,
                         !.dependents = TRUE, !.tracked = FALSE, !.page = NoKeys],
                     !.cursor["access"] = AccessCursor(me, NoDocument,
                         IF rewrite THEN "pages" ELSE "dependents")]
              /\ worker' = [worker EXCEPT ![w].doc = NoDocument,
                                ![w].pc = IF rewrite THEN "documents" ELSE "dependents"]
         [] Verified(w) /\ access.keys = me.keys /\ access.pages ->
              Goes(w, "documents") /\ UNCHANGED fdb
         [] Verified(w) /\ access.keys = me.keys /\ ~access.pages /\ access.dependents ->
              /\ fdb' = [fdb EXCEPT !.cursor["access"] =
                             AccessCursor(me, NoDocument, "dependents")]
              /\ Goes(w, "dependents")
         [] OTHER -> fdb' = WithoutWork(fdb, "access") /\ Ends(w)
    /\ UNCHANGED <<source, told, index, late, events>>

\* Issued documents in key order.
Before(d, e) == d[1] < e[1] \/ (d[1] = e[1] /\ d[2] < e[2])

\* issuedDocumentRange.
Selected(w) ==
    LET me == worker[w] IN
    {d \in fdb.issued :
        \/ me.class = "access" /\ Before(me.doc, d)
        \/ me.class = "cleanup" /\ (me.deleted \/ d[1] < me.rev)}

\* Documents: a batch of one.
ReadDocuments(w) ==
    /\ worker[w].pc = "documents"
    /\ worker' = [worker EXCEPT ![w] =
           IF Selected(w) = {}
           THEN [@ EXCEPT !.pc = "complete", !.doc = NoDocument, !.done = TRUE]
           ELSE [@ EXCEPT
                    !.pc = IF worker[w].class = "access" THEN "update" ELSE "probe",
                    !.doc = CHOOSE d \in Selected(w) :
                                \A e \in Selected(w) \ {d} : Before(d, e),
                    !.done = Cardinality(Selected(w)) = 1]]
    /\ UNCHANGED <<source, fdb, told, index, late, events>>

\* The script refuses an older generation, leaves a retired page or a page of
\* this generation alone, and an absent page needs no update.
UpdateAccess(w) ==
    LET page == index[worker[w].doc] IN
    /\ worker[w].pc = "update"
    /\ IF page.seq > 0 /\ page.gen > worker[w].gen
       THEN Goes(w, "yield") /\ UNCHANGED index
       ELSE /\ index' = IF Accepts(Request(w)) THEN Stored(Request(w)) ELSE index
            /\ Goes(w, "complete")
    /\ UNCHANGED <<source, fdb, told, late, events>>

CompleteAccess(w) ==
    LET me == worker[w]
        s == [fdb EXCEPT !.access.pages = FALSE] IN
    /\ me.pc = "complete" /\ me.class = "access"
    /\ fdb' = CASE ~Verified(w) \/ fdb.access.keys # me.keys -> fdb
                [] Verified(w) /\ fdb.access.keys = me.keys /\ ~me.done ->
                     [fdb EXCEPT !.cursor["access"] = AccessCursor(me, me.doc, "pages")]
                [] Verified(w) /\ fdb.access.keys = me.keys /\ me.done /\ fdb.access.dependents ->
                     [s EXCEPT !.cursor["access"] = AccessCursor(me, NoDocument, "dependents")]
                [] OTHER -> WithoutWork(s, "access")
    /\ Goes(w, "yield")
    /\ UNCHANGED <<source, told, index, late, events>>

\* clearDeletedSearchState, by the class of a deleted node that ends last.
FinishDeleted(s, class) ==
    LET t == WithoutWork(s, class)
        other == IF class = "access" THEN "cleanup" ELSE "access" IN
    IF t.work[other] # NoRecord THEN t
    ELSE [WithoutWork(WithoutWork(t, "live"), other)
             EXCEPT !.gen = 0, !.rev = 0, !.access = NoAccess]

\* The dependents fit one page.
ScheduleDependents(w) ==
    /\ worker[w].pc = "dependents"
    /\ IF Verified(w)
       THEN /\ told' = IF worker[w].deleted THEN Gone ELSE fdb.access.keys
            /\ fdb' = IF worker[w].deleted THEN FinishDeleted(fdb, "access")
                      ELSE WithoutWork([fdb EXCEPT !.access.dependents = FALSE], "access")
            /\ Ends(w)
       ELSE Goes(w, "yield") /\ UNCHANGED <<told, fdb>>
    /\ UNCHANGED <<source, index, late, events>>

-----------------------------------------------------------------------------
(* Cleanup work: cleanupSlice.                                             *)

CompleteRetirement(w) ==
    LET me == worker[w]
        s == [fdb EXCEPT !.issued = @ \ {me.doc}] IN
    /\ me.pc = "complete" /\ me.class = "cleanup"
    /\ fdb' = CASE ~Verified(w) -> fdb
                [] Verified(w) /\ ~me.done -> s
                [] Verified(w) /\ me.done /\ fdb.work["cleanup"].deleted ->
                     FinishDeleted(s, "cleanup")
                [] OTHER -> WithoutWork(s, "cleanup")
    /\ IF Verified(w) /\ me.done THEN Ends(w) ELSE Goes(w, "yield")
    /\ UNCHANGED <<source, told, index, late, events>>

-----------------------------------------------------------------------------
\* A new node to which a relationship was added before any worker claimed it:
\* content work of the insert, then access work of scheduleExistingSearchChange.
Init ==
    /\ present = TRUE
    /\ grant = Home /\ used = {Home}
    /\ fdb = [gen |-> 2, rev |-> 1,
              work |-> [c \in Classes |-> IF c = "cleanup" THEN NoRecord
                            ELSE [gen |-> 2, rev |-> 1, deleted |-> FALSE]],
              claim |-> [c \in Classes |-> NoClaim],
              cursor |-> [c \in Classes |-> NoCursor],
              issued |-> {}, held |-> {}, excluded |-> FALSE,
              access |-> [NoAccess EXCEPT !.found = TRUE, !.tracked = TRUE]]
    /\ told = NoKeys
    /\ index = [d \in Documents |-> AbsentPage]
    /\ late = {}
    /\ worker = [w \in Workers |-> Idle]
    /\ events = 0

SourceStep ==
    \/ EditContent
    \/ \E k \in Grants \cup {NoParent} : Move(k)
    \/ \E counterparts \in BOOLEAN : Delete(counterparts)

\* One step of a worker that holds an item.
WorkStep(w) ==
    \/ ReadContent(w) \/ Register(w) \/ Probe(w) \/ Send(w) \/ ConflictsExhausted(w)
    \/ CompletePage(w) \/ CompleteRefresh(w) \/ Exclude(w)
    \/ Compile(w) \/ BeginAccess(w) \/ ReadDocuments(w) \/ UpdateAccess(w)
    \/ CompleteAccess(w) \/ ScheduleDependents(w) \/ CompleteRetirement(w)
    \/ Yield(w)

FaultStep(w) == Restart(w) \/ BudgetSpent(w) \/ CallFails(w) \/ Crash(w) \/ TimesOut(w)

Next ==
    \/ SourceStep
    \/ \E w \in Workers : \/ \E class \in Classes : Claim(w, class)
                          \/ WorkStep(w) \/ FaultStep(w)
    \/ \E class \in Classes : LeaseLapses(class)
    \/ \E q \in late : LateArrives(q)
    \/ \E d \in fdb.held : PendingExpires(d)

Spec == Init /\ [][Next]_vars

\* Workers keep polling, clocks keep running, and a process that holds an item
\* takes its next step; source changes and faults are not required.
Fairness ==
    /\ \A w \in Workers : /\ WF_vars(WorkStep(w))
                          /\ \A class \in Classes : WF_vars(Claim(w, class))
    /\ \A class \in Classes : WF_vars(LeaseLapses(class))
    /\ \A d \in Documents : WF_vars(PendingExpires(d))

FairSpec == Spec /\ Fairness

-----------------------------------------------------------------------------
(* Properties.                                                             *)

Active == {d \in Documents : index[d].seq > 0 /\ ~index[d].retired}
CurrentPages == {<<fdb.rev, o>> : o \in 0..Pages - 1}
Pending(class) == fdb.work[class] # NoRecord
Settled == \A class \in Classes : ~Pending(class)

\* A page's generation never falls and a retired page never becomes active
\* again, whatever order content writes, access updates, retirements, retries
\* and abandoned requests reach the index in.
GenerationsRise ==
    [][\A d \in Documents : /\ index'[d].gen >= index[d].gen
                            /\ index[d].retired => index'[d].retired]_vars

\* scheduleSearchChange keeps every pending record at the node's generation,
\* so claimWorkItem never drops the work of a current change as stale.
RecordsCurrent ==
    \A class \in Classes : Pending(class) => fdb.work[class].gen = fdb.gen

\* Every page a query can match is registered for cleanup, even when the write
\* that stored it was abandoned and arrived later.
ActivePagesIssued == Active \subseteq fdb.issued

\* Once no live work is pending, all pages of the current revision are served;
\* an excluded or deleted node whose cleanup has ended serves no page, and no
\* abandoned write can bring one back.
SettledContent ==
    /\ present /\ ~fdb.excluded /\ ~Pending("live") => CurrentPages \subseteq Active
    /\ (~present \/ fdb.excluded) /\ Settled => Active = {}

\* "After new pages are refreshed, workers retire every older page": with no
\* work pending, no page of an older revision is served.
OlderPagesRetired == Settled => Active \subseteq CurrentPages

\* With no work pending, every page of the current revision carries the access the hierarchy
\* compiles to now.
SettledAccess ==
    present /\ Settled /\ ~fdb.excluded
        => \A d \in Active \cap CurrentPages : index[d].keys = grant

\* With no work pending, the dependents were scheduled after the node's current
\* access was recorded; the counterparts of a deleted node after its deletion.
DependentsTold ==
    Settled =>
        /\ present /\ ~fdb.excluded => told = grant
        /\ ~present => told = Gone

\* Pending work is eventually done, however often it was released, yielded,
\* abandoned or taken over.
WorkDrains == <>[]Settled
=============================================================================
