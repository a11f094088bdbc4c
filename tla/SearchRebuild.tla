--------------------------- MODULE SearchRebuild ---------------------------
(***************************************************************************)
(* The replacement of the serving search index while it is being written:  *)
(* internal/service/search_worker_rebuild.go, search_worker_rebuild_steps. *)
(* go, search_worker_rebuild_switch.go, search_worker_content.go and       *)
(* search_worker_pending.go; internal/adapters/foundationdb/search_rebuild *)
(* *.go, search_work_*.go and search_pending_write.go; the index           *)
(* operations of internal/adapters/search.                                 *)
(*                                                                         *)
(* One durable record drives a replacement through creating, copying,      *)
(* verifying, switching and retiring, or to failed.  From copying on every *)
(* page write goes to the serving index and then to the replacement, its   *)
(* mirror; a mirror write that failed is owed as a copy item.  The switch  *)
(* pauses the claims of page work, waits until the leases granted earlier  *)
(* have ended, and moves the public alias and then the serving index.      *)
(*                                                                         *)
(* A FoundationDB transaction and an OpenSearch request are one step each. *)
(* The record changes only under the claim of the rebuild item, and        *)
(* rebuildSlice cancels its context when that lease ends, so the slices of *)
(* all workers form one sequence, each abandoned anywhere by StepFails.    *)
(*                                                                         *)
(* Data abstraction: one node of Pages pages; a page is its generation,    *)
(* and is searchable once its index was refreshed; leases and pending      *)
(* write deadlines are facts that time may end.  Access and cleanup work,  *)
(* and the probe before a guarded write, are SearchWork's.                 *)
(***************************************************************************)
EXTENDS Naturals, FiniteSets

CONSTANTS
    Workers,      \* workers with live and copy work
    NoOwner,      \* the owner of a claim nobody holds
    NoIndex,      \* no physical index
    Pages,        \* pages per revision
    MaxChanges,   \* bound: source changes
    MaxRebuilds,  \* bound: replacements begun
    MaxFaults,    \* bound: failed, abandoned or lapsed steps
    Mixes         \* bound: <<changes, replacements, faults>> that may come together

ASSUME SearchRebuildAssumption ==
    /\ NoOwner \notin Workers /\ NoIndex \notin Nat
    /\ Pages \in Nat /\ Pages > 0
    /\ MaxChanges \in Nat /\ MaxRebuilds \in Nat /\ MaxFaults \in Nat

\* Index 0 is the provisioned one, index n the target of replacement n.
Indexes == 0..MaxRebuilds
Documents == (1..MaxChanges + 1) \X (0..Pages - 1)
NoDocument == <<0, 0>>
Classes == {"live", "copy"}

VARIABLES
    fdb,      \* the node's search keys, the serving index, the restore epoch
    rebuild,  \* the replacement record
    step,     \* the slice of the rebuild item that is running
    indices,  \* the physical indexes
    alias,    \* the index the public alias selects
    late,     \* page writes whose worker stopped waiting
    worker,   \* per worker: its claim and its position
    session,  \* one search session
    changes, begun, faults

engine == <<indices, alias, late>>
bounds == <<changes, begun, faults>>
vars == <<fdb, rebuild, step, engine, worker, session, bounds>>

NoRecord == [gen |-> 0, rev |-> 0]
NoClaim == [owner |-> NoOwner, gen |-> 0, target |-> NoIndex, mirror |-> NoIndex]
NoCursor == [gen |-> 0, rev |-> 0, ord |-> 0, phase |-> "pages"]
NoRebuild == [state |-> "none", mode |-> "full", source |-> NoIndex,
              target |-> NoIndex, scanned |-> FALSE, paused |-> FALSE,
              verified |-> NoDocument]
NoStep == [pc |-> "idle", doc |-> NoDocument, done |-> FALSE, ok |-> FALSE]
AbsentIndex == [exists |-> FALSE, blocked |-> FALSE,
                pages |-> [d \in Documents |-> 0], seen |-> {}]
Idle == [pc |-> "idle", class |-> "live", gen |-> 0, rev |-> 0, ord |-> 0,
         target |-> NoIndex, mirror |-> NoIndex, held |-> FALSE,
         skipped |-> FALSE, missed |-> "no"]
NoSession == [state |-> "none", index |-> NoIndex, epoch |-> 0, late |-> FALSE]

AnyIndex == Indexes \cup {NoIndex}
SomeDocument == Documents \cup {NoDocument}

SearchKeys == [
    gen : Nat, rev : Nat, serving : Indexes, epoch : Nat, issued : SUBSET Documents,
    held : SUBSET [class : Classes, doc : Documents, index : Indexes],
    work : [Classes -> [gen : Nat, rev : Nat]],
    claim : [Classes -> [owner : Workers \cup {NoOwner}, gen : Nat,
                         target : AnyIndex, mirror : AnyIndex]],
    cursor : [Classes -> [gen : Nat, rev : Nat, ord : 0..Pages,
                          phase : {"pages", "refresh"}]]]

Replacements == [
    state : {"none", "creating", "copying", "verifying", "switching", "retiring", "failed"},
    mode : {"full", "split", "restored"}, source : AnyIndex, target : AnyIndex,
    scanned : BOOLEAN, paused : BOOLEAN, verified : SomeDocument]

Slices == [
    pc : {"idle", "create", "pause", "block", "split", "clear", "green", "unblock",
          "copying", "scan", "copies", "verify", "documents", "lookup", "checked",
          "recheck", "resume", "refresh", "alias", "switched", "sessions", "blockOld",
          "restore", "delete", "finish"},
    doc : SomeDocument, done : BOOLEAN, ok : BOOLEAN]

Index == [exists : BOOLEAN, blocked : BOOLEAN, pages : [Documents -> Nat],
          seen : SUBSET Documents]

LateWrites == [index : Indexes, doc : Documents, gen : Nat, was : Nat]

Positions == [
    pc : {"idle", "register", "put", "mirror", "complete", "keep", "refresh", "finish"},
    class : Classes, gen : Nat, rev : Nat, ord : 0..Pages, target : AnyIndex,
    mirror : AnyIndex, held : BOOLEAN, skipped : BOOLEAN,
    missed : {"no", "open", "expired"}]

Sessions == [state : {"none", "opening", "open"}, index : AnyIndex, epoch : Nat,
             late : BOOLEAN]

TypeOK ==
    /\ fdb \in SearchKeys /\ fdb.rev \in 1..fdb.gen
    /\ rebuild \in Replacements /\ step \in Slices
    /\ indices \in [Indexes -> Index] /\ alias \in AnyIndex
    /\ late \subseteq LateWrites
    /\ worker \in [Workers -> Positions]
    /\ session \in Sessions
    /\ changes \in 0..MaxChanges /\ begun \in 0..MaxRebuilds /\ faults \in 0..MaxFaults

-----------------------------------------------------------------------------
(* Work records, claims and scopes.                                        *)

CurrentPages == {<<fdb.rev, o>> : o \in 0..Pages - 1}

\* Rebuild.Mirror: the states in which every write also goes to the target.
Mirror(r) == IF r.state \in {"copying", "verifying", "switching"}
             THEN r.target ELSE NoIndex

\* claimScope.targets: where claims of a class write, and their mirror.
Target(class) == IF class = "copy" THEN Mirror(rebuild) ELSE fdb.serving
MirrorOf(class) == IF class = "copy" THEN NoIndex ELSE Mirror(rebuild)

\* clearSearchWork, and the "remove" plan of a source change.
WithoutWork(s, class) ==
    [s EXCEPT !.work[class] = NoRecord, !.claim[class] = NoClaim,
              !.cursor[class] = NoCursor,
              !.held = {h \in @ : h.class # class}]

\* readProgress: live checkpoints survive a new generation, others do not.
Progress(s, class) ==
    LET record == s.work[class]
        c == s.cursor[class]
    IN  IF IF class = "live" THEN c.rev = record.rev ELSE c.gen = record.gen
        THEN c
        ELSE [gen |-> record.gen, rev |-> record.rev, ord |-> 0, phase |-> "pages"]

\* scheduleCopy: the scan and the repairs leave a node with live work to it.
ScheduleCopy(s) ==
    IF s.work["live"] # NoRecord THEN s
    ELSE [s EXCEPT !.work["copy"] = [gen |-> s.gen, rev |-> s.rev],
                   !.cursor["copy"] = NoCursor]

\* copyCovers: the pending copy still comes to the missed page.
CopyCovers(s, gen, rev, ord) ==
    LET c == s.cursor["copy"] IN
    /\ s.work["copy"] = [gen |-> gen, rev |-> rev]
    /\ c.gen # gen \/ c.rev # rev \/ c.ord <= ord

\* scheduleMirrorCopy: the owed copy, and the deadline of an abandoned write.
ScheduleMirrorCopy(s, w, gen) ==
    LET h == [class |-> "copy", doc |-> <<w.rev, w.ord>>, index |-> w.mirror]
        kept == IF w.missed = "open" THEN [s EXCEPT !.held = @ \cup {h}] ELSE s
    IN  IF CopyCovers(s, gen, w.rev, w.ord) THEN kept
        ELSE [kept EXCEPT !.work["copy"] = [gen |-> gen, rev |-> w.rev],
                          !.cursor["copy"] = [gen |-> gen, rev |-> w.rev,
                                              ord |-> w.ord, phase |-> "pages"]]

Within(c, r, f) == \E mix \in Mixes : c <= mix[1] /\ r <= mix[2] /\ f <= mix[3]

Fault ==
    /\ faults < MaxFaults /\ Within(changes, begun, faults + 1)
    /\ faults' = faults + 1

-----------------------------------------------------------------------------
(* Source changes.                                                         *)

\* A content change starts a revision: live work, and no copy of the last one.
EditContent ==
    LET gen == fdb.gen + 1 IN
    /\ changes < MaxChanges /\ Within(changes + 1, begun, faults)
    /\ changes' = changes + 1
    /\ fdb' = [WithoutWork(fdb, "copy") EXCEPT
                  !.gen = gen, !.rev = gen,
                  !.work["live"] = [gen |-> gen, rev |-> gen],
                  !.cursor["live"] = NoCursor]
    /\ UNCHANGED <<rebuild, step, engine, worker, session, begun, faults>>

\* An access change rewrites pending work to the new generation.
ChangeAccess ==
    LET gen == fdb.gen + 1 IN
    /\ changes < MaxChanges /\ Within(changes + 1, begun, faults)
    /\ changes' = changes + 1
    /\ fdb' = [fdb EXCEPT !.gen = gen,
                  !.work = [class \in Classes |->
                              IF @[class] = NoRecord THEN NoRecord
                              ELSE [@[class] EXCEPT !.gen = gen]]]
    /\ UNCHANGED <<rebuild, step, engine, worker, session, begun, faults>>

-----------------------------------------------------------------------------
(* Page work: contentSlice for a live or a copy item.                      *)

Doc(w) == <<worker[w].rev, worker[w].ord>>
Goes(w, pc) == worker' = [worker EXCEPT ![w].pc = pc]

\* claimBucket and claimWorkItem: nothing is claimed during the pause.  A copy
\* without a replacement would be dropped here (dropSearchWork); none outlives
\* its replacement, see RebuildEnds.
Claim(w, class) ==
    LET record == fdb.work[class]
        claim == [owner |-> w, gen |-> record.gen, target |-> Target(class),
                  mirror |-> MirrorOf(class)]
        from == Progress(fdb, class)
    IN  /\ worker[w].pc = "idle" /\ record # NoRecord
        /\ ~rebuild.paused /\ Target(class) # NoIndex
        /\ fdb.claim[class].owner = NoOwner
               \/ [fdb.claim[class] EXCEPT !.owner = w] # claim
        /\ fdb' = [fdb EXCEPT !.claim[class] = claim]
        /\ worker' = [worker EXCEPT ![w] =
               [Idle EXCEPT !.pc = IF from.phase = "pages" THEN "register" ELSE "refresh",
                    !.class = class, !.gen = record.gen, !.rev = record.rev,
                    !.ord = from.ord, !.target = claim.target, !.mirror = claim.mirror]]
        /\ UNCHANGED <<rebuild, step, engine, session, bounds>>

\* verifyClaim: record, desired generation, owner, lease and both indexes.
Verified(w) ==
    LET me == worker[w] IN
    /\ fdb.work[me.class].gen = me.gen /\ fdb.gen = me.gen
    /\ fdb.claim[me.class] = [owner |-> w, gen |-> me.gen, target |-> me.target,
                              mirror |-> me.mirror]
    /\ Target(me.class) = me.target /\ MirrorOf(me.class) = me.mirror

\* Yield and Release: a claim that no longer verifies is left alone.
Released(s, w) ==
    IF Verified(w) THEN [s EXCEPT !.claim[worker[w].class] = NoClaim] ELSE s

Ends(w) ==
    /\ fdb' = Released(fdb, w)
    /\ worker' = [worker EXCEPT ![w] = Idle]

\* verifyPage: also the current revision, and the page the checkpoint is at.
PageVerified(w) ==
    LET me == worker[w]
        at == Progress(fdb, me.class)
    IN  /\ Verified(w)
        /\ fdb.work[me.class].rev = me.rev /\ fdb.rev = me.rev
        /\ at.phase = "pages" /\ at.ord = me.ord

\* Register: the issued key, and the deadlines that hold the page back in the
\* target (checkPendingWrite) and in the mirror (heldMirrorWrite).
Register(w) ==
    LET me == worker[w]
        held(classes, index) ==
            \E h \in fdb.held : h.class \in classes /\ h.doc = Doc(w) /\ h.index = index
    IN  /\ me.pc = "register"
        /\ IF PageVerified(w)
           THEN /\ fdb' = [fdb EXCEPT !.issued = @ \cup {Doc(w)}]
                /\ worker' = [worker EXCEPT ![w].pc = "put",
                      ![w].held = held({me.class}, me.target),
                      ![w].missed = IF held({"live", "copy"}, me.mirror)
                                    THEN "open" ELSE "no"]
           ELSE Ends(w)
        /\ UNCHANGED <<rebuild, step, engine, session, bounds>>

Writable(i) == indices[i].exists /\ ~indices[i].blocked
Stores(i, d, gen) == indices' = [indices EXCEPT ![i].pages[d] = gen]
Request(i, d, gen) == [index |-> i, doc |-> d, gen |-> gen, was |-> indices[i].pages[d]]

\* putPage in the target: a page of this generation is there already; a newer
\* one makes the write obsolete; a held page is not created again; a blocked or
\* deleted index refuses.
Put(w) ==
    LET me == worker[w]
        stored == indices[me.target].pages[Doc(w)]
    IN  /\ me.pc = "put"
        /\ IF \/ stored = me.gen
              \/ stored < me.gen /\ Writable(me.target) /\ ~(me.held /\ stored = 0)
           THEN /\ Stores(me.target, Doc(w), me.gen)
                /\ Goes(w, IF me.mirror = NoIndex \/ me.skipped \/ me.missed # "no"
                           THEN "complete" ELSE "mirror")
                /\ UNCHANGED fdb
           ELSE Ends(w) /\ UNCHANGED indices
        /\ UNCHANGED <<rebuild, step, alias, late, session, bounds>>

\* settleAbandonedWrite: the deadline is stored with the release.
PutAbandoned(w) ==
    LET me == worker[w]
        h == [class |-> me.class, doc |-> Doc(w), index |-> me.target]
    IN  /\ me.pc = "put" /\ ~me.held /\ Fault
        /\ late' = late \cup {Request(me.target, Doc(w), me.gen)}
        /\ fdb' = IF Verified(w) THEN [Released(fdb, w) EXCEPT !.held = @ \cup {h}] ELSE fdb
        /\ worker' = [worker EXCEPT ![w] = Idle]
        /\ UNCHANGED <<rebuild, step, indices, alias, session, changes, begun>>

\* putPage in the mirror.  A refusal is a miss (mirrorMiss), except that of an
\* obsolete write; the rest of the slice then leaves the mirror to the copy.
MirrorPut(w) ==
    LET me == worker[w]
        stored == indices[me.mirror].pages[Doc(w)]
    IN  /\ me.pc = "mirror"
        /\ CASE stored > me.gen -> Ends(w) /\ UNCHANGED indices
             [] stored = me.gen \/ (stored < me.gen /\ Writable(me.mirror)) ->
                    /\ Stores(me.mirror, Doc(w), me.gen)
                    /\ Goes(w, "complete")
                    /\ UNCHANGED fdb
             [] OTHER ->
                    /\ worker' = [worker EXCEPT ![w].pc = "complete",
                                     ![w].missed = "expired", ![w].skipped = TRUE]
                    /\ UNCHANGED <<fdb, indices>>
        /\ UNCHANGED <<rebuild, step, alias, late, session, bounds>>

\* The mirror request fails, or is abandoned and may still arrive.
MirrorMissed(w) ==
    LET me == worker[w] IN
    /\ me.pc = "mirror" /\ Fault
    /\ \/ /\ worker' = [worker EXCEPT ![w].pc = "complete", ![w].skipped = TRUE,
                                      ![w].missed = "expired"]
          /\ UNCHANGED late
       \/ /\ worker' = [worker EXCEPT ![w].pc = "complete", ![w].skipped = TRUE,
                                      ![w].missed = "open"]
          /\ late' = late \cup {Request(me.mirror, Doc(w), me.gen)}
    /\ UNCHANGED <<fdb, rebuild, step, indices, alias, session, changes, begun>>

\* CompletePage: the checkpoint and the owed copy commit together.
CompletePage(w) ==
    LET me == worker[w]
        phase == IF me.ord + 1 = Pages THEN "refresh" ELSE "pages"
        h == [class |-> me.class, doc |-> Doc(w), index |-> me.target]
        owed == IF me.missed = "no" THEN fdb ELSE ScheduleMirrorCopy(fdb, me, me.gen)
    IN  /\ me.pc = "complete"
        /\ IF PageVerified(w)
           THEN /\ fdb' = [owed EXCEPT !.held = IF me.held THEN @ \ {h} ELSE @,
                      !.cursor[me.class] = [gen |-> me.gen, rev |-> me.rev,
                                            ord |-> me.ord + 1, phase |-> phase]]
                /\ worker' = [worker EXCEPT ![w].ord = @ + 1, ![w].missed = "no",
                      ![w].held = FALSE, ![w].pc = IF phase = "pages" THEN "register" ELSE "refresh"]
           ELSE IF me.missed = "no" THEN Ends(w) ELSE Goes(w, "keep") /\ UNCHANGED fdb
        /\ UNCHANGED <<rebuild, step, engine, session, bounds>>

\* keepMirrorMiss and RecordMirrorMiss: the checkpoint failed, the deadline is
\* kept without a claim; a switch that is paused gets no new copy item.
KeepMirrorMiss(w) ==
    LET me == worker[w]
        h == [class |-> me.class, doc |-> Doc(w), index |-> me.mirror]
        owed == /\ me.missed = "open" /\ fdb.rev = me.rev
                /\ fdb.work["live"] # NoRecord /\ Mirror(rebuild) = me.mirror
    IN  /\ me.pc = "keep"
        /\ fdb' = Released(
               CASE ~owed -> fdb
                 [] owed /\ rebuild.state = "switching" /\ rebuild.paused ->
                        [fdb EXCEPT !.held = @ \cup {h}]
                 [] OTHER -> ScheduleMirrorCopy(fdb, me, fdb.gen), w)
        /\ worker' = [worker EXCEPT ![w] = Idle]
        /\ UNCHANGED <<rebuild, step, engine, session, bounds>>

Refreshed(i) == [indices EXCEPT ![i].seen = {d \in Documents : indices[i].pages[d] > 0}]

\* Refresh of the claimed index, or its failure when the index is gone.
Refresh(w) ==
    LET i == worker[w].target IN
    /\ worker[w].pc = "refresh"
    /\ IF indices[i].exists THEN indices' = Refreshed(i) /\ Goes(w, "finish") /\ UNCHANGED fdb
                            ELSE Ends(w) /\ UNCHANGED indices
    /\ UNCHANGED <<rebuild, step, alias, late, session, bounds>>

CompleteRefresh(w) ==
    LET class == worker[w].class IN
    /\ worker[w].pc = "finish"
    /\ IF Verified(w) /\ Progress(fdb, class).phase = "refresh"
       THEN fdb' = WithoutWork(fdb, class) /\ worker' = [worker EXCEPT ![w] = Idle]
       ELSE Ends(w)
    /\ UNCHANGED <<rebuild, step, engine, session, bounds>>

WorkStep(w) ==
    \/ Register(w) \/ Put(w) \/ MirrorPut(w) \/ CompletePage(w)
    \/ KeepMirrorMiss(w) \/ Refresh(w) \/ CompleteRefresh(w)

\* A call of the slice fails and the item is released, or the process dies.
WorkerFails(w) ==
    LET me == worker[w] IN
    /\ me.pc # "idle" /\ Fault
    /\ \/ /\ ~(me.pc = "complete" /\ me.missed # "no")
          /\ Ends(w)
       \/ worker' = [worker EXCEPT ![w] = Idle] /\ UNCHANGED fdb
       \/ /\ me.pc = "complete" /\ me.missed # "no"
          /\ Goes(w, "keep") /\ UNCHANGED fdb
    /\ UNCHANGED <<rebuild, step, engine, session, changes, begun>>

\* The lease of a claim ends: always some time after a pause began or its
\* holder stopped, and perhaps while the holder is still at work.
LeaseEnds(class) ==
    LET owner == fdb.claim[class].owner IN
    /\ owner # NoOwner
    /\ rebuild.paused \/ worker[owner].pc = "idle" \/ worker[owner].class # class
    /\ fdb' = [fdb EXCEPT !.claim[class] = NoClaim]
    /\ UNCHANGED <<rebuild, step, engine, worker, session, bounds>>

LeaseLapses(class) ==
    /\ fdb.claim[class].owner # NoOwner /\ ~rebuild.paused /\ Fault
    /\ fdb' = [fdb EXCEPT !.claim[class] = NoClaim]
    /\ UNCHANGED <<rebuild, step, engine, worker, session, changes, begun>>

\* The engine applies a request its worker abandoned, if the page is as it was.
LateArrives(q) ==
    /\ q \in late
    /\ late' = late \ {q}
    /\ IF Writable(q.index) /\ indices[q.index].pages[q.doc] = q.was
       THEN Stores(q.index, q.doc, q.gen) ELSE UNCHANGED indices
    /\ UNCHANGED <<fdb, rebuild, step, alias, worker, session, bounds>>

\* WriteCompletionHorizon has passed since a write was abandoned.
HorizonPasses(d, i) ==
    LET kept == {h \in fdb.held : h.doc # d \/ h.index # i}
        waiting == {w \in Workers : /\ worker[w].missed = "open"
                                    /\ Doc(w) = d /\ worker[w].mirror = i}
    IN  /\ kept # fdb.held \/ waiting # {}
        /\ fdb' = [fdb EXCEPT !.held = kept]
        /\ worker' = [w \in Workers |-> IF w \in waiting
                        THEN [worker[w] EXCEPT !.missed = "expired"] ELSE worker[w]]
        /\ UNCHANGED <<rebuild, step, engine, session, bounds>>

-----------------------------------------------------------------------------
(* The replacement: rebuildSlice, one durable state at a time.             *)

Source == rebuild.source
NewIndex == rebuild.target
Step(pc) == step' = [step EXCEPT !.pc = pc]
EndSlice == step' = NoStep

\* AdvanceRebuild and the yield after it.
Advance(r) == rebuild' = r /\ EndSlice

\* CopiesPending.
CopiesPending == fdb.work["copy"] # NoRecord

\* pauseClaims: PausedAt + Lease has passed only when no lease is left.
LeasesEnded == \A class \in Classes : fdb.claim[class].owner = NoOwner

\* BeginRebuild: one at a time; a restored one ends the running sessions.
BeginRebuild(mode) ==
    /\ rebuild = NoRebuild /\ begun < MaxRebuilds /\ Within(changes, begun + 1, faults)
    /\ begun' = begun + 1
    /\ rebuild' = [NoRebuild EXCEPT !.state = "creating", !.mode = mode,
                       !.source = fdb.serving, !.target = begun + 1]
    /\ fdb' = [fdb EXCEPT !.epoch = IF mode = "restored" THEN @ + 1 ELSE @]
    /\ UNCHANGED <<step, engine, worker, session, changes, faults>>

\* A worker claims the rebuild item and reads the record: rebuildState.
ClaimRebuild ==
    /\ rebuild # NoRebuild /\ step.pc = "idle"
    /\ Step(CASE rebuild.state = "creating" ->
                     IF rebuild.mode = "split" THEN "pause" ELSE "create"
              [] rebuild.state = "copying" -> IF rebuild.scanned THEN "copies" ELSE "scan"
              [] rebuild.state = "verifying" -> "documents"
              [] rebuild.state = "switching" -> "copies"
              [] rebuild.state = "retiring" -> "sessions"
              [] rebuild.state = "failed" -> "restore")
    /\ UNCHANGED <<fdb, rebuild, engine, worker, session, bounds>>

\* rebuildCreate, full: EnsureIndex accepts the index of an earlier attempt.
CreateReplacement ==
    /\ step.pc = "create"
    /\ indices' = [indices EXCEPT ![NewIndex].exists = TRUE]
    /\ Step("green")
    /\ UNCHANGED <<fdb, rebuild, alias, late, worker, session, bounds>>

\* pauseClaims, for the split and for the switch.
PauseClaims ==
    /\ step.pc = "pause"
    /\ CASE ~rebuild.paused -> Advance([rebuild EXCEPT !.paused = TRUE])
         [] rebuild.paused /\ ~LeasesEnded -> EndSlice /\ UNCHANGED rebuild
         [] OTHER -> /\ Step(IF rebuild.state = "creating" THEN "block" ELSE "recheck")
                     /\ UNCHANGED rebuild
    /\ UNCHANGED <<fdb, engine, worker, session, bounds>>

\* splitSource: block the source, split it, clear the block the target
\* inherits; after green health, unblock the source.
BlockSource ==
    /\ step.pc = "block"
    /\ indices' = [indices EXCEPT ![Source].blocked = TRUE]
    /\ Step("split")
    /\ UNCHANGED <<fdb, rebuild, alias, late, worker, session, bounds>>

SplitIndex ==
    /\ step.pc = "split"
    /\ indices' = IF indices[NewIndex].exists THEN indices
                  ELSE [indices EXCEPT ![NewIndex] = indices[Source]]
    /\ Step("clear")
    /\ UNCHANGED <<fdb, rebuild, alias, late, worker, session, bounds>>

ClearTarget ==
    /\ step.pc = "clear"
    /\ indices' = [indices EXCEPT ![NewIndex].blocked = FALSE]
    /\ Step("green")
    /\ UNCHANGED <<fdb, rebuild, alias, late, worker, session, bounds>>

UnblockSource ==
    /\ step.pc = "unblock"
    /\ indices' = [indices EXCEPT ![Source].blocked = FALSE]
    /\ Step("copying")
    /\ UNCHANGED <<fdb, rebuild, alias, late, worker, session, bounds>>

\* A split target holds the nodes already; an empty one needs the scan.
StartCopying ==
    /\ step.pc = "copying"
    /\ Advance([rebuild EXCEPT !.state = "copying", !.paused = FALSE,
                               !.scanned = rebuild.mode = "split"])
    /\ UNCHANGED <<fdb, engine, worker, session, bounds>>

\* waitGreen succeeds ...
TargetGreen ==
    /\ step.pc = "green"
    /\ Step(CASE rebuild.state = "switching" -> "alias"
              [] rebuild.state # "switching" /\ rebuild.mode = "split" -> "unblock"
              [] OTHER -> "copying")
    /\ UNCHANGED <<fdb, rebuild, engine, worker, session, bounds>>

\* failRebuild.
FailRebuild == Advance([rebuild EXCEPT !.state = "failed", !.paused = FALSE])

\* ... or does not before the lease ends: targetNotGreen waits, or gives up
\* after ReplacementPauseLimit.
TargetNotGreen ==
    /\ step.pc = "green" /\ Fault
    /\ FailRebuild \/ (EndSlice /\ UNCHANGED rebuild)
    /\ UNCHANGED <<fdb, engine, worker, session, changes, begun>>

\* rebuildCreate: any other failure of the split ends the replacement.
SplitFails ==
    /\ rebuild.state = "creating" /\ rebuild.mode = "split" /\ Fault
    /\ step.pc \in {"block", "split", "clear", "green", "unblock", "copying"}
    /\ FailRebuild
    /\ UNCHANGED <<fdb, engine, worker, session, changes, begun>>

\* CopyNextNodes: the node is on the first page of the scan.
CopyNextNodes ==
    /\ step.pc = "scan"
    /\ fdb' = ScheduleCopy(fdb)
    /\ Advance([rebuild EXCEPT !.scanned = TRUE])
    /\ UNCHANGED <<engine, worker, session, bounds>>

\* Mutant of CheckCopies: a paused switch waits for its copies as well.
CheckCopiesWaits ==
    /\ step.pc = "copies"
    /\ IF CopiesPending THEN EndSlice
       ELSE Step(IF rebuild.state = "copying" THEN "verify" ELSE "pause")
    /\ UNCHANGED <<fdb, rebuild, engine, worker, session, bounds>>

\* CopiesPending in rebuildCopy and, before the pause, in rebuildSwitch: wait,
\* or let the claims resume that a paused switch needs.
CheckCopies ==
    /\ step.pc = "copies"
    /\ IF CopiesPending
       THEN IF rebuild.paused THEN Step("resume") ELSE EndSlice
       ELSE Step(IF rebuild.state = "copying" THEN "verify" ELSE "pause")
    /\ UNCHANGED <<fdb, rebuild, engine, worker, session, bounds>>

\* Mutant of RecheckCopies: the switch trusts the check before the pause.
RecheckNothing ==
    /\ step.pc = "recheck"
    /\ Step("refresh")
    /\ UNCHANGED <<fdb, rebuild, engine, worker, session, bounds>>

\* switchWaitsForCopies after the pause.
RecheckCopies ==
    /\ step.pc = "recheck"
    /\ Step(IF CopiesPending THEN "resume" ELSE "refresh")
    /\ UNCHANGED <<fdb, rebuild, engine, worker, session, bounds>>

ResumeClaims ==
    /\ step.pc = "resume"
    /\ Advance([rebuild EXCEPT !.paused = FALSE])
    /\ UNCHANGED <<fdb, engine, worker, session, bounds>>

StartVerifying ==
    /\ step.pc = "verify"
    /\ Advance([rebuild EXCEPT !.state = "verifying", !.verified = NoDocument])
    /\ UNCHANGED <<fdb, engine, worker, session, bounds>>

\* Issued keys in order: by revision, then by page.
Before(a, b) == a[1] < b[1] \/ (a[1] = b[1] /\ a[2] < b[2])

\* VerifyRebuildDocuments: the next issued key, in batches of one; documents of
\* older revisions need not be in the target.
VerifyRebuildDocuments ==
    LET rest == {d \in fdb.issued : rebuild.verified = NoDocument \/ Before(rebuild.verified, d)}
        next == CHOOSE d \in rest : \A e \in rest : e = d \/ Before(d, e)
    IN  /\ step.pc = "documents"
        /\ step' = IF rest = {}
                   THEN [NoStep EXCEPT !.pc = "checked", !.done = TRUE, !.ok = TRUE]
                   ELSE [pc |-> IF next[1] = fdb.rev THEN "lookup" ELSE "checked",
                         doc |-> next, done |-> rest = {next}, ok |-> TRUE]
        /\ UNCHANGED <<fdb, rebuild, engine, worker, session, bounds>>

\* DocumentAccess in the target.
LookUp ==
    /\ step.pc = "lookup"
    /\ step' = [step EXCEPT !.pc = "checked", !.ok = indices[NewIndex].pages[step.doc] > 0]
    /\ UNCHANGED <<fdb, rebuild, engine, worker, session, bounds>>

\* CompleteRebuildVerify: a missing page of a node without pending work
\* schedules a copy, and the verification waits where it is.  Write versions change
\* only in an access rollout, which is not modelled: every page has the required
\* ones, so the other repair, scheduleAccessRepair, does not come up.
CompleteRebuildVerify ==
    LET pending == \E class \in Classes : fdb.work[class] # NoRecord IN
    /\ step.pc = "checked"
    /\ fdb' = IF step.ok \/ pending THEN fdb ELSE ScheduleCopy(fdb)
    /\ Advance(CASE ~step.ok -> rebuild
                 [] step.ok /\ step.done -> [rebuild EXCEPT !.state = "switching", !.verified = NoDocument]
                 [] OTHER -> [rebuild EXCEPT !.verified = step.doc])
    /\ UNCHANGED <<engine, worker, session, bounds>>

\* rebuildSwitch after the checks: refresh, green health, alias, record.
RefreshTarget ==
    /\ step.pc = "refresh"
    /\ indices' = Refreshed(NewIndex)
    /\ Step("green")
    /\ UNCHANGED <<fdb, rebuild, alias, late, worker, session, bounds>>

\* moveAlias: an alias that selects a third index, or none, is an error.
MoveAlias ==
    /\ step.pc = "alias"
    /\ alias' = IF alias = Source THEN NewIndex ELSE alias
    /\ IF alias \in {Source, NewIndex} THEN Step("switched") ELSE EndSlice
    /\ UNCHANGED <<fdb, rebuild, indices, late, worker, session, bounds>>

CompleteSwitch ==
    /\ step.pc = "switched"
    /\ fdb' = [fdb EXCEPT !.serving = NewIndex]
    /\ Advance([rebuild EXCEPT !.state = "retiring", !.paused = FALSE])
    /\ UNCHANGED <<engine, worker, session, bounds>>

Continuable == session.state = "open" /\ session.epoch = fdb.epoch

\* Mutant of RetireIndexSessions: a continuable session is no reason to wait.
RetireWithoutWaiting ==
    /\ step.pc = "sessions"
    /\ Step("blockOld")
    /\ UNCHANGED <<fdb, rebuild, engine, worker, session, bounds>>

\* RetireIndexSessions: wait for a continuable session, end any other.
RetireIndexSessions ==
    LET here == session.state = "open" /\ session.index = Source IN
    /\ step.pc = "sessions"
    /\ IF here /\ Continuable
       THEN EndSlice /\ UNCHANGED session
       ELSE Step("blockOld") /\ session' = IF here THEN NoSession ELSE session
    /\ UNCHANGED <<fdb, rebuild, engine, worker, bounds>>

\* A missing index skips the write block.
BlockOld ==
    /\ step.pc = "blockOld"
    /\ indices' = [indices EXCEPT ![Source].blocked = indices[Source].exists]
    /\ Step("delete")
    /\ UNCHANGED <<fdb, rebuild, alias, late, worker, session, bounds>>

\* rebuildRecover: writes to the source are restored before the target goes.
RestoreSource ==
    /\ step.pc = "restore"
    /\ indices' = [indices EXCEPT ![Source].blocked = FALSE]
    /\ Step("delete")
    /\ UNCHANGED <<fdb, rebuild, alias, late, worker, session, bounds>>

\* deleteIndex: the retired source or the failed target, and its alias.
DeleteIndex ==
    LET i == IF rebuild.state = "failed" THEN NewIndex ELSE Source IN
    /\ step.pc = "delete"
    /\ indices' = [indices EXCEPT ![i] = AbsentIndex]
    /\ alias' = IF alias = i THEN NoIndex ELSE alias
    /\ Step("finish")
    /\ UNCHANGED <<fdb, rebuild, late, worker, session, bounds>>

FinishRebuild ==
    /\ step.pc = "finish"
    /\ Advance(NoRebuild)
    /\ UNCHANGED <<fdb, engine, worker, session, bounds>>

RebuildStep ==
    \/ ClaimRebuild \/ CreateReplacement \/ PauseClaims \/ BlockSource \/ SplitIndex
    \/ ClearTarget \/ UnblockSource \/ StartCopying \/ TargetGreen \/ CopyNextNodes
    \/ CheckCopies \/ RecheckCopies \/ ResumeClaims \/ StartVerifying
    \/ VerifyRebuildDocuments \/ LookUp \/ CompleteRebuildVerify \/ RefreshTarget
    \/ MoveAlias \/ CompleteSwitch \/ RetireIndexSessions \/ BlockOld
    \/ RestoreSource \/ DeleteIndex \/ FinishRebuild

\* A call fails, the process dies, or the lease ends and cancels the slice: the
\* next claim starts from the durable state.
StepFails ==
    /\ step.pc # "idle" /\ Fault
    /\ EndSlice
    /\ UNCHANGED <<fdb, rebuild, engine, worker, session, changes, begun>>

-----------------------------------------------------------------------------
(* One search session.                                                     *)

\* Open: the serving index, when the public alias selects it too.
OpenSnapshot ==
    /\ session = NoSession /\ alias = fdb.serving
    /\ session' = [NoSession EXCEPT !.state = "opening", !.index = fdb.serving,
                                    !.epoch = fdb.epoch]
    /\ UNCHANGED <<fdb, rebuild, step, engine, worker, bounds>>

\* Create stores the session; by then the index may no longer be serving.
CreateSession ==
    /\ session.state = "opening"
    /\ session' = [session EXCEPT !.state = "open", !.late = session.index # fdb.serving]
    /\ UNCHANGED <<fdb, rebuild, step, engine, worker, bounds>>

\* The idle or the absolute deadline passes, or the caller reads to the end.
SessionEnds ==
    /\ session.state = "open"
    /\ session' = NoSession
    /\ UNCHANGED <<fdb, rebuild, step, engine, worker, bounds>>

-----------------------------------------------------------------------------
Init ==
    /\ fdb = [gen |-> 1, rev |-> 1, serving |-> 0, epoch |-> 0,
              work |-> [class \in Classes |-> NoRecord],
              claim |-> [class \in Classes |-> NoClaim],
              cursor |-> [class \in Classes |-> NoCursor],
              issued |-> {<<1, o>> : o \in 0..Pages - 1}, held |-> {}]
    /\ rebuild = NoRebuild /\ step = NoStep
    /\ indices = [i \in Indexes |-> IF i # 0 THEN AbsentIndex ELSE
            [exists |-> TRUE, blocked |-> FALSE, seen |-> {<<1, o>> : o \in 0..Pages - 1},
             pages |-> [d \in Documents |-> IF d[1] = 1 THEN 1 ELSE 0]]]
    /\ alias = 0 /\ late = {}
    /\ worker = [w \in Workers |-> Idle]
    /\ session = NoSession
    /\ changes = 0 /\ begun = 0 /\ faults = 0

Next ==
    \/ EditContent \/ ChangeAccess
    \/ \E w \in Workers :
        \/ \E class \in Classes : Claim(w, class)
        \/ WorkStep(w) \/ PutAbandoned(w) \/ MirrorMissed(w) \/ WorkerFails(w)
    \/ \E class \in Classes : LeaseEnds(class) \/ LeaseLapses(class)
    \/ \E q \in late : LateArrives(q)
    \/ \E d \in Documents, i \in Indexes : HorizonPasses(d, i)
    \/ \E mode \in {"full", "split", "restored"} : BeginRebuild(mode)
    \/ RebuildStep \/ TargetNotGreen \/ SplitFails \/ StepFails
    \/ OpenSnapshot \/ CreateSession \/ SessionEnds

Spec == Init /\ [][Next]_vars

\* Workers keep claiming and take their next step, clocks keep running, and a
\* session ends by its absolute deadline.
FairSpec ==
    /\ Spec
    /\ \A w \in Workers : /\ WF_vars(WorkStep(w))
                          /\ \A class \in Classes : WF_vars(Claim(w, class))
    /\ \A class \in Classes : WF_vars(LeaseEnds(class))
    /\ \A d \in Documents, i \in Indexes : WF_vars(HorizonPasses(d, i))
    /\ WF_vars(RebuildStep)
    /\ WF_vars(CreateSession) /\ WF_vars(SessionEnds)

-----------------------------------------------------------------------------
(* Properties.                                                             *)

\* A node without pending live work can be found: every page of its current
\* revision is stored and refreshed in the index that serves, before, during and
\* after a switch, whatever writes to the mirror were missed on the way.
SettledIsSearchable ==
    fdb.work["live"] = NoRecord => CurrentPages \subseteq indices[fdb.serving].seen

\* A session created while its index was serving keeps that index until it ends,
\* although the index is replaced and retired meanwhile.
SnapshotsKept ==
    Continuable /\ ~session.late => indices[session.index].exists

\* "The public alias still selects the source in this state": what rebuildRecover
\* says of the failed state, in which it deletes the target.
FailedKeepsAlias == rebuild.state = "failed" => alias = rebuild.source

\* No replacement is left, no copy is owed, and the serving index is the only
\* one and open for writes.
Finished ==
    /\ rebuild = NoRebuild /\ ~CopiesPending
    /\ \A i \in Indexes : indices[i].exists <=> i = fdb.serving
    /\ ~indices[fdb.serving].blocked

\* The exception, which FailedKeepsAlias denies: a replacement is given up after
\* MoveAlias and before CompleteSwitch.
AliasStranded == rebuild.state = "failed" /\ alias = rebuild.target

\* Every replacement that is begun comes to an end, switched or given up, and
\* leaves one writable index that serves and that the public alias selects,
\* unless a replacement was given up after it had moved the alias.  That one ends
\* too, without an alias; of a replacement begun after it nothing is promised,
\* because its switch fails at MoveAlias each time, with the claims paused.
RebuildEnds ==
    /\ <>AliasStranded \/ (rebuild # NoRebuild ~> Finished /\ alias = fdb.serving)
    /\ AliasStranded ~> Finished /\ alias = NoIndex

=============================================================================
