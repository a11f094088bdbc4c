------------------------ MODULE SearchRebuildProofs ------------------------
(***************************************************************************)
(* Proofs about SearchRebuild, for every number of workers, pages, source  *)
(* changes, replacements and faults.                                       *)
(*                                                                         *)
(* The machine of a replacement (MachineInv) fixes which index serves,     *)
(* which is being filled and which exist at every position of a slice; the *)
(* sessions that keep an index alive are told apart on top of it           *)
(* (SessionInv).  WorkInv relates records, checkpoints and workers.        *)
(*                                                                         *)
(* SettledIsSearchable needs to know where a page is that live work has    *)
(* passed: it is stored in the serving index (Served), and in the          *)
(* replacement too, unless a copy still comes to it or the verification    *)
(* has still to find it missing (Gap).  From the refresh of the target to  *)
(* the switch nothing is claimed and no copy is owed (Window), so that     *)
(* what was refreshed is what serves.                                      *)
(***************************************************************************)
EXTENDS SearchRebuild, TLAPS, WellFoundedInduction

----------------------------------------------------------------------------
\* The machine of a replacement

Mirrored == {"copying", "verifying", "switching"}

\* The durable state in which a slice can be at a position.
StateAt(pc, state) ==
    /\ pc \in {"create", "block", "split", "clear", "unblock", "copying"} => state = "creating"
    /\ pc = "green" => state \in {"creating", "switching"}
    /\ pc = "pause" => state \in {"creating", "switching"}
    /\ pc \in {"scan", "verify"} => state = "copying"
    /\ pc = "copies" => state \in {"copying", "switching"}
    /\ pc \in {"documents", "lookup", "checked"} => state = "verifying"
    /\ pc \in {"recheck", "resume", "refresh", "alias", "switched"} => state = "switching"
    /\ pc \in {"sessions", "blockOld"} => state = "retiring"
    /\ pc = "restore" => state = "failed"
    /\ pc \in {"delete", "finish"} => state \in {"retiring", "failed"}

\* Which index serves, and which are the source and the target.
Roles ==
    /\ fdb.serving <= begun
    /\ rebuild.state = "none" => rebuild = NoRebuild /\ step.pc = "idle"
    /\ rebuild.state # "none" =>
          /\ rebuild.target = begun /\ rebuild.source \in Indexes
          /\ rebuild.source # rebuild.target
          /\ fdb.serving = IF rebuild.state = "retiring" THEN rebuild.target ELSE rebuild.source
    /\ rebuild.paused => rebuild.state \in {"creating", "switching"}

\* The indexes that exist.
Standing ==
    /\ indices[fdb.serving].exists
    /\ rebuild.state \in Mirrored => indices[rebuild.target].exists
    /\ rebuild.state = "creating" /\ step.pc \in {"clear", "green", "unblock", "copying"}
          => indices[rebuild.target].exists

MachineInv == StateAt(step.pc, rebuild.state) /\ Roles /\ Standing

----------------------------------------------------------------------------
\* Sessions

\* A continuable session created in time is on the serving index, or on the
\* source of a replacement that has still to look for it.
SessionInv ==
    /\ session.epoch <= fdb.epoch
    /\ session.state # "none" => session.index \in Indexes
    /\ Continuable /\ ~session.late =>
          \/ session.index = fdb.serving
          \/ /\ rebuild.state = "retiring" /\ step.pc \in {"idle", "sessions"}
             /\ session.index = rebuild.source /\ indices[rebuild.source].exists

----------------------------------------------------------------------------
\* Records, checkpoints and workers

Records ==
    /\ fdb.gen = changes + 1
    /\ \A class \in Classes : \/ fdb.work[class] = NoRecord
                              \/ fdb.work[class].gen = fdb.gen /\ fdb.work[class].rev = fdb.rev
    /\ \A class \in Classes :
          /\ fdb.cursor[class].gen <= fdb.gen
          /\ fdb.cursor[class].gen = fdb.gen => fdb.cursor[class].rev = fdb.rev
          /\ fdb.cursor[class].phase = "pages" <=> fdb.cursor[class].ord < Pages

\* An index that may have been claimed: not the target that is being created.
Used(i) == i <= begun /\ (rebuild.state = "creating" => i # rebuild.target)

\* Where a worker can be.
AtPage == {"register", "put", "mirror", "complete", "keep"}

Placed(w) ==
    LET me == worker[w] IN
    /\ me.pc # "idle" =>
          /\ me.gen \in 1..fdb.gen /\ me.rev \in 1..me.gen
          /\ me.gen = fdb.gen => me.rev = fdb.rev
          /\ me.target \in Indexes /\ Used(me.target)
          /\ me.mirror \in Indexes => Used(me.mirror)
    /\ me.pc \in AtPage => me.ord < Pages
    /\ me.pc \in {"refresh", "finish"} => me.ord = Pages
    /\ me.pc = "mirror" \/ me.missed # "no" => me.mirror \in Indexes
    /\ me.pc \in {"idle", "register"} => me.missed = "no"

LateInv == \A q \in late : q.gen > 0

WorkInv == Records /\ (\A w \in Workers : Placed(w)) /\ LateInv

BaseInv == TypeOK /\ MachineInv /\ WorkInv

----------------------------------------------------------------------------
\* Where the pages are

Page(o) == <<fdb.rev, o>>
Ordinals == 0..Pages - 1
Has(i, d) == indices[i].pages[d] > 0

\* The live work has still to come to the page; the copy has.
LivePending(o) ==
    /\ fdb.work["live"] # NoRecord
    /\ fdb.cursor["live"].rev # fdb.rev \/ fdb.cursor["live"].ord <= o
CopyPending(o) ==
    /\ fdb.work["copy"] # NoRecord
    /\ fdb.cursor["copy"].gen # fdb.gen \/ fdb.cursor["copy"].ord <= o

\* A page that live work has passed is stored where it is served from.
Served ==
    /\ \A o \in Ordinals : LivePending(o) \/ (Has(fdb.serving, Page(o)) /\ Page(o) \in fdb.issued)
    /\ \A i \in Indexes : \A d \in indices[i].seen : Has(i, d)
    /\ SettledIsSearchable

\* What a worker has stored, as long as the index is there.
Stored(w) ==
    LET me == worker[w] IN
    /\ me.pc \in {"put", "mirror", "complete", "keep"} => <<me.rev, me.ord>> \in fdb.issued
    /\ me.pc = "mirror" => ~me.skipped
    /\ me.pc \in {"mirror", "complete"} /\ indices[me.target].exists
          => Has(me.target, <<me.rev, me.ord>>)
    /\ me.pc = "complete" /\ me.missed = "no" /\ ~me.skipped /\ me.mirror \in Indexes
          => (indices[me.mirror].exists => Has(me.mirror, <<me.rev, me.ord>>))
    /\ me.class = "live" /\ me.pc \in {"refresh", "finish"} /\ indices[me.target].exists
          => \A o \in Ordinals : Has(me.target, <<me.rev, o>>)
    /\ me.class = "live" /\ me.pc = "finish" /\ indices[me.target].exists
          => \A o \in Ordinals : <<me.rev, o>> \in indices[me.target].seen

\* A slice that left the mirror to the copy, from the page after the missed one.
LeftToCopy(w) ==
    LET me == worker[w] IN
    /\ me.pc \in {"register", "put", "complete"} /\ me.skipped /\ me.missed = "no"
    /\ me.rev = fdb.rev /\ me.mirror \in Indexes /\ me.mirror = Mirror(rebuild)
    => \A o \in Ordinals : o >= me.ord => Has(me.mirror, Page(o)) \/ CopyPending(o)

\* A page neither the replacement has nor any work will bring to it.
Gap(o) == ~LivePending(o) /\ ~CopyPending(o) /\ ~Has(rebuild.target, Page(o))

\* The verification has still to come to every gap, and none survives it.
Gaps ==
    /\ rebuild.state = "verifying" => \A o \in Ordinals : Gap(o) =>
          /\ rebuild.verified = NoDocument \/ Before(rebuild.verified, Page(o))
          /\ step.pc = "lookup" =>
                /\ step.doc = Page(o) \/ Before(step.doc, Page(o))
                /\ step.done => step.doc = Page(o)
          /\ step.pc = "checked" /\ step.ok => ~step.done /\ Before(step.doc, Page(o))
    /\ rebuild.state = "switching" => \A o \in Ordinals : ~Gap(o)

\* From the end of the pause to the switch no claim is held and no copy owed.
Window ==
    rebuild.state = "switching" =>
        /\ step.pc \in {"recheck", "refresh", "green", "alias", "switched"} =>
              rebuild.paused /\ LeasesEnded
        /\ step.pc \in {"refresh", "green", "alias", "switched"} => fdb.work["copy"] = NoRecord
        /\ step.pc \in {"green", "alias", "switched"} =>
              (fdb.work["live"] = NoRecord => CurrentPages \subseteq indices[rebuild.target].seen)

PageInv ==
    /\ Served /\ Gaps /\ Window
    /\ \A w \in Workers : Stored(w) /\ LeftToCopy(w)

IInv == BaseInv /\ SessionInv /\ PageInv

----------------------------------------------------------------------------
\* Constants and the operators on the search keys

LEMMA ConstantFacts ==
    /\ Pages \in Nat /\ Pages > 0 /\ MaxChanges \in Nat /\ MaxRebuilds \in Nat
    /\ NoIndex \notin Indexes
    /\ "live" \in Classes /\ "copy" \in Classes
    /\ \A class \in Classes : class = "live" \/ class = "copy"
    /\ \A i \in Indexes : i \in Nat
    /\ NoRecord \in [gen : Nat, rev : Nat]
    /\ NoRecord.gen = 0
    /\ NoClaim.owner = NoOwner
  BY SearchRebuildAssumption DEF Indexes, Classes, NoRecord, NoClaim

LEMMA NothingTyped ==
    /\ NoClaim \in [owner : Workers \cup {NoOwner}, gen : Nat,
                    target : AnyIndex, mirror : AnyIndex]
    /\ NoCursor \in [gen : Nat, rev : Nat, ord : 0..Pages, phase : {"pages", "refresh"}]
    /\ NoRebuild \in Replacements /\ NoStep \in Slices /\ Idle \in Positions
    /\ NoSession \in Sessions /\ AbsentIndex \in Index
  BY SearchRebuildAssumption DEF NoClaim, NoCursor, NoRebuild, NoStep, Idle, NoSession,
     AbsentIndex, AnyIndex, SomeDocument, Replacements, Slices, Positions, Sessions,
     Index, Classes

LEMMA LeastNatural ==
    ASSUME NEW T, T \subseteq Nat, T # {}
    PROVE  \E x \in T : \A y \in T : x <= y
<1> DEFINE R == OpToRel(<, Nat)
<1>1. IsWellFoundedOn(R, Nat) BY NatLessThanWellFounded
<1>2. \A x, y \in Nat : x < y => <<x, y>> \in R BY DEF OpToRel
<1> HIDE DEF R
<1>3. PICK x \in T : \A y \in T : ~ (<<y, x>> \in R) BY <1>1, WFMin
<1>4. \A y \in T : ~(y < x) BY <1>2, <1>3
<1>5. \A y \in T : x <= y BY <1>4
<1> QED BY <1>5

\* VerifyRebuildDocuments: a first key is left, unless none is.
LEMMA NextDocument ==
    ASSUME NEW rest, rest \subseteq Documents, rest # {}
    PROVE  \E d \in rest : \A e \in rest : e = d \/ Before(d, e)
<1>1. PICK r \in {d[1] : d \in rest} : \A x \in {d[1] : d \in rest} : r <= x
  <2>1. {d[1] : d \in rest} \subseteq Nat BY SearchRebuildAssumption DEF Documents
  <2>2. {d[1] : d \in rest} # {} OBVIOUS
  <2> QED BY <2>1, <2>2, LeastNatural
<1> DEFINE here == {d \in rest : d[1] = r}
<1>2. PICK o \in {d[2] : d \in here} : \A x \in {d[2] : d \in here} : o <= x
  <2>1. {d[2] : d \in here} \subseteq Nat BY SearchRebuildAssumption DEF Documents
  <2>2. {d[2] : d \in here} # {} BY <1>1
  <2> QED BY <2>1, <2>2, LeastNatural
<1>3. PICK d \in here : d[2] = o BY <1>2
<1>4. SUFFICES ASSUME NEW e \in rest PROVE e = d \/ Before(d, e) BY <1>3
<1>5. d \in Documents /\ e \in Documents /\ d[1] = r BY <1>3
<1>6. r <= e[1] BY <1>1
<1>7. e[1] = r => o <= e[2] BY <1>2
<1>8. e = <<e[1], e[2]>> /\ d = <<d[1], d[2]>> BY <1>5 DEF Documents
<1>9. e[1] \in Nat /\ e[2] \in Nat /\ r \in Nat /\ o \in Nat
   BY <1>5, <1>3, SearchRebuildAssumption DEF Documents
<1> QED BY <1>3, <1>5, <1>6, <1>7, <1>8, <1>9 DEF Before

LEMMA ProgressTyped ==
    ASSUME NEW s \in SearchKeys, NEW class \in Classes
    PROVE  Progress(s, class) \in [gen : Nat, rev : Nat, ord : 0..Pages, phase : {"pages", "refresh"}]
  BY SearchRebuildAssumption DEF Progress, SearchKeys

\* What removing work, scheduling a copy and owing one change of the keys.
WorkRemoved(s, t, class) ==
    /\ t \in SearchKeys
    /\ t.gen = s.gen /\ t.rev = s.rev /\ t.serving = s.serving /\ t.epoch = s.epoch
    /\ t.issued = s.issued
    /\ t.work[class] = NoRecord /\ t.cursor[class] = NoCursor
    /\ \A c \in Classes : /\ c # class => t.work[c] = s.work[c] /\ t.cursor[c] = s.cursor[c]
                          /\ t.claim[c] \in {s.claim[c], NoClaim}

LEMMA WithoutWorkFields ==
    ASSUME NEW s \in SearchKeys, NEW class \in Classes
    PROVE  WorkRemoved(s, WithoutWork(s, class), class)
  BY NothingTyped, ConstantFacts DEF WithoutWork, WorkRemoved, SearchKeys

\* The copy comes to every page from ord on, and to those it came to before.
CopySide(s, t, gen, rev, ord) ==
    /\ t.work["copy"].gen = gen /\ t.work["copy"].rev = rev
    /\ t.cursor["copy"].gen # gen \/ t.cursor["copy"].ord <= ord
    /\ \A o \in 0..Pages : s.work["copy"] # NoRecord
            /\ (s.cursor["copy"].gen # gen \/ s.cursor["copy"].ord <= o)
          => t.cursor["copy"].gen # gen \/ t.cursor["copy"].ord <= o
    /\ \/ t.cursor["copy"] = s.cursor["copy"]
       \/ /\ \/ t.cursor["copy"].gen = 0
             \/ t.cursor["copy"].gen = gen /\ t.cursor["copy"].rev = rev
          /\ t.cursor["copy"].phase = "pages" /\ t.cursor["copy"].ord < Pages

CopyOwed(s, t, gen, rev, ord) ==
    /\ t \in SearchKeys
    /\ t.gen = s.gen /\ t.rev = s.rev /\ t.serving = s.serving /\ t.epoch = s.epoch
    /\ t.issued = s.issued /\ t.claim = s.claim
    /\ t.work["live"] = s.work["live"] /\ t.cursor["live"] = s.cursor["live"]
    /\ CopySide(s, t, gen, rev, ord)

LEMMA ScheduleMirrorCopyFields ==
    ASSUME NEW s \in SearchKeys, NEW me \in Positions, NEW gen \in Nat,
           me.mirror \in Indexes, <<me.rev, me.ord>> \in Documents,
           s.work["copy"] = NoRecord \/ s.work["copy"] = [gen |-> gen, rev |-> me.rev],
           s.cursor["copy"].gen = gen => s.cursor["copy"].rev = me.rev, gen > 0
    PROVE  CopyOwed(s, ScheduleMirrorCopy(s, me, gen), gen, me.rev, me.ord)
<1> DEFINE h == [class |-> "copy", doc |-> <<me.rev, me.ord>>, index |-> me.mirror]
           kept == IF me.missed = "open" THEN [s EXCEPT !.held = @ \cup {h}] ELSE s
           t == ScheduleMirrorCopy(s, me, gen)
<1>1. h \in [class : Classes, doc : Documents, index : Indexes] BY ConstantFacts
<1> HIDE DEF h
<1>2. /\ kept \in SearchKeys /\ kept.gen = s.gen /\ kept.rev = s.rev
      /\ kept.serving = s.serving /\ kept.epoch = s.epoch /\ kept.issued = s.issued
      /\ kept.claim = s.claim /\ kept.work = s.work /\ kept.cursor = s.cursor
  BY <1>1 DEF SearchKeys
<1>3. me.rev \in Nat /\ me.ord \in 0..Pages - 1 BY ConstantFacts DEF Positions, Documents
<1>4. t = IF CopyCovers(s, gen, me.rev, me.ord) THEN kept
          ELSE [kept EXCEPT !.work["copy"] = [gen |-> gen, rev |-> me.rev],
                            !.cursor["copy"] = [gen |-> gen, rev |-> me.rev,
                                                ord |-> me.ord, phase |-> "pages"]]
  BY DEF ScheduleMirrorCopy, h
<1>0. SUFFICES CopyOwed(s, t, gen, me.rev, me.ord) OBVIOUS
<1> HIDE DEF kept, t
<1>5. CASE CopyCovers(s, gen, me.rev, me.ord)
  <2>1. t = kept BY <1>4, <1>5
  <2>2. /\ s.work["copy"] = [gen |-> gen, rev |-> me.rev]
        /\ s.cursor["copy"].gen # gen \/ s.cursor["copy"].ord <= me.ord
    BY <1>5 DEF CopyCovers
  <2> QED BY <2>1, <2>2, <1>2 DEF CopyOwed, CopySide
<1>6. CASE ~CopyCovers(s, gen, me.rev, me.ord)
  <2>1. t = [kept EXCEPT !.work["copy"] = [gen |-> gen, rev |-> me.rev],
                            !.cursor["copy"] = [gen |-> gen, rev |-> me.rev,
                                                ord |-> me.ord, phase |-> "pages"]]
    BY <1>4, <1>6
  <2>2. /\ t \in SearchKeys /\ t.gen = s.gen /\ t.rev = s.rev /\ t.serving = s.serving
        /\ t.epoch = s.epoch /\ t.issued = s.issued /\ t.claim = s.claim
    <3>1. me.ord \in 0..Pages BY DEF Positions
    <3> QED BY <3>1, <2>1, <1>2, <1>3, ConstantFacts DEF SearchKeys
  <2>3. /\ t.work["live"] = s.work["live"] /\ t.cursor["live"] = s.cursor["live"]
        /\ t.work["copy"].gen = gen /\ t.work["copy"].rev = me.rev
        /\ t.cursor["copy"].gen = gen /\ t.cursor["copy"].rev = me.rev
        /\ t.cursor["copy"].ord = me.ord /\ t.cursor["copy"].phase = "pages"
    BY <2>1, <1>2, ConstantFacts DEF SearchKeys
  <2>4. s.work["copy"] = NoRecord \/ (s.cursor["copy"].gen = gen /\ ~(s.cursor["copy"].ord <= me.ord))
    BY <1>6 DEF CopyCovers
  <2>5. s.cursor["copy"].ord \in Nat BY ConstantFacts DEF SearchKeys
  <2>6. ASSUME NEW o \in 0..Pages, s.work["copy"] # NoRecord,
               s.cursor["copy"].gen # gen \/ s.cursor["copy"].ord <= o
        PROVE  t.cursor["copy"].ord <= o
    BY <2>3, <2>4, <2>5, <2>6, <1>3, ConstantFacts
  <2>7. me.ord <= me.ord /\ me.ord < Pages BY <1>3, ConstantFacts
  <2>8. t.cursor["copy"].ord <= me.ord /\ t.cursor["copy"].ord < Pages BY <2>3, <2>7
  <2> QED BY <2>2, <2>3, <2>6, <2>8 DEF CopyOwed, CopySide
<1> QED BY <1>5, <1>6

LEMMA ScheduleCopyFields ==
    ASSUME NEW s \in SearchKeys, s.gen > 0
    PROVE  \/ ScheduleCopy(s) = s /\ s.work["live"] # NoRecord
           \/ CopyOwed(s, ScheduleCopy(s), s.gen, s.rev, 0)
<1>1. CASE s.work["live"] # NoRecord BY <1>1 DEF ScheduleCopy
<1>2. CASE s.work["live"] = NoRecord
  <2> DEFINE t == [s EXCEPT !.work["copy"] = [gen |-> s.gen, rev |-> s.rev],
                            !.cursor["copy"] = NoCursor]
  <2>1. ScheduleCopy(s) = t BY <1>2 DEF ScheduleCopy
  <2>2. s.gen \in Nat /\ s.rev \in Nat BY DEF SearchKeys
  <2>3. /\ t \in SearchKeys /\ t.gen = s.gen /\ t.rev = s.rev /\ t.serving = s.serving
        /\ t.epoch = s.epoch /\ t.issued = s.issued /\ t.claim = s.claim
    BY <2>2, ConstantFacts, NothingTyped DEF SearchKeys
  <2>4. /\ t.work["live"] = s.work["live"] /\ t.cursor["live"] = s.cursor["live"]
        /\ t.work["copy"].gen = s.gen /\ t.work["copy"].rev = s.rev
        /\ t.cursor["copy"] = NoCursor
    BY ConstantFacts DEF SearchKeys
  <2>5. t.cursor["copy"].gen = 0 /\ t.cursor["copy"].ord = 0 /\ t.cursor["copy"].phase = "pages"
    BY <2>4 DEF NoCursor
  <2> HIDE DEF t
  <2> QED BY <2>1, <2>2, <2>3, <2>4, <2>5, ConstantFacts DEF CopyOwed, CopySide
<1> QED BY <1>1, <1>2

----------------------------------------------------------------------------
\* Effects of the steps of workers, clocks and writers

\* A worker is where it was, but for a deadline that passed.
Same(w) ==
    /\ worker'[w].pc = worker[w].pc /\ worker'[w].class = worker[w].class
    /\ worker'[w].gen = worker[w].gen /\ worker'[w].rev = worker[w].rev
    /\ worker'[w].ord = worker[w].ord /\ worker'[w].target = worker[w].target
    /\ worker'[w].mirror = worker[w].mirror /\ worker'[w].skipped = worker[w].skipped
    /\ worker'[w].missed = "no" <=> worker[w].missed = "no"

\* No record, checkpoint or revision changes.
KeysQuiet ==
    /\ fdb' \in SearchKeys
    /\ fdb'.gen = fdb.gen /\ fdb'.rev = fdb.rev
    /\ fdb'.serving = fdb.serving /\ fdb'.epoch = fdb.epoch
    /\ fdb'.work = fdb.work /\ fdb'.cursor = fdb.cursor
    /\ fdb.issued \subseteq fdb'.issued

\* Claims only end.
ClaimsEnd == \A class \in Classes : fdb'.claim[class] \in {fdb.claim[class], NoClaim}

\* The machine of the replacement and the session are left alone.
Calm ==
    /\ UNCHANGED <<rebuild, step, begun, session>>
    /\ fdb'.serving = fdb.serving /\ fdb'.epoch = fdb.epoch
    /\ \A i \in Indexes : indices'[i].exists = indices[i].exists

\* What a step of a worker, a clock or a writer keeps.
Kept == TypeOK' /\ WorkInv' /\ Calm

LEMMA MachineCalm ==
    ASSUME BaseInv, SessionInv, Calm
    PROVE  MachineInv' /\ SessionInv'
<1>1. fdb.serving \in Indexes /\ (rebuild.state # "none" => rebuild.target \in Indexes /\ rebuild.source \in Indexes)
  BY ConstantFacts DEF BaseInv, TypeOK, MachineInv, Roles, SearchKeys, Indexes
<1>2. StateAt(step.pc, rebuild.state)' BY DEF BaseInv, MachineInv, Calm, StateAt
<1>3. Roles' BY DEF BaseInv, MachineInv, Roles, Calm
<1>4. Standing' BY <1>1 DEF BaseInv, MachineInv, Standing, Calm, Mirrored
<1>5. SessionInv' BY <1>1 DEF BaseInv, SessionInv, Calm, Continuable
<1> QED BY <1>2, <1>3, <1>4, <1>5 DEF MachineInv

LEMMA UsedCalm ==
    ASSUME UNCHANGED <<rebuild, begun>>, NEW i PROVE Used(i)' <=> Used(i)
  BY DEF Used

LEMMA PlacedKept ==
    ASSUME BaseInv, NEW w \in Workers, Same(w),
           fdb'.gen \in Nat, fdb'.gen >= fdb.gen, fdb'.gen = fdb.gen => fdb'.rev = fdb.rev,
           \A i \in Indexes : Used(i) => Used(i)'
    PROVE  Placed(w)'
<1>1. worker[w] \in Positions /\ Placed(w) /\ fdb.gen \in Nat
  BY DEF BaseInv, TypeOK, WorkInv, SearchKeys
<1>2. worker[w].gen \in Nat /\ worker[w].rev \in Nat BY <1>1 DEF Positions
<1> QED BY <1>1, <1>2 DEF Placed, Same

LEMMA SameWhenKept ==
    ASSUME NEW w, worker'[w] = worker[w] PROVE Same(w)
  BY DEF Same

LEMMA IdlePlaced ==
    ASSUME NEW w \in Workers, worker'[w] = Idle PROVE Placed(w)'
  BY DEF Placed, Idle, AtPage

\* Steps that leave the records alone: the worker's own new place is enough.
LEMMA QuietKept ==
    ASSUME BaseInv, KeysQuiet, UNCHANGED <<rebuild, step, begun, session, changes>>,
           faults' \in 0..MaxFaults, alias' = alias,
           indices' \in [Indexes -> Index],
           \A i \in Indexes : indices'[i].exists = indices[i].exists,
           late' \subseteq LateWrites, LateInv',
           worker' \in [Workers -> Positions],
           \A w \in Workers : Same(w) \/ Placed(w)'
    PROVE  Kept
<1>1. TypeOK' BY DEF BaseInv, TypeOK, KeysQuiet
<1>2. Records' BY DEF BaseInv, WorkInv, Records, KeysQuiet
<1>3. fdb.gen \in Nat BY DEF BaseInv, TypeOK, SearchKeys
<1>4. \A w \in Workers : Placed(w)'
  BY <1>3, PlacedKept, UsedCalm DEF KeysQuiet
<1>5. Calm BY DEF Calm, KeysQuiet
<1> QED BY <1>1, <1>2, <1>4, <1>5 DEF Kept, WorkInv

LEMMA FaultCounts ==
    ASSUME BaseInv PROVE (Fault \/ faults' = faults) => faults' \in 0..MaxFaults
  BY SearchRebuildAssumption DEF BaseInv, TypeOK, Fault

LEMMA KeysUnchanged ==
    ASSUME BaseInv, UNCHANGED fdb PROVE KeysQuiet /\ ClaimsEnd
  BY DEF BaseInv, TypeOK, KeysQuiet, ClaimsEnd

LEMMA ReleasedQuiet ==
    ASSUME BaseInv, NEW w \in Workers, fdb' = Released(fdb, w) PROVE KeysQuiet /\ ClaimsEnd
<1>1. worker[w].class \in Classes /\ fdb \in SearchKeys
  BY DEF BaseInv, TypeOK, Positions
<1>2. CASE Verified(w)
  BY <1>1, <1>2, NothingTyped DEF Released, KeysQuiet, ClaimsEnd, SearchKeys
<1>3. CASE ~Verified(w)
  BY <1>3, KeysUnchanged DEF Released
<1> QED BY <1>2, <1>3

LEMMA EngineTyped ==
    ASSUME BaseInv
    PROVE  /\ indices \in [Indexes -> Index] /\ late \subseteq LateWrites /\ LateInv
           /\ worker \in [Workers -> Positions]
           /\ \A i \in Indexes : indices[i] \in Index
           /\ \A i \in Indexes : indices[i].pages \in [Documents -> Nat]
           /\ fdb \in SearchKeys /\ rebuild \in Replacements
  BY DEF BaseInv, TypeOK, WorkInv, Index

LEMMA EndsKept ==
    ASSUME BaseInv, NEW w \in Workers, Ends(w),
           UNCHANGED <<rebuild, step, engine, session, changes, begun>>,
           Fault \/ faults' = faults
    PROVE  Kept
<1>1. KeysQuiet BY ReleasedQuiet DEF Ends
<1>2. worker' = [worker EXCEPT ![w] = Idle] BY DEF Ends
<1>3. worker' \in [Workers -> Positions] /\ \A v \in Workers : Same(v) \/ Placed(v)'
  BY <1>2, EngineTyped, NothingTyped, SameWhenKept, IdlePlaced
<1> QED BY <1>1, <1>3, QuietKept, EngineTyped, FaultCounts DEF engine, LateInv

\* The place of a worker, field by field, and the document it is at.
LEMMA PlaceTyped ==
    ASSUME BaseInv, NEW w \in Workers
    PROVE  /\ worker[w] \in Positions /\ worker[w].class \in Classes
           /\ worker[w].gen \in Nat /\ worker[w].rev \in Nat /\ worker[w].ord \in 0..Pages
           /\ worker[w].pc # "idle" => worker[w].target \in Indexes /\ worker[w].gen > 0
           /\ worker[w].pc \in AtPage => Doc(w) \in Documents
           /\ worker[w].pc \in AtPage => worker[w].ord \in 0..Pages - 1
<1>1. worker[w] \in Positions /\ Placed(w) /\ fdb.gen = changes + 1 /\ changes \in 0..MaxChanges
  BY DEF BaseInv, TypeOK, WorkInv, Records
<1>2. /\ worker[w].class \in Classes /\ worker[w].gen \in Nat /\ worker[w].rev \in Nat
      /\ worker[w].ord \in 0..Pages
  BY <1>1 DEF Positions
<1>3. worker[w].pc # "idle" => /\ worker[w].target \in Indexes /\ worker[w].gen > 0
                               /\ worker[w].rev \in 1..MaxChanges + 1
  BY <1>1, <1>2, ConstantFacts DEF Placed
<1>4. worker[w].pc \in AtPage => worker[w].ord \in 0..Pages - 1 /\ worker[w].pc # "idle"
  BY <1>1, <1>2, ConstantFacts DEF Placed, AtPage
<1> QED BY <1>1, <1>2, <1>3, <1>4 DEF Doc, Documents

LEMMA StoresTyped ==
    ASSUME BaseInv, NEW i \in Indexes, NEW d \in Documents, NEW gen \in Nat, Stores(i, d, gen)
    PROVE  /\ indices' \in [Indexes -> Index]
           /\ \A j \in Indexes : indices'[j].exists = indices[j].exists
           /\ \A j \in Indexes : indices'[j].seen = indices[j].seen
           /\ \A j \in Indexes, e \in Documents :
                indices'[j].pages[e] = IF j = i /\ e = d THEN gen ELSE indices[j].pages[e]
  BY EngineTyped DEF Stores, Index

LEMMA GoesPlaced ==
    ASSUME BaseInv, NEW w \in Workers, NEW pc, Goes(w, pc), worker[w].pc \in AtPage,
           UNCHANGED <<rebuild, begun>>, fdb'.gen = fdb.gen, fdb'.rev = fdb.rev,
           \/ pc \in {"complete", "keep"}
           \/ pc = "mirror" /\ worker[w].mirror \in Indexes
    PROVE  worker' \in [Workers -> Positions] /\ \A v \in Workers : Same(v) \/ Placed(v)'
<1>1. worker \in [Workers -> Positions] BY EngineTyped
<1>2. worker' \in [Workers -> Positions] BY <1>1 DEF Goes, Positions
<1>3. \A v \in Workers \ {w} : Same(v) BY <1>1, SameWhenKept DEF Goes
<1>4. /\ worker'[w].pc = pc /\ worker'[w].gen = worker[w].gen /\ worker'[w].rev = worker[w].rev
      /\ worker'[w].target = worker[w].target /\ worker'[w].mirror = worker[w].mirror
      /\ worker'[w].ord = worker[w].ord /\ worker'[w].missed = worker[w].missed
  BY <1>1 DEF Goes, Positions
<1>5. Placed(w) BY DEF BaseInv, WorkInv
<1>6. Placed(w)' BY <1>4, <1>5, UsedCalm DEF Placed, AtPage
<1> QED BY <1>2, <1>3, <1>6

LEMMA PutKept ==
    ASSUME BaseInv, NEW w \in Workers, Put(w) PROVE Kept
<1> DEFINE me == worker[w]
<1>1. /\ me.pc = "put" /\ me.target \in Indexes /\ Doc(w) \in Documents /\ me.gen \in Nat
      /\ me.mirror \in AnyIndex
  BY PlaceTyped DEF Put, AtPage, Positions
<1>2. CASE Ends(w) /\ UNCHANGED indices
  BY <1>2, EndsKept DEF Put, engine, bounds
<1>3. CASE /\ Stores(me.target, Doc(w), me.gen) /\ UNCHANGED fdb
           /\ Goes(w, IF me.mirror = NoIndex \/ me.skipped \/ me.missed # "no"
                      THEN "complete" ELSE "mirror")
  <2>1. /\ indices' \in [Indexes -> Index]
        /\ \A j \in Indexes : indices'[j].exists = indices[j].exists
    BY <1>1, <1>3, StoresTyped
  <2>2. /\ UNCHANGED <<rebuild, step, alias, late, session, changes, begun, faults>>
    BY DEF Put, bounds
  <2>3. PICK pc \in {"complete", "mirror"} : Goes(w, pc) /\ (pc = "mirror" => me.mirror \in Indexes)
    BY <1>1, <1>3 DEF AnyIndex
  <2>4. worker' \in [Workers -> Positions] /\ \A v \in Workers : Same(v) \/ Placed(v)'
    BY <1>1, <1>3, <2>2, <2>3, GoesPlaced DEF AtPage
  <2> QED BY <1>3, <2>1, <2>2, <2>4, QuietKept, EngineTyped, FaultCounts, KeysUnchanged DEF LateInv
<1> QED BY <1>2, <1>3 DEF Put

LEMMA AbandonedTyped ==
    ASSUME BaseInv, NEW w \in Workers, NEW i \in Indexes, worker[w].pc \in AtPage,
           late' = late \cup {Request(i, Doc(w), worker[w].gen)}
    PROVE  late' \subseteq LateWrites /\ LateInv'
<1>1. Doc(w) \in Documents /\ worker[w].gen \in Nat /\ worker[w].gen > 0
  BY PlaceTyped DEF AtPage
<1>2. indices[i].pages[Doc(w)] \in Nat BY <1>1, EngineTyped
<1>3. PICK q \in LateWrites : q = Request(i, Doc(w), worker[w].gen)
  BY <1>1, <1>2 DEF LateWrites, Request
<1>4. q.gen > 0 BY <1>1, <1>3 DEF Request
<1> QED BY <1>3, <1>4, EngineTyped DEF LateInv

LEMMA PutAbandonedKept ==
    ASSUME BaseInv, NEW w \in Workers, PutAbandoned(w) PROVE Kept
<1> DEFINE h == [class |-> worker[w].class, doc |-> Doc(w), index |-> worker[w].target]
<1>1. /\ worker[w].pc = "put" /\ worker[w].target \in Indexes /\ Doc(w) \in Documents
      /\ worker[w].class \in Classes
  BY PlaceTyped DEF PutAbandoned, AtPage
<1>2. late' \subseteq LateWrites /\ LateInv'
  BY <1>1, AbandonedTyped DEF PutAbandoned, AtPage
<1>3. h \in [class : Classes, doc : Documents, index : Indexes] BY <1>1
<1>4. fdb' = IF Verified(w) THEN [Released(fdb, w) EXCEPT !.held = @ \cup {h}] ELSE fdb
  BY DEF PutAbandoned
<1> HIDE DEF h
<1>5. KeysQuiet /\ ClaimsEnd
  <2>1. CASE Verified(w)
    <3>1. fdb' = [[fdb EXCEPT !.claim[worker[w].class] = NoClaim] EXCEPT !.held = @ \cup {h}]
      BY <2>1, <1>4 DEF Released
    <3> QED BY <3>1, <1>1, <1>3, EngineTyped, NothingTyped DEF KeysQuiet, ClaimsEnd, SearchKeys
  <2>2. CASE ~Verified(w) BY <2>2, <1>4, KeysUnchanged
  <2> QED BY <2>1, <2>2
<1>6. worker' = [worker EXCEPT ![w] = Idle] BY DEF PutAbandoned
<1>7. worker' \in [Workers -> Positions] /\ \A v \in Workers : Same(v) \/ Placed(v)'
  BY <1>6, EngineTyped, NothingTyped, SameWhenKept, IdlePlaced
<1>8. UNCHANGED <<rebuild, step, begun, session, changes, alias, indices>> /\ Fault
  BY DEF PutAbandoned
<1> QED BY <1>2, <1>5, <1>7, <1>8, QuietKept, EngineTyped, FaultCounts

\* A worker stays at its page, with its deadline or its skipping changed.
LEMMA StaysPlaced ==
    ASSUME BaseInv, NEW w \in Workers, worker[w].pc \in AtPage,
           worker' \in [Workers -> Positions], \A v \in Workers \ {w} : worker'[v] = worker[v],
           worker'[w].gen = worker[w].gen, worker'[w].rev = worker[w].rev,
           worker'[w].target = worker[w].target, worker'[w].mirror = worker[w].mirror,
           worker'[w].ord = worker[w].ord, worker'[w].pc \in {"put", "complete"},
           worker'[w].missed # "no" => worker[w].mirror \in Indexes,
           UNCHANGED <<rebuild, begun>>, fdb'.gen = fdb.gen, fdb'.rev = fdb.rev
    PROVE  \A v \in Workers : Same(v) \/ Placed(v)'
<1>1. Placed(w) BY DEF BaseInv, WorkInv
<1>2. Placed(w)' BY <1>1, UsedCalm DEF Placed, AtPage
<1>3. \A v \in Workers \ {w} : Same(v) BY SameWhenKept
<1> QED BY <1>2, <1>3

MissedMirror(w, missed) ==
    worker' = [worker EXCEPT ![w].pc = "complete", ![w].missed = missed, ![w].skipped = TRUE]

LEMMA MissedFields ==
    ASSUME BaseInv, NEW w \in Workers, NEW missed \in {"open", "expired"}, MissedMirror(w, missed)
    PROVE  /\ worker' \in [Workers -> Positions] /\ \A v \in Workers \ {w} : worker'[v] = worker[v]
           /\ worker'[w].gen = worker[w].gen /\ worker'[w].rev = worker[w].rev
           /\ worker'[w].target = worker[w].target /\ worker'[w].mirror = worker[w].mirror
           /\ worker'[w].ord = worker[w].ord /\ worker'[w].pc = "complete"
           /\ worker'[w].class = worker[w].class /\ worker'[w].missed = missed
  BY EngineTyped DEF MissedMirror, Positions

LEMMA MissedPlaced ==
    ASSUME BaseInv, NEW w \in Workers, NEW missed \in {"open", "expired"},
           worker[w].pc = "mirror", MissedMirror(w, missed),
           UNCHANGED <<rebuild, begun>>, fdb'.gen = fdb.gen, fdb'.rev = fdb.rev
    PROVE  worker' \in [Workers -> Positions] /\ \A v \in Workers : Same(v) \/ Placed(v)'
<1>1. worker[w].mirror \in Indexes BY DEF BaseInv, WorkInv, Placed
<1> QED BY <1>1, MissedFields, StaysPlaced DEF AtPage

LEMMA MirrorPutKept ==
    ASSUME BaseInv, NEW w \in Workers, MirrorPut(w) PROVE Kept
<1> DEFINE me == worker[w]
<1>1. /\ me.pc = "mirror" /\ Doc(w) \in Documents /\ me.gen \in Nat /\ me.mirror \in Indexes
  BY PlaceTyped DEF MirrorPut, AtPage, BaseInv, WorkInv, Placed
<1>2. UNCHANGED <<rebuild, step, alias, late, session, changes, begun, faults>>
  BY DEF MirrorPut, bounds
<1>3. CASE Ends(w) /\ UNCHANGED indices
  BY <1>3, <1>2, EndsKept DEF engine
<1>4. CASE Stores(me.mirror, Doc(w), me.gen) /\ Goes(w, "complete") /\ UNCHANGED fdb
  <2>1. /\ indices' \in [Indexes -> Index]
        /\ \A j \in Indexes : indices'[j].exists = indices[j].exists
    BY <1>1, <1>4, StoresTyped
  <2>2. worker' \in [Workers -> Positions] /\ \A v \in Workers : Same(v) \/ Placed(v)'
    BY <1>1, <1>2, <1>4, GoesPlaced DEF AtPage
  <2> QED BY <1>2, <1>4, <2>1, <2>2, QuietKept, EngineTyped, FaultCounts, KeysUnchanged DEF LateInv
<1>5. CASE MissedMirror(w, "expired") /\ UNCHANGED <<fdb, indices>>
  <2>1. worker' \in [Workers -> Positions] /\ \A v \in Workers : Same(v) \/ Placed(v)'
    BY <1>1, <1>2, <1>5, MissedPlaced
  <2> QED BY <1>2, <1>5, <2>1, QuietKept, EngineTyped, FaultCounts, KeysUnchanged DEF LateInv
<1> QED BY <1>3, <1>4, <1>5 DEF MirrorPut, MissedMirror

LEMMA MirrorMissedKept ==
    ASSUME BaseInv, NEW w \in Workers, MirrorMissed(w) PROVE Kept
<1> DEFINE me == worker[w]
<1>1. me.pc = "mirror" /\ me.mirror \in Indexes
  BY DEF MirrorMissed, BaseInv, WorkInv, Placed
<1>2. UNCHANGED <<fdb, rebuild, step, indices, alias, session, changes, begun>> /\ Fault
  BY DEF MirrorMissed
<1>3. PICK missed \in {"open", "expired"} :
          MissedMirror(w, missed) /\ (late' = late \/ late' = late \cup {Request(me.mirror, Doc(w), me.gen)})
  BY DEF MirrorMissed, MissedMirror
<1>4. worker' \in [Workers -> Positions] /\ \A v \in Workers : Same(v) \/ Placed(v)'
  BY <1>1, <1>2, <1>3, MissedPlaced
<1>5. late' \subseteq LateWrites /\ LateInv'
  BY <1>1, <1>3, EngineTyped, AbandonedTyped DEF LateInv, AtPage
<1> QED BY <1>2, <1>4, <1>5, QuietKept, EngineTyped, FaultCounts, KeysUnchanged

LEMMA RegisterKept ==
    ASSUME BaseInv, NEW w \in Workers, Register(w) PROVE Kept
<1> DEFINE me == worker[w]
           held(classes, index) ==
              \E h \in fdb.held : h.class \in classes /\ h.doc = Doc(w) /\ h.index = index
<1>1. me.pc = "register" /\ Doc(w) \in Documents
  BY PlaceTyped DEF Register, AtPage
<1>2. UNCHANGED <<rebuild, step, indices, alias, late, session, changes, begun, faults>>
  BY DEF Register, engine, bounds
<1>3. CASE Ends(w) BY <1>2, <1>3, EndsKept DEF engine
<1>4. CASE PageVerified(w)
  <2>1. fdb' = [fdb EXCEPT !.issued = @ \cup {Doc(w)}] BY <1>4 DEF Register
  <2>2. PICK a \in BOOLEAN, m \in {"open", "no"} :
          /\ worker' = [worker EXCEPT ![w].pc = "put", ![w].held = a, ![w].missed = m]
          /\ m = "open" => held({"live", "copy"}, me.mirror)
    BY <1>4 DEF Register
  <2>3. KeysQuiet BY <1>1, <2>1, EngineTyped DEF KeysQuiet, SearchKeys
  <2>4. m = "open" => me.mirror \in Indexes BY <2>2, EngineTyped DEF SearchKeys
  <2>5. /\ worker' \in [Workers -> Positions] /\ \A v \in Workers \ {w} : worker'[v] = worker[v]
        /\ worker'[w].gen = worker[w].gen /\ worker'[w].rev = worker[w].rev
        /\ worker'[w].target = worker[w].target /\ worker'[w].mirror = worker[w].mirror
        /\ worker'[w].ord = worker[w].ord /\ worker'[w].pc = "put" /\ worker'[w].missed = m
    <3>1. worker' = [worker EXCEPT ![w].pc = "put", ![w].held = a, ![w].missed = m] BY <2>2
    <3>2. worker \in [Workers -> Positions] BY EngineTyped
    <3>3. worker'[w] = [worker[w] EXCEPT !.pc = "put", !.held = a, !.missed = m] BY <3>1, <3>2
    <3>4. worker'[w] \in Positions BY <3>2, <3>3 DEF Positions
    <3>5. worker' \in [Workers -> Positions] /\ \A v \in Workers \ {w} : worker'[v] = worker[v]
      BY <3>1, <3>2, <3>4
    <3> QED BY <3>2, <3>3, <3>5 DEF Positions
  <2>6. \A v \in Workers : Same(v) \/ Placed(v)'
    BY <1>1, <1>2, <2>3, <2>4, <2>5, StaysPlaced DEF AtPage, KeysQuiet
  <2> QED BY <1>2, <2>3, <2>5, <2>6, QuietKept, EngineTyped, FaultCounts DEF LateInv
<1> QED BY <1>3, <1>4 DEF Register

LEMMA RefreshedTyped ==
    ASSUME BaseInv, NEW i \in Indexes, indices' = Refreshed(i)
    PROVE  /\ indices' \in [Indexes -> Index]
           /\ \A j \in Indexes : /\ indices'[j].exists = indices[j].exists
                                 /\ indices'[j].pages = indices[j].pages
                                 /\ j # i => indices'[j].seen = indices[j].seen
           /\ indices'[i].seen = {d \in Documents : Has(i, d)}
  BY EngineTyped DEF Refreshed, Index, Has

LEMMA RefreshKept ==
    ASSUME BaseInv, NEW w \in Workers, Refresh(w) PROVE Kept
<1> DEFINE me == worker[w]
<1>1. me.pc = "refresh" /\ me.target \in Indexes BY PlaceTyped DEF Refresh
<1>2. UNCHANGED <<rebuild, step, alias, late, session, changes, begun, faults>>
  BY DEF Refresh, bounds
<1>3. CASE Ends(w) /\ UNCHANGED indices BY <1>2, <1>3, EndsKept DEF engine
<1>4. CASE indices' = Refreshed(me.target) /\ Goes(w, "finish") /\ UNCHANGED fdb
  <2>1. /\ indices' \in [Indexes -> Index]
        /\ \A j \in Indexes : indices'[j].exists = indices[j].exists
    BY <1>1, <1>4, RefreshedTyped
  <2>2. /\ worker' \in [Workers -> Positions] /\ \A v \in Workers \ {w} : worker'[v] = worker[v]
        /\ worker'[w].gen = me.gen /\ worker'[w].rev = me.rev /\ worker'[w].ord = me.ord
        /\ worker'[w].target = me.target /\ worker'[w].mirror = me.mirror
        /\ worker'[w].missed = me.missed /\ worker'[w].pc = "finish"
    BY <1>4, EngineTyped DEF Goes, Positions
  <2>3. Placed(w) BY DEF BaseInv, WorkInv
  <2>4. Placed(w)' BY <1>1, <1>2, <1>4, <2>2, <2>3, UsedCalm DEF Placed, AtPage
  <2>5. \A v \in Workers : Same(v) \/ Placed(v)' BY <2>2, <2>4, SameWhenKept
  <2> QED BY <1>2, <1>4, <2>1, <2>2, <2>5, QuietKept, EngineTyped, FaultCounts, KeysUnchanged DEF LateInv
<1> QED BY <1>3, <1>4 DEF Refresh

LEMMA WorkerFailsKept ==
    ASSUME BaseInv, NEW w \in Workers, WorkerFails(w) PROVE Kept
<1>1. /\ UNCHANGED <<rebuild, step, indices, alias, late, session, changes, begun>> /\ Fault
      /\ worker[w].pc # "idle"
  BY DEF WorkerFails, engine
<1>2. CASE Ends(w) BY <1>1, <1>2, EndsKept DEF engine
<1>3. CASE worker' = [worker EXCEPT ![w] = Idle] /\ UNCHANGED fdb
  <2>1. worker' \in [Workers -> Positions] /\ \A v \in Workers : Same(v) \/ Placed(v)'
    BY <1>3, EngineTyped, NothingTyped, SameWhenKept, IdlePlaced
  <2> QED BY <1>1, <1>3, <2>1, QuietKept, EngineTyped, FaultCounts, KeysUnchanged DEF LateInv
<1>4. CASE worker[w].pc = "complete" /\ Goes(w, "keep") /\ UNCHANGED fdb
  <2>1. worker' \in [Workers -> Positions] /\ \A v \in Workers : Same(v) \/ Placed(v)'
    BY <1>1, <1>4, GoesPlaced DEF AtPage
  <2> QED BY <1>1, <1>4, <2>1, QuietKept, EngineTyped, FaultCounts, KeysUnchanged DEF LateInv
<1> QED BY <1>2, <1>3, <1>4 DEF WorkerFails

LEMMA LeaseKept ==
    ASSUME BaseInv, NEW class \in Classes, LeaseEnds(class) \/ LeaseLapses(class)
    PROVE  Kept
<1>1. fdb' = [fdb EXCEPT !.claim[class] = NoClaim] BY DEF LeaseEnds, LeaseLapses
<1>2. /\ UNCHANGED <<rebuild, step, indices, alias, late, worker, session, changes, begun>>
      /\ Fault \/ faults' = faults
  BY DEF LeaseEnds, LeaseLapses, engine, bounds
<1>3. KeysQuiet BY <1>1, EngineTyped, NothingTyped DEF KeysQuiet, SearchKeys
<1>4. \A v \in Workers : Same(v) BY <1>2, SameWhenKept
<1> QED BY <1>2, <1>3, <1>4, QuietKept, EngineTyped, FaultCounts DEF LateInv

LEMMA LateArrivesKept ==
    ASSUME BaseInv, NEW q \in late, LateArrives(q) PROVE Kept
<1>1. q \in LateWrites BY EngineTyped
<1>2. q.index \in Indexes /\ q.doc \in Documents /\ q.gen \in Nat BY <1>1 DEF LateWrites
<1>3. UNCHANGED <<fdb, rebuild, step, alias, worker, session, changes, begun, faults>>
  BY DEF LateArrives, bounds
<1>4. late' \subseteq LateWrites /\ LateInv' BY EngineTyped DEF LateArrives, LateInv
<1>5. /\ indices' \in [Indexes -> Index]
      /\ \A i \in Indexes : indices'[i].exists = indices[i].exists
  BY <1>2, StoresTyped, EngineTyped DEF LateArrives
<1>6. \A v \in Workers : Same(v) BY <1>3, SameWhenKept
<1> QED BY <1>3, <1>4, <1>5, <1>6, QuietKept, EngineTyped, FaultCounts, KeysUnchanged

LEMMA HorizonFields ==
    ASSUME BaseInv, NEW d, NEW i, HorizonPasses(d, i)
    PROVE  /\ UNCHANGED <<rebuild, step, indices, alias, late, session, changes, begun, faults>>
           /\ KeysQuiet /\ ClaimsEnd
           /\ worker' \in [Workers -> Positions]
           /\ \A w \in Workers : Same(w)
<1>1. UNCHANGED <<rebuild, step, indices, alias, late, session, changes, begun, faults>>
  BY DEF HorizonPasses, engine, bounds
<1>2. PICK kept \in SUBSET fdb.held : fdb' = [fdb EXCEPT !.held = kept] BY DEF HorizonPasses
<1>3. KeysQuiet /\ ClaimsEnd BY <1>2, EngineTyped DEF KeysQuiet, ClaimsEnd, SearchKeys
<1>4. PICK waiting \in SUBSET Workers :
        /\ \A w \in waiting : worker[w].missed = "open"
        /\ worker' = [w \in Workers |-> IF w \in waiting
                        THEN [worker[w] EXCEPT !.missed = "expired"] ELSE worker[w]]
  BY DEF HorizonPasses
<1>5. ASSUME NEW w \in Workers PROVE worker'[w] \in Positions /\ Same(w)
  <2>1. CASE w \in waiting
    <3>1. worker'[w] = [worker[w] EXCEPT !.missed = "expired"] /\ worker[w].missed = "open"
      BY <1>4, <2>1
    <3> QED BY <3>1, EngineTyped DEF Positions, Same
  <2>2. CASE w \notin waiting
    BY <1>4, <2>2, EngineTyped, SameWhenKept
  <2> QED BY <2>1, <2>2
<1> QED BY <1>1, <1>3, <1>4, <1>5

LEMMA HorizonKept ==
    ASSUME BaseInv, NEW d, NEW i, HorizonPasses(d, i) PROVE Kept
  BY HorizonFields, QuietKept, EngineTyped, FaultCounts DEF LateInv

\* What a claim gives its worker.
Claimed(w, class) ==
    /\ worker[w].pc = "idle" /\ ~rebuild.paused
    /\ fdb.work[class].gen = fdb.gen /\ fdb.work[class].rev = fdb.rev
    /\ fdb.work[class] # NoRecord
    /\ worker' \in [Workers -> Positions] /\ \A v \in Workers \ {w} : worker'[v] = worker[v]
    /\ worker'[w].class = class /\ worker'[w].gen = fdb.gen /\ worker'[w].rev = fdb.rev
    /\ worker'[w].target = Target(class) /\ Target(class) \in Indexes
    /\ worker'[w].mirror = MirrorOf(class)
    /\ worker'[w].ord = Progress(fdb, class).ord
    /\ worker'[w].pc = IF Progress(fdb, class).phase = "pages" THEN "register" ELSE "refresh"
    /\ worker'[w].missed = "no" /\ worker'[w].skipped = FALSE

LEMMA TargetTyped ==
    ASSUME BaseInv, NEW class \in Classes
    PROVE  Target(class) \in AnyIndex /\ MirrorOf(class) \in AnyIndex
<1>1. fdb.serving \in AnyIndex /\ rebuild.target \in AnyIndex
  BY EngineTyped DEF SearchKeys, Replacements, AnyIndex
<1> QED BY <1>1 DEF Target, MirrorOf, Mirror, AnyIndex

LEMMA ClaimFields ==
    ASSUME BaseInv, NEW w \in Workers, NEW class \in Classes, Claim(w, class)
    PROVE  /\ UNCHANGED <<rebuild, step, indices, alias, late, session, changes, begun, faults>>
           /\ KeysQuiet /\ Claimed(w, class)
<1> DEFINE record == fdb.work[class]
           claim == [owner |-> w, gen |-> record.gen, target |-> Target(class),
                     mirror |-> MirrorOf(class)]
           from == Progress(fdb, class)
           place == [Idle EXCEPT !.pc = IF from.phase = "pages" THEN "register" ELSE "refresh",
                       !.class = class, !.gen = record.gen, !.rev = record.rev,
                       !.ord = from.ord, !.target = claim.target, !.mirror = claim.mirror]
<1>1. UNCHANGED <<rebuild, step, indices, alias, late, session, changes, begun, faults>>
  BY DEF Claim, engine, bounds
<1>2. /\ worker[w].pc = "idle" /\ ~rebuild.paused /\ record # NoRecord
      /\ Target(class) # NoIndex
      /\ fdb' = [fdb EXCEPT !.claim[class] = claim] /\ worker' = [worker EXCEPT ![w] = place]
  BY DEF Claim
<1>3. record.gen = fdb.gen /\ record.rev = fdb.rev BY <1>2 DEF BaseInv, WorkInv, Records
<1>4. fdb.gen \in Nat /\ fdb.rev \in Nat BY EngineTyped DEF SearchKeys
<1>5. Target(class) \in AnyIndex /\ MirrorOf(class) \in AnyIndex BY TargetTyped
<1>6. from \in [gen : Nat, rev : Nat, ord : 0..Pages, phase : {"pages", "refresh"}]
  BY EngineTyped, ProgressTyped
<1>7. claim \in [owner : Workers \cup {NoOwner}, gen : Nat, target : AnyIndex, mirror : AnyIndex]
  BY <1>3, <1>4, <1>5
<1>8. /\ place \in Positions
      /\ place.class = class /\ place.gen = record.gen /\ place.rev = record.rev
      /\ place.target = Target(class) /\ place.mirror = MirrorOf(class)
      /\ place.ord = from.ord
      /\ place.pc = IF from.phase = "pages" THEN "register" ELSE "refresh"
      /\ place.missed = "no" /\ place.skipped = FALSE
  BY <1>3, <1>4, <1>5, <1>6 DEF Idle, Positions
<1> HIDE DEF place, claim, record, from
<1>9. KeysQuiet BY <1>2, <1>7, EngineTyped DEF KeysQuiet, SearchKeys
<1>10. /\ worker' \in [Workers -> Positions] /\ \A v \in Workers \ {w} : worker'[v] = worker[v]
       /\ worker'[w] = place
  BY <1>2, <1>8, EngineTyped
<1>11. Target(class) \in Indexes BY <1>2, <1>5 DEF AnyIndex
<1>12. Claimed(w, class)
  BY <1>2, <1>3, <1>8, <1>10, <1>11 DEF Claimed, record, from
<1> QED BY <1>1, <1>9, <1>12

\* An index that serves or is mirrored may be claimed.
LEMMA TargetUsed ==
    ASSUME BaseInv, NEW class \in Classes
    PROVE  /\ Target(class) \in Indexes => Used(Target(class))
           /\ MirrorOf(class) \in Indexes => Used(MirrorOf(class))
<1>1. fdb.serving \in Indexes /\ begun \in Nat BY DEF BaseInv, TypeOK, SearchKeys
<1>2. Used(fdb.serving) BY <1>1 DEF BaseInv, MachineInv, Roles, Used
<1>3. Mirror(rebuild) \in Indexes => Used(Mirror(rebuild))
  BY <1>1, ConstantFacts DEF BaseInv, MachineInv, Roles, Used, Mirror
<1> QED BY <1>2, <1>3, ConstantFacts DEF Target, MirrorOf

\* A checkpoint in the pages phase is at a page, one in the refresh phase past all.
LEMMA ProgressPhase ==
    ASSUME BaseInv, NEW class \in Classes
    PROVE  /\ Progress(fdb, class).phase = "pages" => Progress(fdb, class).ord < Pages
           /\ Progress(fdb, class).phase # "pages" => Progress(fdb, class).ord = Pages
<1>1. /\ fdb.cursor[class].ord \in 0..Pages
      /\ fdb.cursor[class].phase = "pages" <=> fdb.cursor[class].ord < Pages
  BY EngineTyped DEF BaseInv, WorkInv, Records, SearchKeys
<1>2. CASE Progress(fdb, class) = fdb.cursor[class]
  BY <1>1, <1>2, ConstantFacts
<1>3. CASE Progress(fdb, class) # fdb.cursor[class]
  <2>1. Progress(fdb, class).ord = 0 /\ Progress(fdb, class).phase = "pages"
    BY <1>3 DEF Progress
  <2> QED BY <2>1, ConstantFacts
<1> QED BY <1>2, <1>3

LEMMA ClaimKept ==
    ASSUME BaseInv, NEW w \in Workers, NEW class \in Classes, Claim(w, class) PROVE Kept
<1>1. /\ UNCHANGED <<rebuild, step, indices, alias, late, session, changes, begun, faults>>
      /\ KeysQuiet
  BY ClaimFields
<1>2. Claimed(w, class) BY ClaimFields
<1>3. worker' \in [Workers -> Positions] /\ \A v \in Workers \ {w} : Same(v)
  BY <1>2, SameWhenKept DEF Claimed
<1>4. fdb.gen \in Nat /\ fdb.rev \in 1..fdb.gen BY DEF BaseInv, TypeOK, SearchKeys
<1>6. Placed(w)'
  <2>1. /\ worker'[w].gen \in 1..fdb'.gen /\ worker'[w].rev \in 1..worker'[w].gen
        /\ worker'[w].rev = fdb'.rev
    BY <1>1, <1>2, <1>4 DEF KeysQuiet, Claimed
  <2>2. Used(worker[w].target)' /\ worker'[w].target \in Indexes
        /\ (worker'[w].mirror \in Indexes => Used(worker[w].mirror)')
    BY <1>1, <1>2, TargetUsed DEF Used, Claimed
  <2>3. /\ worker'[w].pc \in AtPage => worker'[w].ord < Pages
        /\ worker'[w].pc \in {"refresh", "finish"} => worker'[w].ord = Pages
        /\ worker'[w].pc # "mirror" /\ worker'[w].missed = "no"
    BY <1>2, ProgressPhase DEF Claimed, AtPage
  <2> QED BY <2>1, <2>2, <2>3 DEF Placed
<1> QED BY <1>1, <1>3, <1>6, QuietKept, EngineTyped, FaultCounts DEF LateInv

\* verifyPage: what the keys say of a worker whose page verifies.
LEMMA PageVerifiedFacts ==
    ASSUME BaseInv, NEW w \in Workers, PageVerified(w)
    PROVE  LET me == worker[w] IN
           /\ me.gen = fdb.gen /\ me.rev = fdb.rev /\ fdb.work[me.class] # NoRecord
           /\ fdb.work[me.class].gen = fdb.gen /\ fdb.work[me.class].rev = fdb.rev
           /\ Target(me.class) = me.target /\ MirrorOf(me.class) = me.mirror
           /\ Progress(fdb, me.class).ord = me.ord /\ Progress(fdb, me.class).phase = "pages"
           /\ fdb.claim[me.class].owner = w
<1>1. worker[w].class \in Classes /\ fdb.gen \in Nat /\ fdb.gen > 0
  BY PlaceTyped DEF BaseInv, TypeOK, SearchKeys, WorkInv, Records
<1>2. fdb.work[worker[w].class] # NoRecord
  BY <1>1, ConstantFacts DEF PageVerified, Verified
<1> QED BY <1>2 DEF PageVerified, Verified

PageDone(w) ==
    LET me == worker[w] IN
    /\ fdb' \in SearchKeys
    /\ fdb'.gen = fdb.gen /\ fdb'.rev = fdb.rev /\ fdb'.serving = fdb.serving
    /\ fdb'.epoch = fdb.epoch /\ fdb'.issued = fdb.issued /\ fdb'.claim = fdb.claim
    /\ fdb'.cursor[me.class].gen = fdb.gen /\ fdb'.cursor[me.class].rev = fdb.rev
    /\ fdb'.cursor[me.class].ord = me.ord + 1
    /\ fdb'.cursor[me.class].phase = IF me.ord + 1 = Pages THEN "refresh" ELSE "pages"
    /\ fdb'.work["live"] = fdb.work["live"]
    /\ me.class = "copy" => /\ fdb'.work["copy"] = fdb.work["copy"]
                            /\ fdb'.cursor["live"] = fdb.cursor["live"]
    /\ me.class = "live" =>
          \/ /\ me.missed = "no" /\ fdb'.work["copy"] = fdb.work["copy"]
             /\ fdb'.cursor["copy"] = fdb.cursor["copy"]
          \/ me.missed # "no" /\ CopySide(fdb, fdb', fdb.gen, fdb.rev, me.ord)

LEMMA CopyMayBeOwed ==
    ASSUME BaseInv
    PROVE  /\ fdb.work["copy"] = NoRecord \/ fdb.work["copy"] = [gen |-> fdb.gen, rev |-> fdb.rev]
           /\ fdb.cursor["copy"].gen = fdb.gen => fdb.cursor["copy"].rev = fdb.rev
           /\ fdb.gen > 0 /\ fdb.gen \in Nat
<1>1. fdb.work["copy"] \in [gen : Nat, rev : Nat] BY EngineTyped, ConstantFacts DEF SearchKeys
<1>2. \/ fdb.work["copy"] = NoRecord
      \/ fdb.work["copy"].gen = fdb.gen /\ fdb.work["copy"].rev = fdb.rev
  BY ConstantFacts DEF BaseInv, WorkInv, Records
<1>3. fdb.cursor["copy"].gen = fdb.gen => fdb.cursor["copy"].rev = fdb.rev
  BY ConstantFacts DEF BaseInv, WorkInv, Records
<1>4. fdb.gen > 0 /\ fdb.gen \in Nat BY DEF BaseInv, TypeOK, SearchKeys, WorkInv, Records
<1> QED BY <1>1, <1>2, <1>3, <1>4

LEMMA PageDoneFields ==
    ASSUME BaseInv, NEW w \in Workers, CompletePage(w), PageVerified(w)
    PROVE  PageDone(w)
<1> DEFINE me == worker[w]
           phase == IF me.ord + 1 = Pages THEN "refresh" ELSE "pages"
           h == [class |-> me.class, doc |-> Doc(w), index |-> me.target]
           owed == IF me.missed = "no" THEN fdb ELSE ScheduleMirrorCopy(fdb, me, me.gen)
           at == [gen |-> me.gen, rev |-> me.rev, ord |-> me.ord + 1, phase |-> phase]
<1>1. /\ me \in Positions /\ me.class \in Classes /\ me.gen \in Nat /\ me.rev \in Nat
      /\ me.ord \in 0..Pages - 1 /\ Doc(w) \in Documents
      /\ me.pc = "complete"
  BY PlaceTyped DEF CompletePage, AtPage
<1>2. /\ me.gen = fdb.gen /\ me.rev = fdb.rev /\ MirrorOf(me.class) = me.mirror
  BY PageVerifiedFacts
<1>3. fdb' = [owed EXCEPT !.held = IF me.held THEN @ \ {h} ELSE @, !.cursor[me.class] = at]
  BY DEF CompletePage
<1>4. at \in [gen : Nat, rev : Nat, ord : 0..Pages, phase : {"pages", "refresh"}]
  BY <1>1, ConstantFacts
<1>5. at.gen = fdb.gen /\ at.rev = fdb.rev /\ at.ord = me.ord + 1 /\ at.phase = phase BY <1>2
<1>6. me.missed # "no" => me.class = "live" /\ CopyOwed(fdb, owed, fdb.gen, fdb.rev, me.ord)
  <2>1. SUFFICES ASSUME me.missed # "no"
                 PROVE  me.class = "live" /\ CopyOwed(fdb, owed, fdb.gen, fdb.rev, me.ord)
    OBVIOUS
  <2>2. me.mirror \in Indexes BY <2>1 DEF BaseInv, WorkInv, Placed
  <2>3. me.class = "live" BY <1>1, <1>2, <2>2, ConstantFacts DEF MirrorOf
  <2>4. owed = ScheduleMirrorCopy(fdb, me, fdb.gen) BY <1>2, <2>1
  <2>5. <<me.rev, me.ord>> \in Documents BY <1>1 DEF Doc
  <2>6. me.rev = fdb.rev BY <1>2
  <2> HIDE DEF owed, me
  <2> QED BY <1>1, <2>2, <2>3, <2>4, <2>5, <2>6, CopyMayBeOwed, EngineTyped, ScheduleMirrorCopyFields
<1>7. me.missed = "no" => owed = fdb OBVIOUS
<1> HIDE DEF owed, at, h, me, phase
<1>8. owed \in SearchKeys BY <1>6, <1>7, EngineTyped DEF CopyOwed
<1>9. /\ fdb' \in SearchKeys /\ fdb'.gen = owed.gen /\ fdb'.rev = owed.rev
      /\ fdb'.serving = owed.serving /\ fdb'.epoch = owed.epoch /\ fdb'.issued = owed.issued
      /\ fdb'.claim = owed.claim /\ fdb'.work = owed.work
      /\ fdb'.cursor[me.class] = at
      /\ \A c \in Classes : c # me.class => fdb'.cursor[c] = owed.cursor[c]
  <2>1. PICK hs \in SUBSET owed.held : fdb' = [owed EXCEPT !.held = hs, !.cursor[me.class] = at]
    BY <1>3, <1>8 DEF SearchKeys
  <2> QED BY <2>1, <1>1, <1>4, <1>8 DEF SearchKeys
<1>10. CASE me.missed = "no"
  BY <1>1, <1>5, <1>7, <1>9, <1>10, ConstantFacts DEF PageDone, me, phase
<1>11. CASE me.missed # "no"
  <2>1. /\ fdb'.cursor["copy"] = owed.cursor["copy"] /\ me.class = "live"
    BY <1>6, <1>9, <1>11, ConstantFacts
  <2>2. CopySide(fdb, fdb', fdb.gen, fdb.rev, me.ord)
    BY <1>6, <1>9, <1>11, <2>1 DEF CopyOwed, CopySide
  <2> QED BY <1>5, <1>6, <1>9, <1>11, <2>1, <2>2 DEF PageDone, CopyOwed, me, phase
<1> QED BY <1>10, <1>11

\* The worker after its page.
NextPage(w) ==
    LET me == worker[w] IN
    /\ worker' \in [Workers -> Positions] /\ \A v \in Workers \ {w} : worker'[v] = worker[v]
    /\ worker'[w].gen = me.gen /\ worker'[w].rev = me.rev /\ worker'[w].class = me.class
    /\ worker'[w].target = me.target /\ worker'[w].mirror = me.mirror
    /\ worker'[w].ord = me.ord + 1 /\ worker'[w].missed = "no"
    /\ worker'[w].skipped = me.skipped
    /\ worker'[w].pc = IF me.ord + 1 = Pages THEN "refresh" ELSE "register"

LEMMA NextPageFields ==
    ASSUME BaseInv, NEW w \in Workers, CompletePage(w), PageVerified(w)
    PROVE  NextPage(w)
<1> DEFINE me == worker[w]
           pc == IF me.ord + 1 = Pages THEN "refresh" ELSE "register"
<1>1. me \in Positions /\ me.ord \in 0..Pages - 1 /\ worker \in [Workers -> Positions]
  BY PlaceTyped, EngineTyped DEF CompletePage, AtPage
<1>2. worker' = [worker EXCEPT ![w].ord = @ + 1, ![w].missed = "no", ![w].held = FALSE, ![w].pc = pc]
  BY DEF CompletePage
<1>3. worker'[w] = [me EXCEPT !.ord = @ + 1, !.missed = "no", !.held = FALSE, !.pc = pc]
  BY <1>1, <1>2
<1>4. \A v \in Workers \ {w} : worker'[v] = worker[v] BY <1>1, <1>2
<1>5. me.ord + 1 \in 0..Pages BY <1>1, ConstantFacts
<1>6. /\ worker'[w] \in Positions
      /\ worker'[w].gen = me.gen /\ worker'[w].rev = me.rev /\ worker'[w].class = me.class
      /\ worker'[w].target = me.target /\ worker'[w].mirror = me.mirror
      /\ worker'[w].ord = me.ord + 1 /\ worker'[w].missed = "no"
      /\ worker'[w].skipped = me.skipped /\ worker'[w].pc = pc
  BY <1>1, <1>3, <1>5 DEF Positions
<1>7. worker' \in [Workers -> Positions] BY <1>1, <1>2, <1>6
<1> QED BY <1>4, <1>6, <1>7 DEF NextPage

\* A copy is owed from a page on, and nothing else changes but claims that end.
KeysOwe(ord) ==
    /\ fdb' \in SearchKeys
    /\ fdb'.gen = fdb.gen /\ fdb'.rev = fdb.rev /\ fdb'.serving = fdb.serving
    /\ fdb'.epoch = fdb.epoch /\ fdb'.issued = fdb.issued
    /\ fdb'.work["live"] = fdb.work["live"] /\ fdb'.cursor["live"] = fdb.cursor["live"]
    /\ CopySide(fdb, fdb', fdb.gen, fdb.rev, ord)
    /\ ClaimsEnd

\* The checkpoint of a class, in the terms of Records.
CursorOK(s, class) ==
    /\ s.cursor[class].gen <= s.gen
    /\ s.cursor[class].gen = s.gen => s.cursor[class].rev = s.rev
    /\ s.cursor[class].phase = "pages" <=> s.cursor[class].ord < Pages

LEMMA CursorsOK ==
    ASSUME BaseInv, NEW class \in Classes PROVE CursorOK(fdb, class)
  BY DEF BaseInv, WorkInv, Records, CursorOK

LEMMA CopySideOK ==
    ASSUME BaseInv, NEW ord, CopySide(fdb, fdb', fdb.gen, fdb.rev, ord),
           fdb' \in SearchKeys, fdb'.gen = fdb.gen, fdb'.rev = fdb.rev
    PROVE  CursorOK(fdb', "copy")
<1>1. fdb.gen \in Nat /\ fdb.gen > 0 BY CopyMayBeOwed
<1>2. CASE fdb'.cursor["copy"] = fdb.cursor["copy"]
  BY <1>2, CursorsOK, ConstantFacts DEF CursorOK
<1>3. CASE /\ \/ fdb'.cursor["copy"].gen = 0
              \/ fdb'.cursor["copy"].gen = fdb.gen /\ fdb'.cursor["copy"].rev = fdb.rev
           /\ fdb'.cursor["copy"].phase = "pages" /\ fdb'.cursor["copy"].ord < Pages
  BY <1>1, <1>3 DEF CursorOK
<1> QED BY <1>2, <1>3 DEF CopySide

LEMMA RecordsFrom ==
    ASSUME BaseInv, changes' = changes, fdb'.gen = fdb.gen, fdb'.rev = fdb.rev,
           \A class \in Classes : \/ fdb'.work[class] = NoRecord
                                  \/ fdb'.work[class] = fdb.work[class]
                                  \/ fdb'.work[class].gen = fdb.gen /\ fdb'.work[class].rev = fdb.rev,
           \A class \in Classes : CursorOK(fdb', class)
    PROVE  Records'
  BY DEF BaseInv, WorkInv, Records, CursorOK

LEMMA OweRecords ==
    ASSUME BaseInv, changes' = changes, NEW ord, KeysOwe(ord) PROVE Records'
<1>1. CursorOK(fdb', "copy") BY CopySideOK DEF KeysOwe
<1>2. CursorOK(fdb', "live") BY CursorsOK, ConstantFacts DEF KeysOwe, CursorOK
<1> QED BY <1>1, <1>2, RecordsFrom, ConstantFacts DEF KeysOwe, CopySide

LEMMA RemovedRecords ==
    ASSUME BaseInv, changes' = changes, NEW class \in Classes, WorkRemoved(fdb, fdb', class)
    PROVE  Records'
<1>1. NoCursor.gen = 0 /\ NoCursor.phase = "pages" /\ NoCursor.ord = 0 BY DEF NoCursor
<1>2. fdb.gen \in Nat /\ fdb.gen > 0 BY CopyMayBeOwed
<1>3. CursorOK(fdb', class) BY <1>1, <1>2, ConstantFacts DEF WorkRemoved, CursorOK
<1>4. \A c \in Classes : c # class => CursorOK(fdb', c)
  BY CursorsOK DEF WorkRemoved, CursorOK
<1> QED BY <1>3, <1>4, RecordsFrom DEF WorkRemoved

\* Steps that change records: with Records' the rest is as for the quiet ones.
LEMMA RecordsKept ==
    ASSUME BaseInv, Records', fdb' \in SearchKeys, fdb'.gen = fdb.gen, fdb'.rev = fdb.rev,
           fdb'.serving = fdb.serving, fdb'.epoch = fdb.epoch,
           UNCHANGED <<rebuild, step, begun, session, changes, faults, alias, indices, late>>,
           worker' \in [Workers -> Positions],
           \A w \in Workers : Same(w) \/ Placed(w)'
    PROVE  Kept
<1>1. TypeOK' BY DEF BaseInv, TypeOK
<1>2. fdb.gen \in Nat BY DEF BaseInv, TypeOK, SearchKeys
<1>3. \A w \in Workers : Placed(w)' BY <1>2, PlacedKept, UsedCalm
<1>4. Calm BY DEF Calm
<1>5. LateInv' BY DEF BaseInv, WorkInv, LateInv
<1> QED BY <1>1, <1>3, <1>4, <1>5 DEF Kept, WorkInv

LEMMA CompletePageKept ==
    ASSUME BaseInv, NEW w \in Workers, CompletePage(w) PROVE Kept
<1>1. /\ worker[w].pc = "complete"
      /\ UNCHANGED <<rebuild, step, indices, alias, late, session, changes, begun, faults>>
  BY DEF CompletePage, engine, bounds
<1>2. CASE PageVerified(w)
  <2>1. PageDone(w) /\ NextPage(w) BY <1>2, PageDoneFields, NextPageFields
  <2>2. worker[w].class \in Classes /\ worker[w].ord \in 0..Pages - 1 BY <1>1, PlaceTyped DEF AtPage
  <2>3. fdb.gen \in Nat BY CopyMayBeOwed
  <2>4. CursorOK(fdb', worker[w].class)
    BY <2>1, <2>2, <2>3, ConstantFacts DEF PageDone, CursorOK
  <2>5. \A c \in Classes : c # worker[w].class => CursorOK(fdb', c)
    <3>1. worker[w].class = "copy" => CursorOK(fdb', "live")
      BY <2>1, CursorsOK, ConstantFacts DEF PageDone, CursorOK
    <3>2. worker[w].class = "live" => CursorOK(fdb', "copy")
      <4>1. SUFFICES ASSUME worker[w].class = "live" PROVE CursorOK(fdb', "copy") OBVIOUS
      <4>2. CASE fdb'.cursor["copy"] = fdb.cursor["copy"]
        BY <4>2, <2>1, CursorsOK, ConstantFacts DEF PageDone, CursorOK
      <4>3. CASE CopySide(fdb, fdb', fdb.gen, fdb.rev, worker[w].ord)
        BY <4>3, <2>1, CopySideOK DEF PageDone
      <4> QED BY <4>1, <4>2, <4>3, <2>1 DEF PageDone
    <3> QED BY <3>1, <3>2, <2>2, ConstantFacts
  <2>6. Records' 
    <3>1. \/ fdb'.work["copy"] = fdb.work["copy"]
          \/ fdb'.work["copy"].gen = fdb.gen /\ fdb'.work["copy"].rev = fdb.rev
      BY <2>1, <2>2, ConstantFacts DEF PageDone, CopySide
    <3> QED BY <3>1, <2>1, <2>2, <2>4, <2>5, <1>1, RecordsFrom, ConstantFacts DEF PageDone
  <2>7. Placed(w)'
    <3>1. Placed(w) BY DEF BaseInv, WorkInv
    <3>2. worker[w].ord + 1 # Pages => worker[w].ord + 1 < Pages BY <2>2, ConstantFacts
    <3> QED BY <3>1, <3>2, <2>1, <1>1, UsedCalm DEF NextPage, PageDone, Placed, AtPage
  <2>8. worker' \in [Workers -> Positions] /\ \A v \in Workers : Same(v) \/ Placed(v)'
    BY <2>1, <2>7, SameWhenKept DEF NextPage
  <2> QED BY <1>1, <2>1, <2>6, <2>8, RecordsKept DEF PageDone
<1>3. CASE Ends(w) BY <1>1, <1>3, EndsKept DEF engine
<1>4. CASE Goes(w, "keep") /\ UNCHANGED fdb
  <2>1. worker' \in [Workers -> Positions] /\ \A v \in Workers : Same(v) \/ Placed(v)'
    BY <1>1, <1>4, GoesPlaced DEF AtPage
  <2> QED BY <1>1, <1>4, <2>1, QuietKept, EngineTyped, FaultCounts, KeysUnchanged DEF LateInv
<1> QED BY <1>2, <1>3, <1>4 DEF CompletePage

LEMMA ReleasedFields ==
    ASSUME NEW s \in SearchKeys, NEW class \in Classes,
           fdb' = s \/ fdb' = [s EXCEPT !.claim[class] = NoClaim]
    PROVE  /\ fdb' \in SearchKeys /\ fdb'.gen = s.gen /\ fdb'.rev = s.rev
           /\ fdb'.serving = s.serving /\ fdb'.epoch = s.epoch /\ fdb'.work = s.work
           /\ fdb'.cursor = s.cursor /\ fdb'.issued = s.issued
           /\ \A c \in Classes : fdb'.claim[c] \in {s.claim[c], NoClaim}
<1>1. CASE fdb' = s BY <1>1
<1>2. CASE fdb' = [s EXCEPT !.claim[class] = NoClaim] BY <1>2, NothingTyped DEF SearchKeys
<1> QED BY <1>1, <1>2

\* keepMirrorMiss owes a copy only outside a paused switch, and then a mirror exists.
Keeps(w) ==
    \/ KeysQuiet /\ ClaimsEnd
    \/ /\ KeysOwe(worker[w].ord) /\ Mirror(rebuild) \in Indexes
       /\ ~(rebuild.state = "switching" /\ rebuild.paused)

LEMMA KeepFields ==
    ASSUME BaseInv, NEW w \in Workers, KeepMirrorMiss(w)
    PROVE  /\ Keeps(w) /\ worker' = [worker EXCEPT ![w] = Idle]
           /\ UNCHANGED <<rebuild, step, indices, alias, late, session, changes, begun, faults>>
<1> DEFINE me == worker[w]
           h == [class |-> me.class, doc |-> Doc(w), index |-> me.mirror]
           owed == /\ me.missed = "open" /\ fdb.rev = me.rev
                   /\ fdb.work["live"] # NoRecord /\ Mirror(rebuild) = me.mirror
           paused == rebuild.state = "switching" /\ rebuild.paused
           s == CASE ~owed -> fdb
                  [] owed /\ rebuild.state = "switching" /\ rebuild.paused ->
                        [fdb EXCEPT !.held = @ \cup {h}]
                  [] OTHER -> ScheduleMirrorCopy(fdb, me, fdb.gen)
<1>1. /\ UNCHANGED <<rebuild, step, indices, alias, late, session, changes, begun, faults>>
      /\ worker' = [worker EXCEPT ![w] = Idle] /\ me.pc = "keep"
  BY DEF KeepMirrorMiss, engine, bounds
<1>2. me \in Positions /\ me.class \in Classes /\ Doc(w) \in Documents /\ me.rev \in Nat
  BY <1>1, PlaceTyped DEF AtPage
<1>3. fdb' = Released(s, w) BY DEF KeepMirrorMiss
<1>4. fdb' = s \/ fdb' = [s EXCEPT !.claim[me.class] = NoClaim] BY <1>3 DEF Released
<1>5. CASE ~owed
  <2>1. s = fdb BY <1>5
  <2> HIDE DEF s
  <2>2. KeysQuiet /\ ClaimsEnd
    BY <1>2, <1>4, <2>1, EngineTyped, ReleasedFields DEF KeysQuiet, ClaimsEnd
  <2> QED BY <1>1, <2>2 DEF Keeps
<1>6. CASE owed /\ paused
  <2>1. s = [fdb EXCEPT !.held = @ \cup {h}] BY <1>6
  <2>2. me.mirror \in Indexes BY <1>6 DEF BaseInv, WorkInv, Placed
  <2>3. h \in [class : Classes, doc : Documents, index : Indexes] BY <1>2, <2>2
  <2> HIDE DEF s, h
  <2>4. /\ s \in SearchKeys /\ s.gen = fdb.gen /\ s.rev = fdb.rev /\ s.serving = fdb.serving
        /\ s.epoch = fdb.epoch /\ s.work = fdb.work /\ s.cursor = fdb.cursor
        /\ s.issued = fdb.issued /\ s.claim = fdb.claim
    BY <2>1, <2>3, EngineTyped DEF SearchKeys
  <2>5. KeysQuiet /\ ClaimsEnd
    BY <1>2, <1>4, <2>4, ReleasedFields DEF KeysQuiet, ClaimsEnd
  <2> QED BY <1>1, <2>5 DEF Keeps
<1>7. CASE owed /\ ~paused
  <2>1. s = ScheduleMirrorCopy(fdb, me, fdb.gen) BY <1>7
  <2>2. me.mirror \in Indexes BY <1>7 DEF BaseInv, WorkInv, Placed
  <2>3. <<me.rev, me.ord>> \in Documents /\ me.rev = fdb.rev BY <1>2, <1>7 DEF Doc
  <2>4. CopyOwed(fdb, s, fdb.gen, fdb.rev, me.ord)
    BY <1>2, <2>1, <2>2, <2>3, CopyMayBeOwed, EngineTyped, ScheduleMirrorCopyFields
  <2>5. Mirror(rebuild) \in Indexes /\ ~paused BY <1>7, <2>2
  <2> HIDE DEF s
  <2>6. /\ fdb' \in SearchKeys /\ fdb'.gen = s.gen /\ fdb'.rev = s.rev /\ fdb'.serving = s.serving
        /\ fdb'.epoch = s.epoch /\ fdb'.work = s.work /\ fdb'.cursor = s.cursor
        /\ fdb'.issued = s.issued
        /\ \A class \in Classes : fdb'.claim[class] \in {s.claim[class], NoClaim}
    <3>1. s \in SearchKeys BY <2>4 DEF CopyOwed
    <3> QED BY <3>1, <1>2, <1>4, ReleasedFields
  <2>7. KeysOwe(me.ord)
    BY <2>4, <2>6 DEF CopyOwed, CopySide, KeysOwe, ClaimsEnd
  <2> QED BY <1>1, <2>5, <2>7 DEF Keeps
<1> QED BY <1>5, <1>6, <1>7

LEMMA KeepKept ==
    ASSUME BaseInv, NEW w \in Workers, KeepMirrorMiss(w) PROVE Kept
<1>1. /\ Keeps(w) /\ worker' = [worker EXCEPT ![w] = Idle]
      /\ UNCHANGED <<rebuild, step, indices, alias, late, session, changes, begun, faults>>
  BY KeepFields
<1>2. worker' \in [Workers -> Positions] /\ \A v \in Workers : Same(v) \/ Placed(v)'
  BY <1>1, EngineTyped, NothingTyped, SameWhenKept, IdlePlaced
<1>3. CASE KeysQuiet
  BY <1>1, <1>2, <1>3, QuietKept, EngineTyped, FaultCounts DEF LateInv
<1>4. CASE KeysOwe(worker[w].ord)
  BY <1>1, <1>2, <1>4, OweRecords, RecordsKept DEF KeysOwe
<1> QED BY <1>1, <1>3, <1>4 DEF Keeps

LEMMA CompleteRefreshFields ==
    ASSUME BaseInv, NEW w \in Workers, CompleteRefresh(w)
    PROVE  /\ worker[w].pc = "finish" /\ worker' = [worker EXCEPT ![w] = Idle]
           /\ UNCHANGED <<rebuild, step, indices, alias, late, session, changes, begun, faults>>
           /\ \/ KeysQuiet /\ ClaimsEnd
              \/ /\ WorkRemoved(fdb, fdb', worker[w].class) /\ Verified(w)
                 /\ Progress(fdb, worker[w].class).phase = "refresh"
<1>1. worker[w].class \in Classes /\ fdb \in SearchKeys BY PlaceTyped, EngineTyped
<1>2. /\ worker[w].pc = "finish" /\ worker' = [worker EXCEPT ![w] = Idle]
      /\ UNCHANGED <<rebuild, step, indices, alias, late, session, changes, begun, faults>>
  BY DEF CompleteRefresh, Ends, engine, bounds
<1>3. CASE Verified(w) /\ Progress(fdb, worker[w].class).phase = "refresh"
  <2>1. fdb' = WithoutWork(fdb, worker[w].class) BY <1>3 DEF CompleteRefresh
  <2> QED BY <1>1, <1>2, <1>3, <2>1, WithoutWorkFields
<1>4. CASE ~(Verified(w) /\ Progress(fdb, worker[w].class).phase = "refresh")
  <2>1. fdb' = Released(fdb, w) BY <1>4 DEF CompleteRefresh, Ends
  <2> QED BY <1>2, <2>1, ReleasedQuiet
<1> QED BY <1>3, <1>4

LEMMA CompleteRefreshKept ==
    ASSUME BaseInv, NEW w \in Workers, CompleteRefresh(w) PROVE Kept
<1>1. /\ worker' = [worker EXCEPT ![w] = Idle]
      /\ UNCHANGED <<rebuild, step, indices, alias, late, session, changes, begun, faults>>
      /\ KeysQuiet \/ WorkRemoved(fdb, fdb', worker[w].class)
  BY CompleteRefreshFields
<1>2. worker' \in [Workers -> Positions] /\ \A v \in Workers : Same(v) \/ Placed(v)'
  BY <1>1, EngineTyped, NothingTyped, SameWhenKept, IdlePlaced
<1>3. CASE KeysQuiet
  BY <1>1, <1>2, <1>3, QuietKept, EngineTyped, FaultCounts DEF LateInv
<1>4. CASE WorkRemoved(fdb, fdb', worker[w].class)
  <2>1. worker[w].class \in Classes BY PlaceTyped
  <2> QED BY <1>1, <1>2, <1>4, <2>1, RemovedRecords, RecordsKept DEF WorkRemoved
<1> QED BY <1>1, <1>3, <1>4

\* Source changes: a new generation, and the records that follow it.
Edited ==
    /\ fdb' \in SearchKeys
    /\ fdb'.gen = fdb.gen + 1 /\ fdb'.rev = fdb.gen + 1
    /\ fdb'.serving = fdb.serving /\ fdb'.epoch = fdb.epoch /\ fdb'.issued = fdb.issued
    /\ fdb'.work["live"] = [gen |-> fdb.gen + 1, rev |-> fdb.gen + 1]
    /\ fdb'.work["copy"] = NoRecord
    /\ \A class \in Classes : fdb'.cursor[class] = NoCursor
    /\ ClaimsEnd

AccessChanged ==
    /\ fdb' \in SearchKeys
    /\ fdb'.gen = fdb.gen + 1 /\ fdb'.rev = fdb.rev
    /\ fdb'.serving = fdb.serving /\ fdb'.epoch = fdb.epoch /\ fdb'.issued = fdb.issued
    /\ \A class \in Classes :
          /\ fdb.work[class] = NoRecord => fdb'.work[class] = NoRecord
          /\ fdb.work[class] # NoRecord =>
                fdb'.work[class].gen = fdb.gen + 1 /\ fdb'.work[class].rev = fdb.work[class].rev
    /\ fdb'.cursor = fdb.cursor /\ ClaimsEnd

LEMMA EditedFields ==
    ASSUME BaseInv, EditContent
    PROVE  /\ Edited /\ changes' = changes + 1 /\ changes < MaxChanges
           /\ UNCHANGED <<rebuild, step, indices, alias, late, worker, session, begun, faults>>
<1> DEFINE s == WithoutWork(fdb, "copy")
           gen == fdb.gen + 1
           record == [gen |-> gen, rev |-> gen]
<1>1. /\ changes' = changes + 1 /\ changes < MaxChanges
      /\ UNCHANGED <<rebuild, step, indices, alias, late, worker, session, begun, faults>>
      /\ fdb' = [s EXCEPT !.gen = gen, !.rev = gen, !.work["live"] = record,
                          !.cursor["live"] = NoCursor]
  BY DEF EditContent, engine
<1>2. WorkRemoved(fdb, s, "copy") BY WithoutWorkFields, EngineTyped, ConstantFacts
<1>3. gen \in Nat /\ record \in [gen : Nat, rev : Nat] BY EngineTyped DEF SearchKeys
<1> HIDE DEF s, gen, record
<1>4. /\ fdb' \in SearchKeys /\ fdb'.gen = gen /\ fdb'.rev = gen
      /\ fdb'.serving = s.serving /\ fdb'.epoch = s.epoch /\ fdb'.issued = s.issued
      /\ fdb'.claim = s.claim /\ fdb'.work["live"] = record /\ fdb'.work["copy"] = s.work["copy"]
      /\ fdb'.cursor["live"] = NoCursor /\ fdb'.cursor["copy"] = s.cursor["copy"]
  <2>1. s \in SearchKeys BY <1>2 DEF WorkRemoved
  <2> QED BY <1>1, <1>3, <2>1, ConstantFacts, NothingTyped DEF SearchKeys
<1>5. Edited BY <1>2, <1>4, ConstantFacts DEF WorkRemoved, Edited, ClaimsEnd, record, gen
<1> QED BY <1>1, <1>5

LEMMA AccessFields ==
    ASSUME BaseInv, ChangeAccess
    PROVE  /\ AccessChanged /\ changes' = changes + 1 /\ changes < MaxChanges
           /\ UNCHANGED <<rebuild, step, indices, alias, late, worker, session, begun, faults>>
<1> DEFINE gen == fdb.gen + 1
           work == [class \in Classes |-> IF fdb.work[class] = NoRecord THEN NoRecord
                                          ELSE [fdb.work[class] EXCEPT !.gen = gen]]
<1>1. /\ changes' = changes + 1 /\ changes < MaxChanges
      /\ UNCHANGED <<rebuild, step, indices, alias, late, worker, session, begun, faults>>
      /\ fdb' = [fdb EXCEPT !.gen = gen, !.work = work]
  BY DEF ChangeAccess, engine
<1>2. gen \in Nat BY EngineTyped DEF SearchKeys
<1>3. \A class \in Classes : work[class] \in [gen : Nat, rev : Nat]
  BY <1>2, EngineTyped, ConstantFacts DEF SearchKeys
<1>4. work \in [Classes -> [gen : Nat, rev : Nat]] BY <1>3
<1>5. \A class \in Classes :
          /\ fdb.work[class] = NoRecord => work[class] = NoRecord
          /\ fdb.work[class] # NoRecord =>
                work[class].gen = gen /\ work[class].rev = fdb.work[class].rev
  BY EngineTyped DEF SearchKeys
<1> HIDE DEF work, gen
<1>6. /\ fdb' \in SearchKeys /\ fdb'.gen = gen /\ fdb'.rev = fdb.rev
      /\ fdb'.serving = fdb.serving /\ fdb'.epoch = fdb.epoch /\ fdb'.issued = fdb.issued
      /\ fdb'.claim = fdb.claim /\ fdb'.work = work /\ fdb'.cursor = fdb.cursor
  BY <1>1, <1>2, <1>4, EngineTyped DEF SearchKeys
<1>7. AccessChanged BY <1>5, <1>6 DEF AccessChanged, ClaimsEnd, gen
<1> QED BY <1>1, <1>7

LEMMA ChangeKept ==
    ASSUME BaseInv, fdb' \in SearchKeys, fdb'.gen = fdb.gen + 1,
           fdb'.rev \in {fdb.rev, fdb.gen + 1}, fdb'.serving = fdb.serving, fdb'.epoch = fdb.epoch,
           changes' = changes + 1, changes < MaxChanges, Records',
           UNCHANGED <<rebuild, step, indices, alias, late, worker, session, begun, faults>>
    PROVE  Kept
<1>1. fdb.gen \in Nat /\ fdb.rev \in 1..fdb.gen /\ fdb'.gen > fdb.gen /\ changes \in 0..MaxChanges
  BY DEF BaseInv, TypeOK, SearchKeys
<1>2. fdb'.rev \in 1..fdb'.gen BY <1>1
<1>3. changes' \in 0..MaxChanges BY <1>1, ConstantFacts
<1>4. TypeOK' BY <1>2, <1>3 DEF BaseInv, TypeOK
<1>5. \A w \in Workers : Same(w) BY SameWhenKept
<1>6. fdb'.gen \in Nat /\ fdb'.gen >= fdb.gen /\ fdb'.gen # fdb.gen BY <1>1
<1>7. \A w \in Workers : Placed(w)' BY <1>5, <1>6, PlacedKept, UsedCalm
<1>8. Calm BY DEF Calm
<1>9. LateInv' BY DEF BaseInv, WorkInv, LateInv
<1> QED BY <1>4, <1>7, <1>8, <1>9 DEF Kept, WorkInv

LEMMA EditContentKept ==
    ASSUME BaseInv, EditContent PROVE Kept
<1>1. fdb.gen \in Nat /\ fdb.gen = changes + 1 /\ changes \in Nat
  BY DEF BaseInv, TypeOK, SearchKeys, WorkInv, Records
<1>2. NoCursor.gen = 0 /\ NoCursor.phase = "pages" /\ NoCursor.ord = 0 BY DEF NoCursor
<1>3. Edited /\ changes' = changes + 1 BY EditedFields
<1>4. \A class \in Classes : /\ fdb'.cursor[class].gen = 0 /\ fdb'.cursor[class].phase = "pages"
                             /\ fdb'.cursor[class].ord = 0
  BY <1>2, <1>3 DEF Edited
<1>5. fdb'.gen = changes' + 1 /\ fdb'.gen \in Nat /\ fdb'.gen > 0 BY <1>1, <1>3 DEF Edited
<1>6. \A class \in Classes : \/ fdb'.work[class] = NoRecord
                             \/ fdb'.work[class].gen = fdb'.gen /\ fdb'.work[class].rev = fdb'.rev
  BY <1>3, ConstantFacts DEF Edited
<1>7. Records' BY <1>4, <1>5, <1>6, ConstantFacts DEF Records
<1> QED BY <1>3, <1>7, EditedFields, ChangeKept DEF Edited

LEMMA ChangeAccessKept ==
    ASSUME BaseInv, ChangeAccess PROVE Kept
<1>1. fdb.gen \in Nat /\ fdb.gen = changes + 1 /\ changes \in Nat
  BY DEF BaseInv, TypeOK, SearchKeys, WorkInv, Records
<1>2. AccessChanged /\ changes' = changes + 1 BY AccessFields
<1>3. fdb'.gen = changes' + 1 BY <1>1, <1>2 DEF AccessChanged
<1>4. \A class \in Classes : \/ fdb'.work[class] = NoRecord
                             \/ fdb'.work[class].gen = fdb'.gen /\ fdb'.work[class].rev = fdb'.rev
  BY <1>2 DEF AccessChanged, BaseInv, WorkInv, Records
<1>5. ASSUME NEW class \in Classes
      PROVE  /\ fdb'.cursor[class].gen <= fdb'.gen /\ fdb'.cursor[class].gen # fdb'.gen
             /\ fdb'.cursor[class].phase = "pages" <=> fdb'.cursor[class].ord < Pages
  <2>1. fdb.cursor[class].gen \in Nat BY EngineTyped DEF SearchKeys
  <2> QED BY <1>1, <1>2, <2>1, CursorsOK DEF AccessChanged, CursorOK
<1>6. Records' BY <1>3, <1>4, <1>5 DEF Records
<1> QED BY <1>2, <1>6, AccessFields, ChangeKept DEF AccessChanged

\* Every step of a worker, a clock or a writer.
WorkSide ==
    \/ EditContent \/ ChangeAccess
    \/ \E w \in Workers :
        \/ \E class \in Classes : Claim(w, class)
        \/ WorkStep(w) \/ PutAbandoned(w) \/ MirrorMissed(w) \/ WorkerFails(w)
    \/ \E class \in Classes : LeaseEnds(class) \/ LeaseLapses(class)
    \/ \E q \in late : LateArrives(q)
    \/ \E d \in Documents, i \in Indexes : HorizonPasses(d, i)

LEMMA WorkSideKept == ASSUME BaseInv, WorkSide PROVE Kept
  BY EditContentKept, ChangeAccessKept, ClaimKept, RegisterKept, PutKept, MirrorPutKept,
     CompletePageKept, KeepKept, RefreshKept, CompleteRefreshKept, PutAbandonedKept,
     MirrorMissedKept, WorkerFailsKept, LeaseKept, LateArrivesKept, HorizonKept
  DEF WorkSide, WorkStep

----------------------------------------------------------------------------
\* The slices of the rebuild item

LEMMA RebuildFacts ==
    ASSUME BaseInv
    PROVE  /\ fdb.serving \in Indexes /\ begun \in 0..MaxRebuilds
           /\ rebuild \in Replacements /\ step \in Slices
           /\ rebuild.state # "none" =>
                 /\ rebuild.source \in Indexes /\ rebuild.target \in Indexes
                 /\ rebuild.source # rebuild.target /\ rebuild.target = begun
                 /\ fdb.serving = IF rebuild.state = "retiring" THEN rebuild.target ELSE rebuild.source
           /\ step.pc # "idle" => rebuild.state # "none"
           /\ StateAt(step.pc, rebuild.state)
           /\ indices[fdb.serving].exists
           /\ rebuild.state \in Mirrored => indices[rebuild.target].exists
           /\ rebuild.paused => rebuild.state \in {"creating", "switching"}
  BY ConstantFacts DEF BaseInv, TypeOK, MachineInv, Roles, Standing, SearchKeys, Indexes

\* The worker side of a slice.
LEMMA SliceKept ==
    ASSUME BaseInv, UNCHANGED <<worker, late, changes>>, faults' \in 0..MaxFaults,
           fdb' \in SearchKeys, fdb'.gen = fdb.gen, fdb'.rev = fdb.rev, Records',
           rebuild' \in Replacements, step' \in Slices, indices' \in [Indexes -> Index],
           alias' \in AnyIndex, session' \in Sessions, begun' \in 0..MaxRebuilds,
           \A i \in Indexes : Used(i) => Used(i)'
    PROVE  TypeOK' /\ WorkInv'
<1>1. TypeOK' BY DEF BaseInv, TypeOK
<1>2. fdb.gen \in Nat BY DEF BaseInv, TypeOK, SearchKeys
<1>3. \A w \in Workers : Placed(w)' BY <1>2, PlacedKept, SameWhenKept
<1>4. LateInv' BY DEF BaseInv, WorkInv, LateInv
<1> QED BY <1>1, <1>3, <1>4 DEF WorkInv

\* The record of the replacement and the keys are left alone.
LEMMA PlainSliceKept ==
    ASSUME BaseInv, UNCHANGED <<fdb, rebuild, worker, late, changes, begun>>,
           faults' \in 0..MaxFaults, step' \in Slices, indices' \in [Indexes -> Index],
           alias' \in AnyIndex, session' \in Sessions
    PROVE  TypeOK' /\ WorkInv'
<1>1. Records' BY DEF BaseInv, WorkInv, Records
<1>2. fdb \in SearchKeys /\ rebuild \in Replacements /\ begun \in 0..MaxRebuilds
  BY DEF BaseInv, TypeOK
<1> QED BY <1>1, <1>2, SliceKept, UsedCalm

\* Only the position moves.
LEMMA StepOnly ==
    ASSUME BaseInv, SessionInv,
           UNCHANGED <<fdb, rebuild, indices, alias, late, worker, session, changes, begun>>,
           Fault \/ faults' = faults,
           step' \in Slices, StateAt(step'.pc, rebuild.state),
           rebuild.state = "none" => step'.pc = "idle",
           rebuild.state = "creating" /\ step'.pc \in {"clear", "green", "unblock", "copying"}
              => indices[rebuild.target].exists,
           rebuild.state = "retiring" => step'.pc \in {"idle", "sessions"}
    PROVE  BaseInv' /\ SessionInv'
<1>1. TypeOK' /\ WorkInv'
  BY PlainSliceKept, FaultCounts DEF BaseInv, TypeOK
<1>2. Roles' BY DEF BaseInv, MachineInv, Roles
<1>3. Standing' BY DEF BaseInv, MachineInv, Standing
<1>4. StateAt(step.pc, rebuild.state)' BY DEF StateAt
<1>5. SessionInv' BY DEF SessionInv, Continuable
<1> QED BY <1>1, <1>2, <1>3, <1>4, <1>5 DEF BaseInv, MachineInv

\* The positions a slice can move to.
Positioned(pc) == step' \in Slices /\ step'.pc = pc

LEMMA SliceEnded ==
    ASSUME EndSlice PROVE Positioned("idle")
  BY NothingTyped DEF NoStep, EndSlice, Positioned

LEMMA EndSliceKept ==
    ASSUME BaseInv, SessionInv, EndSlice, Fault \/ faults' = faults,
           UNCHANGED <<fdb, rebuild, indices, alias, late, worker, session, changes, begun>>
    PROVE  BaseInv' /\ SessionInv'
<1>1. step' \in Slices /\ step'.pc = "idle" BY SliceEnded DEF Positioned
<1>2. StateAt(step'.pc, rebuild.state) BY <1>1 DEF StateAt
<1> QED BY <1>1, <1>2, StepOnly

LEMMA StepsTo ==
    ASSUME BaseInv,
           NEW pc \in {"create", "pause", "block", "split", "clear", "green", "unblock",
                       "copying", "scan", "copies", "verify", "documents", "lookup", "checked",
                       "recheck", "resume", "refresh", "alias", "switched", "sessions",
                       "blockOld", "restore", "delete", "finish"},
           Step(pc)
    PROVE  Positioned(pc)
<1>1. step \in Slices BY DEF BaseInv, TypeOK
<1>2. step' = [step EXCEPT !.pc = pc] BY DEF Step
<1> QED BY <1>1, <1>2 DEF Slices, Positioned

LEMMA ClaimRebuildSlice ==
    ASSUME BaseInv, SessionInv, ClaimRebuild PROVE BaseInv' /\ SessionInv'
<1>1. /\ UNCHANGED <<fdb, rebuild, indices, alias, late, worker, session, changes, begun, faults>>
      /\ rebuild # NoRebuild
  BY DEF ClaimRebuild, engine, bounds
<1>2. rebuild.state # "none" BY <1>1 DEF BaseInv, MachineInv, Roles
<1>3. rebuild.state \in {"creating", "copying", "verifying", "switching", "retiring", "failed"}
  BY <1>2, RebuildFacts DEF Replacements
<1>4. PICK pc \in {"pause", "create", "copies", "scan", "documents", "sessions", "restore"} :
          Step(pc) /\ StateAt(pc, rebuild.state) /\ (rebuild.state = "retiring" => pc = "sessions")
  BY <1>3 DEF ClaimRebuild, StateAt
<1>5. Positioned(pc) BY <1>4, StepsTo
<1> QED BY <1>1, <1>2, <1>4, <1>5, StepOnly DEF Positioned

LEMMA TargetGreenSlice ==
    ASSUME BaseInv, SessionInv, TargetGreen PROVE BaseInv' /\ SessionInv'
<1>1. /\ UNCHANGED <<fdb, rebuild, indices, alias, late, worker, session, changes, begun, faults>>
      /\ step.pc = "green"
  BY DEF TargetGreen, engine, bounds
<1>2. rebuild.state \in {"creating", "switching"} BY <1>1, RebuildFacts DEF StateAt
<1>3. PICK pc \in {"alias", "unblock", "copying"} : Step(pc) /\ StateAt(pc, rebuild.state)
  BY <1>2 DEF TargetGreen, StateAt
<1>4. Positioned(pc) BY <1>3, StepsTo
<1>5. rebuild.state = "creating" => indices[rebuild.target].exists
  BY <1>1 DEF BaseInv, MachineInv, Standing
<1> QED BY <1>1, <1>2, <1>3, <1>4, <1>5, StepOnly DEF Positioned

LEMMA CheckCopiesSlice ==
    ASSUME BaseInv, SessionInv, CheckCopies PROVE BaseInv' /\ SessionInv'
<1>1. /\ UNCHANGED <<fdb, rebuild, indices, alias, late, worker, session, changes, begun, faults>>
      /\ step.pc = "copies"
  BY DEF CheckCopies, engine, bounds
<1>2. rebuild.state \in {"copying", "switching"} BY <1>1, RebuildFacts DEF StateAt
<1>3. rebuild.paused => rebuild.state = "switching" BY <1>2, RebuildFacts
<1>4. CASE EndSlice BY <1>1, <1>4, EndSliceKept
<1>5. ASSUME NEW pc \in {"resume", "verify", "pause"}, Step(pc), StateAt(pc, rebuild.state)
      PROVE  BaseInv' /\ SessionInv'
  <2>1. Positioned(pc) BY <1>5, StepsTo
  <2> QED BY <1>1, <1>2, <1>5, <2>1, StepOnly DEF Positioned
<1>6. \/ EndSlice
      \/ Step("resume") /\ rebuild.paused
      \/ Step("verify") /\ rebuild.state = "copying"
      \/ Step("pause") /\ rebuild.state = "switching"
  BY <1>2 DEF CheckCopies
<1> QED BY <1>3, <1>4, <1>5, <1>6 DEF StateAt

LEMMA RecheckCopiesSlice ==
    ASSUME BaseInv, SessionInv, RecheckCopies PROVE BaseInv' /\ SessionInv'
<1>1. /\ UNCHANGED <<fdb, rebuild, indices, alias, late, worker, session, changes, begun, faults>>
      /\ step.pc = "recheck"
  BY DEF RecheckCopies, engine, bounds
<1>2. rebuild.state = "switching" BY <1>1, RebuildFacts DEF StateAt
<1>3. PICK pc \in {"resume", "refresh"} : Step(pc) BY DEF RecheckCopies
<1>4. StateAt(pc, rebuild.state) BY <1>2, <1>3 DEF StateAt
<1>5. Positioned(pc) BY <1>3, StepsTo
<1> QED BY <1>1, <1>2, <1>4, <1>5, StepOnly DEF Positioned

\* VerifyRebuildDocuments: the key it takes is the first that is left.
Taken ==
    LET rest == {d \in fdb.issued : rebuild.verified = NoDocument \/ Before(rebuild.verified, d)}
    IN  \/ /\ rest = {} /\ step'.pc = "checked" /\ step'.done /\ step'.ok
        \/ /\ step'.doc \in rest /\ step'.ok
           /\ \A d \in rest : d = step'.doc \/ Before(step'.doc, d)
           /\ step'.done => rest = {step'.doc}
           /\ \/ step'.pc = "lookup" /\ step'.doc[1] = fdb.rev
              \/ step'.pc = "checked" /\ step'.doc[1] # fdb.rev

LEMMA DocumentsFields ==
    ASSUME BaseInv, VerifyRebuildDocuments
    PROVE  /\ UNCHANGED <<fdb, rebuild, indices, alias, late, worker, session, changes, begun, faults>>
           /\ step.pc = "documents" /\ step' \in Slices /\ step'.pc \in {"lookup", "checked"}
           /\ Taken
<1> DEFINE rest == {d \in fdb.issued : rebuild.verified = NoDocument \/ Before(rebuild.verified, d)}
           next == CHOOSE d \in rest : \A e \in rest : e = d \/ Before(d, e)
           taken == [pc |-> IF next[1] = fdb.rev THEN "lookup" ELSE "checked",
                     doc |-> next, done |-> rest = {next}, ok |-> TRUE]
           all == [NoStep EXCEPT !.pc = "checked", !.done = TRUE, !.ok = TRUE]
<1>1. /\ UNCHANGED <<fdb, rebuild, indices, alias, late, worker, session, changes, begun, faults>>
      /\ step.pc = "documents" /\ step' = IF rest = {} THEN all ELSE taken
  BY DEF VerifyRebuildDocuments, engine, bounds
<1>2. CASE rest = {}
  <2>1. step' = all BY <1>1, <1>2
  <2>2. step' \in Slices /\ step'.pc = "checked" /\ step'.done = TRUE /\ step'.ok = TRUE
    BY <2>1, NothingTyped DEF NoStep, Slices
  <2> QED BY <1>1, <1>2, <2>2 DEF Taken
<1>3. CASE rest # {}
  <2>1. step' = taken BY <1>1, <1>3
  <2>2. rest \subseteq Documents BY EngineTyped DEF SearchKeys
  <2>3. next \in rest /\ \A e \in rest : e = next \/ Before(next, e)
    <3> HIDE DEF rest
    <3> QED BY <1>3, <2>2, NextDocument
  <2> HIDE DEF next
  <2>4. next \in SomeDocument BY <2>2, <2>3 DEF SomeDocument
  <2>5. /\ step' \in Slices /\ step'.doc = next /\ step'.ok = TRUE /\ step'.done = (rest = {next})
        /\ step'.pc = IF next[1] = fdb.rev THEN "lookup" ELSE "checked"
    BY <2>1, <2>4 DEF Slices
  <2>6. step'.pc \in {"lookup", "checked"} BY <2>5
  <2>7. step'.ok /\ (step'.done => rest = {step'.doc}) BY <2>5
  <2>8. \/ step'.pc = "lookup" /\ step'.doc[1] = fdb.rev
        \/ step'.pc = "checked" /\ step'.doc[1] # fdb.rev
    BY <2>5
  <2>9. step'.doc \in rest /\ \A d \in rest : d = step'.doc \/ Before(step'.doc, d)
    BY <2>3, <2>5
  <2> QED BY <1>1, <2>5, <2>6, <2>7, <2>8, <2>9 DEF Taken
<1> QED BY <1>2, <1>3

LEMMA DocumentsSlice ==
    ASSUME BaseInv, SessionInv, VerifyRebuildDocuments PROVE BaseInv' /\ SessionInv'
<1>1. /\ UNCHANGED <<fdb, rebuild, indices, alias, late, worker, session, changes, begun, faults>>
      /\ step.pc = "documents" /\ step' \in Slices /\ step'.pc \in {"lookup", "checked"}
  BY DocumentsFields
<1>2. rebuild.state = "verifying" BY <1>1, RebuildFacts DEF StateAt
<1>3. StateAt(step'.pc, rebuild.state) BY <1>1, <1>2 DEF StateAt
<1> QED BY <1>1, <1>2, <1>3, StepOnly

LEMMA LookUpFields ==
    ASSUME BaseInv, LookUp
    PROVE  /\ UNCHANGED <<fdb, rebuild, indices, alias, late, worker, session, changes, begun, faults>>
           /\ step.pc = "lookup" /\ step' \in Slices /\ step'.pc = "checked"
           /\ step'.doc = step.doc /\ step'.done = step.done
           /\ step'.ok => Has(rebuild.target, step.doc)
<1> DEFINE found == indices[NewIndex].pages[step.doc] > 0
<1>1. /\ UNCHANGED <<fdb, rebuild, indices, alias, late, worker, session, changes, begun, faults>>
      /\ step.pc = "lookup" /\ step' = [step EXCEPT !.pc = "checked", !.ok = found]
  BY DEF LookUp, engine, bounds
<1>2. step \in Slices /\ found \in BOOLEAN BY DEF BaseInv, TypeOK
<1>3. found => Has(rebuild.target, step.doc) BY DEF Has, NewIndex
<1> HIDE DEF found
<1>4. /\ step' \in Slices /\ step'.pc = "checked"
      /\ step'.doc = step.doc /\ step'.done = step.done /\ step'.ok = found
  BY <1>1, <1>2 DEF Slices
<1> QED BY <1>1, <1>3, <1>4

LEMMA LookUpSlice ==
    ASSUME BaseInv, SessionInv, LookUp PROVE BaseInv' /\ SessionInv'
<1>1. /\ UNCHANGED <<fdb, rebuild, indices, alias, late, worker, session, changes, begun, faults>>
      /\ step.pc = "lookup" /\ step' \in Slices /\ step'.pc = "checked"
  BY LookUpFields
<1>2. rebuild.state = "verifying" BY <1>1, RebuildFacts DEF StateAt
<1>3. StateAt(step'.pc, rebuild.state) BY <1>1, <1>2 DEF StateAt
<1> QED BY <1>1, <1>2, <1>3, StepOnly

\* A slice changes an index and moves on.
LEMMA IndexStep ==
    ASSUME BaseInv, SessionInv,
           UNCHANGED <<fdb, rebuild, late, worker, session, changes, begun, faults>>,
           alias' \in AnyIndex, indices' \in [Indexes -> Index],
           NEW pc, Positioned(pc), StateAt(pc, rebuild.state), step.pc \notin {"idle", "sessions"},
           indices'[fdb.serving].exists,
           rebuild.state \in Mirrored => indices'[rebuild.target].exists,
           rebuild.state = "creating" /\ pc \in {"clear", "green", "unblock", "copying"}
              => indices'[rebuild.target].exists
    PROVE  BaseInv' /\ SessionInv'
<1>1. TypeOK' /\ WorkInv'
  BY PlainSliceKept, FaultCounts DEF BaseInv, TypeOK, Positioned
<1>2. rebuild.state # "none" BY RebuildFacts
<1>3. Roles' BY <1>2 DEF BaseInv, MachineInv, Roles
<1>4. Standing' BY DEF BaseInv, MachineInv, Standing, Positioned
<1>5. StateAt(step.pc, rebuild.state)' BY DEF StateAt, Positioned
<1>6. SessionInv' BY DEF SessionInv, Continuable
<1> QED BY <1>1, <1>3, <1>4, <1>5, <1>6 DEF BaseInv, MachineInv

LEMMA ExistsChanged ==
    ASSUME BaseInv, NEW i \in Indexes, NEW b \in BOOLEAN,
           indices' = [indices EXCEPT ![i].exists = b]
    PROVE  /\ indices' \in [Indexes -> Index]
           /\ \A j \in Indexes : indices'[j].exists = IF j = i THEN b ELSE indices[j].exists
           /\ \A j \in Indexes : indices'[j].pages = indices[j].pages /\ indices'[j].seen = indices[j].seen
  BY EngineTyped DEF Index

\* Only a write block changes.
BlockOnly ==
    /\ indices' \in [Indexes -> Index]
    /\ \A j \in Indexes : /\ indices'[j].exists = indices[j].exists
                          /\ indices'[j].pages = indices[j].pages
                          /\ indices'[j].seen = indices[j].seen

LEMMA BlockChanged ==
    ASSUME BaseInv, NEW i \in Indexes, NEW b \in BOOLEAN,
           indices' = [indices EXCEPT ![i].blocked = b]
    PROVE  BlockOnly
  BY EngineTyped DEF Index, BlockOnly

LEMMA CreateSlice ==
    ASSUME BaseInv, SessionInv, CreateReplacement PROVE BaseInv' /\ SessionInv'
<1>1. /\ UNCHANGED <<fdb, rebuild, alias, late, worker, session, changes, begun, faults>>
      /\ step.pc = "create" /\ indices' = [indices EXCEPT ![rebuild.target].exists = TRUE]
      /\ Step("green")
  BY DEF CreateReplacement, bounds, NewIndex
<1>2. rebuild.state = "creating" BY <1>1, RebuildFacts DEF StateAt
<1>3. Positioned("green") /\ StateAt("green", rebuild.state) BY <1>1, <1>2, StepsTo DEF StateAt
<1>4. rebuild.target \in Indexes /\ fdb.serving \in Indexes /\ indices[fdb.serving].exists
      /\ fdb.serving # rebuild.target
  BY <1>2, RebuildFacts
<1>5. /\ indices' \in [Indexes -> Index] /\ indices'[rebuild.target].exists = TRUE
      /\ indices'[fdb.serving].exists = indices[fdb.serving].exists
  BY <1>1, <1>4, ExistsChanged
<1>6. indices'[rebuild.target].exists /\ indices'[fdb.serving].exists BY <1>4, <1>5
<1>7. alias' \in AnyIndex BY <1>1 DEF BaseInv, TypeOK
<1> QED BY <1>1, <1>3, <1>5, <1>6, <1>7, IndexStep

\* The slices that only set or clear a write block.
LEMMA BlockSlice ==
    ASSUME BaseInv, SessionInv, BlockOnly,
           UNCHANGED <<fdb, rebuild, alias, late, worker, session, changes, begun, faults>>,
           NEW pc, Positioned(pc), StateAt(pc, rebuild.state), step.pc \notin {"idle", "sessions"},
           rebuild.state = "creating" /\ pc \in {"clear", "green", "unblock", "copying"} =>
              step.pc \in {"clear", "green", "unblock"}
    PROVE  BaseInv' /\ SessionInv'
<1>1. /\ fdb.serving \in Indexes /\ indices[fdb.serving].exists
      /\ rebuild.state # "none" /\ rebuild.target \in Indexes
      /\ rebuild.state \in Mirrored => indices[rebuild.target].exists
  BY RebuildFacts
<1>2. rebuild.state = "creating" /\ step.pc \in {"clear", "green", "unblock"}
         => indices[rebuild.target].exists
  BY DEF BaseInv, MachineInv, Standing
<1>3. alias' \in AnyIndex BY DEF BaseInv, TypeOK
<1>4. indices' \in [Indexes -> Index] BY DEF BlockOnly
<1>5. indices'[fdb.serving].exists BY <1>1 DEF BlockOnly
<1>6. indices[rebuild.target].exists => indices'[rebuild.target].exists BY <1>1 DEF BlockOnly
<1> QED BY <1>1, <1>2, <1>3, <1>4, <1>5, <1>6, IndexStep

\* The pages stay as they are when a block changes, and so does everything read.
BlockFields(pc) ==
    /\ UNCHANGED <<fdb, rebuild, alias, late, worker, session, changes, begun, faults>>
    /\ BlockOnly /\ Positioned(pc) /\ StateAt(pc, rebuild.state)
    /\ step.pc \notin {"idle", "sessions"}
    /\ rebuild.state = "creating" /\ pc \in {"clear", "green", "unblock", "copying"} =>
              step.pc \in {"clear", "green", "unblock"}
    /\ pc \in {"split", "green", "copying", "delete"}
    /\ rebuild.state \in {"creating", "retiring", "failed"}

LEMMA BlockSourceFields ==
    ASSUME BaseInv, BlockSource PROVE BlockFields("split")
<1>1. /\ UNCHANGED <<fdb, rebuild, alias, late, worker, session, changes, begun, faults>>
      /\ step.pc = "block" /\ indices' = [indices EXCEPT ![rebuild.source].blocked = TRUE]
      /\ Step("split")
  BY DEF BlockSource, bounds, Source
<1>2. rebuild.state = "creating" /\ rebuild.source \in Indexes BY <1>1, RebuildFacts DEF StateAt
<1>3. Positioned("split") /\ StateAt("split", rebuild.state) BY <1>1, <1>2, StepsTo DEF StateAt
<1>4. BlockOnly BY <1>1, <1>2, BlockChanged
<1> QED BY <1>1, <1>2, <1>3, <1>4 DEF BlockFields

LEMMA ClearTargetFields ==
    ASSUME BaseInv, ClearTarget PROVE BlockFields("green")
<1>1. /\ UNCHANGED <<fdb, rebuild, alias, late, worker, session, changes, begun, faults>>
      /\ step.pc = "clear" /\ indices' = [indices EXCEPT ![rebuild.target].blocked = FALSE]
      /\ Step("green")
  BY DEF ClearTarget, bounds, NewIndex
<1>2. rebuild.state = "creating" /\ rebuild.target \in Indexes BY <1>1, RebuildFacts DEF StateAt
<1>3. Positioned("green") /\ StateAt("green", rebuild.state) BY <1>1, <1>2, StepsTo DEF StateAt
<1>4. BlockOnly BY <1>1, <1>2, BlockChanged
<1> QED BY <1>1, <1>2, <1>3, <1>4 DEF BlockFields

LEMMA UnblockSourceFields ==
    ASSUME BaseInv, UnblockSource PROVE BlockFields("copying")
<1>1. /\ UNCHANGED <<fdb, rebuild, alias, late, worker, session, changes, begun, faults>>
      /\ step.pc = "unblock" /\ indices' = [indices EXCEPT ![rebuild.source].blocked = FALSE]
      /\ Step("copying")
  BY DEF UnblockSource, bounds, Source
<1>2. rebuild.state = "creating" /\ rebuild.source \in Indexes BY <1>1, RebuildFacts DEF StateAt
<1>3. Positioned("copying") /\ StateAt("copying", rebuild.state) BY <1>1, <1>2, StepsTo DEF StateAt
<1>4. BlockOnly BY <1>1, <1>2, BlockChanged
<1> QED BY <1>1, <1>2, <1>3, <1>4 DEF BlockFields

LEMMA BlockOldFields ==
    ASSUME BaseInv, BlockOld PROVE BlockFields("delete")
<1> DEFINE b == indices[rebuild.source].exists
<1>1. /\ UNCHANGED <<fdb, rebuild, alias, late, worker, session, changes, begun, faults>>
      /\ step.pc = "blockOld" /\ indices' = [indices EXCEPT ![rebuild.source].blocked = b]
      /\ Step("delete")
  BY DEF BlockOld, bounds, Source
<1>2. rebuild.state = "retiring" /\ rebuild.source \in Indexes BY <1>1, RebuildFacts DEF StateAt
<1>3. Positioned("delete") /\ StateAt("delete", rebuild.state) BY <1>1, <1>2, StepsTo DEF StateAt
<1>4. b \in BOOLEAN BY <1>2, EngineTyped DEF Index
<1> HIDE DEF b
<1>5. BlockOnly BY <1>1, <1>2, <1>4, BlockChanged
<1> QED BY <1>1, <1>2, <1>3, <1>5 DEF BlockFields

LEMMA RestoreSourceFields ==
    ASSUME BaseInv, RestoreSource PROVE BlockFields("delete")
<1>1. /\ UNCHANGED <<fdb, rebuild, alias, late, worker, session, changes, begun, faults>>
      /\ step.pc = "restore" /\ indices' = [indices EXCEPT ![rebuild.source].blocked = FALSE]
      /\ Step("delete")
  BY DEF RestoreSource, bounds, Source
<1>2. rebuild.state = "failed" /\ rebuild.source \in Indexes BY <1>1, RebuildFacts DEF StateAt
<1>3. Positioned("delete") /\ StateAt("delete", rebuild.state) BY <1>1, <1>2, StepsTo DEF StateAt
<1>4. BlockOnly BY <1>1, <1>2, BlockChanged
<1> QED BY <1>1, <1>2, <1>3, <1>4 DEF BlockFields

Blocks == BlockSource \/ ClearTarget \/ UnblockSource \/ BlockOld \/ RestoreSource

LEMMA BlocksFields ==
    ASSUME BaseInv, Blocks PROVE \E pc \in {"split", "green", "copying", "delete"} : BlockFields(pc)
  BY BlockSourceFields, ClearTargetFields, UnblockSourceFields, BlockOldFields,
     RestoreSourceFields DEF Blocks

LEMMA BlocksSlice ==
    ASSUME BaseInv, SessionInv, Blocks PROVE BaseInv' /\ SessionInv'
<1>1. PICK pc \in {"split", "green", "copying", "delete"} : BlockFields(pc) BY BlocksFields
<1> QED BY <1>1, BlockSlice DEF BlockFields

LEMMA SplitFields ==
    ASSUME BaseInv, SplitIndex
    PROVE  /\ UNCHANGED <<fdb, rebuild, alias, late, worker, session, changes, begun, faults>>
           /\ step.pc = "split" /\ rebuild.state = "creating" /\ Positioned("clear")
           /\ rebuild.target \in Indexes /\ rebuild.source \in Indexes
           /\ indices' \in [Indexes -> Index]
           /\ \A j \in Indexes \ {rebuild.target} : indices'[j] = indices[j]
           /\ \/ indices' = indices /\ indices[rebuild.target].exists
              \/ indices'[rebuild.target] = indices[rebuild.source]
<1>1. /\ UNCHANGED <<fdb, rebuild, alias, late, worker, session, changes, begun, faults>>
      /\ step.pc = "split" /\ Step("clear")
      /\ indices' = IF indices[rebuild.target].exists THEN indices
                    ELSE [indices EXCEPT ![rebuild.target] = indices[rebuild.source]]
  BY DEF SplitIndex, bounds, NewIndex, Source
<1>2. rebuild.state = "creating" /\ rebuild.target \in Indexes /\ rebuild.source \in Indexes
  BY <1>1, RebuildFacts DEF StateAt
<1>3. Positioned("clear") BY <1>1, StepsTo
<1>4. /\ indices' \in [Indexes -> Index]
      /\ \A j \in Indexes \ {rebuild.target} : indices'[j] = indices[j]
      /\ \/ indices' = indices /\ indices[rebuild.target].exists
         \/ indices'[rebuild.target] = indices[rebuild.source]
  BY <1>1, <1>2, EngineTyped
<1> QED BY <1>1, <1>2, <1>3, <1>4

LEMMA SplitSlice ==
    ASSUME BaseInv, SessionInv, SplitIndex PROVE BaseInv' /\ SessionInv'
<1>1. /\ UNCHANGED <<fdb, rebuild, alias, late, worker, session, changes, begun, faults>>
      /\ step.pc = "split" /\ rebuild.state = "creating" /\ Positioned("clear")
      /\ rebuild.target \in Indexes /\ rebuild.source \in Indexes
      /\ indices' \in [Indexes -> Index]
      /\ \A j \in Indexes \ {rebuild.target} : indices'[j] = indices[j]
      /\ \/ indices' = indices /\ indices[rebuild.target].exists
         \/ indices'[rebuild.target] = indices[rebuild.source]
  BY SplitFields
<1>2. /\ fdb.serving = rebuild.source /\ rebuild.source # rebuild.target
      /\ indices[rebuild.source].exists
  BY <1>1, RebuildFacts
<1>3. indices'[fdb.serving].exists /\ indices'[rebuild.target].exists BY <1>1, <1>2
<1>4. StateAt("clear", rebuild.state) /\ alias' \in AnyIndex BY <1>1 DEF StateAt, BaseInv, TypeOK
<1> QED BY <1>1, <1>3, <1>4, IndexStep

LEMMA RefreshTargetFields ==
    ASSUME BaseInv, RefreshTarget
    PROVE  /\ UNCHANGED <<fdb, rebuild, alias, late, worker, session, changes, begun, faults>>
           /\ step.pc = "refresh" /\ rebuild.state = "switching" /\ Positioned("green")
           /\ rebuild.target \in Indexes /\ indices' = Refreshed(rebuild.target)
<1>1. /\ UNCHANGED <<fdb, rebuild, alias, late, worker, session, changes, begun, faults>>
      /\ step.pc = "refresh" /\ Step("green") /\ indices' = Refreshed(rebuild.target)
  BY DEF RefreshTarget, bounds, NewIndex
<1>2. rebuild.state = "switching" /\ rebuild.target \in Indexes BY <1>1, RebuildFacts DEF StateAt
<1> QED BY <1>1, <1>2, StepsTo

LEMMA RefreshTargetSlice ==
    ASSUME BaseInv, SessionInv, RefreshTarget PROVE BaseInv' /\ SessionInv'
<1>1. /\ UNCHANGED <<fdb, rebuild, alias, late, worker, session, changes, begun, faults>>
      /\ step.pc = "refresh" /\ rebuild.state = "switching" /\ Positioned("green")
      /\ rebuild.target \in Indexes /\ indices' = Refreshed(rebuild.target)
  BY RefreshTargetFields
<1>2. /\ indices' \in [Indexes -> Index]
      /\ \A j \in Indexes : indices'[j].exists = indices[j].exists
  BY <1>1, RefreshedTyped
<1>3. fdb.serving \in Indexes /\ indices[fdb.serving].exists /\ indices[rebuild.target].exists
  BY <1>1, RebuildFacts DEF Mirrored
<1>4. indices'[fdb.serving].exists /\ indices'[rebuild.target].exists BY <1>1, <1>2, <1>3
<1>5. StateAt("green", rebuild.state) /\ alias' \in AnyIndex BY <1>1 DEF StateAt, BaseInv, TypeOK
<1> QED BY <1>1, <1>2, <1>4, <1>5, IndexStep

LEMMA MoveAliasFields ==
    ASSUME BaseInv, MoveAlias
    PROVE  /\ UNCHANGED <<fdb, rebuild, indices, late, worker, session, changes, begun, faults>>
           /\ step.pc = "alias" /\ rebuild.state = "switching"
           /\ alias' \in AnyIndex /\ \E pc \in {"switched", "idle"} : Positioned(pc)
<1>1. /\ UNCHANGED <<fdb, rebuild, indices, late, worker, session, changes, begun, faults>>
      /\ step.pc = "alias" /\ alias' \in {alias, rebuild.target}
      /\ Step("switched") \/ EndSlice
  BY DEF MoveAlias, bounds, NewIndex
<1>2. rebuild.state = "switching" /\ rebuild.target \in Indexes BY <1>1, RebuildFacts DEF StateAt
<1>3. alias' \in AnyIndex BY <1>1, <1>2 DEF AnyIndex, BaseInv, TypeOK
<1>4. \E pc \in {"switched", "idle"} : Positioned(pc) BY <1>1, StepsTo, SliceEnded
<1> QED BY <1>1, <1>2, <1>3, <1>4

LEMMA MoveAliasSlice ==
    ASSUME BaseInv, SessionInv, MoveAlias PROVE BaseInv' /\ SessionInv'
<1>1. /\ UNCHANGED <<fdb, rebuild, indices, late, worker, session, changes, begun, faults>>
      /\ step.pc = "alias" /\ rebuild.state = "switching" /\ alias' \in AnyIndex
  BY MoveAliasFields
<1>2. PICK pc \in {"switched", "idle"} : Positioned(pc) BY MoveAliasFields
<1>3. StateAt(pc, rebuild.state) BY <1>1, <1>2 DEF StateAt
<1>4. indices[fdb.serving].exists /\ indices[rebuild.target].exists
  BY <1>1, RebuildFacts DEF Mirrored
<1> QED BY <1>1, <1>2, <1>3, <1>4, EngineTyped, IndexStep

\* The index that goes: the retired source, or the target of a failed replacement.
LEMMA DeleteFields ==
    ASSUME BaseInv, DeleteIndex
    PROVE  \E i \in Indexes :
           /\ UNCHANGED <<fdb, rebuild, late, worker, session, changes, begun, faults>>
           /\ step.pc = "delete" /\ rebuild.state \in {"retiring", "failed"}
           /\ i # fdb.serving /\ Positioned("finish") /\ alias' \in AnyIndex
           /\ indices' = [indices EXCEPT ![i] = AbsentIndex]
<1> DEFINE i == IF rebuild.state = "failed" THEN rebuild.target ELSE rebuild.source
<1>1. /\ UNCHANGED <<fdb, rebuild, late, worker, session, changes, begun, faults>>
      /\ step.pc = "delete" /\ indices' = [indices EXCEPT ![i] = AbsentIndex]
      /\ alias' \in {alias, NoIndex} /\ Step("finish")
  BY DEF DeleteIndex, bounds, NewIndex, Source
<1>2. rebuild.state \in {"retiring", "failed"} BY <1>1, RebuildFacts DEF StateAt
<1>3. i \in Indexes /\ i # fdb.serving BY <1>2, RebuildFacts
<1>4. alias' \in AnyIndex BY <1>1 DEF AnyIndex, BaseInv, TypeOK
<1>5. Positioned("finish") BY <1>1, StepsTo
<1> QED BY <1>1, <1>2, <1>3, <1>4, <1>5

LEMMA DeleteSlice ==
    ASSUME BaseInv, SessionInv, DeleteIndex PROVE BaseInv' /\ SessionInv'
<1>1. PICK i \in Indexes :
           /\ UNCHANGED <<fdb, rebuild, late, worker, session, changes, begun, faults>>
           /\ step.pc = "delete" /\ rebuild.state \in {"retiring", "failed"}
           /\ i # fdb.serving /\ Positioned("finish") /\ alias' \in AnyIndex
           /\ indices' = [indices EXCEPT ![i] = AbsentIndex]
  BY DeleteFields
<1>2. fdb.serving \in Indexes /\ indices[fdb.serving].exists BY RebuildFacts
<1>3. indices' \in [Indexes -> Index] /\ indices'[fdb.serving] = indices[fdb.serving]
  BY <1>1, <1>2, EngineTyped, NothingTyped
<1>4. indices'[fdb.serving].exists BY <1>2, <1>3
<1>5. StateAt("finish", rebuild.state) BY <1>1 DEF StateAt
<1>6. rebuild.state \notin Mirrored BY <1>1 DEF Mirrored
<1> QED BY <1>1, <1>3, <1>4, <1>5, <1>6, IndexStep

\* The record moves on while the same index serves.
Advances(r) ==
    /\ UNCHANGED <<indices, alias, late, worker, session, changes, begun>>
    /\ Fault \/ faults' = faults
    /\ rebuild' = r /\ r \in Replacements /\ Positioned("idle")
    /\ rebuild.state \notin {"none", "retiring"} /\ r.state \notin {"none", "retiring"}
    /\ r.source = rebuild.source /\ r.target = rebuild.target
    /\ r.state = "creating" => rebuild.state = "creating"
    /\ r.paused => r.state \in {"creating", "switching"}
    /\ r.state \in Mirrored => indices[rebuild.target].exists

LEMMA AdvanceKept ==
    ASSUME BaseInv, SessionInv, NEW r, Advances(r),
           fdb' \in SearchKeys, fdb'.gen = fdb.gen, fdb'.rev = fdb.rev, Records',
           fdb'.serving = fdb.serving, fdb'.epoch = fdb.epoch
    PROVE  BaseInv' /\ SessionInv'
<1>1. \A i \in Indexes : Used(i) => Used(i)' BY DEF Advances, Used
<1>2. TypeOK' /\ WorkInv'
  BY <1>1, SliceKept, FaultCounts DEF BaseInv, TypeOK, Advances, Positioned
<1>3. Roles' BY DEF BaseInv, MachineInv, Roles, Advances, Positioned
<1>4. Standing' BY DEF BaseInv, MachineInv, Standing, Advances, Positioned
<1>5. StateAt(step.pc, rebuild.state)' BY DEF StateAt, Advances, Positioned
<1>6. SessionInv' BY DEF SessionInv, Continuable, Advances
<1> QED BY <1>2, <1>3, <1>4, <1>5, <1>6 DEF BaseInv, MachineInv

LEMMA AdvanceQuiet ==
    ASSUME BaseInv, SessionInv, NEW r, Advances(r), UNCHANGED fdb
    PROVE  BaseInv' /\ SessionInv'
<1>1. Records' BY DEF BaseInv, WorkInv, Records, Advances
<1>2. fdb \in SearchKeys BY EngineTyped
<1> QED BY <1>1, <1>2, AdvanceKept

LEMMA PauseFields ==
    ASSUME BaseInv, PauseClaims
    PROVE  /\ UNCHANGED <<fdb, indices, alias, late, worker, session, changes, begun, faults>>
           /\ step.pc = "pause" /\ rebuild.state \in {"creating", "switching"}
           /\ \/ /\ ~rebuild.paused
                 /\ \E r \in Replacements : Advances(r) /\ r.state = rebuild.state
              \/ EndSlice /\ UNCHANGED rebuild
              \/ /\ UNCHANGED rebuild /\ rebuild.paused /\ LeasesEnded
                 /\ Positioned(IF rebuild.state = "creating" THEN "block" ELSE "recheck")
<1>1. /\ UNCHANGED <<fdb, indices, alias, late, worker, session, changes, begun, faults>>
      /\ step.pc = "pause"
  BY DEF PauseClaims, engine, bounds
<1>2. rebuild.state \in {"creating", "switching"} BY <1>1, RebuildFacts DEF StateAt
<1>3. CASE ~rebuild.paused
  <2>1. rebuild' = [rebuild EXCEPT !.paused = TRUE] /\ EndSlice BY <1>3 DEF PauseClaims, Advance
  <2>2. /\ rebuild' \in Replacements /\ rebuild'.state = rebuild.state
        /\ rebuild'.source = rebuild.source /\ rebuild'.target = rebuild.target
    BY <2>1, RebuildFacts DEF Replacements
  <2>3. PICK r \in Replacements : r = rebuild' BY <2>2
  <2>4. Advances(r)
    BY <1>1, <1>2, <2>1, <2>2, <2>3, RebuildFacts, SliceEnded DEF Advances
  <2> QED BY <1>1, <1>2, <1>3, <2>2, <2>3, <2>4
<1>4. CASE rebuild.paused /\ ~LeasesEnded
  BY <1>1, <1>2, <1>4 DEF PauseClaims
<1>5. CASE rebuild.paused /\ LeasesEnded
  <2>1. PICK pc \in {"block", "recheck"} :
           pc = (IF rebuild.state = "creating" THEN "block" ELSE "recheck") /\ Step(pc) /\ UNCHANGED rebuild
    BY <1>5 DEF PauseClaims
  <2> QED BY <1>1, <1>2, <1>5, <2>1, StepsTo
<1> QED BY <1>3, <1>4, <1>5

LEMMA PauseSlice ==
    ASSUME BaseInv, SessionInv, PauseClaims PROVE BaseInv' /\ SessionInv'
<1>1. /\ UNCHANGED <<fdb, indices, alias, late, worker, session, changes, begun, faults>>
      /\ rebuild.state \in {"creating", "switching"}
  BY PauseFields
<1>2. CASE \E r \in Replacements : Advances(r) BY <1>1, <1>2, AdvanceQuiet
<1>3. CASE EndSlice /\ UNCHANGED rebuild BY <1>1, <1>3, EndSliceKept
<1>4. CASE /\ UNCHANGED rebuild
           /\ Positioned(IF rebuild.state = "creating" THEN "block" ELSE "recheck")
  <2>1. StateAt(step'.pc, rebuild.state) BY <1>1, <1>4 DEF StateAt, Positioned
  <2> QED BY <1>1, <1>4, <2>1, StepOnly DEF Positioned
<1> QED BY <1>2, <1>3, <1>4, PauseFields

\* The changes of the record that AdvanceRebuild makes, as fields.
LEMMA StartCopyingFields ==
    ASSUME BaseInv, StartCopying
    PROVE  \E r \in Replacements : Advances(r) /\ r.state = "copying" /\ UNCHANGED fdb
                                   /\ rebuild.state = "creating"
<1> DEFINE b == (rebuild.mode = "split")
<1>1. /\ UNCHANGED <<fdb, indices, alias, late, worker, session, changes, begun, faults>>
      /\ step.pc = "copying" /\ EndSlice
      /\ rebuild' = [rebuild EXCEPT !.state = "copying", !.paused = FALSE, !.scanned = b]
  BY DEF StartCopying, Advance, engine, bounds
<1>2. rebuild.state = "creating" BY <1>1, RebuildFacts DEF StateAt
<1>3. indices[rebuild.target].exists BY <1>1, <1>2 DEF BaseInv, MachineInv, Standing
<1>4. b \in BOOLEAN OBVIOUS
<1> HIDE DEF b
<1>5. /\ rebuild' \in Replacements /\ rebuild'.state = "copying" /\ rebuild'.paused = FALSE
      /\ rebuild'.source = rebuild.source /\ rebuild'.target = rebuild.target
  BY <1>1, <1>4, RebuildFacts DEF Replacements
<1>6. PICK r \in Replacements : r = rebuild' BY <1>5
<1> QED BY <1>1, <1>2, <1>3, <1>5, <1>6, SliceEnded DEF Advances

LEMMA FailFields ==
    ASSUME BaseInv, FailRebuild, Fault,
           UNCHANGED <<fdb, indices, alias, late, worker, session, changes, begun>>,
           rebuild.state \in {"creating", "switching"}
    PROVE  \E r \in Replacements : Advances(r) /\ r.state = "failed" /\ UNCHANGED fdb
<1>1. EndSlice /\ rebuild' = [rebuild EXCEPT !.state = "failed", !.paused = FALSE]
  BY DEF FailRebuild, Advance
<1>2. /\ rebuild' \in Replacements /\ rebuild'.state = "failed" /\ rebuild'.paused = FALSE
      /\ rebuild'.source = rebuild.source /\ rebuild'.target = rebuild.target
  BY <1>1, RebuildFacts DEF Replacements
<1>3. PICK r \in Replacements : r = rebuild' BY <1>2
<1> QED BY <1>1, <1>2, <1>3, SliceEnded DEF Advances, Mirrored

LEMMA NotGreenFields ==
    ASSUME BaseInv, TargetNotGreen \/ SplitFails
    PROVE  /\ UNCHANGED <<fdb, indices, alias, late, worker, session, changes, begun>> /\ Fault
           /\ \/ EndSlice /\ UNCHANGED rebuild
              \/ \E r \in Replacements : Advances(r) /\ r.state = "failed" /\ UNCHANGED fdb
<1>1. UNCHANGED <<fdb, indices, alias, late, worker, session, changes, begun>> /\ Fault
  BY DEF TargetNotGreen, SplitFails, engine
<1>2. rebuild.state \in {"creating", "switching"}
  BY RebuildFacts DEF TargetNotGreen, SplitFails, StateAt
<1> QED BY <1>1, <1>2, FailFields DEF TargetNotGreen, SplitFails

LEMMA ResumeFields ==
    ASSUME BaseInv, ResumeClaims
    PROVE  \E r \in Replacements : /\ Advances(r) /\ UNCHANGED fdb
                                   /\ rebuild.state = "switching" /\ r.state = "switching"
<1>1. /\ UNCHANGED <<fdb, indices, alias, late, worker, session, changes, begun, faults>>
      /\ step.pc = "resume" /\ EndSlice /\ rebuild' = [rebuild EXCEPT !.paused = FALSE]
  BY DEF ResumeClaims, Advance, engine, bounds
<1>2. rebuild.state = "switching" BY <1>1, RebuildFacts DEF StateAt
<1>3. /\ rebuild' \in Replacements /\ rebuild'.state = "switching" /\ rebuild'.paused = FALSE
      /\ rebuild'.source = rebuild.source /\ rebuild'.target = rebuild.target
  BY <1>1, <1>2, RebuildFacts DEF Replacements
<1>4. PICK r \in Replacements : r = rebuild' BY <1>3
<1>5. indices[rebuild.target].exists BY <1>2, RebuildFacts DEF Mirrored
<1> QED BY <1>1, <1>2, <1>3, <1>4, <1>5, SliceEnded DEF Advances

LEMMA StartVerifyingFields ==
    ASSUME BaseInv, StartVerifying
    PROVE  \E r \in Replacements :
              /\ Advances(r) /\ UNCHANGED fdb
              /\ rebuild.state = "copying" /\ r.state = "verifying" /\ r.verified = NoDocument
<1>1. /\ UNCHANGED <<fdb, indices, alias, late, worker, session, changes, begun, faults>>
      /\ step.pc = "verify" /\ EndSlice
      /\ rebuild' = [rebuild EXCEPT !.state = "verifying", !.verified = NoDocument]
  BY DEF StartVerifying, Advance, engine, bounds
<1>2. rebuild.state = "copying" /\ ~rebuild.paused BY <1>1, RebuildFacts DEF StateAt
<1>3. NoDocument \in SomeDocument BY DEF SomeDocument
<1>4. /\ rebuild' \in Replacements /\ rebuild'.state = "verifying" /\ rebuild'.verified = NoDocument
      /\ rebuild'.source = rebuild.source /\ rebuild'.target = rebuild.target
      /\ rebuild'.paused = rebuild.paused
  BY <1>1, <1>3, RebuildFacts DEF Replacements
<1>5. PICK r \in Replacements : r = rebuild' BY <1>4
<1>6. indices[rebuild.target].exists BY <1>2, RebuildFacts DEF Mirrored
<1> QED BY <1>1, <1>2, <1>4, <1>5, <1>6, SliceEnded DEF Advances

LEMMA CopyScheduled ==
    ASSUME BaseInv, fdb' = ScheduleCopy(fdb)
    PROVE  UNCHANGED fdb \/ KeysOwe(0)
<1>1. fdb \in SearchKeys /\ fdb.gen > 0 BY EngineTyped, CopyMayBeOwed
<1>2. CopyOwed(fdb, ScheduleCopy(fdb), fdb.gen, fdb.rev, 0) => KeysOwe(0)
  BY DEF CopyOwed, KeysOwe, ClaimsEnd
<1> QED BY <1>1, <1>2, ScheduleCopyFields

LEMMA CopyNextFields ==
    ASSUME BaseInv, CopyNextNodes
    PROVE  \E r \in Replacements : /\ Advances(r) /\ (UNCHANGED fdb \/ KeysOwe(0))
                                   /\ rebuild.state = "copying" /\ r.state = "copying"
<1>1. /\ UNCHANGED <<indices, alias, late, worker, session, changes, begun, faults>>
      /\ step.pc = "scan" /\ EndSlice /\ rebuild' = [rebuild EXCEPT !.scanned = TRUE]
      /\ fdb' = ScheduleCopy(fdb)
  BY DEF CopyNextNodes, Advance, engine, bounds
<1>2. rebuild.state = "copying" /\ ~rebuild.paused BY <1>1, RebuildFacts DEF StateAt
<1>3. /\ rebuild' \in Replacements /\ rebuild'.state = "copying" /\ rebuild'.paused = rebuild.paused
      /\ rebuild'.source = rebuild.source /\ rebuild'.target = rebuild.target
  BY <1>1, <1>2, RebuildFacts DEF Replacements
<1>4. PICK r \in Replacements : r = rebuild' BY <1>3
<1>5. indices[rebuild.target].exists BY <1>2, RebuildFacts DEF Mirrored
<1>6. UNCHANGED fdb \/ KeysOwe(0) BY <1>1, CopyScheduled
<1>7. Advances(r) BY <1>1, <1>2, <1>3, <1>4, <1>5, SliceEnded DEF Advances
<1> QED BY <1>2, <1>3, <1>4, <1>6, <1>7

\* What a verified batch does to the record.
VerifyAdvance(r) ==
    \/ ~step.ok /\ r = rebuild
    \/ step.ok /\ step.done /\ r.state = "switching" /\ r.paused = rebuild.paused
    \/ step.ok /\ ~step.done /\ r.state = "verifying" /\ r.verified = step.doc

LEMMA VerifyFields ==
    ASSUME BaseInv, CompleteRebuildVerify
    PROVE  \E r \in Replacements :
              /\ Advances(r) /\ (UNCHANGED fdb \/ KeysOwe(0))
              /\ rebuild.state = "verifying" /\ step.pc = "checked" /\ VerifyAdvance(r)
<1>1. /\ UNCHANGED <<indices, alias, late, worker, session, changes, begun, faults>>
      /\ step.pc = "checked" /\ EndSlice
      /\ rebuild' = CASE ~step.ok -> rebuild
                      [] step.ok /\ step.done -> [rebuild EXCEPT !.state = "switching", !.verified = NoDocument]
                      [] OTHER -> [rebuild EXCEPT !.verified = step.doc]
      /\ fdb' = fdb \/ fdb' = ScheduleCopy(fdb)
  BY DEF CompleteRebuildVerify, Advance, engine, bounds
<1>2. rebuild.state = "verifying" /\ ~rebuild.paused BY <1>1, RebuildFacts DEF StateAt
<1>3. NoDocument \in SomeDocument /\ step.doc \in SomeDocument
  BY RebuildFacts DEF SomeDocument, Slices
<1>4. \/ ~step.ok /\ rebuild' = rebuild
      \/ step.ok /\ step.done /\ rebuild' = [rebuild EXCEPT !.state = "switching", !.verified = NoDocument]
      \/ step.ok /\ ~step.done /\ rebuild' = [rebuild EXCEPT !.verified = step.doc]
  BY <1>1
<1>5. /\ rebuild' \in Replacements /\ rebuild'.state \in {"verifying", "switching"}
      /\ rebuild'.paused = rebuild.paused
      /\ rebuild'.source = rebuild.source /\ rebuild'.target = rebuild.target
  BY <1>2, <1>3, <1>4, RebuildFacts DEF Replacements
<1>6. VerifyAdvance(rebuild')
  BY <1>2, <1>4, RebuildFacts DEF Replacements, VerifyAdvance
<1>7. indices[rebuild.target].exists BY <1>2, RebuildFacts DEF Mirrored
<1>8. UNCHANGED fdb \/ KeysOwe(0) BY <1>1, CopyScheduled
<1>9. PICK r \in Replacements : r = rebuild' BY <1>5
<1>10. Advances(r) BY <1>1, <1>2, <1>5, <1>7, <1>9, SliceEnded DEF Advances
<1> QED BY <1>1, <1>2, <1>6, <1>8, <1>9, <1>10

LEMMA AdvanceOwe ==
    ASSUME BaseInv, SessionInv, NEW r, Advances(r), UNCHANGED fdb \/ KeysOwe(0)
    PROVE  BaseInv' /\ SessionInv'
<1>1. CASE UNCHANGED fdb BY <1>1, AdvanceQuiet
<1>2. CASE KeysOwe(0)
  <2>1. Records' BY <1>2, OweRecords DEF Advances
  <2> QED BY <1>2, <2>1, AdvanceKept DEF KeysOwe
<1> QED BY <1>1, <1>2

LEMMA RecordSlices ==
    ASSUME BaseInv, SessionInv,
           \/ StartCopying \/ TargetNotGreen \/ SplitFails \/ CopyNextNodes \/ ResumeClaims
           \/ StartVerifying \/ CompleteRebuildVerify
    PROVE  BaseInv' /\ SessionInv'
<1>1. CASE StartCopying BY <1>1, StartCopyingFields, AdvanceQuiet
<1>2. CASE TargetNotGreen \/ SplitFails
  <2>1. /\ UNCHANGED <<fdb, indices, alias, late, worker, session, changes, begun>> /\ Fault
        /\ \/ EndSlice /\ UNCHANGED rebuild
           \/ \E r \in Replacements : Advances(r) /\ r.state = "failed" /\ UNCHANGED fdb
    BY <1>2, NotGreenFields
  <2> QED BY <2>1, AdvanceQuiet, EndSliceKept
<1>3. CASE CopyNextNodes BY <1>3, CopyNextFields, AdvanceOwe
<1>4. CASE ResumeClaims BY <1>4, ResumeFields, AdvanceQuiet
<1>5. CASE StartVerifying BY <1>5, StartVerifyingFields, AdvanceQuiet
<1>6. CASE CompleteRebuildVerify BY <1>6, VerifyFields, AdvanceOwe
<1> QED BY <1>1, <1>2, <1>3, <1>4, <1>5, <1>6

LEMMA StepFailsSlice ==
    ASSUME BaseInv, SessionInv, StepFails PROVE BaseInv' /\ SessionInv'
  BY EndSliceKept DEF StepFails, engine

\* completeSwitch: the target serves, and its record is in the retiring state.
Switched ==
    /\ UNCHANGED <<indices, alias, late, worker, session, changes, begun, faults>>
    /\ step.pc = "switched" /\ rebuild.state = "switching" /\ Positioned("idle")
    /\ fdb' \in SearchKeys /\ fdb'.gen = fdb.gen /\ fdb'.rev = fdb.rev
    /\ fdb'.epoch = fdb.epoch /\ fdb'.issued = fdb.issued /\ fdb'.work = fdb.work
    /\ fdb'.cursor = fdb.cursor /\ fdb'.claim = fdb.claim /\ fdb'.serving = rebuild.target
    /\ rebuild' \in Replacements /\ rebuild'.state = "retiring" /\ ~rebuild'.paused
    /\ rebuild'.source = rebuild.source /\ rebuild'.target = rebuild.target

LEMMA SwitchedFields ==
    ASSUME BaseInv, CompleteSwitch PROVE Switched
<1>1. /\ UNCHANGED <<indices, alias, late, worker, session, changes, begun, faults>>
      /\ step.pc = "switched" /\ EndSlice
      /\ fdb' = [fdb EXCEPT !.serving = rebuild.target]
      /\ rebuild' = [rebuild EXCEPT !.state = "retiring", !.paused = FALSE]
  BY DEF CompleteSwitch, Advance, engine, bounds, NewIndex
<1>2. rebuild.state = "switching" /\ rebuild.target \in Indexes BY <1>1, RebuildFacts DEF StateAt
<1>3. /\ fdb' \in SearchKeys /\ fdb'.gen = fdb.gen /\ fdb'.rev = fdb.rev
      /\ fdb'.epoch = fdb.epoch /\ fdb'.issued = fdb.issued /\ fdb'.work = fdb.work
      /\ fdb'.cursor = fdb.cursor /\ fdb'.claim = fdb.claim /\ fdb'.serving = rebuild.target
  BY <1>1, <1>2, EngineTyped DEF SearchKeys
<1>4. /\ rebuild' \in Replacements /\ rebuild'.state = "retiring" /\ rebuild'.paused = FALSE
      /\ rebuild'.source = rebuild.source /\ rebuild'.target = rebuild.target
  BY <1>1, RebuildFacts DEF Replacements
<1> QED BY <1>1, <1>2, <1>3, <1>4, SliceEnded DEF Switched

LEMMA SwitchSlice ==
    ASSUME BaseInv, SessionInv, CompleteSwitch PROVE BaseInv' /\ SessionInv'
<1>1. Switched BY SwitchedFields
<1>2. /\ rebuild.source \in Indexes /\ rebuild.target \in Indexes
      /\ rebuild.source # rebuild.target /\ rebuild.target = begun
      /\ fdb.serving = rebuild.source /\ indices[fdb.serving].exists
      /\ indices[rebuild.target].exists
  BY <1>1, RebuildFacts DEF Switched, Mirrored
<1>3. Records' BY <1>1 DEF BaseInv, WorkInv, Records, Switched
<1>4. \A i \in Indexes : Used(i) => Used(i)' BY <1>1 DEF Used, Switched
<1>5. TypeOK' /\ WorkInv'
  BY <1>1, <1>3, <1>4, SliceKept, FaultCounts DEF BaseInv, TypeOK, Switched, Positioned
<1>6. rebuild.target <= begun BY <1>2, ConstantFacts
<1>7. Roles' BY <1>1, <1>2, <1>6 DEF Roles, Switched
<1>8. Standing' BY <1>1, <1>2 DEF Standing, Switched, Mirrored
<1>9. StateAt(step.pc, rebuild.state)' BY <1>1 DEF StateAt, Switched, Positioned
<1>10. SessionInv'
  BY <1>1, <1>2 DEF SessionInv, Continuable, Switched, Positioned
<1> QED BY <1>5, <1>7, <1>8, <1>9, <1>10 DEF BaseInv, MachineInv

\* A session that is no longer there holds nothing back.
LEMMA NoSessionFields ==
    NoSession.epoch = 0 /\ NoSession.state = "none" /\ NoSession.late = FALSE
  BY DEF NoSession

LEMMA RetireSlice ==
    ASSUME BaseInv, SessionInv, RetireIndexSessions PROVE BaseInv' /\ SessionInv'
<1> DEFINE here == session.state = "open" /\ session.index = rebuild.source
<1>1. /\ UNCHANGED <<fdb, rebuild, indices, alias, late, worker, changes, begun, faults>>
      /\ step.pc = "sessions"
      /\ \/ EndSlice /\ UNCHANGED session
         \/ Step("blockOld") /\ here /\ session' = NoSession
         \/ Step("blockOld") /\ ~here /\ session' = session
  BY DEF RetireIndexSessions, engine, bounds, Source
<1>2. CASE EndSlice /\ UNCHANGED session BY <1>1, <1>2, EndSliceKept
<1>3. CASE Step("blockOld") /\ (session' = NoSession \/ (~here /\ session' = session))
  <2>1. rebuild.state = "retiring" BY <1>1, RebuildFacts DEF StateAt
  <2>2. Positioned("blockOld") BY <1>3, StepsTo
  <2>3. session' \in Sessions BY <1>3, NothingTyped DEF BaseInv, TypeOK
  <2>4. TypeOK' /\ WorkInv'
    BY <1>1, <2>2, <2>3, PlainSliceKept, FaultCounts DEF BaseInv, TypeOK, Positioned
  <2>5. Roles' BY <1>1, <2>1 DEF BaseInv, MachineInv, Roles
  <2>6. Standing' BY <1>1, <2>1 DEF BaseInv, MachineInv, Standing
  <2>7. StateAt(step.pc, rebuild.state)' BY <1>1, <2>1, <2>2 DEF StateAt, Positioned
  <2>8. fdb.epoch \in Nat BY EngineTyped DEF SearchKeys
  <2>9. SessionInv'
    <3>1. CASE session' = NoSession
      BY <1>1, <3>1, <2>8, NoSessionFields DEF SessionInv, Continuable
    <3>2. CASE ~here /\ session' = session
      BY <1>1, <3>2 DEF SessionInv, Continuable
    <3> QED BY <1>3, <3>1, <3>2
  <2> QED BY <2>4, <2>5, <2>6, <2>7, <2>9 DEF BaseInv, MachineInv
<1> QED BY <1>1, <1>2, <1>3

LEMMA NoRebuildFields ==
    NoRebuild.state = "none" /\ NoRebuild.paused = FALSE
  BY DEF NoRebuild

LEMMA FinishFields ==
    ASSUME BaseInv, FinishRebuild
    PROVE  /\ UNCHANGED <<fdb, indices, alias, late, worker, session, changes, begun, faults>>
           /\ step.pc = "finish" /\ rebuild.state \in {"retiring", "failed"}
           /\ rebuild' = NoRebuild /\ Positioned("idle")
<1>1. /\ UNCHANGED <<fdb, indices, alias, late, worker, session, changes, begun, faults>>
      /\ step.pc = "finish" /\ rebuild' = NoRebuild /\ EndSlice
  BY DEF FinishRebuild, Advance, engine, bounds
<1>2. rebuild.state \in {"retiring", "failed"} BY <1>1, RebuildFacts DEF StateAt
<1> QED BY <1>1, <1>2, SliceEnded

LEMMA FinishSlice ==
    ASSUME BaseInv, SessionInv, FinishRebuild PROVE BaseInv' /\ SessionInv'
<1>1. /\ UNCHANGED <<fdb, indices, alias, late, worker, session, changes, begun, faults>>
      /\ step.pc = "finish" /\ rebuild' = NoRebuild /\ Positioned("idle")
  BY FinishFields
<1>2. Records' BY <1>1 DEF BaseInv, WorkInv, Records
<1>3. \A i \in Indexes : Used(i) => Used(i)' BY <1>1, NoRebuildFields DEF Used
<1>4. TypeOK' /\ WorkInv'
  BY <1>1, <1>2, <1>3, SliceKept, FaultCounts, NothingTyped DEF BaseInv, TypeOK, Positioned
<1>5. Roles' BY <1>1, NoRebuildFields DEF BaseInv, MachineInv, Roles, Positioned
<1>6. Standing' BY <1>1, NoRebuildFields DEF BaseInv, MachineInv, Standing, Mirrored
<1>7. StateAt(step.pc, rebuild.state)' BY <1>1 DEF StateAt, Positioned
<1>8. SessionInv' BY <1>1 DEF SessionInv, Continuable
<1> QED BY <1>4, <1>5, <1>6, <1>7, <1>8 DEF BaseInv, MachineInv

\* BeginRebuild: the next index is the target, and a restored one is a new epoch.
Begun ==
    /\ UNCHANGED <<step, indices, alias, late, worker, session, changes, faults>>
    /\ rebuild.state = "none" /\ step.pc = "idle" /\ ~rebuild.paused
    /\ begun' = begun + 1 /\ begun' \in 0..MaxRebuilds
    /\ fdb' \in SearchKeys /\ fdb'.gen = fdb.gen /\ fdb'.rev = fdb.rev
    /\ fdb'.serving = fdb.serving /\ fdb'.issued = fdb.issued /\ fdb'.work = fdb.work
    /\ fdb'.cursor = fdb.cursor /\ fdb'.claim = fdb.claim
    /\ fdb'.epoch = fdb.epoch \/ fdb'.epoch = fdb.epoch + 1
    /\ rebuild' \in Replacements /\ rebuild'.state = "creating" /\ ~rebuild'.paused
    /\ rebuild'.source = fdb.serving /\ rebuild'.target = begun + 1

LEMMA BegunFields ==
    ASSUME BaseInv, NEW mode \in {"full", "split", "restored"}, BeginRebuild(mode) PROVE Begun
<1> DEFINE epoch == IF mode = "restored" THEN fdb.epoch + 1 ELSE fdb.epoch
<1>1. /\ UNCHANGED <<step, indices, alias, late, worker, session, changes, faults>>
      /\ rebuild = NoRebuild /\ begun < MaxRebuilds /\ begun' = begun + 1
      /\ rebuild' = [NoRebuild EXCEPT !.state = "creating", !.mode = mode,
                         !.source = fdb.serving, !.target = begun + 1]
      /\ fdb' = [fdb EXCEPT !.epoch = epoch]
  BY DEF BeginRebuild, engine
<1>2. begun + 1 \in 0..MaxRebuilds BY <1>1, RebuildFacts, ConstantFacts
<1>3. begun + 1 \in Indexes /\ fdb.serving \in Indexes BY <1>2, RebuildFacts DEF Indexes
<1>4. epoch \in Nat /\ (epoch = fdb.epoch \/ epoch = fdb.epoch + 1) BY EngineTyped DEF SearchKeys
<1> HIDE DEF epoch
<1>5. /\ fdb' \in SearchKeys /\ fdb'.gen = fdb.gen /\ fdb'.rev = fdb.rev
      /\ fdb'.serving = fdb.serving /\ fdb'.issued = fdb.issued /\ fdb'.work = fdb.work
      /\ fdb'.cursor = fdb.cursor /\ fdb'.claim = fdb.claim /\ fdb'.epoch = epoch
  BY <1>1, <1>4, EngineTyped DEF SearchKeys
<1>6. /\ rebuild' \in Replacements /\ rebuild'.state = "creating" /\ rebuild'.paused = FALSE
      /\ rebuild'.source = fdb.serving /\ rebuild'.target = begun + 1
  BY <1>1, <1>3, NothingTyped DEF Replacements, NoRebuild, AnyIndex
<1>7. rebuild.state = "none" /\ rebuild.paused = FALSE BY <1>1, NoRebuildFields
<1>8. step.pc = "idle" BY <1>7 DEF BaseInv, MachineInv, Roles
<1> QED BY <1>1, <1>2, <1>4, <1>5, <1>6, <1>7, <1>8 DEF Begun

LEMMA BeginSlice ==
    ASSUME BaseInv, SessionInv, Begun PROVE BaseInv' /\ SessionInv'
<1>1. Records' BY DEF BaseInv, WorkInv, Records, Begun
<1>2. fdb.serving \in Indexes /\ begun \in Nat /\ indices[fdb.serving].exists
      /\ fdb.serving \in Nat /\ fdb.serving <= begun
  BY RebuildFacts, ConstantFacts DEF BaseInv, MachineInv, Roles
<1>3. \A i \in Indexes : Used(i) => Used(i)' BY <1>2, ConstantFacts DEF Used, Begun
<1>4. TypeOK' /\ WorkInv'
  BY <1>1, <1>3, SliceKept DEF BaseInv, TypeOK, Begun
<1>5. fdb.serving <= begun + 1 /\ fdb.serving # begun + 1 BY <1>2
<1>6. Roles' BY <1>2, <1>5 DEF Roles, Begun
<1>7. Standing' BY <1>2 DEF Standing, Begun, Mirrored
<1>8. StateAt(step.pc, rebuild.state)' BY DEF StateAt, Begun
<1>9. session.epoch \in Nat /\ fdb.epoch \in Nat
  BY EngineTyped DEF SearchKeys, BaseInv, TypeOK, Sessions
<1>10. SessionInv'
  <2>1. session.epoch <= fdb'.epoch BY <1>9 DEF SessionInv, Begun
  <2>2. session.epoch = fdb'.epoch => session.epoch = fdb.epoch
    BY <1>9 DEF SessionInv, Begun
  <2> QED BY <2>1, <2>2 DEF SessionInv, Continuable, Begun
<1> QED BY <1>4, <1>6, <1>7, <1>8, <1>10 DEF BaseInv, MachineInv

\* The steps of the session.
LEMMA SessionStep ==
    ASSUME BaseInv, SessionInv,
           UNCHANGED <<fdb, rebuild, step, indices, alias, late, worker, changes, begun, faults>>,
           session' \in Sessions, SessionInv'
    PROVE  BaseInv'
<1>1. TypeOK' /\ WorkInv'
  BY PlainSliceKept, FaultCounts DEF BaseInv, TypeOK
<1>2. Roles' BY DEF BaseInv, MachineInv, Roles
<1>3. Standing' BY DEF BaseInv, MachineInv, Standing
<1>4. StateAt(step.pc, rebuild.state)' BY DEF BaseInv, MachineInv, StateAt
<1> QED BY <1>1, <1>2, <1>3, <1>4 DEF BaseInv, MachineInv

SessionSide == OpenSnapshot \/ CreateSession \/ SessionEnds

LEMMA SessionSlice ==
    ASSUME BaseInv, SessionInv, SessionSide
    PROVE  /\ BaseInv' /\ SessionInv'
           /\ UNCHANGED <<fdb, rebuild, step, indices, alias, late, worker, changes, begun, faults>>
<1>1. UNCHANGED <<fdb, rebuild, step, indices, alias, late, worker, changes, begun, faults>>
  BY DEF SessionSide, OpenSnapshot, CreateSession, SessionEnds, engine, bounds
<1>2. fdb.epoch \in Nat /\ fdb.serving \in Indexes /\ session \in Sessions
  BY EngineTyped DEF SearchKeys, BaseInv, TypeOK
<1>3. CASE OpenSnapshot
  <2>1. session' = [NoSession EXCEPT !.state = "opening", !.index = fdb.serving, !.epoch = fdb.epoch]
    BY <1>3 DEF OpenSnapshot
  <2>2. /\ session' \in Sessions /\ session'.state = "opening" /\ session'.index = fdb.serving
        /\ session'.epoch = fdb.epoch
    BY <2>1, <1>2 DEF NoSession, Sessions, AnyIndex
  <2>3. SessionInv' BY <1>1, <1>2, <2>2 DEF SessionInv, Continuable
  <2> QED BY <1>1, <2>2, <2>3, SessionStep
<1>4. CASE CreateSession
  <2> DEFINE b == session.index # fdb.serving
  <2>1. session' = [session EXCEPT !.state = "open", !.late = b] /\ session.state = "opening"
    BY <1>4 DEF CreateSession
  <2>2. b \in BOOLEAN /\ (~b => session.index = fdb.serving) OBVIOUS
  <2> HIDE DEF b
  <2>3. /\ session' \in Sessions /\ session'.state = "open" /\ session'.index = session.index
        /\ session'.epoch = session.epoch /\ session'.late = b
    BY <2>1, <2>2, <1>2 DEF Sessions
  <2>4. SessionInv' BY <1>1, <2>1, <2>2, <2>3 DEF SessionInv, Continuable
  <2> QED BY <1>1, <2>3, <2>4, SessionStep
<1>5. CASE SessionEnds
  <2>1. session' = NoSession BY <1>5 DEF SessionEnds
  <2>2. SessionInv' BY <1>1, <1>2, <2>1, NoSessionFields DEF SessionInv, Continuable
  <2> QED BY <1>1, <2>1, <2>2, SessionStep, NothingTyped
<1> QED BY <1>3, <1>4, <1>5 DEF SessionSide

----------------------------------------------------------------------------
\* Every step

LEMMA InitBase == ASSUME Init PROVE BaseInv /\ SessionInv
<1> DEFINE first == {<<1, o>> : o \in 0..Pages - 1}
           here == [exists |-> TRUE, blocked |-> FALSE, seen |-> first,
                    pages |-> [d \in Documents |-> IF d[1] = 1 THEN 1 ELSE 0]]
<1>1. /\ fdb.gen = 1 /\ fdb.rev = 1 /\ fdb.serving = 0 /\ fdb.epoch = 0
      /\ fdb.work = [class \in Classes |-> NoRecord]
      /\ fdb.claim = [class \in Classes |-> NoClaim]
      /\ fdb.cursor = [class \in Classes |-> NoCursor]
      /\ fdb.issued = first /\ fdb.held = {}
  BY DEF Init
<1>2. 0 \in Indexes /\ first \subseteq Documents BY SearchRebuildAssumption DEF Indexes, Documents
<1>3. fdb \in SearchKeys
  <2>1. fdb = [gen |-> fdb.gen, rev |-> fdb.rev, serving |-> fdb.serving, epoch |-> fdb.epoch,
               work |-> fdb.work, claim |-> fdb.claim, cursor |-> fdb.cursor,
               issued |-> fdb.issued, held |-> fdb.held]
    BY DEF Init
  <2> QED BY <2>1, <1>1, <1>2, NothingTyped, ConstantFacts DEF SearchKeys
<1>4. here \in Index /\ here.exists = TRUE BY <1>2 DEF Index
<1>5. indices = [i \in Indexes |-> IF i # 0 THEN AbsentIndex ELSE here] BY DEF Init
<1> HIDE DEF here
<1>6. indices \in [Indexes -> Index] /\ indices[0].exists
  BY <1>2, <1>4, <1>5, NothingTyped
<1>7. /\ rebuild = NoRebuild /\ step = NoStep /\ alias = 0 /\ late = {}
      /\ worker = [w \in Workers |-> Idle] /\ session = NoSession
      /\ changes = 0 /\ begun = 0 /\ faults = 0
  BY DEF Init
<1>8. 1 \in 1..1 /\ 0 \in 0..MaxChanges /\ 0 \in 0..MaxRebuilds /\ 0 \in 0..MaxFaults
  BY SearchRebuildAssumption
<1>9. TypeOK
  BY <1>1, <1>2, <1>3, <1>6, <1>7, <1>8, NothingTyped DEF TypeOK, AnyIndex
<1>10. step.pc = "idle" BY <1>7 DEF NoStep
<1>11. MachineInv
  BY <1>1, <1>6, <1>7, <1>10, NoRebuildFields
  DEF MachineInv, StateAt, Roles, Standing, Mirrored
<1>12. Records
  <2>1. \A class \in Classes : fdb.work[class] = NoRecord /\ fdb.cursor[class] = NoCursor BY <1>1
  <2>2. NoCursor.gen = 0 /\ NoCursor.phase = "pages" /\ NoCursor.ord = 0 BY DEF NoCursor
  <2> QED BY <1>1, <1>7, <2>1, <2>2, ConstantFacts DEF Records
<1>13. \A w \in Workers : Placed(w)
  <2>1. \A w \in Workers : worker[w] = Idle BY <1>7
  <2> QED BY <2>1 DEF Placed, Idle, AtPage
<1>14. SessionInv BY <1>1, <1>7, NoSessionFields DEF SessionInv, Continuable
<1> QED BY <1>7, <1>9, <1>11, <1>12, <1>13, <1>14 DEF BaseInv, WorkInv, LateInv

LEMMA StutterBase ==
    ASSUME BaseInv, SessionInv, UNCHANGED vars PROVE BaseInv' /\ SessionInv'
<1>1. UNCHANGED <<fdb, rebuild, step, indices, alias, late, worker, session, changes, begun, faults>>
  BY DEF vars, engine, bounds
<1>2. SessionInv' BY <1>1 DEF SessionInv, Continuable
<1> QED BY <1>1, <1>2, SessionStep DEF BaseInv, TypeOK

LEMMA RebuildStepBase ==
    ASSUME BaseInv, SessionInv, RebuildStep PROVE BaseInv' /\ SessionInv'
  BY ClaimRebuildSlice, CreateSlice, PauseSlice, BlocksSlice, SplitSlice, TargetGreenSlice,
     CheckCopiesSlice, RecheckCopiesSlice, DocumentsSlice, LookUpSlice, RefreshTargetSlice,
     MoveAliasSlice, DeleteSlice, RecordSlices, SwitchSlice, RetireSlice, FinishSlice
  DEF RebuildStep, Blocks

LEMMA NextBase ==
    ASSUME BaseInv, SessionInv, [Next]_vars PROVE BaseInv' /\ SessionInv'
<1>1. CASE WorkSide
  BY <1>1, WorkSideKept, MachineCalm DEF Kept, BaseInv
<1>2. CASE RebuildStep BY <1>2, RebuildStepBase
<1>3. CASE \E mode \in {"full", "split", "restored"} : BeginRebuild(mode)
  BY <1>3, BegunFields, BeginSlice
<1>4. CASE TargetNotGreen \/ SplitFails BY <1>4, RecordSlices
<1>5. CASE StepFails BY <1>5, StepFailsSlice
<1>6. CASE SessionSide BY <1>6, SessionSlice
<1>7. CASE UNCHANGED vars BY <1>7, StutterBase
<1> QED BY <1>1, <1>2, <1>3, <1>4, <1>5, <1>6, <1>7 DEF Next, WorkSide, SessionSide

LEMMA BaseImpliesSnapshots ==
    ASSUME BaseInv, SessionInv PROVE SnapshotsKept
<1>1. indices[fdb.serving].exists BY RebuildFacts
<1> QED BY <1>1 DEF SnapshotsKept, SessionInv

\* At every step of search_worker_rebuild.go and of the page work beside it the
\* search keys, the replacement record, the indexes, the workers and the session
\* have their types, the roles and the standing of the indexes fit the position
\* of the slice, and the records and checkpoints fit the workers.
THEOREM BaseHolds == Spec => [](BaseInv /\ SessionInv)
<1>1. Init => BaseInv /\ SessionInv BY InitBase
<1>2. BaseInv /\ SessionInv /\ [Next]_vars => (BaseInv /\ SessionInv)' BY NextBase
<1> QED BY <1>1, <1>2, PTL DEF Spec

\* The type invariant, for any number of workers, pages, changes and replacements.
THEOREM TypeCorrect == Spec => []TypeOK
<1>1. BaseInv /\ SessionInv => TypeOK BY DEF BaseInv
<1> QED BY <1>1, BaseHolds, PTL

\* retireIndexSessions and finishRebuild: a session created while its index was
\* serving keeps that index until the session ends, through any number of
\* replacements, failed slices and restores.
THEOREM SnapshotsAreKept == Spec => []SnapshotsKept
<1>1. BaseInv /\ SessionInv => SnapshotsKept BY BaseImpliesSnapshots
<1> QED BY <1>1, BaseHolds, PTL

----------------------------------------------------------------------------
\* Where the pages are: what a step keeps

LEMMA PageTyped ==
    ASSUME BaseInv, NEW o \in Ordinals
    PROVE  /\ o \in Nat /\ o < Pages /\ o \in 0..Pages
           /\ Page(o) \in Documents
           /\ fdb.rev \in Nat /\ fdb.gen \in Nat /\ fdb.gen > 0
           /\ fdb.cursor["live"].ord \in Nat /\ fdb.cursor["copy"].ord \in Nat
<1>1. o \in Nat /\ o < Pages /\ o \in 0..Pages /\ o \in 0..Pages - 1
  BY ConstantFacts DEF Ordinals
<1>2. fdb.gen = changes + 1 /\ changes \in 0..MaxChanges /\ fdb.rev \in 1..fdb.gen
  BY DEF BaseInv, TypeOK, WorkInv, Records
<1>3. fdb.rev \in 1..MaxChanges + 1 /\ fdb.gen \in Nat /\ fdb.gen > 0 /\ fdb.rev \in Nat
  BY <1>2, ConstantFacts
<1>4. Page(o) \in Documents BY <1>1, <1>3 DEF Page, Documents
<1>5. fdb.cursor["live"].ord \in Nat /\ fdb.cursor["copy"].ord \in Nat
  BY EngineTyped, ConstantFacts DEF SearchKeys
<1> QED BY <1>1, <1>3, <1>4, <1>5

LEMMA PlacePages ==
    ASSUME BaseInv, NEW w \in Workers, worker[w].pc # "idle"
    PROVE  \A o \in Ordinals : <<worker[w].rev, o>> \in Documents
<1>1. fdb.gen = changes + 1 /\ changes \in 0..MaxChanges /\ Placed(w)
      /\ worker[w].gen \in Nat /\ worker[w].rev \in Nat
  BY PlaceTyped DEF BaseInv, TypeOK, WorkInv, Records
<1>2. worker[w].rev \in 1..MaxChanges + 1 BY <1>1, ConstantFacts DEF Placed
<1> QED BY <1>2 DEF Ordinals, Documents

LEMMA CurrentIs == ASSUME NEW S PROVE CurrentPages \subseteq S <=> \A o \in Ordinals : Page(o) \in S
  BY DEF CurrentPages, Ordinals, Page

LEMMA CurrentNext ==
    ASSUME NEW S, fdb'.rev = fdb.rev
    PROVE  CurrentPages' \subseteq S <=> \A o \in Ordinals : Page(o) \in S
  BY DEF CurrentPages, Ordinals, Page

\* A mirror is the target of the replacement, and it stands.
LEMMA MirrorStands ==
    ASSUME BaseInv, NEW m \in Indexes, m = Mirror(rebuild)
    PROVE  rebuild.state \in Mirrored /\ m = rebuild.target /\ Used(m) /\ indices[m].exists
<1>1. rebuild.state \in Mirrored /\ m = rebuild.target BY ConstantFacts DEF Mirror, Mirrored
<1>2. m = begun /\ indices[m].exists BY <1>1, RebuildFacts DEF Mirrored
<1>3. Used(m) BY <1>1, <1>2, ConstantFacts DEF Used, Mirrored
<1> QED BY <1>1, <1>2, <1>3

LEMMA MirroredIs ==
    ASSUME BaseInv, rebuild.state \in Mirrored
    PROVE  rebuild.target \in Indexes /\ Mirror(rebuild) = rebuild.target
  BY RebuildFacts DEF Mirror, Mirrored

HasNext(i, d) == indices'[i].pages[d] > 0

\* An index that is in use and still there loses nothing.
Grows ==
    /\ \A i \in Indexes : Used(i) /\ indices'[i].exists =>
          /\ indices[i].exists /\ indices[i].seen \subseteq indices'[i].seen
          /\ \A d \in Documents : Has(i, d) => HasNext(i, d)
    /\ \A i \in Indexes : \A d \in indices'[i].seen : HasNext(i, d)

\* A page the live work has passed is served, and mirrored or owed; a page the
\* copy has passed is in the mirror.
LiveGoesOn == \A o \in Ordinals :
    LivePending(o) => LivePending(o)' \/ (HasNext(fdb.serving, Page(o)) /\ Page(o) \in fdb'.issued)
MirrorGoesOn == \A m \in Indexes : m = Mirror(rebuild) => \A o \in Ordinals :
    LivePending(o) => LivePending(o)' \/ CopyPending(o)' \/ HasNext(m, Page(o))
CopiesGoOn == \A m \in Indexes : m = Mirror(rebuild) => \A o \in Ordinals :
    CopyPending(o) => CopyPending(o)' \/ HasNext(m, Page(o))
SettledGoesOn == SettledIsSearchable' \/ (fdb'.work["live"] = NoRecord => fdb.work["live"] = NoRecord)

\* While a switch is paused and no lease is left, no work record changes.
PauseHolds ==
    rebuild.state = "switching" /\ rebuild.paused /\ LeasesEnded =>
        /\ LeasesEnded'
        /\ fdb.work["copy"] = NoRecord => fdb'.work["copy"] = NoRecord
        /\ fdb'.work["live"] = NoRecord => fdb.work["live"] = NoRecord

Sound ==
    /\ UNCHANGED <<rebuild, step>> /\ Grows
    /\ fdb'.rev = fdb.rev /\ fdb'.serving = fdb.serving /\ fdb.issued \subseteq fdb'.issued
    /\ LiveGoesOn /\ MirrorGoesOn /\ CopiesGoOn /\ SettledGoesOn /\ PauseHolds

\* The serving index stands before and after.
LEMMA ServingStands ==
    ASSUME BaseInv PROVE fdb.serving \in Indexes /\ Used(fdb.serving) /\ indices[fdb.serving].exists
<1>1. fdb.serving \in Indexes /\ begun \in Nat /\ indices[fdb.serving].exists
  BY RebuildFacts
<1>2. Used(fdb.serving) BY <1>1 DEF BaseInv, MachineInv, Roles, Used
<1> QED BY <1>1, <1>2

LEMMA ServedKept ==
    ASSUME BaseInv, Served, indices'[fdb.serving].exists, Grows,
           fdb'.rev = fdb.rev, fdb'.serving = fdb.serving, fdb.issued \subseteq fdb'.issued,
           LiveGoesOn, SettledGoesOn
    PROVE  Served'
<1>1. fdb.serving \in Indexes /\ Used(fdb.serving) BY ServingStands
<1>2. /\ indices[fdb.serving].seen \subseteq indices'[fdb.serving].seen
      /\ \A d \in Documents : Has(fdb.serving, d) => HasNext(fdb.serving, d)
  BY <1>1 DEF Grows
<1>3. ASSUME NEW o \in Ordinals
      PROVE  LivePending(o)' \/ (HasNext(fdb.serving, Page(o)) /\ Page(o) \in fdb'.issued)
  <2>1. Page(o) \in Documents BY PageTyped
  <2> QED BY <1>2, <2>1 DEF Served, LiveGoesOn
<1>4. \A o \in Ordinals : LivePending(o)' \/ (Has(fdb.serving, Page(o))' /\ Page(o)' \in fdb'.issued)
  BY <1>3 DEF HasNext, Has, Page
<1>5. (\A i \in Indexes : \A d \in indices[i].seen : Has(i, d))'
  BY DEF Grows, HasNext, Has
<1>6. SettledIsSearchable'
  <2>1. CASE fdb'.work["live"] = NoRecord => fdb.work["live"] = NoRecord
    <3>1. SUFFICES ASSUME fdb'.work["live"] = NoRecord
                   PROVE  CurrentPages' \subseteq indices'[fdb'.serving].seen
      BY DEF SettledIsSearchable
    <3>2. CurrentPages \subseteq indices[fdb.serving].seen
      BY <2>1, <3>1 DEF Served, SettledIsSearchable
    <3>3. CurrentPages' = CurrentPages BY DEF CurrentPages
    <3> QED BY <1>2, <3>2, <3>3
  <2> QED BY <2>1 DEF SettledGoesOn
<1> QED BY <1>4, <1>5, <1>6 DEF Served

LEMMA GapsShrink ==
    ASSUME BaseInv, Grows, fdb'.rev = fdb.rev, MirrorGoesOn, CopiesGoOn,
           rebuild.state \in Mirrored, indices'[rebuild.target].exists,
           NEW o \in Ordinals, ~Gap(o)
    PROVE  LivePending(o)' \/ CopyPending(o)' \/ HasNext(rebuild.target, Page(o))
<1>1. PICK m \in Indexes : m = rebuild.target /\ m = Mirror(rebuild) BY MirroredIs
<1>2. Used(m) BY <1>1, MirrorStands
<1>3. Page(o) \in Documents BY PageTyped
<1>4. Has(m, Page(o)) => HasNext(m, Page(o)) BY <1>1, <1>2, <1>3 DEF Grows
<1>5. LivePending(o) \/ CopyPending(o) \/ Has(m, Page(o)) BY <1>1 DEF Gap
<1> QED BY <1>1, <1>4, <1>5 DEF MirrorGoesOn, CopiesGoOn

\* Gaps only close, when the record stays as it is.
LEMMA GapsClose ==
    ASSUME BaseInv, Grows, fdb'.rev = fdb.rev, MirrorGoesOn, CopiesGoOn,
           rebuild.state \in Mirrored, indices'[rebuild.target].exists,
           rebuild'.target = rebuild.target, NEW o \in Ordinals, Gap(o)'
    PROVE  Gap(o)
<1>1. ~LivePending(o)' /\ ~CopyPending(o)' /\ ~HasNext(rebuild.target, Page(o))
  BY DEF Gap, Has, HasNext, Page
<1> QED BY <1>1, GapsShrink

LEMMA GapsKept ==
    ASSUME BaseInv, BaseInv', Gaps, Sound PROVE Gaps'
<1>1. rebuild.state \in Mirrored => indices'[rebuild.target].exists
  BY DEF Sound, BaseInv, MachineInv, Standing
<1>2. ASSUME rebuild.state \in Mirrored, NEW o \in Ordinals, Gap(o)' PROVE Gap(o)
  BY <1>1, <1>2, GapsClose DEF Sound
<1>3. \A o \in Ordinals : Page(o)' = Page(o) BY DEF Sound, Page
<1>4. (rebuild.state = "verifying" => \A o \in Ordinals : Gap(o) =>
          /\ rebuild.verified = NoDocument \/ Before(rebuild.verified, Page(o))
          /\ step.pc = "lookup" =>
                /\ step.doc = Page(o) \/ Before(step.doc, Page(o))
                /\ step.done => step.doc = Page(o)
          /\ step.pc = "checked" /\ step.ok => ~step.done /\ Before(step.doc, Page(o)))'
  BY <1>2, <1>3 DEF Sound, Gaps, Mirrored, Before
<1>5. (rebuild.state = "switching" => \A o \in Ordinals : ~Gap(o))'
  BY <1>2 DEF Sound, Gaps, Mirrored
<1> QED BY <1>4, <1>5 DEF Gaps

LEMMA WindowKept ==
    ASSUME BaseInv, BaseInv', Window, Sound PROVE Window'
<1>1. SUFFICES ASSUME rebuild.state = "switching",
                      step.pc \in {"recheck", "refresh", "green", "alias", "switched"}
               PROVE  Window'
  BY DEF Window, Sound
<1>2. rebuild.paused /\ LeasesEnded BY <1>1 DEF Window
<1>3. /\ LeasesEnded'
      /\ fdb.work["copy"] = NoRecord => fdb'.work["copy"] = NoRecord
      /\ fdb'.work["live"] = NoRecord => fdb.work["live"] = NoRecord
  BY <1>1, <1>2 DEF Sound, PauseHolds
<1>4. indices'[rebuild.target].exists
  BY <1>1 DEF Sound, BaseInv, MachineInv, Standing, Mirrored
<1>5. PICK m \in Indexes : m = rebuild.target /\ m = Mirror(rebuild)
  BY <1>1, MirroredIs DEF Mirrored
<1>6. indices[rebuild.target].seen \subseteq indices'[rebuild.target].seen
  BY <1>4, <1>5, MirrorStands DEF Sound, Grows
<1>7. CurrentPages' = CurrentPages BY DEF CurrentPages, Sound
<1>8. rebuild' = rebuild /\ step' = step BY DEF Sound
<1>9. step.pc \in {"green", "alias", "switched"} =>
        (fdb'.work["live"] = NoRecord => CurrentPages' \subseteq indices'[rebuild.target].seen)
  BY <1>1, <1>3, <1>6, <1>7 DEF Window
<1>10. step.pc \in {"refresh", "green", "alias", "switched"} => fdb'.work["copy"] = NoRecord
  BY <1>1, <1>3 DEF Window
<1> QED BY <1>2, <1>3, <1>8, <1>9, <1>10 DEF Window

\* A worker that stays where it is keeps what it has stored.
LEMMA StoredKept ==
    ASSUME BaseInv, NEW w \in Workers, Same(w), Stored(w), Grows, fdb.issued \subseteq fdb'.issued
    PROVE  Stored(w)'
<1> DEFINE me == worker[w]
<1>1. CASE me.pc = "idle" BY <1>1 DEF Same, Stored
<1>2. CASE me.pc # "idle"
  <2>1. /\ me.target \in Indexes /\ Used(me.target) /\ (me.mirror \in Indexes => Used(me.mirror))
    BY <1>2 DEF BaseInv, WorkInv, Placed
  <2>2. \A o \in Ordinals : <<me.rev, o>> \in Documents BY <1>2, PlacePages
  <2>3. me.pc \in AtPage => <<me.rev, me.ord>> \in Documents BY PlaceTyped DEF Doc
  <2>4. indices'[me.target].exists =>
          /\ indices[me.target].exists /\ indices[me.target].seen \subseteq indices'[me.target].seen
          /\ \A d \in Documents : Has(me.target, d) => HasNext(me.target, d)
    BY <2>1 DEF Grows
  <2>5. me.mirror \in Indexes /\ indices'[me.mirror].exists =>
          /\ indices[me.mirror].exists
          /\ \A d \in Documents : Has(me.mirror, d) => HasNext(me.mirror, d)
    BY <2>1 DEF Grows
  <2>6. /\ worker'[w].pc = me.pc /\ worker'[w].class = me.class /\ worker'[w].rev = me.rev
        /\ worker'[w].ord = me.ord /\ worker'[w].target = me.target
        /\ worker'[w].mirror = me.mirror /\ worker'[w].skipped = me.skipped
        /\ worker'[w].missed = "no" <=> me.missed = "no"
    BY DEF Same
  <2>7. me.pc \in {"put", "mirror", "complete", "keep"} => <<me.rev, me.ord>> \in fdb'.issued
    BY DEF Stored
  <2>8. me.pc \in {"mirror", "complete"} /\ indices'[me.target].exists
          => HasNext(me.target, <<me.rev, me.ord>>)
    BY <2>3, <2>4 DEF Stored, AtPage
  <2>9. me.pc = "complete" /\ me.missed = "no" /\ ~me.skipped /\ me.mirror \in Indexes
          => (indices'[me.mirror].exists => HasNext(me.mirror, <<me.rev, me.ord>>))
    BY <2>3, <2>5 DEF Stored, AtPage
  <2>10. me.class = "live" /\ me.pc \in {"refresh", "finish"} /\ indices'[me.target].exists
          => \A o \in Ordinals : HasNext(me.target, <<me.rev, o>>)
    BY <2>2, <2>4 DEF Stored
  <2>11. me.class = "live" /\ me.pc = "finish" /\ indices'[me.target].exists
          => \A o \in Ordinals : <<me.rev, o>> \in indices'[me.target].seen
    BY <2>4 DEF Stored
  <2>12. me.pc = "mirror" => ~me.skipped BY DEF Stored
  <2> QED BY <2>6, <2>7, <2>8, <2>9, <2>10, <2>11, <2>12 DEF Stored, Has, HasNext
<1> QED BY <1>1, <1>2

LEMMA LeftKept ==
    ASSUME BaseInv, BaseInv', NEW w \in Workers, Same(w), LeftToCopy(w), Grows,
           fdb'.rev = fdb.rev, CopiesGoOn, Mirror(rebuild') \in {Mirror(rebuild), NoIndex}
    PROVE  LeftToCopy(w)'
<1> DEFINE me == worker[w]
<1>1. SUFFICES ASSUME me.pc \in {"register", "put", "complete"}, me.skipped, me.missed = "no",
                      me.rev = fdb.rev, me.mirror \in Indexes, me.mirror = Mirror(rebuild'),
                      NEW o \in Ordinals, o >= me.ord
               PROVE  HasNext(me.mirror, Page(o)) \/ CopyPending(o)'
  BY DEF LeftToCopy, Same, Has, HasNext, Page
<1>2. PICK m \in Indexes : m = me.mirror /\ m = Mirror(rebuild) BY <1>1, ConstantFacts
<1>3. Has(m, Page(o)) \/ CopyPending(o) BY <1>1, <1>2 DEF LeftToCopy
<1>4. Used(m) BY <1>2, MirrorStands
<1>5. indices'[m].exists
  <2>1. rebuild'.state \in Mirrored /\ rebuild'.target = m
    BY <1>1, <1>2, ConstantFacts DEF Mirror, Mirrored
  <2> QED BY <2>1 DEF BaseInv, MachineInv, Standing
<1>6. Page(o) \in Documents BY PageTyped
<1>7. Has(m, Page(o)) => HasNext(m, Page(o)) BY <1>4, <1>5, <1>6 DEF Grows
<1> QED BY <1>2, <1>3, <1>7 DEF CopiesGoOn

\* What a sound step leaves to show: the workers it moves.
LEMMA SoundKept ==
    ASSUME BaseInv, BaseInv', PageInv, Sound,
           \A w \in Workers : Same(w) \/ (Stored(w)' /\ LeftToCopy(w)')
    PROVE  PageInv'
<1>1. indices'[fdb.serving].exists BY DEF Sound, BaseInv, MachineInv, Standing
<1>2. Served' BY <1>1, ServedKept DEF PageInv, Sound
<1>3. Gaps' /\ Window' BY GapsKept, WindowKept DEF PageInv
<1>4. Mirror(rebuild') \in {Mirror(rebuild), NoIndex} BY DEF Sound
<1>5. \A w \in Workers : Stored(w)' /\ LeftToCopy(w)'
  BY <1>4, StoredKept, LeftKept DEF PageInv, Sound
<1> QED BY <1>2, <1>3, <1>5 DEF PageInv

----------------------------------------------------------------------------
\* The pages through the steps of workers, clocks and writers

\* The indexes only gain pages: nothing changes, one page is stored, or a
\* refresh makes visible what is stored.
LEMMA GrowsWhenKept ==
    ASSUME BaseInv, Served, UNCHANGED indices PROVE Grows
  BY DEF Grows, HasNext, Has, Served

LEMMA GrowsByStore ==
    ASSUME BaseInv, Served, NEW i \in Indexes, NEW d \in Documents, NEW gen \in Nat, gen > 0,
           Stores(i, d, gen)
    PROVE  Grows /\ HasNext(i, d)
<1>1. /\ \A j \in Indexes : indices'[j].exists = indices[j].exists
      /\ \A j \in Indexes : indices'[j].seen = indices[j].seen
      /\ \A j \in Indexes, e \in Documents :
            indices'[j].pages[e] = IF j = i /\ e = d THEN gen ELSE indices[j].pages[e]
  BY StoresTyped
<1>2. \A j \in Indexes, e \in Documents : Has(j, e) => HasNext(j, e)
  BY <1>1 DEF Has, HasNext
<1>3. \A j \in Indexes : indices[j].seen \subseteq Documents BY EngineTyped DEF Index
<1>4. \A j \in Indexes : \A e \in indices'[j].seen : HasNext(j, e)
  BY <1>1, <1>2, <1>3 DEF Served
<1>5. HasNext(i, d) BY <1>1 DEF HasNext
<1> QED BY <1>1, <1>2, <1>4, <1>5 DEF Grows

LEMMA GrowsByRefresh ==
    ASSUME BaseInv, Served, NEW i \in Indexes, indices' = Refreshed(i) PROVE Grows
<1>1. /\ \A j \in Indexes : /\ indices'[j].exists = indices[j].exists
                            /\ indices'[j].pages = indices[j].pages
                            /\ j # i => indices'[j].seen = indices[j].seen
      /\ indices'[i].seen = {d \in Documents : Has(i, d)}
  BY RefreshedTyped
<1>2. \A j \in Indexes, e \in Documents : Has(j, e) <=> HasNext(j, e)
  BY <1>1 DEF Has, HasNext
<1>3. \A j \in Indexes : indices[j].seen \subseteq Documents BY EngineTyped DEF Index
<1>4. \A j \in Indexes : indices[j].seen \subseteq indices'[j].seen
  BY <1>1, <1>3 DEF Served
<1>5. \A j \in Indexes : \A e \in indices'[j].seen : HasNext(j, e)
  BY <1>1, <1>2, <1>3 DEF Served
<1> QED BY <1>1, <1>2, <1>4, <1>5 DEF Grows

\* A step that changes no record.
LEMMA QuietSound ==
    ASSUME BaseInv, KeysQuiet, UNCHANGED <<rebuild, step>>, Grows, ClaimsEnd \/ ~rebuild.paused
    PROVE  Sound
<1>1. \A o : LivePending(o)' <=> LivePending(o) BY DEF KeysQuiet, LivePending
<1>2. \A o : CopyPending(o)' <=> CopyPending(o) BY DEF KeysQuiet, CopyPending
<1>3. PauseHolds
  <2>1. CASE ClaimsEnd
    BY <2>1, ConstantFacts DEF PauseHolds, LeasesEnded, ClaimsEnd, KeysQuiet
  <2>2. CASE ~rebuild.paused BY <2>2 DEF PauseHolds
  <2> QED BY <2>1, <2>2
<1>4. LiveGoesOn /\ MirrorGoesOn BY <1>1 DEF LiveGoesOn, MirrorGoesOn
<1>5. CopiesGoOn BY <1>2 DEF CopiesGoOn
<1> QED BY <1>3, <1>4, <1>5 DEF Sound, KeysQuiet, SettledGoesOn

LEMMA IdleStored ==
    ASSUME NEW w \in Workers, worker'[w] = Idle PROVE Stored(w)' /\ LeftToCopy(w)'
<1>1. worker'[w].pc = "idle" BY DEF Idle
<1> QED BY <1>1 DEF Stored, LeftToCopy

LEMMA ReleasedPages ==
    ASSUME BaseInv, BaseInv', PageInv, KeysQuiet, ClaimsEnd, UNCHANGED <<rebuild, step, indices>>,
           NEW w \in Workers, worker' = [worker EXCEPT ![w] = Idle]
    PROVE  PageInv'
<1>1. Sound BY GrowsWhenKept, QuietSound DEF PageInv
<1>2. \A v \in Workers : Same(v) \/ (Stored(v)' /\ LeftToCopy(v)')
  BY EngineTyped, SameWhenKept, IdleStored
<1> QED BY <1>1, <1>2, SoundKept

LEMMA EndsPages ==
    ASSUME BaseInv, BaseInv', PageInv, NEW w \in Workers, Ends(w), UNCHANGED <<rebuild, step, indices>>
    PROVE  PageInv'
  BY ReleasedQuiet, ReleasedPages DEF Ends

LEMMA RegisterPages ==
    ASSUME BaseInv, BaseInv', PageInv, NEW w \in Workers, Register(w) PROVE PageInv'
<1> DEFINE me == worker[w]
<1>1. me.pc = "register" /\ UNCHANGED <<rebuild, step, indices>>
  BY DEF Register, engine
<1>2. CASE Ends(w) BY <1>1, <1>2, EndsPages
<1>3. CASE PageVerified(w)
  <2>1. fdb' = [fdb EXCEPT !.issued = @ \cup {Doc(w)}] BY <1>3 DEF Register
  <2>2. PICK a \in BOOLEAN, m \in {"open", "no"} :
          worker' = [worker EXCEPT ![w].pc = "put", ![w].held = a, ![w].missed = m]
    BY <1>3 DEF Register
  <2>3. Doc(w) \in Documents BY <1>1, PlaceTyped DEF AtPage
  <2>4. KeysQuiet /\ ClaimsEnd BY <2>1, <2>3, EngineTyped DEF KeysQuiet, ClaimsEnd, SearchKeys
  <2>5. <<me.rev, me.ord>> \in fdb'.issued BY <2>1, EngineTyped DEF Doc, SearchKeys
  <2>6. Sound BY <1>1, <2>4, GrowsWhenKept, QuietSound DEF PageInv
  <2>7. worker'[w] = [worker[w] EXCEPT !.pc = "put", !.held = a, !.missed = m]
        /\ \A v \in Workers \ {w} : worker'[v] = worker[v]
    BY <2>2, EngineTyped
  <2>8. /\ worker'[w].pc = "put" /\ worker'[w].rev = me.rev /\ worker'[w].ord = me.ord
        /\ worker'[w].mirror = me.mirror /\ worker'[w].skipped = me.skipped
    BY <2>7, PlaceTyped DEF Positions
  <2>9. Stored(w)' BY <2>5, <2>8 DEF Stored
  <2>10. LeftToCopy(w)'
    <3>1. me.missed = "no" BY <1>1 DEF BaseInv, WorkInv, Placed
    <3>2. LeftToCopy(w) BY DEF PageInv
    <3>3. \A o : Page(o)' = Page(o) /\ (CopyPending(o)' <=> CopyPending(o))
      BY <2>4 DEF KeysQuiet, Page, CopyPending
    <3> QED BY <1>1, <2>4, <2>8, <3>1, <3>2, <3>3 DEF LeftToCopy, KeysQuiet, Has
  <2> QED BY <2>6, <2>7, <2>9, <2>10, SoundKept, SameWhenKept
<1> QED BY <1>2, <1>3 DEF Register

\* A worker that only moves to another position.
LEMMA GoesFields ==
    ASSUME BaseInv, NEW w \in Workers, NEW pc, Goes(w, pc)
    PROVE  /\ worker'[w].pc = pc /\ worker'[w].class = worker[w].class
           /\ worker'[w].rev = worker[w].rev /\ worker'[w].ord = worker[w].ord
           /\ worker'[w].target = worker[w].target /\ worker'[w].mirror = worker[w].mirror
           /\ worker'[w].skipped = worker[w].skipped /\ worker'[w].missed = worker[w].missed
           /\ \A v \in Workers \ {w} : worker'[v] = worker[v]
  BY EngineTyped DEF Goes, Positions

LEMMA PutPages ==
    ASSUME BaseInv, BaseInv', PageInv, NEW w \in Workers, Put(w) PROVE PageInv'
<1> DEFINE me == worker[w]
<1>1. /\ me.pc = "put" /\ me.target \in Indexes /\ Doc(w) \in Documents /\ me.gen \in Nat
      /\ me.gen > 0 /\ me.mirror \in AnyIndex
  BY PlaceTyped DEF Put, AtPage, Positions
<1>2. UNCHANGED <<rebuild, step>> BY DEF Put
<1>3. CASE Ends(w) /\ UNCHANGED indices BY <1>2, <1>3, EndsPages
<1>4. CASE /\ Stores(me.target, Doc(w), me.gen) /\ UNCHANGED fdb
           /\ Goes(w, IF me.mirror = NoIndex \/ me.skipped \/ me.missed # "no"
                      THEN "complete" ELSE "mirror")
  <2>1. Grows /\ HasNext(me.target, Doc(w)) BY <1>1, <1>4, GrowsByStore DEF PageInv
  <2>2. Sound BY <1>2, <1>4, <2>1, KeysUnchanged, QuietSound
  <2>3. PICK pc \in {"complete", "mirror"} :
           /\ Goes(w, pc) /\ (pc = "mirror" => ~me.skipped)
           /\ pc = "complete" => me.mirror = NoIndex \/ me.skipped \/ me.missed # "no"
    BY <1>4
  <2>4. /\ worker'[w].pc = pc /\ worker'[w].class = me.class
        /\ worker'[w].rev = me.rev /\ worker'[w].ord = me.ord
        /\ worker'[w].target = me.target /\ worker'[w].mirror = me.mirror
        /\ worker'[w].skipped = me.skipped /\ worker'[w].missed = me.missed
        /\ \A v \in Workers \ {w} : worker'[v] = worker[v]
    BY <2>3, GoesFields
  <2>5. <<me.rev, me.ord>> \in fdb'.issued BY <1>1, <1>4 DEF PageInv, Stored
  <2>6. Stored(w)'
    BY <2>1, <2>3, <2>4, <2>5, ConstantFacts DEF Stored, HasNext, Has, Doc
  <2>7. LeftToCopy(w)'
    <3>1. SUFFICES ASSUME me.skipped, me.missed = "no", me.rev = fdb.rev, me.mirror \in Indexes,
                          me.mirror = Mirror(rebuild), NEW o \in Ordinals, o >= me.ord
                   PROVE  HasNext(me.mirror, Page(o)) \/ CopyPending(o)'
      BY <1>2, <1>4, <2>4 DEF LeftToCopy, Has, HasNext, Page
    <3>2. Has(me.mirror, Page(o)) \/ CopyPending(o)
      BY <1>1, <3>1 DEF PageInv, LeftToCopy
    <3>3. Used(me.mirror) /\ indices[me.mirror].exists BY <3>1, MirrorStands
    <3>4. indices'[me.mirror].exists = indices[me.mirror].exists
      BY <1>1, <1>4, <3>1, StoresTyped
    <3>5. Page(o) \in Documents BY PageTyped
    <3>6. Has(me.mirror, Page(o)) => HasNext(me.mirror, Page(o))
      BY <2>1, <3>1, <3>3, <3>4, <3>5 DEF Grows
    <3>7. CopyPending(o) => CopyPending(o)' BY <1>4 DEF CopyPending
    <3> QED BY <3>2, <3>6, <3>7
  <2> QED BY <2>2, <2>4, <2>6, <2>7, SoundKept, SameWhenKept
<1> QED BY <1>3, <1>4 DEF Put

LEMMA PutAbandonedPages ==
    ASSUME BaseInv, BaseInv', PageInv, NEW w \in Workers, PutAbandoned(w) PROVE PageInv'
<1> DEFINE h == [class |-> worker[w].class, doc |-> Doc(w), index |-> worker[w].target]
<1>1. /\ worker[w].target \in Indexes /\ Doc(w) \in Documents
      /\ worker[w].class \in Classes
  BY PlaceTyped DEF PutAbandoned, AtPage
<1>2. /\ fdb' = IF Verified(w) THEN [Released(fdb, w) EXCEPT !.held = @ \cup {h}] ELSE fdb
      /\ UNCHANGED <<rebuild, step, indices>> /\ worker' = [worker EXCEPT ![w] = Idle]
  BY DEF PutAbandoned
<1>3. h \in [class : Classes, doc : Documents, index : Indexes] BY <1>1
<1> HIDE DEF h
<1>4. KeysQuiet /\ ClaimsEnd
  <2>1. CASE Verified(w)
    <3>1. fdb' = [[fdb EXCEPT !.claim[worker[w].class] = NoClaim] EXCEPT !.held = @ \cup {h}]
      BY <2>1, <1>2 DEF Released
    <3> QED BY <3>1, <1>1, <1>3, EngineTyped, NothingTyped DEF KeysQuiet, ClaimsEnd, SearchKeys
  <2>2. CASE ~Verified(w) BY <2>2, <1>2, KeysUnchanged
  <2> QED BY <2>1, <2>2
<1> QED BY <1>2, <1>4, ReleasedPages

\* The mirror was missed: the page is in the target, and the copy is owed next.
LEMMA MissedPages ==
    ASSUME BaseInv, BaseInv', PageInv, NEW w \in Workers, NEW missed \in {"open", "expired"},
           worker[w].pc = "mirror", MissedMirror(w, missed), UNCHANGED <<fdb, rebuild, step, indices>>
    PROVE  PageInv'
<1> DEFINE me == worker[w]
<1>1. /\ \A v \in Workers \ {w} : worker'[v] = worker[v]
      /\ worker'[w].rev = me.rev /\ worker'[w].target = me.target
      /\ worker'[w].ord = me.ord /\ worker'[w].pc = "complete" /\ worker'[w].missed = missed
  BY MissedFields
<1>2. Sound BY KeysUnchanged, GrowsWhenKept, QuietSound DEF PageInv
<1>3. Stored(w)' BY <1>1 DEF PageInv, Stored, Has
<1>4. LeftToCopy(w)' BY <1>1 DEF LeftToCopy
<1> QED BY <1>1, <1>2, <1>3, <1>4, SoundKept, SameWhenKept

LEMMA MirrorPutPages ==
    ASSUME BaseInv, BaseInv', PageInv, NEW w \in Workers, MirrorPut(w) PROVE PageInv'
<1> DEFINE me == worker[w]
<1>1. /\ me.pc = "mirror" /\ Doc(w) \in Documents /\ me.gen \in Nat /\ me.mirror \in Indexes
      /\ me.gen > 0 /\ me.target \in Indexes
  BY PlaceTyped DEF MirrorPut, AtPage, BaseInv, WorkInv, Placed
<1>2. UNCHANGED <<rebuild, step>> BY DEF MirrorPut
<1>3. CASE Ends(w) /\ UNCHANGED indices BY <1>2, <1>3, EndsPages
<1>4. CASE Stores(me.mirror, Doc(w), me.gen) /\ Goes(w, "complete") /\ UNCHANGED fdb
  <2>1. Grows /\ HasNext(me.mirror, Doc(w)) BY <1>1, <1>4, GrowsByStore DEF PageInv
  <2>2. Sound BY <1>2, <1>4, <2>1, KeysUnchanged, QuietSound
  <2>3. /\ worker'[w].pc = "complete" /\ worker'[w].class = me.class
        /\ worker'[w].rev = me.rev /\ worker'[w].ord = me.ord
        /\ worker'[w].target = me.target /\ worker'[w].mirror = me.mirror
        /\ worker'[w].skipped = me.skipped
        /\ \A v \in Workers \ {w} : worker'[v] = worker[v]
    BY <1>4, GoesFields
  <2>4. /\ <<me.rev, me.ord>> \in fdb'.issued /\ ~me.skipped
        /\ indices[me.target].exists => Has(me.target, Doc(w))
    BY <1>1, <1>4 DEF PageInv, Stored, Doc
  <2>5. Used(me.target) BY <1>1 DEF BaseInv, WorkInv, Placed
  <2>6. indices'[me.target].exists => HasNext(me.target, Doc(w))
    BY <1>1, <2>1, <2>4, <2>5 DEF Grows
  <2>7. Stored(w)' BY <2>1, <2>3, <2>4, <2>6 DEF Stored, HasNext, Has, Doc
  <2>8. LeftToCopy(w)' BY <2>3, <2>4 DEF LeftToCopy
  <2> QED BY <2>2, <2>3, <2>7, <2>8, SoundKept, SameWhenKept
<1>5. CASE MissedMirror(w, "expired") /\ UNCHANGED <<fdb, indices>>
  BY <1>1, <1>2, <1>5, MissedPages
<1> QED BY <1>3, <1>4, <1>5 DEF MirrorPut, MissedMirror

LEMMA MirrorMissedPages ==
    ASSUME BaseInv, BaseInv', PageInv, NEW w \in Workers, MirrorMissed(w) PROVE PageInv'
<1>1. /\ worker[w].pc = "mirror" /\ UNCHANGED <<fdb, rebuild, step, indices>>
      /\ \E missed \in {"open", "expired"} : MissedMirror(w, missed)
  BY DEF MirrorMissed, MissedMirror
<1> QED BY <1>1, MissedPages

\* The miss is kept by itself: the page stays registered.
LEMMA KeepLaterPages ==
    ASSUME BaseInv, BaseInv', PageInv, NEW w \in Workers, worker[w].pc = "complete",
           Goes(w, "keep"), UNCHANGED <<fdb, rebuild, step, indices>>
    PROVE  PageInv'
<1>1. /\ worker'[w].pc = "keep" /\ worker'[w].rev = worker[w].rev /\ worker'[w].ord = worker[w].ord
      /\ \A v \in Workers \ {w} : worker'[v] = worker[v]
  BY GoesFields
<1>2. Sound BY KeysUnchanged, GrowsWhenKept, QuietSound DEF PageInv
<1>3. Stored(w)' BY <1>1 DEF PageInv, Stored
<1>4. LeftToCopy(w)' BY <1>1 DEF LeftToCopy
<1> QED BY <1>1, <1>2, <1>3, <1>4, SoundKept, SameWhenKept

LEMMA WorkerFailsPages ==
    ASSUME BaseInv, BaseInv', PageInv, NEW w \in Workers, WorkerFails(w) PROVE PageInv'
<1>1. UNCHANGED <<rebuild, step, indices>> BY DEF WorkerFails, engine
<1>2. CASE Ends(w) BY <1>1, <1>2, EndsPages
<1>3. CASE worker' = [worker EXCEPT ![w] = Idle] /\ UNCHANGED fdb
  BY <1>1, <1>3, KeysUnchanged, ReleasedPages
<1>4. CASE worker[w].pc = "complete" /\ Goes(w, "keep") /\ UNCHANGED fdb
  BY <1>1, <1>4, KeepLaterPages
<1> QED BY <1>2, <1>3, <1>4 DEF WorkerFails

LEMMA ClockPages ==
    ASSUME BaseInv, BaseInv', PageInv, KeysQuiet, ClaimsEnd, UNCHANGED <<rebuild, step>>, Grows,
           \A w \in Workers : Same(w)
    PROVE  PageInv'
  BY QuietSound, SoundKept

LEMMA LeasePages ==
    ASSUME BaseInv, BaseInv', PageInv, NEW class \in Classes, LeaseEnds(class) \/ LeaseLapses(class)
    PROVE  PageInv'
<1>1. /\ fdb' = [fdb EXCEPT !.claim[class] = NoClaim] /\ UNCHANGED <<rebuild, step, indices, worker>>
  BY DEF LeaseEnds, LeaseLapses, engine
<1>2. KeysQuiet /\ ClaimsEnd BY <1>1, EngineTyped, NothingTyped DEF KeysQuiet, ClaimsEnd, SearchKeys
<1> QED BY <1>1, <1>2, GrowsWhenKept, SameWhenKept, ClockPages DEF PageInv

LEMMA LateArrivesPages ==
    ASSUME BaseInv, BaseInv', PageInv, NEW q \in late, LateArrives(q) PROVE PageInv'
<1>1. q \in LateWrites /\ q.gen > 0 BY EngineTyped DEF LateInv
<1>2. q.index \in Indexes /\ q.doc \in Documents /\ q.gen \in Nat BY <1>1 DEF LateWrites
<1>3. UNCHANGED <<fdb, rebuild, step, worker>> BY DEF LateArrives
<1>4. Grows BY <1>1, <1>2, GrowsByStore, GrowsWhenKept DEF LateArrives, PageInv
<1> QED BY <1>3, <1>4, KeysUnchanged, SameWhenKept, ClockPages

LEMMA HorizonPages ==
    ASSUME BaseInv, BaseInv', PageInv, NEW d, NEW i, HorizonPasses(d, i) PROVE PageInv'
  BY HorizonFields, GrowsWhenKept, ClockPages DEF PageInv

\* A checkpoint in the refresh phase has every page of its class behind it.
LEMMA NothingPending ==
    ASSUME BaseInv, NEW class \in Classes, fdb.work[class] # NoRecord,
           Progress(fdb, class).phase # "pages", NEW o \in Ordinals
    PROVE  /\ class = "live" => ~LivePending(o)
           /\ class = "copy" => ~CopyPending(o)
<1>1. fdb.work[class].gen = fdb.gen /\ fdb.work[class].rev = fdb.rev
  BY DEF BaseInv, WorkInv, Records
<1>2. Progress(fdb, class) = fdb.cursor[class] BY DEF Progress
<1>3. /\ class = "live" => fdb.cursor[class].rev = fdb.rev
      /\ class = "copy" => fdb.cursor[class].gen = fdb.gen
  BY <1>1 DEF Progress
<1>4. fdb.cursor[class].ord = Pages BY <1>2, ProgressPhase
<1>5. o < Pages /\ o \in Nat BY PageTyped
<1>6. ~(Pages <= o) BY <1>5, ConstantFacts
<1> QED BY <1>3, <1>4, <1>6 DEF LivePending, CopyPending

LEMMA ClaimPages ==
    ASSUME BaseInv, BaseInv', PageInv, NEW w \in Workers, NEW class \in Classes, Claim(w, class)
    PROVE  PageInv'
<1>1. UNCHANGED <<rebuild, step, indices>> /\ KeysQuiet /\ Claimed(w, class)
  BY ClaimFields
<1>2. Sound BY <1>1, GrowsWhenKept, QuietSound DEF PageInv, Claimed
<1>3. \A v \in Workers \ {w} : Same(v) BY <1>1, SameWhenKept DEF Claimed
<1>4. LeftToCopy(w)' BY <1>1 DEF LeftToCopy, Claimed
<1>5. Stored(w)'
  <2>1. worker'[w].pc \in {"register", "refresh"} BY <1>1 DEF Claimed
  <2>2. ASSUME worker'[w].pc = "refresh", worker'[w].class = "live", NEW o \in Ordinals
        PROVE  HasNext(worker'[w].target, <<worker'[w].rev, o>>)
    <3>1. class = "live" /\ Progress(fdb, class).phase # "pages" /\ fdb.work[class] # NoRecord
      BY <1>1, <2>2 DEF Claimed
    <3>2. ~LivePending(o) BY <3>1, NothingPending
    <3>3. Has(fdb.serving, Page(o)) BY <3>2 DEF PageInv, Served
    <3>4. worker'[w].target = fdb.serving /\ worker'[w].rev = fdb.rev
      BY <1>1, <3>1, ConstantFacts DEF Claimed, Target
    <3> QED BY <1>1, <3>3, <3>4 DEF Has, HasNext, Page
  <2> QED BY <2>1, <2>2 DEF Stored, Has, HasNext
<1> QED BY <1>2, <1>3, <1>4, <1>5, SoundKept

LEMMA RefreshPages ==
    ASSUME BaseInv, BaseInv', PageInv, NEW w \in Workers, Refresh(w) PROVE PageInv'
<1> DEFINE me == worker[w]
<1>1. /\ me.pc = "refresh" /\ me.target \in Indexes /\ UNCHANGED <<rebuild, step>>
  BY PlaceTyped DEF Refresh
<1>2. CASE Ends(w) /\ UNCHANGED indices BY <1>1, <1>2, EndsPages
<1>3. CASE /\ indices[me.target].exists /\ indices' = Refreshed(me.target)
           /\ Goes(w, "finish") /\ UNCHANGED fdb
  <2>1. Grows BY <1>1, <1>3, GrowsByRefresh DEF PageInv
  <2>2. Sound BY <1>1, <1>3, <2>1, KeysUnchanged, QuietSound
  <2>3. /\ worker'[w].pc = "finish" /\ worker'[w].class = me.class
        /\ worker'[w].rev = me.rev /\ worker'[w].target = me.target
        /\ \A v \in Workers \ {w} : worker'[v] = worker[v]
    BY <1>3, GoesFields
  <2>4. /\ indices'[me.target].pages = indices[me.target].pages
        /\ indices'[me.target].seen = {d \in Documents : Has(me.target, d)}
    BY <1>1, <1>3, RefreshedTyped
  <2>5. me.class = "live" => \A o \in Ordinals : Has(me.target, <<me.rev, o>>)
    BY <1>1, <1>3 DEF PageInv, Stored
  <2>6. \A o \in Ordinals : <<me.rev, o>> \in Documents BY <1>1, PlacePages
  <2>7. me.class = "live" => \A o \in Ordinals : <<me.rev, o>> \in indices'[me.target].seen
    BY <2>4, <2>5, <2>6
  <2>8. Stored(w)' BY <2>3, <2>4, <2>5, <2>7 DEF Stored, Has
  <2>9. LeftToCopy(w)' BY <2>3 DEF LeftToCopy
  <2> QED BY <2>2, <2>3, <2>8, <2>9, SoundKept, SameWhenKept
<1> QED BY <1>2, <1>3 DEF Refresh

\* A copy that is owed from a page on comes to all it came to before.
LEMMA OweGoesOn ==
    ASSUME BaseInv, NEW ord, CopySide(fdb, fdb', fdb.gen, fdb.rev, ord), fdb'.gen = fdb.gen,
           NEW o \in Ordinals
    PROVE  /\ CopyPending(o) => CopyPending(o)'
           /\ o = ord => CopyPending(o)'
<1>1. fdb'.work["copy"] # NoRecord
  BY PageTyped, ConstantFacts DEF CopySide
<1>2. o \in 0..Pages BY PageTyped
<1> QED BY <1>1, <1>2 DEF CopyPending, CopySide

LEMMA OweFrom ==
    ASSUME BaseInv, NEW ord \in Nat, CopySide(fdb, fdb', fdb.gen, fdb.rev, ord), fdb'.gen = fdb.gen,
           fdb' \in SearchKeys, NEW o \in Ordinals, o >= ord
    PROVE  CopyPending(o)'
<1>1. fdb'.work["copy"] # NoRecord
  BY PageTyped, ConstantFacts DEF CopySide
<1>2. o \in Nat BY PageTyped
<1>3. fdb'.cursor["copy"].ord \in Nat BY ConstantFacts DEF SearchKeys
<1>4. fdb'.cursor["copy"].gen # fdb.gen \/ fdb'.cursor["copy"].ord <= o
  BY <1>2, <1>3 DEF CopySide
<1> QED BY <1>1, <1>4 DEF CopyPending

\* CompletePage: only the page of the worker is passed.
LEMMA PagePassed ==
    ASSUME BaseInv, NEW w \in Workers, worker[w].pc = "complete", PageVerified(w), PageDone(w),
           NEW o \in Ordinals
    PROVE  /\ worker[w].class = "live" /\ LivePending(o) /\ ~LivePending(o)' => o = worker[w].ord
           /\ worker[w].class = "copy" /\ CopyPending(o) /\ ~CopyPending(o)' => o = worker[w].ord
<1> DEFINE me == worker[w]
<1>1. /\ fdb.work[me.class] # NoRecord /\ fdb.work[me.class].gen = fdb.gen
      /\ fdb.work[me.class].rev = fdb.rev
      /\ Progress(fdb, me.class).ord = me.ord
  BY PageVerifiedFacts
<1>2. me.ord \in 0..Pages - 1 /\ me.class \in Classes BY PlaceTyped DEF AtPage
<1>3. o \in Nat /\ o < Pages /\ fdb.cursor["live"].ord \in Nat /\ fdb.cursor["copy"].ord \in Nat
  BY PageTyped
<1>4. ASSUME me.class = "live", LivePending(o), ~LivePending(o)' PROVE o = me.ord
  <2>1. fdb'.cursor["live"].rev = fdb'.rev /\ fdb'.cursor["live"].ord = me.ord + 1
        /\ fdb'.work["live"] # NoRecord
    BY <1>1, <1>4 DEF PageDone
  <2>2. ~(me.ord + 1 <= o) BY <1>4, <2>1 DEF LivePending
  <2>3. CASE fdb.cursor["live"].rev = fdb.rev
    <3>1. fdb.cursor["live"].ord = me.ord BY <1>1, <1>4, <2>3 DEF Progress
    <3>2. fdb.cursor["live"].ord <= o BY <1>4, <2>3 DEF LivePending
    <3> QED BY <1>2, <1>3, <2>2, <3>1, <3>2
  <2>4. CASE fdb.cursor["live"].rev # fdb.rev
    <3>1. me.ord = 0 BY <1>1, <1>4, <2>4 DEF Progress
    <3> QED BY <1>3, <2>2, <3>1
  <2> QED BY <2>3, <2>4
<1>5. ASSUME me.class = "copy", CopyPending(o), ~CopyPending(o)' PROVE o = me.ord
  <2>1. fdb'.cursor["copy"].gen = fdb'.gen /\ fdb'.cursor["copy"].ord = me.ord + 1
        /\ fdb'.work["copy"] # NoRecord
    BY <1>1, <1>5 DEF PageDone
  <2>2. ~(me.ord + 1 <= o) BY <1>5, <2>1 DEF CopyPending
  <2>3. CASE fdb.cursor["copy"].gen = fdb.gen
    <3>1. fdb.cursor["copy"].ord = me.ord BY <1>1, <1>5, <2>3 DEF Progress
    <3>2. fdb.cursor["copy"].ord <= o BY <1>5, <2>3 DEF CopyPending
    <3> QED BY <1>2, <1>3, <2>2, <3>1, <3>2
  <2>4. CASE fdb.cursor["copy"].gen # fdb.gen
    <3>1. me.ord = 0 BY <1>1, <1>5, <2>4 DEF Progress
    <3> QED BY <1>3, <2>2, <3>1
  <2> QED BY <2>3, <2>4
<1> QED BY <1>4, <1>5

\* The lease of a verified claim is held: no pause has run its course.
LEMMA OwnerHolds ==
    ASSUME BaseInv, NEW w \in Workers, Verified(w) PROVE ~LeasesEnded
<1>1. fdb.claim[worker[w].class].owner = w /\ worker[w].class \in Classes
  BY PlaceTyped DEF Verified
<1> QED BY <1>1, SearchRebuildAssumption DEF LeasesEnded

LEMMA CompletePageSound ==
    ASSUME BaseInv, PageInv, NEW w \in Workers, worker[w].pc = "complete", PageVerified(w),
           PageDone(w), UNCHANGED <<rebuild, step, indices>>
    PROVE  Sound
<1> DEFINE me == worker[w]
<1>1. /\ me.rev = fdb.rev /\ fdb.work[me.class] # NoRecord
      /\ Target(me.class) = me.target /\ MirrorOf(me.class) = me.mirror
  BY PageVerifiedFacts
<1>2. me.class \in Classes /\ me.ord \in 0..Pages - 1 BY PlaceTyped DEF AtPage
<1>3. Grows BY GrowsWhenKept DEF PageInv
<1>4. <<me.rev, me.ord>> \in fdb.issued
      /\ (indices[me.target].exists => Has(me.target, <<me.rev, me.ord>>))
  BY DEF PageInv, Stored
<1>5. PauseHolds BY OwnerHolds DEF PauseHolds, PageVerified
<1>6. fdb'.gen = fdb.gen /\ fdb'.rev = fdb.rev /\ fdb'.serving = fdb.serving
      /\ fdb'.issued = fdb.issued /\ fdb'.work["live"] = fdb.work["live"]
  BY DEF PageDone
<1>7. CASE me.class = "live"
  <2>1. me.target = fdb.serving /\ me.mirror = Mirror(rebuild)
    BY <1>1, <1>7 DEF Target, MirrorOf
  <2>2. LiveGoesOn
    <3>1. SUFFICES ASSUME NEW o \in Ordinals, LivePending(o), ~LivePending(o)'
                   PROVE  HasNext(fdb.serving, Page(o)) /\ Page(o) \in fdb'.issued
      BY DEF LiveGoesOn
    <3>2. o = me.ord BY <1>7, <3>1, PagePassed
    <3>3. indices[fdb.serving].exists BY ServingStands
    <3> QED BY <1>1, <1>4, <1>6, <2>1, <3>2, <3>3 DEF Page, Has, HasNext
  <2>3. MirrorGoesOn
    <3>1. SUFFICES ASSUME NEW m \in Indexes, m = Mirror(rebuild), NEW o \in Ordinals,
                          LivePending(o), ~LivePending(o)'
                   PROVE  CopyPending(o)' \/ HasNext(m, Page(o))
      BY DEF MirrorGoesOn
    <3>2. o = me.ord BY <1>7, <3>1, PagePassed
    <3>3. m = me.mirror /\ indices[m].exists BY <2>1, <3>1, MirrorStands
    <3>4. CASE me.missed # "no"
      <4>1. CopySide(fdb, fdb', fdb.gen, fdb.rev, me.ord) BY <1>7, <3>4 DEF PageDone
      <4> QED BY <1>6, <3>2, <4>1, OweGoesOn
    <3>5. CASE me.missed = "no" /\ ~me.skipped
      <4>1. Has(m, <<me.rev, me.ord>>) BY <3>1, <3>3, <3>5 DEF PageInv, Stored
      <4> QED BY <1>1, <3>2, <4>1 DEF Has, HasNext, Page
    <3>6. CASE me.missed = "no" /\ me.skipped
      <4>1. o >= me.ord BY <1>2, <3>2
      <4>2. Has(m, Page(o)) \/ CopyPending(o)
        BY <1>1, <2>1, <3>1, <3>3, <3>6, <4>1 DEF PageInv, LeftToCopy
      <4>3. fdb'.work["copy"] = fdb.work["copy"] /\ fdb'.cursor["copy"] = fdb.cursor["copy"]
        BY <1>7, <3>6 DEF PageDone
      <4> QED BY <1>6, <4>2, <4>3 DEF Has, HasNext, CopyPending
    <3> QED BY <3>4, <3>5, <3>6
  <2>4. \A o \in Ordinals : CopyPending(o) => CopyPending(o)'
    <3>1. CASE me.missed = "no"
      BY <1>6, <1>7, <3>1 DEF PageDone, CopyPending
    <3>2. CASE me.missed # "no"
      BY <1>6, <1>7, <3>2, OweGoesOn DEF PageDone
    <3> QED BY <3>1, <3>2
  <2>5. CopiesGoOn BY <2>4 DEF CopiesGoOn
  <2> QED BY <1>3, <1>5, <1>6, <2>2, <2>3, <2>5 DEF Sound, SettledGoesOn
<1>8. CASE me.class = "copy"
  <2>1. \A o : LivePending(o)' <=> LivePending(o)
    BY <1>6, <1>8 DEF PageDone, LivePending
  <2>2. LiveGoesOn /\ MirrorGoesOn BY <2>1 DEF LiveGoesOn, MirrorGoesOn
  <2>3. CopiesGoOn
    <3>1. SUFFICES ASSUME NEW m \in Indexes, m = Mirror(rebuild), NEW o \in Ordinals,
                          CopyPending(o), ~CopyPending(o)'
                   PROVE  HasNext(m, Page(o))
      BY DEF CopiesGoOn
    <3>2. o = me.ord BY <1>8, <3>1, PagePassed
    <3>3. m = me.target /\ indices[m].exists BY <1>1, <1>8, <3>1, MirrorStands DEF Target
    <3> QED BY <1>1, <1>4, <3>2, <3>3 DEF Has, HasNext, Page
  <2> QED BY <1>3, <1>5, <1>6, <2>2, <2>3 DEF Sound, SettledGoesOn
<1> QED BY <1>2, <1>7, <1>8, ConstantFacts

LEMMA CompletePagePages ==
    ASSUME BaseInv, BaseInv', PageInv, NEW w \in Workers, CompletePage(w) PROVE PageInv'
<1> DEFINE me == worker[w]
<1>1. me.pc = "complete" /\ UNCHANGED <<rebuild, step, indices>> BY DEF CompletePage, engine
<1>2. CASE Ends(w) BY <1>1, <1>2, EndsPages
<1>3. CASE Goes(w, "keep") /\ UNCHANGED fdb BY <1>1, <1>3, KeepLaterPages
<1>4. CASE PageVerified(w)
  <2>1. PageDone(w) /\ NextPage(w) BY <1>4, PageDoneFields, NextPageFields
  <2>2. Sound BY <1>1, <1>4, <2>1, CompletePageSound
  <2>3. /\ me.rev = fdb.rev /\ fdb.work[me.class] # NoRecord
        /\ Target(me.class) = me.target /\ MirrorOf(me.class) = me.mirror
    BY <1>4, PageVerifiedFacts
  <2>4. me.class \in Classes /\ me.ord \in 0..Pages - 1 BY <1>1, PlaceTyped DEF AtPage
  <2>5. /\ \A v \in Workers \ {w} : worker'[v] = worker[v]
        /\ worker'[w].rev = me.rev /\ worker'[w].class = me.class
        /\ worker'[w].target = me.target /\ worker'[w].mirror = me.mirror
        /\ worker'[w].ord = me.ord + 1 /\ worker'[w].skipped = me.skipped
        /\ worker'[w].pc = IF me.ord + 1 = Pages THEN "refresh" ELSE "register"
    BY <2>1 DEF NextPage
  <2>6. Stored(w)'
    <3>1. worker'[w].pc \in {"refresh", "register"} BY <2>5
    <3>2. ASSUME worker'[w].pc = "refresh", me.class = "live", NEW o \in Ordinals
          PROVE  Has(me.target, <<me.rev, o>>)
      <4>1. me.ord + 1 = Pages BY <2>5, <3>2
      <4>2. me.target = fdb.serving BY <2>3, <3>2 DEF Target
      <4>3. CASE ~LivePending(o)
        BY <2>3, <4>2, <4>3 DEF PageInv, Served, Page
      <4>4. CASE LivePending(o)
        <5>1. fdb'.cursor["live"].rev = fdb'.rev /\ fdb'.cursor["live"].ord = Pages
          BY <2>1, <3>2, <4>1 DEF PageDone
        <5>2. o < Pages /\ o \in Nat BY PageTyped
        <5>3. ~(Pages <= o) BY <5>2, ConstantFacts
        <5>4. ~LivePending(o)' BY <5>1, <5>3 DEF LivePending
        <5>5. HasNext(fdb.serving, Page(o)) BY <2>2, <4>4, <5>4 DEF Sound, LiveGoesOn
        <5> QED BY <1>1, <2>3, <4>2, <5>5 DEF Has, HasNext, Page
      <4> QED BY <4>3, <4>4
    <3> QED BY <1>1, <2>5, <3>1, <3>2 DEF Stored, Has
  <2>7. LeftToCopy(w)'
    <3>1. SUFFICES ASSUME me.skipped, me.mirror \in Indexes, me.mirror = Mirror(rebuild),
                          NEW o \in Ordinals, o >= me.ord + 1
                   PROVE  Has(me.mirror, Page(o)) \/ CopyPending(o)'
      BY <1>1, <2>1, <2>5 DEF LeftToCopy, Has, Page, PageDone
    <3>2. me.class = "live" BY <2>3, <2>4, <3>1, ConstantFacts DEF MirrorOf
    <3>3. o >= me.ord /\ me.ord \in Nat BY <2>4, <3>1, PageTyped
    <3>4. CASE me.missed = "no"
      <4>1. Has(me.mirror, Page(o)) \/ CopyPending(o)
        BY <1>1, <2>3, <3>1, <3>3, <3>4 DEF PageInv, LeftToCopy
      <4>2. fdb'.work["copy"] = fdb.work["copy"] /\ fdb'.cursor["copy"] = fdb.cursor["copy"]
            /\ fdb'.gen = fdb.gen
        BY <2>1, <3>2, <3>4 DEF PageDone
      <4> QED BY <4>1, <4>2 DEF CopyPending
    <3>5. CASE me.missed # "no"
      <4>1. CopySide(fdb, fdb', fdb.gen, fdb.rev, me.ord) /\ fdb'.gen = fdb.gen
            /\ fdb' \in SearchKeys
        BY <2>1, <3>2, <3>5 DEF PageDone
      <4> QED BY <3>3, <4>1, OweFrom
    <3> QED BY <3>4, <3>5
  <2> QED BY <2>2, <2>5, <2>6, <2>7, SoundKept, SameWhenKept
<1> QED BY <1>2, <1>3, <1>4 DEF CompletePage

LEMMA KeepPages ==
    ASSUME BaseInv, BaseInv', PageInv, NEW w \in Workers, KeepMirrorMiss(w) PROVE PageInv'
<1>1. /\ Keeps(w) /\ worker' = [worker EXCEPT ![w] = Idle] /\ UNCHANGED <<rebuild, step, indices>>
  BY KeepFields
<1>2. CASE KeysQuiet /\ ClaimsEnd BY <1>1, <1>2, ReleasedPages
<1>3. CASE KeysOwe(worker[w].ord) /\ ~(rebuild.state = "switching" /\ rebuild.paused)
  <2>1. \A o : LivePending(o)' <=> LivePending(o) BY <1>3 DEF KeysOwe, LivePending
  <2>2. LiveGoesOn /\ MirrorGoesOn BY <2>1 DEF LiveGoesOn, MirrorGoesOn
  <2>3. CopiesGoOn BY <1>3, OweGoesOn DEF CopiesGoOn, KeysOwe
  <2>4. PauseHolds BY <1>3 DEF PauseHolds
  <2>5. Grows BY <1>1, GrowsWhenKept DEF PageInv
  <2>6. Sound BY <1>1, <1>3, <2>2, <2>3, <2>4, <2>5 DEF Sound, SettledGoesOn, KeysOwe
  <2>7. \A v \in Workers : Same(v) \/ (Stored(v)' /\ LeftToCopy(v)')
    BY <1>1, EngineTyped, SameWhenKept, IdleStored
  <2> QED BY <2>6, <2>7, SoundKept
<1> QED BY <1>1, <1>2, <1>3 DEF Keeps

LEMMA CompleteRefreshPages ==
    ASSUME BaseInv, BaseInv', PageInv, NEW w \in Workers, CompleteRefresh(w) PROVE PageInv'
<1> DEFINE me == worker[w]
<1>1. /\ me.pc = "finish" /\ worker' = [worker EXCEPT ![w] = Idle]
      /\ UNCHANGED <<rebuild, step, indices>>
      /\ \/ KeysQuiet /\ ClaimsEnd
         \/ /\ WorkRemoved(fdb, fdb', me.class) /\ Verified(w)
            /\ Progress(fdb, me.class).phase = "refresh"
  BY CompleteRefreshFields
<1>2. CASE KeysQuiet /\ ClaimsEnd BY <1>1, <1>2, ReleasedPages
<1>3. CASE /\ WorkRemoved(fdb, fdb', me.class) /\ Verified(w)
           /\ Progress(fdb, me.class).phase = "refresh"
  <2>1. me.class \in Classes BY PlaceTyped
  <2>2. fdb.gen = me.gen /\ fdb.work[me.class].gen = fdb.gen /\ Target(me.class) = me.target
    BY <1>3 DEF Verified
  <2>3. fdb.work[me.class] # NoRecord BY <2>2, CopyMayBeOwed, ConstantFacts
  <2>4. Grows BY <1>1, GrowsWhenKept DEF PageInv
  <2>5. PauseHolds BY <1>3, OwnerHolds DEF PauseHolds
  <2>6. /\ fdb'.rev = fdb.rev /\ fdb'.gen = fdb.gen /\ fdb'.serving = fdb.serving
        /\ fdb'.issued = fdb.issued
    BY <1>3 DEF WorkRemoved
  <2>7. CASE me.class = "live"
    <3>1. \A o \in Ordinals : ~LivePending(o) BY <1>3, <2>1, <2>3, <2>7, NothingPending
    <3>2. LiveGoesOn /\ MirrorGoesOn BY <3>1 DEF LiveGoesOn, MirrorGoesOn
    <3>3. fdb'.work["copy"] = fdb.work["copy"] /\ fdb'.cursor["copy"] = fdb.cursor["copy"]
      BY <1>3, <2>7, ConstantFacts DEF WorkRemoved
    <3>4. CopiesGoOn BY <2>6, <3>3 DEF CopiesGoOn, CopyPending
    <3>5. SettledIsSearchable'
      <4>1. me.target = fdb.serving /\ indices[fdb.serving].exists
        BY <2>2, <2>7, ServingStands DEF Target
      <4>2. me.rev = fdb.rev BY <1>1, <2>2 DEF BaseInv, WorkInv, Placed
      <4>3. \A o \in Ordinals : Page(o) \in indices[fdb.serving].seen
        BY <1>1, <2>7, <4>1, <4>2 DEF PageInv, Stored, Page
      <4>4. CurrentPages' \subseteq indices[fdb.serving].seen BY <2>6, <4>3, CurrentNext
      <4> QED BY <1>1, <2>6, <4>4 DEF SettledIsSearchable
    <3> QED BY <1>1, <2>4, <2>5, <2>6, <3>2, <3>4, <3>5, EngineTyped, SameWhenKept, IdleStored,
               SoundKept DEF Sound, SettledGoesOn
  <2>8. CASE me.class = "copy"
    <3>1. \A o \in Ordinals : ~CopyPending(o) BY <1>3, <2>1, <2>3, <2>8, NothingPending
    <3>2. CopiesGoOn BY <3>1 DEF CopiesGoOn
    <3>3. fdb'.work["live"] = fdb.work["live"] /\ fdb'.cursor["live"] = fdb.cursor["live"]
      BY <1>3, <2>8, ConstantFacts DEF WorkRemoved
    <3>4. LiveGoesOn /\ MirrorGoesOn BY <2>6, <3>3 DEF LiveGoesOn, MirrorGoesOn, LivePending
    <3> QED BY <1>1, <2>4, <2>5, <2>6, <3>2, <3>3, <3>4, EngineTyped, SameWhenKept, IdleStored,
               SoundKept DEF Sound, SettledGoesOn
  <2> QED BY <2>1, <2>7, <2>8, ConstantFacts
<1> QED BY <1>1, <1>2, <1>3

LEMMA AccessPages ==
    ASSUME BaseInv, BaseInv', PageInv, ChangeAccess PROVE PageInv'
<1>1. AccessChanged /\ UNCHANGED <<rebuild, step, indices, worker>> BY AccessFields
<1>2. fdb.gen \in Nat /\ fdb.gen > 0 BY CopyMayBeOwed
<1>3. \A class \in Classes : fdb'.work[class] = NoRecord <=> fdb.work[class] = NoRecord
  BY <1>1, <1>2, ConstantFacts DEF AccessChanged
<1>4. \A o : LivePending(o)' <=> LivePending(o)
  BY <1>1, <1>3, ConstantFacts DEF LivePending, AccessChanged
<1>5. fdb'.cursor["copy"].gen # fdb'.gen
  <2>1. fdb.cursor["copy"].gen <= fdb.gen /\ fdb.cursor["copy"].gen \in Nat
    BY EngineTyped, CursorsOK, ConstantFacts DEF CursorOK, SearchKeys
  <2> QED BY <1>1, <1>2, <2>1 DEF AccessChanged
<1>6. \A o : CopyPending(o) => CopyPending(o)'
  BY <1>3, <1>5, ConstantFacts DEF CopyPending
<1>7. PauseHolds
  BY <1>1, <1>3, ConstantFacts DEF PauseHolds, LeasesEnded, AccessChanged, ClaimsEnd
<1>8. Sound
  BY <1>1, <1>3, <1>4, <1>6, <1>7, ConstantFacts, GrowsWhenKept
  DEF Sound, AccessChanged, LiveGoesOn, MirrorGoesOn, CopiesGoOn, SettledGoesOn, PageInv
<1> QED BY <1>1, <1>8, SoundKept, SameWhenKept

\* A new revision: every page of it is pending, and no worker is at it.
LEMMA EditPages ==
    ASSUME BaseInv, BaseInv', PageInv, EditContent PROVE PageInv'
<1>1. Edited /\ UNCHANGED <<rebuild, step, indices, worker>> BY EditedFields
<1>2. fdb.gen \in Nat /\ fdb.gen > 0 BY CopyMayBeOwed
<1>3. \A o : LivePending(o)'
  <2>1. fdb'.work["live"].gen = fdb.gen + 1 BY <1>1 DEF Edited
  <2>2. fdb'.work["live"] # NoRecord BY <1>2, <2>1, ConstantFacts
  <2>3. fdb'.cursor["live"].rev = 0 BY <1>1, ConstantFacts DEF Edited, NoCursor
  <2>4. fdb'.cursor["live"].rev # fdb'.rev BY <1>1, <1>2, <2>3 DEF Edited
  <2> QED BY <2>2, <2>4 DEF LivePending
<1>4. fdb'.work["live"] # NoRecord BY <1>3 DEF LivePending
<1>5. Served' BY <1>1, <1>3, <1>4 DEF PageInv, Served, SettledIsSearchable, Has
<1>6. Gaps' BY <1>3 DEF Gaps, Gap
<1>7. LeasesEnded => LeasesEnded'
  BY <1>1, ConstantFacts DEF Edited, ClaimsEnd, LeasesEnded
<1>8. Window' BY <1>1, <1>4, <1>7 DEF PageInv, Window, Edited
<1>9. ASSUME NEW w \in Workers PROVE Stored(w)' /\ LeftToCopy(w)'
  <2>1. Stored(w)' BY <1>1 DEF PageInv, Stored, Has, Edited
  <2>2. CASE worker[w].pc = "idle" BY <1>1, <2>1, <2>2 DEF LeftToCopy
  <2>3. CASE worker[w].pc # "idle"
    <3>1. worker[w].rev \in Nat /\ worker[w].gen \in Nat /\ worker[w].gen \in 1..fdb.gen
          /\ worker[w].rev \in 1..worker[w].gen
      BY <2>3, PlaceTyped DEF BaseInv, WorkInv, Placed
    <3>2. worker[w].rev # fdb'.rev BY <1>1, <1>2, <3>1 DEF Edited
    <3>3. LeftToCopy(w)' BY <1>1, <3>2 DEF LeftToCopy
    <3> QED BY <2>1, <3>3
  <2> QED BY <2>2, <2>3
<1> QED BY <1>5, <1>6, <1>8, <1>9 DEF PageInv

LEMMA WorkSidePages ==
    ASSUME BaseInv, BaseInv', PageInv, WorkSide PROVE PageInv'
  BY EditPages, AccessPages, ClaimPages, RegisterPages, PutPages, MirrorPutPages,
     CompletePagePages, KeepPages, RefreshPages, CompleteRefreshPages, PutAbandonedPages,
     MirrorMissedPages, WorkerFailsPages, LeasePages, LateArrivesPages, HorizonPages
  DEF WorkSide, WorkStep

----------------------------------------------------------------------------
\* The pages through the slices of the rebuild item

\* The keys, the record and the indexes stay: only the position is to be checked.
LEMMA MovedPages ==
    ASSUME BaseInv, BaseInv', PageInv, UNCHANGED <<fdb, rebuild, indices, worker>>, Gaps', Window'
    PROVE  PageInv'
<1>1. Served' BY DEF PageInv, Served, SettledIsSearchable, LivePending, Has, Page, CurrentPages
<1>2. ASSUME NEW w \in Workers PROVE Stored(w)' /\ LeftToCopy(w)'
  <2>1. Stored(w)' BY DEF PageInv, Stored, Has
  <2>2. LeftToCopy(w)' BY DEF PageInv, LeftToCopy, Has, Page, CopyPending
  <2> QED BY <2>1, <2>2
<1> QED BY <1>1, <1>2 DEF PageInv

LEMMA GapsMoved ==
    ASSUME Gaps, UNCHANGED <<fdb, rebuild, indices>>, step'.pc \notin {"lookup", "checked"}
    PROVE  Gaps'
<1>1. \A o : Gap(o)' <=> Gap(o) BY DEF Gap, LivePending, CopyPending, Has, Page
<1>2. \A o : Page(o)' = Page(o) BY DEF Page
<1> QED BY <1>1, <1>2 DEF Gaps, Before

LEMMA WindowClosed ==
    ASSUME \/ rebuild'.state # "switching"
           \/ step'.pc \notin {"recheck", "refresh", "green", "alias", "switched"}
    PROVE  Window'
  BY DEF Window

\* The alias is moved inside the window.
LEMMA WindowMoved ==
    ASSUME Window, UNCHANGED <<fdb, rebuild, indices>>, step.pc \in {"green", "alias"},
           step'.pc \in {"alias", "switched"}
    PROVE  Window'
<1>1. CurrentPages' = CurrentPages BY DEF CurrentPages
<1>2. LeasesEnded' <=> LeasesEnded BY DEF LeasesEnded
<1> QED BY <1>1, <1>2 DEF Window

LEMMA EndSlicePages ==
    ASSUME BaseInv, BaseInv', PageInv, EndSlice, UNCHANGED <<fdb, rebuild, indices, worker>>
    PROVE  PageInv'
<1>1. step'.pc = "idle" BY SliceEnded DEF Positioned
<1>2. Gaps' BY <1>1, GapsMoved DEF PageInv
<1>3. Window' BY <1>1, WindowClosed
<1> QED BY <1>2, <1>3, MovedPages

LEMMA StepPages ==
    ASSUME BaseInv, BaseInv', PageInv, UNCHANGED <<fdb, rebuild, indices, worker>>,
           step'.pc \notin {"lookup", "checked"}, Window'
    PROVE  PageInv'
  BY GapsMoved, MovedPages DEF PageInv

LEMMA ClaimRebuildPages ==
    ASSUME BaseInv, BaseInv', PageInv, ClaimRebuild PROVE PageInv'
<1>1. UNCHANGED <<fdb, rebuild, indices, worker>> /\ rebuild # NoRebuild
  BY DEF ClaimRebuild, engine
<1>2. rebuild.state # "none" BY <1>1 DEF BaseInv, MachineInv, Roles
<1>3. rebuild.state \in {"creating", "copying", "verifying", "switching", "retiring", "failed"}
  BY <1>2, RebuildFacts DEF Replacements
<1>4. PICK pc \in {"pause", "create", "copies", "scan", "documents", "sessions", "restore"} : Step(pc)
  BY <1>3 DEF ClaimRebuild
<1>5. Positioned(pc) BY <1>4, StepsTo
<1>6. step'.pc = pc BY <1>5 DEF Positioned
<1>7. Window' BY <1>6, WindowClosed
<1> QED BY <1>1, <1>6, <1>7, StepPages

LEMMA TargetGreenPages ==
    ASSUME BaseInv, BaseInv', PageInv, TargetGreen PROVE PageInv'
<1>1. UNCHANGED <<fdb, rebuild, indices, worker>> /\ step.pc = "green"
  BY DEF TargetGreen, engine
<1>2. PICK pc \in {"alias", "unblock", "copying"} : Step(pc) BY DEF TargetGreen
<1>3. Positioned(pc) BY <1>2, StepsTo
<1>4. step'.pc = pc BY <1>3 DEF Positioned
<1>5. Window' BY <1>1, <1>4, WindowClosed, WindowMoved DEF PageInv
<1> QED BY <1>1, <1>4, <1>5, StepPages

LEMMA CheckCopiesPages ==
    ASSUME BaseInv, BaseInv', PageInv, CheckCopies PROVE PageInv'
<1>1. UNCHANGED <<fdb, rebuild, indices, worker>> BY DEF CheckCopies, engine
<1>2. CASE EndSlice BY <1>1, <1>2, EndSlicePages
<1>3. ASSUME NEW pc \in {"resume", "verify", "pause"}, Step(pc) PROVE PageInv'
  <2>1. Positioned(pc) BY <1>3, StepsTo
  <2>2. step'.pc = pc BY <2>1 DEF Positioned
  <2>3. Window' BY <2>2, WindowClosed
  <2> QED BY <1>1, <2>2, <2>3, StepPages
<1> QED BY <1>2, <1>3 DEF CheckCopies

\* The check after the pause opens the window: no lease is left, no copy owed.
LEMMA RecheckPages ==
    ASSUME BaseInv, BaseInv', PageInv, RecheckCopies PROVE PageInv'
<1>1. UNCHANGED <<fdb, rebuild, indices, worker>> /\ step.pc = "recheck"
  BY DEF RecheckCopies, engine
<1>2. PICK pc \in {"resume", "refresh"} :
         Step(pc) /\ (pc = "refresh" => fdb.work["copy"] = NoRecord)
  BY DEF RecheckCopies, CopiesPending
<1>3. Positioned(pc) BY <1>2, StepsTo
<1>4. step'.pc = pc BY <1>3 DEF Positioned
<1>5. Window'
  <2>1. rebuild.state = "switching" => rebuild.paused /\ LeasesEnded
    BY <1>1 DEF PageInv, Window
  <2>2. LeasesEnded' <=> LeasesEnded BY <1>1 DEF LeasesEnded
  <2> QED BY <1>1, <1>2, <1>4, <2>1, <2>2 DEF Window
<1> QED BY <1>1, <1>4, <1>5, StepPages

LEMMA MoveAliasPages ==
    ASSUME BaseInv, BaseInv', PageInv, MoveAlias PROVE PageInv'
<1>1. UNCHANGED <<fdb, rebuild, indices, worker>> /\ step.pc = "alias" BY MoveAliasFields
<1>2. PICK pc \in {"switched", "idle"} : Positioned(pc) BY MoveAliasFields
<1>3. step'.pc = pc BY <1>2 DEF Positioned
<1>4. Window' BY <1>1, <1>3, WindowClosed, WindowMoved DEF PageInv
<1> QED BY <1>1, <1>3, <1>4, StepPages

LEMMA RetirePages ==
    ASSUME BaseInv, BaseInv', PageInv, RetireIndexSessions PROVE PageInv'
<1>1. UNCHANGED <<fdb, rebuild, indices, worker>> /\ (EndSlice \/ Step("blockOld"))
  BY DEF RetireIndexSessions, engine
<1>2. CASE EndSlice BY <1>1, <1>2, EndSlicePages
<1>3. CASE Step("blockOld")
  <2>1. Positioned("blockOld") BY <1>3, StepsTo
  <2>2. step'.pc = "blockOld" BY <2>1 DEF Positioned
  <2>3. Window' BY <2>2, WindowClosed
  <2> QED BY <1>1, <2>2, <2>3, StepPages
<1> QED BY <1>1, <1>2, <1>3

\* The order of the issued keys.
LEMMA BeforeTransitive ==
    ASSUME NEW a \in Documents, NEW b \in Documents, NEW c \in Documents, Before(a, b), Before(b, c)
    PROVE  Before(a, c)
<1>1. /\ a[1] \in Nat /\ a[2] \in Nat /\ b[1] \in Nat /\ b[2] \in Nat
      /\ c[1] \in Nat /\ c[2] \in Nat
  BY SearchRebuildAssumption DEF Documents
<1> QED BY <1>1 DEF Before

\* VerifyRebuildDocuments: a gap is among the keys that are left, so the key
\* that is taken is its own or comes before it.
LEMMA DocumentsPages ==
    ASSUME BaseInv, BaseInv', PageInv, VerifyRebuildDocuments PROVE PageInv'
<1> DEFINE rest == {d \in fdb.issued : rebuild.verified = NoDocument \/ Before(rebuild.verified, d)}
<1>1. UNCHANGED <<fdb, rebuild, indices, worker>> /\ step.pc = "documents" /\ Taken
  BY DocumentsFields
<1>2. rebuild.state = "verifying" BY <1>1, RebuildFacts DEF StateAt
<1>3. Window' BY <1>1, <1>2, WindowClosed
<1>4. ASSUME NEW o \in Ordinals, Gap(o)
      PROVE  /\ rebuild.verified = NoDocument \/ Before(rebuild.verified, Page(o))
             /\ Page(o) \in rest
  <2>1. Page(o) \in fdb.issued BY <1>4 DEF PageInv, Served, Gap
  <2>2. rebuild.verified = NoDocument \/ Before(rebuild.verified, Page(o))
    BY <1>2, <1>4 DEF PageInv, Gaps
  <2> QED BY <2>1, <2>2
<1>5. ASSUME NEW o \in Ordinals, Gap(o)
      PROVE  /\ step'.pc = "lookup" =>
                   /\ step'.doc = Page(o) \/ Before(step'.doc, Page(o))
                   /\ step'.done => step'.doc = Page(o)
             /\ step'.pc = "checked" /\ step'.ok => ~step'.done /\ Before(step'.doc, Page(o))
  <2>1. Page(o) \in rest BY <1>4, <1>5
  <2>2. rest # {} BY <2>1
  <2>3. /\ step'.doc \in rest
        /\ \A d \in rest : d = step'.doc \/ Before(step'.doc, d)
        /\ step'.done => rest = {step'.doc}
        /\ \/ step'.pc = "lookup" /\ step'.doc[1] = fdb.rev
           \/ step'.pc = "checked" /\ step'.doc[1] # fdb.rev
    BY <1>1, <2>2 DEF Taken
  <2>4. Page(o)[1] = fdb.rev BY DEF Page
  <2>5. CASE step'.pc = "lookup" BY <2>1, <2>3, <2>5
  <2>6. CASE step'.pc = "checked"
    <3>1. step'.doc # Page(o) BY <2>3, <2>4, <2>6
    <3>2. Before(step'.doc, Page(o)) BY <2>1, <2>3, <3>1
    <3>3. ~step'.done BY <2>1, <2>3, <3>1
    <3> QED BY <2>6, <3>2, <3>3
  <2> QED BY <2>3, <2>5, <2>6
<1>6. \A o : Gap(o)' <=> Gap(o) BY <1>1 DEF Gap, LivePending, CopyPending, Has, Page
<1>7. \A o : Page(o)' = Page(o) BY <1>1 DEF Page
<1>8. Gaps' BY <1>1, <1>2, <1>4, <1>5, <1>6, <1>7 DEF Gaps, Before
<1> QED BY <1>1, <1>3, <1>8, MovedPages

\* LookUp: a gap is not the page that was found.
LEMMA LookUpPages ==
    ASSUME BaseInv, BaseInv', PageInv, LookUp PROVE PageInv'
<1>1. /\ UNCHANGED <<fdb, rebuild, indices, worker>>
      /\ step.pc = "lookup" /\ step'.pc = "checked"
      /\ step'.doc = step.doc /\ step'.done = step.done
      /\ step'.ok => Has(rebuild.target, step.doc)
  BY LookUpFields
<1>2. rebuild.state = "verifying" BY <1>1, RebuildFacts DEF StateAt
<1>3. Window' BY <1>1, <1>2, WindowClosed
<1>4. ASSUME NEW o \in Ordinals, Gap(o)
      PROVE  /\ rebuild.verified = NoDocument \/ Before(rebuild.verified, Page(o))
             /\ step'.ok => ~step'.done /\ Before(step'.doc, Page(o))
  <2>1. /\ rebuild.verified = NoDocument \/ Before(rebuild.verified, Page(o))
        /\ step.doc = Page(o) \/ Before(step.doc, Page(o))
        /\ step.done => step.doc = Page(o)
    BY <1>1, <1>2, <1>4 DEF PageInv, Gaps
  <2>2. step'.ok => step.doc # Page(o) BY <1>1, <1>4 DEF Gap
  <2>3. step'.ok => ~step'.done BY <1>1, <2>1, <2>2
  <2> QED BY <1>1, <2>1, <2>2, <2>3
<1>5. \A o : Gap(o)' <=> Gap(o) BY <1>1 DEF Gap, LivePending, CopyPending, Has, Page
<1>6. \A o : Page(o)' = Page(o) BY <1>1 DEF Page
<1>7. Gaps' BY <1>1, <1>2, <1>4, <1>5, <1>6 DEF Gaps, Before
<1> QED BY <1>1, <1>3, <1>7, MovedPages

\* The slices that change an index, outside the states that mirror.
LEMMA IndexPages ==
    ASSUME BaseInv, BaseInv', PageInv, UNCHANGED <<fdb, rebuild, worker>>, Grows,
           rebuild.state \notin Mirrored
    PROVE  PageInv'
<1>1. \A o : LivePending(o)' <=> LivePending(o) BY DEF LivePending
<1>2. LiveGoesOn /\ SettledGoesOn BY <1>1 DEF LiveGoesOn, SettledGoesOn
<1>3. indices'[fdb.serving].exists BY DEF BaseInv, MachineInv, Standing
<1>4. Served' BY <1>2, <1>3, ServedKept DEF PageInv
<1>5. Gaps' /\ Window' BY DEF Gaps, Window, Mirrored
<1>6. \A w \in Workers : Stored(w)' BY StoredKept, SameWhenKept DEF PageInv
<1>7. \A w \in Workers : LeftToCopy(w)' BY ConstantFacts DEF LeftToCopy, Mirror, Mirrored
<1> QED BY <1>4, <1>5, <1>6, <1>7 DEF PageInv

LEMMA CreatePages ==
    ASSUME BaseInv, BaseInv', PageInv, CreateReplacement PROVE PageInv'
<1>1. /\ UNCHANGED <<fdb, rebuild, worker>>
      /\ step.pc = "create" /\ indices' = [indices EXCEPT ![rebuild.target].exists = TRUE]
  BY DEF CreateReplacement, NewIndex
<1>2. rebuild.state = "creating" /\ rebuild.target \in Indexes BY <1>1, RebuildFacts DEF StateAt
<1>3. PICK t \in Indexes : t = rebuild.target /\ ~Used(t) BY <1>2 DEF Used
<1>4. /\ \A j \in Indexes : j # t => indices'[j].exists = indices[j].exists
      /\ \A j \in Indexes : indices'[j].pages = indices[j].pages /\ indices'[j].seen = indices[j].seen
  BY <1>1, <1>3, ExistsChanged
<1>5. Grows BY <1>3, <1>4 DEF Grows, Has, HasNext, PageInv, Served
<1> QED BY <1>1, <1>2, <1>5, IndexPages DEF Mirrored

LEMMA BlocksPages ==
    ASSUME BaseInv, BaseInv', PageInv, Blocks PROVE PageInv'
<1>1. PICK pc \in {"split", "green", "copying", "delete"} : BlockFields(pc) BY BlocksFields
<1>2. UNCHANGED <<fdb, rebuild, worker>> /\ BlockOnly /\ rebuild.state \notin Mirrored
  BY <1>1 DEF BlockFields, Mirrored
<1>3. Grows BY <1>2 DEF BlockOnly, Grows, Has, HasNext, PageInv, Served
<1> QED BY <1>2, <1>3, IndexPages

LEMMA SplitPages ==
    ASSUME BaseInv, BaseInv', PageInv, SplitIndex PROVE PageInv'
<1>1. /\ UNCHANGED <<fdb, rebuild, worker>> /\ rebuild.state = "creating"
      /\ rebuild.target \in Indexes /\ rebuild.source \in Indexes
      /\ \A j \in Indexes \ {rebuild.target} : indices'[j] = indices[j]
      /\ indices' = indices \/ indices'[rebuild.target] = indices[rebuild.source]
  BY SplitFields
<1>2. PICK t \in Indexes, s \in Indexes : t = rebuild.target /\ s = rebuild.source /\ ~Used(t)
  BY <1>1 DEF Used
<1>3. /\ \A j \in Indexes \ {t} : indices'[j] = indices[j]
      /\ indices' = indices \/ indices'[t] = indices[s]
  BY <1>1, <1>2
<1>4. \A i \in Indexes : \A d \in indices'[i].seen : HasNext(i, d)
  <2>1. SUFFICES ASSUME NEW i \in Indexes PROVE \A d \in indices'[i].seen : HasNext(i, d) OBVIOUS
  <2>2. indices'[i] = indices[i] \/ indices'[i] = indices[s] BY <1>3
  <2> QED BY <1>2, <2>2 DEF PageInv, Served, Has, HasNext
<1>5. Grows BY <1>2, <1>3, <1>4 DEF Grows, Has, HasNext
<1> QED BY <1>1, <1>5, IndexPages DEF Mirrored

LEMMA DeletePages ==
    ASSUME BaseInv, BaseInv', PageInv, DeleteIndex PROVE PageInv'
<1>1. PICK i \in Indexes :
           /\ UNCHANGED <<fdb, rebuild, worker>> /\ rebuild.state \in {"retiring", "failed"}
           /\ indices' = [indices EXCEPT ![i] = AbsentIndex]
  BY DeleteFields
<1>2. AbsentIndex.exists = FALSE /\ AbsentIndex.seen = {} BY DEF AbsentIndex
<1>3. indices'[i] = AbsentIndex /\ \A j \in Indexes \ {i} : indices'[j] = indices[j]
  BY <1>1, EngineTyped
<1>4. Grows BY <1>2, <1>3 DEF Grows, Has, HasNext, PageInv, Served
<1> QED BY <1>1, <1>4, IndexPages DEF Mirrored

\* The refresh of the target: no copy is owed, so that a page without live work
\* is stored there and becomes visible.
LEMMA RefreshTargetPages ==
    ASSUME BaseInv, BaseInv', PageInv, RefreshTarget PROVE PageInv'
<1>1. /\ UNCHANGED <<fdb, rebuild, worker>> /\ step.pc = "refresh"
      /\ rebuild.state = "switching" /\ Positioned("green")
      /\ rebuild.target \in Indexes /\ indices' = Refreshed(rebuild.target)
  BY RefreshTargetFields
<1>2. Grows BY <1>1, GrowsByRefresh DEF PageInv
<1>3. \A o : (LivePending(o)' <=> LivePending(o)) /\ (CopyPending(o)' <=> CopyPending(o))
  BY <1>1 DEF LivePending, CopyPending
<1>4. LiveGoesOn /\ MirrorGoesOn /\ CopiesGoOn /\ SettledGoesOn
  BY <1>1, <1>3 DEF LiveGoesOn, MirrorGoesOn, CopiesGoOn, SettledGoesOn
<1>5. indices'[fdb.serving].exists /\ indices'[rebuild.target].exists
  BY <1>1 DEF BaseInv, MachineInv, Standing, Mirrored
<1>6. Served' BY <1>1, <1>2, <1>4, <1>5, ServedKept DEF PageInv
<1>7. Gaps'
  <2>1. \A o \in Ordinals : ~Gap(o) BY <1>1 DEF PageInv, Gaps
  <2>2. \A o \in Ordinals : ~Gap(o)' BY <1>1, <1>2, <1>4, <1>5, <2>1, GapsClose DEF Mirrored
  <2> QED BY <1>1, <2>2 DEF Gaps
<1>8. Window'
  <2>1. rebuild.paused /\ LeasesEnded /\ fdb.work["copy"] = NoRecord BY <1>1 DEF PageInv, Window
  <2>2. LeasesEnded' BY <1>1, <2>1 DEF LeasesEnded
  <2>3. ASSUME fdb.work["live"] = NoRecord PROVE CurrentPages' \subseteq indices'[rebuild.target].seen
    <3>1. indices'[rebuild.target].seen = {d \in Documents : Has(rebuild.target, d)}
      BY <1>1, RefreshedTyped
    <3>2. \A o \in Ordinals : Has(rebuild.target, Page(o))
      BY <1>1, <2>1, <2>3 DEF PageInv, Gaps, Gap, LivePending, CopyPending
    <3>3. \A o \in Ordinals : Page(o) \in Documents BY PageTyped
    <3>4. \A o \in Ordinals : Page(o) \in indices'[rebuild.target].seen BY <3>1, <3>2, <3>3
    <3> QED BY <1>1, <3>4, CurrentNext
  <2> QED BY <1>1, <2>1, <2>2, <2>3 DEF Window
<1>9. \A w \in Workers : Stored(w)' /\ LeftToCopy(w)'
  BY <1>1, <1>2, <1>4, StoredKept, LeftKept, SameWhenKept DEF PageInv
<1> QED BY <1>6, <1>7, <1>8, <1>9 DEF PageInv

----------------------------------------------------------------------------
\* The pages when the record moves on

\* Copies are only added, and the target is the one that was filled before.
LEMMA AdvancePages ==
    ASSUME BaseInv, BaseInv', PageInv, NEW r, Advances(r), UNCHANGED fdb \/ KeysOwe(0),
           rebuild.state \in Mirrored \cup {"creating"}, Gaps'
    PROVE  PageInv'
<1>1. UNCHANGED <<indices, worker>> /\ step'.pc = "idle" BY DEF Advances, Positioned
<1>2. fdb'.rev = fdb.rev /\ fdb'.gen = fdb.gen /\ fdb'.serving = fdb.serving
      /\ fdb'.issued = fdb.issued /\ fdb'.work["live"] = fdb.work["live"]
      /\ fdb'.cursor["live"] = fdb.cursor["live"]
  BY DEF KeysOwe
<1>3. Grows BY <1>1, GrowsWhenKept DEF PageInv
<1>4. LiveGoesOn /\ SettledGoesOn BY <1>2 DEF LiveGoesOn, SettledGoesOn, LivePending
<1>5. \A o \in Ordinals : CopyPending(o) => CopyPending(o)'
  <2>1. CASE UNCHANGED fdb BY <2>1 DEF CopyPending
  <2>2. CASE KeysOwe(0) BY <2>2, OweGoesOn DEF KeysOwe
  <2> QED BY <2>1, <2>2
<1>6. CopiesGoOn BY <1>5 DEF CopiesGoOn
<1>7. indices'[fdb.serving].exists BY <1>1, ServingStands
<1>8. Served' BY <1>2, <1>3, <1>4, <1>7, ServedKept DEF PageInv
<1>9. Window' BY <1>1, WindowClosed
<1>10. ASSUME NEW w \in Workers PROVE Stored(w)' /\ LeftToCopy(w)'
  <2>1. Same(w) BY <1>1, SameWhenKept
  <2>2. Stored(w)' BY <1>2, <1>3, <2>1, StoredKept DEF PageInv
  <2>3. CASE rebuild.state \in Mirrored
    <3>1. Mirror(rebuild') \in {Mirror(rebuild), NoIndex}
      BY <2>3 DEF Mirror, Mirrored, Advances
    <3> QED BY <1>2, <1>3, <1>6, <2>1, <2>2, <3>1, LeftKept DEF PageInv
  <2>4. CASE rebuild.state = "creating"
    <3>1. worker[w].pc # "idle" /\ worker[w].mirror \in Indexes => worker[w].mirror # rebuild.target
      BY <2>4 DEF BaseInv, WorkInv, Placed, Used
    <3>2. Mirror(rebuild') \in {rebuild.target, NoIndex} BY DEF Mirror, Advances
    <3>3. LeftToCopy(w)' BY <1>1, <3>1, <3>2, ConstantFacts DEF LeftToCopy
    <3> QED BY <2>2, <3>3
  <2> QED BY <2>3, <2>4
<1> QED BY <1>8, <1>9, <1>10 DEF PageInv

\* Owing a copy closes gaps and opens none.
LEMMA AdvanceGaps ==
    ASSUME BaseInv, NEW r, Advances(r), UNCHANGED fdb \/ KeysOwe(0), NEW o \in Ordinals, Gap(o)'
    PROVE  Gap(o) /\ Page(o)' = Page(o)
<1>1. /\ UNCHANGED indices /\ rebuild'.target = rebuild.target BY DEF Advances
<1>2. fdb'.rev = fdb.rev /\ fdb'.gen = fdb.gen /\ fdb'.work["live"] = fdb.work["live"]
      /\ fdb'.cursor["live"] = fdb.cursor["live"]
  BY DEF KeysOwe
<1>3. CopyPending(o) => CopyPending(o)'
  <2>1. CASE UNCHANGED fdb BY <2>1 DEF CopyPending
  <2>2. CASE KeysOwe(0) BY <2>2, OweGoesOn DEF KeysOwe
  <2> QED BY <2>1, <2>2
<1>4. LivePending(o)' <=> LivePending(o) BY <1>2 DEF LivePending
<1>5. Page(o)' = Page(o) BY <1>2 DEF Page
<1> QED BY <1>1, <1>3, <1>4, <1>5 DEF Gap, Has

LEMMA StartCopyingPages ==
    ASSUME BaseInv, BaseInv', PageInv, StartCopying PROVE PageInv'
<1>1. PICK r \in Replacements : Advances(r) /\ r.state = "copying" /\ UNCHANGED fdb
                                /\ rebuild.state = "creating"
  BY StartCopyingFields
<1>2. Gaps' BY <1>1 DEF Gaps, Advances
<1> QED BY <1>1, <1>2, AdvancePages

LEMMA NotGreenPages ==
    ASSUME BaseInv, BaseInv', PageInv, TargetNotGreen \/ SplitFails PROVE PageInv'
<1>1. /\ UNCHANGED <<fdb, indices, worker>>
      /\ \/ EndSlice /\ UNCHANGED rebuild
         \/ \E r \in Replacements : Advances(r) /\ r.state = "failed" /\ UNCHANGED fdb
  BY NotGreenFields
<1>2. CASE EndSlice /\ UNCHANGED rebuild BY <1>1, <1>2, EndSlicePages
<1>3. CASE \E r \in Replacements : Advances(r) /\ r.state = "failed" /\ UNCHANGED fdb
  <2>1. PICK r \in Replacements : Advances(r) /\ r.state = "failed" /\ UNCHANGED fdb BY <1>3
  <2>2. rebuild.state \in {"creating", "switching"}
    BY RebuildFacts DEF TargetNotGreen, SplitFails, StateAt
  <2>3. Gaps' BY <2>1 DEF Gaps, Advances
  <2> QED BY <2>1, <2>2, <2>3, AdvancePages DEF Mirrored
<1> QED BY <1>1, <1>2, <1>3

LEMMA CopyNextPages ==
    ASSUME BaseInv, BaseInv', PageInv, CopyNextNodes PROVE PageInv'
<1>1. PICK r \in Replacements : /\ Advances(r) /\ (UNCHANGED fdb \/ KeysOwe(0))
                                /\ rebuild.state = "copying" /\ r.state = "copying"
  BY CopyNextFields
<1>2. Gaps' BY <1>1 DEF Gaps, Advances
<1> QED BY <1>1, <1>2, AdvancePages DEF Mirrored

\* A switch that goes on, paused or not, has no gap.
LEMMA SwitchingPages ==
    ASSUME BaseInv, BaseInv', PageInv, NEW r, Advances(r), UNCHANGED fdb,
           rebuild.state = "switching", r.state = "switching"
    PROVE  PageInv'
<1>1. rebuild'.state = "switching" BY DEF Advances
<1>2. \A o \in Ordinals : ~Gap(o) BY DEF PageInv, Gaps
<1>3. \A o \in Ordinals : ~Gap(o)' BY <1>2, AdvanceGaps
<1>4. Gaps' BY <1>1, <1>3 DEF Gaps
<1> QED BY <1>4, AdvancePages DEF Mirrored

LEMMA ResumePages ==
    ASSUME BaseInv, BaseInv', PageInv, ResumeClaims PROVE PageInv'
<1>1. PICK r \in Replacements : /\ Advances(r) /\ UNCHANGED fdb
                                /\ rebuild.state = "switching" /\ r.state = "switching"
  BY ResumeFields
<1> QED BY <1>1, SwitchingPages

LEMMA PausePages ==
    ASSUME BaseInv, BaseInv', PageInv, PauseClaims PROVE PageInv'
<1>1. /\ UNCHANGED <<fdb, indices, worker>> /\ rebuild.state \in {"creating", "switching"}
  BY PauseFields
<1>2. CASE \E r \in Replacements : Advances(r) /\ r.state = rebuild.state
  <2>1. PICK r \in Replacements : Advances(r) /\ r.state = rebuild.state BY <1>2
  <2>2. CASE rebuild.state = "switching" BY <1>1, <2>1, <2>2, SwitchingPages
  <2>3. CASE rebuild.state = "creating"
    <3>1. Gaps' BY <2>1, <2>3 DEF Gaps, Advances
    <3> QED BY <1>1, <2>1, <2>3, <3>1, AdvancePages
  <2> QED BY <1>1, <2>2, <2>3
<1>3. CASE EndSlice /\ UNCHANGED rebuild BY <1>1, <1>3, EndSlicePages
<1>4. CASE /\ UNCHANGED rebuild /\ rebuild.paused /\ LeasesEnded
           /\ Positioned(IF rebuild.state = "creating" THEN "block" ELSE "recheck")
  <2>1. step'.pc = (IF rebuild.state = "creating" THEN "block" ELSE "recheck")
    BY <1>4 DEF Positioned
  <2>2. step'.pc \in {"block", "recheck"} BY <2>1
  <2>3. LeasesEnded' BY <1>1, <1>4 DEF LeasesEnded
  <2>4. Window' BY <1>4, <2>2, <2>3 DEF Window
  <2> QED BY <1>1, <1>4, <2>2, <2>4, StepPages
<1> QED BY <1>2, <1>3, <1>4, PauseFields

LEMMA StartVerifyingPages ==
    ASSUME BaseInv, BaseInv', PageInv, StartVerifying PROVE PageInv'
<1>1. PICK r \in Replacements :
              /\ Advances(r) /\ UNCHANGED fdb
              /\ rebuild.state = "copying" /\ r.state = "verifying" /\ r.verified = NoDocument
  BY StartVerifyingFields
<1>2. rebuild' = r /\ step'.pc = "idle" BY <1>1 DEF Advances, Positioned
<1>3. Gaps' BY <1>1, <1>2 DEF Gaps
<1> QED BY <1>1, <1>3, AdvancePages DEF Mirrored

\* completeRebuildVerify: the checkpoint passes no gap, and the last batch
\* leaves none.
LEMMA VerifyPages ==
    ASSUME BaseInv, BaseInv', PageInv, CompleteRebuildVerify PROVE PageInv'
<1>1. PICK r \in Replacements :
              /\ Advances(r) /\ (UNCHANGED fdb \/ KeysOwe(0))
              /\ rebuild.state = "verifying" /\ step.pc = "checked" /\ VerifyAdvance(r)
  BY VerifyFields
<1>2. rebuild' = r /\ step'.pc = "idle" BY <1>1 DEF Advances, Positioned
<1>3. ASSUME NEW o \in Ordinals, Gap(o)'
      PROVE  /\ Page(o)' = Page(o)
             /\ rebuild.verified = NoDocument \/ Before(rebuild.verified, Page(o))
             /\ step.ok => ~step.done /\ Before(step.doc, Page(o))
  <2>1. Gap(o) /\ Page(o)' = Page(o) BY <1>1, <1>3, AdvanceGaps
  <2> QED BY <1>1, <2>1 DEF PageInv, Gaps
<1>4. Gaps'
  <2>1. CASE ~step.ok /\ r = rebuild
    <3>1. rebuild' = rebuild BY <1>2, <2>1
    <3>2. \A o \in Ordinals : Gap(o)' =>
             /\ rebuild'.verified = NoDocument \/ Before(rebuild'.verified, Page(o)')
      BY <1>3, <3>1
    <3> QED BY <1>1, <1>2, <3>1, <3>2 DEF Gaps, Before
  <2>2. CASE step.ok /\ step.done /\ r.state = "switching"
    <3>1. \A o \in Ordinals : ~Gap(o)' BY <1>3, <2>2
    <3> QED BY <1>2, <2>2, <3>1 DEF Gaps
  <2>3. CASE step.ok /\ ~step.done /\ r.state = "verifying" /\ r.verified = step.doc
    <3>1. \A o \in Ordinals : Gap(o)' => Before(rebuild'.verified, Page(o)')
      BY <1>2, <1>3, <2>3
    <3> QED BY <1>2, <2>3, <3>1 DEF Gaps, Before
  <2> QED BY <1>1, <2>1, <2>2, <2>3 DEF VerifyAdvance
<1> QED BY <1>1, <1>4, AdvancePages DEF Mirrored

\* CompleteSwitch: without a gap and without a copy the target has every page
\* that live work has passed, and it was refreshed since.
LEMMA SwitchPages ==
    ASSUME BaseInv, BaseInv', PageInv, CompleteSwitch PROVE PageInv'
<1>1. Switched BY SwitchedFields
<1>2. /\ UNCHANGED <<indices, worker>> /\ step.pc = "switched" /\ rebuild.state = "switching"
      /\ fdb'.rev = fdb.rev /\ fdb'.issued = fdb.issued /\ fdb'.work = fdb.work
      /\ fdb'.cursor = fdb.cursor /\ fdb'.serving = rebuild.target /\ rebuild'.state = "retiring"
  BY <1>1 DEF Switched
<1>3. fdb.work["copy"] = NoRecord BY <1>2 DEF PageInv, Window
<1>4. \A o \in Ordinals : LivePending(o) \/ (Has(rebuild.target, Page(o)) /\ Page(o) \in fdb.issued)
  BY <1>2, <1>3 DEF PageInv, Served, Gaps, Gap, CopyPending
<1>5. \A o : LivePending(o)' <=> LivePending(o) BY <1>2 DEF LivePending
<1>6. \A o : Page(o)' = Page(o) BY <1>2 DEF Page
<1>7. \A o \in Ordinals : LivePending(o)' \/ (Has(fdb.serving, Page(o))' /\ Page(o)' \in fdb'.issued)
  BY <1>2, <1>4, <1>5, <1>6 DEF Has
<1>8. (\A i \in Indexes : \A d \in indices[i].seen : Has(i, d))'
  BY <1>2 DEF PageInv, Served, Has
<1>9. SettledIsSearchable'
  <2>1. CurrentPages' = CurrentPages BY <1>2 DEF CurrentPages
  <2> QED BY <1>2, <2>1 DEF PageInv, Window, SettledIsSearchable
<1>10. Served' BY <1>7, <1>8, <1>9 DEF Served
<1>11. Gaps' /\ Window' BY <1>2 DEF Gaps, Window
<1>12. \A w \in Workers : Stored(w)' BY <1>2 DEF PageInv, Stored, Has
<1>13. \A w \in Workers : LeftToCopy(w)' BY <1>2, ConstantFacts DEF LeftToCopy, Mirror
<1> QED BY <1>10, <1>11, <1>12, <1>13 DEF PageInv

\* A replacement begins or ends: nothing is mirrored, and the same index serves.
LEMMA UnmirroredPages ==
    ASSUME BaseInv, BaseInv', PageInv, UNCHANGED <<indices, worker>>,
           fdb'.rev = fdb.rev, fdb'.serving = fdb.serving, fdb'.issued = fdb.issued,
           fdb'.work = fdb.work, fdb'.cursor = fdb.cursor, rebuild'.state \notin Mirrored
    PROVE  PageInv'
<1>1. Served' BY DEF PageInv, Served, SettledIsSearchable, LivePending, Has, Page, CurrentPages
<1>2. Gaps' /\ Window' BY DEF Gaps, Window, Mirrored
<1>3. \A w \in Workers : Stored(w)' BY DEF PageInv, Stored, Has
<1>4. \A w \in Workers : LeftToCopy(w)' BY ConstantFacts DEF LeftToCopy, Mirror, Mirrored
<1> QED BY <1>1, <1>2, <1>3, <1>4 DEF PageInv

LEMMA FinishPages ==
    ASSUME BaseInv, BaseInv', PageInv, FinishRebuild PROVE PageInv'
<1>1. UNCHANGED <<fdb, indices, worker>> /\ rebuild' = NoRebuild BY FinishFields
<1>2. rebuild'.state \notin Mirrored BY <1>1, NoRebuildFields DEF Mirrored
<1> QED BY <1>1, <1>2, UnmirroredPages

LEMMA BeginPages ==
    ASSUME BaseInv, BaseInv', PageInv, Begun PROVE PageInv'
  BY UnmirroredPages DEF Begun, Mirrored

LEMMA StillPages ==
    ASSUME BaseInv, BaseInv', PageInv, UNCHANGED <<fdb, rebuild, step, indices, worker>>
    PROVE  PageInv'
  BY KeysUnchanged, GrowsWhenKept, QuietSound, SoundKept, SameWhenKept DEF PageInv

LEMMA RebuildStepPages ==
    ASSUME BaseInv, BaseInv', PageInv, RebuildStep PROVE PageInv'
  BY ClaimRebuildPages, CreatePages, PausePages, BlocksPages, SplitPages, TargetGreenPages,
     CheckCopiesPages, RecheckPages, DocumentsPages, LookUpPages, RefreshTargetPages,
     MoveAliasPages, DeletePages, StartCopyingPages, CopyNextPages, ResumePages,
     StartVerifyingPages, VerifyPages, SwitchPages, RetirePages, FinishPages
  DEF RebuildStep, Blocks

LEMMA NextPages ==
    ASSUME BaseInv, BaseInv', SessionInv, PageInv, [Next]_vars PROVE PageInv'
<1>1. CASE WorkSide BY <1>1, WorkSidePages
<1>2. CASE RebuildStep BY <1>2, RebuildStepPages
<1>3. CASE \E mode \in {"full", "split", "restored"} : BeginRebuild(mode)
  BY <1>3, BegunFields, BeginPages
<1>4. CASE TargetNotGreen \/ SplitFails BY <1>4, NotGreenPages
<1>5. CASE StepFails BY <1>5, EndSlicePages DEF StepFails, engine
<1>6. CASE SessionSide BY <1>6, SessionSlice, StillPages
<1>7. CASE UNCHANGED vars BY <1>7, StillPages DEF vars, engine
<1> QED BY <1>1, <1>2, <1>3, <1>4, <1>5, <1>6, <1>7 DEF Next, WorkSide, SessionSide

LEMMA InitPages == ASSUME Init PROVE PageInv
<1> DEFINE first == {<<1, o>> : o \in 0..Pages - 1}
           here == [exists |-> TRUE, blocked |-> FALSE, seen |-> first,
                    pages |-> [d \in Documents |-> IF d[1] = 1 THEN 1 ELSE 0]]
<1>1. fdb.rev = 1 /\ fdb.serving = 0 /\ fdb.issued = first
  BY DEF Init
<1>2. 0 \in Indexes /\ first \subseteq Documents BY SearchRebuildAssumption DEF Indexes, Documents
<1>3. indices = [i \in Indexes |-> IF i # 0 THEN AbsentIndex ELSE here] BY DEF Init
<1>4. \A d \in first : here.pages[d] = 1 BY <1>2
<1>5. here.seen = first /\ AbsentIndex.seen = {} BY DEF AbsentIndex
<1> HIDE DEF here
<1>6. \A i \in Indexes : \A d \in indices[i].seen : Has(i, d)
  BY <1>3, <1>4, <1>5 DEF Has
<1>7. \A o \in Ordinals : Page(o) \in first BY <1>1 DEF Page, Ordinals
<1>8. indices[0].seen = first BY <1>2, <1>3, <1>5
<1>9. \A o \in Ordinals : Has(fdb.serving, Page(o)) /\ Page(o) \in fdb.issued
  BY <1>1, <1>2, <1>6, <1>7, <1>8
<1>10. SettledIsSearchable BY <1>1, <1>7, <1>8, CurrentIs DEF SettledIsSearchable
<1>11. rebuild.state = "none" BY NoRebuildFields DEF Init
<1>12. Gaps /\ Window BY <1>11 DEF Gaps, Window
<1>13. \A w \in Workers : worker[w].pc = "idle" BY DEF Init, Idle
<1>14. \A w \in Workers : Stored(w) /\ LeftToCopy(w) BY <1>13 DEF Stored, LeftToCopy
<1> QED BY <1>6, <1>9, <1>10, <1>12, <1>14 DEF PageInv, Served

----------------------------------------------------------------------------
\* The invariant of the replacement

LEMMA InvariantNext == ASSUME IInv, [Next]_vars PROVE IInv'
<1>1. BaseInv /\ SessionInv /\ PageInv BY DEF IInv
<1>2. BaseInv' /\ SessionInv' BY <1>1, NextBase
<1>3. PageInv' BY <1>1, <1>2, NextPages
<1> QED BY <1>2, <1>3 DEF IInv

\* The inductive invariant: beside BaseHolds, where every page of the current
\* revision is.  CompletePage, RecordMirrorMiss, CompleteRebuildVerify and
\* completeSwitch each leave it as they find it.
THEOREM InvariantHolds == Spec => []IInv
<1>1. Init => IInv BY InitBase, InitPages DEF IInv
<1>2. IInv /\ [Next]_vars => IInv' BY InvariantNext
<1> QED BY <1>1, <1>2, PTL DEF Spec

\* A node without pending live work can be found: every page of its current
\* revision is stored and refreshed in the index that serves, whatever writes to
\* the mirror were missed, abandoned or late, and however often completeSwitch
\* has replaced the index.
THEOREM SettledStaysSearchable == Spec => []SettledIsSearchable
<1>1. IInv => SettledIsSearchable BY DEF IInv, PageInv, Served
<1> QED BY <1>1, InvariantHolds, PTL

\* Verification is complete: when CompleteRebuildVerify lets the switch begin,
\* and as long as it lasts, no page is missing from the replacement that neither
\* live work nor a copy still brings there.
THEOREM SwitchHasNoGap ==
    Spec => [](rebuild.state = "switching" => \A o \in Ordinals : ~Gap(o))
<1>1. IInv => (rebuild.state = "switching" => \A o \in Ordinals : ~Gap(o))
  BY DEF IInv, PageInv, Gaps
<1> QED BY <1>1, InvariantHolds, PTL
============================================================================
