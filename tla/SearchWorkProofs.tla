-------------------------- MODULE SearchWorkProofs --------------------------
(***************************************************************************)
(* The safety properties of SearchWork, for any number of workers, grants  *)
(* and pages, and any number of changes, faults and late requests.         *)
(*                                                                         *)
(* None of them is inductive: a request that reaches the index was decided *)
(* on a reading of the page, a registration, a claim and a generation that *)
(* may all be old.  The invariant says, in layers, what such a decision is *)
(* still worth:                                                            *)
(*   TypeInv     records, checkpoints and slices fit the node's counters;  *)
(*   IndexInv    pages, and requests on their way, against the generation; *)
(*   ContentInv  the pages the live work has done are served, and what a   *)
(*               cleanup has left behind;                                  *)
(*   ToldInv     what dependents were told is the recorded access;         *)
(*   LiveInv     done pages are out of reach of older content;             *)
(*   AccessInv   the recorded access is in every page that is done.        *)
(* Effect groups the actions by what they change, so that each layer is    *)
(* shown once per group.                                                   *)
(***************************************************************************)
EXTENDS SearchWork, FiniteSetTheorems, WellFoundedInduction, TLAPS

-----------------------------------------------------------------------------
(* Documents and their order.                                              *)

LEMMA Constants ==
    /\ MaxRevision \in Nat /\ Pages \in Nat /\ Pages > 0 /\ MaxEvents \in Nat
    /\ NoOwner \notin Workers /\ Home \in Grants /\ NoParent \notin Grants
    /\ NoKeys \notin Grants /\ Gone \notin Grants
    /\ NoParent # NoKeys /\ Gone # NoKeys /\ Gone # NoParent
BY SearchWorkAssumption DEF MaxRevision

LEMMA DocumentShape ==
    /\ \A d \in Documents : /\ d = <<d[1], d[2]>> /\ d[1] \in Nat /\ d[2] \in Nat
                            /\ d[1] > 0 /\ d[1] <= MaxRevision /\ d[2] < Pages
    /\ \A r, o \in Nat : r > 0 /\ r <= MaxRevision /\ o < Pages => <<r, o>> \in Documents
    /\ NoDocument \notin Documents
BY Constants DEF Documents, NoDocument

\* Any two documents are in key order, and nothing is before the first position.
LEMMA KeyOrder ==
    ASSUME NEW d \in Documents \cup {NoDocument}, NEW e \in Documents
    PROVE  /\ Before(NoDocument, e) /\ ~Before(e, e)
           /\ d = e \/ Before(d, e) \/ Before(e, d)
           /\ ~(Before(d, e) /\ Before(e, d))
BY DocumentShape DEF Before, NoDocument

LEMMA KeyOrderTransitive ==
    ASSUME NEW d \in Documents \cup {NoDocument}, NEW e \in Documents, NEW f \in Documents,
           Before(d, e), Before(e, f)
    PROVE  Before(d, f)
BY DocumentShape DEF Before, NoDocument

Less == {p \in Nat \X Nat : p[1] < p[2]}

LEMMA LeastNumber == ASSUME NEW S, S \subseteq Nat, S # {} PROVE \E n \in S : \A m \in S : n <= m
<1>1. Less = OpToRel(<, Nat) BY DEF Less, OpToRel
<1>2. IsWellFoundedOn(Less, Nat) BY <1>1, NatLessThanWellFounded
<1>3. PICK n \in S : \A m \in S : ~ (<<m, n>> \in Less) BY <1>2, WFMin
<1>4. \A m \in S : n <= m
  <2> TAKE m \in S
  <2>1. m \in Nat /\ n \in Nat /\ <<m, n>> \notin Less BY <1>3
  <2>2. <<m, n>> \in Nat \X Nat BY <2>1
  <2> QED BY <2>1, <2>2 DEF Less
<1> QED BY <1>4

\* A set of documents has a first one, so the CHOOSE of Documents finds it.
LEMMA FirstDocument ==
    ASSUME NEW S, S \subseteq Documents, S # {}
    PROVE  \E d \in S : \A e \in S \ {d} : Before(d, e)
<1> DEFINE R == {d[1] : d \in S}
<1>1. R \subseteq Nat /\ R # {} BY DocumentShape
<1>2. PICK r \in R : \A q \in R : r <= q BY <1>1, LeastNumber
<1> DEFINE O == {d[2] : d \in {e \in S : e[1] = r}}
<1>3. O \subseteq Nat /\ O # {} BY <1>2, DocumentShape
<1>4. PICK o \in O : \A p \in O : o <= p BY <1>3, LeastNumber
<1>5. PICK d \in S : d[1] = r /\ d[2] = o BY <1>4
<1>6. \A e \in S \ {d} : Before(d, e)
  <2> TAKE e \in S \ {d}
  <2>1. e[1] \in R /\ r <= e[1] BY <1>2
  <2>2. e[1] = r => o <= e[2] BY <1>4
  <2>3. d = <<d[1], d[2]>> /\ e = <<e[1], e[2]>> /\ e[1] \in Nat /\ e[2] \in Nat /\ r \in Nat /\ o \in Nat
    BY <1>1, <1>3, DocumentShape
  <2> QED BY <1>5, <2>1, <2>2, <2>3 DEF Before
<1> QED BY <1>6

LEMMA DocumentsFinite == ASSUME NEW S, S \subseteq Documents PROVE IsFiniteSet(S)
<1>1. IsFiniteSet(1..MaxRevision) /\ IsFiniteSet(0..Pages - 1) BY Constants, FS_Interval
<1>2. IsFiniteSet(Documents) BY <1>1, FS_Product DEF Documents
<1> QED BY <1>2, FS_Subset

-----------------------------------------------------------------------------
(* What the operators on the search keys do.                               *)

\* s and t differ at most in their claims and deadlines.
SameKeys(s, t) ==
    /\ t.gen = s.gen /\ t.rev = s.rev /\ t.work = s.work /\ t.cursor = s.cursor
    /\ t.issued = s.issued /\ t.access = s.access /\ t.excluded = s.excluded

LEMMA Sentinels ==
    /\ NoRecord \in Records /\ NoCursor \in Checkpoints
    /\ NoClaim \in Leases /\ NoAccess \in AccessStates
    /\ Idle \in Slices /\ AbsentPage \in PageStates
BY Constants DEF NoRecord, Records, NoCursor, Checkpoints, Phases, NoClaim, Leases, NoAccess, AccessStates, Keys,
   Idle, Slices, PCs, Classes, AbsentPage, PageStates

\* clearSearchWork touches one class.
LEMMA WithoutWorkIs ==
    ASSUME NEW s \in SearchKeys, NEW c \in Classes, NEW t, t = WithoutWork(s, c)
    PROVE  /\ t \in SearchKeys
           /\ t.gen = s.gen /\ t.rev = s.rev /\ t.issued = s.issued /\ t.access = s.access /\ t.excluded = s.excluded
           /\ t.work[c] = NoRecord /\ t.cursor[c] = NoCursor
           /\ \A k \in Classes \ {c} : t.work[k] = s.work[k] /\ t.cursor[k] = s.cursor[k]
BY Sentinels DEF WithoutWork, SearchKeys

\* What a plan makes of a class's record and checkpoint
NewRecord(r, plan, current) ==
    IF plan = "remove" THEN NoRecord
    ELSE IF plan = "put" THEN current
    ELSE IF r = NoRecord THEN NoRecord
    ELSE IF plan = "rewrite" THEN [r EXCEPT !.gen = current.gen] ELSE current

NewCursor(r, k, plan) ==
    IF plan \in {"remove", "put"} THEN NoCursor
    ELSE IF r = NoRecord \/ plan = "rewrite" THEN k ELSE NoCursor

\* t is s after a plan for class c.
Planned(s, c, plan, current, t) ==
    /\ t \in SearchKeys
    /\ t.gen = s.gen /\ t.rev = s.rev /\ t.issued = s.issued /\ t.access = s.access /\ t.excluded = s.excluded
    /\ t.work[c] = NewRecord(s.work[c], plan, current)
    /\ t.cursor[c] = NewCursor(s.work[c], s.cursor[c], plan)
    /\ \A k \in Classes \ {c} : t.work[k] = s.work[k] /\ t.cursor[k] = s.cursor[k]

Plans == {"put", "rewrite", "restart", "remove"}

LEMMA ApplyRecordPlanIs ==
    ASSUME NEW s \in SearchKeys, NEW c \in Classes, NEW plan \in Plans, NEW current \in Records
    PROVE  Planned(s, c, plan, current, ApplyRecordPlan(s, c, plan, current))
<1> DEFINE t == ApplyRecordPlan(s, c, plan, current)
<1> SUFFICES /\ t \in SearchKeys
             /\ t.gen = s.gen /\ t.rev = s.rev /\ t.issued = s.issued /\ t.access = s.access /\ t.excluded = s.excluded
             /\ t.work[c] = NewRecord(s.work[c], plan, current)
             /\ t.cursor[c] = NewCursor(s.work[c], s.cursor[c], plan)
             /\ \A k \in Classes \ {c} : t.work[k] = s.work[k] /\ t.cursor[k] = s.cursor[k]
  BY DEF Planned
<1> HIDE DEF t
<1>1. CASE plan = "remove"
  <2>1. t = WithoutWork(s, c) BY <1>1 DEF ApplyRecordPlan, t
  <2> QED BY <1>1, <2>1, WithoutWorkIs DEF NewRecord, NewCursor
<1>2. CASE plan # "remove" /\ plan # "put" /\ s.work[c] = NoRecord
  <2>1. t = s BY <1>2 DEF ApplyRecordPlan, t
  <2> QED BY <1>2, <2>1 DEF NewRecord, NewCursor
<1>3. CASE plan = "rewrite" /\ s.work[c] # NoRecord
  <2>1. t = [s EXCEPT !.work[c] = [s.work[c] EXCEPT !.gen = current.gen]] BY <1>3 DEF ApplyRecordPlan, t
  <2>2. s.work[c] \in Records /\ [s.work[c] EXCEPT !.gen = current.gen] \in Records BY DEF SearchKeys, Records
  <2>3. /\ t \in SearchKeys
        /\ t.gen = s.gen /\ t.rev = s.rev /\ t.issued = s.issued /\ t.access = s.access /\ t.excluded = s.excluded
        /\ t.cursor = s.cursor /\ t.work = [s.work EXCEPT ![c] = [s.work[c] EXCEPT !.gen = current.gen]]
    BY <2>1, <2>2 DEF SearchKeys
  <2>4. t.work[c] = [s.work[c] EXCEPT !.gen = current.gen] /\ \A k \in Classes \ {c} : t.work[k] = s.work[k]
    BY <2>3 DEF SearchKeys
  <2> QED BY <1>3, <2>3, <2>4 DEF NewRecord, NewCursor
<1>4. CASE plan = "put" \/ (plan = "restart" /\ s.work[c] # NoRecord)
  <2>1. t = [s EXCEPT !.work[c] = current, !.cursor[c] = NoCursor] BY <1>4 DEF ApplyRecordPlan, t
  <2>2. /\ t \in SearchKeys
        /\ t.gen = s.gen /\ t.rev = s.rev /\ t.issued = s.issued /\ t.access = s.access /\ t.excluded = s.excluded
        /\ t.cursor = [s.cursor EXCEPT ![c] = NoCursor] /\ t.work = [s.work EXCEPT ![c] = current]
    <3>1. /\ s.work \in [Classes -> Records] /\ s.cursor \in [Classes -> Checkpoints]
          /\ [s.work EXCEPT ![c] = current] \in [Classes -> Records]
          /\ [s.cursor EXCEPT ![c] = NoCursor] \in [Classes -> Checkpoints]
      BY Sentinels DEF SearchKeys
    <3>2. t = [[s EXCEPT !.work = [s.work EXCEPT ![c] = current]] EXCEPT !.cursor = [s.cursor EXCEPT ![c] = NoCursor]]
      BY <2>1 DEF SearchKeys
    <3> HIDE <2>1
    <3> QED BY <3>1, <3>2 DEF SearchKeys
  <2>3. /\ t.work[c] = current /\ t.cursor[c] = NoCursor
        /\ \A k \in Classes \ {c} : t.work[k] = s.work[k] /\ t.cursor[k] = s.cursor[k]
    BY <2>2 DEF SearchKeys
  <2> QED BY <1>4, <2>2, <2>3 DEF NewRecord, NewCursor
<1> QED BY <1>1, <1>2, <1>3, <1>4 DEF Plans

\* The revision and the record that scheduleSearchChange writes
NewRevision(s, change) == IF change \in {"content", "exclusion", "repair"} THEN s.gen + 1 ELSE s.rev
Changed(s, change) == [gen |-> s.gen + 1, rev |-> NewRevision(s, change), deleted |-> change = "deletion"]

LEMMA ScheduleIs ==
    ASSUME NEW s \in SearchKeys, s.access.found, NEW asked \in {"content", "access", "deletion", "exclusion"},
           NEW change, change = Adjusted(s, asked), NEW t, t = ScheduleSearchChange(s, asked)
    PROVE  /\ t \in SearchKeys /\ change \in {"content", "access", "deletion", "exclusion", "repair"}
           /\ t.gen = s.gen + 1 /\ t.rev = NewRevision(s, change)
           /\ t.issued = s.issued /\ t.access = s.access
           /\ t.excluded = (s.excluded /\ change # "deletion")
           /\ \A c \in Classes :
                /\ t.work[c] = NewRecord(s.work[c], Plan[change][c], Changed(s, change))
                /\ t.cursor[c] = NewCursor(s.work[c], s.cursor[c], Plan[change][c])
<1>1. change \in {"content", "access", "deletion", "exclusion", "repair"} BY DEF Adjusted
<1> DEFINE cur == Changed(s, change)
<1> DEFINE s0 == [s EXCEPT !.gen = s.gen + 1, !.rev = NewRevision(s, change), !.excluded = @ /\ change # "deletion"]
<1> DEFINE s1 == ApplyRecordPlan(s0, "live", Plan[change].live, cur)
<1> DEFINE s2 == ApplyRecordPlan(s1, "access", Plan[change].access, cur)
<1> DEFINE s3 == ApplyRecordPlan(s2, "cleanup", Plan[change].cleanup, cur)
<1>2. cur \in Records BY <1>1 DEF Changed, NewRevision, Records, SearchKeys
<1>3. /\ s0 \in SearchKeys /\ s0.gen = s.gen + 1 /\ s0.rev = NewRevision(s, change)
      /\ s0.issued = s.issued /\ s0.access = s.access /\ s0.excluded = (s.excluded /\ change # "deletion")
      /\ s0.work = s.work /\ s0.cursor = s.cursor
  <2>1. NewRevision(s, change) \in Nat /\ s.gen + 1 \in Nat BY DEF SearchKeys, NewRevision
  <2>2. (s.excluded /\ change # "deletion") \in BOOLEAN OBVIOUS
  <2> DEFINE x == (s.excluded /\ change # "deletion")
  <2>3. s0 = [s EXCEPT !.gen = s.gen + 1, !.rev = NewRevision(s, change), !.excluded = x] OBVIOUS
  <2> HIDE DEF x, s0
  <2>4. /\ s0 \in SearchKeys /\ s0.gen = s.gen + 1 /\ s0.rev = NewRevision(s, change)
        /\ s0.issued = s.issued /\ s0.access = s.access /\ s0.excluded = x
        /\ s0.work = s.work /\ s0.cursor = s.cursor
    <3>1. x \in BOOLEAN BY <2>2 DEF x
    <3> QED BY <2>1, <2>3, <3>1 DEF SearchKeys
  <2> QED BY <2>4 DEF x
<1>4. /\ {"live", "access", "cleanup"} \subseteq Classes
      /\ Plan[change]["live"] \in Plans /\ Plan[change]["access"] \in Plans /\ Plan[change]["cleanup"] \in Plans
  BY <1>1 DEF Plan, Plans, Classes
<1>6. t = IF change = "deletion" THEN s3 ELSE InitializeAccess(s3)
  BY DEF ScheduleSearchChange, NewRevision, Changed
<1> HIDE DEF cur, s0
<1>7. Planned(s0, "live", Plan[change]["live"], cur, s1) BY <1>2, <1>3, <1>4, ApplyRecordPlanIs
<1> HIDE DEF s1
<1>8. Planned(s1, "access", Plan[change]["access"], cur, s2)
  <2>1. s1 \in SearchKeys BY <1>7 DEF Planned
  <2> QED BY <1>2, <1>4, <2>1, ApplyRecordPlanIs
<1> HIDE DEF s2
<1>9. Planned(s2, "cleanup", Plan[change]["cleanup"], cur, s3)
  <2>1. s2 \in SearchKeys BY <1>8 DEF Planned
  <2> QED BY <1>2, <1>4, <2>1, ApplyRecordPlanIs
<1> HIDE DEF s3
<1>10. t = s3 BY <1>3, <1>6, <1>7, <1>8, <1>9 DEF InitializeAccess, Planned
<1>11. /\ t.work["live"] = NewRecord(s.work["live"], Plan[change]["live"], cur)
       /\ t.work["access"] = NewRecord(s.work["access"], Plan[change]["access"], cur)
       /\ t.work["cleanup"] = NewRecord(s.work["cleanup"], Plan[change]["cleanup"], cur)
       /\ t.cursor["live"] = NewCursor(s.work["live"], s.cursor["live"], Plan[change]["live"])
       /\ t.cursor["access"] = NewCursor(s.work["access"], s.cursor["access"], Plan[change]["access"])
       /\ t.cursor["cleanup"] = NewCursor(s.work["cleanup"], s.cursor["cleanup"], Plan[change]["cleanup"])
  BY <1>3, <1>7, <1>8, <1>9, <1>10 DEF Classes, Planned
<1>12. \A c \in Classes : /\ t.work[c] = NewRecord(s.work[c], Plan[change][c], Changed(s, change))
                          /\ t.cursor[c] = NewCursor(s.work[c], s.cursor[c], Plan[change][c])
  BY <1>11 DEF Classes, cur
<1> QED BY <1>1, <1>3, <1>7, <1>8, <1>9, <1>10, <1>12 DEF Planned

\* The rest of the operators.
LEMMA ScheduleDeletedFanoutIs ==
    ASSUME NEW s \in SearchKeys, NEW t, t = ScheduleDeletedFanout(s)
    PROVE  /\ t \in SearchKeys
           /\ t.gen = s.gen /\ t.rev = s.rev /\ t.issued = s.issued /\ t.access = s.access /\ t.excluded = s.excluded
           /\ t.work["access"] = [gen |-> s.gen, rev |-> s.rev, deleted |-> TRUE]
           /\ t.cursor["access"].gen = s.gen /\ t.cursor["access"].phase = "dependents"
           /\ \A k \in Classes \ {"access"} : t.work[k] = s.work[k] /\ t.cursor[k] = s.cursor[k]
<1> DEFINE r == [gen |-> s.gen, rev |-> s.rev, deleted |-> TRUE]
           k == [NoCursor EXCEPT !.gen = s.gen, !.rev = s.rev, !.phase = "dependents"]
<1>1. r \in Records /\ s.work \in [Classes -> Records] /\ s.cursor \in [Classes -> Checkpoints] /\ "access" \in Classes
  BY DEF SearchKeys, Records, Classes
<1>2. k \in Checkpoints /\ k.gen = s.gen /\ k.phase = "dependents"
  BY Sentinels DEF SearchKeys, Checkpoints, NoCursor, Phases
<1>3. t = [s EXCEPT !.work = [s.work EXCEPT !["access"] = r], !.cursor = [s.cursor EXCEPT !["access"] = k]]
  BY DEF ScheduleDeletedFanout, SearchKeys
<1> HIDE DEF r, k
<1>4. [s.work EXCEPT !["access"] = r] \in [Classes -> Records] /\ [s.cursor EXCEPT !["access"] = k] \in [Classes -> Checkpoints]
  BY <1>1, <1>2
<1>5. /\ t \in SearchKeys
      /\ t.gen = s.gen /\ t.rev = s.rev /\ t.issued = s.issued /\ t.access = s.access /\ t.excluded = s.excluded
      /\ t.work = [s.work EXCEPT !["access"] = r] /\ t.cursor = [s.cursor EXCEPT !["access"] = k]
  BY <1>3, <1>4 DEF SearchKeys
<1>6. /\ t.work["access"] = r /\ t.cursor["access"] = k
      /\ \A c \in Classes \ {"access"} : t.work[c] = s.work[c] /\ t.cursor[c] = s.cursor[c]
  BY <1>1, <1>2, <1>5
<1> QED BY <1>2, <1>5, <1>6 DEF r

LEMMA FinishDeletedIs ==
    ASSUME NEW s \in SearchKeys, NEW c \in {"access", "cleanup"}, NEW t, t = FinishDeleted(s, c),
           NEW o, o = IF c = "access" THEN "cleanup" ELSE "access"
    PROVE  /\ t \in SearchKeys /\ t.issued = s.issued /\ t.excluded = s.excluded
           /\ s.work[o] # NoRecord =>
                /\ t.gen = s.gen /\ t.rev = s.rev /\ t.access = s.access
                /\ t.work[c] = NoRecord /\ t.cursor[c] = NoCursor
                /\ \A k \in Classes \ {c} : t.work[k] = s.work[k] /\ t.cursor[k] = s.cursor[k]
           /\ s.work[o] = NoRecord =>
                /\ t.gen = 0 /\ t.rev = 0
                /\ \A k \in Classes : t.work[k] = NoRecord /\ t.cursor[k] = NoCursor
<1> DEFINE s1 == WithoutWork(s, c)
           s2 == WithoutWork(s1, "live")
           s3 == WithoutWork(s2, o)
<1>0. c \in Classes /\ o \in Classes /\ "live" \in Classes /\ c # o /\ Classes = {"live", c, o} BY DEF Classes
<1>1. t = IF s1.work[o] # NoRecord THEN s1 ELSE [s3 EXCEPT !.gen = 0, !.rev = 0, !.access = NoAccess]
  BY DEF FinishDeleted
<1>2. /\ s1 \in SearchKeys
      /\ s1.gen = s.gen /\ s1.rev = s.rev /\ s1.issued = s.issued /\ s1.access = s.access /\ s1.excluded = s.excluded
      /\ s1.work[c] = NoRecord /\ s1.cursor[c] = NoCursor
      /\ \A k \in Classes \ {c} : s1.work[k] = s.work[k] /\ s1.cursor[k] = s.cursor[k]
  BY <1>0, WithoutWorkIs
<1> HIDE DEF s1
<1>3. /\ s2 \in SearchKeys /\ s2.issued = s1.issued /\ s2.excluded = s1.excluded
      /\ s2.work["live"] = NoRecord /\ s2.cursor["live"] = NoCursor
      /\ \A k \in Classes \ {"live"} : s2.work[k] = s1.work[k] /\ s2.cursor[k] = s1.cursor[k]
  BY <1>0, <1>2, WithoutWorkIs
<1> HIDE DEF s2
<1>4. /\ s3 \in SearchKeys /\ s3.issued = s2.issued /\ s3.excluded = s2.excluded
      /\ s3.work[o] = NoRecord /\ s3.cursor[o] = NoCursor
      /\ \A k \in Classes \ {o} : s3.work[k] = s2.work[k] /\ s3.cursor[k] = s2.cursor[k]
  BY <1>0, <1>3, WithoutWorkIs
<1> HIDE DEF s3
<1>5. CASE s.work[o] # NoRecord
  <2>1. t = s1 BY <1>0, <1>1, <1>2, <1>5
  <2> QED BY <1>2, <1>5, <2>1
<1>6. CASE s.work[o] = NoRecord
  <2>1. t = [s3 EXCEPT !.gen = 0, !.rev = 0, !.access = NoAccess] BY <1>0, <1>1, <1>2, <1>6
  <2>2. /\ t \in SearchKeys /\ t.issued = s3.issued /\ t.excluded = s3.excluded /\ t.gen = 0 /\ t.rev = 0
        /\ t.work = s3.work /\ t.cursor = s3.cursor
    <3>1. NoAccess \in AccessStates /\ 0 \in Nat BY Sentinels
    <3> HIDE <1>1
    <3> QED BY <1>4, <2>1, <3>1 DEF SearchKeys
  <2>3. \A k \in Classes : t.work[k] = NoRecord /\ t.cursor[k] = NoCursor
    BY <1>0, <1>2, <1>3, <1>4, <2>2
  <2> QED BY <1>2, <1>3, <1>4, <1>6, <2>2, <2>3
<1> QED BY <1>5, <1>6

\* trackRegisteredAccess changes the tracked page access only.
LEMMA TrackedIs ==
    ASSUME NEW a \in AccessStates, NEW k \in Grants, NEW b, b = Tracked(a, k)
    PROVE  /\ b \in AccessStates /\ b.found = a.found /\ b.keys = a.keys /\ b.pages = a.pages
           /\ b.dependents = a.dependents
           /\ b.tracked => a.tracked /\ b.page = k /\ a.page \in {NoKeys, k}
           /\ b.page \in {NoKeys, k, a.page}
<1>1. NoKeys \in Keys /\ k \in Keys /\ k # NoKeys BY Constants DEF Keys
<1>2. CASE ~a.tracked BY <1>2 DEF Tracked, AccessStates
<1>3. CASE a.tracked /\ a.page = NoKeys
  <2>1. b = [a EXCEPT !.page = k] BY <1>1, <1>3 DEF Tracked
  <2> QED BY <1>1, <1>3, <2>1 DEF AccessStates
<1>4. CASE a.tracked /\ a.page = k
  <2>1. b = a BY <1>1, <1>4 DEF Tracked
  <2> QED BY <1>4, <2>1 DEF AccessStates
<1>5. CASE a.tracked /\ a.page # k /\ a.page # NoKeys
  <2>1. b = [a EXCEPT !.page = NoKeys, !.tracked = FALSE] BY <1>5 DEF Tracked
  <2> QED BY <1>1, <2>1 DEF AccessStates
<1> QED BY <1>2, <1>3, <1>4, <1>5

-----------------------------------------------------------------------------
(* The counters, and what a slice may hold.                                *)

Busy(w) == worker[w].pc # "idle"

\* Pending work is of the node's generation, live work also of its revision, and
\* only the cleanup and the fan-out of a deletion are left of a deleted node.
RecordGood(c) ==
    Pending(c) =>
        /\ fdb.work[c].gen = fdb.gen /\ fdb.gen > 0
        /\ fdb.work[c].rev > 0 /\ fdb.work[c].rev <= fdb.rev
        /\ fdb.work[c].deleted <=> ~present
        /\ c = "live" => present /\ fdb.work[c].rev = fdb.rev

\* A live checkpoint goes through the pages and then waits for the refresh.
LiveCursorGood ==
    \/ fdb.cursor["live"].phase = "pages" /\ fdb.cursor["live"].ord < Pages
    \/ fdb.cursor["live"].phase = "refresh" /\ fdb.cursor["live"].ord = Pages

\* A change costs two generations at most: its own, and an exclusion that ends
\* the work it caused.
Owed == IF Pending("live") \/ Pending("access") THEN 1 ELSE 0

\* The access work of a deleted node is its fan-out.
FanoutLeft == fdb.cursor["access"].gen = fdb.gen /\ fdb.cursor["access"].phase = "dependents"

KeysGood ==
    /\ present => fdb.gen > 0 /\ fdb.access.found
    /\ ~present => ~fdb.excluded
    /\ fdb.rev <= fdb.gen /\ (fdb.gen > 0 => fdb.rev > 0)
    /\ fdb.gen + Owed <= 3 + 2 * events
    /\ LiveCursorGood
    /\ ~present /\ Pending("access") => FanoutLeft
    /\ \A c \in Classes : RecordGood(c) /\ fdb.cursor[c].gen <= fdb.gen

PagePCs == {"register", "probe", "send", "complete"}
AccessPCs == {"begin", "documents", "update", "complete"}

\* What a slice x may believe of its item: nothing newer than the node has.
ItemGood(x) ==
    /\ x.gen > 0 /\ x.rev > 0
    /\ fdb.gen > 0 => x.gen <= fdb.gen /\ x.rev <= fdb.rev
    /\ x.deleted => ~present
    /\ x.gen = fdb.gen => (x.deleted <=> ~present)
    /\ x.gen = fdb.gen /\ x.class = "live" => x.rev = fdb.rev

\* The steps of each class.
PCGood(x) ==
    /\ x.pc \in {"content", "register", "refresh"} => x.class = "live"
    /\ x.pc \in {"compile", "begin", "update", "dependents"} => x.class = "access"
    /\ x.pc = "documents" => x.class # "live"
    /\ x.pc \in {"probe", "send"} => x.class # "access"
    /\ x.pc = "exclude" => x.class # "cleanup"
    /\ x.class = "access" /\ x.gen = fdb.gen /\ ~present => x.pc \in {"dependents", "yield"}

\* The page at hand: of the claimed revision, issued, or older.
PageAtHand(x) ==
    /\ x.pc = "content" => x.ord < Pages
    /\ x.class = "live" /\ x.pc \in PagePCs =>
         /\ x.ord < Pages /\ x.doc = <<x.rev, x.ord>>
         /\ x.doc \in Documents /\ x.keys \in Grants
    /\ x.class = "access" /\ x.pc \in AccessPCs => x.keys \in Grants
    /\ x.pc = "update" => x.doc \in Documents
    /\ x.class = "cleanup" /\ x.pc \in {"probe", "send", "complete"} =>
         \/ x.pc = "complete" /\ x.doc = NoDocument
         \/ x.doc \in Documents /\ (x.deleted \/ x.doc[1] < x.rev)

SliceGood(x) == x.pc # "idle" => ItemGood(x) /\ PCGood(x) /\ PageAtHand(x)

WorkersGood == \A w \in Workers : SliceGood(worker[w])

TypeInv == TypeOK /\ KeysGood /\ WorkersGood

-----------------------------------------------------------------------------
(* The steps, by what they change.                                         *)

\* w gives up its item, at once or with its next step.
Rests(w) == \/ worker' = [worker EXCEPT ![w] = Idle]
            \/ worker' = [worker EXCEPT ![w] = [worker[w] EXCEPT !.pc = "yield"]]

\* Requests on their way to the index
Sending == {w \in Workers : worker[w].pc \in {"send", "update"}}

\* Claims, deadlines and abandoned requests change, the node's work does not.
Quiet ==
    /\ fdb' \in SearchKeys /\ SameKeys(fdb, fdb')
    /\ UNCHANGED <<present, grant, used, told, index>>
    /\ events' \in events..MaxEvents
    /\ UNCHANGED worker \/ \E w \in Workers : Busy(w) /\ Rests(w)
    /\ late' \subseteq late \cup {Request(w) : w \in Sending}

LEMMA EventIs == ASSUME TypeOK, Event PROVE events' \in events..MaxEvents /\ events' = events + 1
BY Constants DEF TypeOK, Event

LEMMA ClaimIs ==
    ASSUME NEW s \in SearchKeys, NEW c \in Classes, NEW x \in Leases, NEW t, t = [s EXCEPT !.claim[c] = x]
    PROVE  t \in SearchKeys /\ SameKeys(s, t)
BY DEF SearchKeys, SameKeys

LEMMA HeldIs ==
    ASSUME NEW s \in SearchKeys, NEW h, h \subseteq Documents, NEW t, t = [s EXCEPT !.held = h]
    PROVE  t \in SearchKeys /\ SameKeys(s, t)
BY DEF SearchKeys, SameKeys

LEMMA ReleasedIs ==
    ASSUME TypeOK, NEW w \in Workers
    PROVE  Released(fdb, w) \in SearchKeys /\ SameKeys(fdb, Released(fdb, w))
<1>1. fdb \in SearchKeys /\ worker[w] \in Slices BY DEF TypeOK
<1>2. CASE ~Verified(w) BY <1>1, <1>2 DEF Released, SameKeys
<1>3. CASE Verified(w)
  <2>1. worker[w].class \in Classes /\ worker[w].gen \in Nat BY <1>1 DEF Slices
  <2>2. [owner |-> NoOwner, gen |-> worker[w].gen, live |-> TRUE] \in Leases BY <2>1 DEF Leases
  <2>3. Released(fdb, w) = [fdb EXCEPT !.claim[worker[w].class] = [owner |-> NoOwner, gen |-> worker[w].gen, live |-> TRUE]]
    BY <1>3 DEF Released
  <2> QED BY <1>1, <2>1, <2>2, <2>3, ClaimIs
<1> QED BY <1>2, <1>3

LEMMA SameKeysSelf == ASSUME TypeOK PROVE fdb \in SearchKeys /\ SameKeys(fdb, fdb) /\ events \in events..MaxEvents
BY Constants DEF TypeOK, SameKeys

LEMMA EndsIs == ASSUME NEW w \in Workers, Ends(w) PROVE Rests(w)
BY DEF Ends, Rests

LEMMA YieldsIs == ASSUME TypeOK, NEW w \in Workers, Goes(w, "yield") PROVE Rests(w)
BY DEF TypeOK, Goes, Rests

\* What a step does that neither moves the work on nor touches the index.
LEMMA LeaseLapsesIs == ASSUME TypeOK, NEW c \in Classes, LeaseLapses(c) PROVE Quiet
<1>1. fdb' = [fdb EXCEPT !.claim[c].live = FALSE] /\ UNCHANGED <<source, told, index, late, worker>>
  BY DEF LeaseLapses
<1>2. fdb \in SearchKeys /\ fdb.claim[c] \in Leases BY DEF TypeOK, SearchKeys
<1>3. [fdb.claim[c] EXCEPT !.live = FALSE] \in Leases BY <1>2 DEF Leases
<1>4. fdb' = [fdb EXCEPT !.claim[c] = [fdb.claim[c] EXCEPT !.live = FALSE]] BY <1>1, <1>2
<1>5. fdb' \in SearchKeys /\ SameKeys(fdb, fdb') BY <1>2, <1>3, <1>4, ClaimIs
<1>6. events' \in events..MaxEvents BY EventIs, SameKeysSelf DEF LeaseLapses, Fault
<1> QED BY <1>1, <1>5, <1>6 DEF Quiet, source

LEMMA PendingExpiresIs == ASSUME TypeOK, NEW d \in fdb.held, PendingExpires(d) PROVE Quiet
<1>1. fdb' = [fdb EXCEPT !.held = @ \ {d}] /\ UNCHANGED <<source, told, index, late, worker, events>>
  BY DEF PendingExpires
<1>2. fdb \in SearchKeys /\ fdb.held \subseteq Documents BY DEF TypeOK, SearchKeys
<1>3. fdb' = [fdb EXCEPT !.held = fdb.held \ {d}] BY <1>1, <1>2
<1>4. fdb' \in SearchKeys /\ SameKeys(fdb, fdb') BY <1>2, <1>3, HeldIs
<1> QED BY <1>1, <1>4, SameKeysSelf DEF Quiet, source

LEMMA RestingSteps ==
    ASSUME TypeOK, WorkersGood, NEW w \in Workers,
           Yield(w) \/ BudgetSpent(w) \/ CallFails(w) \/ Crash(w) \/ TimesOut(w) \/ ConflictsExhausted(w)
    PROVE  Quiet
<1>0. /\ worker[w] \in Slices /\ fdb \in SearchKeys /\ SameKeys(fdb, fdb) /\ events \in events..MaxEvents
      /\ worker[w].class \in Classes
  BY SameKeysSelf DEF TypeOK, Slices
<1>1. CASE Yield(w)
  <2>1. Busy(w) /\ Rests(w) /\ UNCHANGED <<source, told, index, late, events>> BY <1>1, EndsIs DEF Yield, Busy
  <2>2. fdb' \in SearchKeys /\ SameKeys(fdb, fdb')
    <3>1. CASE Verified(w)
      <4>1. fdb' = [fdb EXCEPT !.claim[worker[w].class] = NoClaim] BY <1>1, <3>1 DEF Yield
      <4> QED BY <1>0, <4>1, ClaimIs, Sentinels
    <3>2. CASE ~Verified(w) BY <1>0, <1>1, <3>2 DEF Yield
    <3> QED BY <3>1, <3>2
  <2> QED BY <1>0, <2>1, <2>2 DEF Quiet, source
<1>2. CASE BudgetSpent(w)
  <2>1. Busy(w) /\ Rests(w) /\ UNCHANGED <<source, fdb, told, index, late>> BY <1>2, YieldsIs DEF BudgetSpent, Busy
  <2>2. events' \in events..MaxEvents BY <1>2, EventIs DEF BudgetSpent, Fault
  <2> QED BY <1>0, <2>1, <2>2 DEF Quiet, source
<1>3. CASE CallFails(w)
  <2>1. Busy(w) /\ Rests(w) /\ UNCHANGED <<source, told, index, late>> BY <1>3, EndsIs DEF CallFails, Busy
  <2>2. events' \in events..MaxEvents BY <1>3, EventIs DEF CallFails, Fault
  <2>3. fdb' \in SearchKeys /\ SameKeys(fdb, fdb') BY <1>3, ReleasedIs DEF CallFails
  <2> QED BY <2>1, <2>2, <2>3 DEF Quiet, source
<1>4. CASE Crash(w)
  <2>1. Busy(w) /\ Rests(w) /\ UNCHANGED <<source, fdb, told, index>> BY <1>4, EndsIs DEF Crash, Busy
  <2>2. events' \in events..MaxEvents BY <1>4, EventIs DEF Crash, Fault
  <2>3. late' \subseteq late \cup {Request(x) : x \in Sending} BY <1>4 DEF Crash, Sending
  <2> QED BY <1>0, <2>1, <2>2, <2>3 DEF Quiet, source
<1>5. CASE TimesOut(w)
  <2>1. Busy(w) /\ Rests(w) /\ UNCHANGED <<source, told, index>> BY <1>5, EndsIs DEF TimesOut, Busy
  <2>2. events' \in events..MaxEvents BY <1>5, EventIs DEF TimesOut, Fault
  <2>3. late' \subseteq late \cup {Request(x) : x \in Sending} BY <1>5 DEF TimesOut, Sending
  <2> DEFINE s == Released(fdb, w)
  <2>4. s \in SearchKeys /\ SameKeys(fdb, s) BY ReleasedIs
  <2>5. fdb' = IF worker[w].class = "live" /\ Verified(w) THEN [s EXCEPT !.held = @ \cup {worker[w].doc}] ELSE s
    BY <1>5 DEF TimesOut
  <2> HIDE DEF s
  <2>6. worker[w].doc \in Documents => [s EXCEPT !.held = s.held \cup {worker[w].doc}] \in SearchKeys
                                       /\ SameKeys(s, [s EXCEPT !.held = s.held \cup {worker[w].doc}])
    <3>1. s.held \subseteq Documents BY <2>4 DEF SearchKeys
    <3>2. worker[w].doc \in Documents => s.held \cup {worker[w].doc} \subseteq Documents BY <3>1
    <3> QED BY <2>4, <3>2, HeldIs
  <2>7. worker[w].doc \in Documents
    <3>1. worker[w].pc \in {"send", "update"} BY <1>5 DEF TimesOut
    <3>2. PCGood(worker[w]) /\ PageAtHand(worker[w]) BY <3>1 DEF WorkersGood, SliceGood
    <3> QED BY <1>0, <3>1, <3>2 DEF PCGood, PageAtHand, Classes, PagePCs
  <2>8. fdb' \in SearchKeys /\ SameKeys(fdb, fdb') BY <2>4, <2>5, <2>6, <2>7 DEF SameKeys
  <2> QED BY <2>1, <2>2, <2>3, <2>8 DEF Quiet, source
<1>6. CASE ConflictsExhausted(w)
  <2>1. Busy(w) /\ Rests(w) /\ UNCHANGED <<source, told, index, late, events>> BY <1>6, EndsIs DEF ConflictsExhausted, Busy
  <2>2. fdb' \in SearchKeys /\ SameKeys(fdb, fdb') BY <1>6, ReleasedIs DEF ConflictsExhausted
  <2> QED BY <1>0, <2>1, <2>2 DEF Quiet, source
<1> QED BY <1>1, <1>2, <1>3, <1>4, <1>5, <1>6

\* The invariant of all slices in the next state, slice by slice.
LEMMA SlicesNext ==
    ASSUME worker' \in [Workers -> Slices], \A w \in Workers : \A y \in Slices : y = worker'[w] => SliceGood(y)'
    PROVE  WorkersGood'
<1> SUFFICES ASSUME NEW w \in Workers PROVE SliceGood(worker[w])' BY DEF WorkersGood
<1>1. PICK y \in Slices : y = worker'[w] OBVIOUS
<1>2. SliceGood(y)' BY <1>1
<1> QED BY <1>1, <1>2 DEF SliceGood, ItemGood, PCGood, PageAtHand

\* w goes on with slice x, the node's work stays as it is.
Moves(w, x) ==
    /\ fdb' \in SearchKeys /\ SameKeys(fdb, fdb')
    /\ UNCHANGED <<present, grant, used, told, index, late, events>>
    /\ worker' = [worker EXCEPT ![w] = x]

LEMMA SlicesOfStep ==
    ASSUME TypeOK, NEW w \in Workers, NEW x \in Slices, worker' = [worker EXCEPT ![w] = x]
    PROVE  /\ worker' \in [Workers -> Slices] /\ worker'[w] = x
           /\ \A v \in Workers \ {w} : worker'[v] = worker[v]
BY DEF TypeOK

\* The same counters judge a slice the same way.
LEMMA SliceFrame ==
    ASSUME NEW x, SliceGood(x), fdb'.gen = fdb.gen, fdb'.rev = fdb.rev, present' = present
    PROVE  SliceGood(x)'
BY DEF SliceGood, ItemGood, PCGood, PageAtHand

LEMMA KeysFrame ==
    ASSUME TypeOK, KeysGood, SameKeys(fdb, fdb'), present' = present, events' \in Nat, events <= events'
    PROVE  KeysGood'
<1>1. \A c \in Classes : RecordGood(c)' BY DEF KeysGood, RecordGood, Pending, SameKeys
<1>2. LiveCursorGood' BY DEF KeysGood, LiveCursorGood, SameKeys
<1>3. fdb'.gen = fdb.gen /\ Owed' = Owed /\ fdb.gen \in Nat /\ Owed \in Nat /\ events \in Nat
  BY DEF SameKeys, Owed, Pending, TypeOK, SearchKeys
<1>4. fdb'.gen + Owed' <= 3 + 2 * events' BY <1>3 DEF KeysGood
<1>5. (~present /\ Pending("access") => FanoutLeft)' BY DEF KeysGood, FanoutLeft, Pending, SameKeys
<1> QED BY <1>1, <1>2, <1>4, <1>5 DEF KeysGood, SameKeys

LEMMA RestsIs ==
    ASSUME TypeOK, WorkersGood, NEW w \in Workers, Busy(w), Rests(w)
    PROVE  \E x \in Slices : /\ worker' = [worker EXCEPT ![w] = x] /\ x.pc \in {"idle", "yield"} /\ SliceGood(x)
                             /\ x.pc = "yield" => x = [worker[w] EXCEPT !.pc = "yield"]
<1>1. CASE worker' = [worker EXCEPT ![w] = Idle]
  <2>1. Idle \in Slices /\ Idle.pc = "idle" BY Sentinels DEF Idle
  <2> QED BY <1>1, <2>1 DEF SliceGood
<1>2. CASE worker' = [worker EXCEPT ![w] = [worker[w] EXCEPT !.pc = "yield"]]
  <2> DEFINE x == [worker[w] EXCEPT !.pc = "yield"]
  <2>1. worker[w] \in Slices BY DEF TypeOK
  <2>2. /\ x \in Slices /\ x.pc = "yield" /\ x.gen = worker[w].gen /\ x.rev = worker[w].rev
        /\ x.deleted = worker[w].deleted /\ x.class = worker[w].class
    BY <2>1 DEF Slices, PCs
  <2>3. ItemGood(worker[w]) BY DEF WorkersGood, SliceGood, Busy
  <2>4. SliceGood(x) BY <2>2, <2>3 DEF SliceGood, ItemGood, PCGood, PageAtHand, PagePCs, AccessPCs
  <2> HIDE DEF x
  <2> QED BY <1>2, <2>2, <2>4 DEF x
<1> QED BY <1>1, <1>2 DEF Rests

\* A slice that w moves to must be good, nothing else.
LEMMA MovesTypes ==
    ASSUME TypeInv, NEW w \in Workers, NEW x \in Slices, Moves(w, x), SliceGood(x)
    PROVE  TypeInv'
<1>1. worker' \in [Workers -> Slices] /\ worker'[w] = x /\ \A v \in Workers \ {w} : worker'[v] = worker[v]
  BY SlicesOfStep DEF TypeInv, Moves
<1>2. TypeOK' BY <1>1 DEF TypeInv, TypeOK, Moves
<1>3. KeysGood' 
  <2>1. events' \in Nat /\ events <= events' BY DEF TypeInv, TypeOK, Moves
  <2> QED BY <2>1, KeysFrame DEF TypeInv, Moves
<1>4. WorkersGood'
  <2> SUFFICES ASSUME NEW v \in Workers, NEW y \in Slices, y = worker'[v] PROVE SliceGood(y)' BY <1>1, SlicesNext
  <2>1. SliceGood(y) BY <1>1 DEF TypeInv, WorkersGood
  <2> QED BY <2>1, SliceFrame DEF Moves, SameKeys
<1> QED BY <1>2, <1>3, <1>4 DEF TypeInv

LEMMA QuietTypes == ASSUME TypeInv, Quiet PROVE TypeInv'
<1>1. worker' \in [Workers -> Slices] /\ \A v \in Workers : SliceGood(worker'[v])
  <2>1. CASE UNCHANGED worker BY <2>1 DEF TypeInv, TypeOK, WorkersGood
  <2>2. ASSUME NEW w \in Workers, Busy(w), Rests(w) PROVE worker' \in [Workers -> Slices] /\ \A v \in Workers : SliceGood(worker'[v])
    <3>1. PICK x \in Slices : worker' = [worker EXCEPT ![w] = x] /\ SliceGood(x) BY <2>2, RestsIs DEF TypeInv
    <3>2. worker' \in [Workers -> Slices] /\ worker'[w] = x /\ \A v \in Workers \ {w} : worker'[v] = worker[v]
      BY <3>1, SlicesOfStep DEF TypeInv
    <3> QED BY <3>1, <3>2 DEF TypeInv, WorkersGood
  <2> QED BY <2>1, <2>2 DEF Quiet
<1>2. late' \subseteq Requests
  <2>1. \A w \in Sending : Request(w) \in Requests
    <3> SUFFICES ASSUME NEW w \in Workers, worker[w].pc \in {"send", "update"} PROVE Request(w) \in Requests BY DEF Sending
    <3>1. worker[w] \in Slices /\ SliceGood(worker[w]) BY DEF TypeInv, TypeOK, WorkersGood
    <3>2. PCGood(worker[w]) /\ PageAtHand(worker[w]) /\ worker[w].class \in Classes BY <3>1 DEF SliceGood, Slices
    <3>3. worker[w].doc \in Documents BY <3>2 DEF PCGood, PageAtHand, Classes, PagePCs
    <3> QED BY <3>1, <3>3 DEF Request, Requests, Slices
  <2> QED BY <2>1 DEF Quiet, TypeInv, TypeOK
<1>3. events' \in 0..MaxEvents /\ events' \in Nat /\ events <= events' BY Constants DEF Quiet, TypeInv, TypeOK
<1>4. TypeOK' BY <1>1, <1>2, <1>3 DEF TypeInv, TypeOK, Quiet
<1>5. KeysGood' BY <1>3, KeysFrame DEF TypeInv, Quiet
<1>6. WorkersGood'
  <2> SUFFICES ASSUME NEW v \in Workers, NEW y \in Slices, y = worker'[v] PROVE SliceGood(y)' BY <1>1, SlicesNext
  <2>1. SliceGood(y) BY <1>1
  <2> QED BY <2>1, SliceFrame DEF Quiet, SameKeys
<1> QED BY <1>4, <1>5, <1>6 DEF TypeInv

-----------------------------------------------------------------------------
(* Steps that move a slice on.                                             *)

\* Fields of y other than those named are x's.
SameItem(x, y) == y.class = x.class /\ y.gen = x.gen /\ y.rev = x.rev /\ y.deleted = x.deleted

\* claimWorkItem never finds a record of another generation.
LEMMA ClaimIsMove ==
    ASSUME TypeInv, NEW w \in Workers, NEW c \in Classes, Claim(w, c)
    PROVE  Pending(c) /\ Moves(w, Claimed(w, c))
<1>1. fdb.work[c] # NoRecord /\ fdb.work[c].gen = fdb.gen BY DEF Claim, TypeInv, KeysGood, RecordGood, Pending
<1>2. /\ fdb' = [fdb EXCEPT !.claim[c] = [owner |-> w, gen |-> fdb.work[c].gen, live |-> TRUE]]
      /\ worker' = [worker EXCEPT ![w] = Claimed(w, c)]
      /\ UNCHANGED <<source, told, index, late, events>>
  BY <1>1 DEF Claim
<1>3. fdb \in SearchKeys /\ [owner |-> w, gen |-> fdb.work[c].gen, live |-> TRUE] \in Leases
  BY DEF TypeInv, TypeOK, SearchKeys, Records, Leases
<1>4. fdb' \in SearchKeys /\ SameKeys(fdb, fdb') BY <1>2, <1>3, ClaimIs
<1> QED BY <1>1, <1>2, <1>4 DEF Moves, source, Pending

LEMMA ClaimedIs ==
    ASSUME TypeInv, NEW w \in Workers, NEW c \in Classes, Pending(c), NEW x, x = Claimed(w, c)
    PROVE  /\ x \in Slices /\ x.class = c /\ x.gen = fdb.gen /\ x.rev = fdb.work[c].rev /\ x.deleted = fdb.work[c].deleted
           /\ x.pc = FirstStep(c, Progress(fdb, c).phase)
           /\ x.ord = Progress(fdb, c).ord /\ x.doc = Progress(fdb, c).doc /\ ~x.done
           /\ x.pc \in {"content", "refresh", "dependents", "compile", "documents"}
<1>1. fdb.work[c] \in Records /\ fdb.cursor[c] \in Checkpoints BY DEF TypeInv, TypeOK, SearchKeys
<1>2. Progress(fdb, c) \in Checkpoints BY <1>1, Sentinels DEF Progress
<1>3. FirstStep(c, Progress(fdb, c).phase) \in {"content", "refresh", "dependents", "compile", "documents"}
  BY DEF FirstStep, Classes
<1>4. fdb.work[c].gen = fdb.gen BY DEF TypeInv, KeysGood, RecordGood
<1> DEFINE k == Progress(fdb, c)  pc == FirstStep(c, Progress(fdb, c).phase)
<1> DEFINE r == fdb.work[c]
<1>5. x = [pc |-> pc, class |-> c, gen |-> r.gen, rev |-> r.rev, deleted |-> r.deleted, ord |-> k.ord, phase |-> k.phase,
           keys |-> NoKeys, doc |-> k.doc, seq |-> 0, held |-> FALSE, done |-> FALSE]
  BY DEF Claimed, Idle
<1>6. pc \in PCs BY <1>3 DEF PCs
<1>7. k \in Checkpoints BY <1>2
<1>7a. r \in Records BY <1>1
<1> HIDE DEF k, pc, r
<1>7b. x \in Slices BY <1>5, <1>6, <1>7, <1>7a DEF Slices, Records, Checkpoints, Keys
<1>8. /\ x \in Slices /\ x.class = c /\ x.gen = r.gen /\ x.rev = r.rev /\ x.deleted = r.deleted
      /\ x.pc = pc /\ x.ord = k.ord /\ x.doc = k.doc /\ ~x.done
  BY <1>5, <1>7b
<1> QED BY <1>3, <1>4, <1>8 DEF k, pc, r

LEMMA LiveProgress ==
    ASSUME TypeInv
    PROVE  LET k == Progress(fdb, "live") IN
           \/ k.phase = "pages" /\ k.ord < Pages
           \/ k.phase = "refresh" /\ k.ord = Pages
BY Constants DEF Progress, TypeInv, KeysGood, LiveCursorGood, NoCursor

LEMMA ClaimTypes ==
    ASSUME TypeInv, NEW w \in Workers, NEW c \in Classes, Claim(w, c)
    PROVE  TypeInv'
<1>1. Pending(c) /\ Moves(w, Claimed(w, c)) BY ClaimIsMove
<1> DEFINE x == Claimed(w, c)
<1>2. /\ x \in Slices /\ x.class = c /\ x.gen = fdb.gen /\ x.rev = fdb.work[c].rev /\ x.deleted = fdb.work[c].deleted
      /\ x.pc = FirstStep(c, Progress(fdb, c).phase)
      /\ x.ord = Progress(fdb, c).ord
      /\ x.pc \in {"content", "refresh", "dependents", "compile", "documents"}
  BY <1>1, ClaimedIs
<1> HIDE DEF x
<1>3. RecordGood(c) /\ fdb.gen \in Nat /\ fdb.rev \in Nat /\ fdb.work[c].rev \in Nat
  BY DEF TypeInv, KeysGood, TypeOK, SearchKeys, Records
<1>4. ItemGood(x) BY <1>1, <1>2, <1>3 DEF ItemGood, RecordGood
<1>5. PCGood(x)
  <2>1. c = "access" /\ ~present => Progress(fdb, c).phase = "dependents"
    BY <1>1, <1>3 DEF TypeInv, KeysGood, FanoutLeft, Progress, RecordGood
  <2>2. ASSUME c = "access", ~present PROVE x.pc = "dependents"
    <3>1. x.pc = FirstStep("access", "dependents") BY <1>2, <2>1, <2>2
    <3> QED BY <3>1 DEF FirstStep
  <2>3. c = "live" => x.pc \in {"content", "refresh"} BY <1>2 DEF FirstStep
  <2>4. c = "access" => x.pc \in {"compile", "dependents"} BY <1>2 DEF FirstStep
  <2>5. c = "cleanup" => x.pc = "documents" BY <1>2 DEF FirstStep
  <2> QED BY <1>2, <2>2, <2>3, <2>4, <2>5 DEF PCGood, Classes
<1>6. x.pc = "content" => c = "live" /\ Progress(fdb, c).phase = "pages" BY <1>2 DEF FirstStep, Classes
<1>7. PageAtHand(x)
  <2>1. x.pc = "content" => x.ord < Pages BY <1>2, <1>6, LiveProgress
  <2>2. x.class = "access" /\ x.pc \in AccessPCs => FALSE BY <1>2 DEF FirstStep, AccessPCs, Classes
  <2> QED BY <1>2, <2>1, <2>2 DEF PageAtHand, PagePCs
<1>8. SliceGood(x) BY <1>4, <1>5, <1>7 DEF SliceGood
<1> QED BY <1>1, <1>2, <1>8, MovesTypes DEF x

\* A slice that only goes to another step.
At(x, pc) == [x EXCEPT !.pc = pc]

LEMMA AtIs ==
    ASSUME NEW x \in Slices, NEW pc \in PCs, NEW y, y = At(x, pc)
    PROVE  /\ y \in Slices /\ y.pc = pc /\ SameItem(x, y)
           /\ y.ord = x.ord /\ y.phase = x.phase /\ y.keys = x.keys /\ y.doc = x.doc /\ y.seq = x.seq
           /\ y.held = x.held /\ y.done = x.done
BY DEF At, Slices, SameItem

LEMMA GoesIs == ASSUME TypeOK, NEW w \in Workers, NEW pc, Goes(w, pc) PROVE worker' = [worker EXCEPT ![w] = At(worker[w], pc)]
BY DEF TypeOK, Goes, At

LEMMA RestQuiet ==
    ASSUME TypeOK, NEW w \in Workers, Busy(w), Ends(w) \/ Goes(w, "yield"),
           fdb' \in SearchKeys, SameKeys(fdb, fdb'), UNCHANGED <<source, told, index, late, events>>
    PROVE  Quiet
<1>1. Rests(w) BY EndsIs, YieldsIs
<1> QED BY <1>1, SameKeysSelf DEF Quiet, source

\* The slice that reads the content of a page
Reading(x) == [x EXCEPT !.pc = "register", !.keys = grant, !.doc = <<x.rev, x.ord>>]

LEMMA ReadContentIs ==
    ASSUME TypeOK, NEW w \in Workers, ReadContent(w)
    PROVE  /\ worker[w].pc = "content"
           /\ \/ Quiet
              \/ present /\ fdb.gen = worker[w].gen /\ grant = NoParent /\ Moves(w, At(worker[w], "exclude"))
              \/ present /\ fdb.gen = worker[w].gen /\ grant # NoParent /\ Moves(w, Reading(worker[w]))
<1>1. worker[w].pc = "content" /\ Busy(w) /\ UNCHANGED <<source, fdb, told, index, late, events>>
  BY DEF ReadContent, Busy
<1>2. fdb' \in SearchKeys /\ SameKeys(fdb, fdb') BY <1>1, SameKeysSelf
<1>3. CASE ~present \/ fdb.gen # worker[w].gen
  <2>1. Goes(w, "yield") BY <1>3 DEF ReadContent
  <2> QED BY <1>1, <1>2, <2>1, RestQuiet
<1>4. CASE present /\ fdb.gen = worker[w].gen /\ grant = NoParent
  <2>1. Goes(w, "exclude") BY <1>4 DEF ReadContent
  <2> QED BY <1>1, <1>2, <1>4, <2>1, GoesIs DEF Moves, source
<1>5. CASE present /\ fdb.gen = worker[w].gen /\ grant # NoParent
  <2>1. worker' = [worker EXCEPT ![w] = Reading(worker[w])] BY <1>5 DEF ReadContent, Reading, TypeOK
  <2> QED BY <1>1, <1>2, <1>5, <2>1 DEF Moves, source
<1> QED BY <1>1, <1>3, <1>4, <1>5

LEMMA ReadContentTypes ==
    ASSUME TypeInv, NEW w \in Workers, ReadContent(w)
    PROVE  TypeInv'
<1> DEFINE me == worker[w]
<1>1. me \in Slices /\ SliceGood(me) /\ fdb \in SearchKeys /\ "exclude" \in PCs
  BY DEF TypeInv, TypeOK, WorkersGood, PCs
<1>2. me.pc = "content" BY ReadContentIs DEF TypeInv
<1>3. ItemGood(me) /\ PCGood(me) /\ PageAtHand(me) /\ me.class = "live"
  BY <1>1, <1>2 DEF SliceGood, PCGood
<1> HIDE DEF me
<1>4. CASE Quiet BY <1>4, QuietTypes
<1>5. CASE present /\ fdb.gen = worker[w].gen /\ grant = NoParent /\ Moves(w, At(worker[w], "exclude"))
  <2> DEFINE x == At(me, "exclude")
  <2>1. x \in Slices /\ x.pc = "exclude" /\ SameItem(me, x) BY <1>1, AtIs
  <2> HIDE DEF x
  <2>2. SliceGood(x) BY <1>3, <2>1 DEF SliceGood, ItemGood, PCGood, PageAtHand, SameItem, PagePCs, AccessPCs
  <2> QED BY <1>5, <2>1, <2>2, MovesTypes DEF x, me
<1>6. CASE present /\ fdb.gen = worker[w].gen /\ grant # NoParent /\ Moves(w, Reading(worker[w]))
  <2> DEFINE x == Reading(me)
  <2>1. me.rev \in Nat /\ me.ord \in Nat /\ me.ord < Pages /\ fdb.gen \in Nat /\ fdb.rev \in Nat /\ events \in 0..MaxEvents
    BY <1>1, <1>2, <1>3, Constants DEF Slices, PageAtHand, TypeInv, TypeOK, SearchKeys
  <2>2. me.rev > 0 /\ me.rev <= fdb.rev /\ fdb.rev <= fdb.gen
    BY <1>3, <1>6 DEF ItemGood, TypeInv, KeysGood, me
  <2>3. fdb.gen <= 3 + 2 * events BY <2>1 DEF TypeInv, KeysGood, Owed
  <2>4. fdb.gen <= MaxRevision BY <2>1, <2>3, Constants DEF MaxRevision
  <2>5. <<me.rev, me.ord>> \in Documents BY <2>1, <2>2, <2>4, Constants, DocumentShape
  <2>6. grant \in Grants /\ grant \in Keys BY <1>6 DEF TypeInv, TypeOK, Keys
  <2>7. /\ x \in Slices /\ x.pc = "register" /\ SameItem(me, x) /\ x.ord = me.ord /\ x.keys = grant
        /\ x.doc = <<me.rev, me.ord>>
    BY <1>1, <2>5, <2>6 DEF Reading, Slices, SameItem, PCs
  <2> HIDE DEF x
  <2>8. SliceGood(x)
    BY <1>3, <2>1, <2>5, <2>6, <2>7 DEF SliceGood, ItemGood, PCGood, PageAtHand, SameItem, PagePCs, AccessPCs
  <2> QED BY <1>6, <2>7, <2>8, MovesTypes DEF x, me
<1> QED BY <1>4, <1>5, <1>6, ReadContentIs DEF TypeInv

\* The slice that has compiled the access
Compiled(x) == [x EXCEPT !.pc = "begin", !.keys = grant]

LEMMA CompileIs ==
    ASSUME TypeOK, NEW w \in Workers, Compile(w)
    PROVE  /\ worker[w].pc = "compile"
           /\ \/ Quiet
              \/ present /\ grant = NoParent /\ Moves(w, At(worker[w], "exclude"))
              \/ present /\ grant # NoParent /\ Moves(w, Compiled(worker[w]))
<1>1. worker[w].pc = "compile" /\ Busy(w) /\ UNCHANGED <<source, fdb, told, index, late, events>>
  BY DEF Compile, Busy
<1>2. fdb' \in SearchKeys /\ SameKeys(fdb, fdb') BY <1>1, SameKeysSelf
<1>3. CASE ~present
  <2>1. Goes(w, "yield") BY <1>3 DEF Compile
  <2> QED BY <1>1, <1>2, <2>1, RestQuiet
<1>4. CASE present /\ grant = NoParent
  <2>1. Goes(w, "exclude") BY <1>4 DEF Compile
  <2> QED BY <1>1, <1>2, <1>4, <2>1, GoesIs DEF Moves, source
<1>5. CASE present /\ grant # NoParent
  <2>1. worker' = [worker EXCEPT ![w] = Compiled(worker[w])] BY <1>5 DEF Compile, Compiled, TypeOK
  <2> QED BY <1>1, <1>2, <1>5, <2>1 DEF Moves, source
<1> QED BY <1>1, <1>3, <1>4, <1>5

LEMMA CompileTypes ==
    ASSUME TypeInv, NEW w \in Workers, Compile(w)
    PROVE  TypeInv'
<1> DEFINE me == worker[w]
<1>1. me \in Slices /\ SliceGood(me) /\ fdb \in SearchKeys /\ "exclude" \in PCs
  BY DEF TypeInv, TypeOK, WorkersGood, PCs
<1>2. me.pc = "compile" BY CompileIs DEF TypeInv
<1>3. ItemGood(me) /\ PCGood(me) /\ PageAtHand(me) /\ me.class = "access"
  BY <1>1, <1>2 DEF SliceGood, PCGood
<1> HIDE DEF me
<1>4. CASE Quiet BY <1>4, QuietTypes
<1>5. CASE present /\ grant = NoParent /\ Moves(w, At(worker[w], "exclude"))
  <2> DEFINE x == At(me, "exclude")
  <2>1. x \in Slices /\ x.pc = "exclude" /\ SameItem(me, x) BY <1>1, AtIs
  <2> HIDE DEF x
  <2>2. SliceGood(x) BY <1>3, <1>5, <2>1 DEF SliceGood, ItemGood, PCGood, PageAtHand, SameItem, PagePCs, AccessPCs
  <2> QED BY <1>5, <2>1, <2>2, MovesTypes DEF x, me
<1>6. CASE present /\ grant # NoParent /\ Moves(w, Compiled(worker[w]))
  <2> DEFINE x == Compiled(me)
  <2>1. grant \in Grants /\ grant \in Keys BY <1>6 DEF TypeInv, TypeOK, Keys
  <2>2. x \in Slices /\ x.pc = "begin" /\ SameItem(me, x) /\ x.keys = grant
    BY <1>1, <2>1 DEF Compiled, Slices, SameItem, PCs
  <2> HIDE DEF x
  <2>3. SliceGood(x)
    BY <1>3, <1>6, <2>1, <2>2 DEF SliceGood, ItemGood, PCGood, PageAtHand, SameItem, PagePCs, AccessPCs
  <2> QED BY <1>6, <2>2, <2>3, MovesTypes DEF x, me
<1> QED BY <1>4, <1>5, <1>6, CompileIs DEF TypeInv

\* The slice that sends a write conditional on the sequence number it read
Armed(x) == [x EXCEPT !.pc = "send", !.seq = index[x.doc].seq]

LEMMA ProbeIs ==
    ASSUME TypeOK, NEW w \in Workers, Probe(w)
    PROVE  /\ worker[w].pc = "probe"
           /\ \/ Quiet
              \/ Decision(w) = "write" /\ Moves(w, Armed(worker[w]))
              \/ Decision(w) = "skip" /\ Moves(w, At(worker[w], "complete"))
<1>1. worker[w].pc = "probe" /\ Busy(w) /\ UNCHANGED <<source, told, index, late, events>>
  BY DEF Probe, Busy
<1>2. Decision(w) \in {"write", "skip", "stale", "held"} BY DEF Decision
<1>3. CASE Decision(w) = "write"
  <2>1. worker' = [worker EXCEPT ![w] = Armed(worker[w])] /\ UNCHANGED fdb BY <1>3 DEF Probe, Armed, TypeOK
  <2> QED BY <1>1, <1>3, <2>1, SameKeysSelf DEF Moves, source
<1>4. CASE Decision(w) = "skip"
  <2>1. Goes(w, "complete") /\ UNCHANGED fdb BY <1>4 DEF Probe
  <2> QED BY <1>1, <1>4, <2>1, GoesIs, SameKeysSelf DEF Moves, source
<1>5. CASE Decision(w) = "stale"
  <2>1. Goes(w, "yield") /\ UNCHANGED fdb BY <1>5 DEF Probe
  <2> QED BY <1>1, <2>1, RestQuiet, SameKeysSelf
<1>6. CASE Decision(w) = "held"
  <2>1. fdb' = Released(fdb, w) /\ Ends(w) BY <1>6 DEF Probe
  <2> QED BY <1>1, <2>1, RestQuiet, ReleasedIs
<1> QED BY <1>1, <1>2, <1>3, <1>4, <1>5, <1>6

\* decideGuardedWrite, by what the page read may be.
LEMMA DecisionIs ==
    ASSUME TypeOK, NEW w \in Workers, worker[w].doc \in Documents
    PROVE  LET me == worker[w]  page == index[worker[w].doc] IN
           /\ page.seq \in Nat /\ page.gen \in Nat /\ me.gen \in Nat
           /\ Decision(w) = "write" =>
                \/ page.seq = 0
                \/ me.class = "cleanup" /\ page.gen <= me.gen
                \/ me.class # "cleanup" /\ ~page.retired /\ page.gen < me.gen
           /\ Decision(w) = "skip" =>
                \/ me.class = "cleanup" /\ page.gen > me.gen
                \/ me.class # "cleanup" /\ page.seq > 0 /\ ~page.retired /\ page.gen = me.gen
<1> DEFINE me == worker[w]  page == index[worker[w].doc]
<1>1. page.seq \in Nat /\ page.gen \in Nat /\ me.gen \in Nat /\ page.retired \in BOOLEAN
  BY DEF TypeOK, PageStates, Slices
<1>2. CASE page.seq = 0
  <2>1. Decision(w) \in {"held", "write"} BY <1>2 DEF Decision
  <2> QED BY <1>1, <1>2, <2>1
<1>3. CASE page.seq > 0 /\ me.class = "cleanup"
  <2>1. Decision(w) = IF page.gen > me.gen THEN "skip" ELSE "write" BY <1>1, <1>3 DEF Decision
  <2> QED BY <1>1, <1>3, <2>1
<1>4. CASE page.seq > 0 /\ me.class # "cleanup"
  <2>1. Decision(w) = IF page.retired \/ page.gen > me.gen THEN "stale"
                      ELSE IF page.gen = me.gen THEN "skip" ELSE "write"
    BY <1>1, <1>4 DEF Decision
  <2> QED BY <1>1, <1>4, <2>1
<1> QED BY <1>1, <1>2, <1>3, <1>4

LEMMA ProbeTypes ==
    ASSUME TypeInv, NEW w \in Workers, Probe(w)
    PROVE  TypeInv'
<1> DEFINE me == worker[w]
<1>1. me \in Slices /\ SliceGood(me) /\ fdb \in SearchKeys /\ "complete" \in PCs /\ me.class \in Classes
  BY DEF TypeInv, TypeOK, WorkersGood, PCs, Slices
<1>2. me.pc = "probe" BY ProbeIs DEF TypeInv
<1>3. ItemGood(me) /\ PCGood(me) /\ PageAtHand(me) /\ me.class # "access"
  BY <1>1, <1>2 DEF SliceGood, PCGood
<1>4. me.doc \in Documents BY <1>1, <1>2, <1>3 DEF PageAtHand, PagePCs, Classes
<1>5. CASE Quiet BY <1>5, QuietTypes
<1>6. CASE Moves(w, Armed(worker[w]))
  <2> DEFINE x == Armed(me)
  <2>1. index[me.doc].seq \in Nat BY <1>4 DEF TypeInv, TypeOK, PageStates
  <2>2. x \in Slices /\ x.pc = "send" /\ SameItem(me, x) /\ x.keys = me.keys /\ x.doc = me.doc /\ x.ord = me.ord
    BY <1>1, <2>1 DEF Armed, Slices, SameItem, PCs
  <2> HIDE DEF x
  <2>3. SliceGood(x)
    BY <1>2, <1>3, <2>2 DEF SliceGood, ItemGood, PCGood, PageAtHand, SameItem, PagePCs, AccessPCs
  <2> QED BY <1>6, <2>2, <2>3, MovesTypes DEF x
<1>7. CASE Moves(w, At(worker[w], "complete"))
  <2> DEFINE x == At(me, "complete")
  <2>1. x \in Slices /\ x.pc = "complete" /\ SameItem(me, x) /\ x.keys = me.keys /\ x.doc = me.doc /\ x.ord = me.ord
    BY <1>1, AtIs
  <2> HIDE DEF x
  <2>2. SliceGood(x)
    BY <1>2, <1>3, <2>1 DEF SliceGood, ItemGood, PCGood, PageAtHand, SameItem, PagePCs, AccessPCs
  <2> QED BY <1>7, <2>1, <2>2, MovesTypes DEF x
<1> QED BY <1>5, <1>6, <1>7, ProbeIs DEF TypeInv

\* The slice that found no document, and the one that takes the first of them
NoneLeft(x) == [x EXCEPT !.pc = "complete", !.doc = NoDocument, !.done = TRUE]
Takes(x, d, last) ==
    [x EXCEPT !.pc = IF x.class = "access" THEN "update" ELSE "probe", !.doc = d, !.done = last]

LEMMA ReadDocumentsIs ==
    ASSUME TypeOK, NEW w \in Workers, ReadDocuments(w)
    PROVE  /\ worker[w].pc = "documents"
           /\ \/ Selected(w) = {} /\ Moves(w, NoneLeft(worker[w]))
              \/ \E d \in Selected(w), last \in BOOLEAN :
                    /\ \A e \in Selected(w) \ {d} : Before(d, e)
                    /\ last => Selected(w) = {d}
                    /\ Moves(w, Takes(worker[w], d, last))
<1>1. worker[w].pc = "documents" /\ UNCHANGED <<source, fdb, told, index, late, events>>
  BY DEF ReadDocuments
<1>2. fdb' \in SearchKeys /\ SameKeys(fdb, fdb') BY <1>1, SameKeysSelf
<1>3. CASE Selected(w) = {}
  <2>1. worker' = [worker EXCEPT ![w] = NoneLeft(worker[w])] BY <1>3 DEF ReadDocuments, NoneLeft, TypeOK
  <2> QED BY <1>1, <1>2, <1>3, <2>1 DEF Moves, source
<1>4. CASE Selected(w) # {}
  <2> DEFINE d == CHOOSE d \in Selected(w) : \A e \in Selected(w) \ {d} : Before(d, e)
             last == (Cardinality(Selected(w)) = 1)
  <2>1. Selected(w) \subseteq Documents BY DEF Selected, TypeOK, SearchKeys
  <2>2. d \in Selected(w) /\ \A e \in Selected(w) \ {d} : Before(d, e)
    <3>1. \E z \in Selected(w) : \A e \in Selected(w) \ {z} : Before(z, e) BY <1>4, <2>1, FirstDocument
    <3> QED BY <3>1
  <2>3. last \in BOOLEAN OBVIOUS
  <2>4. last => Selected(w) = {d}
    <3>1. IsFiniteSet(Selected(w)) BY <2>1, DocumentsFinite
    <3>2. last => \E z : Selected(w) = {z} BY <3>1, FS_Singleton
    <3> QED BY <2>2, <3>2
  <2>5. worker' = [worker EXCEPT ![w] = Takes(worker[w], d, last)]
    BY <1>4 DEF ReadDocuments, Takes, TypeOK
  <2> HIDE DEF d, last
  <2>6. Moves(w, Takes(worker[w], d, last)) BY <1>1, <1>2, <2>5 DEF Moves, source
  <2> QED BY <1>1, <2>2, <2>3, <2>4, <2>6
<1> QED BY <1>3, <1>4

LEMMA TakesIs ==
    ASSUME NEW x \in Slices, NEW d \in Documents, NEW last \in BOOLEAN, NEW y, y = Takes(x, d, last)
    PROVE  /\ y \in Slices /\ y.pc = (IF x.class = "access" THEN "update" ELSE "probe") /\ SameItem(x, y)
           /\ y.doc = d /\ y.done = last /\ y.keys = x.keys
BY DEF Takes, Slices, SameItem, PCs

LEMMA NoneLeftIs ==
    ASSUME NEW x \in Slices, NEW y, y = NoneLeft(x)
    PROVE  y \in Slices /\ y.pc = "complete" /\ SameItem(x, y) /\ y.doc = NoDocument /\ y.done /\ y.keys = x.keys
BY DEF NoneLeft, Slices, SameItem, PCs

LEMMA ReadDocumentsTypes ==
    ASSUME TypeInv, NEW w \in Workers, ReadDocuments(w)
    PROVE  TypeInv'
<1> DEFINE me == worker[w]
<1>1. me \in Slices /\ SliceGood(me) /\ fdb \in SearchKeys /\ me.class \in Classes
  BY DEF TypeInv, TypeOK, WorkersGood, Slices
<1>2. me.pc = "documents" BY ReadDocumentsIs DEF TypeInv
<1>3. ItemGood(me) /\ PCGood(me) /\ PageAtHand(me) /\ me.class # "live"
  BY <1>1, <1>2 DEF SliceGood, PCGood
<1>4. CASE Moves(w, NoneLeft(worker[w]))
  <2> DEFINE x == NoneLeft(me)
  <2>1. x \in Slices /\ x.pc = "complete" /\ SameItem(me, x) /\ x.doc = NoDocument /\ x.keys = me.keys BY <1>1, NoneLeftIs
  <2> HIDE DEF x
  <2>2. SliceGood(x)
    BY <1>2, <1>3, <2>1 DEF SliceGood, ItemGood, PCGood, PageAtHand, SameItem, PagePCs, AccessPCs
  <2> QED BY <1>4, <2>1, <2>2, MovesTypes DEF x
<1>5. ASSUME NEW d \in Selected(w), NEW last \in BOOLEAN, Moves(w, Takes(worker[w], d, last)) PROVE TypeInv'
  <2> DEFINE x == Takes(me, d, last)
  <2>1. d \in Documents BY DEF Selected, TypeInv, TypeOK, SearchKeys
  <2>2. me.class = "cleanup" => me.deleted \/ d[1] < me.rev BY DEF Selected
  <2>3. x \in Slices /\ x.pc = (IF me.class = "access" THEN "update" ELSE "probe") /\ SameItem(me, x) /\ x.doc = d /\ x.keys = me.keys
    BY <1>1, <2>1, TakesIs
  <2> HIDE DEF x
  <2>4. SliceGood(x)
    BY <1>1, <1>2, <1>3, <2>1, <2>2, <2>3 DEF SliceGood, ItemGood, PCGood, PageAtHand, SameItem, PagePCs, AccessPCs, Classes
  <2> QED BY <1>5, <2>3, <2>4, MovesTypes DEF x
<1> QED BY <1>4, <1>5, ReadDocumentsIs DEF TypeInv

-----------------------------------------------------------------------------
(* Requests that reach the index.                                          *)

\* The index takes request q; nothing but the page and the slice changes.
Written(q) ==
    /\ Accepts(q) /\ index' = Stored(q)
    /\ UNCHANGED <<present, grant, used, fdb, told, events>>
    /\ late' \subseteq late

LEMMA StoredIs ==
    ASSUME TypeOK, NEW q \in Requests, index' = Stored(q)
    PROVE  /\ index' \in [Documents -> PageStates]
           /\ index'[q.doc].seq = index[q.doc].seq + 1 /\ index'[q.doc].gen = q.gen
           /\ index'[q.doc].retired = (q.class = "cleanup")
           /\ index'[q.doc].keys = (IF q.class = "cleanup" THEN NoKeys ELSE q.keys)
           /\ \A d \in Documents \ {q.doc} : index'[d] = index[d]
<1>1. q.doc \in Documents /\ q.gen \in Nat /\ q.keys \in Keys /\ index[q.doc].seq \in Nat /\ NoKeys \in Keys
  BY DEF Requests, TypeOK, PageStates, Keys
<1> DEFINE p == [seq |-> index[q.doc].seq + 1, gen |-> q.gen, retired |-> q.class = "cleanup",
                 keys |-> IF q.class = "cleanup" THEN NoKeys ELSE q.keys]
<1>2. p \in PageStates BY <1>1 DEF PageStates
<1>3. index' = [index EXCEPT ![q.doc] = p] BY <1>1 DEF Stored, TypeOK
<1>4. index'[q.doc] = p /\ index' \in [Documents -> PageStates] /\ \A d \in Documents \ {q.doc} : index'[d] = index[d]
  <2> HIDE DEF p
  <2> QED BY <1>1, <1>2, <1>3 DEF TypeOK
<1> QED BY <1>4

LEMMA RequestIs ==
    ASSUME TypeInv, NEW w \in Sending
    PROVE  /\ Request(w) \in Requests /\ w \in Workers /\ worker[w].doc \in Documents
           /\ Request(w).doc = worker[w].doc /\ Request(w).class = worker[w].class
           /\ Request(w).gen = worker[w].gen /\ Request(w).keys = worker[w].keys /\ Request(w).seq = worker[w].seq
<1>0. w \in Workers /\ worker[w].pc \in {"send", "update"} BY DEF Sending
<1>1. worker[w] \in Slices /\ SliceGood(worker[w]) BY <1>0 DEF TypeInv, TypeOK, WorkersGood
<1>2. PCGood(worker[w]) /\ PageAtHand(worker[w]) /\ worker[w].class \in Classes BY <1>0, <1>1 DEF SliceGood, Slices
<1>3. worker[w].doc \in Documents BY <1>0, <1>2 DEF PCGood, PageAtHand, Classes, PagePCs
<1> QED BY <1>0, <1>1, <1>3 DEF Request, Requests, Slices

LEMMA LateArrivesIs ==
    ASSUME TypeOK, NEW q \in late, LateArrives(q)
    PROVE  Quiet \/ (Written(q) /\ q \in Requests /\ UNCHANGED worker)
<1>1. UNCHANGED <<source, fdb, told, worker, events>> /\ late' \subseteq late BY DEF LateArrives
<1>2. CASE Accepts(q)
  <2>1. index' = Stored(q) BY <1>2 DEF LateArrives
  <2> QED BY <1>1, <1>2, <2>1 DEF Written, source, TypeOK
<1>3. CASE ~Accepts(q)
  <2>1. UNCHANGED index BY <1>3 DEF LateArrives
  <2> QED BY <1>1, <2>1, SameKeysSelf DEF Quiet, source
<1> QED BY <1>2, <1>3

LEMMA SendIs ==
    ASSUME TypeOK, NEW w \in Workers, Send(w)
    PROVE  /\ worker[w].pc = "send"
           /\ \/ ~Accepts(Request(w)) /\ Moves(w, At(worker[w], "probe"))
              \/ Written(Request(w)) /\ worker' = [worker EXCEPT ![w] = At(worker[w], "complete")]
<1>1. worker[w].pc = "send" /\ UNCHANGED <<source, fdb, told, late, events>> BY DEF Send
<1>2. CASE Accepts(Request(w))
  <2>1. index' = Stored(Request(w)) /\ Goes(w, "complete") BY <1>2 DEF Send
  <2> QED BY <1>1, <1>2, <2>1, GoesIs DEF Written, source
<1>3. CASE ~Accepts(Request(w))
  <2>1. UNCHANGED index /\ Goes(w, "probe") BY <1>3 DEF Send
  <2> QED BY <1>1, <1>3, <2>1, GoesIs, SameKeysSelf DEF Moves, source
<1> QED BY <1>1, <1>2, <1>3

LEMMA UpdateAccessIs ==
    ASSUME TypeOK, NEW w \in Workers, UpdateAccess(w)
    PROVE  /\ worker[w].pc = "update"
           /\ \/ Quiet
              \/ /\ ~Accepts(Request(w)) /\ Moves(w, At(worker[w], "complete"))
                 /\ ~(index[worker[w].doc].seq > 0 /\ index[worker[w].doc].gen > worker[w].gen)
              \/ Written(Request(w)) /\ worker' = [worker EXCEPT ![w] = At(worker[w], "complete")]
<1> DEFINE page == index[worker[w].doc]
<1>1. worker[w].pc = "update" /\ Busy(w) /\ UNCHANGED <<source, fdb, told, late, events>> BY DEF UpdateAccess, Busy
<1>2. fdb' \in SearchKeys /\ SameKeys(fdb, fdb') BY <1>1, SameKeysSelf
<1>3. CASE page.seq > 0 /\ page.gen > worker[w].gen
  <2>1. Goes(w, "yield") /\ UNCHANGED index BY <1>3 DEF UpdateAccess
  <2> QED BY <1>1, <1>2, <2>1, RestQuiet
<1>4. CASE ~(page.seq > 0 /\ page.gen > worker[w].gen)
  <2>1. Goes(w, "complete") /\ index' = IF Accepts(Request(w)) THEN Stored(Request(w)) ELSE index BY <1>4 DEF UpdateAccess
  <2> QED BY <1>1, <1>2, <1>4, <2>1, GoesIs DEF Written, Moves, source
<1> QED BY <1>1, <1>3, <1>4

\* The state types of a write, and the slice that sent it goes on.
LEMMA WrittenTypes ==
    ASSUME TypeInv, NEW q \in Requests, Written(q), worker' \in [Workers -> Slices],
           \A v \in Workers : SliceGood(worker'[v])
    PROVE  TypeInv'
<1>1. TypeOK' BY StoredIs DEF TypeInv, TypeOK, Written
<1>2. KeysGood'
  <2>1. SameKeys(fdb, fdb') /\ events' \in Nat /\ events <= events' BY SameKeysSelf DEF TypeInv, TypeOK, Written
  <2> QED BY <2>1, KeysFrame DEF TypeInv, Written
<1>3. WorkersGood'
  <2> SUFFICES ASSUME NEW v \in Workers, NEW y \in Slices, y = worker'[v] PROVE SliceGood(y)' BY SlicesNext
  <2>1. SliceGood(y) OBVIOUS
  <2> QED BY <2>1, SliceFrame DEF Written
<1> QED BY <1>1, <1>2, <1>3 DEF TypeInv

LEMMA CompletesGood ==
    ASSUME TypeInv, NEW w \in Workers, worker[w].pc \in {"send", "update"}, NEW x, x = At(worker[w], "complete")
    PROVE  /\ x \in Slices /\ SliceGood(x) /\ x.pc = "complete" /\ SameItem(worker[w], x) /\ x.keys = worker[w].keys
           /\ x.doc = worker[w].doc /\ x.ord = worker[w].ord /\ x.done = worker[w].done
<1> DEFINE me == worker[w]
<1>1. me \in Slices /\ SliceGood(me) /\ "complete" \in PCs BY DEF TypeInv, TypeOK, WorkersGood, PCs
<1>2. ItemGood(me) /\ PCGood(me) /\ PageAtHand(me) BY <1>1 DEF SliceGood
<1>3. x \in Slices /\ x.pc = "complete" /\ SameItem(me, x) /\ x.keys = me.keys /\ x.doc = me.doc /\ x.ord = me.ord /\ x.done = me.done
  BY <1>1, AtIs
<1>4. SliceGood(x)
  BY <1>2, <1>3 DEF SliceGood, ItemGood, PCGood, PageAtHand, SameItem, PagePCs, AccessPCs
<1> QED BY <1>3, <1>4

LEMMA LateArrivesTypes == ASSUME TypeInv, NEW q \in late, LateArrives(q) PROVE TypeInv'
<1>1. CASE Quiet BY <1>1, QuietTypes
<1>2. CASE Written(q) /\ q \in Requests /\ UNCHANGED worker
  <2>1. worker' \in [Workers -> Slices] /\ \A v \in Workers : SliceGood(worker'[v]) BY <1>2 DEF TypeInv, TypeOK, WorkersGood
  <2> QED BY <1>2, <2>1, WrittenTypes
<1> QED BY <1>1, <1>2, LateArrivesIs DEF TypeInv

LEMMA CompletesTypes ==
    ASSUME TypeInv, NEW w \in Workers, worker[w].pc \in {"send", "update"}, Written(Request(w)),
           worker' = [worker EXCEPT ![w] = At(worker[w], "complete")]
    PROVE  TypeInv'
<1> DEFINE x == At(worker[w], "complete")
<1>1. x \in Slices /\ SliceGood(x) BY CompletesGood
<1>2. worker' = [worker EXCEPT ![w] = x] OBVIOUS
<1> HIDE DEF x
<1>3. worker' \in [Workers -> Slices] /\ \A v \in Workers : SliceGood(worker'[v])
  BY <1>1, <1>2, SlicesOfStep DEF TypeInv, WorkersGood
<1>4. Request(w) \in Requests BY RequestIs DEF Sending
<1> QED BY <1>3, <1>4, WrittenTypes

LEMMA SendTypes == ASSUME TypeInv, NEW w \in Workers, Send(w) PROVE TypeInv'
<1> DEFINE me == worker[w]
<1>1. me.pc = "send" BY SendIs DEF TypeInv
<1>2. CASE Moves(w, At(worker[w], "probe"))
  <2> DEFINE x == At(me, "probe")
  <2>1. me \in Slices /\ SliceGood(me) /\ "probe" \in PCs BY DEF TypeInv, TypeOK, WorkersGood, PCs
  <2>2. ItemGood(me) /\ PCGood(me) /\ PageAtHand(me) BY <1>1, <2>1 DEF SliceGood
  <2>3. x \in Slices /\ x.pc = "probe" /\ SameItem(me, x) /\ x.keys = me.keys /\ x.doc = me.doc /\ x.ord = me.ord
    BY <2>1, AtIs
  <2> HIDE DEF x
  <2>4. SliceGood(x)
    BY <1>1, <2>2, <2>3 DEF SliceGood, ItemGood, PCGood, PageAtHand, SameItem, PagePCs, AccessPCs
  <2> QED BY <1>2, <2>3, <2>4, MovesTypes DEF x
<1>3. CASE Written(Request(w)) /\ worker' = [worker EXCEPT ![w] = At(worker[w], "complete")]
  BY <1>1, <1>3, CompletesTypes
<1> QED BY <1>2, <1>3, SendIs DEF TypeInv

LEMMA UpdateAccessTypes == ASSUME TypeInv, NEW w \in Workers, UpdateAccess(w) PROVE TypeInv'
<1>1. worker[w].pc = "update" BY UpdateAccessIs DEF TypeInv
<1>2. CASE Quiet BY <1>2, QuietTypes
<1>3. CASE Moves(w, At(worker[w], "complete"))
  <2> DEFINE x == At(worker[w], "complete")
  <2>1. x \in Slices /\ SliceGood(x) BY <1>1, CompletesGood
  <2> HIDE DEF x
  <2> QED BY <1>3, <2>1, MovesTypes DEF x
<1>4. CASE Written(Request(w)) /\ worker' = [worker EXCEPT ![w] = At(worker[w], "complete")]
  BY <1>1, <1>4, CompletesTypes
<1> QED BY <1>2, <1>3, <1>4, UpdateAccessIs DEF TypeInv

-----------------------------------------------------------------------------
(* Scheduling: the generation rises.                                       *)

\* How old decisions fare: the counters stay, rise, or are forgotten with the
\* last work of a deleted node.
Ages ==
    \/ fdb'.gen = fdb.gen /\ fdb'.rev = fdb.rev /\ present' = present
    \/ fdb.gen > 0 /\ fdb'.gen = fdb.gen + 1 /\ fdb'.rev >= fdb.rev /\ (present' => present)
    \/ fdb'.gen = 0 /\ ~present /\ ~present'

LEMMA SliceAges ==
    ASSUME TypeOK, fdb' \in SearchKeys, Ages, NEW x \in Slices, SliceGood(x)
    PROVE  SliceGood(x)'
<1>1. /\ x.gen \in Nat /\ x.rev \in Nat /\ fdb.gen \in Nat /\ fdb'.gen \in Nat /\ fdb.rev \in Nat /\ fdb'.rev \in Nat
  BY DEF TypeOK, Slices, SearchKeys
<1>2. CASE fdb'.gen = fdb.gen /\ fdb'.rev = fdb.rev /\ present' = present BY <1>2, SliceFrame
<1>3. CASE fdb.gen > 0 /\ fdb'.gen = fdb.gen + 1 /\ fdb'.rev >= fdb.rev /\ (present' => present)
  <2>1. ItemGood(x) => ItemGood(x)' BY <1>1, <1>3 DEF ItemGood
  <2>2. ItemGood(x) => x.gen # fdb'.gen BY <1>1, <1>3 DEF ItemGood
  <2> QED BY <2>1, <2>2 DEF SliceGood, PCGood, PageAtHand
<1>4. CASE fdb'.gen = 0 /\ ~present /\ ~present'
  <2>1. ItemGood(x) => ItemGood(x)' BY <1>1, <1>4 DEF ItemGood
  <2>2. ItemGood(x) => x.gen # fdb'.gen BY <1>1, <1>4 DEF ItemGood
  <2> QED BY <2>1, <2>2 DEF SliceGood, PCGood, PageAtHand
<1> QED BY <1>2, <1>3, <1>4 DEF Ages

\* Slices that stay, or one that rests.
StaysOrRests(v) ==
    \/ worker'[v] = worker[v] \/ worker'[v].pc = "idle"
    \/ Busy(v) /\ worker'[v] = At(worker[v], "yield")

Resting == UNCHANGED worker \/ \E w \in Workers : Busy(w) /\ Rests(w)

LEMMA RestingSlices ==
    ASSUME TypeInv, Resting
    PROVE  /\ worker' \in [Workers -> Slices]
           /\ \A v \in Workers : /\ SliceGood(worker'[v])
                                 /\ StaysOrRests(v)
<1>1. CASE UNCHANGED worker BY <1>1 DEF TypeInv, TypeOK, WorkersGood, StaysOrRests
<1>2. ASSUME NEW w \in Workers, Busy(w), Rests(w)
      PROVE  /\ worker' \in [Workers -> Slices]
             /\ \A v \in Workers : /\ SliceGood(worker'[v])
                                   /\ StaysOrRests(v)
  <2>1. PICK x \in Slices : /\ worker' = [worker EXCEPT ![w] = x] /\ SliceGood(x) /\ x.pc \in {"idle", "yield"}
                            /\ x.pc = "yield" => x = [worker[w] EXCEPT !.pc = "yield"]
    BY <1>2, RestsIs DEF TypeInv
  <2>2. worker' \in [Workers -> Slices] /\ worker'[w] = x /\ \A v \in Workers \ {w} : worker'[v] = worker[v]
    BY <2>1, SlicesOfStep DEF TypeInv
  <2>3. \A v \in Workers : SliceGood(worker'[v]) BY <2>1, <2>2 DEF TypeInv, WorkersGood
  <2>4. StaysOrRests(w) BY <1>2, <2>1, <2>2 DEF StaysOrRests, At
  <2>5. \A v \in Workers \ {w} : StaysOrRests(v) BY <2>2 DEF StaysOrRests
  <2> QED BY <2>2, <2>3, <2>4, <2>5
<1> QED BY <1>1, <1>2 DEF Resting

LEMMA AgesTypes ==
    ASSUME TypeInv, Ages, KeysGood', fdb' \in SearchKeys, present' \in BOOLEAN, grant' \in Grants \cup {NoParent},
           used' \subseteq Grants, told' \in Keys \cup {Gone}, UNCHANGED <<index, late>>, events' \in 0..MaxEvents,
           worker' \in [Workers -> Slices], \A v \in Workers : SliceGood(worker'[v])
    PROVE  TypeInv'
<1>1. TypeOK' BY DEF TypeInv, TypeOK
<1>2. WorkersGood'
  <2> SUFFICES ASSUME NEW v \in Workers, NEW y \in Slices, y = worker'[v] PROVE SliceGood(y)' BY SlicesNext
  <2> QED BY SliceAges DEF TypeInv
<1> QED BY <1>1, <1>2 DEF TypeInv

\* What scheduleSearchChange does to class c: nothing pending appears, the record
\* is rewritten to the generation, put anew, or removed.
Rewritten(c, t) ==
    /\ t.cursor[c] = fdb.cursor[c]
    /\ t.work[c] = NoRecord <=> ~Pending(c)
    /\ Pending(c) => /\ t.work[c].gen = t.gen /\ t.work[c].rev = fdb.work[c].rev
                     /\ t.work[c].deleted = fdb.work[c].deleted

Put(c, t, deleted) ==
    /\ t.work[c] = [gen |-> t.gen, rev |-> t.rev, deleted |-> deleted]
    /\ t.work[c] # NoRecord /\ t.cursor[c] = NoCursor

Removed(c, t) == t.work[c] = NoRecord /\ t.cursor[c] = NoCursor

Raised(t) == t \in SearchKeys /\ t.gen = fdb.gen + 1 /\ t.issued = fdb.issued

\* A content change or a repair: a new revision.
RevisionScheduled(t) ==
    /\ Raised(t) /\ t.rev = t.gen /\ t.access = fdb.access /\ t.excluded = fdb.excluded
    /\ Put("live", t, FALSE) /\ Rewritten("cleanup", t)
    /\ \/ Put("access", t, FALSE)
       \/ ~Pending("access") /\ t.work["access"] = NoRecord /\ t.cursor["access"] = fdb.cursor["access"]

AccessScheduled(t) ==
    /\ Raised(t) /\ t.rev = fdb.rev /\ t.access = fdb.access /\ ~fdb.excluded /\ ~t.excluded
    /\ Rewritten("live", t) /\ Rewritten("cleanup", t) /\ Put("access", t, FALSE)

DeletionScheduled(t) ==
    /\ Raised(t) /\ t.rev = fdb.rev /\ t.access = fdb.access /\ ~t.excluded
    /\ Removed("live", t) /\ Put("cleanup", t, TRUE)

ExclusionScheduled(t) ==
    /\ Raised(t) /\ t.rev = t.gen /\ t.excluded
    /\ t.access.found = fdb.access.found /\ t.access.tracked = fdb.access.tracked /\ t.access.page = fdb.access.page
    /\ t.access.keys = NoKeys /\ ~t.access.pages /\ ~t.access.dependents
    /\ Removed("live", t) /\ Removed("access", t) /\ Put("cleanup", t, FALSE)

LEMMA RewrittenIs ==
    ASSUME TypeInv, NEW c \in Classes, NEW cur \in Records, cur.gen > 0, NEW t, t.gen = cur.gen,
           t.work[c] = NewRecord(fdb.work[c], "rewrite", cur), t.cursor[c] = NewCursor(fdb.work[c], fdb.cursor[c], "rewrite")
    PROVE  Rewritten(c, t)
<1>1. fdb.work[c] \in Records BY DEF TypeInv, TypeOK, SearchKeys
<1>2. CASE Pending(c)
  <2> DEFINE r == [fdb.work[c] EXCEPT !.gen = cur.gen]
  <2>1. t.work[c] = r /\ t.cursor[c] = fdb.cursor[c] BY <1>2 DEF NewRecord, NewCursor, Pending
  <2>2. r.gen = cur.gen /\ r.rev = fdb.work[c].rev /\ r.deleted = fdb.work[c].deleted BY <1>1 DEF Records
  <2>3. r # NoRecord BY <2>2 DEF NoRecord
  <2> QED BY <1>2, <2>1, <2>2, <2>3 DEF Rewritten
<1>3. CASE ~Pending(c)
  <2>1. t.work[c] = NoRecord /\ t.cursor[c] = fdb.cursor[c] BY <1>3 DEF NewRecord, NewCursor, Pending
  <2> QED BY <1>3, <2>1 DEF Rewritten
<1> QED BY <1>2, <1>3

\* A content change: EditContent and the restart of a revision.
LEMMA ContentIs ==
    ASSUME TypeInv, fdb.access.found, NEW s \in SearchKeys, SameKeys(fdb, s), NEW t, t = ScheduleSearchChange(s, "content")
    PROVE  /\ RevisionScheduled(t)
           /\ t.work["access"] = NoRecord <=> ~Pending("access")
<1> DEFINE cur == Changed(s, "content")
<1>1. "content" = Adjusted(s, "content") /\ s.access.found BY DEF Adjusted, SameKeys
<1>2. /\ t \in SearchKeys /\ t.gen = s.gen + 1 /\ t.rev = NewRevision(s, "content")
      /\ t.issued = s.issued /\ t.access = s.access /\ t.excluded = (s.excluded /\ "content" # "deletion")
      /\ \A c \in Classes : /\ t.work[c] = NewRecord(s.work[c], Plan["content"][c], cur)
                            /\ t.cursor[c] = NewCursor(s.work[c], s.cursor[c], Plan["content"][c])
  BY <1>1, ScheduleIs
<1>3. s.excluded \in BOOLEAN /\ s.gen \in Nat BY DEF SearchKeys
<1>4. cur = [gen |-> t.gen, rev |-> t.gen, deleted |-> FALSE] /\ t.rev = t.gen BY <1>2 DEF Changed, NewRevision
<1>5. cur \in Records /\ cur.gen > 0 /\ cur.gen = t.gen /\ cur # NoRecord
  <2>1. t.gen \in Nat /\ t.gen > 0 BY <1>2, <1>3
  <2> HIDE DEF cur
  <2> QED BY <1>4, <2>1 DEF Records, NoRecord
<1> HIDE DEF cur
<1>6. /\ t.gen = fdb.gen + 1 /\ t.issued = fdb.issued /\ t.access = fdb.access /\ t.excluded = fdb.excluded
  BY <1>2, <1>3 DEF SameKeys
<1>7. /\ Plan["content"]["live"] = "put" /\ Plan["content"]["access"] = "restart" /\ Plan["content"]["cleanup"] = "rewrite"
      /\ {"live", "access", "cleanup"} \subseteq Classes /\ s.work = fdb.work /\ s.cursor = fdb.cursor
  BY DEF Plan, Classes, SameKeys
<1>8. /\ t.work["live"] = NewRecord(fdb.work["live"], "put", cur)
      /\ t.cursor["live"] = NewCursor(fdb.work["live"], fdb.cursor["live"], "put")
      /\ t.work["access"] = NewRecord(fdb.work["access"], "restart", cur)
      /\ t.cursor["access"] = NewCursor(fdb.work["access"], fdb.cursor["access"], "restart")
      /\ t.work["cleanup"] = NewRecord(fdb.work["cleanup"], "rewrite", cur)
      /\ t.cursor["cleanup"] = NewCursor(fdb.work["cleanup"], fdb.cursor["cleanup"], "rewrite")
  BY <1>2, <1>7
<1>9. Put("live", t, FALSE) BY <1>4, <1>5, <1>8 DEF Put, NewRecord, NewCursor
<1>10. Rewritten("cleanup", t) BY <1>5, <1>7, <1>8, RewrittenIs
<1>11. CASE Pending("access")
  <2>1. Put("access", t, FALSE) BY <1>4, <1>5, <1>8, <1>11 DEF Put, NewRecord, NewCursor, Pending
  <2> QED BY <1>2, <1>4, <1>6, <1>9, <1>10, <1>11, <2>1 DEF RevisionScheduled, Raised, Put
<1>12. CASE ~Pending("access")
  <2>1. t.work["access"] = NoRecord /\ t.cursor["access"] = fdb.cursor["access"]
    BY <1>8, <1>12 DEF NewRecord, NewCursor, Pending
  <2> QED BY <1>2, <1>4, <1>6, <1>9, <1>10, <1>12, <2>1 DEF RevisionScheduled, Raised
<1> QED BY <1>11, <1>12

\* A change of access; an excluded node is repaired instead.
LEMMA AccessIs ==
    ASSUME TypeInv, present, NEW t, t = ScheduleSearchChange(fdb, "access")
    PROVE  /\ RevisionScheduled(t) \/ AccessScheduled(t)
           /\ Put("access", t, FALSE)
<1>0. fdb \in SearchKeys /\ fdb.access.found /\ fdb.gen \in Nat /\ fdb.rev \in Nat /\ fdb.excluded \in BOOLEAN
  BY DEF TypeInv, TypeOK, KeysGood, SearchKeys
<1> DEFINE change == Adjusted(fdb, "access")
           cur == Changed(fdb, change)
<1>1. change = IF fdb.excluded THEN "repair" ELSE "access" BY DEF Adjusted
<1>2. /\ t \in SearchKeys /\ t.gen = fdb.gen + 1 /\ t.rev = NewRevision(fdb, change)
      /\ t.issued = fdb.issued /\ t.access = fdb.access /\ t.excluded = (fdb.excluded /\ change # "deletion")
      /\ \A c \in Classes : /\ t.work[c] = NewRecord(fdb.work[c], Plan[change][c], cur)
                            /\ t.cursor[c] = NewCursor(fdb.work[c], fdb.cursor[c], Plan[change][c])
  BY <1>0, ScheduleIs
<1>3. cur = [gen |-> t.gen, rev |-> t.rev, deleted |-> FALSE] BY <1>1, <1>2 DEF Changed
<1> HIDE DEF change
<1>4. t.rev = (IF fdb.excluded THEN t.gen ELSE fdb.rev) /\ t.excluded = fdb.excluded BY <1>0, <1>1, <1>2 DEF NewRevision
<1>5. cur \in Records /\ cur.gen > 0 /\ cur.gen = t.gen /\ cur # NoRecord BY <1>0, <1>2, <1>3, <1>4 DEF Records, NoRecord
<1> HIDE DEF cur
<1>6. /\ Plan[change]["live"] = (IF fdb.excluded THEN "put" ELSE "rewrite") /\ Plan[change]["access"] = "put"
      /\ Plan[change]["cleanup"] = "rewrite" /\ {"live", "access", "cleanup"} \subseteq Classes
  BY <1>1 DEF Plan, Classes
<1>7. /\ t.work["access"] = NewRecord(fdb.work["access"], "put", cur)
      /\ t.cursor["access"] = NewCursor(fdb.work["access"], fdb.cursor["access"], "put")
      /\ t.work["cleanup"] = NewRecord(fdb.work["cleanup"], "rewrite", cur)
      /\ t.cursor["cleanup"] = NewCursor(fdb.work["cleanup"], fdb.cursor["cleanup"], "rewrite")
  BY <1>2, <1>6
<1>8. Put("access", t, FALSE) BY <1>3, <1>5, <1>7 DEF Put, NewRecord, NewCursor
<1>9. Rewritten("cleanup", t) BY <1>5, <1>6, <1>7, RewrittenIs
<1>10. CASE fdb.excluded
  <2>1. /\ t.work["live"] = NewRecord(fdb.work["live"], "put", cur)
        /\ t.cursor["live"] = NewCursor(fdb.work["live"], fdb.cursor["live"], "put")
    BY <1>2, <1>6, <1>10
  <2>2. Put("live", t, FALSE) BY <1>3, <1>5, <2>1 DEF Put, NewRecord, NewCursor
  <2> QED BY <1>2, <1>4, <1>8, <1>9, <1>10, <2>2 DEF RevisionScheduled, Raised
<1>11. CASE ~fdb.excluded
  <2>1. /\ t.work["live"] = NewRecord(fdb.work["live"], "rewrite", cur)
        /\ t.cursor["live"] = NewCursor(fdb.work["live"], fdb.cursor["live"], "rewrite")
    BY <1>2, <1>6, <1>11
  <2>2. Rewritten("live", t) BY <1>5, <1>6, <2>1, RewrittenIs
  <2> QED BY <1>2, <1>4, <1>8, <1>9, <1>11, <2>2 DEF AccessScheduled, Raised
<1> QED BY <1>10, <1>11

LEMMA DeletionIs ==
    ASSUME TypeInv, present, NEW counterparts \in BOOLEAN, NEW t,
           t = (LET s == ScheduleSearchChange(fdb, "deletion")
                IN  IF counterparts THEN ScheduleDeletedFanout(s) ELSE s)
    PROVE  /\ DeletionScheduled(t)
           /\ ~counterparts => Removed("access", t)
           /\ counterparts => /\ t.work["access"] = [gen |-> t.gen, rev |-> t.rev, deleted |-> TRUE]
                              /\ t.work["access"] # NoRecord
                              /\ t.cursor["access"].gen = t.gen /\ t.cursor["access"].phase = "dependents"
<1>0. fdb \in SearchKeys /\ fdb.access.found /\ fdb.gen \in Nat /\ fdb.rev \in Nat BY DEF TypeInv, TypeOK, KeysGood, SearchKeys
<1> DEFINE s == ScheduleSearchChange(fdb, "deletion")
           cur == Changed(fdb, "deletion")
<1>1. "deletion" = Adjusted(fdb, "deletion") BY DEF Adjusted
<1>2. /\ s \in SearchKeys /\ s.gen = fdb.gen + 1 /\ s.rev = NewRevision(fdb, "deletion")
      /\ s.issued = fdb.issued /\ s.access = fdb.access /\ s.excluded = (fdb.excluded /\ "deletion" # "deletion")
      /\ \A c \in Classes : /\ s.work[c] = NewRecord(fdb.work[c], Plan["deletion"][c], cur)
                            /\ s.cursor[c] = NewCursor(fdb.work[c], fdb.cursor[c], Plan["deletion"][c])
  BY <1>0, <1>1, ScheduleIs
<1>3. t = IF counterparts THEN ScheduleDeletedFanout(s) ELSE s OBVIOUS
<1> HIDE DEF s
<1>4. cur = [gen |-> s.gen, rev |-> s.rev, deleted |-> TRUE] /\ s.rev = fdb.rev BY <1>2 DEF Changed, NewRevision
<1>5. cur # NoRecord
  <2>1. s.gen > 0 BY <1>0, <1>2
  <2> HIDE DEF cur
  <2> QED BY <1>4, <2>1 DEF NoRecord
<1> HIDE DEF cur
<1>6. /\ Plan["deletion"]["live"] = "remove" /\ Plan["deletion"]["access"] = "remove" /\ Plan["deletion"]["cleanup"] = "put"
      /\ {"live", "access", "cleanup"} \subseteq Classes
  BY DEF Plan, Classes
<1>7. /\ s.work["live"] = NewRecord(fdb.work["live"], "remove", cur)
      /\ s.cursor["live"] = NewCursor(fdb.work["live"], fdb.cursor["live"], "remove")
      /\ s.work["access"] = NewRecord(fdb.work["access"], "remove", cur)
      /\ s.cursor["access"] = NewCursor(fdb.work["access"], fdb.cursor["access"], "remove")
      /\ s.work["cleanup"] = NewRecord(fdb.work["cleanup"], "put", cur)
      /\ s.cursor["cleanup"] = NewCursor(fdb.work["cleanup"], fdb.cursor["cleanup"], "put")
  BY <1>2, <1>6
<1>8. Removed("live", s) /\ Removed("access", s) /\ Put("cleanup", s, TRUE)
  BY <1>4, <1>5, <1>7 DEF Put, Removed, NewRecord, NewCursor
<1>9. DeletionScheduled(s) BY <1>2, <1>4, <1>8 DEF DeletionScheduled, Raised
<1>10. CASE ~counterparts BY <1>3, <1>8, <1>9, <1>10
<1>11. CASE counterparts
  <2>1. /\ t \in SearchKeys
        /\ t.gen = s.gen /\ t.rev = s.rev /\ t.issued = s.issued /\ t.access = s.access /\ t.excluded = s.excluded
        /\ t.work["access"] = [gen |-> s.gen, rev |-> s.rev, deleted |-> TRUE]
        /\ t.cursor["access"].gen = s.gen /\ t.cursor["access"].phase = "dependents"
        /\ \A k \in Classes \ {"access"} : t.work[k] = s.work[k] /\ t.cursor[k] = s.cursor[k]
    BY <1>2, <1>3, <1>11, ScheduleDeletedFanoutIs
  <2>2. /\ t.work["live"] = s.work["live"] /\ t.cursor["live"] = s.cursor["live"]
        /\ t.work["cleanup"] = s.work["cleanup"] /\ t.cursor["cleanup"] = s.cursor["cleanup"]
    BY <1>6, <2>1
  <2>3. DeletionScheduled(t) BY <1>9, <2>1, <2>2 DEF DeletionScheduled, Raised, Removed, Put
  <2>4. t.work["access"] # NoRecord BY <1>4, <1>5, <2>1
  <2> QED BY <1>11, <2>1, <2>3, <2>4
<1> QED BY <1>10, <1>11

\* The two ways to change an access record
LEMMA AccessCleared ==
    ASSUME NEW s \in SearchKeys, NEW t, t = [s EXCEPT !.access.keys = NoKeys, !.access.pages = FALSE,
                                                      !.access.dependents = FALSE, !.excluded = TRUE]
    PROVE  /\ t \in SearchKeys /\ t.gen = s.gen /\ t.rev = s.rev /\ t.work = s.work /\ t.cursor = s.cursor /\ t.issued = s.issued
           /\ t.excluded = TRUE
           /\ t.access.found = s.access.found /\ t.access.tracked = s.access.tracked /\ t.access.page = s.access.page
           /\ t.access.keys = NoKeys /\ ~t.access.pages /\ ~t.access.dependents
<1> DEFINE a == [s.access EXCEPT !.keys = NoKeys, !.pages = FALSE, !.dependents = FALSE]
<1>1. s.access \in AccessStates BY DEF SearchKeys
<1>2. /\ a \in AccessStates /\ a.found = s.access.found /\ a.tracked = s.access.tracked /\ a.page = s.access.page
      /\ a.keys = NoKeys /\ ~a.pages /\ ~a.dependents
  BY <1>1 DEF AccessStates, Keys
<1>3. t = [s EXCEPT !.access = a, !.excluded = TRUE] BY <1>1 DEF SearchKeys
<1> HIDE DEF a
<1>4. /\ t \in SearchKeys /\ t.gen = s.gen /\ t.rev = s.rev /\ t.work = s.work /\ t.cursor = s.cursor /\ t.issued = s.issued
      /\ t.access = a /\ t.excluded = TRUE
  BY <1>2, <1>3 DEF SearchKeys
<1> QED BY <1>2, <1>4

LEMMA ExclusionIs ==
    ASSUME TypeInv, fdb.access.found, NEW class \in {"live", "access"}, NEW t,
           t = [ScheduleSearchChange(WithoutWork(fdb, class), "exclusion")
                   EXCEPT !.access.keys = NoKeys, !.access.pages = FALSE,
                          !.access.dependents = FALSE, !.excluded = TRUE]
    PROVE  ExclusionScheduled(t)
<1> DEFINE r == WithoutWork(fdb, class)
           s == ScheduleSearchChange(r, "exclusion")
           cur == Changed(r, "exclusion")
<1>0. fdb \in SearchKeys /\ fdb.gen \in Nat BY DEF TypeInv, TypeOK, SearchKeys
<1>1. r \in SearchKeys /\ r.gen = fdb.gen /\ r.issued = fdb.issued /\ r.access = fdb.access BY <1>0, WithoutWorkIs DEF Classes
<1> HIDE DEF r
<1>2. "exclusion" = Adjusted(r, "exclusion") BY DEF Adjusted
<1>3. /\ s \in SearchKeys /\ s.gen = r.gen + 1 /\ s.rev = NewRevision(r, "exclusion")
      /\ s.issued = r.issued /\ s.access = r.access
      /\ \A c \in Classes : /\ s.work[c] = NewRecord(r.work[c], Plan["exclusion"][c], cur)
                            /\ s.cursor[c] = NewCursor(r.work[c], r.cursor[c], Plan["exclusion"][c])
  BY <1>1, <1>2, ScheduleIs
<1>4. t = [s EXCEPT !.access.keys = NoKeys, !.access.pages = FALSE, !.access.dependents = FALSE, !.excluded = TRUE]
  BY DEF r
<1> HIDE DEF s
<1>5. cur = [gen |-> s.gen, rev |-> s.rev, deleted |-> FALSE] /\ s.rev = s.gen BY <1>3 DEF Changed, NewRevision
<1>6. cur # NoRecord
  <2>1. s.gen > 0 BY <1>0, <1>1, <1>3
  <2> HIDE DEF cur
  <2> QED BY <1>5, <2>1 DEF NoRecord
<1> HIDE DEF cur
<1>7. /\ Plan["exclusion"]["live"] = "remove" /\ Plan["exclusion"]["access"] = "remove" /\ Plan["exclusion"]["cleanup"] = "put"
      /\ {"live", "access", "cleanup"} \subseteq Classes
  BY DEF Plan, Classes
<1>8. /\ s.work["live"] = NewRecord(r.work["live"], "remove", cur)
      /\ s.cursor["live"] = NewCursor(r.work["live"], r.cursor["live"], "remove")
      /\ s.work["access"] = NewRecord(r.work["access"], "remove", cur)
      /\ s.cursor["access"] = NewCursor(r.work["access"], r.cursor["access"], "remove")
      /\ s.work["cleanup"] = NewRecord(r.work["cleanup"], "put", cur)
      /\ s.cursor["cleanup"] = NewCursor(r.work["cleanup"], r.cursor["cleanup"], "put")
  BY <1>3, <1>7
<1>9. Removed("live", s) /\ Removed("access", s) /\ Put("cleanup", s, FALSE)
  BY <1>5, <1>6, <1>8 DEF Put, Removed, NewRecord, NewCursor
<1>10. /\ t \in SearchKeys /\ t.gen = s.gen /\ t.rev = s.rev /\ t.work = s.work /\ t.cursor = s.cursor /\ t.issued = s.issued
       /\ t.excluded = TRUE
       /\ t.access.found = s.access.found /\ t.access.tracked = s.access.tracked /\ t.access.page = s.access.page
       /\ t.access.keys = NoKeys /\ ~t.access.pages /\ ~t.access.dependents
  BY <1>3, <1>4, AccessCleared
<1>11. Removed("live", t) /\ Removed("access", t) /\ Put("cleanup", t, FALSE) BY <1>9, <1>10 DEF Put, Removed
<1> QED BY <1>1, <1>3, <1>5, <1>10, <1>11 DEF ExclusionScheduled, Raised

\* verifyClaim finds the record of the claimed generation.
LEMMA VerifiedIs ==
    ASSUME TypeInv, NEW w \in Workers, Busy(w), Verified(w)
    PROVE  LET me == worker[w] IN
           /\ me \in Slices /\ me.class \in Classes /\ Pending(me.class) /\ fdb.gen = me.gen /\ fdb.gen > 0
           /\ me.deleted <=> ~present
           /\ fdb.work[me.class].gen = fdb.gen
           /\ me.class = "live" => present /\ me.rev = fdb.rev
<1> DEFINE me == worker[w]
<1>1. me \in Slices /\ me.class \in Classes /\ SliceGood(me) BY DEF TypeInv, TypeOK, Slices, WorkersGood
<1>2. fdb.work[me.class].gen = me.gen /\ fdb.gen = me.gen BY DEF Verified
<1>3. ItemGood(me) BY <1>1 DEF SliceGood, Busy
<1>4. Pending(me.class) BY <1>2, <1>3 DEF ItemGood, Pending, NoRecord
<1>5. RecordGood(me.class) BY <1>1 DEF TypeInv, KeysGood
<1> QED BY <1>1, <1>2, <1>3, <1>4, <1>5 DEF ItemGood, RecordGood

LEMMA KeyNumbers ==
    ASSUME TypeInv
    PROVE  /\ fdb \in SearchKeys /\ fdb.gen \in Nat /\ fdb.rev \in Nat /\ Owed \in {0, 1} /\ events \in Nat
           /\ events \in 0..MaxEvents
           /\ \A c \in Classes : /\ fdb.work[c] \in Records /\ fdb.work[c].gen \in Nat /\ fdb.work[c].rev \in Nat
                                 /\ fdb.cursor[c] \in Checkpoints /\ fdb.cursor[c].gen \in Nat
BY DEF TypeInv, TypeOK, SearchKeys, Records, Checkpoints, Owed

\* A class without work is never in the way of the invariant.
LEMMA EmptyRecord ==
    ASSUME NEW c \in Classes, fdb'.work[c] = NoRecord
    PROVE  RecordGood(c)'
BY DEF RecordGood, Pending

LEMMA LiveCursorStart == ASSUME fdb'.cursor["live"] = NoCursor PROVE LiveCursorGood'
BY Constants DEF LiveCursorGood, NoCursor

LEMMA RevisionKeys ==
    ASSUME TypeInv, present, present', RevisionScheduled(fdb'), events' = events + 1
    PROVE  KeysGood' /\ Ages
<1>0. /\ fdb.gen \in Nat /\ fdb.rev \in Nat /\ Owed \in {0, 1} /\ events \in Nat /\ fdb.gen > 0 /\ fdb.rev <= fdb.gen
      /\ fdb.access.found /\ fdb.gen + Owed <= 3 + 2 * events
  BY KeyNumbers DEF TypeInv, KeysGood
<1>1. /\ fdb'.gen = fdb.gen + 1 /\ fdb'.rev = fdb'.gen /\ fdb'.access = fdb.access BY DEF RevisionScheduled, Raised
<1>2. Owed' \in {0, 1} BY DEF Owed
<1>3. fdb'.gen + Owed' <= 3 + 2 * events' BY <1>0, <1>1, <1>2
<1>4. RecordGood("live")' BY <1>0, <1>1 DEF RevisionScheduled, Put, RecordGood
<1>5. RecordGood("access")'
  <2>1. CASE Put("access", fdb', FALSE) BY <1>0, <1>1, <2>1 DEF Put, RecordGood
  <2>2. CASE fdb'.work["access"] = NoRecord BY <2>2, EmptyRecord DEF Classes
  <2> QED BY <2>1, <2>2 DEF RevisionScheduled
<1>6. RecordGood("cleanup")'
  <2>1. Rewritten("cleanup", fdb') BY DEF RevisionScheduled
  <2>2. CASE Pending("cleanup")
    <3>1. RecordGood("cleanup") /\ fdb.work["cleanup"].rev \in Nat BY KeyNumbers DEF TypeInv, KeysGood, Classes
    <3> QED BY <1>0, <1>1, <2>1, <2>2, <3>1 DEF Rewritten, RecordGood
  <2>3. CASE ~Pending("cleanup") BY <2>1, <2>3, EmptyRecord DEF Rewritten, Classes
  <2> QED BY <2>2, <2>3
<1>7. /\ fdb'.cursor["live"].gen <= fdb'.gen /\ fdb'.cursor["access"].gen <= fdb'.gen /\ fdb'.cursor["cleanup"].gen <= fdb'.gen
  <2>1. \A c \in Classes : fdb.cursor[c].gen <= fdb.gen /\ fdb.cursor[c].gen \in Nat BY KeyNumbers DEF TypeInv, KeysGood
  <2>2. \A c \in Classes : fdb.cursor[c].gen <= fdb'.gen BY <1>0, <1>1, <2>1
  <2>3. NoCursor.gen <= fdb'.gen BY <1>0, <1>1 DEF NoCursor
  <2> QED BY <2>2, <2>3 DEF RevisionScheduled, Put, Rewritten, Classes
<1>8. LiveCursorGood' BY LiveCursorStart DEF RevisionScheduled, Put
<1>9. KeysGood' BY <1>0, <1>1, <1>3, <1>4, <1>5, <1>6, <1>7, <1>8 DEF KeysGood, Classes
<1> QED BY <1>0, <1>1, <1>9 DEF Ages

LEMMA AccessKeys ==
    ASSUME TypeInv, present, present', AccessScheduled(fdb'), events' = events + 1
    PROVE  KeysGood' /\ Ages
<1>0. /\ fdb.gen \in Nat /\ fdb.rev \in Nat /\ Owed \in {0, 1} /\ events \in Nat /\ fdb.gen > 0 /\ fdb.rev > 0 /\ fdb.rev <= fdb.gen
      /\ fdb.access.found /\ fdb.gen + Owed <= 3 + 2 * events
  BY KeyNumbers DEF TypeInv, KeysGood
<1>1. /\ fdb'.gen = fdb.gen + 1 /\ fdb'.rev = fdb.rev /\ fdb'.access = fdb.access BY DEF AccessScheduled, Raised
<1>2. Owed' \in {0, 1} BY DEF Owed
<1>3. fdb'.gen + Owed' <= 3 + 2 * events' BY <1>0, <1>1, <1>2
<1>4. RecordGood("access")' BY <1>0, <1>1 DEF AccessScheduled, Put, RecordGood
<1>5. ASSUME NEW c \in {"live", "cleanup"} PROVE RecordGood(c)'
  <2>1. Rewritten(c, fdb') /\ c \in Classes BY DEF AccessScheduled, Classes
  <2>2. CASE Pending(c)
    <3>1. RecordGood(c) /\ fdb.work[c].rev \in Nat BY <2>1, KeyNumbers DEF TypeInv, KeysGood
    <3> QED BY <1>0, <1>1, <2>1, <2>2, <3>1 DEF Rewritten, RecordGood
  <2>3. CASE ~Pending(c) BY <2>1, <2>3, EmptyRecord DEF Rewritten
  <2> QED BY <2>2, <2>3
<1>6. /\ fdb'.cursor["live"].gen <= fdb'.gen /\ fdb'.cursor["access"].gen <= fdb'.gen /\ fdb'.cursor["cleanup"].gen <= fdb'.gen
  <2>1. \A c \in Classes : fdb.cursor[c].gen <= fdb.gen /\ fdb.cursor[c].gen \in Nat BY KeyNumbers DEF TypeInv, KeysGood
  <2>2. \A c \in Classes : fdb.cursor[c].gen <= fdb'.gen BY <1>0, <1>1, <2>1
  <2>3. NoCursor.gen <= fdb'.gen BY <1>0, <1>1 DEF NoCursor
  <2> QED BY <2>2, <2>3 DEF AccessScheduled, Put, Rewritten, Classes
<1>7. LiveCursorGood' BY DEF AccessScheduled, Rewritten, LiveCursorGood, TypeInv, KeysGood
<1>8. KeysGood' BY <1>0, <1>1, <1>3, <1>4, <1>5, <1>6, <1>7 DEF KeysGood, Classes
<1> QED BY <1>0, <1>1, <1>8 DEF Ages

LEMMA DeletionKeys ==
    ASSUME TypeInv, present, ~present', DeletionScheduled(fdb'), events' = events + 1,
           \/ Removed("access", fdb')
           \/ /\ fdb'.work["access"] = [gen |-> fdb'.gen, rev |-> fdb'.rev, deleted |-> TRUE]
              /\ fdb'.cursor["access"].gen = fdb'.gen /\ fdb'.cursor["access"].phase = "dependents"
    PROVE  KeysGood' /\ Ages
<1>0. /\ fdb.gen \in Nat /\ fdb.rev \in Nat /\ Owed \in {0, 1} /\ events \in Nat /\ fdb.gen > 0 /\ fdb.rev > 0 /\ fdb.rev <= fdb.gen
      /\ fdb.gen + Owed <= 3 + 2 * events
  BY KeyNumbers DEF TypeInv, KeysGood
<1>1. fdb'.gen = fdb.gen + 1 /\ fdb'.rev = fdb.rev /\ ~fdb'.excluded BY DEF DeletionScheduled, Raised
<1>2. Owed' \in {0, 1} BY DEF Owed
<1>3. fdb'.gen + Owed' <= 3 + 2 * events' BY <1>0, <1>1, <1>2
<1>4. RecordGood("cleanup")' BY <1>0, <1>1 DEF DeletionScheduled, Put, RecordGood
<1>5. RecordGood("live")' BY EmptyRecord DEF DeletionScheduled, Removed, Classes
<1>6. RecordGood("access")'
  <2>1. CASE Removed("access", fdb') BY <2>1, EmptyRecord DEF Removed, Classes
  <2>2. CASE fdb'.work["access"] = [gen |-> fdb'.gen, rev |-> fdb'.rev, deleted |-> TRUE]
    BY <1>0, <1>1, <2>2 DEF RecordGood
  <2> QED BY <2>1, <2>2
<1>7. /\ fdb'.cursor["live"].gen <= fdb'.gen /\ fdb'.cursor["access"].gen <= fdb'.gen /\ fdb'.cursor["cleanup"].gen <= fdb'.gen
  BY <1>0, <1>1 DEF NoCursor, DeletionScheduled, Put, Removed
<1>8. LiveCursorGood' BY LiveCursorStart DEF DeletionScheduled, Removed
<1>9. (~present /\ Pending("access") => FanoutLeft)' BY DEF Removed, Pending, FanoutLeft
<1>10. KeysGood' BY <1>0, <1>1, <1>3, <1>4, <1>5, <1>6, <1>7, <1>8, <1>9 DEF KeysGood, Classes
<1>11. fdb.gen > 0 /\ fdb'.gen = fdb.gen + 1 /\ fdb'.rev >= fdb.rev /\ (present' => present) BY <1>0, <1>1
<1> QED BY <1>10, <1>11 DEF Ages

LEMMA ExclusionKeys ==
    ASSUME TypeInv, present, present', ExclusionScheduled(fdb'), events' = events, Pending("live") \/ Pending("access")
    PROVE  KeysGood' /\ Ages
<1>0. /\ fdb.gen \in Nat /\ fdb.rev \in Nat /\ Owed = 1 /\ events \in Nat /\ fdb.gen > 0 /\ fdb.rev > 0 /\ fdb.rev <= fdb.gen
      /\ fdb.gen + Owed <= 3 + 2 * events /\ fdb.access.found
  BY KeyNumbers DEF TypeInv, KeysGood, Owed
<1>1. fdb'.gen = fdb.gen + 1 /\ fdb'.rev = fdb'.gen /\ fdb'.access.found BY <1>0 DEF ExclusionScheduled, Raised
<1>2. Owed' = 0 BY DEF Owed, Pending, ExclusionScheduled, Removed
<1>3. fdb'.gen + Owed' <= 3 + 2 * events' BY <1>0, <1>1, <1>2
<1>4. RecordGood("cleanup")' BY <1>0, <1>1 DEF ExclusionScheduled, Put, RecordGood
<1>5. RecordGood("live")' /\ RecordGood("access")' BY EmptyRecord DEF ExclusionScheduled, Removed, Classes
<1>6. /\ fdb'.cursor["live"].gen <= fdb'.gen /\ fdb'.cursor["access"].gen <= fdb'.gen /\ fdb'.cursor["cleanup"].gen <= fdb'.gen
  BY <1>0, <1>1 DEF NoCursor, ExclusionScheduled, Put, Removed
<1>7. LiveCursorGood' BY LiveCursorStart DEF ExclusionScheduled, Removed
<1>8. KeysGood' BY <1>0, <1>1, <1>3, <1>4, <1>5, <1>6, <1>7 DEF KeysGood, Classes
<1> QED BY <1>0, <1>1, <1>8 DEF Ages

\* The steps that schedule.
LEMMA EditContentIs ==
    ASSUME TypeInv, EditContent
    PROVE  /\ present /\ RevisionScheduled(fdb') /\ events' = events + 1 /\ events' \in 0..MaxEvents
           /\ UNCHANGED <<present, grant, used, told, index, late, worker>>
           /\ fdb'.work["access"] = NoRecord <=> ~Pending("access")
<1>1. /\ present /\ Event /\ fdb' = ScheduleSearchChange(fdb, "content")
      /\ UNCHANGED <<present, grant, used, told, index, late, worker>>
  BY DEF EditContent, Change, source
<1>2. fdb.access.found /\ fdb \in SearchKeys /\ SameKeys(fdb, fdb) BY <1>1, SameKeysSelf DEF TypeInv, KeysGood
<1>3. events' = events + 1 /\ events' \in 0..MaxEvents BY <1>1, Constants DEF Event, TypeInv, TypeOK
<1> QED BY <1>1, <1>2, <1>3, ContentIs

LEMMA MoveIs ==
    ASSUME TypeInv, NEW k \in Grants \cup {NoParent}, Move(k)
    PROVE  /\ present /\ (RevisionScheduled(fdb') \/ AccessScheduled(fdb'))
           /\ Put("access", fdb', FALSE) /\ events' = events + 1 /\ events' \in 0..MaxEvents
           /\ grant' = k /\ used' = used \cup ({k} \cap Grants) /\ Reachable(k)
           /\ UNCHANGED <<present, told, index, late, worker>>
<1>1. /\ present /\ Event /\ fdb' = ScheduleSearchChange(fdb, "access") /\ Reachable(k)
      /\ grant' = k /\ used' = used \cup ({k} \cap Grants)
      /\ UNCHANGED <<present, told, index, late, worker>>
  BY DEF Move, Change
<1>3. events' = events + 1 /\ events' \in 0..MaxEvents BY <1>1, Constants DEF Event, TypeInv, TypeOK
<1> QED BY <1>1, <1>3, AccessIs

LEMMA DeleteIs ==
    ASSUME TypeInv, NEW counterparts \in BOOLEAN, Delete(counterparts)
    PROVE  /\ present /\ ~present' /\ DeletionScheduled(fdb') /\ events' = events + 1 /\ events' \in 0..MaxEvents
           /\ \/ Removed("access", fdb') /\ told' = Gone
              \/ /\ fdb'.work["access"] = [gen |-> fdb'.gen, rev |-> fdb'.rev, deleted |-> TRUE]
                 /\ fdb'.work["access"] # NoRecord
                 /\ fdb'.cursor["access"].gen = fdb'.gen /\ fdb'.cursor["access"].phase = "dependents"
                 /\ told' = told
           /\ UNCHANGED <<grant, used, index, late, worker>>
<1>1. /\ present /\ Event /\ ~present'
      /\ fdb' = (LET s == ScheduleSearchChange(fdb, "deletion") IN IF counterparts THEN ScheduleDeletedFanout(s) ELSE s)
      /\ told' = (IF counterparts THEN told ELSE Gone)
      /\ UNCHANGED <<grant, used, index, late, worker>>
  BY DEF Delete, Change
<1>2. events' = events + 1 /\ events' \in 0..MaxEvents BY <1>1, Constants DEF Event, TypeInv, TypeOK
<1>3. /\ DeletionScheduled(fdb')
      /\ ~counterparts => Removed("access", fdb')
      /\ counterparts => /\ fdb'.work["access"] = [gen |-> fdb'.gen, rev |-> fdb'.rev, deleted |-> TRUE]
                         /\ fdb'.work["access"] # NoRecord
                         /\ fdb'.cursor["access"].gen = fdb'.gen /\ fdb'.cursor["access"].phase = "dependents"
  BY <1>1, DeletionIs
<1> QED BY <1>1, <1>2, <1>3

LEMMA RestartIs ==
    ASSUME TypeInv, NEW w \in Workers, Restart(w)
    PROVE  \/ Quiet
           \/ /\ present /\ RevisionScheduled(fdb') /\ events' = events + 1 /\ events' \in 0..MaxEvents
              /\ Busy(w) /\ Rests(w) /\ UNCHANGED <<present, grant, used, told, index, late>>
              /\ fdb'.work["access"] = NoRecord <=> ~Pending("access")
<1>1. /\ worker[w].pc \in {"content", "register", "refresh"} /\ Busy(w) /\ worker[w].class = "live" /\ Event /\ Ends(w) /\ Rests(w)
      /\ UNCHANGED <<present, grant, used, told, index, late>>
  BY EndsIs DEF Restart, Busy, Fault, source
<1>2. events' = events + 1 /\ events' \in 0..MaxEvents /\ events' \in events..MaxEvents
  BY <1>1, Constants DEF Event, TypeInv, TypeOK
<1>3. CASE ~Verified(w)
  <2>1. UNCHANGED fdb BY <1>3 DEF Restart
  <2> QED BY <1>1, <1>2, <2>1, SameKeysSelf DEF Quiet, TypeInv
<1>4. CASE Verified(w)
  <2> DEFINE s == [fdb EXCEPT !.claim["live"] = NoClaim]
  <2>1. present BY <1>1, <1>4, VerifiedIs
  <2>2. fdb.access.found /\ fdb \in SearchKeys BY <2>1, KeyNumbers DEF TypeInv, KeysGood
  <2>3. s \in SearchKeys /\ SameKeys(fdb, s) BY <2>2, ClaimIs, Sentinels DEF Classes
  <2>4. fdb' = ScheduleSearchChange(s, "content") BY <1>4 DEF Restart
  <2> HIDE DEF s
  <2> QED BY <1>1, <1>2, <2>1, <2>2, <2>3, <2>4, ContentIs
<1> QED BY <1>3, <1>4

LEMMA ExcludeIs ==
    ASSUME TypeInv, NEW w \in Workers, Exclude(w)
    PROVE  \/ Quiet
           \/ /\ present /\ ExclusionScheduled(fdb') /\ Busy(w) /\ worker[w].pc = "exclude" /\ worker[w].gen = fdb.gen
              /\ Rests(w) /\ UNCHANGED <<present, grant, used, told, index, late, events>>
              /\ Pending("live") \/ Pending("access")
<1>1. /\ worker[w].pc = "exclude" /\ Busy(w) /\ Ends(w) /\ Rests(w)
      /\ UNCHANGED <<present, grant, used, told, index, late, events>>
  BY EndsIs DEF Exclude, Busy, source
<1>2. CASE ~Verified(w)
  <2>1. UNCHANGED fdb BY <1>2 DEF Exclude
  <2> QED BY <1>1, <2>1, SameKeysSelf DEF Quiet, TypeInv
<1>3. CASE Verified(w)
  <2>1. /\ worker[w].class \in Classes /\ Pending(worker[w].class) /\ fdb.gen = worker[w].gen
        /\ worker[w].class = "live" => present
    BY <1>1, <1>3, VerifiedIs
  <2>2. PCGood(worker[w]) BY <1>1 DEF TypeInv, WorkersGood, SliceGood, Busy
  <2>3. worker[w].class \in {"live", "access"} /\ present BY <1>1, <2>1, <2>2 DEF PCGood, Classes
  <2>4. fdb.access.found BY <2>3 DEF TypeInv, KeysGood
  <2>5. fdb' = [ScheduleSearchChange(WithoutWork(fdb, worker[w].class), "exclusion")
                   EXCEPT !.access.keys = NoKeys, !.access.pages = FALSE,
                          !.access.dependents = FALSE, !.excluded = TRUE]
    BY <1>3 DEF Exclude
  <2>6. ExclusionScheduled(fdb') BY <2>3, <2>4, <2>5, ExclusionIs
  <2> QED BY <1>1, <2>1, <2>3, <2>6
<1> QED BY <1>2, <1>3

\* The types of a step that schedules.
LEMMA SchedulingTypes ==
    ASSUME TypeInv, KeysGood', Ages, fdb' \in SearchKeys, present' \in BOOLEAN, grant' \in Grants \cup {NoParent},
           used' \subseteq Grants, told' \in Keys \cup {Gone}, UNCHANGED <<index, late>>, events' \in 0..MaxEvents, Resting
    PROVE  TypeInv'
BY RestingSlices, AgesTypes

LEMMA EditContentTypes == ASSUME TypeInv, EditContent PROVE TypeInv'
<1>1. /\ present /\ RevisionScheduled(fdb') /\ events' = events + 1 /\ events' \in 0..MaxEvents
      /\ UNCHANGED <<present, grant, used, told, index, late, worker>>
  BY EditContentIs
<1>2. KeysGood' /\ Ages /\ fdb' \in SearchKeys BY <1>1, RevisionKeys DEF RevisionScheduled, Raised
<1>3. present' \in BOOLEAN /\ grant' \in Grants \cup {NoParent} /\ used' \subseteq Grants /\ told' \in Keys \cup {Gone}
  BY <1>1 DEF TypeInv, TypeOK
<1> QED BY <1>1, <1>2, <1>3, SchedulingTypes DEF Resting

LEMMA RestartTypes == ASSUME TypeInv, NEW w \in Workers, Restart(w) PROVE TypeInv'
<1>1. CASE Quiet BY <1>1, QuietTypes
<1>2. CASE /\ present /\ RevisionScheduled(fdb') /\ events' = events + 1 /\ events' \in 0..MaxEvents
           /\ Busy(w) /\ Rests(w) /\ UNCHANGED <<present, grant, used, told, index, late>>
  <2>1. KeysGood' /\ Ages /\ fdb' \in SearchKeys BY <1>2, RevisionKeys DEF RevisionScheduled, Raised
  <2>2. present' \in BOOLEAN /\ grant' \in Grants \cup {NoParent} /\ used' \subseteq Grants /\ told' \in Keys \cup {Gone}
    BY <1>2 DEF TypeInv, TypeOK
  <2> QED BY <1>2, <2>1, <2>2, SchedulingTypes DEF Resting
<1> QED BY <1>1, <1>2, RestartIs

LEMMA MoveTypes == ASSUME TypeInv, NEW k \in Grants \cup {NoParent}, Move(k) PROVE TypeInv'
<1>1. /\ present /\ (RevisionScheduled(fdb') \/ AccessScheduled(fdb')) /\ events' = events + 1 /\ events' \in 0..MaxEvents
      /\ grant' = k /\ used' = used \cup ({k} \cap Grants)
      /\ UNCHANGED <<present, told, index, late, worker>>
  BY MoveIs
<1>2. KeysGood' /\ Ages /\ fdb' \in SearchKeys BY <1>1, RevisionKeys, AccessKeys DEF RevisionScheduled, AccessScheduled, Raised
<1>3. present' \in BOOLEAN /\ grant' \in Grants \cup {NoParent} /\ used' \subseteq Grants /\ told' \in Keys \cup {Gone}
  BY <1>1 DEF TypeInv, TypeOK
<1> QED BY <1>1, <1>2, <1>3, SchedulingTypes DEF Resting

LEMMA DeleteTypes == ASSUME TypeInv, NEW counterparts \in BOOLEAN, Delete(counterparts) PROVE TypeInv'
<1>1. /\ present /\ ~present' /\ DeletionScheduled(fdb') /\ events' = events + 1 /\ events' \in 0..MaxEvents
      /\ \/ Removed("access", fdb') /\ told' = Gone
         \/ /\ fdb'.work["access"] = [gen |-> fdb'.gen, rev |-> fdb'.rev, deleted |-> TRUE]
            /\ fdb'.work["access"] # NoRecord
            /\ fdb'.cursor["access"].gen = fdb'.gen /\ fdb'.cursor["access"].phase = "dependents"
            /\ told' = told
      /\ UNCHANGED <<grant, used, index, late, worker>>
  BY DeleteIs
<1>2. KeysGood' /\ Ages
  <2>1. \/ Removed("access", fdb')
        \/ /\ fdb'.work["access"] = [gen |-> fdb'.gen, rev |-> fdb'.rev, deleted |-> TRUE]
           /\ fdb'.cursor["access"].gen = fdb'.gen /\ fdb'.cursor["access"].phase = "dependents"
    BY <1>1
  <2> QED BY <1>1, <2>1, DeletionKeys
<1>3. fdb' \in SearchKeys BY <1>1 DEF DeletionScheduled, Raised
<1>4. present' = FALSE BY DEF Delete
<1>5. grant' \in Grants \cup {NoParent} /\ used' \subseteq Grants /\ told' \in Keys \cup {Gone}
  BY <1>1 DEF TypeInv, TypeOK
<1> QED BY <1>1, <1>2, <1>3, <1>4, <1>5, SchedulingTypes DEF Resting

LEMMA ExcludeTypes == ASSUME TypeInv, NEW w \in Workers, Exclude(w) PROVE TypeInv'
<1>1. CASE Quiet BY <1>1, QuietTypes
<1>2. CASE /\ present /\ ExclusionScheduled(fdb') /\ Busy(w)
           /\ Rests(w) /\ UNCHANGED <<present, grant, used, told, index, late, events>>
           /\ Pending("live") \/ Pending("access")
  <2>1. KeysGood' /\ Ages /\ fdb' \in SearchKeys BY <1>2, ExclusionKeys DEF ExclusionScheduled, Raised
  <2>2. /\ present' \in BOOLEAN /\ grant' \in Grants \cup {NoParent} /\ used' \subseteq Grants /\ told' \in Keys \cup {Gone}
        /\ events' \in 0..MaxEvents
    BY <1>2 DEF TypeInv, TypeOK
  <2> QED BY <1>2, <2>1, <2>2, SchedulingTypes DEF Resting
<1> QED BY <1>1, <1>2, ExcludeIs

-----------------------------------------------------------------------------
(* Transactions of a slice that move the node's work on.                   *)

\* The counters stay; a class keeps its work and checkpoint, or is given another checkpoint.
Kept(t) == t \in SearchKeys /\ t.gen = fdb.gen /\ t.rev = fdb.rev
KeptClass(c, t) == t.work[c] = fdb.work[c] /\ t.cursor[c] = fdb.cursor[c]
Pointed(c, k, t) == t.work[c] = fdb.work[c] /\ t.cursor[c] = k

\* Everything but the keys, the slices and what dependents were told
Still == UNCHANGED <<present, grant, used, index, late, events>>

Registered(x) == [x EXCEPT !.pc = "probe", !.held = x.doc \in fdb.held]

Registers(w) ==
    /\ PageVerified(w) /\ worker[w].pc = "register" /\ Still /\ UNCHANGED told
    /\ Kept(fdb') /\ fdb'.excluded = fdb.excluded /\ \A c \in Classes : KeptClass(c, fdb')
    /\ fdb'.issued = fdb.issued \cup {worker[w].doc}
    /\ fdb'.access = Tracked(fdb.access, worker[w].keys) /\ fdb'.access \in AccessStates
    /\ worker' = [worker EXCEPT ![w] = Registered(worker[w])]

NextPhase(x) == IF x.ord + 1 = Pages THEN "refresh" ELSE "pages"
NextPage(x) ==
    [x EXCEPT !.ord = x.ord + 1, !.phase = NextPhase(x), !.pc = IF x.ord + 1 = Pages THEN "refresh" ELSE "content",
              !.doc = NoDocument, !.seq = 0, !.held = FALSE, !.keys = NoKeys]
PageCursor(x) == [gen |-> x.gen, rev |-> x.rev, ord |-> x.ord + 1, doc |-> NoDocument, phase |-> NextPhase(x)]

CompletesPage(w) ==
    /\ PageVerified(w) /\ worker[w].pc = "complete" /\ worker[w].class = "live" /\ Still /\ UNCHANGED told
    /\ Kept(fdb') /\ fdb'.issued = fdb.issued /\ fdb'.access = fdb.access /\ fdb'.excluded = fdb.excluded
    /\ Pointed("live", PageCursor(worker[w]), fdb') /\ KeptClass("access", fdb') /\ KeptClass("cleanup", fdb')
    /\ worker' = [worker EXCEPT ![w] = NextPage(worker[w])]

Refreshes(w) ==
    /\ Verified(w) /\ Progress(fdb, "live").phase = "refresh" /\ worker[w].pc = "refresh" /\ Still /\ UNCHANGED told
    /\ Kept(fdb') /\ fdb'.issued = fdb.issued /\ fdb'.access = fdb.access /\ ~fdb'.excluded
    /\ Removed("live", fdb') /\ KeptClass("access", fdb') /\ fdb'.cursor["cleanup"] = fdb.cursor["cleanup"]
    /\ fdb'.work["cleanup"].gen = fdb.work["live"].gen /\ fdb'.work["cleanup"].rev = fdb.work["live"].rev
    /\ ~fdb'.work["cleanup"].deleted /\ fdb'.work["cleanup"] # NoRecord
    /\ Busy(w) /\ Rests(w)

Begun(x, pc) == [x EXCEPT !.doc = NoDocument, !.pc = pc]

BeginsAccess(w) ==
    LET rewrite == ~PagesStored(fdb.access, worker[w].keys) IN
    /\ Verified(w) /\ worker[w].pc = "begin" /\ fdb.access.keys # worker[w].keys /\ Still /\ UNCHANGED told
    /\ Kept(fdb') /\ fdb'.issued = fdb.issued /\ fdb'.excluded = fdb.excluded
    /\ KeptClass("live", fdb') /\ KeptClass("cleanup", fdb')
    /\ Pointed("access", AccessCursor(worker[w], NoDocument, IF rewrite THEN "pages" ELSE "dependents"), fdb')
    /\ fdb'.access.found = fdb.access.found /\ fdb'.access.keys = worker[w].keys /\ fdb'.access.pages = rewrite
    /\ fdb'.access.dependents /\ ~fdb'.access.tracked /\ fdb'.access.page = NoKeys
    /\ worker' = [worker EXCEPT ![w] = Begun(worker[w], IF rewrite THEN "documents" ELSE "dependents")]

\* The pages carry the recorded access already.
SkipsPages(w) ==
    /\ Verified(w) /\ worker[w].pc = "begin" /\ fdb.access.keys = worker[w].keys
    /\ ~fdb.access.pages /\ fdb.access.dependents /\ Still /\ UNCHANGED told
    /\ Kept(fdb') /\ fdb'.issued = fdb.issued /\ fdb'.access = fdb.access /\ fdb'.excluded = fdb.excluded
    /\ KeptClass("live", fdb') /\ KeptClass("cleanup", fdb')
    /\ Pointed("access", AccessCursor(worker[w], NoDocument, "dependents"), fdb')
    /\ worker' = [worker EXCEPT ![w] = At(worker[w], "dependents")]

\* Nothing is left to do for the recorded access.
NothingToDo(w) ==
    /\ Verified(w) /\ worker[w].pc = "begin" /\ fdb.access.keys = worker[w].keys
    /\ ~fdb.access.pages /\ ~fdb.access.dependents /\ Still /\ UNCHANGED told
    /\ Kept(fdb') /\ fdb'.issued = fdb.issued /\ fdb'.access = fdb.access /\ fdb'.excluded = fdb.excluded
    /\ KeptClass("live", fdb') /\ KeptClass("cleanup", fdb') /\ Removed("access", fdb')
    /\ Busy(w) /\ Rests(w)

\* Some pages carry the access, the loop goes on after the document at hand.
ChecksPoint(w) ==
    /\ Verified(w) /\ worker[w].pc = "complete" /\ worker[w].class = "access" /\ fdb.access.keys = worker[w].keys
    /\ ~worker[w].done /\ Still /\ UNCHANGED told
    /\ Kept(fdb') /\ fdb'.issued = fdb.issued /\ fdb'.access = fdb.access /\ fdb'.excluded = fdb.excluded
    /\ KeptClass("live", fdb') /\ KeptClass("cleanup", fdb')
    /\ Pointed("access", AccessCursor(worker[w], worker[w].doc, "pages"), fdb')
    /\ Busy(w) /\ Rests(w)

\* All pages carry the access.
CompletesPages(w) ==
    /\ Verified(w) /\ worker[w].pc = "complete" /\ worker[w].class = "access" /\ fdb.access.keys = worker[w].keys
    /\ worker[w].done /\ Still /\ UNCHANGED told
    /\ Kept(fdb') /\ fdb'.issued = fdb.issued /\ fdb'.excluded = fdb.excluded
    /\ KeptClass("live", fdb') /\ KeptClass("cleanup", fdb')
    /\ fdb'.access = [fdb.access EXCEPT !.pages = FALSE]
    /\ IF fdb.access.dependents THEN Pointed("access", AccessCursor(worker[w], NoDocument, "dependents"), fdb')
       ELSE Removed("access", fdb')
    /\ Busy(w) /\ Rests(w)

TellsDependents(w) ==
    /\ Verified(w) /\ worker[w].pc = "dependents" /\ ~worker[w].deleted /\ Still /\ told' = fdb.access.keys
    /\ Kept(fdb') /\ fdb'.issued = fdb.issued /\ fdb'.excluded = fdb.excluded
    /\ KeptClass("live", fdb') /\ KeptClass("cleanup", fdb') /\ Removed("access", fdb')
    /\ fdb'.access = [fdb.access EXCEPT !.dependents = FALSE]
    /\ Busy(w) /\ Rests(w)

\* The last work of a deleted node ends, or another class is still pending.
Finishes(class, other) ==
    /\ fdb' \in SearchKeys /\ fdb'.excluded = fdb.excluded
    /\ Pending(other) => /\ Kept(fdb') /\ fdb'.access = fdb.access /\ Removed(class, fdb')
                         /\ \A k \in Classes \ {class} : KeptClass(k, fdb')
    /\ ~Pending(other) => fdb'.gen = 0 /\ fdb'.rev = 0 /\ \A k \in Classes : Removed(k, fdb')

FinishesFanout(w) ==
    /\ Verified(w) /\ worker[w].pc = "dependents" /\ worker[w].deleted /\ Still /\ told' = Gone
    /\ Finishes("access", "cleanup") /\ fdb'.issued = fdb.issued
    /\ Busy(w) /\ Rests(w)

\* A page is retired: it need not be issued any longer.
Retires(w) ==
    /\ Verified(w) /\ worker[w].pc = "complete" /\ worker[w].class = "cleanup" /\ ~worker[w].done /\ Still /\ UNCHANGED told
    /\ Kept(fdb') /\ fdb'.access = fdb.access /\ fdb'.excluded = fdb.excluded /\ \A c \in Classes : KeptClass(c, fdb')
    /\ fdb'.issued = fdb.issued \ {worker[w].doc}
    /\ Busy(w) /\ Rests(w)

FinishesCleanup(w) ==
    /\ Verified(w) /\ worker[w].pc = "complete" /\ worker[w].class = "cleanup" /\ worker[w].done /\ Still /\ UNCHANGED told
    /\ fdb'.issued = fdb.issued \ {worker[w].doc}
    /\ \/ fdb.work["cleanup"].deleted /\ Finishes("cleanup", "access")
       \/ /\ ~fdb.work["cleanup"].deleted /\ Kept(fdb') /\ fdb'.access = fdb.access /\ fdb'.excluded = fdb.excluded
          /\ Removed("cleanup", fdb') /\ KeptClass("live", fdb') /\ KeptClass("access", fdb')
    /\ Busy(w) /\ Rests(w)

WithCursor(s, c, k) == [s EXCEPT !.cursor[c] = k]
WithAccess(s, a) == [s EXCEPT !.access = a]

LEMMA CheckpointIs ==
    ASSUME NEW s \in SearchKeys, NEW c \in Classes, NEW k \in Checkpoints
    PROVE  LET t == WithCursor(s, c, k) IN
           /\ t \in SearchKeys /\ t.gen = s.gen /\ t.rev = s.rev /\ t.work = s.work /\ t.issued = s.issued
           /\ t.access = s.access /\ t.excluded = s.excluded
           /\ t.cursor[c] = k /\ \A b \in Classes \ {c} : t.cursor[b] = s.cursor[b]
<1> DEFINE t == WithCursor(s, c, k)
<1>1. s.cursor \in [Classes -> Checkpoints] /\ [s.cursor EXCEPT ![c] = k] \in [Classes -> Checkpoints] BY DEF SearchKeys
<1>2. t = [s EXCEPT !.cursor = [s.cursor EXCEPT ![c] = k]] BY DEF SearchKeys, WithCursor
<1> HIDE DEF t
<1>3. /\ t \in SearchKeys /\ t.gen = s.gen /\ t.rev = s.rev /\ t.work = s.work /\ t.issued = s.issued
      /\ t.access = s.access /\ t.excluded = s.excluded /\ t.cursor = [s.cursor EXCEPT ![c] = k]
  BY <1>1, <1>2 DEF SearchKeys
<1>4. /\ t \in SearchKeys /\ t.gen = s.gen /\ t.rev = s.rev /\ t.work = s.work /\ t.issued = s.issued
      /\ t.access = s.access /\ t.excluded = s.excluded
      /\ t.cursor[c] = k /\ \A b \in Classes \ {c} : t.cursor[b] = s.cursor[b]
  BY <1>1, <1>3
<1> QED BY <1>4 DEF t

LEMMA AccessSet ==
    ASSUME NEW s \in SearchKeys, NEW a \in AccessStates
    PROVE  LET t == WithAccess(s, a) IN
           /\ t \in SearchKeys /\ t.gen = s.gen /\ t.rev = s.rev /\ t.work = s.work /\ t.issued = s.issued
           /\ t.access = a /\ t.excluded = s.excluded /\ t.cursor = s.cursor
BY DEF SearchKeys, WithAccess

LEMMA IssuedSet ==
    ASSUME NEW s \in SearchKeys, NEW i, i \subseteq Documents, NEW t, t = [s EXCEPT !.issued = i]
    PROVE  /\ t \in SearchKeys /\ t.gen = s.gen /\ t.rev = s.rev /\ t.work = s.work /\ t.issued = i
           /\ t.access = s.access /\ t.excluded = s.excluded /\ t.cursor = s.cursor
BY DEF SearchKeys

LEMMA WorkCleared ==
    ASSUME NEW s \in SearchKeys, NEW c \in Classes
    PROVE  LET t == WithoutWork(s, c) IN
           /\ t \in SearchKeys
           /\ t.gen = s.gen /\ t.rev = s.rev /\ t.issued = s.issued /\ t.access = s.access /\ t.excluded = s.excluded
           /\ t.work[c] = NoRecord /\ t.cursor[c] = NoCursor
           /\ \A k \in Classes \ {c} : t.work[k] = s.work[k] /\ t.cursor[k] = s.cursor[k]
BY WithoutWorkIs

LEMMA RegisterIs ==
    ASSUME TypeInv, NEW w \in Workers, Register(w)
    PROVE  Quiet \/ Registers(w)
<1> DEFINE me == worker[w]
<1>1. me.pc = "register" /\ Busy(w) /\ UNCHANGED <<source, told, index, late, events>> BY DEF Register, Busy
<1>2. fdb \in SearchKeys /\ fdb.access \in AccessStates BY KeyNumbers DEF SearchKeys
<1>3. CASE ~PageVerified(w)
  <2>1. Goes(w, "yield") /\ UNCHANGED fdb BY <1>3 DEF Register
  <2> QED BY <1>1, <2>1, RestQuiet, SameKeysSelf DEF TypeInv
<1>4. CASE PageVerified(w)
  <2>1. me \in Slices /\ PageAtHand(me) /\ PCGood(me) BY <1>1 DEF TypeInv, TypeOK, WorkersGood, SliceGood
  <2>2. me.doc \in Documents /\ me.keys \in Grants BY <1>1, <2>1 DEF PageAtHand, PCGood, PagePCs
  <2> DEFINE a == Tracked(fdb.access, me.keys)  i == fdb.issued \cup {me.doc}
  <2>3. a \in AccessStates BY <1>2, <2>2, TrackedIs
  <2>4. fdb' = [fdb EXCEPT !.issued = i, !.access = a] /\ worker' = [worker EXCEPT ![w] = Registered(me)]
    BY <1>2, <1>4 DEF Register, Registered, TypeInv, TypeOK, SearchKeys
  <2>5. i \subseteq Documents BY <1>2, <2>2 DEF SearchKeys
  <2> HIDE DEF a, i
  <2>6. /\ fdb' \in SearchKeys /\ fdb'.gen = fdb.gen /\ fdb'.rev = fdb.rev /\ fdb'.work = fdb.work /\ fdb'.issued = i
        /\ fdb'.access = a /\ fdb'.excluded = fdb.excluded /\ fdb'.cursor = fdb.cursor
    BY <1>2, <2>3, <2>4, <2>5 DEF SearchKeys
  <2> QED BY <1>1, <1>4, <2>3, <2>4, <2>6 DEF Registers, Kept, KeptClass, Still, source, a, i
<1> QED BY <1>3, <1>4

LEMMA CompletePageIs ==
    ASSUME TypeInv, NEW w \in Workers, CompletePage(w)
    PROVE  Quiet \/ CompletesPage(w)
<1> DEFINE me == worker[w]
<1>1. me.pc = "complete" /\ me.class = "live" /\ Busy(w) /\ UNCHANGED <<source, told, index, late, events>>
  BY DEF CompletePage, Busy
<1>2. fdb \in SearchKeys BY KeyNumbers
<1>3. CASE ~PageVerified(w)
  <2>1. Goes(w, "yield") /\ UNCHANGED fdb BY <1>3 DEF CompletePage
  <2> QED BY <1>1, <2>1, RestQuiet, SameKeysSelf DEF TypeInv
<1>4. CASE PageVerified(w)
  <2>1. me \in Slices /\ PageAtHand(me) BY <1>1 DEF TypeInv, TypeOK, WorkersGood, SliceGood
  <2>2. me.ord < Pages /\ me.ord \in Nat /\ me.gen \in Nat /\ me.rev \in Nat
    BY <1>1, <2>1, Constants DEF PageAtHand, PagePCs, Slices
  <2> DEFINE h == (IF me.held THEN fdb.held \ {me.doc} ELSE fdb.held)  k == PageCursor(me)
  <2>3. k \in Checkpoints
    <3>1. me.ord + 1 \in 0..Pages /\ NextPhase(me) \in Phases BY <2>2, Constants DEF NextPhase, Phases
    <3> QED BY <2>2, <3>1 DEF PageCursor, Checkpoints
  <2>4. h \subseteq Documents BY <1>2 DEF SearchKeys
  <2>5. fdb' = [fdb EXCEPT !.held = h, !.cursor["live"] = k] BY <1>2, <1>4 DEF CompletePage, PageCursor, NextPhase, SearchKeys
  <2>6. worker' = [worker EXCEPT ![w] = NextPage(me)] BY <1>4, <2>1 DEF CompletePage, NextPage, NextPhase, TypeInv, TypeOK
  <2> HIDE DEF h, k
  <2> DEFINE s == [fdb EXCEPT !.held = h]
  <2>7. s \in SearchKeys /\ SameKeys(fdb, s) BY <1>2, <2>4, HeldIs
  <2>8. fdb' = WithCursor(s, "live", k) BY <2>5 DEF WithCursor
  <2> HIDE DEF s
  <2>9. /\ fdb' \in SearchKeys /\ fdb'.gen = s.gen /\ fdb'.rev = s.rev /\ fdb'.work = s.work /\ fdb'.issued = s.issued
        /\ fdb'.access = s.access /\ fdb'.excluded = s.excluded
        /\ fdb'.cursor["live"] = k /\ \A b \in Classes \ {"live"} : fdb'.cursor[b] = s.cursor[b]
    <3>1. "live" \in Classes BY DEF Classes
    <3> QED BY <2>3, <2>7, <2>8, <3>1, CheckpointIs
  <2>10. fdb'.cursor["access"] = fdb.cursor["access"] /\ fdb'.cursor["cleanup"] = fdb.cursor["cleanup"]
    BY <2>7, <2>9 DEF Classes, SameKeys
  <2> QED BY <1>1, <1>4, <2>6, <2>7, <2>9, <2>10 DEF CompletesPage, Kept, KeptClass, Pointed, Still, source, SameKeys, k
<1> QED BY <1>3, <1>4

LEMMA CompleteRefreshIs ==
    ASSUME TypeInv, NEW w \in Workers, CompleteRefresh(w)
    PROVE  Quiet \/ Refreshes(w)
<1> DEFINE me == worker[w]
<1>1. me.pc = "refresh" /\ Busy(w) /\ UNCHANGED <<source, told, index, late, events>>
  BY DEF CompleteRefresh, Busy
<1>2. fdb \in SearchKeys /\ fdb.work["live"] \in Records BY KeyNumbers DEF Classes
<1>3. CASE ~(Verified(w) /\ Progress(fdb, "live").phase = "refresh")
  <2>1. Goes(w, "yield") /\ UNCHANGED fdb BY <1>3 DEF CompleteRefresh
  <2> QED BY <1>1, <2>1, RestQuiet, SameKeysSelf DEF TypeInv
<1>4. CASE Verified(w) /\ Progress(fdb, "live").phase = "refresh"
  <2> DEFINE s == WithoutWork(fdb, "live")
             r == [fdb.work["live"] EXCEPT !.deleted = FALSE]
  <2>1. /\ s \in SearchKeys
        /\ s.gen = fdb.gen /\ s.rev = fdb.rev /\ s.issued = fdb.issued /\ s.access = fdb.access /\ s.excluded = fdb.excluded
        /\ s.work["live"] = NoRecord /\ s.cursor["live"] = NoCursor
        /\ \A k \in Classes \ {"live"} : s.work[k] = fdb.work[k] /\ s.cursor[k] = fdb.cursor[k]
    BY <1>2, WithoutWorkIs DEF Classes
  <2>2. r \in Records /\ r.gen = fdb.work["live"].gen /\ r.rev = fdb.work["live"].rev /\ ~r.deleted BY <1>2 DEF Records
  <2>3. fdb' = [s EXCEPT !.excluded = FALSE, !.work["cleanup"] = r] /\ Rests(w)
    BY <1>4, EndsIs DEF CompleteRefresh
  <2> HIDE DEF s, r
  <2>2a. r # NoRecord
    <3>1. worker[w].class = "live" BY <1>1 DEF TypeInv, WorkersGood, SliceGood, PCGood, Busy
    <3>2. fdb.work["live"].gen = fdb.gen /\ fdb.gen > 0 BY <1>1, <1>4, <3>1, VerifiedIs
    <3> QED BY <2>2, <3>2 DEF NoRecord
  <2>4. s.work \in [Classes -> Records] /\ [s.work EXCEPT !["cleanup"] = r] \in [Classes -> Records]
    BY <2>1, <2>2 DEF SearchKeys
  <2>5. fdb' = [s EXCEPT !.excluded = FALSE, !.work = [s.work EXCEPT !["cleanup"] = r]] BY <2>1, <2>3 DEF SearchKeys
  <2>6. /\ fdb' \in SearchKeys /\ fdb'.gen = s.gen /\ fdb'.rev = s.rev /\ fdb'.cursor = s.cursor /\ fdb'.issued = s.issued
        /\ fdb'.access = s.access /\ fdb'.excluded = FALSE /\ fdb'.work = [s.work EXCEPT !["cleanup"] = r]
    BY <2>1, <2>4, <2>5 DEF SearchKeys
  <2>7. fdb'.work["cleanup"] = r /\ fdb'.work["live"] = NoRecord /\ fdb'.work["access"] = fdb.work["access"]
    BY <2>1, <2>4, <2>6 DEF Classes
  <2>8. fdb'.cursor["live"] = NoCursor /\ fdb'.cursor["access"] = fdb.cursor["access"] /\ fdb'.cursor["cleanup"] = fdb.cursor["cleanup"]
    BY <2>1, <2>6 DEF Classes
  <2> QED BY <1>1, <1>4, <2>1, <2>2, <2>2a, <2>3, <2>6, <2>7, <2>8 DEF Refreshes, Kept, KeptClass, Removed, Still, source
<1> QED BY <1>3, <1>4

LEMMA ClassesAre == {"live", "access", "cleanup"} = Classes
BY DEF Classes

LEMMA AccessCursorIs ==
    ASSUME NEW x \in Slices, NEW d \in Documents \cup {NoDocument}, NEW phase \in Phases
    PROVE  AccessCursor(x, d, phase) \in Checkpoints
BY Constants DEF AccessCursor, Slices, Checkpoints

LEMMA BeginAccessIs ==
    ASSUME TypeInv, NEW w \in Workers, BeginAccess(w)
    PROVE  \/ Quiet \/ BeginsAccess(w) \/ SkipsPages(w) \/ NothingToDo(w)
           \/ Verified(w) /\ worker[w].pc = "begin" /\ fdb.access.keys = worker[w].keys /\ Moves(w, At(worker[w], "documents"))
<1> DEFINE me == worker[w]  a == fdb.access  rewrite == ~PagesStored(a, me.keys)
<1>1. me.pc = "begin" /\ Busy(w) /\ UNCHANGED <<source, told, index, late, events>>
  BY DEF BeginAccess, Busy
<1>2. fdb \in SearchKeys /\ a \in AccessStates /\ me \in Slices BY KeyNumbers DEF SearchKeys, TypeInv, TypeOK
<1>3. CASE ~Verified(w)
  <2>1. Goes(w, "yield") /\ UNCHANGED fdb BY <1>3 DEF BeginAccess
  <2> QED BY <1>1, <2>1, RestQuiet, SameKeysSelf DEF TypeInv
<1>4. CASE Verified(w) /\ a.keys # me.keys
  <2> DEFINE b == [a EXCEPT !.keys = me.keys, !.pages = rewrite, !.dependents = TRUE, !.tracked = FALSE, !.page = NoKeys]
             k == AccessCursor(me, NoDocument, IF rewrite THEN "pages" ELSE "dependents")
  <2>1. /\ fdb' = [fdb EXCEPT !.access = b, !.cursor["access"] = k]
        /\ worker' = [worker EXCEPT ![w] = Begun(me, IF rewrite THEN "documents" ELSE "dependents")]
    BY <1>2, <1>4 DEF BeginAccess, Begun, TypeInv, TypeOK, SearchKeys
  <2>2. k \in Checkpoints BY <1>2, AccessCursorIs DEF Phases
  <2>3. /\ b \in AccessStates /\ b.found = a.found /\ b.keys = me.keys /\ b.pages = rewrite /\ b.dependents
        /\ ~b.tracked /\ b.page = NoKeys
    <3> DEFINE m == me.keys  n == rewrite
    <3>1. m \in Keys /\ n \in BOOLEAN /\ NoKeys \in Keys BY <1>2 DEF Slices, Keys
    <3>2. b = [a EXCEPT !.keys = m, !.pages = n, !.dependents = TRUE, !.tracked = FALSE, !.page = NoKeys] OBVIOUS
    <3> HIDE DEF m, n, b, a
    <3>3. /\ b \in AccessStates /\ b.found = a.found /\ b.keys = m /\ b.pages = n /\ b.dependents
          /\ ~b.tracked /\ b.page = NoKeys
      BY <1>2, <3>1, <3>2 DEF AccessStates
    <3> QED BY <3>3 DEF m, n
  <2> DEFINE s == WithAccess(fdb, b)
  <2>4. fdb' = WithCursor(s, "access", k)
    <3> HIDE DEF b, k
    <3> QED BY <2>1 DEF WithCursor, WithAccess
  <2> HIDE DEF b, k
  <2>5. /\ s \in SearchKeys /\ s.gen = fdb.gen /\ s.rev = fdb.rev /\ s.work = fdb.work /\ s.issued = fdb.issued
        /\ s.access = b /\ s.excluded = fdb.excluded /\ s.cursor = fdb.cursor
    BY <1>2, <2>3, AccessSet
  <2> HIDE DEF s
  <2>6. /\ fdb' \in SearchKeys /\ fdb'.gen = s.gen /\ fdb'.rev = s.rev /\ fdb'.work = s.work /\ fdb'.issued = s.issued
        /\ fdb'.access = s.access /\ fdb'.excluded = s.excluded
        /\ fdb'.cursor["access"] = k /\ \A c \in Classes \ {"access"} : fdb'.cursor[c] = s.cursor[c]
    <3>1. "access" \in Classes BY DEF Classes
    <3> QED BY <2>2, <2>4, <2>5, <3>1, CheckpointIs
  <2>7. fdb'.cursor["live"] = fdb.cursor["live"] /\ fdb'.cursor["cleanup"] = fdb.cursor["cleanup"]
    BY <2>5, <2>6 DEF Classes
  <2>8. BeginsAccess(w)
    BY <1>1, <1>4, <2>1, <2>3, <2>5, <2>6, <2>7 DEF BeginsAccess, Kept, KeptClass, Pointed, Still, source, k
  <2> QED BY <2>8
<1>5. CASE Verified(w) /\ a.keys = me.keys /\ a.pages
  <2>1. Goes(w, "documents") /\ UNCHANGED fdb BY <1>2, <1>5 DEF BeginAccess
  <2> QED BY <1>1, <1>5, <2>1, GoesIs, SameKeysSelf DEF Moves, source, TypeInv
<1>6. CASE Verified(w) /\ a.keys = me.keys /\ ~a.pages /\ a.dependents
  <2> DEFINE k == AccessCursor(me, NoDocument, "dependents")
  <2>1. fdb' = WithCursor(fdb, "access", k) /\ Goes(w, "dependents") BY <1>2, <1>6 DEF BeginAccess, WithCursor
  <2>2. k \in Checkpoints BY <1>2, AccessCursorIs DEF Phases
  <2> HIDE DEF k
  <2>3. /\ fdb' \in SearchKeys /\ fdb'.gen = fdb.gen /\ fdb'.rev = fdb.rev /\ fdb'.work = fdb.work /\ fdb'.issued = fdb.issued
        /\ fdb'.access = fdb.access /\ fdb'.excluded = fdb.excluded
        /\ fdb'.cursor["access"] = k /\ \A c \in Classes \ {"access"} : fdb'.cursor[c] = fdb.cursor[c]
    <3>1. "access" \in Classes BY DEF Classes
    <3> QED BY <1>2, <2>1, <2>2, <3>1, CheckpointIs
  <2>4. fdb'.cursor["live"] = fdb.cursor["live"] /\ fdb'.cursor["cleanup"] = fdb.cursor["cleanup"] BY <2>3 DEF Classes
  <2>5. worker' = [worker EXCEPT ![w] = At(worker[w], "dependents")] BY <2>1, GoesIs DEF TypeInv
  <2>6. SkipsPages(w) BY <1>1, <1>6, <2>3, <2>4, <2>5 DEF SkipsPages, Kept, KeptClass, Pointed, Still, source, k
  <2> QED BY <2>6
<1>7. CASE Verified(w) /\ a.keys = me.keys /\ ~a.pages /\ ~a.dependents
  <2>1. fdb' = WithoutWork(fdb, "access") /\ Ends(w) BY <1>2, <1>7 DEF BeginAccess
  <2>2. /\ fdb' \in SearchKeys
        /\ fdb'.gen = fdb.gen /\ fdb'.rev = fdb.rev /\ fdb'.issued = fdb.issued /\ fdb'.access = fdb.access
        /\ fdb'.excluded = fdb.excluded /\ fdb'.work["access"] = NoRecord /\ fdb'.cursor["access"] = NoCursor
        /\ \A k \in Classes \ {"access"} : fdb'.work[k] = fdb.work[k] /\ fdb'.cursor[k] = fdb.cursor[k]
    <3>1. "access" \in Classes BY DEF Classes
    <3> QED BY <1>2, <2>1, <3>1, WorkCleared
  <2>3. KeptClass("live", fdb') /\ KeptClass("cleanup", fdb') BY <2>2 DEF KeptClass, Classes
  <2>4. NothingToDo(w) BY <1>1, <1>7, <2>1, <2>2, <2>3, EndsIs DEF NothingToDo, Kept, Removed, Still, source
  <2> QED BY <2>4
<1> QED BY <1>3, <1>4, <1>5, <1>6, <1>7

LEMMA PagesCleared ==
    ASSUME TypeInv
    PROVE  /\ [fdb.access EXCEPT !.pages = FALSE] \in AccessStates
           /\ [fdb EXCEPT !.access.pages = FALSE] = WithAccess(fdb, [fdb.access EXCEPT !.pages = FALSE])
<1>1. fdb \in SearchKeys /\ fdb.access \in AccessStates BY KeyNumbers DEF SearchKeys
<1> QED BY <1>1 DEF SearchKeys, AccessStates, WithAccess

LEMMA DependentsCleared ==
    ASSUME TypeInv
    PROVE  /\ [fdb.access EXCEPT !.dependents = FALSE] \in AccessStates
           /\ [fdb EXCEPT !.access.dependents = FALSE] = WithAccess(fdb, [fdb.access EXCEPT !.dependents = FALSE])
<1>1. fdb \in SearchKeys /\ fdb.access \in AccessStates BY KeyNumbers DEF SearchKeys
<1> QED BY <1>1 DEF SearchKeys, AccessStates, WithAccess

LEMMA CompleteAccessIs ==
    ASSUME TypeInv, NEW w \in Workers, CompleteAccess(w)
    PROVE  Quiet \/ ChecksPoint(w) \/ CompletesPages(w)
<1> DEFINE me == worker[w]  s == [fdb EXCEPT !.access.pages = FALSE]
<1>0. "access" \in Classes /\ "live" \in Classes \ {"access"} /\ "cleanup" \in Classes \ {"access"} BY DEF Classes
<1>1. me.pc = "complete" /\ me.class = "access" /\ Busy(w) /\ Goes(w, "yield") /\ UNCHANGED <<source, told, index, late, events>>
  BY DEF CompleteAccess, Busy
<1>2. fdb \in SearchKeys /\ me \in Slices /\ Rests(w) BY <1>1, KeyNumbers, YieldsIs DEF TypeInv, TypeOK
<1>3. CASE ~Verified(w) \/ fdb.access.keys # me.keys
  <2>1. UNCHANGED fdb BY <1>3 DEF CompleteAccess
  <2> QED BY <1>1, <2>1, RestQuiet, SameKeysSelf DEF TypeInv
<1>4. CASE Verified(w) /\ fdb.access.keys = me.keys /\ ~me.done
  <2> DEFINE k == AccessCursor(me, me.doc, "pages")
  <2>1. fdb' = WithCursor(fdb, "access", k) BY <1>4 DEF CompleteAccess, WithCursor
  <2>2. k \in Checkpoints
    <3>1. me.doc \in Documents \cup {NoDocument} BY <1>2 DEF Slices
    <3> QED BY <1>2, <3>1, AccessCursorIs DEF Phases
  <2> HIDE DEF k
  <2>3. /\ fdb' \in SearchKeys /\ fdb'.gen = fdb.gen /\ fdb'.rev = fdb.rev /\ fdb'.work = fdb.work /\ fdb'.issued = fdb.issued
        /\ fdb'.access = fdb.access /\ fdb'.excluded = fdb.excluded
        /\ fdb'.cursor["access"] = k /\ \A c \in Classes \ {"access"} : fdb'.cursor[c] = fdb.cursor[c]
    BY <1>0, <1>2, <2>1, <2>2, CheckpointIs
  <2>4. ChecksPoint(w) BY <1>0, <1>1, <1>2, <1>4, <2>3 DEF ChecksPoint, Kept, KeptClass, Pointed, Still, source, k
  <2> QED BY <2>4
<1>5. /\ s \in SearchKeys /\ s.gen = fdb.gen /\ s.rev = fdb.rev /\ s.work = fdb.work /\ s.issued = fdb.issued
      /\ s.access = [fdb.access EXCEPT !.pages = FALSE] /\ s.excluded = fdb.excluded /\ s.cursor = fdb.cursor
  <2> DEFINE b == [fdb.access EXCEPT !.pages = FALSE]
  <2>1. b \in AccessStates /\ s = WithAccess(fdb, b) BY PagesCleared
  <2> HIDE DEF b, s
  <2>2. /\ s \in SearchKeys /\ s.gen = fdb.gen /\ s.rev = fdb.rev /\ s.work = fdb.work /\ s.issued = fdb.issued
        /\ s.access = b /\ s.excluded = fdb.excluded /\ s.cursor = fdb.cursor
    BY <1>2, <2>1, AccessSet
  <2> QED BY <2>2 DEF b
<1>6. CASE Verified(w) /\ fdb.access.keys = me.keys /\ me.done /\ fdb.access.dependents
  <2> DEFINE k == AccessCursor(me, NoDocument, "dependents")
  <2>1. fdb' = WithCursor(s, "access", k) BY <1>6 DEF CompleteAccess, WithCursor
  <2>2. k \in Checkpoints BY <1>2, AccessCursorIs DEF Phases
  <2> HIDE DEF k, s
  <2>3. /\ fdb' \in SearchKeys /\ fdb'.gen = s.gen /\ fdb'.rev = s.rev /\ fdb'.work = s.work /\ fdb'.issued = s.issued
        /\ fdb'.access = s.access /\ fdb'.excluded = s.excluded
        /\ fdb'.cursor["access"] = k /\ \A c \in Classes \ {"access"} : fdb'.cursor[c] = s.cursor[c]
    BY <1>0, <1>5, <2>1, <2>2, CheckpointIs
  <2>4. CompletesPages(w)
    BY <1>0, <1>1, <1>2, <1>5, <1>6, <2>3 DEF CompletesPages, Kept, KeptClass, Pointed, Still, source, k
  <2> QED BY <2>4
<1>7. CASE Verified(w) /\ fdb.access.keys = me.keys /\ me.done /\ ~fdb.access.dependents
  <2>1. fdb' = WithoutWork(s, "access") BY <1>7 DEF CompleteAccess
  <2> HIDE DEF s
  <2>2. /\ fdb' \in SearchKeys
        /\ fdb'.gen = s.gen /\ fdb'.rev = s.rev /\ fdb'.issued = s.issued /\ fdb'.access = s.access
        /\ fdb'.excluded = s.excluded /\ fdb'.work["access"] = NoRecord /\ fdb'.cursor["access"] = NoCursor
        /\ \A k \in Classes \ {"access"} : fdb'.work[k] = s.work[k] /\ fdb'.cursor[k] = s.cursor[k]
    BY <1>0, <1>5, <2>1, WorkCleared
  <2>3. CompletesPages(w)
    BY <1>0, <1>1, <1>2, <1>5, <1>7, <2>2 DEF CompletesPages, Kept, KeptClass, Removed, Still, source
  <2> QED BY <2>3
<1> QED BY <1>3, <1>4, <1>6, <1>7

LEMMA FinishedKeys ==
    ASSUME TypeInv, NEW s \in SearchKeys, s.gen = fdb.gen, s.rev = fdb.rev, s.work = fdb.work, s.cursor = fdb.cursor,
           s.access = fdb.access, s.excluded = fdb.excluded, NEW c \in {"access", "cleanup"},
           NEW o, o = IF c = "access" THEN "cleanup" ELSE "access", fdb' = FinishDeleted(s, c)
    PROVE  Finishes(c, o) /\ fdb'.issued = s.issued
<1> DEFINE t == FinishDeleted(s, c)
<1>1. /\ t \in SearchKeys /\ t.issued = s.issued /\ t.excluded = s.excluded
      /\ s.work[o] # NoRecord =>
           /\ t.gen = s.gen /\ t.rev = s.rev /\ t.access = s.access
           /\ t.work[c] = NoRecord /\ t.cursor[c] = NoCursor
           /\ \A k \in Classes \ {c} : t.work[k] = s.work[k] /\ t.cursor[k] = s.cursor[k]
      /\ s.work[o] = NoRecord =>
           /\ t.gen = 0 /\ t.rev = 0
           /\ \A k \in Classes : t.work[k] = NoRecord /\ t.cursor[k] = NoCursor
  BY FinishDeletedIs
<1>2. fdb' = t OBVIOUS
<1> HIDE DEF t
<1>3. CASE Pending(o) BY <1>1, <1>2, <1>3 DEF Pending, Finishes, Kept, KeptClass, Removed
<1>4. CASE ~Pending(o) BY <1>1, <1>2, <1>4 DEF Pending, Finishes, Kept, KeptClass, Removed
<1> QED BY <1>3, <1>4

LEMMA ScheduleDependentsIs ==
    ASSUME TypeInv, NEW w \in Workers, ScheduleDependents(w)
    PROVE  Quiet \/ TellsDependents(w) \/ FinishesFanout(w)
<1> DEFINE me == worker[w]
<1>0. "access" \in Classes /\ "live" \in Classes \ {"access"} /\ "cleanup" \in Classes \ {"access"} BY DEF Classes
<1>1. me.pc = "dependents" /\ Busy(w) /\ UNCHANGED <<source, index, late, events>>
  BY DEF ScheduleDependents, Busy
<1>2. fdb \in SearchKeys /\ me \in Slices BY KeyNumbers DEF TypeInv, TypeOK
<1>3. CASE ~Verified(w)
  <2>1. Goes(w, "yield") /\ UNCHANGED fdb /\ UNCHANGED told BY <1>3 DEF ScheduleDependents
  <2> QED BY <1>1, <2>1, RestQuiet, SameKeysSelf DEF TypeInv
<1>4. CASE Verified(w) /\ ~me.deleted
  <2> DEFINE s == [fdb EXCEPT !.access.dependents = FALSE]
  <2>1. fdb' = WithoutWork(s, "access") /\ told' = fdb.access.keys /\ Rests(w) BY <1>4, EndsIs DEF ScheduleDependents
  <2>2. /\ s \in SearchKeys /\ s.gen = fdb.gen /\ s.rev = fdb.rev /\ s.work = fdb.work /\ s.issued = fdb.issued
        /\ s.access = [fdb.access EXCEPT !.dependents = FALSE] /\ s.excluded = fdb.excluded /\ s.cursor = fdb.cursor
    <3> DEFINE b == [fdb.access EXCEPT !.dependents = FALSE]
    <3>1. b \in AccessStates /\ s = WithAccess(fdb, b) BY DependentsCleared
    <3> HIDE DEF b, s
    <3>2. /\ s \in SearchKeys /\ s.gen = fdb.gen /\ s.rev = fdb.rev /\ s.work = fdb.work /\ s.issued = fdb.issued
          /\ s.access = b /\ s.excluded = fdb.excluded /\ s.cursor = fdb.cursor
      BY <1>2, <3>1, AccessSet
    <3> QED BY <3>2 DEF b
  <2> HIDE DEF s
  <2>3. /\ fdb' \in SearchKeys
        /\ fdb'.gen = s.gen /\ fdb'.rev = s.rev /\ fdb'.issued = s.issued /\ fdb'.access = s.access
        /\ fdb'.excluded = s.excluded /\ fdb'.work["access"] = NoRecord /\ fdb'.cursor["access"] = NoCursor
        /\ \A k \in Classes \ {"access"} : fdb'.work[k] = s.work[k] /\ fdb'.cursor[k] = s.cursor[k]
    BY <1>0, <2>1, <2>2, WorkCleared
  <2>4. TellsDependents(w)
    BY <1>0, <1>1, <1>4, <2>1, <2>2, <2>3 DEF TellsDependents, Kept, KeptClass, Removed, Still, source
  <2> QED BY <2>4
<1>5. CASE Verified(w) /\ me.deleted
  <2>1. fdb' = FinishDeleted(fdb, "access") /\ told' = Gone /\ Rests(w) BY <1>5, EndsIs DEF ScheduleDependents
  <2>2. Finishes("access", "cleanup") /\ fdb'.issued = fdb.issued BY <1>2, <2>1, FinishedKeys
  <2> QED BY <1>1, <1>5, <2>1, <2>2 DEF FinishesFanout, Still, source
<1> QED BY <1>3, <1>4, <1>5

LEMMA CompleteRetirementIs ==
    ASSUME TypeInv, NEW w \in Workers, CompleteRetirement(w)
    PROVE  Quiet \/ Retires(w) \/ FinishesCleanup(w)
<1> DEFINE me == worker[w]  i == fdb.issued \ {me.doc}  s == [fdb EXCEPT !.issued = @ \ {me.doc}]
<1>0. "cleanup" \in Classes /\ "live" \in Classes \ {"cleanup"} /\ "access" \in Classes \ {"cleanup"} BY DEF Classes
<1>1. me.pc = "complete" /\ me.class = "cleanup" /\ Busy(w) /\ UNCHANGED <<source, told, index, late, events>>
  BY DEF CompleteRetirement, Busy
<1>2. fdb \in SearchKeys /\ me \in Slices BY KeyNumbers DEF TypeInv, TypeOK
<1>3. /\ s \in SearchKeys /\ s.gen = fdb.gen /\ s.rev = fdb.rev /\ s.work = fdb.work /\ s.issued = i
      /\ s.access = fdb.access /\ s.excluded = fdb.excluded /\ s.cursor = fdb.cursor
  <2>1. s = [fdb EXCEPT !.issued = i] /\ i \subseteq Documents BY <1>2 DEF SearchKeys
  <2> HIDE DEF s, i
  <2> QED BY <1>2, <2>1, IssuedSet
<1>4. CASE ~Verified(w)
  <2>1. Goes(w, "yield") /\ UNCHANGED fdb BY <1>4 DEF CompleteRetirement
  <2> QED BY <1>1, <2>1, RestQuiet, SameKeysSelf DEF TypeInv
<1>5. CASE Verified(w) /\ ~me.done
  <2>1. fdb' = s /\ Goes(w, "yield") BY <1>5 DEF CompleteRetirement
  <2>2. Rests(w) BY <2>1, YieldsIs DEF TypeInv
  <2> HIDE DEF s
  <2> QED BY <1>1, <1>3, <1>5, <2>1, <2>2 DEF Retires, Kept, KeptClass, Still, source, i
<1>6. CASE Verified(w) /\ me.done /\ fdb.work["cleanup"].deleted
  <2>1. fdb' = FinishDeleted(s, "cleanup") /\ Rests(w) BY <1>6, EndsIs DEF CompleteRetirement
  <2> HIDE DEF s, i
  <2>2. Finishes("cleanup", "access") /\ fdb'.issued = s.issued BY <1>3, <2>1, FinishedKeys
  <2> QED BY <1>1, <1>3, <1>6, <2>1, <2>2 DEF FinishesCleanup, Still, source, i
<1>7. CASE Verified(w) /\ me.done /\ ~fdb.work["cleanup"].deleted
  <2>1. fdb' = WithoutWork(s, "cleanup") /\ Rests(w) BY <1>7, EndsIs DEF CompleteRetirement
  <2> HIDE DEF s, i
  <2>2. /\ fdb' \in SearchKeys
        /\ fdb'.gen = s.gen /\ fdb'.rev = s.rev /\ fdb'.issued = s.issued /\ fdb'.access = s.access
        /\ fdb'.excluded = s.excluded /\ fdb'.work["cleanup"] = NoRecord /\ fdb'.cursor["cleanup"] = NoCursor
        /\ \A k \in Classes \ {"cleanup"} : fdb'.work[k] = s.work[k] /\ fdb'.cursor[k] = s.cursor[k]
    BY <1>0, <1>3, <2>1, WorkCleared
  <2> QED BY <1>0, <1>1, <1>3, <1>7, <2>1, <2>2 DEF FinishesCleanup, Kept, KeptClass, Removed, Still, source, i
<1> QED BY <1>4, <1>5, <1>6, <1>7

\* The invariant of the keys after such a transaction.
LEMMA RecordKept ==
    ASSUME TypeInv, Kept(fdb'), UNCHANGED present, NEW c \in Classes, fdb'.work[c] \in {NoRecord, fdb.work[c]}
    PROVE  RecordGood(c)' /\ (Pending(c)' => Pending(c))
BY DEF TypeInv, KeysGood, Kept, RecordGood, Pending

LEMMA OwedKept ==
    ASSUME TypeInv, Kept(fdb'), UNCHANGED <<present, events>>,
           fdb'.work["live"] \in {NoRecord, fdb.work["live"]}, fdb'.work["access"] \in {NoRecord, fdb.work["access"]}
    PROVE  fdb'.gen + Owed' <= 3 + 2 * events'
<1>1. Pending("live")' => Pending("live") BY DEF Pending
<1>2. Pending("access")' => Pending("access") BY DEF Pending
<1>3. Owed' \in {0, 1} /\ Owed \in {0, 1} /\ Owed' <= Owed BY <1>1, <1>2 DEF Owed
<1>4. fdb.gen + Owed <= 3 + 2 * events /\ fdb.gen \in Nat /\ events \in Nat BY KeyNumbers DEF TypeInv, KeysGood
<1> QED BY <1>3, <1>4 DEF Kept

\* A class keeps its checkpoint, starts anew, or points to where its work is.
LEMMA KeptKeys ==
    ASSUME TypeInv, Kept(fdb'), UNCHANGED <<present, events>>, ~present => ~fdb'.excluded, present => fdb'.access.found,
           fdb'.work["live"] \in {NoRecord, fdb.work["live"]}, fdb'.work["access"] \in {NoRecord, fdb.work["access"]},
           RecordGood("cleanup")', LiveCursorGood', ~present => fdb'.cursor["access"] = fdb.cursor["access"] \/ ~Pending("access")',
           \A c \in Classes : fdb'.cursor[c].gen <= fdb.gen
    PROVE  KeysGood' /\ Ages
<1>1. \A c \in Classes : RecordGood(c)' BY RecordKept DEF Classes
<1>2. (~present /\ Pending("access") => FanoutLeft)'
  <2>1. Pending("access")' => Pending("access") BY DEF Pending
  <2> QED BY <2>1 DEF TypeInv, KeysGood, FanoutLeft, Kept
<1>3. KeysGood' BY <1>1, <1>2, OwedKept DEF KeysGood, Kept, TypeInv
<1> QED BY <1>3 DEF Ages, Kept

LEMMA StillTypes ==
    ASSUME TypeInv, KeysGood', Ages, fdb' \in SearchKeys, Still, told' \in Keys \cup {Gone},
           worker' \in [Workers -> Slices], \A v \in Workers : SliceGood(worker'[v])
    PROVE  TypeInv'
<1>1. /\ present' \in BOOLEAN /\ grant' \in Grants \cup {NoParent} /\ used' \subseteq Grants
      /\ events' \in 0..MaxEvents /\ UNCHANGED <<index, late>>
  BY DEF TypeInv, TypeOK, Still
<1> QED BY <1>1, AgesTypes

LEMMA RestingTypes ==
    ASSUME TypeInv, KeysGood', Ages, fdb' \in SearchKeys, Still, told' \in Keys \cup {Gone},
           NEW w \in Workers, Busy(w), Rests(w)
    PROVE  TypeInv'
<1>1. Resting BY DEF Resting
<1> QED BY <1>1, RestingSlices, StillTypes

LEMMA MovingTypes ==
    ASSUME TypeInv, KeysGood', Ages, fdb' \in SearchKeys, Still, UNCHANGED told,
           NEW w \in Workers, NEW x \in Slices, SliceGood(x), worker' = [worker EXCEPT ![w] = x]
    PROVE  TypeInv'
<1>1. worker' \in [Workers -> Slices] /\ worker'[w] = x /\ \A v \in Workers \ {w} : worker'[v] = worker[v]
  BY SlicesOfStep DEF TypeInv
<1>2. \A v \in Workers : SliceGood(worker'[v]) BY <1>1 DEF TypeInv, WorkersGood
<1>3. told' \in Keys \cup {Gone} BY DEF TypeInv, TypeOK
<1> QED BY <1>1, <1>2, <1>3, StillTypes

\* What a slice knows that found its claim good
LEMMA SliceFacts ==
    ASSUME TypeInv, NEW w \in Workers, Busy(w), Verified(w)
    PROVE  LET me == worker[w] IN
           /\ me \in Slices /\ ItemGood(me) /\ PCGood(me) /\ PageAtHand(me) /\ me.gen = fdb.gen /\ fdb.gen > 0 /\ fdb.gen \in Nat
           /\ me.class = "access" /\ me.pc \notin {"dependents", "yield"} => present
<1>1. worker[w].gen = fdb.gen /\ worker[w] \in Slices /\ fdb.gen > 0 BY VerifiedIs
<1>2. ItemGood(worker[w]) /\ PCGood(worker[w]) /\ PageAtHand(worker[w]) BY DEF TypeInv, WorkersGood, SliceGood, Busy
<1> QED BY <1>1, <1>2, KeyNumbers DEF PCGood

LEMMA KeptCursors ==
    ASSUME TypeInv
    PROVE  /\ \A c \in Classes : fdb.cursor[c].gen <= fdb.gen
           /\ NoCursor.gen <= fdb.gen /\ LiveCursorGood /\ \A c \in Classes : RecordGood(c)
           /\ (~present => ~fdb.excluded) /\ (present => fdb.access.found)
BY KeyNumbers DEF TypeInv, KeysGood, NoCursor

LEMMA CleanupKept ==
    ASSUME TypeInv, Kept(fdb'), UNCHANGED present, fdb'.work["cleanup"] \in {NoRecord, fdb.work["cleanup"]}
    PROVE  RecordGood("cleanup")'
BY RecordKept DEF Classes

LEMMA LiveCursorKept ==
    ASSUME TypeInv, fdb'.cursor["live"] \in {NoCursor, fdb.cursor["live"]}
    PROVE  LiveCursorGood'
<1>1. CASE fdb'.cursor["live"] = NoCursor BY <1>1, LiveCursorStart
<1>2. CASE fdb'.cursor["live"] = fdb.cursor["live"] BY <1>2, KeptCursors DEF LiveCursorGood
<1> QED BY <1>1, <1>2

LEMMA RegistersTypes == ASSUME TypeInv, NEW w \in Workers, Registers(w) PROVE TypeInv'
<1> DEFINE me == worker[w]
<1>1. me.pc = "register" /\ Busy(w) /\ Verified(w) BY DEF Registers, Busy, PageVerified
<1>2. /\ me \in Slices /\ ItemGood(me) /\ PCGood(me) /\ PageAtHand(me) BY <1>1, SliceFacts
<1>3. me.class = "live" /\ me.doc \in Documents /\ me.keys \in Grants BY <1>1, <1>2 DEF PCGood, PageAtHand, PagePCs
<1>4. fdb.access \in AccessStates /\ fdb'.access.found = fdb.access.found
  BY <1>3, KeyNumbers, TrackedIs DEF Registers, SearchKeys
<1>5. KeysGood' /\ Ages
  <2>1. /\ Kept(fdb') /\ fdb'.work["live"] = fdb.work["live"] /\ fdb'.work["access"] = fdb.work["access"]
        /\ fdb'.work["cleanup"] = fdb.work["cleanup"] /\ UNCHANGED <<present, events>>
        /\ \A c \in Classes : fdb'.cursor[c] = fdb.cursor[c]
    BY DEF Registers, KeptClass, Classes, Still
  <2>2. fdb'.cursor["live"] = fdb.cursor["live"] /\ fdb'.cursor["access"] = fdb.cursor["access"] BY <2>1 DEF Classes
  <2> QED BY <1>4, <2>1, <2>2, KeptKeys, KeptCursors, CleanupKept, LiveCursorKept DEF Registers
<1>6. fdb' \in SearchKeys /\ Still /\ UNCHANGED told BY DEF Registers, Kept
<1> DEFINE x == Registered(me)
<1>7. x \in Slices /\ x.pc = "probe" /\ SameItem(me, x) /\ x.ord = me.ord /\ x.keys = me.keys /\ x.doc = me.doc
  <2> DEFINE h == (me.doc \in fdb.held)
  <2>1. x = [me EXCEPT !.pc = "probe", !.held = h] /\ h \in BOOLEAN BY DEF Registered
  <2> HIDE DEF h, x
  <2> QED BY <1>2, <2>1 DEF Slices, SameItem, PCs
<1>8. worker' = [worker EXCEPT ![w] = x] BY DEF Registers
<1> HIDE DEF x
<1>9. SliceGood(x) BY <1>1, <1>2, <1>3, <1>7 DEF SliceGood, ItemGood, PCGood, PageAtHand, SameItem, PagePCs, AccessPCs
<1> QED BY <1>5, <1>6, <1>7, <1>8, <1>9, MovingTypes

LEMMA CompletesPageTypes == ASSUME TypeInv, NEW w \in Workers, CompletesPage(w) PROVE TypeInv'
<1> DEFINE me == worker[w]
<1>1. me.pc = "complete" /\ me.class = "live" /\ Busy(w) /\ Verified(w) BY DEF CompletesPage, Busy, PageVerified
<1>2. /\ me \in Slices /\ ItemGood(me) /\ PCGood(me) /\ PageAtHand(me) /\ me.gen = fdb.gen /\ fdb.gen \in Nat BY <1>1, SliceFacts
<1>3. me.ord < Pages /\ me.ord \in Nat BY <1>1, <1>2, Constants DEF PageAtHand, PagePCs, Slices
<1>4. fdb'.cursor["live"] = PageCursor(me) /\ PageCursor(me).gen = me.gen /\ PageCursor(me).ord = me.ord + 1
      /\ PageCursor(me).phase = NextPhase(me)
  BY DEF CompletesPage, Pointed, PageCursor
<1>5. LiveCursorGood'
  <2>1. me.ord + 1 = Pages \/ me.ord + 1 < Pages BY <1>3, Constants
  <2> QED BY <1>3, <1>4, <2>1 DEF LiveCursorGood, NextPhase
<1>6. KeysGood' /\ Ages
  <2>1. /\ Kept(fdb') /\ fdb'.work["live"] = fdb.work["live"] /\ fdb'.work["access"] = fdb.work["access"]
        /\ fdb'.work["cleanup"] = fdb.work["cleanup"] /\ UNCHANGED <<present, events>>
        /\ fdb'.cursor["access"] = fdb.cursor["access"] /\ fdb'.cursor["cleanup"] = fdb.cursor["cleanup"]
        /\ fdb'.access = fdb.access /\ fdb'.excluded = fdb.excluded
    BY DEF CompletesPage, Pointed, KeptClass, Still
  <2>2. \A c \in Classes : fdb'.cursor[c].gen <= fdb.gen BY <1>2, <1>4, <2>1, KeptCursors DEF Classes
  <2> QED BY <1>5, <2>1, <2>2, KeptKeys, KeptCursors, CleanupKept
<1>7. fdb' \in SearchKeys /\ Still /\ UNCHANGED told BY DEF CompletesPage, Kept
<1> DEFINE x == NextPage(me)
<1>8. /\ x \in Slices /\ SameItem(me, x) /\ x.ord = me.ord + 1 /\ x.pc = (IF me.ord + 1 = Pages THEN "refresh" ELSE "content")
  <2>1. me.ord + 1 \in 0..Pages BY <1>3, Constants
  <2>2. NextPhase(me) \in Phases BY DEF NextPhase, Phases
  <2> QED BY <1>2, <2>1, <2>2 DEF NextPage, Slices, SameItem, PCs, Keys
<1>9. worker' = [worker EXCEPT ![w] = x] BY DEF CompletesPage
<1> HIDE DEF x
<1>10. SliceGood(x)
  <2>1. x.pc = "content" => x.ord < Pages BY <1>3, <1>8, Constants
  <2>2. x.pc \in {"refresh", "content"} BY <1>8
  <2> QED BY <1>1, <1>2, <1>8, <2>1, <2>2 DEF SliceGood, ItemGood, PCGood, PageAtHand, SameItem, PagePCs, AccessPCs
<1> QED BY <1>6, <1>7, <1>8, <1>9, <1>10, MovingTypes

LEMMA RefreshesTypes == ASSUME TypeInv, NEW w \in Workers, Refreshes(w) PROVE TypeInv'
<1> DEFINE me == worker[w]
<1>1. me.pc = "refresh" /\ Busy(w) /\ Verified(w) /\ Rests(w) BY DEF Refreshes, Busy
<1>2. me.class = "live" BY <1>1, SliceFacts DEF PCGood
<1>3. present /\ Pending("live") BY <1>1, <1>2, VerifiedIs
<1>4. /\ Kept(fdb') /\ fdb'.work["live"] = NoRecord /\ fdb'.work["access"] = fdb.work["access"]
      /\ UNCHANGED <<present, events>> /\ fdb'.cursor["live"] = NoCursor
      /\ fdb'.cursor["access"] = fdb.cursor["access"] /\ fdb'.cursor["cleanup"] = fdb.cursor["cleanup"]
      /\ fdb'.access = fdb.access /\ ~fdb'.excluded
  BY DEF Refreshes, Removed, KeptClass, Still
<1>5. RecordGood("cleanup")'
  <2>1. RecordGood("live") BY KeptCursors DEF Classes
  <2> QED BY <1>3, <1>4, <2>1 DEF RecordGood, Refreshes, Kept
<1>6. \A c \in Classes : fdb'.cursor[c].gen <= fdb.gen BY <1>4, KeptCursors DEF Classes
<1>7. KeysGood' /\ Ages BY <1>3, <1>4, <1>5, <1>6, KeptKeys, KeptCursors, LiveCursorKept
<1>8. fdb' \in SearchKeys /\ Still /\ told' \in Keys \cup {Gone} BY DEF Refreshes, Kept, TypeInv, TypeOK
<1> QED BY <1>1, <1>7, <1>8, RestingTypes

\* The steps of the access work keep live and cleanup work as they are.
LEMMA AccessWorkKeys ==
    ASSUME TypeInv, Kept(fdb'), UNCHANGED <<present, events>>, fdb'.excluded = fdb.excluded, present => fdb'.access.found,
           KeptClass("live", fdb'), KeptClass("cleanup", fdb'), present \/ Removed("access", fdb'),
           \/ Removed("access", fdb')
           \/ fdb'.work["access"] = fdb.work["access"] /\ fdb'.cursor["access"].gen = fdb.gen
    PROVE  KeysGood' /\ Ages
<1>1. /\ fdb'.work["live"] = fdb.work["live"] /\ fdb'.work["access"] \in {NoRecord, fdb.work["access"]}
      /\ fdb'.work["cleanup"] = fdb.work["cleanup"] /\ fdb'.cursor["live"] = fdb.cursor["live"]
      /\ fdb'.cursor["cleanup"] = fdb.cursor["cleanup"]
  BY DEF KeptClass, Removed
<1>2. fdb'.cursor["access"].gen <= fdb.gen BY KeptCursors, KeyNumbers DEF Removed
<1>3. \A c \in Classes : fdb'.cursor[c].gen <= fdb.gen BY <1>1, <1>2, KeptCursors DEF Classes
<1>4. ~present => ~Pending("access")' BY DEF Removed, Pending
<1> QED BY <1>1, <1>3, <1>4, KeptKeys, KeptCursors, CleanupKept, LiveCursorKept

LEMMA BeginsAccessTypes == ASSUME TypeInv, NEW w \in Workers, BeginsAccess(w) PROVE TypeInv'
<1> DEFINE me == worker[w]  pc == IF ~PagesStored(fdb.access, me.keys) THEN "documents" ELSE "dependents"
<1>1. me.pc = "begin" /\ Busy(w) /\ Verified(w) BY DEF BeginsAccess, Busy
<1>2. /\ me \in Slices /\ ItemGood(me) /\ PCGood(me) /\ PageAtHand(me) /\ me.gen = fdb.gen BY <1>1, SliceFacts
<1>3. me.class = "access" /\ me.keys \in Grants BY <1>1, <1>2 DEF PCGood, PageAtHand, AccessPCs
<1>4. present /\ fdb.access.found BY <1>1, <1>3, SliceFacts, KeptCursors
<1>5. KeysGood' /\ Ages
  <2>1. fdb'.work["access"] = fdb.work["access"] /\ fdb'.cursor["access"].gen = fdb.gen
    BY <1>2 DEF BeginsAccess, Pointed, AccessCursor
  <2> QED BY <1>4, <2>1, AccessWorkKeys DEF BeginsAccess, Still
<1>6. fdb' \in SearchKeys /\ Still /\ UNCHANGED told BY DEF BeginsAccess, Kept
<1> DEFINE x == Begun(me, pc)
<1>7. pc \in {"documents", "dependents"} OBVIOUS
<1>8. worker' = [worker EXCEPT ![w] = x] BY DEF BeginsAccess
<1> HIDE DEF pc
<1>9. x \in Slices /\ x.pc = pc /\ SameItem(me, x) /\ x.keys = me.keys
  BY <1>2, <1>7 DEF Begun, Slices, SameItem, PCs
<1> HIDE DEF x
<1>10. SliceGood(x) BY <1>2, <1>3, <1>4, <1>7, <1>9 DEF SliceGood, ItemGood, PCGood, PageAtHand, SameItem, PagePCs, AccessPCs
<1> QED BY <1>5, <1>6, <1>8, <1>9, <1>10, MovingTypes

LEMMA SkipsPagesTypes == ASSUME TypeInv, NEW w \in Workers, SkipsPages(w) PROVE TypeInv'
<1> DEFINE me == worker[w]
<1>1. me.pc = "begin" /\ Busy(w) /\ Verified(w) BY DEF SkipsPages, Busy
<1>2. /\ me \in Slices /\ ItemGood(me) /\ PCGood(me) /\ PageAtHand(me) /\ me.gen = fdb.gen BY <1>1, SliceFacts
<1>3. me.class = "access" /\ me.keys \in Grants BY <1>1, <1>2 DEF PCGood, PageAtHand, AccessPCs
<1>4. present /\ fdb.access.found BY <1>1, <1>3, SliceFacts, KeptCursors
<1>5. KeysGood' /\ Ages
  <2>1. fdb'.work["access"] = fdb.work["access"] /\ fdb'.cursor["access"].gen = fdb.gen
    BY <1>2 DEF SkipsPages, Pointed, AccessCursor
  <2> QED BY <1>4, <2>1, AccessWorkKeys DEF SkipsPages, Still
<1>6. fdb' \in SearchKeys /\ Still /\ UNCHANGED told BY DEF SkipsPages, Kept
<1> DEFINE x == At(me, "dependents")
<1>8. worker' = [worker EXCEPT ![w] = x] BY DEF SkipsPages
<1>9. x \in Slices /\ x.pc = "dependents" /\ SameItem(me, x) BY <1>2, AtIs DEF PCs
<1> HIDE DEF x
<1>10. SliceGood(x) BY <1>2, <1>3, <1>9 DEF SliceGood, ItemGood, PCGood, PageAtHand, SameItem, PagePCs, AccessPCs
<1> QED BY <1>5, <1>6, <1>8, <1>9, <1>10, MovingTypes

LEMMA BeginAccessTypes == ASSUME TypeInv, NEW w \in Workers, BeginAccess(w) PROVE TypeInv'
<1>1. CASE Quiet BY <1>1, QuietTypes
<1>2. CASE BeginsAccess(w) BY <1>2, BeginsAccessTypes
<1>3. CASE SkipsPages(w) BY <1>3, SkipsPagesTypes
<1>4. CASE NothingToDo(w)
  <2>1. KeysGood' /\ Ages BY <1>4, AccessWorkKeys, KeptCursors DEF NothingToDo, Still
  <2>2. fdb' \in SearchKeys /\ Still /\ told' \in Keys \cup {Gone} BY <1>4 DEF NothingToDo, Kept, TypeInv, TypeOK
  <2> QED BY <1>4, <2>1, <2>2, RestingTypes DEF NothingToDo
<1>5. CASE worker[w].pc = "begin" /\ Moves(w, At(worker[w], "documents")) /\ Verified(w)
  <2> DEFINE me == worker[w]  x == At(me, "documents")
  <2>0. Busy(w) BY <1>5 DEF Busy
  <2>1. /\ me \in Slices /\ ItemGood(me) /\ PCGood(me) /\ PageAtHand(me) BY <1>5, <2>0, SliceFacts
  <2>2. x \in Slices /\ x.pc = "documents" /\ SameItem(me, x) /\ x.keys = me.keys BY <2>1, AtIs DEF PCs
  <2> HIDE DEF x
  <2>3. SliceGood(x) BY <1>5, <2>1, <2>2 DEF SliceGood, ItemGood, PCGood, PageAtHand, SameItem, PagePCs, AccessPCs
  <2> QED BY <1>5, <2>2, <2>3, MovesTypes DEF x
<1> QED BY <1>1, <1>2, <1>3, <1>4, <1>5, BeginAccessIs

LEMMA CompleteAccessTypes == ASSUME TypeInv, NEW w \in Workers, CompleteAccess(w) PROVE TypeInv'
<1> DEFINE me == worker[w]
<1>0. fdb.access \in AccessStates /\ told \in Keys \cup {Gone} BY DEF TypeInv, TypeOK, SearchKeys
<1>1. CASE Quiet BY <1>1, QuietTypes
<1>2. CASE ChecksPoint(w)
  <2>1. Busy(w) /\ Verified(w) /\ me.class = "access" /\ me.pc = "complete" BY <1>2 DEF ChecksPoint
  <2>2. present /\ fdb.access.found /\ me.gen = fdb.gen BY <2>1, SliceFacts, KeptCursors
  <2>3. fdb'.work["access"] = fdb.work["access"] /\ fdb'.cursor["access"].gen = fdb.gen
    BY <1>2, <2>2 DEF ChecksPoint, Pointed, AccessCursor
  <2>4. KeysGood' /\ Ages BY <1>2, <2>2, <2>3, AccessWorkKeys DEF ChecksPoint, Still
  <2> QED BY <1>0, <1>2, <2>4, RestingTypes DEF ChecksPoint, Kept
<1>3. CASE CompletesPages(w)
  <2>1. Busy(w) /\ Verified(w) /\ me.class = "access" /\ me.pc = "complete" BY <1>3 DEF CompletesPages
  <2>2. present /\ fdb.access.found /\ me.gen = fdb.gen BY <2>1, SliceFacts, KeptCursors
  <2>3. \/ Removed("access", fdb')
        \/ fdb'.work["access"] = fdb.work["access"] /\ fdb'.cursor["access"].gen = fdb.gen
    BY <1>3, <2>2 DEF CompletesPages, Pointed, AccessCursor
  <2>4. fdb'.access.found = fdb.access.found BY <1>0, <1>3 DEF CompletesPages, AccessStates
  <2>5. KeysGood' /\ Ages BY <1>3, <2>2, <2>3, <2>4, AccessWorkKeys DEF CompletesPages, Still
  <2> QED BY <1>0, <1>3, <2>5, RestingTypes DEF CompletesPages, Kept
<1> QED BY <1>1, <1>2, <1>3, CompleteAccessIs

\* The last work of a deleted node.
LEMMA FinishesKeys ==
    ASSUME TypeInv, ~present, UNCHANGED <<present, events>>, NEW c \in {"access", "cleanup"},
           NEW o, o = IF c = "access" THEN "cleanup" ELSE "access", Finishes(c, o)
    PROVE  KeysGood' /\ Ages
<1>0. c \in Classes /\ o \in Classes \ {c} /\ "live" \in Classes \ {c} /\ Classes = {"live", c, o} BY DEF Classes
<1>1. CASE Pending(o)
  <2>1. Kept(fdb') /\ Removed(c, fdb') /\ KeptClass("live", fdb') /\ KeptClass(o, fdb')
    BY <1>0, <1>1 DEF Finishes
  <2>2. /\ fdb'.work["live"] \in {NoRecord, fdb.work["live"]} /\ fdb'.work["access"] \in {NoRecord, fdb.work["access"]}
        /\ fdb'.work["cleanup"] \in {NoRecord, fdb.work["cleanup"]} /\ fdb'.cursor["live"] \in {NoCursor, fdb.cursor["live"]}
        /\ fdb'.cursor["access"] = fdb.cursor["access"] \/ ~Pending("access")'
    BY <1>0, <2>1 DEF Removed, KeptClass, Pending
  <2>3. \A k \in Classes : fdb'.cursor[k].gen <= fdb.gen BY <1>0, <2>1, KeptCursors DEF Removed, KeptClass
  <2> QED BY <2>1, <2>2, <2>3, KeptKeys, KeptCursors, CleanupKept, LiveCursorKept DEF Finishes
<1>2. CASE ~Pending(o)
  <2>1. fdb'.gen = 0 /\ fdb'.rev = 0 /\ ~fdb'.excluded /\ \A k \in Classes : fdb'.work[k] = NoRecord /\ fdb'.cursor[k] = NoCursor
    BY <1>2, KeptCursors DEF Finishes, Removed
  <2>2. \A k \in Classes : RecordGood(k)' /\ fdb'.cursor[k].gen <= fdb'.gen BY <2>1, EmptyRecord DEF NoCursor
  <2>3. LiveCursorGood' BY <1>0, <2>1, LiveCursorStart
  <2>4. Owed' = 0 /\ ~Pending("access")' BY <2>1 DEF Owed, Pending, Classes
  <2>5. fdb'.gen + Owed' <= 3 + 2 * events' BY <2>1, <2>4, KeyNumbers
  <2>6. KeysGood' BY <2>1, <2>2, <2>3, <2>4, <2>5 DEF KeysGood
  <2> QED BY <2>1, <2>6 DEF Ages
<1> QED BY <1>1, <1>2

LEMMA ScheduleDependentsTypes == ASSUME TypeInv, NEW w \in Workers, ScheduleDependents(w) PROVE TypeInv'
<1> DEFINE me == worker[w]
<1>0. fdb.access \in AccessStates /\ told \in Keys \cup {Gone} BY DEF TypeInv, TypeOK, SearchKeys
<1>1. CASE Quiet BY <1>1, QuietTypes
<1>2. CASE TellsDependents(w)
  <2>1. told' \in Keys \cup {Gone} BY <1>0, <1>2 DEF TellsDependents, AccessStates
  <2>2. fdb'.access.found = fdb.access.found BY <1>0, <1>2 DEF TellsDependents, AccessStates
  <2>3. KeysGood' /\ Ages BY <1>2, <2>2, AccessWorkKeys, KeptCursors DEF TellsDependents, Still
  <2> QED BY <1>2, <2>1, <2>3, RestingTypes DEF TellsDependents, Kept
<1>3. CASE FinishesFanout(w)
  <2>1. Busy(w) /\ Verified(w) /\ me.deleted BY <1>3 DEF FinishesFanout
  <2>2. ~present BY <2>1, VerifiedIs
  <2>3. KeysGood' /\ Ages BY <1>3, <2>2, FinishesKeys DEF FinishesFanout, Still
  <2>4. told' \in Keys \cup {Gone} /\ fdb' \in SearchKeys BY <1>3 DEF FinishesFanout, Finishes
  <2> QED BY <1>3, <2>3, <2>4, RestingTypes DEF FinishesFanout
<1> QED BY <1>1, <1>2, <1>3, ScheduleDependentsIs

LEMMA CompleteRetirementTypes == ASSUME TypeInv, NEW w \in Workers, CompleteRetirement(w) PROVE TypeInv'
<1> DEFINE me == worker[w]
<1>0. told \in Keys \cup {Gone} BY DEF TypeInv, TypeOK
<1>1. CASE Quiet BY <1>1, QuietTypes
<1>2. CASE Retires(w)
  <2>1. /\ Kept(fdb') /\ fdb'.work["live"] = fdb.work["live"] /\ fdb'.work["access"] = fdb.work["access"]
        /\ fdb'.work["cleanup"] = fdb.work["cleanup"] /\ UNCHANGED <<present, events>>
        /\ fdb'.access = fdb.access /\ fdb'.excluded = fdb.excluded
        /\ \A c \in Classes : fdb'.cursor[c] = fdb.cursor[c]
    BY <1>2 DEF Retires, KeptClass, Classes, Still
  <2>2. fdb'.cursor["live"] = fdb.cursor["live"] /\ fdb'.cursor["access"] = fdb.cursor["access"] BY <2>1 DEF Classes
  <2>3. KeysGood' /\ Ages BY <2>1, <2>2, KeptKeys, KeptCursors, CleanupKept, LiveCursorKept
  <2> QED BY <1>0, <1>2, <2>1, <2>3, RestingTypes DEF Retires, Kept
<1>3. CASE FinishesCleanup(w)
  <2>1. Busy(w) /\ Rests(w) /\ Verified(w) /\ me.class = "cleanup" /\ Still /\ UNCHANGED told BY <1>3 DEF FinishesCleanup
  <2>2. Pending("cleanup") /\ RecordGood("cleanup") BY <2>1, VerifiedIs, KeptCursors
  <2>3. CASE fdb.work["cleanup"].deleted /\ Finishes("cleanup", "access")
    <3>1. ~present BY <2>2, <2>3 DEF RecordGood
    <3>2. KeysGood' /\ Ages BY <2>1, <2>3, <3>1, FinishesKeys DEF Still
    <3> QED BY <1>0, <2>1, <2>3, <3>2, RestingTypes DEF Finishes
  <2>4. CASE /\ Kept(fdb') /\ fdb'.access = fdb.access /\ fdb'.excluded = fdb.excluded
             /\ Removed("cleanup", fdb') /\ KeptClass("live", fdb') /\ KeptClass("access", fdb')
    <3>1. /\ fdb'.work["live"] = fdb.work["live"] /\ fdb'.work["access"] = fdb.work["access"]
          /\ fdb'.work["cleanup"] = NoRecord /\ UNCHANGED <<present, events>>
          /\ fdb'.cursor["live"] = fdb.cursor["live"] /\ fdb'.cursor["access"] = fdb.cursor["access"]
          /\ fdb'.cursor["cleanup"] = NoCursor
      BY <2>1, <2>4 DEF Removed, KeptClass, Still
    <3>2. \A c \in Classes : fdb'.cursor[c].gen <= fdb.gen BY <3>1, KeptCursors DEF Classes
    <3>3. KeysGood' /\ Ages BY <2>4, <3>1, <3>2, KeptKeys, KeptCursors, CleanupKept, LiveCursorKept
    <3> QED BY <1>0, <2>1, <2>4, <3>3, RestingTypes DEF Kept
  <2> QED BY <1>3, <2>3, <2>4 DEF FinishesCleanup
<1> QED BY <1>1, <1>2, <1>3, CompleteRetirementIs

LEMMA InitKeys ==
    ASSUME Init
    PROVE  /\ fdb \in SearchKeys /\ fdb.gen = 2 /\ fdb.rev = 1 /\ fdb.issued = {} /\ ~fdb.excluded
           /\ fdb.access.found /\ fdb.access.tracked /\ fdb.access.keys = NoKeys /\ fdb.access.page = NoKeys
           /\ ~fdb.access.pages /\ ~fdb.access.dependents
           /\ \A c \in {"live", "access"} : fdb.work[c] = [gen |-> 2, rev |-> 1, deleted |-> FALSE]
           /\ fdb.work["cleanup"] = NoRecord /\ \A c \in Classes : fdb.cursor[c] = NoCursor
<1> DEFINE r == [gen |-> 2, rev |-> 1, deleted |-> FALSE]
           f == [c \in Classes |-> IF c = "cleanup" THEN NoRecord ELSE r]
           h == [c \in Classes |-> NoClaim]
           k == [c \in Classes |-> NoCursor]
           a == [NoAccess EXCEPT !.found = TRUE, !.tracked = TRUE]
<1>1. /\ a \in AccessStates /\ a.found /\ a.tracked /\ a.keys = NoKeys /\ a.page = NoKeys /\ ~a.pages /\ ~a.dependents
  BY DEF NoAccess, AccessStates, Keys
<1>2. f \in [Classes -> Records] /\ h \in [Classes -> Leases] /\ k \in [Classes -> Checkpoints]
  <2>1. r \in Records BY DEF Records
  <2> QED BY <2>1, Sentinels
<1>3. f["live"] = r /\ f["access"] = r /\ f["cleanup"] = NoRecord /\ \A c \in Classes : k[c] = NoCursor BY DEF Classes
<1>4. fdb = [gen |-> 2, rev |-> 1, work |-> f, claim |-> h, cursor |-> k, issued |-> {}, held |-> {}, excluded |-> FALSE,
             access |-> a]
  BY DEF Init
<1> HIDE DEF f, h, k, a
<1>5. /\ fdb \in SearchKeys /\ fdb.gen = 2 /\ fdb.rev = 1 /\ fdb.issued = {} /\ ~fdb.excluded
      /\ fdb.access = a /\ fdb.work = f /\ fdb.cursor = k
  BY <1>1, <1>2, <1>4 DEF SearchKeys
<1> QED BY <1>1, <1>3, <1>5

LEMMA InitTypes == ASSUME Init PROVE TypeInv
<1>1. TypeOK
  <2>1. worker \in [Workers -> Slices] /\ index \in [Documents -> PageStates] BY Sentinels DEF Init
  <2> QED BY <2>1, InitKeys, Constants DEF Init, TypeOK, Keys
<1>2. KeysGood
  <2>1. \A c \in {"live", "access"} : RecordGood(c) BY InitKeys DEF Init, RecordGood
  <2>2. RecordGood("cleanup") /\ \A c \in Classes : fdb.cursor[c].gen <= fdb.gen BY InitKeys DEF RecordGood, Pending, NoCursor
  <2>3. LiveCursorGood BY InitKeys, Constants DEF LiveCursorGood, NoCursor, Classes
  <2>4. Owed \in {0, 1} BY DEF Owed
  <2>5. present = TRUE /\ events = 0 BY DEF Init
  <2>6. fdb.gen + Owed <= 3 + 2 * events BY <2>4, <2>5, InitKeys
  <2> QED BY <2>1, <2>2, <2>3, <2>5, <2>6, InitKeys DEF KeysGood, Classes
<1>3. WorkersGood
  <2>1. \A w \in Workers : worker[w] = Idle BY DEF Init
  <2>2. Idle.pc = "idle" BY DEF Idle
  <2> QED BY <2>1, <2>2 DEF WorkersGood, SliceGood
<1> QED BY <1>1, <1>2, <1>3 DEF TypeInv

LEMMA StutterQuiet == ASSUME TypeOK, UNCHANGED vars PROVE Quiet
BY SameKeysSelf DEF Quiet, vars, source

LEMMA NextTypes == ASSUME TypeInv, [Next]_vars PROVE TypeInv'
<1>0. TypeOK /\ WorkersGood BY DEF TypeInv
<1>1. CASE UNCHANGED vars BY <1>0, <1>1, StutterQuiet, QuietTypes
<1>2. CASE SourceStep BY <1>2, EditContentTypes, MoveTypes, DeleteTypes DEF SourceStep
<1>3. ASSUME NEW w \in Workers, NEW c \in Classes, Claim(w, c) PROVE TypeInv' BY <1>3, ClaimTypes
<1>4. ASSUME NEW w \in Workers, WorkStep(w) PROVE TypeInv'
  <2>1. CASE ReadContent(w) \/ Probe(w) \/ Send(w) \/ Compile(w) \/ ReadDocuments(w) \/ UpdateAccess(w)
    BY <2>1, ReadContentTypes, ProbeTypes, SendTypes, CompileTypes, ReadDocumentsTypes, UpdateAccessTypes
  <2>2. CASE Register(w) BY <2>2, RegisterIs, QuietTypes, RegistersTypes
  <2>3. CASE CompletePage(w) BY <2>3, CompletePageIs, QuietTypes, CompletesPageTypes
  <2>4. CASE CompleteRefresh(w) BY <2>4, CompleteRefreshIs, QuietTypes, RefreshesTypes
  <2>5. CASE ConflictsExhausted(w) \/ Yield(w) BY <1>0, <2>5, RestingSteps, QuietTypes
  <2>6. CASE Exclude(w) \/ BeginAccess(w) \/ CompleteAccess(w) \/ ScheduleDependents(w) \/ CompleteRetirement(w)
    BY <2>6, ExcludeTypes, BeginAccessTypes, CompleteAccessTypes, ScheduleDependentsTypes, CompleteRetirementTypes
  <2> QED BY <1>4, <2>1, <2>2, <2>3, <2>4, <2>5, <2>6 DEF WorkStep
<1>5. ASSUME NEW w \in Workers, FaultStep(w) PROVE TypeInv'
  <2>1. CASE Restart(w) BY <2>1, RestartTypes
  <2>2. CASE BudgetSpent(w) \/ CallFails(w) \/ Crash(w) \/ TimesOut(w) BY <1>0, <2>2, RestingSteps, QuietTypes
  <2> QED BY <1>5, <2>1, <2>2 DEF FaultStep
<1>6. ASSUME NEW c \in Classes, LeaseLapses(c) PROVE TypeInv' BY <1>0, <1>6, LeaseLapsesIs, QuietTypes
<1>7. ASSUME NEW q \in late, LateArrives(q) PROVE TypeInv' BY <1>7, LateArrivesTypes
<1>8. ASSUME NEW d \in fdb.held, PendingExpires(d) PROVE TypeInv' BY <1>0, <1>8, PendingExpiresIs, QuietTypes
<1> QED BY <1>1, <1>2, <1>3, <1>4, <1>5, <1>6, <1>7, <1>8 DEF Next

LEMMA TypeInvHolds == Spec => []TypeInv
<1>1. Init => TypeInv BY InitTypes
<1>2. TypeInv /\ [Next]_vars => TypeInv' BY NextTypes
<1> QED BY <1>1, <1>2, PTL DEF Spec

\* The counters, work records, checkpoints, pages and slices keep their types:
\* no page is written outside the revisions a run can reach, and no slice goes on
\* without the document, keys and claim its step needs.
THEOREM TypeCorrect == Spec => []TypeOK
<1>1. TypeInv => TypeOK BY DEF TypeInv
<1> QED BY <1>1, TypeInvHolds, PTL

\* scheduleSearchChange and the transactions of the workers keep every pending
\* record at the node's generation: claimWorkItem drops no work of a current change.
THEOREM RecordsStayCurrent == Spec => []RecordsCurrent
<1>1. TypeInv => RecordsCurrent BY DEF TypeInv, KeysGood, RecordGood, RecordsCurrent
<1> QED BY <1>1, TypeInvHolds, PTL

-----------------------------------------------------------------------------
(* Every step is one of these.                                             *)

\* w goes on from its slice to x, without a write.
Advances(w, x) ==
    LET me == worker[w] IN
    \/ \E c \in Classes : me.pc = "idle" /\ Pending(c) /\ x = Claimed(w, c)
    \/ /\ me.pc \in {"content", "compile"} /\ present /\ grant = NoParent /\ x = At(me, "exclude")
       /\ me.pc = "content" => fdb.gen = me.gen
    \/ me.pc = "content" /\ present /\ fdb.gen = me.gen /\ grant # NoParent /\ x = Reading(me)
    \/ me.pc = "compile" /\ present /\ grant # NoParent /\ x = Compiled(me)
    \/ me.pc = "probe" /\ Decision(w) = "write" /\ x = Armed(me)
    \/ me.pc = "probe" /\ Decision(w) = "skip" /\ x = At(me, "complete")
    \/ me.pc = "send" /\ x = At(me, "probe")
    \/ /\ me.pc = "update" /\ ~Accepts(Request(w)) /\ x = At(me, "complete")
       /\ ~(index[me.doc].seq > 0 /\ index[me.doc].gen > me.gen)
    \/ me.pc = "documents" /\ Selected(w) = {} /\ x = NoneLeft(me)
    \/ /\ me.pc = "documents"
       /\ \E d \in Selected(w), last \in BOOLEAN : /\ \A e \in Selected(w) \ {d} : Before(d, e)
                                                   /\ last => Selected(w) = {d}
                                                   /\ x = Takes(me, d, last)
    \/ me.pc = "begin" /\ Verified(w) /\ fdb.access.keys = me.keys /\ x = At(me, "documents")

\* A source change or a worker raises the generation.
Schedules ==
    /\ present /\ UNCHANGED <<index, late>> /\ Resting
    /\ \/ /\ RevisionScheduled(fdb') /\ UNCHANGED <<present, grant, used, told>>
          /\ fdb'.work["access"] = NoRecord <=> ~Pending("access")
       \/ \E k \in Grants \cup {NoParent} :
            /\ RevisionScheduled(fdb') \/ AccessScheduled(fdb')
            /\ Put("access", fdb', FALSE) /\ Reachable(k)
            /\ grant' = k /\ used' = used \cup ({k} \cap Grants) /\ UNCHANGED <<present, told>>
       \/ /\ ~present' /\ DeletionScheduled(fdb') /\ UNCHANGED <<grant, used>>
          /\ \/ Removed("access", fdb') /\ told' = Gone
             \/ fdb'.work["access"] # NoRecord /\ FanoutLeft' /\ told' = told
       \/ \E w \in Workers :
            /\ ExclusionScheduled(fdb') /\ Busy(w) /\ worker[w].pc = "exclude" /\ worker[w].gen = fdb.gen
            /\ UNCHANGED <<present, grant, used, told>>

\* A transaction of w moves the node's work on.
Progresses(w) ==
    \/ Registers(w) \/ CompletesPage(w) \/ Refreshes(w)
    \/ BeginsAccess(w) \/ SkipsPages(w) \/ NothingToDo(w) \/ ChecksPoint(w) \/ CompletesPages(w)
    \/ TellsDependents(w) \/ FinishesFanout(w)
    \/ Retires(w) \/ FinishesCleanup(w)

Sends(w) == w \in Sending /\ Written(Request(w)) /\ worker' = [worker EXCEPT ![w] = At(worker[w], "complete")]
Arrives(q) == q \in Requests /\ Written(q) /\ UNCHANGED worker

Effect ==
    \/ Quiet
    \/ \E w \in Workers : \E x \in Slices : Advances(w, x) /\ Moves(w, x)
    \/ \E w \in Workers : Sends(w)
    \/ \E q \in late : Arrives(q)
    \/ Schedules
    \/ \E w \in Workers : Progresses(w)

\* The next slice of a worker that goes on is a slice.
LEMMA AdvancesIs ==
    ASSUME TypeInv, NEW w \in Workers, NEW x, Advances(w, x), Moves(w, x), TypeInv'
    PROVE  Effect
<1>1. worker' \in [Workers -> Slices] /\ worker \in [Workers -> Slices] BY DEF TypeInv, TypeOK
<1>2. x \in Slices
  <2>1. worker'[w] = x BY <1>1 DEF Moves
  <2> QED BY <1>1, <2>1
<1> QED BY <1>2 DEF Effect

LEMMA SchedulingSteps ==
    ASSUME TypeInv, \/ SourceStep
                    \/ \E w \in Workers : Restart(w) \/ Exclude(w)
    PROVE  Effect
<1>1. CASE EditContent
  <2>1. Schedules BY <1>1, EditContentIs DEF Schedules, Resting
  <2> QED BY <2>1 DEF Effect
<1>2. ASSUME NEW k \in Grants \cup {NoParent}, Move(k) PROVE Effect
  <2>1. Schedules BY <1>2, MoveIs DEF Schedules, Resting
  <2> QED BY <2>1 DEF Effect
<1>3. ASSUME NEW counterparts \in BOOLEAN, Delete(counterparts) PROVE Effect
  <2>1. Schedules BY <1>3, DeleteIs DEF Schedules, Resting, FanoutLeft
  <2> QED BY <2>1 DEF Effect
<1>4. ASSUME NEW w \in Workers, Restart(w) PROVE Effect
  <2>1. Quiet \/ Schedules BY <1>4, RestartIs DEF Schedules, Resting
  <2> QED BY <2>1 DEF Effect
<1>5. ASSUME NEW w \in Workers, Exclude(w) PROVE Effect
  <2>1. Quiet \/ Schedules BY <1>5, ExcludeIs DEF Schedules, Resting
  <2> QED BY <2>1 DEF Effect
<1> QED BY <1>1, <1>2, <1>3, <1>4, <1>5 DEF SourceStep

LEMMA WritingSteps ==
    ASSUME TypeInv, TypeInv', NEW w \in Workers, Send(w) \/ UpdateAccess(w)
    PROVE  Effect
<1>0. TypeOK BY DEF TypeInv
<1>1. CASE Send(w)
  <2>1. worker[w].pc = "send" BY <1>0, <1>1, SendIs
  <2>2. CASE Moves(w, At(worker[w], "probe"))
    <3>1. Advances(w, At(worker[w], "probe")) BY <2>1 DEF Advances
    <3> QED BY <2>2, <3>1, AdvancesIs
  <2>3. CASE Written(Request(w)) /\ worker' = [worker EXCEPT ![w] = At(worker[w], "complete")]
    BY <2>1, <2>3 DEF Sends, Sending, Effect
  <2> QED BY <1>0, <1>1, <2>2, <2>3, SendIs
<1>2. CASE UpdateAccess(w)
  <2>1. worker[w].pc = "update" BY <1>0, <1>2, UpdateAccessIs
  <2>2. CASE Quiet BY <2>2 DEF Effect
  <2>3. CASE /\ ~Accepts(Request(w)) /\ Moves(w, At(worker[w], "complete"))
             /\ ~(index[worker[w].doc].seq > 0 /\ index[worker[w].doc].gen > worker[w].gen)
    <3>1. Advances(w, At(worker[w], "complete")) BY <2>1, <2>3 DEF Advances
    <3> QED BY <2>3, <3>1, AdvancesIs
  <2>4. CASE Written(Request(w)) /\ worker' = [worker EXCEPT ![w] = At(worker[w], "complete")]
    BY <2>1, <2>4 DEF Sends, Sending, Effect
  <2> QED BY <1>0, <1>2, <2>2, <2>3, <2>4, UpdateAccessIs
<1> QED BY <1>1, <1>2

LEMMA ReadingSteps ==
    ASSUME TypeInv, TypeInv', NEW w \in Workers,
           \/ \E c \in Classes : Claim(w, c)
           \/ ReadContent(w) \/ Compile(w) \/ Probe(w) \/ ReadDocuments(w)
    PROVE  Effect
<1>0. TypeOK BY DEF TypeInv
<1>1. ASSUME NEW c \in Classes, Claim(w, c) PROVE Effect
  <2>1. Pending(c) /\ Moves(w, Claimed(w, c)) /\ worker[w].pc = "idle" BY <1>1, ClaimIsMove DEF Claim
  <2>2. Advances(w, Claimed(w, c)) BY <2>1 DEF Advances
  <2> QED BY <2>1, <2>2, AdvancesIs
<1>2. CASE ReadContent(w)
  <2>1. \/ Quiet
        \/ Advances(w, At(worker[w], "exclude")) /\ Moves(w, At(worker[w], "exclude"))
        \/ Advances(w, Reading(worker[w])) /\ Moves(w, Reading(worker[w]))
    BY <1>0, <1>2, ReadContentIs DEF Advances
  <2> QED BY <2>1, AdvancesIs DEF Effect
<1>3. CASE Compile(w)
  <2>1. \/ Quiet
        \/ Advances(w, At(worker[w], "exclude")) /\ Moves(w, At(worker[w], "exclude"))
        \/ Advances(w, Compiled(worker[w])) /\ Moves(w, Compiled(worker[w]))
    BY <1>0, <1>3, CompileIs DEF Advances
  <2> QED BY <2>1, AdvancesIs DEF Effect
<1>4. CASE Probe(w)
  <2>1. \/ Quiet
        \/ Advances(w, Armed(worker[w])) /\ Moves(w, Armed(worker[w]))
        \/ Advances(w, At(worker[w], "complete")) /\ Moves(w, At(worker[w], "complete"))
    BY <1>0, <1>4, ProbeIs DEF Advances
  <2> QED BY <2>1, AdvancesIs DEF Effect
<1>5. CASE ReadDocuments(w)
  <2>1. CASE Selected(w) = {} /\ Moves(w, NoneLeft(worker[w]))
    <3>1. Advances(w, NoneLeft(worker[w])) BY <1>0, <1>5, <2>1, ReadDocumentsIs DEF Advances
    <3> QED BY <2>1, <3>1, AdvancesIs
  <2>2. ASSUME NEW d \in Selected(w), NEW last \in BOOLEAN, \A e \in Selected(w) \ {d} : Before(d, e),
               last => Selected(w) = {d}, Moves(w, Takes(worker[w], d, last))
        PROVE  Effect
    <3>1. worker[w].pc = "documents" BY <1>0, <1>5, ReadDocumentsIs
    <3>2. Advances(w, Takes(worker[w], d, last)) BY <2>2, <3>1 DEF Advances
    <3> QED BY <2>2, <3>2, AdvancesIs
  <2> QED BY <1>0, <1>5, <2>1, <2>2, ReadDocumentsIs
<1> QED BY <1>1, <1>2, <1>3, <1>4, <1>5

LEMMA ProgressSteps ==
    ASSUME TypeInv, TypeInv', NEW w \in Workers,
           \/ Register(w) \/ CompletePage(w) \/ CompleteRefresh(w) \/ BeginAccess(w) \/ CompleteAccess(w)
           \/ ScheduleDependents(w) \/ CompleteRetirement(w)
    PROVE  Effect
<1>1. CASE Register(w) \/ CompletePage(w) \/ CompleteRefresh(w)
  <2>1. Quiet \/ Progresses(w) BY <1>1, RegisterIs, CompletePageIs, CompleteRefreshIs DEF Progresses
  <2> QED BY <2>1 DEF Effect
<1>2. CASE CompleteAccess(w) \/ ScheduleDependents(w) \/ CompleteRetirement(w)
  <2>1. Quiet \/ Progresses(w) BY <1>2, CompleteAccessIs, ScheduleDependentsIs, CompleteRetirementIs DEF Progresses
  <2> QED BY <2>1 DEF Effect
<1>3. CASE BeginAccess(w)
  <2>1. CASE Quiet \/ BeginsAccess(w) \/ SkipsPages(w) \/ NothingToDo(w) BY <2>1 DEF Progresses, Effect
  <2>2. CASE Verified(w) /\ worker[w].pc = "begin" /\ fdb.access.keys = worker[w].keys /\ Moves(w, At(worker[w], "documents"))
    <3>1. Advances(w, At(worker[w], "documents")) BY <2>2 DEF Advances
    <3> QED BY <2>2, <3>1, AdvancesIs
  <2> QED BY <1>3, <2>1, <2>2, BeginAccessIs
<1> QED BY <1>1, <1>2, <1>3

LEMMA Steps == ASSUME TypeInv, [Next]_vars PROVE TypeInv' /\ Effect
<1>0. TypeOK /\ WorkersGood /\ TypeInv' BY NextTypes DEF TypeInv
<1>1. CASE UNCHANGED vars BY <1>0, <1>1, StutterQuiet DEF Effect
<1>2. CASE SourceStep BY <1>0, <1>2, SchedulingSteps
<1>3. ASSUME NEW w \in Workers, NEW c \in Classes, Claim(w, c) PROVE Effect BY <1>0, <1>3, ReadingSteps
<1>4. ASSUME NEW w \in Workers, WorkStep(w) PROVE Effect
  <2>1. CASE ReadContent(w) \/ Compile(w) \/ Probe(w) \/ ReadDocuments(w) BY <1>0, <2>1, ReadingSteps
  <2>2. CASE Send(w) \/ UpdateAccess(w) BY <1>0, <2>2, WritingSteps
  <2>3. CASE \/ Register(w) \/ CompletePage(w) \/ CompleteRefresh(w) \/ BeginAccess(w) \/ CompleteAccess(w)
             \/ ScheduleDependents(w) \/ CompleteRetirement(w)
    BY <1>0, <2>3, ProgressSteps
  <2>4. CASE ConflictsExhausted(w) \/ Yield(w) BY <1>0, <2>4, RestingSteps DEF Effect
  <2>5. CASE Exclude(w) BY <2>5, SchedulingSteps
  <2> QED BY <1>4, <2>1, <2>2, <2>3, <2>4, <2>5 DEF WorkStep
<1>5. ASSUME NEW w \in Workers, FaultStep(w) PROVE Effect
  <2>1. CASE Restart(w) BY <2>1, SchedulingSteps
  <2>2. CASE BudgetSpent(w) \/ CallFails(w) \/ Crash(w) \/ TimesOut(w) BY <1>0, <2>2, RestingSteps DEF Effect
  <2> QED BY <1>5, <2>1, <2>2 DEF FaultStep
<1>6. ASSUME NEW c \in Classes, LeaseLapses(c) PROVE Effect BY <1>0, <1>6, LeaseLapsesIs DEF Effect
<1>7. ASSUME NEW q \in late, LateArrives(q) PROVE Effect BY <1>0, <1>7, LateArrivesIs DEF Effect, Arrives
<1>8. ASSUME NEW d \in fdb.held, PendingExpires(d) PROVE Effect BY <1>0, <1>8, PendingExpiresIs DEF Effect
<1> QED BY <1>0, <1>1, <1>2, <1>3, <1>4, <1>5, <1>6, <1>7, <1>8 DEF Next

-----------------------------------------------------------------------------
(* The index: what pages, requests on their way and slices are worth.      *)

Served(d) == index[d].seq > 0 /\ ~index[d].retired

\* A page that was never written is blank; the served ones are issued, and
\* retired ones belong to an older revision or a deleted node.
PageGood(d) ==
    /\ index[d].seq = 0 => ~index[d].retired /\ index[d].gen = 0
    /\ fdb.gen > 0 => index[d].gen <= fdb.gen
    /\ index[d].retired => ~present \/ d[1] < fdb.rev
    /\ Served(d) => d \in fdb.issued /\ index[d].keys \in Grants
    /\ Served(d) /\ present /\ index[d].gen = fdb.gen => index[d].keys = grant

\* What the sequence number a request was decided on is worth: while it is the
\* page's, the page has what the decision read; and a page whose content is on its
\* way is issued until it is retired.
RequestGood(q) ==
    /\ q.gen > 0 /\ (fdb.gen > 0 => q.gen <= fdb.gen)
    /\ q.class # "access" => q.seq <= index[q.doc].seq
    /\ q.class = "live" /\ q.seq = index[q.doc].seq => ~index[q.doc].retired /\ index[q.doc].gen < q.gen
    /\ q.class = "cleanup" /\ q.seq = index[q.doc].seq => index[q.doc].gen <= q.gen
    /\ q.class = "live" => q.doc \in fdb.issued \/ index[q.doc].retired
    /\ q.class = "cleanup" => ~present \/ q.doc[1] < fdb.rev
    /\ q.class # "cleanup" => q.keys \in Grants /\ (present /\ q.gen = fdb.gen => q.keys = grant)

\* The request of a slice
Carries(x) == [doc |-> x.doc, class |-> x.class, gen |-> x.gen, keys |-> x.keys, seq |-> x.seq]

SliceRequestGood(x) == x.pc \in {"send", "update"} => RequestGood(Carries(x))

\* The page a slice is at.
AtPageGood(x) ==
    /\ x.class = "live" /\ x.pc \in {"probe", "send", "complete"} => x.doc \in fdb.issued \/ index[x.doc].retired
    /\ x.class = "live" /\ x.pc = "complete" /\ present /\ x.rev = fdb.rev => Served(x.doc)
    /\ x.class = "cleanup" /\ x.pc = "complete" /\ x.doc # NoDocument => index[x.doc].retired \/ x.gen # fdb.gen

\* A slice of the current generation has the current access.
SliceAccessGood(x) ==
    x.pc # "idle" /\ x.gen = fdb.gen =>
        /\ present /\ x.class = "live" /\ x.pc \in PagePCs => x.keys = grant
        /\ present /\ x.class = "access" /\ x.pc \in AccessPCs => x.keys = grant
        /\ present /\ x.pc = "exclude" => grant = NoParent

SliceIndexGood(x) == SliceRequestGood(x) /\ AtPageGood(x) /\ SliceAccessGood(x)

PagesGood == \A d \in Documents : PageGood(d)
IssuedGood == fdb.gen > 0 => \A d \in fdb.issued : d[1] <= fdb.rev
LateGood == \A q \in late : RequestGood(q)
SlicesGood == \A w \in Workers : SliceIndexGood(worker[w])

IndexInv == PagesGood /\ IssuedGood /\ LateGood /\ SlicesGood

LEMMA RequestCarries == ASSUME NEW w PROVE Request(w) = Carries(worker[w])
BY DEF Request, Carries

LEMMA CarriesIs ==
    ASSUME NEW x \in Slices, x.doc \in Documents
    PROVE  /\ Carries(x) \in Requests /\ Carries(x).doc = x.doc /\ Carries(x).class = x.class
           /\ Carries(x).gen = x.gen /\ Carries(x).keys = x.keys /\ Carries(x).seq = x.seq
BY DEF Carries, Requests, Slices

\* What is known of a slice before its page
LEMMA SliceIs ==
    ASSUME NEW x \in Slices, SliceGood(x), x.pc # "idle"
    PROVE  /\ x.class \in Classes /\ x.gen \in Nat /\ x.rev \in Nat /\ x.gen > 0 /\ ItemGood(x) /\ PCGood(x) /\ PageAtHand(x)
           /\ x.pc \in {"probe", "send", "update"} => x.doc \in Documents
           /\ x.class = "live" /\ x.pc \in PagePCs => x.doc \in Documents
           /\ x.class = "cleanup" /\ x.pc = "complete" => x.doc \in Documents \cup {NoDocument}
<1>1. x.class \in Classes /\ x.gen \in Nat /\ x.rev \in Nat /\ x.gen > 0 /\ ItemGood(x) /\ PCGood(x) /\ PageAtHand(x)
      /\ x.doc \in Documents \cup {NoDocument}
  BY DEF Slices, SliceGood, ItemGood
<1>2. x.pc \in {"probe", "send", "update"} => x.doc \in Documents
  BY <1>1 DEF PCGood, PageAtHand, PagePCs, Classes
<1> QED BY <1>1, <1>2 DEF PageAtHand

\* The index numbers.
LEMMA PageNumbers ==
    ASSUME TypeOK, NEW d \in Documents
    PROVE  /\ index[d] \in PageStates /\ index[d].seq \in Nat /\ index[d].gen \in Nat /\ index[d].retired \in BOOLEAN
           /\ d[1] \in Nat
BY DocumentShape DEF TypeOK, PageStates

\* A step away from the index: the counters age, and a page leaves the issued
\* ones only when it is retired.
Away ==
    /\ UNCHANGED index /\ Ages /\ fdb' \in SearchKeys /\ (fdb'.gen = fdb.gen => UNCHANGED grant)
    /\ \A d \in fdb.issued : d \in fdb'.issued \/ index[d].retired
    /\ \A d \in fdb'.issued : d \in fdb.issued \/ d[1] <= fdb'.rev

LEMMA AgesIs ==
    ASSUME TypeInv, Ages, fdb' \in SearchKeys
    PROVE  /\ fdb.gen \in Nat /\ fdb.rev \in Nat /\ fdb'.gen \in Nat /\ fdb'.rev \in Nat
           /\ present' => present
           /\ fdb'.gen > 0 => fdb.gen > 0 /\ fdb.gen <= fdb'.gen /\ fdb.rev <= fdb'.rev
           /\ fdb'.gen = 0 => ~present \/ fdb.gen = 0
           /\ \A n \in Nat : n > 0 /\ (fdb.gen > 0 => n <= fdb.gen) /\ n = fdb'.gen => fdb'.gen = fdb.gen /\ fdb'.rev = fdb.rev /\ present' = present
<1>1. fdb.gen \in Nat /\ fdb.rev \in Nat /\ fdb'.gen \in Nat /\ fdb'.rev \in Nat BY KeyNumbers DEF SearchKeys
<1>2. CASE fdb'.gen = fdb.gen /\ fdb'.rev = fdb.rev /\ present' = present BY <1>1, <1>2
<1>3. CASE fdb.gen > 0 /\ fdb'.gen = fdb.gen + 1 /\ fdb'.rev >= fdb.rev /\ (present' => present) BY <1>1, <1>3
<1>4. CASE fdb'.gen = 0 /\ ~present /\ ~present' BY <1>1, <1>4
<1> QED BY <1>2, <1>3, <1>4 DEF Ages

LEMMA RequestAway ==
    ASSUME TypeInv, Away, NEW q \in Requests, RequestGood(q)
    PROVE  RequestGood(q)'
<1>0. /\ Ages /\ fdb' \in SearchKeys /\ UNCHANGED index /\ (fdb'.gen = fdb.gen => UNCHANGED grant)
      /\ \A d \in fdb.issued : d \in fdb'.issued \/ index[d].retired
  BY DEF Away
<1>1. q.gen \in Nat /\ q.doc \in Documents /\ q.doc[1] \in Nat BY DocumentShape DEF Requests
<1>2. /\ fdb.gen \in Nat /\ fdb.rev \in Nat /\ fdb'.gen \in Nat /\ fdb'.rev \in Nat /\ (present' => present)
      /\ fdb'.gen > 0 => fdb.gen > 0 /\ fdb.gen <= fdb'.gen /\ fdb.rev <= fdb'.rev
      /\ present' => fdb'.gen > 0 \/ fdb.gen = 0
  BY <1>0, AgesIs
<1>3. q.gen > 0 /\ (fdb'.gen > 0 => q.gen <= fdb'.gen) BY <1>1, <1>2 DEF RequestGood
<1>4. q.gen = fdb'.gen => fdb'.gen = fdb.gen /\ present' = present BY <1>0, <1>1, AgesIs DEF RequestGood
<1>5. q.class = "cleanup" => ~present' \/ q.doc[1] < fdb'.rev
  <2>1. present' => fdb.rev <= fdb'.rev BY <1>2, <1>0 DEF Ages
  <2> QED BY <1>1, <1>2, <2>1 DEF RequestGood
<1>6. q.class # "cleanup" => q.keys \in Grants /\ (present' /\ q.gen = fdb'.gen => q.keys = grant')
  BY <1>0, <1>4 DEF RequestGood
<1>7. q.class = "live" => q.doc \in fdb'.issued \/ index[q.doc].retired BY <1>0 DEF RequestGood
<1> QED BY <1>0, <1>3, <1>5, <1>6, <1>7 DEF RequestGood

LEMMA PageAway == ASSUME TypeInv, Away, NEW d \in Documents, PageGood(d) PROVE PageGood(d)'
<1>0. /\ Ages /\ fdb' \in SearchKeys /\ UNCHANGED index /\ (fdb'.gen = fdb.gen => UNCHANGED grant)
      /\ \A e \in fdb.issued : e \in fdb'.issued \/ index[e].retired
  BY DEF Away
<1>1. index[d].gen \in Nat /\ index[d].seq \in Nat /\ d[1] \in Nat /\ index[d].retired \in BOOLEAN BY PageNumbers DEF TypeInv
<1>2. /\ fdb.gen \in Nat /\ fdb.rev \in Nat /\ fdb'.gen \in Nat /\ fdb'.rev \in Nat /\ (present' => present)
      /\ fdb'.gen > 0 => fdb.gen > 0 /\ fdb.gen <= fdb'.gen /\ fdb.rev <= fdb'.rev
  BY <1>0, AgesIs
<1>3. fdb'.gen > 0 => index[d].gen <= fdb'.gen BY <1>1, <1>2 DEF PageGood
<1>4. index[d].retired => ~present' \/ d[1] < fdb'.rev
  <2>1. present' => fdb.rev <= fdb'.rev BY <1>2, <1>0 DEF Ages
  <2> QED BY <1>1, <1>2, <2>1 DEF PageGood
<1>5. Served(d) => d \in fdb'.issued BY <1>0 DEF PageGood, Served
<1>6. Served(d) /\ present' /\ index[d].gen = fdb'.gen => index[d].keys = grant'
  <2> SUFFICES ASSUME Served(d), present', index[d].gen = fdb'.gen PROVE index[d].keys = grant' OBVIOUS
  <2>1. CASE fdb'.gen = fdb.gen BY <1>0, <1>2, <2>1 DEF PageGood
  <2>2. CASE fdb'.gen # fdb.gen
    <3>1. fdb.gen > 0 /\ fdb'.gen = fdb.gen + 1 BY <1>0, <2>2 DEF Ages
    <3> QED BY <1>1, <1>2, <3>1 DEF PageGood
  <2> QED BY <2>1, <2>2
<1>7. Served(d)' = Served(d) BY <1>0 DEF Served
<1> QED BY <1>0, <1>3, <1>4, <1>5, <1>6, <1>7 DEF PageGood

LEMMA SliceAway ==
    ASSUME TypeInv, Away, NEW x \in Slices, SliceGood(x), SliceIndexGood(x)
    PROVE  SliceIndexGood(x)'
<1>0. /\ Ages /\ fdb' \in SearchKeys /\ UNCHANGED index /\ (fdb'.gen = fdb.gen => UNCHANGED grant)
      /\ \A e \in fdb.issued : e \in fdb'.issued \/ index[e].retired
  BY DEF Away
<1>1. CASE x.pc = "idle" BY <1>1 DEF SliceIndexGood, SliceRequestGood, AtPageGood, SliceAccessGood
<1>2. CASE x.pc # "idle"
  <2>1. /\ x.class \in Classes /\ x.gen \in Nat /\ x.rev \in Nat /\ x.gen > 0 /\ ItemGood(x)
        /\ x.pc \in {"probe", "send", "update"} => x.doc \in Documents
    BY <1>2, SliceIs
  <2>2. x.gen = fdb'.gen => fdb'.gen = fdb.gen /\ fdb'.rev = fdb.rev /\ present' = present
    BY <1>0, <2>1, AgesIs DEF ItemGood
  <2>3. SliceRequestGood(x)'
    <3> SUFFICES ASSUME x.pc \in {"send", "update"} PROVE RequestGood(Carries(x))' BY DEF SliceRequestGood
    <3>1. Carries(x) \in Requests BY <2>1, CarriesIs
    <3>2. RequestGood(Carries(x)) BY DEF SliceIndexGood, SliceRequestGood
    <3> DEFINE q == Carries(x)
    <3> HIDE DEF q
    <3>3. RequestGood(q)' BY <3>1, <3>2, RequestAway DEF q
    <3> QED BY <3>3 DEF q
  <2>4. AtPageGood(x)'
    <3>1. present' /\ x.rev = fdb'.rev => present /\ x.rev = fdb.rev
      <4>1. /\ fdb.gen \in Nat /\ fdb.rev \in Nat /\ fdb'.gen \in Nat /\ fdb'.rev \in Nat /\ (present' => present) BY <1>0, AgesIs
      <4>2. fdb.gen > 0 => x.rev <= fdb.rev BY <2>1 DEF ItemGood
      <4> QED BY <1>0, <2>1, <4>1, <4>2 DEF Ages
    <3>2. x.class = "live" /\ x.pc \in {"probe", "send", "complete"} => x.doc \in fdb'.issued \/ index[x.doc].retired
      BY <1>0 DEF SliceIndexGood, AtPageGood
    <3>3. x.class = "cleanup" /\ x.pc = "complete" /\ x.doc # NoDocument => index[x.doc].retired \/ x.gen # fdb'.gen
      BY <2>2 DEF SliceIndexGood, AtPageGood
    <3>4. Served(x.doc)' = Served(x.doc) BY <1>0 DEF Served
    <3>5. x.class = "live" /\ x.pc = "complete" /\ present' /\ x.rev = fdb'.rev => Served(x.doc)
      BY <3>1 DEF SliceIndexGood, AtPageGood
    <3> QED BY <1>0, <3>2, <3>3, <3>4, <3>5 DEF AtPageGood
  <2>5. SliceAccessGood(x)' BY <1>0, <2>2 DEF SliceIndexGood, SliceAccessGood
  <2> QED BY <2>3, <2>4, <2>5 DEF SliceIndexGood
<1> QED BY <1>1, <1>2

LEMMA SlicesIndexNext ==
    ASSUME worker' \in [Workers -> Slices], \A w \in Workers : \A y \in Slices : y = worker'[w] => SliceIndexGood(y)'
    PROVE  SlicesGood'
<1> SUFFICES ASSUME NEW w \in Workers PROVE SliceIndexGood(worker[w])' BY DEF SlicesGood
<1>1. PICK y \in Slices : y = worker'[w] OBVIOUS
<1>2. SliceIndexGood(y)' BY <1>1
<1> QED BY <1>1, <1>2 DEF SliceIndexGood, SliceRequestGood, Carries, AtPageGood, SliceAccessGood

\* Requests that are given up were good.
LEMMA AbandonedGood ==
    ASSUME TypeInv, IndexInv, NEW q \in late \cup {Request(w) : w \in Sending}
    PROVE  q \in Requests /\ RequestGood(q)
<1>1. CASE q \in late BY <1>1 DEF TypeInv, TypeOK, IndexInv, LateGood
<1>2. ASSUME NEW w \in Sending, q = Request(w) PROVE q \in Requests /\ RequestGood(q)
  <2>1. w \in Workers /\ worker[w].pc \in {"send", "update"} BY DEF Sending
  <2>2. SliceIndexGood(worker[w]) BY <2>1 DEF IndexInv, SlicesGood
  <2>3. RequestGood(Request(w)) BY <2>1, <2>2, RequestCarries DEF SliceIndexGood, SliceRequestGood
  <2> QED BY <1>2, <2>3, RequestIs
<1> QED BY <1>1, <1>2

LEMMA AwayInv ==
    ASSUME TypeInv, IndexInv, Away, late' \subseteq late \cup {Request(w) : w \in Sending},
           worker' \in [Workers -> Slices], \A w \in Workers : \A y \in Slices : y = worker'[w] => SliceIndexGood(y)'
    PROVE  IndexInv'
<1>1. PagesGood' BY PageAway DEF IndexInv, PagesGood
<1>2. IssuedGood'
  <2> SUFFICES ASSUME fdb'.gen > 0, NEW d \in fdb'.issued PROVE d[1] <= fdb'.rev BY DEF IssuedGood
  <2>1. Ages /\ fdb' \in SearchKeys /\ (d \in fdb.issued \/ d[1] <= fdb'.rev) BY DEF Away
  <2>2. d \in Documents /\ d[1] \in Nat BY <2>1, DocumentShape DEF SearchKeys
  <2>3. fdb.gen > 0 /\ fdb.rev <= fdb'.rev /\ fdb.rev \in Nat /\ fdb'.rev \in Nat BY <2>1, AgesIs
  <2> QED BY <2>1, <2>2, <2>3 DEF IndexInv, IssuedGood
<1>3. LateGood'
  <2> SUFFICES ASSUME NEW q \in late' PROVE RequestGood(q)' BY DEF LateGood
  <2>1. q \in late \cup {Request(w) : w \in Sending} OBVIOUS
  <2>2. q \in Requests /\ RequestGood(q) BY <2>1, AbandonedGood
  <2> QED BY <2>2, RequestAway
<1>4. SlicesGood' BY SlicesIndexNext
<1> QED BY <1>1, <1>2, <1>3, <1>4 DEF IndexInv

\* A slice that rests expects nothing of the index.
LEMMA RestingIndex ==
    ASSUME TypeInv, IndexInv, Away, Resting
    PROVE  /\ worker' \in [Workers -> Slices]
           /\ \A w \in Workers : \A y \in Slices : y = worker'[w] => SliceIndexGood(y)'
<1>1. worker' \in [Workers -> Slices] /\ \A v \in Workers : SliceGood(worker'[v]) /\ StaysOrRests(v) BY RestingSlices
<1> SUFFICES ASSUME NEW w \in Workers, NEW y \in Slices, y = worker'[w] PROVE SliceIndexGood(y)' BY <1>1
<1>2. SliceGood(y) /\ StaysOrRests(w) BY <1>1
<1>3. CASE y.pc \in {"idle", "yield"}
  BY <1>3 DEF SliceIndexGood, SliceRequestGood, AtPageGood, SliceAccessGood, PagePCs, AccessPCs
<1>4. CASE y = worker[w]
  <2>1. SliceIndexGood(y) BY <1>4 DEF IndexInv, SlicesGood
  <2> QED BY <1>2, <2>1, SliceAway
<1>5. CASE Busy(w) /\ y = At(worker[w], "yield")
  <2>1. worker[w] \in Slices /\ "yield" \in PCs BY DEF TypeInv, TypeOK, PCs
  <2>2. y.pc = "yield" BY <1>5, <2>1, AtIs
  <2> QED BY <1>3, <2>2
<1> QED BY <1>2, <1>3, <1>4, <1>5 DEF StaysOrRests

LEMMA MovingIndex ==
    ASSUME TypeInv, IndexInv, Away, NEW w \in Workers, NEW x \in Slices, worker' = [worker EXCEPT ![w] = x], SliceIndexGood(x)'
    PROVE  /\ worker' \in [Workers -> Slices]
           /\ \A v \in Workers : \A y \in Slices : y = worker'[v] => SliceIndexGood(y)'
<1>1. worker' \in [Workers -> Slices] /\ worker'[w] = x /\ \A v \in Workers \ {w} : worker'[v] = worker[v]
  BY SlicesOfStep DEF TypeInv
<1> SUFFICES ASSUME NEW v \in Workers, NEW y \in Slices, y = worker'[v] PROVE SliceIndexGood(y)' BY <1>1
<1>2. CASE v = w BY <1>1, <1>2
<1>3. CASE v # w
  <2>1. y = worker[v] BY <1>1, <1>3
  <2>2. SliceGood(y) /\ SliceIndexGood(y) BY <2>1 DEF TypeInv, WorkersGood, IndexInv, SlicesGood
  <2> QED BY <2>2, SliceAway
<1> QED BY <1>2, <1>3

LEMMA QuietIndex == ASSUME TypeInv, IndexInv, Quiet PROVE IndexInv'
<1>1. Away BY DEF Quiet, SameKeys, Away, Ages
<1>2. Resting BY DEF Quiet, Resting
<1> QED BY <1>1, <1>2, RestingIndex, AwayInv DEF Quiet

LEMMA SchedulesIndex == ASSUME TypeInv, IndexInv, Schedules PROVE IndexInv'
<1>1. present /\ UNCHANGED <<index, late>> /\ Resting /\ fdb.gen > 0 BY DEF Schedules, TypeInv, KeysGood
<1>2. fdb' \in SearchKeys /\ fdb'.gen = fdb.gen + 1 /\ fdb'.rev \in {fdb'.gen, fdb.rev} /\ fdb'.issued = fdb.issued
  BY DEF Schedules, RevisionScheduled, AccessScheduled, DeletionScheduled, ExclusionScheduled, Raised
<1>3. fdb.gen \in Nat /\ fdb.rev \in Nat /\ fdb.rev <= fdb.gen BY KeyNumbers DEF TypeInv, KeysGood
<1>3a. fdb'.rev >= fdb.rev BY <1>2, <1>3
<1>3b. present' => present BY <1>1
<1>4. Ages BY <1>1, <1>2, <1>3a, <1>3b DEF Ages
<1>5. Away BY <1>1, <1>2, <1>3, <1>4 DEF Away
<1> QED BY <1>1, <1>5, RestingIndex, AwayInv

\* An advance is decided on the keys and the page as they are.
LEMMA AdvancesIndex ==
    ASSUME TypeInv, TypeInv', IndexInv, NEW w \in Workers, NEW x \in Slices, Moves(w, x), SliceIndexGood(x)
    PROVE  IndexInv'
<1>1. Away BY DEF Moves, SameKeys, Away, Ages
<1>2. SliceGood(x)
  <2>1. worker'[w] = x BY SlicesOfStep DEF TypeInv, Moves
  <2>2. SliceGood(x)' BY <2>1 DEF TypeInv, WorkersGood, SliceGood, ItemGood, PCGood, PageAtHand
  <2>3. fdb'.gen = fdb.gen /\ fdb'.rev = fdb.rev /\ present' = present BY DEF Moves, SameKeys
  <2> QED BY <2>2, <2>3 DEF SliceGood, ItemGood, PCGood, PageAtHand
<1>3. SliceIndexGood(x)' BY <1>1, <1>2, SliceAway
<1> QED BY <1>1, <1>3, MovingIndex, AwayInv DEF Moves

LEMMA AtPage ==
    ASSUME NEW x, x.pc \notin {"probe", "send", "update", "complete"}
    PROVE  SliceRequestGood(x) /\ AtPageGood(x)
BY DEF SliceRequestGood, AtPageGood

LEMMA AdvancesGood ==
    ASSUME TypeInv, TypeInv', IndexInv, NEW w \in Workers, NEW x \in Slices, Advances(w, x), Moves(w, x)
    PROVE  SliceIndexGood(x)
<1> DEFINE me == worker[w]
<1>1. me \in Slices /\ SliceGood(me) /\ SliceIndexGood(me) BY DEF TypeInv, TypeOK, WorkersGood, IndexInv, SlicesGood
<1>2. ASSUME NEW c \in Classes, Pending(c), x = Claimed(w, c) PROVE SliceIndexGood(x)
  <2>1. x.pc \in {"content", "refresh", "dependents", "compile", "documents"} BY <1>2, ClaimedIs
  <2>2. x.keys = NoKeys /\ x.class = c BY <1>2 DEF Claimed, Idle
  <2>3. x.class = "access" => x.pc \in {"compile", "dependents"}
    <3>1. x.pc = FirstStep(c, Progress(fdb, c).phase) BY <1>2, ClaimedIs
    <3> QED BY <2>2, <3>1 DEF FirstStep
  <2>4. SliceAccessGood(x) BY <2>1, <2>3 DEF SliceAccessGood, PagePCs, AccessPCs
  <2> QED BY <2>1, <2>4, AtPage DEF SliceIndexGood
<1>3. CASE present /\ grant = NoParent /\ x = At(me, "exclude")
  <2>1. x.pc = "exclude" BY <1>1, <1>3, AtIs DEF PCs
  <2>2. SliceAccessGood(x) BY <1>3, <2>1 DEF SliceAccessGood, PagePCs, AccessPCs
  <2> QED BY <2>1, <2>2, AtPage DEF SliceIndexGood
<1>4. CASE x = Reading(me)
  <2>1. x.pc = "register" /\ x.keys = grant BY <1>1, <1>4 DEF Reading, Slices
  <2>2. SliceAccessGood(x) BY <2>1 DEF SliceAccessGood
  <2> QED BY <2>1, <2>2, AtPage DEF SliceIndexGood
<1>5. CASE x = Compiled(me)
  <2>1. x.pc = "begin" /\ x.keys = grant BY <1>1, <1>5 DEF Compiled, Slices
  <2>2. SliceAccessGood(x) BY <2>1 DEF SliceAccessGood
  <2> QED BY <2>1, <2>2, AtPage DEF SliceIndexGood
<1>6. CASE me.pc = "probe" /\ Decision(w) = "write" /\ x = Armed(me)
  <2>0. me.pc # "idle" BY <1>6
  <2>1. /\ me.class \in Classes /\ me.gen \in Nat /\ me.rev \in Nat /\ me.gen > 0 /\ ItemGood(me) /\ PCGood(me) /\ PageAtHand(me)
        /\ me.doc \in Documents
    BY <1>1, <1>6, <2>0, SliceIs
  <2>2. me.class # "access" BY <1>6, <2>1 DEF PCGood
  <2> DEFINE p == index[me.doc]
  <2>3. /\ p.seq \in Nat /\ p.gen \in Nat
        /\ \/ p.seq = 0
           \/ me.class = "cleanup" /\ p.gen <= me.gen
           \/ me.class # "cleanup" /\ ~p.retired /\ p.gen < me.gen
    BY <1>6, <2>1, DecisionIs DEF TypeInv
  <2>4. p.seq = 0 => ~p.retired /\ p.gen = 0 BY <2>1 DEF IndexInv, PagesGood, PageGood
  <2>5. /\ x.pc = "send" /\ x.class = me.class /\ x.gen = me.gen /\ x.rev = me.rev /\ x.deleted = me.deleted
        /\ x.keys = me.keys /\ x.doc = me.doc /\ x.seq = p.seq
    BY <1>1, <1>6 DEF Armed, Slices
  <2>6. me.class = "live" => me.doc \in fdb.issued \/ p.retired BY <1>1, <1>6 DEF SliceIndexGood, AtPageGood
  <2>7. me.class = "live" => me.keys \in Grants /\ (present /\ me.gen = fdb.gen => me.keys = grant)
    BY <1>1, <1>6, <2>1 DEF SliceIndexGood, SliceAccessGood, PageAtHand, PagePCs
  <2>8. me.class = "cleanup" => ~present \/ me.doc[1] < fdb.rev
    <3>1. me.class = "cleanup" => me.deleted \/ me.doc[1] < me.rev BY <1>6, <2>1 DEF PageAtHand
    <3>2. present => fdb.gen > 0 BY DEF TypeInv, KeysGood
    <3>3. me.doc[1] \in Nat /\ fdb.rev \in Nat BY <2>1, DocumentShape, KeyNumbers
    <3> QED BY <2>1, <3>1, <3>2, <3>3 DEF ItemGood
  <2> DEFINE q == Carries(x)
  <2>9. /\ q.doc = me.doc /\ q.class = me.class /\ q.gen = me.gen /\ q.keys = me.keys /\ q.seq = p.seq
    BY <2>5 DEF Carries
  <2> HIDE DEF q
  <2>10. RequestGood(q)
    BY <2>1, <2>2, <2>3, <2>4, <2>6, <2>7, <2>8, <2>9 DEF RequestGood, ItemGood, Classes
  <2>11. AtPageGood(x) BY <2>5, <2>6 DEF AtPageGood
  <2>12. SliceAccessGood(x) BY <1>1, <1>6, <2>5 DEF SliceIndexGood, SliceAccessGood, PagePCs, AccessPCs
  <2> QED BY <2>10, <2>11, <2>12 DEF SliceIndexGood, SliceRequestGood, q
<1>7. CASE me.pc = "probe" /\ Decision(w) = "skip" /\ x = At(me, "complete")
  <2>0. me.pc # "idle" BY <1>7
  <2>1. /\ me.class \in Classes /\ me.gen \in Nat /\ me.rev \in Nat /\ me.gen > 0 /\ ItemGood(me) /\ PCGood(me) /\ PageAtHand(me)
        /\ me.doc \in Documents
    BY <1>1, <1>7, <2>0, SliceIs
  <2>2. me.class # "access" BY <1>7, <2>1 DEF PCGood
  <2> DEFINE p == index[me.doc]
  <2>3. /\ p.seq \in Nat /\ p.gen \in Nat
        /\ \/ me.class = "cleanup" /\ p.gen > me.gen
           \/ me.class # "cleanup" /\ p.seq > 0 /\ ~p.retired /\ p.gen = me.gen
    BY <1>7, <2>1, DecisionIs DEF TypeInv
  <2>5. /\ x.pc = "complete" /\ x.class = me.class /\ x.gen = me.gen /\ x.rev = me.rev
        /\ x.keys = me.keys /\ x.doc = me.doc
    BY <1>1, <1>7, AtIs DEF SameItem, PCs
  <2>6. me.class = "live" => me.doc \in fdb.issued \/ p.retired BY <1>1, <1>7 DEF SliceIndexGood, AtPageGood
  <2>7. me.class = "cleanup" => me.gen # fdb.gen
    <3>1. fdb.gen > 0 => p.gen <= fdb.gen BY <2>1 DEF IndexInv, PagesGood, PageGood
    <3> QED BY <2>1, <2>3, <3>1, KeyNumbers
  <2>8. AtPageGood(x) BY <2>2, <2>3, <2>5, <2>6, <2>7 DEF AtPageGood, Served
  <2>9. SliceAccessGood(x) BY <1>1, <1>7, <2>2, <2>5 DEF SliceIndexGood, SliceAccessGood, PagePCs, AccessPCs
  <2> QED BY <2>5, <2>8, <2>9 DEF SliceIndexGood, SliceRequestGood
<1>8. CASE me.pc = "send" /\ x = At(me, "probe")
  <2>1. PCGood(me) BY <1>1, <1>8, SliceIs
  <2>5. /\ x.pc = "probe" /\ x.class = me.class /\ x.gen = me.gen /\ x.rev = me.rev
        /\ x.keys = me.keys /\ x.doc = me.doc
    BY <1>1, <1>8, AtIs DEF SameItem, PCs
  <2>6. AtPageGood(x) BY <1>1, <1>8, <2>5 DEF SliceIndexGood, AtPageGood
  <2>7. SliceAccessGood(x) BY <1>1, <1>8, <2>1, <2>5 DEF SliceIndexGood, SliceAccessGood, PagePCs, AccessPCs, PCGood
  <2> QED BY <2>5, <2>6, <2>7 DEF SliceIndexGood, SliceRequestGood
<1>9. CASE me.pc = "update" /\ x = At(me, "complete")
  <2>1. PCGood(me) BY <1>1, <1>9, SliceIs
  <2>5. /\ x.pc = "complete" /\ x.class = me.class /\ x.gen = me.gen /\ x.keys = me.keys
    BY <1>1, <1>9, AtIs DEF SameItem, PCs
  <2>6. AtPageGood(x) BY <1>9, <2>1, <2>5 DEF AtPageGood, PCGood
  <2>7. SliceAccessGood(x) BY <1>1, <1>9, <2>1, <2>5 DEF SliceIndexGood, SliceAccessGood, PagePCs, AccessPCs, PCGood
  <2> QED BY <2>5, <2>6, <2>7 DEF SliceIndexGood, SliceRequestGood
<1>10. CASE me.pc = "documents" /\ x = NoneLeft(me)
  <2>1. PCGood(me) BY <1>1, <1>10, SliceIs
  <2>5. /\ x.pc = "complete" /\ x.class = me.class /\ x.gen = me.gen /\ x.keys = me.keys /\ x.doc = NoDocument
    BY <1>1, <1>10, NoneLeftIs DEF SameItem
  <2>6. AtPageGood(x) BY <1>10, <2>1, <2>5 DEF AtPageGood, PCGood
  <2>7. SliceAccessGood(x) BY <1>1, <1>10, <2>1, <2>5 DEF SliceIndexGood, SliceAccessGood, PagePCs, AccessPCs, PCGood
  <2> QED BY <2>5, <2>6, <2>7 DEF SliceIndexGood, SliceRequestGood
<1>11. ASSUME me.pc = "documents", NEW d \in Selected(w), NEW last \in BOOLEAN, x = Takes(me, d, last) PROVE SliceIndexGood(x)
  <2>1. me.class \in Classes /\ me.gen \in Nat /\ me.gen > 0 /\ ItemGood(me) /\ PCGood(me) /\ PageAtHand(me) BY <1>1, <1>11, SliceIs
  <2>2. d \in Documents BY DEF Selected, TypeInv, TypeOK, SearchKeys
  <2>5. /\ x.pc = (IF me.class = "access" THEN "update" ELSE "probe") /\ x.class = me.class /\ x.gen = me.gen /\ x.keys = me.keys
        /\ x.doc = d
    BY <1>1, <1>11, <2>2, TakesIs DEF SameItem
  <2>6. AtPageGood(x) BY <1>11, <2>1, <2>5 DEF AtPageGood, PCGood
  <2>7. SliceAccessGood(x) BY <1>1, <1>11, <2>1, <2>5 DEF SliceIndexGood, SliceAccessGood, PagePCs, AccessPCs, PCGood
  <2>8. SliceRequestGood(x)
    <3> SUFFICES ASSUME x.pc \in {"send", "update"} PROVE RequestGood(Carries(x)) BY DEF SliceRequestGood
    <3>1. me.class = "access" BY <2>5
    <3>2. me.keys \in Grants BY <1>11, <2>1, <3>1 DEF PageAtHand, AccessPCs
    <3>3. present /\ me.gen = fdb.gen => me.keys = grant
      BY <1>1, <1>11, <3>1 DEF SliceIndexGood, SliceAccessGood, AccessPCs
    <3> DEFINE q == Carries(x)
    <3>4. q.class = "access" /\ q.gen = me.gen /\ q.keys = me.keys BY <2>5, <3>1 DEF Carries
    <3> HIDE DEF q
    <3>5. RequestGood(q) BY <2>1, <3>2, <3>3, <3>4 DEF RequestGood, ItemGood
    <3> QED BY <3>5 DEF q
  <2> QED BY <2>6, <2>7, <2>8 DEF SliceIndexGood
<1>12. CASE me.pc = "begin" /\ x = At(me, "documents")
  <2>1. PCGood(me) BY <1>1, <1>12, SliceIs
  <2>5. /\ x.pc = "documents" /\ x.class = me.class /\ x.gen = me.gen /\ x.keys = me.keys
    BY <1>1, <1>12, AtIs DEF SameItem, PCs
  <2>7. SliceAccessGood(x) BY <1>1, <1>12, <2>1, <2>5 DEF SliceIndexGood, SliceAccessGood, PagePCs, AccessPCs, PCGood
  <2> QED BY <2>5, <2>7, AtPage DEF SliceIndexGood
<1> QED BY <1>2, <1>3, <1>4, <1>5, <1>6, <1>7, <1>8, <1>9, <1>10, <1>11, <1>12 DEF Advances

\* The index takes a good request: generations rise, and what is retired stays so.
LEMMA WrittenPage ==
    ASSUME TypeInv, NEW q \in Requests, RequestGood(q), Written(q), NEW d \in Documents
    PROVE  /\ index'[d].seq \in Nat /\ index[d].seq <= index'[d].seq
           /\ index'[d].gen \in Nat /\ index[d].gen <= index'[d].gen
           /\ index[d].retired => index'[d].retired
           /\ d = q.doc => /\ index'[d].seq = index[d].seq + 1 /\ index'[d].gen = q.gen
                           /\ index'[d].retired <=> q.class = "cleanup"
                           /\ q.class # "cleanup" => index'[d].keys = q.keys
                           /\ q.class = "access" => Served(d)
                           /\ q.class # "cleanup" => ~index[d].retired /\ index[d].gen < q.gen
           /\ d # q.doc => index'[d] = index[d]
<1>0. index' = Stored(q) /\ Accepts(q) /\ TypeOK BY DEF Written, TypeInv
<1>1. /\ index'[q.doc].seq = index[q.doc].seq + 1 /\ index'[q.doc].gen = q.gen
      /\ index'[q.doc].retired = (q.class = "cleanup")
      /\ index'[q.doc].keys = (IF q.class = "cleanup" THEN NoKeys ELSE q.keys)
      /\ \A e \in Documents \ {q.doc} : index'[e] = index[e]
  BY <1>0, StoredIs
<1>2. index[d].seq \in Nat /\ index[d].gen \in Nat /\ q.gen \in Nat /\ q.class \in Classes /\ q.doc \in Documents
  BY <1>0, PageNumbers DEF Requests
<1>3. CASE d # q.doc BY <1>1, <1>2, <1>3
<1>4. CASE d = q.doc
  <2>1. q.class = "access" => index[d].seq > 0 /\ ~index[d].retired /\ index[d].gen < q.gen BY <1>0, <1>4 DEF Accepts
  <2>2. q.class # "access" => index[d].seq = q.seq BY <1>0, <1>4 DEF Accepts
  <2>3. q.class = "live" => ~index[d].retired /\ index[d].gen < q.gen BY <1>4, <2>2 DEF RequestGood
  <2>4. q.class = "cleanup" => index[d].gen <= q.gen BY <1>4, <2>2 DEF RequestGood
  <2>5. index[d].gen <= q.gen BY <1>2, <2>1, <2>3, <2>4 DEF Classes
  <2>6. q.class # "cleanup" => ~index[d].retired /\ index[d].gen < q.gen BY <1>2, <2>1, <2>3 DEF Classes
  <2>7. q.class = "access" => Served(d) BY <2>1 DEF Served
  <2>8. index'[d].retired <=> q.class = "cleanup" BY <1>1, <1>4
  <2>9. index[d].retired => index'[d].retired BY <2>6, <2>8
  <2>10. index'[d].seq = index[d].seq + 1 /\ index'[d].gen = q.gen /\ (q.class # "cleanup" => index'[d].keys = q.keys) BY <1>1, <1>4
  <2>11. index'[d].seq \in Nat /\ index[d].seq <= index'[d].seq /\ index'[d].gen \in Nat /\ index[d].gen <= index'[d].gen
    BY <1>2, <2>5, <2>10
  <2> HIDE <1>1
  <2> QED BY <1>4, <2>6, <2>7, <2>8, <2>9, <2>10, <2>11
<1> QED BY <1>3, <1>4

LEMMA PageWritten ==
    ASSUME TypeInv, IndexInv, NEW q \in Requests, RequestGood(q), Written(q), NEW d \in Documents
    PROVE  PageGood(d)'
<1>0. UNCHANGED <<present, grant, fdb>> /\ PageGood(d) BY DEF Written, IndexInv, PagesGood
<1>1. CASE d # q.doc
  <2>1. index'[d] = index[d] BY <1>1, WrittenPage
  <2> QED BY <1>0, <2>1 DEF PageGood, Served
<1>2. CASE d = q.doc
  <2>1. /\ index'[d].seq = index[d].seq + 1 /\ index'[d].gen = q.gen
        /\ index'[d].retired <=> q.class = "cleanup"
        /\ q.class # "cleanup" => index'[d].keys = q.keys
        /\ q.class = "access" => Served(d)
        /\ q.class # "cleanup" => ~index[d].retired
    BY <1>2, WrittenPage
  <2>2. index[d].seq \in Nat /\ q.class \in Classes BY PageNumbers DEF TypeInv, Requests
  <2>3. index'[d].seq > 0 BY <2>1, <2>2
  <2>4. q.class # "cleanup" => d \in fdb.issued
    BY <1>0, <1>2, <2>1, <2>2 DEF PageGood, RequestGood, Classes
  <2>5. q.class # "cleanup" => q.keys \in Grants /\ (present /\ q.gen = fdb.gen => q.keys = grant) BY DEF RequestGood
  <2>6. q.class = "cleanup" => ~present \/ d[1] < fdb.rev BY <1>2 DEF RequestGood
  <2>7. fdb.gen > 0 => q.gen <= fdb.gen BY DEF RequestGood
  <2>8. Served(d)' => q.class # "cleanup" BY <2>1 DEF Served
  <2>9. index'[d].seq # 0 BY <2>3
  <2> QED BY <1>0, <2>1, <2>4, <2>5, <2>6, <2>7, <2>8, <2>9 DEF PageGood
<1> QED BY <1>1, <1>2

LEMMA RequestWritten ==
    ASSUME TypeInv, IndexInv, NEW q \in Requests, RequestGood(q), Written(q), NEW r \in Requests, RequestGood(r)
    PROVE  RequestGood(r)'
<1>0. UNCHANGED <<present, grant, fdb>> /\ r.doc \in Documents /\ r.seq \in Nat BY DEF Written, Requests
<1>1. CASE r.doc # q.doc
  <2>1. index'[r.doc] = index[r.doc] BY <1>0, <1>1, WrittenPage
  <2> QED BY <1>0, <2>1 DEF RequestGood
<1>2. CASE r.doc = q.doc
  <2>1. index'[r.doc].seq = index[r.doc].seq + 1 /\ (index[r.doc].retired => index'[r.doc].retired)
    BY <1>0, <1>2, WrittenPage
  <2>2. index[r.doc].seq \in Nat BY <1>0, PageNumbers DEF TypeInv
  <2>3. r.class # "access" => r.seq < index'[r.doc].seq BY <1>0, <2>1, <2>2 DEF RequestGood
  <2>4. r.class # "access" => r.seq <= index'[r.doc].seq /\ r.seq # index'[r.doc].seq BY <1>0, <2>1, <2>2, <2>3
  <2>5. r.class = "live" => r.doc \in fdb.issued \/ index'[r.doc].retired BY <2>1 DEF RequestGood
  <2> QED BY <1>0, <2>4, <2>5 DEF RequestGood
<1> QED BY <1>1, <1>2

LEMMA SliceWritten ==
    ASSUME TypeInv, IndexInv, NEW q \in Requests, RequestGood(q), Written(q), NEW x \in Slices, SliceGood(x), SliceIndexGood(x)
    PROVE  SliceIndexGood(x)'
<1>0. UNCHANGED <<present, grant, fdb>> BY DEF Written
<1>1. CASE x.pc = "idle" BY <1>1 DEF SliceIndexGood, SliceRequestGood, AtPageGood, SliceAccessGood
<1>2. CASE x.pc # "idle"
  <2>1. /\ x.class \in Classes /\ x.rev \in Nat /\ PageAtHand(x)
        /\ x.pc \in {"probe", "send", "update"} => x.doc \in Documents
        /\ x.class = "live" /\ x.pc \in PagePCs => x.doc \in Documents
        /\ x.class = "cleanup" /\ x.pc = "complete" => x.doc \in Documents \cup {NoDocument}
    BY <1>2, SliceIs
  <2>2. SliceRequestGood(x)'
    <3> SUFFICES ASSUME x.pc \in {"send", "update"} PROVE RequestGood(Carries(x))' BY DEF SliceRequestGood
    <3>1. Carries(x) \in Requests BY <2>1, CarriesIs
    <3>2. RequestGood(Carries(x)) BY DEF SliceIndexGood, SliceRequestGood
    <3> DEFINE r == Carries(x)
    <3> HIDE DEF r
    <3>3. RequestGood(r)' BY <3>1, <3>2, RequestWritten DEF r
    <3> QED BY <3>3 DEF r
  <2>3. x.doc \in Documents => (index[x.doc].retired => index'[x.doc].retired) BY WrittenPage
  <2>4. AtPageGood(x)'
    <3>1. x.class = "live" /\ x.pc \in {"probe", "send", "complete"} => x.doc \in fdb.issued \/ index'[x.doc].retired
      BY <2>1, <2>3 DEF SliceIndexGood, AtPageGood, PagePCs
    <3>2. x.class = "cleanup" /\ x.pc = "complete" /\ x.doc # NoDocument => index'[x.doc].retired \/ x.gen # fdb.gen
      BY <2>1, <2>3 DEF SliceIndexGood, AtPageGood
    <3>3. ASSUME x.class = "live", x.pc = "complete", present, x.rev = fdb.rev PROVE Served(x.doc)'
      <4>1. Served(x.doc) BY <3>3 DEF SliceIndexGood, AtPageGood
      <4>2. x.doc \in Documents /\ x.doc = <<x.rev, x.ord>> BY <2>1, <3>3 DEF PageAtHand, PagePCs
      <4>3. CASE x.doc # q.doc
        <5>1. index'[x.doc] = index[x.doc] BY <4>2, <4>3, WrittenPage
        <5> QED BY <4>1, <5>1 DEF Served
      <4>4. CASE x.doc = q.doc
        <5>1. q.class # "cleanup" BY <2>1, <3>3, <4>2, <4>4 DEF RequestGood
        <5>2. index'[x.doc].seq = index[x.doc].seq + 1 /\ ~index'[x.doc].retired BY <4>2, <4>4, <5>1, WrittenPage
        <5>3. index[x.doc].seq \in Nat BY <4>2, PageNumbers DEF TypeInv
        <5>4. index'[x.doc].seq > 0 BY <5>2, <5>3
        <5> QED BY <5>2, <5>4 DEF Served
      <4> QED BY <4>3, <4>4
    <3> QED BY <1>0, <3>1, <3>2, <3>3 DEF AtPageGood
  <2>5. SliceAccessGood(x)' BY <1>0 DEF SliceIndexGood, SliceAccessGood
  <2> QED BY <2>2, <2>4, <2>5 DEF SliceIndexGood
<1> QED BY <1>1, <1>2

LEMMA WrittenInv ==
    ASSUME TypeInv, IndexInv, NEW q \in Requests, RequestGood(q), Written(q), worker' \in [Workers -> Slices],
           \A v \in Workers : \A y \in Slices : y = worker'[v] => SliceIndexGood(y)'
    PROVE  IndexInv'
<1>1. PagesGood' BY PageWritten DEF PagesGood
<1>2. IssuedGood' BY DEF Written, IndexInv, IssuedGood
<1>3. LateGood'
  <2> SUFFICES ASSUME NEW r \in late' PROVE RequestGood(r)' BY DEF LateGood
  <2>1. r \in late BY DEF Written
  <2>2. r \in Requests /\ RequestGood(r) BY <2>1 DEF TypeInv, TypeOK, IndexInv, LateGood
  <2> QED BY <2>2, RequestWritten
<1>4. SlicesGood' BY SlicesIndexNext
<1> QED BY <1>1, <1>2, <1>3, <1>4 DEF IndexInv

LEMMA ArrivesIndex == ASSUME TypeInv, IndexInv, NEW q \in late, Arrives(q) PROVE IndexInv'
<1>1. q \in Requests /\ RequestGood(q) /\ Written(q) /\ UNCHANGED worker BY DEF Arrives, IndexInv, LateGood
<1>2. worker' \in [Workers -> Slices] BY <1>1 DEF TypeInv, TypeOK
<1>3. ASSUME NEW v \in Workers, NEW y \in Slices, y = worker'[v] PROVE SliceIndexGood(y)'
  <2>1. SliceGood(y) /\ SliceIndexGood(y) BY <1>1, <1>3 DEF TypeInv, WorkersGood, IndexInv, SlicesGood
  <2> QED BY <1>1, <2>1, SliceWritten
<1> QED BY <1>1, <1>2, <1>3, WrittenInv

LEMMA SendsIndex == ASSUME TypeInv, IndexInv, NEW w \in Workers, Sends(w) PROVE IndexInv'
<1> DEFINE me == worker[w]  q == Request(w)
<1>0. PICK x \in Slices : x = At(me, "complete")
  BY CompletesGood DEF Sends, Sending
<1>1. /\ w \in Sending /\ me.pc \in {"send", "update"} /\ Written(q) /\ worker' = [worker EXCEPT ![w] = x]
      /\ UNCHANGED <<present, grant, fdb>>
  BY <1>0 DEF Sends, Sending, Written
<1>2. /\ q \in Requests /\ me.doc \in Documents /\ q.doc = me.doc /\ q.class = me.class /\ q.gen = me.gen /\ q.keys = me.keys
  BY <1>1, RequestIs
<1>3. RequestGood(q) BY <1>1, AbandonedGood
<1>4. me \in Slices /\ SliceGood(me) /\ SliceIndexGood(me) BY DEF TypeInv, TypeOK, WorkersGood, IndexInv, SlicesGood
<1>5. /\ x \in Slices /\ x.pc = "complete" /\ x.class = me.class /\ x.gen = me.gen /\ x.rev = me.rev /\ x.keys = me.keys /\ x.doc = me.doc
  BY <1>0, <1>1, CompletesGood DEF SameItem
<1>6. PCGood(me) /\ me.class \in Classes BY <1>1, <1>4, SliceIs
<1> HIDE DEF q
<1>7. /\ index'[me.doc].seq = index[me.doc].seq + 1 /\ (index'[me.doc].retired <=> me.class = "cleanup")
      /\ index[me.doc].retired => index'[me.doc].retired
  BY <1>1, <1>2, <1>3, WrittenPage
<1>8. index'[me.doc].seq > 0 BY <1>2, <1>7, PageNumbers DEF TypeInv
<1>9. AtPageGood(x)'
  <2>1. me.class = "live" => me.doc \in fdb.issued \/ index'[me.doc].retired
    BY <1>1, <1>4, <1>6, <1>7 DEF SliceIndexGood, AtPageGood, PCGood
  <2> QED BY <1>1, <1>5, <1>7, <1>8, <2>1 DEF AtPageGood, Served
<1>10. SliceAccessGood(x)' 
  BY <1>1, <1>4, <1>5, <1>6 DEF SliceIndexGood, SliceAccessGood, PagePCs, AccessPCs, PCGood
<1>11. SliceIndexGood(x)' BY <1>5, <1>9, <1>10 DEF SliceIndexGood, SliceRequestGood
<1>12. worker' \in [Workers -> Slices] /\ worker'[w] = x /\ \A v \in Workers \ {w} : worker'[v] = worker[v]
  BY <1>1, <1>5, SlicesOfStep DEF TypeInv
<1>13. ASSUME NEW v \in Workers, NEW y \in Slices, y = worker'[v] PROVE SliceIndexGood(y)'
  <2>1. CASE v = w BY <1>11, <1>12, <1>13, <2>1
  <2>2. CASE v # w
    <3>1. y = worker[v] BY <1>12, <1>13, <2>2
    <3>2. SliceGood(y) /\ SliceIndexGood(y) BY <3>1 DEF TypeInv, WorkersGood, IndexInv, SlicesGood
    <3> QED BY <1>1, <1>2, <1>3, <3>2, SliceWritten
  <2> QED BY <2>1, <2>2
<1> QED BY <1>1, <1>2, <1>3, <1>12, <1>13, WrittenInv

\* The transactions of a slice stay away from the index.
LEMMA KeptAway ==
    ASSUME Kept(fdb'), Still,
           \A d \in fdb.issued : d \in fdb'.issued \/ index[d].retired,
           \A d \in fdb'.issued : d \in fdb.issued \/ d[1] <= fdb'.rev
    PROVE  Away
BY DEF Kept, Still, Away, Ages

\* A cleanup slice that completes has retired its page.
LEMMA RetiredIssued ==
    ASSUME TypeInv, IndexInv, NEW w \in Workers, Verified(w), worker[w].pc = "complete", worker[w].class = "cleanup",
           fdb'.issued = fdb.issued \ {worker[w].doc}
    PROVE  \A d \in fdb.issued : d \in fdb'.issued \/ index[d].retired
<1> SUFFICES ASSUME NEW d \in fdb.issued, d = worker[w].doc PROVE index[d].retired OBVIOUS
<1>1. AtPageGood(worker[w]) BY DEF IndexInv, SlicesGood, SliceIndexGood
<1>2. d # NoDocument BY DocumentShape DEF TypeInv, TypeOK, SearchKeys
<1>3. worker[w].gen = fdb.gen BY DEF Verified
<1> QED BY <1>1, <1>2, <1>3 DEF AtPageGood

LEMMA FinishesAway ==
    ASSUME TypeInv, ~present, Still, NEW c \in {"access", "cleanup"}, NEW o, o = IF c = "access" THEN "cleanup" ELSE "access",
           Finishes(c, o), fdb'.issued \subseteq fdb.issued, \A d \in fdb.issued : d \in fdb'.issued \/ index[d].retired
    PROVE  Away
<1>1. UNCHANGED <<present, events>> BY DEF Still
<1>2. Ages BY <1>1, FinishesKeys
<1> QED BY <1>2 DEF Away, Still, Finishes

\* The steps that end or go to a step which expects nothing of a page.
LEMMA RestingProgress ==
    ASSUME TypeInv, IndexInv, Away, Still, NEW w \in Workers, Busy(w), Rests(w)
    PROVE  IndexInv'
<1>1. Resting /\ late' = late BY DEF Resting, Still
<1> QED BY <1>1, RestingIndex, AwayInv

LEMMA MovingProgress ==
    ASSUME TypeInv, IndexInv, Away, Still, NEW w \in Workers, NEW x \in Slices, worker' = [worker EXCEPT ![w] = x],
           SliceIndexGood(x)'
    PROVE  IndexInv'
<1>1. late' = late BY DEF Still
<1> QED BY <1>1, MovingIndex, AwayInv

LEMMA RegistersIndex == ASSUME TypeInv, TypeInv', IndexInv, NEW w \in Workers, Registers(w) PROVE IndexInv'
<1> DEFINE me == worker[w]
<1>1. me.pc = "register" /\ Busy(w) /\ Verified(w) /\ Still /\ Kept(fdb') /\ fdb'.issued = fdb.issued \cup {me.doc}
  BY DEF Registers, Busy, PageVerified
<1>2. /\ me \in Slices /\ ItemGood(me) /\ PCGood(me) /\ PageAtHand(me) /\ me.gen = fdb.gen BY <1>1, SliceFacts
<1>3. me.class = "live" /\ me.doc \in Documents /\ me.doc = <<me.rev, me.ord>> BY <1>1, <1>2 DEF PCGood, PageAtHand, PagePCs
<1>4. me.doc[1] <= fdb'.rev
  <2>1. me.rev = fdb.rev BY <1>1, <1>3, VerifiedIs
  <2>2. fdb'.rev = fdb.rev /\ fdb.rev \in Nat BY <1>1, KeyNumbers DEF Kept
  <2> QED BY <1>3, <2>1, <2>2
<1>5. Away BY <1>1, <1>4, KeptAway
<1>6. PICK x \in Slices : x = Registered(me) /\ worker' = [worker EXCEPT ![w] = x]
  <2>1. worker' = [worker EXCEPT ![w] = Registered(me)] /\ worker' \in [Workers -> Slices] BY DEF Registers, TypeInv, TypeOK
  <2>2. worker'[w] = Registered(me) BY <2>1 DEF TypeInv, TypeOK
  <2>3. Registered(me) \in Slices BY <2>1, <2>2
  <2> QED BY <2>1, <2>3
<1>7. x.pc = "probe" /\ x.class = me.class /\ x.keys = me.keys /\ x.doc = me.doc /\ x.gen = me.gen
  BY <1>2, <1>6 DEF Registered, Slices
<1>8. SliceIndexGood(me) BY DEF IndexInv, SlicesGood
<1>9. SliceAccessGood(x)'
  <2>1. fdb'.gen = fdb.gen /\ grant' = grant /\ present' = present BY <1>1 DEF Kept, Still
  <2> QED BY <1>1, <1>3, <1>7, <1>8, <2>1 DEF SliceIndexGood, SliceAccessGood, PagePCs, AccessPCs
<1>10. AtPageGood(x)' BY <1>1, <1>3, <1>7 DEF AtPageGood
<1>11. SliceIndexGood(x)' BY <1>7, <1>9, <1>10 DEF SliceIndexGood, SliceRequestGood
<1> QED BY <1>1, <1>5, <1>6, <1>11, MovingProgress

\* A slice that went on to reading, refreshing or telling expects nothing of a page.
LEMMA ElsewhereGood ==
    ASSUME NEW x, x.pc \in {"content", "refresh", "dependents"}
    PROVE  SliceIndexGood(x)'
BY DEF SliceIndexGood, SliceRequestGood, AtPageGood, SliceAccessGood, PagePCs, AccessPCs

LEMMA LiveProgressIndex ==
    ASSUME TypeInv, TypeInv', IndexInv, NEW w \in Workers, CompletesPage(w) \/ Refreshes(w)
    PROVE  IndexInv'
<1>1. Still /\ Kept(fdb') /\ fdb'.issued = fdb.issued BY DEF CompletesPage, Refreshes
<1>2. Away BY <1>1, KeptAway
<1>3. CASE Refreshes(w) BY <1>1, <1>2, <1>3, RestingProgress DEF Refreshes
<1>4. CASE CompletesPage(w)
  <2>1. PICK x \in Slices : x = NextPage(worker[w]) /\ worker' = [worker EXCEPT ![w] = x]
    <3>1. worker' = [worker EXCEPT ![w] = NextPage(worker[w])] /\ worker' \in [Workers -> Slices]
      BY <1>4 DEF CompletesPage, TypeInv, TypeOK
    <3>2. worker'[w] = NextPage(worker[w]) BY <3>1 DEF TypeInv, TypeOK
    <3>3. NextPage(worker[w]) \in Slices BY <3>1, <3>2
    <3> QED BY <3>1, <3>3
  <2>2. worker[w] \in Slices BY DEF TypeInv, TypeOK
  <2>3. x.pc \in {"content", "refresh"} BY <2>1, <2>2 DEF NextPage, Slices
  <2>4. SliceIndexGood(x)' BY <2>3, ElsewhereGood
  <2> QED BY <1>1, <1>2, <2>1, <2>4, MovingProgress
<1> QED BY <1>3, <1>4

LEMMA AccessProgressIndex ==
    ASSUME TypeInv, TypeInv', IndexInv, NEW w \in Workers,
           BeginsAccess(w) \/ SkipsPages(w) \/ NothingToDo(w) \/ ChecksPoint(w) \/ CompletesPages(w) \/ TellsDependents(w)
    PROVE  IndexInv'
<1> DEFINE me == worker[w]
<1>1. Still /\ Kept(fdb') /\ fdb'.issued = fdb.issued /\ Verified(w)
  BY DEF BeginsAccess, SkipsPages, NothingToDo, ChecksPoint, CompletesPages, TellsDependents
<1>2. Away BY <1>1, KeptAway
<1>3. CASE NothingToDo(w) \/ ChecksPoint(w) \/ CompletesPages(w) \/ TellsDependents(w)
  BY <1>1, <1>2, <1>3, RestingProgress DEF NothingToDo, ChecksPoint, CompletesPages, TellsDependents
<1>4. CASE SkipsPages(w)
  <2>1. me \in Slices /\ "dependents" \in PCs BY DEF TypeInv, TypeOK, PCs
  <2>2. PICK x \in Slices : x = At(me, "dependents") BY <2>1, AtIs
  <2>3. x.pc = "dependents" BY <2>1, <2>2, AtIs
  <2>4. SliceIndexGood(x)' BY <2>3, ElsewhereGood
  <2>5. worker' = [worker EXCEPT ![w] = x] BY <1>4, <2>2 DEF SkipsPages
  <2> QED BY <1>1, <1>2, <2>4, <2>5, MovingProgress
<1>5. CASE BeginsAccess(w)
  <2> DEFINE pc == IF ~PagesStored(fdb.access, me.keys) THEN "documents" ELSE "dependents"
  <2>0. me.pc = "begin" /\ Busy(w) BY <1>5 DEF BeginsAccess, Busy
  <2>1. me \in Slices /\ PCGood(me) /\ me.gen = fdb.gen /\ SliceIndexGood(me)
    BY <1>1, <2>0, SliceFacts DEF IndexInv, SlicesGood
  <2>2. pc \in {"documents", "dependents"} OBVIOUS
  <2>3. worker' = [worker EXCEPT ![w] = Begun(me, pc)] BY <1>5 DEF BeginsAccess
  <2> HIDE DEF pc
  <2>4. Begun(me, pc) \in Slices
    <3>1. pc \in PCs BY <2>2 DEF PCs
    <3> QED BY <2>1, <3>1 DEF Begun, Slices
  <2>5. PICK x \in Slices : x = Begun(me, pc) BY <2>4
  <2>6. x.pc = pc /\ x.class = me.class /\ x.gen = me.gen /\ x.keys = me.keys BY <2>1, <2>5 DEF Begun, Slices
  <2>7. SliceAccessGood(x)'
    <3>1. fdb'.gen = fdb.gen /\ grant' = grant /\ present' = present BY <1>1 DEF Kept, Still
    <3>2. me.class = "access" BY <2>0, <2>1 DEF PCGood
    <3> QED BY <2>0, <2>1, <2>2, <2>6, <3>1, <3>2 DEF SliceIndexGood, SliceAccessGood, PagePCs, AccessPCs
  <2>8. SliceIndexGood(x)' BY <2>2, <2>6, <2>7 DEF SliceIndexGood, SliceRequestGood, AtPageGood
  <2>9. worker' = [worker EXCEPT ![w] = x] BY <2>3, <2>5
  <2> QED BY <1>1, <1>2, <2>8, <2>9, MovingProgress
<1> QED BY <1>3, <1>4, <1>5

LEMMA EndingIndex ==
    ASSUME TypeInv, IndexInv, NEW w \in Workers, FinishesFanout(w) \/ Retires(w) \/ FinishesCleanup(w)
    PROVE  IndexInv'
<1>1. Still /\ Verified(w) /\ Busy(w) /\ Rests(w) BY DEF FinishesFanout, Retires, FinishesCleanup
<1>2. worker[w].class \in Classes /\ Pending(worker[w].class) /\ (worker[w].deleted <=> ~present) BY <1>1, VerifiedIs
<1>3. CASE FinishesFanout(w)
  <2>1. Away BY <1>1, <1>2, <1>3, FinishesAway DEF FinishesFanout
  <2> QED BY <1>1, <2>1, RestingProgress
<1>4. CASE Retires(w)
  <2>1. \A d \in fdb.issued : d \in fdb'.issued \/ index[d].retired BY <1>4, RetiredIssued DEF Retires
  <2>2. Away BY <1>4, <2>1, KeptAway DEF Retires
  <2> QED BY <1>1, <2>2, RestingProgress
<1>5. CASE FinishesCleanup(w)
  <2>1. \A d \in fdb.issued : d \in fdb'.issued \/ index[d].retired BY <1>5, RetiredIssued DEF FinishesCleanup
  <2>2. worker[w].class = "cleanup" /\ fdb'.issued \subseteq fdb.issued BY <1>5 DEF FinishesCleanup
  <2>3. CASE fdb.work["cleanup"].deleted /\ Finishes("cleanup", "access")
    <3>1. ~present
      <4>1. RecordGood("cleanup") BY KeptCursors DEF Classes
      <4> QED BY <1>2, <2>2, <2>3, <4>1 DEF RecordGood
    <3>2. Away BY <1>1, <2>1, <2>2, <2>3, <3>1, FinishesAway
    <3> QED BY <1>1, <3>2, RestingProgress
  <2>4. CASE Kept(fdb')
    <3>1. Away BY <1>1, <2>1, <2>2, <2>4, KeptAway
    <3> QED BY <1>1, <3>1, RestingProgress
  <2> QED BY <1>5, <2>3, <2>4 DEF FinishesCleanup
<1> QED BY <1>3, <1>4, <1>5

LEMMA NextIndex == ASSUME TypeInv, TypeInv', IndexInv, Effect PROVE IndexInv'
<1>1. CASE Quiet BY <1>1, QuietIndex
<1>2. ASSUME NEW w \in Workers, NEW x \in Slices, Advances(w, x), Moves(w, x) PROVE IndexInv'
  BY <1>2, AdvancesGood, AdvancesIndex
<1>3. ASSUME NEW w \in Workers, Sends(w) PROVE IndexInv' BY <1>3, SendsIndex
<1>4. ASSUME NEW q \in late, Arrives(q) PROVE IndexInv' BY <1>4, ArrivesIndex
<1>5. CASE Schedules BY <1>5, SchedulesIndex
<1>6. ASSUME NEW w \in Workers, Progresses(w) PROVE IndexInv'
  BY <1>6, RegistersIndex, LiveProgressIndex, AccessProgressIndex, EndingIndex DEF Progresses
<1> QED BY <1>1, <1>2, <1>3, <1>4, <1>5, <1>6 DEF Effect

LEMMA InitIndex == ASSUME Init PROVE IndexInv
<1>1. \A d \in Documents : index[d] = AbsentPage BY DEF Init
<1>2. AbsentPage.seq = 0 /\ ~AbsentPage.retired /\ AbsentPage.gen = 0 BY DEF AbsentPage
<1>3. \A d \in Documents : ~Served(d) BY <1>1, <1>2 DEF Served
<1>4. PagesGood BY <1>1, <1>2, <1>3, InitKeys DEF PagesGood, PageGood
<1>5. \A w \in Workers : worker[w] = Idle BY DEF Init
<1>6. Idle.pc = "idle" BY DEF Idle
<1>7. SlicesGood BY <1>5, <1>6 DEF SlicesGood, SliceIndexGood, SliceRequestGood, AtPageGood, SliceAccessGood
<1>8. IssuedGood BY InitKeys DEF IssuedGood
<1>9. LateGood BY DEF LateGood, Init
<1> QED BY <1>4, <1>7, <1>8, <1>9 DEF IndexInv

LEMMA IndexHolds == Spec => [](TypeInv /\ IndexInv)
<1>1. Init => TypeInv /\ IndexInv BY InitTypes, InitIndex
<1>2. TypeInv /\ IndexInv /\ [Next]_vars => TypeInv' /\ IndexInv' BY Steps, NextIndex
<1> QED BY <1>1, <1>2, PTL DEF Spec

\* Every page a query can match is registered for cleanup, even when the write that
\* stored it was abandoned by its worker and arrived later.
THEOREM PagesStayIssued == Spec => []ActivePagesIssued
<1>1. TypeInv /\ IndexInv => ActivePagesIssued
  BY DEF IndexInv, PagesGood, PageGood, Served, ActivePagesIssued, Active
<1> QED BY <1>1, IndexHolds, PTL

LEMMA IndexRises ==
    ASSUME TypeInv, IndexInv, Effect
    PROVE  \A d \in Documents : /\ index'[d].gen >= index[d].gen /\ (index[d].retired => index'[d].retired)
                                /\ index'[d].seq \in Nat /\ index'[d].seq >= index[d].seq
<1> DEFINE Rises == \A d \in Documents : /\ index'[d].gen >= index[d].gen /\ (index[d].retired => index'[d].retired)
                                         /\ index'[d].seq \in Nat /\ index'[d].seq >= index[d].seq
<1> SUFFICES Rises OBVIOUS
<1>2. CASE UNCHANGED index BY <1>2, PageNumbers DEF TypeInv
<1>3. ASSUME NEW q \in Requests, RequestGood(q), Written(q) PROVE Rises
  <2> SUFFICES ASSUME NEW d \in Documents
               PROVE  /\ index'[d].gen >= index[d].gen /\ (index[d].retired => index'[d].retired)
                      /\ index'[d].seq \in Nat /\ index'[d].seq >= index[d].seq
    OBVIOUS
  <2>1. /\ index'[d].gen \in Nat /\ index[d].gen <= index'[d].gen /\ (index[d].retired => index'[d].retired)
        /\ index'[d].seq \in Nat /\ index[d].seq <= index'[d].seq
    BY <1>3, WrittenPage
  <2>2. index[d].gen \in Nat /\ index[d].seq \in Nat BY PageNumbers DEF TypeInv
  <2> QED BY <2>1, <2>2
<1>4. ASSUME NEW w \in Workers, Sends(w) PROVE Rises
  <2>1. w \in Sending /\ Written(Request(w)) BY <1>4 DEF Sends
  <2>2. Request(w) \in Requests /\ RequestGood(Request(w)) BY <2>1, AbandonedGood
  <2> QED BY <1>3, <2>1, <2>2
<1>5. ASSUME NEW q \in late, Arrives(q) PROVE Rises BY <1>3, <1>5 DEF Arrives, IndexInv, LateGood
<1>6. CASE Quiet \/ Schedules BY <1>2, <1>6 DEF Quiet, Schedules
<1>7. ASSUME NEW w \in Workers, Progresses(w) PROVE UNCHANGED index
  BY <1>7 DEF Progresses, Registers, CompletesPage, Refreshes, BeginsAccess, SkipsPages, NothingToDo, ChecksPoint,
              CompletesPages, TellsDependents, FinishesFanout, Retires, FinishesCleanup, Still
<1>8. ASSUME NEW w \in Workers, NEW x \in Slices, Moves(w, x) PROVE UNCHANGED index BY <1>8 DEF Moves
<1> QED BY <1>2, <1>4, <1>5, <1>6, <1>7, <1>8 DEF Effect

\* A page's generation never falls and a retired page is never active again, in
\* whatever order writes, updates, retirements and late requests reach the index.
THEOREM GenerationsNeverFall == Spec => GenerationsRise
<1>1. TypeInv /\ IndexInv /\ [Next]_vars =>
        [\A d \in Documents : /\ index'[d].gen >= index[d].gen
                              /\ index[d].retired => index'[d].retired]_vars
  BY Steps, IndexRises
<1> QED BY <1>1, IndexHolds, PTL DEF Spec, GenerationsRise

-----------------------------------------------------------------------------
(* Which slices a step leaves behind, and how old it makes them.           *)

BegunPC(x) == IF ~PagesStored(fdb.access, x.keys) THEN "documents" ELSE "dependents"

SliceStep(v, y) ==
    \/ y = worker[v]
    \/ y.pc \in {"idle", "yield"}
    \/ Advances(v, y) /\ Moves(v, y)
    \/ Sends(v) /\ y = At(worker[v], "complete")
    \/ Registers(v) /\ y = Registered(worker[v])
    \/ CompletesPage(v) /\ y = NextPage(worker[v])
    \/ BeginsAccess(v) /\ y = Begun(worker[v], BegunPC(worker[v]))
    \/ SkipsPages(v) /\ y = At(worker[v], "dependents")

LEMMA RestingStep ==
    ASSUME TypeInv, Resting, NEW v \in Workers, NEW y \in Slices, y = worker'[v]
    PROVE  SliceStep(v, y)
<1>1. StaysOrRests(v) BY RestingSlices
<1>2. CASE y = At(worker[v], "yield")
  <2>1. worker[v] \in Slices /\ "yield" \in PCs BY DEF TypeInv, TypeOK, PCs
  <2>2. y.pc = "yield" BY <1>2, <2>1, AtIs
  <2> QED BY <2>2 DEF SliceStep
<1> QED BY <1>1, <1>2 DEF StaysOrRests, SliceStep

LEMMA MoverStep ==
    ASSUME TypeInv, TypeInv', NEW w \in Workers, NEW z, worker' = [worker EXCEPT ![w] = z],
           NEW v \in Workers, NEW y \in Slices, y = worker'[v]
    PROVE  \/ v = w /\ y = z
           \/ y = worker[v]
BY DEF TypeInv, TypeOK

LEMMA SliceSteps ==
    ASSUME TypeInv, TypeInv', Effect, NEW v \in Workers, NEW y \in Slices, y = worker'[v]
    PROVE  SliceStep(v, y)
<1>1. CASE Quiet \/ Schedules BY <1>1, RestingStep DEF Quiet, Schedules, Resting
<1>2. ASSUME NEW w \in Workers, NEW x \in Slices, Advances(w, x), Moves(w, x) PROVE SliceStep(v, y)
  BY <1>2, MoverStep DEF Moves, SliceStep
<1>3. ASSUME NEW w \in Workers, Sends(w) PROVE SliceStep(v, y)
  <2>1. worker' = [worker EXCEPT ![w] = At(worker[w], "complete")] BY <1>3 DEF Sends
  <2>2. (v = w /\ y = At(worker[w], "complete")) \/ y = worker[v] BY <2>1, MoverStep
  <2> QED BY <1>3, <2>2 DEF SliceStep
<1>4. ASSUME NEW q \in late, Arrives(q) PROVE SliceStep(v, y) BY <1>4 DEF Arrives, SliceStep
<1>5. ASSUME NEW w \in Workers, Busy(w), Rests(w) PROVE SliceStep(v, y) BY <1>5, RestingStep DEF Resting
<1>6. ASSUME NEW w \in Workers, Progresses(w) PROVE SliceStep(v, y)
  <2>1. CASE Registers(w)
    <3>1. worker' = [worker EXCEPT ![w] = Registered(worker[w])] BY <2>1 DEF Registers
    <3>2. (v = w /\ y = Registered(worker[w])) \/ y = worker[v] BY <3>1, MoverStep
    <3> QED BY <2>1, <3>2 DEF SliceStep
  <2>2. CASE CompletesPage(w)
    <3>1. worker' = [worker EXCEPT ![w] = NextPage(worker[w])] BY <2>2 DEF CompletesPage
    <3>2. (v = w /\ y = NextPage(worker[w])) \/ y = worker[v] BY <3>1, MoverStep
    <3> QED BY <2>2, <3>2 DEF SliceStep
  <2>3. CASE BeginsAccess(w)
    <3>1. worker' = [worker EXCEPT ![w] = Begun(worker[w], BegunPC(worker[w]))] BY <2>3 DEF BeginsAccess, BegunPC
    <3>2. (v = w /\ y = Begun(worker[w], BegunPC(worker[w]))) \/ y = worker[v] BY <3>1, MoverStep
    <3> QED BY <2>3, <3>2 DEF SliceStep
  <2>4. CASE SkipsPages(w)
    <3>1. worker' = [worker EXCEPT ![w] = At(worker[w], "dependents")] BY <2>4 DEF SkipsPages
    <3>2. (v = w /\ y = At(worker[w], "dependents")) \/ y = worker[v] BY <3>1, MoverStep
    <3> QED BY <2>4, <3>2 DEF SliceStep
  <2>5. CASE \/ Refreshes(w) \/ NothingToDo(w) \/ ChecksPoint(w) \/ CompletesPages(w)
             \/ TellsDependents(w) \/ FinishesFanout(w) \/ Retires(w) \/ FinishesCleanup(w)
    BY <1>5, <2>5 DEF Refreshes, NothingToDo, ChecksPoint, CompletesPages, TellsDependents, FinishesFanout, Retires, FinishesCleanup
  <2> QED BY <1>6, <2>1, <2>2, <2>3, <2>4, <2>5 DEF Progresses
<1> QED BY <1>1, <1>2, <1>3, <1>4, <1>6 DEF Effect

LEMMA FinishAges == ASSUME TypeInv, NEW w \in Workers, FinishesFanout(w) \/ FinishesCleanup(w) PROVE Ages
<1>1. Still /\ Verified(w) /\ Busy(w) /\ worker[w].class \in {"access", "cleanup"}
  <2>1. Verified(w) /\ Busy(w) /\ Still BY DEF FinishesFanout, FinishesCleanup
  <2>2. PCGood(worker[w]) BY <2>1, SliceFacts
  <2> QED BY <2>1, <2>2 DEF FinishesFanout, FinishesCleanup, PCGood
<1>2. Pending(worker[w].class) /\ (worker[w].deleted <=> ~present) BY <1>1, VerifiedIs
<1>3. UNCHANGED <<present, events>> BY <1>1 DEF Still
<1>4. CASE FinishesFanout(w) BY <1>2, <1>3, <1>4, FinishesKeys DEF FinishesFanout
<1>5. CASE FinishesCleanup(w)
  <2>1. worker[w].class = "cleanup" BY <1>5 DEF FinishesCleanup
  <2>2. RecordGood("cleanup") BY KeptCursors DEF Classes
  <2>3. CASE fdb.work["cleanup"].deleted /\ Finishes("cleanup", "access")
    BY <1>2, <1>3, <2>1, <2>2, <2>3, FinishesKeys DEF RecordGood
  <2>4. CASE Kept(fdb') BY <1>3, <2>4 DEF Kept, Ages
  <2> QED BY <1>5, <2>3, <2>4 DEF FinishesCleanup
<1> QED BY <1>4, <1>5

LEMMA EffectAges == ASSUME TypeInv, Effect PROVE Ages
<1>1. CASE Quiet BY <1>1 DEF Quiet, SameKeys, Ages
<1>2. ASSUME NEW w \in Workers, NEW x \in Slices, Moves(w, x) PROVE Ages BY <1>2 DEF Moves, SameKeys, Ages
<1>3. ASSUME NEW q, Written(q) PROVE Ages BY <1>3 DEF Written, Ages
<1>4. CASE Schedules
  <2>1. present /\ fdb.gen > 0 /\ fdb.rev <= fdb.gen BY <1>4 DEF Schedules, TypeInv, KeysGood
  <2>2. fdb'.gen = fdb.gen + 1 /\ fdb'.rev \in {fdb'.gen, fdb.rev}
    BY <1>4 DEF Schedules, RevisionScheduled, AccessScheduled, DeletionScheduled, ExclusionScheduled, Raised
  <2>3. fdb'.rev >= fdb.rev BY <2>1, <2>2, KeyNumbers
  <2> QED BY <2>1, <2>2, <2>3 DEF Ages
<1>5. ASSUME NEW w \in Workers, Progresses(w) PROVE Ages
  <2>1. CASE FinishesFanout(w) \/ FinishesCleanup(w) BY <2>1, FinishAges
  <2>2. CASE ~(FinishesFanout(w) \/ FinishesCleanup(w))
    <3>1. Kept(fdb') /\ Still
      BY <1>5, <2>2 DEF Progresses, Registers, CompletesPage, Refreshes, BeginsAccess, SkipsPages, NothingToDo, ChecksPoint,
                        CompletesPages, TellsDependents, Retires
    <3> QED BY <3>1 DEF Kept, Still, Ages
  <2> QED BY <2>1, <2>2
<1> QED BY <1>1, <1>2, <1>3, <1>4, <1>5 DEF Effect, Sends, Arrives

-----------------------------------------------------------------------------
(* Content: the pages of the current revision that are done are served.    *)

\* How many pages of the current revision the live work, or its absence, promises.
Reached ==
    IF Pending("live")
    THEN IF fdb.cursor["live"].rev = fdb.work["live"].rev THEN fdb.cursor["live"].ord ELSE 0
    ELSE IF fdb.excluded THEN 0 ELSE Pages

DoneServed == present => \A d \in Documents : d[1] = fdb.rev /\ d[2] < Reached => Served(d)

\* A page of the current revision stays served, whatever reaches the index.
LEMMA ServedStays ==
    ASSUME TypeInv, TypeInv', IndexInv, IndexInv', Effect, NEW d \in Documents, Served(d), present', d[1] = fdb'.rev
    PROVE  Served(d)'
<1>1. index'[d].seq \in Nat /\ index'[d].seq >= index[d].seq BY IndexRises
<1>2. index[d].seq \in Nat /\ index[d].seq > 0 BY PageNumbers DEF TypeInv, Served
<1>3. PageGood(d)' BY DEF IndexInv, PagesGood
<1>4. ~index'[d].retired
  <2>1. index'[d].retired => d[1] < fdb'.rev BY <1>3 DEF PageGood
  <2>2. fdb'.rev \in Nat BY DEF TypeInv, TypeOK, SearchKeys
  <2> QED BY <2>1, <2>2
<1> QED BY <1>1, <1>2, <1>4 DEF Served

LEMMA ReachedIs == ASSUME TypeInv PROVE Reached \in 0..Pages /\ Reached \in Nat
<1>1. fdb.cursor["live"].ord \in 0..Pages /\ "live" \in Classes BY DEF TypeInv, TypeOK, SearchKeys, Checkpoints, Classes
<1> QED BY <1>1, Constants DEF Reached

\* Nothing more is promised of the same revision, or nothing at all of a new one.
Promises ==
    present' => \/ Reached' = 0
                \/ fdb'.rev = fdb.rev /\ Reached' = Reached /\ present

LEMMA DoneKept ==
    ASSUME TypeInv, TypeInv', IndexInv, IndexInv', Effect, DoneServed, Promises
    PROVE  DoneServed'
<1> SUFFICES ASSUME present', NEW d \in Documents, d[1] = fdb'.rev, d[2] < Reached' PROVE Served(d)' BY DEF DoneServed
<1>1. d[2] \in Nat BY DocumentShape
<1>2. fdb'.rev = fdb.rev /\ Reached' = Reached /\ present BY <1>1 DEF Promises
<1>3. Served(d) BY <1>2 DEF DoneServed
<1> QED BY <1>3, ServedStays

\* Reached looks at the live class, the exclusion and nothing else.
LEMMA ReachedFrame ==
    ASSUME fdb'.rev = fdb.rev, present' = present, fdb'.cursor["live"] = fdb.cursor["live"],
           Pending("live")' <=> Pending("live"), Pending("live") => fdb'.work["live"].rev = fdb.work["live"].rev,
           fdb'.excluded <=> fdb.excluded
    PROVE  Promises
<1>1. Reached' = Reached BY DEF Reached
<1> QED BY <1>1 DEF Promises

LEMMA LiveFrame ==
    ASSUME fdb'.rev = fdb.rev, present' = present, KeptClass("live", fdb'), fdb'.excluded = fdb.excluded
    PROVE  Promises
<1>1. Pending("live")' <=> Pending("live") BY DEF KeptClass, Pending
<1> QED BY <1>1, ReachedFrame DEF KeptClass

LEMMA ReachedNone == ASSUME ~Pending("live")', fdb'.excluded PROVE Reached' = 0
BY DEF Reached

LEMMA SchedulesPromise == ASSUME TypeInv, TypeInv', Schedules PROVE Promises
<1>0. present /\ fdb.gen \in Nat BY KeyNumbers DEF Schedules
<1>1. CASE RevisionScheduled(fdb')
  <2>1. fdb'.work["live"].rev = fdb'.rev /\ fdb'.work["live"] # NoRecord /\ fdb'.cursor["live"] = NoCursor
    BY <1>1 DEF RevisionScheduled, Put
  <2>2. fdb'.rev > 0 BY <1>0, <1>1 DEF RevisionScheduled, Raised
  <2>3. NoCursor.rev = 0 BY DEF NoCursor
  <2>4. Reached' = 0 BY <2>1, <2>2, <2>3 DEF Reached, Pending
  <2> QED BY <2>4 DEF Promises
<1>2. CASE AccessScheduled(fdb') /\ present'
  <2>1. Rewritten("live", fdb') /\ fdb'.rev = fdb.rev /\ ~fdb.excluded /\ ~fdb'.excluded BY <1>2 DEF AccessScheduled
  <2>2. Pending("live")' <=> Pending("live") BY <2>1 DEF Rewritten, Pending
  <2> QED BY <1>0, <1>2, <2>1, <2>2, ReachedFrame DEF Rewritten
<1>3. CASE ~present' BY <1>3 DEF Promises
<1>4. CASE ExclusionScheduled(fdb')
  <2>1. ~Pending("live")' /\ fdb'.excluded BY <1>4 DEF ExclusionScheduled, Removed, Pending
  <2> QED BY <2>1, ReachedNone DEF Promises
<1> QED BY <1>1, <1>2, <1>3, <1>4 DEF Schedules

LEMMA RefreshesPromise == ASSUME TypeInv, NEW w \in Workers, Refreshes(w) PROVE Promises
<1>1. Busy(w) /\ Verified(w) /\ Progress(fdb, "live").phase = "refresh" /\ worker[w].pc = "refresh" /\ Still /\ Kept(fdb')
      /\ ~fdb'.excluded /\ Removed("live", fdb')
  BY DEF Refreshes
<1>2. worker[w].class = "live" BY <1>1, SliceFacts DEF PCGood
<1>3. Pending("live") /\ present BY <1>1, <1>2, VerifiedIs
<1>4. fdb.cursor["live"].rev = fdb.work["live"].rev /\ fdb.cursor["live"].phase = "refresh"
  BY <1>1 DEF Progress, NoCursor
<1>5. Reached = Pages BY <1>3, <1>4 DEF Reached, TypeInv, KeysGood, LiveCursorGood
<1>6. Reached' = Pages BY <1>1 DEF Reached, Removed, Pending
<1>7. fdb'.rev = fdb.rev BY <1>1 DEF Kept
<1> QED BY <1>3, <1>5, <1>6, <1>7 DEF Promises

\* A page is done only when it is served.
LEMMA CompletedPage ==
    ASSUME TypeInv, IndexInv, NEW w \in Workers, CompletesPage(w)
    PROVE  LET me == worker[w] IN
           /\ present /\ me.rev = fdb.rev /\ me.gen = fdb.gen /\ me.ord \in Nat /\ me.doc = <<me.rev, me.ord>> /\ me.doc \in Documents
           /\ Reached = me.ord /\ Reached' = me.ord + 1 /\ Served(me.doc)
           /\ me.pc = "complete" /\ me.class = "live" /\ Still /\ Kept(fdb')
<1> DEFINE me == worker[w]
<1>1. /\ PageVerified(w) /\ me.pc = "complete" /\ me.class = "live" /\ Still /\ Kept(fdb')
      /\ Pointed("live", PageCursor(me), fdb')
  BY DEF CompletesPage
<1>2. Verified(w) /\ Busy(w) /\ Progress(fdb, "live").ord = me.ord /\ fdb.work["live"].rev = me.rev
  BY <1>1 DEF PageVerified, Busy
<1>3. Pending("live") /\ present /\ me.rev = fdb.rev /\ me.gen = fdb.gen /\ me \in Slices BY <1>1, <1>2, VerifiedIs
<1>4. Reached = me.ord BY <1>2, <1>3 DEF Reached, Progress, NoCursor
<1>5. Reached' = me.ord + 1
  <2>1. fdb'.cursor["live"].rev = me.rev /\ fdb'.cursor["live"].ord = me.ord + 1 BY <1>1 DEF Pointed, PageCursor
  <2>2. fdb'.work["live"] = fdb.work["live"] BY <1>1 DEF Pointed
  <2> QED BY <1>2, <1>3, <2>1, <2>2 DEF Reached, Pending
<1>6. me.doc = <<me.rev, me.ord>> /\ me.doc \in Documents /\ me.ord \in Nat
  <2>1. PageAtHand(me) BY <1>2, SliceFacts
  <2>2. me.ord \in 0..Pages BY <1>3 DEF Slices
  <2> QED BY <1>1, <2>1, <2>2, Constants DEF PageAtHand, PagePCs
<1>7. Served(me.doc)
  <2>1. AtPageGood(me) BY DEF IndexInv, SlicesGood, SliceIndexGood
  <2> QED BY <1>1, <1>3, <2>1 DEF AtPageGood
<1> QED BY <1>1, <1>3, <1>4, <1>5, <1>6, <1>7

LEMMA PageOrBefore ==
    ASSUME TypeInv, IndexInv, NEW w \in Workers, CompletesPage(w), NEW d \in Documents, d[1] = fdb'.rev, d[2] < Reached'
    PROVE  d = worker[w].doc \/ (d[1] = fdb.rev /\ d[2] < Reached)
<1> DEFINE me == worker[w]
<1>1. /\ me.rev = fdb.rev /\ me.ord \in Nat /\ me.doc = <<me.rev, me.ord>> /\ Reached = me.ord /\ Reached' = me.ord + 1
      /\ fdb'.rev = fdb.rev
  BY CompletedPage DEF Kept
<1>2. d[2] \in Nat /\ d = <<d[1], d[2]>> BY DocumentShape
<1>3. d[2] < me.ord \/ d[2] = me.ord BY <1>1, <1>2
<1>4. d[2] = me.ord => d = me.doc BY <1>1, <1>2
<1> QED BY <1>1, <1>3, <1>4

LEMMA CompletesPageDone ==
    ASSUME TypeInv, IndexInv, DoneServed, NEW w \in Workers, CompletesPage(w)
    PROVE  DoneServed'
<1> SUFFICES ASSUME NEW d \in Documents, d[1] = fdb'.rev, d[2] < Reached' PROVE Served(d)' BY DEF DoneServed
<1>1. present /\ Served(worker[w].doc) /\ index' = index BY CompletedPage DEF Still
<1>2. Served(d) BY <1>1, PageOrBefore DEF DoneServed
<1> QED BY <1>1, <1>2 DEF Served

\* Only the completion of a page promises more than before.
LEMMA NextPromises ==
    ASSUME TypeInv, TypeInv', Effect, \A w \in Workers : ~CompletesPage(w)
    PROVE  Promises
<1>1. CASE Quiet BY <1>1, LiveFrame DEF Quiet, SameKeys, KeptClass
<1>2. ASSUME NEW w \in Workers, NEW x \in Slices, Moves(w, x) PROVE Promises BY <1>2, LiveFrame DEF Moves, SameKeys, KeptClass
<1>3. ASSUME NEW q, Written(q) PROVE Promises BY <1>3, LiveFrame DEF Written, KeptClass
<1>4. CASE Schedules BY <1>4, SchedulesPromise
<1>5. ASSUME NEW w \in Workers, Progresses(w) PROVE Promises
  <2>1. CASE Refreshes(w) BY <2>1, RefreshesPromise
  <2>2. ASSUME Kept(fdb'), Still, KeptClass("live", fdb'), fdb'.excluded = fdb.excluded PROVE Promises
    BY <2>2, LiveFrame DEF Kept, Still
  <2>3. CASE ~present
    <3>1. Still BY <1>5 DEF Progresses, Registers, CompletesPage, Refreshes, BeginsAccess, SkipsPages, NothingToDo, ChecksPoint,
                            CompletesPages, TellsDependents, FinishesFanout, Retires, FinishesCleanup
    <3> QED BY <2>3, <3>1 DEF Promises, Still
  <2>4. CASE FinishesFanout(w)
    <3>1. worker[w].deleted /\ Verified(w) /\ Busy(w) BY <2>4 DEF FinishesFanout
    <3>2. ~present BY <3>1, VerifiedIs
    <3> QED BY <2>3, <3>2
  <2>5. CASE FinishesCleanup(w)
    <3>1. worker[w].class = "cleanup" /\ Verified(w) /\ Busy(w) BY <2>5 DEF FinishesCleanup
    <3>2. Pending("cleanup") BY <3>1, VerifiedIs
    <3>3. RecordGood("cleanup") BY KeptCursors DEF Classes
    <3>4. fdb.work["cleanup"].deleted => ~present BY <3>2, <3>3 DEF RecordGood
    <3> QED BY <2>2, <2>3, <2>5, <3>4 DEF FinishesCleanup
  <2>6. CASE Registers(w) \/ Retires(w)
    <3>1. "live" \in Classes BY DEF Classes
    <3> QED BY <2>2, <2>6, <3>1 DEF Registers, Retires
  <2>7. CASE BeginsAccess(w) \/ SkipsPages(w) \/ NothingToDo(w) \/ ChecksPoint(w) \/ CompletesPages(w) \/ TellsDependents(w)
    BY <2>2, <2>7 DEF BeginsAccess, SkipsPages, NothingToDo, ChecksPoint, CompletesPages, TellsDependents
  <2> QED BY <1>5, <2>1, <2>4, <2>5, <2>6, <2>7 DEF Progresses
<1> QED BY <1>1, <1>2, <1>3, <1>4, <1>5 DEF Effect, Sends, Arrives

LEMMA NextDone ==
    ASSUME TypeInv, TypeInv', IndexInv, IndexInv', Effect, DoneServed
    PROVE  DoneServed'
<1>1. ASSUME NEW w \in Workers, CompletesPage(w) PROVE DoneServed' BY <1>1, CompletesPageDone
<1>2. CASE \A w \in Workers : ~CompletesPage(w) BY <1>2, NextPromises, DoneKept
<1> QED BY <1>1, <1>2

-----------------------------------------------------------------------------
(* Cleanup: a node that left search is cleaned up to its last issued page. *)

\* The node has no content in search: it was deleted, or excluded since its
\* last revision.
Vacated == ~present \/ (fdb.excluded /\ ~Pending("live"))

CleanupKeysGood ==
    /\ Vacated => fdb.issued = {} \/ Pending("cleanup")
    /\ present /\ Vacated => \A d \in fdb.issued : d[1] < fdb.rev
    /\ present /\ Vacated /\ Pending("cleanup") => fdb.work["cleanup"].rev = fdb.rev

CleanupPCs == {"documents", "probe", "send", "complete"}

\* A cleanup slice that believes its document the last one is right.
SliceCleanupGood(x) ==
    x.class = "cleanup" /\ x.pc \in CleanupPCs /\ x.gen = fdb.gen =>
        /\ present /\ Vacated => x.rev = fdb.rev
        /\ x.done /\ x.pc # "documents" => \A d \in fdb.issued : x.deleted \/ d[1] < x.rev => d = x.doc

SlicesCleanGood == \A w \in Workers : SliceCleanupGood(worker[w])

ContentInv == DoneServed /\ CleanupKeysGood /\ SlicesCleanGood

\* New pages are of the current revision, and nobody vacates within a generation.
Tidy ==
    fdb'.gen = fdb.gen =>
        /\ present' /\ Vacated' => present /\ Vacated
        /\ \A d \in fdb'.issued : d \in fdb.issued \/ (present /\ d[1] = fdb.rev)

LEMMA SliceTidy ==
    ASSUME TypeInv, TypeInv', Effect, Tidy, NEW x \in Slices, SliceGood(x), SliceCleanupGood(x)
    PROVE  SliceCleanupGood(x)'
<1> SUFFICES ASSUME x.class = "cleanup", x.pc \in CleanupPCs, x.gen = fdb'.gen
             PROVE  /\ present' /\ Vacated' => x.rev = fdb'.rev
                    /\ x.done /\ x.pc # "documents" => \A d \in fdb'.issued : x.deleted \/ d[1] < x.rev => d = x.doc
  BY DEF SliceCleanupGood
<1>1. ItemGood(x) /\ x.gen \in Nat /\ x.rev \in Nat /\ x.gen > 0
  <2>1. x.pc # "idle" BY DEF CleanupPCs
  <2> QED BY <2>1, SliceIs
<1>2. Ages /\ fdb' \in SearchKeys BY EffectAges DEF TypeInv, TypeOK
<1>3. fdb'.gen = fdb.gen /\ fdb'.rev = fdb.rev /\ present' = present BY <1>1, <1>2, AgesIs DEF ItemGood
<1>4. present' /\ Vacated' => x.rev = fdb'.rev BY <1>3 DEF Tidy, SliceCleanupGood
<1>5. ASSUME x.done, x.pc # "documents", NEW d \in fdb'.issued, x.deleted \/ d[1] < x.rev PROVE d = x.doc
  <2>1. x.deleted => ~present BY <1>1 DEF ItemGood
  <2>2. x.rev <= fdb.rev /\ fdb.rev \in Nat BY <1>1, <1>3, KeyNumbers DEF ItemGood
  <2>3. d \in fdb.issued
    <3>1. d \in fdb.issued \/ (present /\ d[1] = fdb.rev) BY <1>3 DEF Tidy
    <3> QED BY <1>1, <1>5, <2>1, <2>2, <3>1
  <2> QED BY <1>3, <1>5, <2>3 DEF SliceCleanupGood
<1> QED BY <1>4, <1>5

\* The slice of an advance is as good as the keys it was decided on.
LEMMA AdvancesClean ==
    ASSUME TypeInv, TypeInv', ContentInv, NEW w \in Workers, NEW x \in Slices, Advances(w, x), x.class = "cleanup", x.pc \in CleanupPCs
    PROVE  SliceCleanupGood(x)
<1> DEFINE me == worker[w]
<1>1. me \in Slices /\ SliceGood(me) /\ SliceCleanupGood(me) BY DEF TypeInv, TypeOK, WorkersGood, ContentInv, SlicesCleanGood
<1>2. ASSUME NEW c \in Classes, Pending(c), x = Claimed(w, c) PROVE SliceCleanupGood(x)
  <2>1. x.class = c /\ x.rev = fdb.work[c].rev /\ ~x.done BY <1>2 DEF Claimed, Idle
  <2> QED BY <1>2, <2>1 DEF SliceCleanupGood, ContentInv, CleanupKeysGood
<1>3. ASSUME me.pc \in {"probe", "send"}, x.pc \in {"probe", "send", "complete"}, x.class = me.class, x.gen = me.gen, x.rev = me.rev,
             x.deleted = me.deleted, x.doc = me.doc, x.done = me.done
      PROVE  SliceCleanupGood(x)
  BY <1>1, <1>3 DEF SliceCleanupGood, CleanupPCs
<1>4. CASE me.pc = "probe" /\ x = Armed(me)
  <2>1. x.pc = "send" /\ x.class = me.class /\ x.gen = me.gen /\ x.rev = me.rev /\ x.deleted = me.deleted /\ x.doc = me.doc /\ x.done = me.done
    BY <1>1, <1>4 DEF Armed, Slices
  <2> QED BY <1>3, <1>4, <2>1
<1>5. CASE me.pc = "probe" /\ x = At(me, "complete")
  <2>1. x.pc = "complete" /\ x.class = me.class /\ x.gen = me.gen /\ x.rev = me.rev /\ x.deleted = me.deleted /\ x.doc = me.doc /\ x.done = me.done
    BY <1>1, <1>5 DEF At, Slices
  <2> QED BY <1>3, <1>5, <2>1
<1>6. CASE me.pc = "send" /\ x = At(me, "probe")
  <2>1. x.pc = "probe" /\ x.class = me.class /\ x.gen = me.gen /\ x.rev = me.rev /\ x.deleted = me.deleted /\ x.doc = me.doc /\ x.done = me.done
    BY <1>1, <1>6 DEF At, Slices
  <2> QED BY <1>3, <1>6, <2>1
<1>7. CASE me.pc = "documents" /\ Selected(w) = {} /\ x = NoneLeft(me)
  <2>1. x.class = me.class /\ x.gen = me.gen /\ x.rev = me.rev /\ x.deleted = me.deleted BY <1>1, <1>7 DEF NoneLeft, Slices
  <2>2. \A d \in fdb.issued : ~(x.deleted \/ d[1] < x.rev) BY <1>7, <2>1 DEF Selected
  <2> QED BY <1>1, <1>7, <2>1, <2>2 DEF SliceCleanupGood, CleanupPCs
<1>8. ASSUME me.pc = "documents", NEW d \in Selected(w), NEW last \in BOOLEAN, last => Selected(w) = {d}, x = Takes(me, d, last)
      PROVE  SliceCleanupGood(x)
  <2>1. x.class = me.class /\ x.gen = me.gen /\ x.rev = me.rev /\ x.deleted = me.deleted /\ x.doc = d /\ x.done = last
    BY <1>1, <1>8 DEF Takes, Slices
  <2>2. x.done => \A e \in fdb.issued : x.deleted \/ e[1] < x.rev => e = d BY <1>8, <2>1 DEF Selected
  <2> QED BY <1>1, <1>8, <2>1, <2>2 DEF SliceCleanupGood, CleanupPCs
<1>9. ASSUME me.pc \in {"content", "compile", "begin", "update"}, x.class = me.class PROVE FALSE
  <2>1. PCGood(me) BY <1>1, <1>9 DEF SliceGood
  <2> QED BY <1>9, <2>1 DEF PCGood
<1>10. x = At(me, "exclude") \/ x = At(me, "complete") \/ x = At(me, "documents") => x.class = me.class BY <1>1 DEF At, Slices
<1>11. x = Reading(me) => x.class = me.class BY <1>1 DEF Reading, Slices
<1>12. x = Compiled(me) => x.class = me.class BY <1>1 DEF Compiled, Slices
<1> QED BY <1>2, <1>4, <1>5, <1>6, <1>7, <1>8, <1>9, <1>10, <1>11, <1>12 DEF Advances

LEMMA SlicesCleanNext ==
    ASSUME worker' \in [Workers -> Slices], \A w \in Workers : \A y \in Slices : y = worker'[w] => SliceCleanupGood(y)'
    PROVE  SlicesCleanGood'
<1> SUFFICES ASSUME NEW w \in Workers PROVE SliceCleanupGood(worker[w])' BY DEF SlicesCleanGood
<1>1. PICK y \in Slices : y = worker'[w] OBVIOUS
<1>2. SliceCleanupGood(y)' BY <1>1
<1> QED BY <1>1, <1>2 DEF SliceCleanupGood

LEMMA TidySlices ==
    ASSUME TypeInv, TypeInv', Effect, ContentInv, Tidy
    PROVE  SlicesCleanGood'
<1>0. worker' \in [Workers -> Slices] /\ worker \in [Workers -> Slices] BY DEF TypeInv, TypeOK
<1> SUFFICES ASSUME NEW v \in Workers, NEW y \in Slices, y = worker'[v], y.class = "cleanup", y.pc \in CleanupPCs
             PROVE SliceCleanupGood(y)'
  BY <1>0, SlicesCleanNext DEF SliceCleanupGood
<1> DEFINE me == worker[v]
<1>1. SliceStep(v, y) BY SliceSteps
<1>2. me \in Slices /\ SliceGood(me) /\ SliceCleanupGood(me) BY DEF TypeInv, TypeOK, WorkersGood, ContentInv, SlicesCleanGood
<1>3. CASE y = me BY <1>2, <1>3, SliceTidy
<1>4. CASE Advances(v, y) /\ Moves(v, y)
  <2>1. SliceCleanupGood(y) BY <1>4, AdvancesClean
  <2>2. fdb'.gen = fdb.gen /\ fdb'.rev = fdb.rev /\ fdb'.issued = fdb.issued /\ present' = present /\ (Vacated' <=> Vacated)
    BY <1>4 DEF Moves, SameKeys, Vacated, Pending
  <2> QED BY <2>1, <2>2 DEF SliceCleanupGood
<1>5. CASE Sends(v) /\ y = At(me, "complete")
  <2>1. me.pc \in {"send", "update"} /\ UNCHANGED <<fdb, present>> BY <1>5 DEF Sends, Sending, Written
  <2>2. y.pc = "complete" /\ y.class = me.class /\ y.gen = me.gen /\ y.rev = me.rev /\ y.deleted = me.deleted /\ y.doc = me.doc /\ y.done = me.done
    BY <1>2, <1>5 DEF At, Slices
  <2>3. me.pc = "send" BY <1>2, <2>1, <2>2 DEF SliceGood, PCGood
  <2>4. SliceCleanupGood(y) BY <1>2, <2>2, <2>3 DEF SliceCleanupGood, CleanupPCs
  <2>5. Vacated' <=> Vacated BY <2>1 DEF Vacated, Pending
  <2> QED BY <2>1, <2>4, <2>5 DEF SliceCleanupGood
<1>6. CASE y.pc \in {"idle", "yield"} BY <1>6 DEF CleanupPCs
<1>7. ASSUME me.pc \in {"register", "begin"} \/ (me.pc = "complete" /\ me.class = "live"), y.class = me.class PROVE FALSE
  BY <1>2, <1>7 DEF SliceGood, PCGood
<1>8. CASE Registers(v) /\ y = Registered(me)
  <2>1. y.class = me.class /\ me.pc = "register" BY <1>2, <1>8 DEF Registered, Slices, Registers
  <2> QED BY <1>7, <2>1
<1>9. CASE CompletesPage(v) /\ y = NextPage(me)
  <2>1. y.class = me.class /\ me.pc = "complete" /\ me.class = "live" BY <1>2, <1>9 DEF NextPage, Slices, CompletesPage
  <2> QED BY <1>7, <2>1
<1>10. CASE BeginsAccess(v) /\ y = Begun(me, BegunPC(me))
  <2>1. y.class = me.class BY <1>2, <1>10 DEF Begun, Slices
  <2>2. me.pc = "begin" BY <1>10 DEF BeginsAccess
  <2> QED BY <1>7, <2>1, <2>2
<1>11. CASE SkipsPages(v) /\ y = At(me, "dependents")
  <2>1. y.class = me.class /\ me.pc = "begin" BY <1>2, <1>11 DEF At, Slices, SkipsPages
  <2> QED BY <1>7, <2>1
<1> QED BY <1>1, <1>3, <1>4, <1>5, <1>6, <1>8, <1>9, <1>10, <1>11 DEF SliceStep

CleanStep == Tidy /\ CleanupKeysGood'

\* Steps that neither put nor end cleanup work.
LEMMA CleanFrame ==
    ASSUME CleanupKeysGood, fdb'.rev = fdb.rev, present' = present, fdb'.excluded = fdb.excluded,
           fdb'.work["live"] = fdb.work["live"], fdb'.work["cleanup"] = fdb.work["cleanup"], fdb'.issued \subseteq fdb.issued
    PROVE  CleanStep
<1>1. Vacated' <=> Vacated BY DEF Vacated, Pending
<1>2. Pending("cleanup")' <=> Pending("cleanup") BY DEF Pending
<1>3. Tidy BY <1>1 DEF Tidy
<1>4. CleanupKeysGood'
  <2>1. Vacated' => fdb'.issued = {} \/ Pending("cleanup")' BY <1>1, <1>2 DEF CleanupKeysGood
  <2>2. present' /\ Vacated' => \A d \in fdb'.issued : d[1] < fdb'.rev BY <1>1 DEF CleanupKeysGood
  <2>3. present' /\ Vacated' /\ Pending("cleanup")' => fdb'.work["cleanup"].rev = fdb'.rev BY <1>1, <1>2 DEF CleanupKeysGood
  <2> QED BY <2>1, <2>2, <2>3 DEF CleanupKeysGood
<1> QED BY <1>3, <1>4 DEF CleanStep

LEMMA OccupiedClean ==
    ASSUME present', ~fdb'.excluded \/ Pending("live")',
           fdb'.gen = fdb.gen => \A d \in fdb'.issued : d \in fdb.issued \/ (present /\ d[1] = fdb.rev)
    PROVE  CleanStep
<1>1. ~Vacated' BY DEF Vacated
<1> QED BY <1>1 DEF CleanStep, Tidy, CleanupKeysGood

LEMMA SchedulesClean == ASSUME TypeInv, IndexInv, Schedules PROVE CleanStep
<1>0. present /\ fdb.gen \in Nat /\ fdb.rev \in Nat /\ fdb.rev <= fdb.gen /\ fdb.gen > 0 BY KeyNumbers DEF Schedules, TypeInv, KeysGood
<1>1. fdb'.gen # fdb.gen /\ fdb'.issued = fdb.issued /\ fdb'.gen = fdb.gen + 1
  <2>1. fdb'.issued = fdb.issued /\ fdb'.gen = fdb.gen + 1
    BY DEF Schedules, RevisionScheduled, AccessScheduled, DeletionScheduled, ExclusionScheduled, Raised
  <2> QED BY <1>0, <2>1
<1>2. Tidy BY <1>1 DEF Tidy
<1>3. CASE RevisionScheduled(fdb') /\ present'
  <2>1. Pending("live")' BY <1>3 DEF RevisionScheduled, Put, Pending
  <2> QED BY <1>1, <1>3, <2>1, OccupiedClean
<1>4. CASE AccessScheduled(fdb') /\ present' BY <1>1, <1>4, OccupiedClean DEF AccessScheduled
<1>5. CASE ~present' /\ DeletionScheduled(fdb')
  <2>1. Pending("cleanup")' BY <1>5 DEF DeletionScheduled, Put, Pending
  <2> QED BY <1>2, <1>5, <2>1 DEF CleanStep, CleanupKeysGood
<1>6. CASE ExclusionScheduled(fdb')
  <2>1. Pending("cleanup")' /\ fdb'.work["cleanup"].rev = fdb'.rev /\ fdb'.rev = fdb.gen + 1
    BY <1>1, <1>6 DEF ExclusionScheduled, Put, Pending, Raised
  <2>2. \A d \in fdb'.issued : d[1] < fdb'.rev
    <3> TAKE d \in fdb'.issued
    <3>1. d \in Documents BY <1>1 DEF TypeInv, TypeOK, SearchKeys
    <3>2. d[1] \in Nat /\ d[1] <= fdb.rev BY <1>0, <1>1, <3>1, DocumentShape DEF IndexInv, IssuedGood
    <3> QED BY <1>0, <2>1, <3>2
  <2> QED BY <1>2, <2>1, <2>2 DEF CleanStep, CleanupKeysGood
<1> QED BY <1>0, <1>3, <1>4, <1>5, <1>6 DEF Schedules

LEMMA LiveWorkClean ==
    ASSUME TypeInv, NEW w \in Workers, Registers(w) \/ CompletesPage(w) \/ Refreshes(w)
    PROVE  CleanStep
<1> DEFINE me == worker[w]
<1>1. Verified(w) /\ Busy(w) /\ Still /\ Kept(fdb') BY DEF Registers, CompletesPage, Refreshes, PageVerified, Busy
<1>2. me.class = "live" BY <1>1, SliceFacts DEF Registers, CompletesPage, Refreshes, PCGood
<1>3. Pending("live") /\ present /\ me.rev = fdb.rev BY <1>1, <1>2, VerifiedIs
<1>4. present' BY <1>1, <1>3 DEF Still
<1>5. fdb'.issued = fdb.issued \cup {me.doc} \/ fdb'.issued = fdb.issued BY DEF Registers, CompletesPage, Refreshes
<1>6. CASE Registers(w)
  <2>1. "live" \in Classes BY DEF Classes
  <2>2. Pending("live")' BY <1>3, <1>6, <2>1 DEF Registers, KeptClass, Pending
  <2>3. me.doc[1] = fdb.rev
    <3>1. PageAtHand(me) /\ me.pc = "register" BY <1>1, <1>6, SliceFacts DEF Registers
    <3>2. me.doc = <<me.rev, me.ord>> BY <1>2, <3>1 DEF PageAtHand, PagePCs
    <3> QED BY <1>3, <3>2
  <2> QED BY <1>3, <1>4, <1>5, <2>2, <2>3, OccupiedClean
<1>7. CASE CompletesPage(w)
  <2>1. Pending("live")' /\ fdb'.issued = fdb.issued BY <1>3, <1>7 DEF CompletesPage, Pointed, Pending
  <2> QED BY <1>4, <2>1, OccupiedClean
<1>8. CASE Refreshes(w)
  <2>1. ~fdb'.excluded /\ fdb'.issued = fdb.issued BY <1>8 DEF Refreshes
  <2> QED BY <1>4, <2>1, OccupiedClean
<1> QED BY <1>6, <1>7, <1>8

\* The cleanup of a vacated node ends with its last page.
LEMMA FinishesCleanupClean ==
    ASSUME TypeInv, ContentInv, NEW w \in Workers, FinishesCleanup(w)
    PROVE  CleanStep
<1> DEFINE me == worker[w]
<1>1. Verified(w) /\ Busy(w) /\ Still /\ me.class = "cleanup" /\ me.pc = "complete" /\ me.done /\ fdb'.issued = fdb.issued \ {me.doc}
  BY DEF FinishesCleanup
<1>2. Pending("cleanup") /\ me.gen = fdb.gen /\ (me.deleted <=> ~present) BY <1>1, VerifiedIs
<1>3. SliceCleanupGood(me) BY DEF ContentInv, SlicesCleanGood
<1>4. Vacated => fdb'.issued = {}
  <2> SUFFICES ASSUME Vacated, NEW d \in fdb.issued PROVE d = me.doc BY <1>1
  <2>1. me.deleted \/ d[1] < me.rev
    <3>1. CASE ~present BY <1>2, <3>1
    <3>2. CASE present
      <4>1. d[1] < fdb.rev BY <3>2 DEF ContentInv, CleanupKeysGood
      <4>2. me.rev = fdb.rev BY <1>1, <1>2, <1>3, <3>2 DEF SliceCleanupGood, CleanupPCs
      <4> QED BY <4>1, <4>2
    <3> QED BY <3>1, <3>2
  <2> QED BY <1>1, <1>2, <1>3, <2>1 DEF SliceCleanupGood, CleanupPCs
<1>5. present' = present BY <1>1 DEF Still
<1>6. CASE present
  <2>1. RecordGood("cleanup") BY KeptCursors DEF Classes
  <2>2. ~fdb.work["cleanup"].deleted BY <1>2, <1>6, <2>1 DEF RecordGood
  <2>3. Kept(fdb') /\ fdb'.excluded = fdb.excluded /\ Removed("cleanup", fdb') /\ KeptClass("live", fdb')
    BY <2>2 DEF FinishesCleanup
  <2>4. Vacated' <=> Vacated BY <1>5, <2>3 DEF Vacated, KeptClass, Pending
  <2>5. Tidy BY <1>1, <1>5, <2>4 DEF Tidy
  <2>6. ~Pending("cleanup")' BY <2>3 DEF Removed, Pending
  <2>7. CleanupKeysGood' BY <1>4, <2>4, <2>6 DEF CleanupKeysGood
  <2> QED BY <2>5, <2>7 DEF CleanStep
<1>7. CASE ~present
  <2>1. fdb'.issued = {} BY <1>4, <1>7 DEF Vacated
  <2> QED BY <1>5, <1>7, <2>1 DEF CleanStep, Tidy, CleanupKeysGood
<1> QED BY <1>6, <1>7

LEMMA FinishesFanoutClean ==
    ASSUME TypeInv, ContentInv, NEW w \in Workers, FinishesFanout(w)
    PROVE  CleanStep
<1>1. worker[w].deleted /\ Verified(w) /\ Busy(w) /\ Still /\ fdb'.issued = fdb.issued /\ Finishes("access", "cleanup")
  BY DEF FinishesFanout
<1>2. ~present BY <1>1, VerifiedIs
<1>3. ~present' BY <1>1, <1>2 DEF Still
<1>4. fdb'.issued = {} \/ Pending("cleanup")'
  <2>1. CASE Pending("cleanup")
    <3>1. "cleanup" \in Classes \ {"access"} BY DEF Classes
    <3> QED BY <1>1, <2>1, <3>1 DEF Finishes, KeptClass, Pending
  <2>2. CASE ~Pending("cleanup") BY <1>1, <1>2, <2>2 DEF ContentInv, CleanupKeysGood, Vacated
  <2> QED BY <2>1, <2>2
<1>5. Tidy BY <1>1, <1>3 DEF Tidy
<1> QED BY <1>3, <1>4, <1>5 DEF CleanStep, CleanupKeysGood

LEMMA NextClean ==
    ASSUME TypeInv, TypeInv', IndexInv, ContentInv, Effect
    PROVE  CleanStep
<1>0. CleanupKeysGood /\ "live" \in Classes /\ "cleanup" \in Classes BY DEF ContentInv, Classes
<1>1. CASE Quiet BY <1>0, <1>1, CleanFrame DEF Quiet, SameKeys
<1>2. ASSUME NEW w \in Workers, NEW x \in Slices, Moves(w, x) PROVE CleanStep BY <1>0, <1>2, CleanFrame DEF Moves, SameKeys
<1>3. ASSUME NEW q, Written(q) PROVE CleanStep BY <1>0, <1>3, CleanFrame DEF Written
<1>4. CASE Schedules BY <1>4, SchedulesClean
<1>5. ASSUME NEW w \in Workers, Progresses(w) PROVE CleanStep
  <2>1. CASE Registers(w) \/ CompletesPage(w) \/ Refreshes(w) BY <2>1, LiveWorkClean
  <2>2. ASSUME Kept(fdb'), Still, KeptClass("live", fdb'), KeptClass("cleanup", fdb'), fdb'.excluded = fdb.excluded, fdb'.issued \subseteq fdb.issued
        PROVE  CleanStep
    BY <1>0, <2>2, CleanFrame DEF Kept, Still, KeptClass
  <2>3. CASE BeginsAccess(w) \/ SkipsPages(w) \/ NothingToDo(w) \/ ChecksPoint(w) \/ CompletesPages(w) \/ TellsDependents(w)
    <3>1. Kept(fdb') /\ Still /\ KeptClass("live", fdb') /\ KeptClass("cleanup", fdb') /\ fdb'.excluded = fdb.excluded /\ fdb'.issued = fdb.issued
      BY <2>3 DEF BeginsAccess, SkipsPages, NothingToDo, ChecksPoint, CompletesPages, TellsDependents
    <3> QED BY <2>2, <3>1
  <2>4. CASE Retires(w)
    <3>1. Kept(fdb') /\ Still /\ KeptClass("live", fdb') /\ KeptClass("cleanup", fdb') /\ fdb'.excluded = fdb.excluded /\ fdb'.issued \subseteq fdb.issued
      BY <1>0, <2>4 DEF Retires
    <3> QED BY <2>2, <3>1
  <2> QED BY <1>5, <2>1, <2>3, <2>4, FinishesCleanupClean, FinishesFanoutClean DEF Progresses
<1> QED BY <1>1, <1>2, <1>3, <1>4, <1>5 DEF Effect, Sends, Arrives

LEMMA NextContent ==
    ASSUME TypeInv, TypeInv', IndexInv, IndexInv', Effect, ContentInv
    PROVE  ContentInv'
<1>1. DoneServed' BY NextDone DEF ContentInv
<1>2. Tidy /\ CleanupKeysGood' BY NextClean DEF CleanStep
<1>3. SlicesCleanGood' BY <1>2, TidySlices
<1> QED BY <1>1, <1>2, <1>3 DEF ContentInv

LEMMA InitContent == ASSUME Init PROVE ContentInv
<1>1. /\ fdb.work["live"].rev = 1 /\ fdb.work["live"].gen = 2 /\ fdb.cursor["live"] = NoCursor /\ fdb.issued = {}
      /\ fdb.excluded = FALSE /\ present = TRUE
  BY DEF Init, Classes
<1>2. Pending("live") /\ Reached = 0 BY <1>1 DEF Pending, NoRecord, Reached, NoCursor
<1>3. DoneServed BY <1>2, DocumentShape DEF DoneServed
<1>4. CleanupKeysGood BY <1>1, <1>2 DEF CleanupKeysGood, Vacated
<1>5. \A w \in Workers : worker[w].pc = "idle" BY DEF Init, Idle
<1>6. SlicesCleanGood BY <1>5 DEF SlicesCleanGood, SliceCleanupGood, CleanupPCs
<1> QED BY <1>3, <1>4, <1>6 DEF ContentInv

LEMMA ContentHolds == Spec => [](TypeInv /\ IndexInv /\ ContentInv)
<1>1. Init => TypeInv /\ IndexInv /\ ContentInv BY InitTypes, InitIndex, InitContent
<1>2. TypeInv /\ IndexInv /\ ContentInv /\ [Next]_vars => TypeInv' /\ IndexInv' /\ ContentInv'
  BY Steps, NextIndex, NextContent
<1> QED BY <1>1, <1>2, PTL DEF Spec

LEMMA ContentGivesSettled == ASSUME TypeInv, IndexInv, ContentInv PROVE SettledContent
<1>1. ASSUME present, ~fdb.excluded, ~Pending("live"), NEW o \in 0..Pages - 1 PROVE <<fdb.rev, o>> \in Active
  <2>1. fdb.rev \in Nat /\ fdb.gen \in Nat BY KeyNumbers
  <2>2. fdb.rev > 0 /\ fdb.rev <= fdb.gen /\ fdb.gen + Owed <= 3 + 2 * events BY <1>1 DEF TypeInv, KeysGood
  <2>3. fdb.rev <= MaxRevision
    <3>1. events \in Nat /\ events <= MaxEvents /\ MaxEvents \in Nat BY Constants DEF TypeInv, TypeOK
    <3>2. Owed \in Nat BY DEF Owed
    <3> QED BY <2>1, <2>2, <3>1, <3>2 DEF MaxRevision
  <2>4. o \in Nat /\ o < Pages BY <1>1, Constants
  <2>5. PICK d \in Documents : d = <<fdb.rev, o>> BY <2>1, <2>2, <2>3, <2>4, DocumentShape
  <2>6. Reached = Pages BY <1>1 DEF Reached
  <2>7. Served(d) BY <1>1, <2>4, <2>5, <2>6 DEF ContentInv, DoneServed
  <2> QED BY <2>5, <2>7 DEF Active, Served
<1>2. ASSUME ~present \/ fdb.excluded, Settled PROVE Active = {}
  <2>1. ~Pending("live") /\ ~Pending("cleanup") BY <1>2 DEF Settled, Classes
  <2>2. fdb.issued = {} BY <1>2, <2>1 DEF ContentInv, CleanupKeysGood, Vacated
  <2> QED BY <2>2 DEF Active, IndexInv, PagesGood, PageGood, Served
<1> QED BY <1>1, <1>2 DEF SettledContent, CurrentPages

\* When no live work is pending, every page of the current revision is served; a
\* deleted or excluded node whose work has ended serves none, however many of its
\* requests, retries and abandoned writes were still under way.
THEOREM ContentSettles == Spec => []SettledContent
<1>1. TypeInv /\ IndexInv /\ ContentInv => SettledContent BY ContentGivesSettled
<1> QED BY <1>1, ContentHolds, PTL

-----------------------------------------------------------------------------
(* Dependents: what they were told is what is recorded.                    *)

\* The node's access is recorded and stored in its pages.
Recorded == fdb.access.keys = grant /\ ~fdb.access.pages

\* It has no permission boundary and no content in search.
Unplaced == grant = NoParent /\ fdb.excluded /\ Reached = 0

ToldKeysGood ==
    /\ present => told # Gone
    /\ present /\ ~Pending("access") => Unplaced \/ (Recorded /\ ~fdb.access.dependents)
    /\ present /\ fdb.access.keys # NoKeys /\ ~fdb.access.dependents => told = fdb.access.keys
    /\ present /\ Pending("access") /\ FanoutLeft => Recorded
    /\ ~present => told = Gone \/ Pending("access")

\* A slice that tells dependents has the current access recorded.
SliceToldGood(x) == x.pc = "dependents" /\ x.gen = fdb.gen /\ present => Recorded

SlicesToldGood == \A w \in Workers : SliceToldGood(worker[w])

ToldInv == ToldKeysGood /\ SlicesToldGood

\* The slice of a verified access step has the node's access.
LEMMA AccessSlice ==
    ASSUME TypeInv, IndexInv, NEW w \in Workers, Verified(w), Busy(w), worker[w].class = "access"
    PROVE  /\ Pending("access") /\ worker[w].gen = fdb.gen /\ worker[w] \in Slices /\ (worker[w].deleted <=> ~present)
           /\ worker[w].pc \in AccessPCs => present /\ worker[w].keys = grant /\ worker[w].keys \in Grants
<1> DEFINE me == worker[w]
<1>1. Pending("access") /\ me.gen = fdb.gen /\ me \in Slices /\ (me.deleted <=> ~present) BY VerifiedIs
<1>2. PCGood(me) /\ PageAtHand(me) BY SliceFacts
<1>3. SliceAccessGood(me) BY DEF IndexInv, SlicesGood, SliceIndexGood
<1>4. me.pc \in AccessPCs => present BY <1>1, <1>2 DEF PCGood, AccessPCs
<1> QED BY <1>1, <1>2, <1>3, <1>4 DEF SliceAccessGood, PageAtHand, Busy

AccessSteps(w) ==
    BeginsAccess(w) \/ SkipsPages(w) \/ NothingToDo(w) \/ ChecksPoint(w) \/ CompletesPages(w) \/ TellsDependents(w)

\* Registering a page only tracks the access of registered pages.
LEMMA RegistersAccess ==
    ASSUME TypeInv, IndexInv, NEW w \in Workers, Registers(w)
    PROVE  /\ worker[w].class = "live" /\ worker[w].keys \in Grants /\ worker[w].keys = grant /\ present /\ Pending("live")
           /\ fdb'.access = Tracked(fdb.access, worker[w].keys) /\ fdb.access \in AccessStates
           /\ fdb'.access.found = fdb.access.found /\ fdb'.access.keys = fdb.access.keys
           /\ fdb'.access.pages = fdb.access.pages /\ fdb'.access.dependents = fdb.access.dependents
<1> DEFINE me == worker[w]
<1>1. me.pc = "register" /\ Busy(w) /\ Verified(w) /\ fdb'.access = Tracked(fdb.access, me.keys)
  BY DEF Registers, Busy, PageVerified
<1>2. PCGood(me) /\ PageAtHand(me) BY <1>1, SliceFacts
<1>3. me.class = "live" /\ me.keys \in Grants BY <1>1, <1>2 DEF PCGood, PageAtHand, PagePCs
<1>4. present /\ Pending("live") /\ me.gen = fdb.gen BY <1>1, <1>3, VerifiedIs
<1>5. SliceAccessGood(me) BY DEF IndexInv, SlicesGood, SliceIndexGood
<1>6. me.keys = grant BY <1>1, <1>3, <1>4, <1>5 DEF SliceAccessGood, PagePCs, Busy
<1>7. fdb.access \in AccessStates BY DEF TypeInv, TypeOK, SearchKeys
<1>8. /\ fdb'.access.found = fdb.access.found /\ fdb'.access.keys = fdb.access.keys
      /\ fdb'.access.pages = fdb.access.pages /\ fdb'.access.dependents = fdb.access.dependents
  BY <1>1, <1>3, <1>7, TrackedIs
<1> QED BY <1>1, <1>3, <1>4, <1>6, <1>7, <1>8

\* Within a generation, what is recorded stays recorded.
LEMMA RecordedStays ==
    ASSUME TypeInv, IndexInv, Effect, present', fdb'.gen = fdb.gen, Recorded
    PROVE  Recorded'
<1>0. fdb.access \in AccessStates BY DEF TypeInv, TypeOK, SearchKeys
<1>1. ASSUME fdb'.access.keys = fdb.access.keys, fdb'.access.pages => fdb.access.pages, grant' = grant PROVE Recorded'
  BY <1>1 DEF Recorded
<1>2. CASE Quiet BY <1>1, <1>2 DEF Quiet, SameKeys
<1>3. ASSUME NEW w \in Workers, NEW x \in Slices, Moves(w, x) PROVE Recorded' BY <1>1, <1>3 DEF Moves, SameKeys
<1>4. ASSUME NEW q, Written(q) PROVE Recorded' BY <1>1, <1>4 DEF Written
<1>5. ~Schedules
  <2>1. Schedules => fdb'.gen = fdb.gen + 1
    BY DEF Schedules, RevisionScheduled, AccessScheduled, DeletionScheduled, ExclusionScheduled, Raised
  <2> QED BY <2>1, KeyNumbers
<1>6. ASSUME NEW w \in Workers, Progresses(w) PROVE Recorded'
  <2>0. grant' = grant /\ present' = present BY <1>6 DEF Progresses, Registers, CompletesPage, Refreshes, BeginsAccess, SkipsPages, NothingToDo, ChecksPoint,
                            CompletesPages, TellsDependents, FinishesFanout, Retires, FinishesCleanup, Still
  <2>1. CASE Registers(w)
    <3> QED BY <1>1, <2>0, <2>1, RegistersAccess
  <2>2. CASE CompletesPage(w) \/ Refreshes(w) \/ SkipsPages(w) \/ NothingToDo(w) \/ ChecksPoint(w) \/ Retires(w)
    BY <1>1, <2>0, <2>2 DEF CompletesPage, Refreshes, SkipsPages, NothingToDo, ChecksPoint, Retires
  <2>3. CASE CompletesPages(w) \/ TellsDependents(w)
    <3>1. fdb'.access \in {[fdb.access EXCEPT !.pages = FALSE], [fdb.access EXCEPT !.dependents = FALSE]}
      BY <2>3 DEF CompletesPages, TellsDependents
    <3> QED BY <1>0, <1>1, <2>0, <3>1 DEF AccessStates
  <2>4. CASE BeginsAccess(w)
    <3>1. Verified(w) /\ worker[w].pc = "begin" /\ Busy(w) /\ fdb.access.keys # worker[w].keys BY <2>4 DEF BeginsAccess, Busy
    <3>2. worker[w].class = "access" BY <3>1, SliceFacts DEF PCGood
    <3>3. worker[w].keys = grant BY <3>1, <3>2, AccessSlice DEF AccessPCs
    <3> QED BY <3>1, <3>3 DEF Recorded
  <2>5. CASE FinishesFanout(w)
    <3>1. worker[w].deleted /\ Verified(w) /\ Busy(w) BY <2>5 DEF FinishesFanout
    <3> QED BY <2>0, <3>1, VerifiedIs
  <2>6. CASE FinishesCleanup(w)
    <3>1. worker[w].class = "cleanup" /\ Verified(w) /\ Busy(w) BY <2>6 DEF FinishesCleanup
    <3>2. Pending("cleanup") BY <3>1, VerifiedIs
    <3>3. RecordGood("cleanup") BY KeptCursors DEF Classes
    <3>4. ~fdb.work["cleanup"].deleted BY <2>0, <3>2, <3>3 DEF RecordGood
    <3> QED BY <1>1, <2>0, <2>6, <3>4 DEF FinishesCleanup
  <2> QED BY <1>6, <2>1, <2>2, <2>3, <2>4, <2>5, <2>6 DEF Progresses
<1> QED BY <1>2, <1>3, <1>4, <1>5, <1>6 DEF Effect, Sends, Arrives

LEMMA SliceToldStays ==
    ASSUME TypeInv, TypeInv', IndexInv, Effect, NEW x \in Slices, SliceGood(x), SliceToldGood(x)
    PROVE  SliceToldGood(x)'
<1> SUFFICES ASSUME x.pc = "dependents", x.gen = fdb'.gen, present' PROVE Recorded' BY DEF SliceToldGood
<1>1. ItemGood(x) /\ x.gen \in Nat /\ x.gen > 0 BY SliceIs
<1>2. Ages /\ fdb' \in SearchKeys BY EffectAges DEF TypeInv, TypeOK
<1>3. fdb'.gen = fdb.gen /\ present' = present BY <1>1, <1>2, AgesIs DEF ItemGood
<1>4. Recorded BY <1>3 DEF SliceToldGood
<1> QED BY <1>3, <1>4, RecordedStays

LEMMA SlicesToldNext ==
    ASSUME worker' \in [Workers -> Slices], \A w \in Workers : \A y \in Slices : y = worker'[w] => SliceToldGood(y)'
    PROVE  SlicesToldGood'
<1> SUFFICES ASSUME NEW w \in Workers PROVE SliceToldGood(worker[w])' BY DEF SlicesToldGood
<1>1. PICK y \in Slices : y = worker'[w] OBVIOUS
<1>2. SliceToldGood(y)' BY <1>1
<1> QED BY <1>1, <1>2 DEF SliceToldGood

\* A slice comes to telling dependents by its claim, or by recording the access.
LEMMA ToldSlices ==
    ASSUME TypeInv, TypeInv', IndexInv, Effect, ToldInv
    PROVE  SlicesToldGood'
<1>0. worker' \in [Workers -> Slices] /\ worker \in [Workers -> Slices] BY DEF TypeInv, TypeOK
<1> SUFFICES ASSUME NEW v \in Workers, NEW y \in Slices, y = worker'[v], y.pc = "dependents", y.gen = fdb'.gen, present'
             PROVE  Recorded'
  BY <1>0, SlicesToldNext DEF SliceToldGood
<1> DEFINE me == worker[v]
<1>1. SliceStep(v, y) BY SliceSteps
<1>2. me \in Slices /\ SliceGood(me) /\ SliceToldGood(me) BY DEF TypeInv, TypeOK, WorkersGood, ToldInv, SlicesToldGood
<1>3. CASE y = me
  <2>1. SliceToldGood(y)' BY <1>2, <1>3, SliceToldStays
  <2> QED BY <2>1 DEF SliceToldGood
<1>4. CASE Advances(v, y) /\ Moves(v, y)
  <2>1. present' = present /\ fdb'.gen = fdb.gen BY <1>4 DEF Moves, SameKeys
  <2>2. PICK c \in Classes : Pending(c) /\ y = Claimed(v, c)
    <3>1. \A pc \in {"exclude", "complete", "probe", "documents"} : y # At(me, pc) BY <1>2 DEF At, Slices
    <3>2. y # Reading(me) /\ y # Compiled(me) /\ y # Armed(me) BY <1>2 DEF Reading, Compiled, Armed, Slices
    <3>3. y # NoneLeft(me) BY <1>2 DEF NoneLeft, Slices
    <3>4. \A d, last : y # Takes(me, d, last) BY <1>2 DEF Takes, Slices
    <3> QED BY <1>4, <3>1, <3>2, <3>3, <3>4 DEF Advances
  <2>3. y.pc = FirstStep(c, Progress(fdb, c).phase) BY <2>2, ClaimedIs
  <2>4. c = "access" /\ Progress(fdb, c).phase = "dependents" BY <2>3 DEF FirstStep, Classes
  <2>5. fdb.cursor["access"].gen = fdb.work["access"].gen /\ fdb.cursor["access"].phase = "dependents"
    BY <2>4 DEF Progress, NoCursor
  <2>6. RecordGood("access") BY DEF TypeInv, KeysGood, Classes
  <2>7. FanoutLeft BY <2>2, <2>4, <2>5, <2>6 DEF FanoutLeft, RecordGood
  <2>8. Recorded BY <2>1, <2>2, <2>4, <2>7 DEF ToldInv, ToldKeysGood
  <2> QED BY <2>1, <2>8, RecordedStays
<1>5. CASE Sends(v) /\ y = At(me, "complete") BY <1>2, <1>5 DEF At, Slices
<1>6. CASE y.pc \in {"idle", "yield"} BY <1>6
<1>7. CASE y = Registered(me) BY <1>2, <1>7 DEF Registered, Slices
<1>8. CASE y = NextPage(me)
  <2>1. y.pc \in {"refresh", "content"} BY <1>2, <1>8 DEF NextPage, Slices
  <2> QED BY <2>1
<1>9. CASE BeginsAccess(v) /\ y = Begun(me, BegunPC(me))
  <2>1. me.pc = "begin" /\ Verified(v) /\ Busy(v) /\ Still BY <1>9 DEF BeginsAccess, Busy
  <2>2. me.class = "access" BY <2>1, SliceFacts DEF PCGood
  <2>3. me.keys = grant BY <2>1, <2>2, AccessSlice DEF AccessPCs
  <2>4. y.pc = BegunPC(me) BY <1>2, <1>9 DEF Begun, Slices
  <2>5. PagesStored(fdb.access, me.keys) BY <2>4 DEF BegunPC
  <2>6. fdb'.access.keys = me.keys /\ ~fdb'.access.pages BY <1>9, <2>5 DEF BeginsAccess
  <2> QED BY <2>1, <2>3, <2>6 DEF Recorded, Still
<1>10. CASE SkipsPages(v) /\ y = At(me, "dependents")
  <2>1. me.pc = "begin" /\ Verified(v) /\ Busy(v) /\ Still /\ fdb.access.keys = me.keys /\ ~fdb.access.pages /\ fdb'.access = fdb.access
    BY <1>10 DEF SkipsPages, Busy
  <2>2. me.class = "access" BY <2>1, SliceFacts DEF PCGood
  <2>3. me.keys = grant BY <2>1, <2>2, AccessSlice DEF AccessPCs
  <2> QED BY <2>1, <2>3 DEF Recorded, Still
<1> QED BY <1>1, <1>3, <1>4, <1>5, <1>6, <1>7, <1>8, <1>9, <1>10 DEF SliceStep

\* The class, the recorded access and the place of the node stay as they are.
LEMMA ToldFrame ==
    ASSUME ToldKeysGood, UNCHANGED <<told, grant, present>>, fdb'.gen = fdb.gen, KeptClass("access", fdb'),
           fdb'.access.keys = fdb.access.keys, fdb'.access.pages = fdb.access.pages, fdb'.access.dependents = fdb.access.dependents,
           Unplaced /\ ~Pending("access") /\ present => Unplaced'
    PROVE  ToldKeysGood'
<1>1. Pending("access")' <=> Pending("access") BY DEF KeptClass, Pending
<1>2. FanoutLeft' <=> FanoutLeft BY DEF KeptClass, FanoutLeft
<1>3. Recorded' <=> Recorded BY DEF Recorded
<1> QED BY <1>1, <1>2, <1>3 DEF ToldKeysGood

LEMMA UnplacedFrame ==
    ASSUME fdb'.rev = fdb.rev, present' = present, present, KeptClass("live", fdb'), fdb'.excluded = fdb.excluded, grant' = grant, Unplaced
    PROVE  Unplaced'
<1>1. Promises BY LiveFrame
<1>2. Reached' = 0 BY <1>1 DEF Promises, Unplaced
<1> QED BY <1>2 DEF Unplaced

LEMMA SchedulesTold == ASSUME TypeInv, TypeInv', IndexInv, ToldInv, Schedules PROVE ToldKeysGood'
<1>0. present /\ ToldKeysGood BY DEF Schedules, ToldInv
<1>n. NoCursor.gen = 0 /\ NoCursor.phase = "pages" BY DEF NoCursor
<1>1. CASE RevisionScheduled(fdb') /\ UNCHANGED <<present, grant, used, told>>
  <2>1. /\ fdb'.access = fdb.access /\ fdb'.excluded = fdb.excluded
        /\ \/ Put("access", fdb', FALSE)
           \/ ~Pending("access") /\ fdb'.work["access"] = NoRecord /\ fdb'.cursor["access"] = fdb.cursor["access"]
    BY <1>1 DEF RevisionScheduled
  <2>2. Reached' = 0
    <3>1. fdb'.work["live"].rev = fdb'.rev /\ fdb'.work["live"] # NoRecord /\ fdb'.cursor["live"] = NoCursor
      BY <1>1 DEF RevisionScheduled, Put
    <3>2. fdb'.rev > 0 BY <1>1, KeyNumbers DEF RevisionScheduled, Raised
    <3>3. NoCursor.rev = 0 BY DEF NoCursor
    <3> QED BY <3>1, <3>2, <3>3 DEF Reached, Pending
  <2>3. Pending("access")' => Put("access", fdb', FALSE) BY <2>1 DEF Pending
  <2>4. ~(Pending("access")' /\ FanoutLeft') BY <1>n, <2>3 DEF Put, FanoutLeft
  <2>5. ~Pending("access")' => ~Pending("access") BY <2>1 DEF Put, Pending
  <2>6. Unplaced => Unplaced' BY <1>1, <2>1, <2>2 DEF Unplaced
  <2>7. Recorded => Recorded' BY <1>1, <2>1 DEF Recorded
  <2> QED BY <1>0, <1>1, <2>1, <2>4, <2>5, <2>6, <2>7 DEF ToldKeysGood
<1>2. CASE Put("access", fdb', FALSE) /\ UNCHANGED <<present, told>> /\ fdb'.access = fdb.access
  <2>1. Pending("access")' /\ ~FanoutLeft' BY <1>n, <1>2 DEF Put, Pending, FanoutLeft
  <2> QED BY <1>0, <1>2, <2>1 DEF ToldKeysGood
<1>3. CASE ~present' /\ (\/ Removed("access", fdb') /\ told' = Gone
                         \/ fdb'.work["access"] # NoRecord /\ FanoutLeft' /\ told' = told)
  BY <1>3 DEF ToldKeysGood, Pending
<1>4. ASSUME NEW w \in Workers, ExclusionScheduled(fdb'), Busy(w), worker[w].pc = "exclude", worker[w].gen = fdb.gen,
             UNCHANGED <<present, grant, used, told>>
      PROVE  ToldKeysGood'
  <2>1. SliceAccessGood(worker[w]) BY DEF IndexInv, SlicesGood, SliceIndexGood
  <2>2. grant = NoParent BY <1>0, <1>4, <2>1 DEF SliceAccessGood
  <2>3. ~Pending("live")' /\ ~Pending("access")' /\ fdb'.excluded /\ fdb'.access.keys = NoKeys
    BY <1>4 DEF ExclusionScheduled, Removed, Pending
  <2>4. Unplaced' BY <1>4, <2>2, <2>3, ReachedNone DEF Unplaced
  <2> QED BY <1>0, <1>4, <2>3, <2>4 DEF ToldKeysGood
<1>5. RevisionScheduled(fdb') \/ AccessScheduled(fdb') => fdb'.access = fdb.access BY DEF RevisionScheduled, AccessScheduled
<1> QED BY <1>1, <1>2, <1>3, <1>4, <1>5 DEF Schedules

LEMMA LiveWorkTold ==
    ASSUME TypeInv, IndexInv, ToldInv, NEW w \in Workers, Registers(w) \/ CompletesPage(w) \/ Refreshes(w)
    PROVE  ToldKeysGood'
<1> DEFINE me == worker[w]
<1>0. ToldKeysGood BY DEF ToldInv
<1>1. Verified(w) /\ Busy(w) /\ Still /\ Kept(fdb') /\ UNCHANGED told
  BY DEF Registers, CompletesPage, Refreshes, PageVerified, Busy
<1>2. UNCHANGED <<told, grant, present>> /\ fdb'.gen = fdb.gen /\ fdb'.rev = fdb.rev BY <1>1 DEF Still, Kept
<1>3. CASE Registers(w)
  <2>1. \A c \in Classes : KeptClass(c, fdb') BY <1>3 DEF Registers
  <2>2. KeptClass("access", fdb') /\ KeptClass("live", fdb') /\ fdb'.excluded = fdb.excluded BY <1>3, <2>1 DEF Registers, Classes
  <2>3. Unplaced /\ present => Unplaced' BY <1>2, <2>2, UnplacedFrame
  <2> QED BY <1>0, <1>2, <1>3, <2>2, <2>3, ToldFrame, RegistersAccess
<1>4. CASE CompletesPage(w)
  <2>1. me.pc = "complete" /\ me.class = "live" /\ KeptClass("access", fdb') /\ fdb'.access = fdb.access BY <1>4 DEF CompletesPage
  <2>2. me.keys \in Grants BY <1>1, <2>1, SliceFacts DEF PageAtHand, PagePCs
  <2>3. present /\ me.gen = fdb.gen BY <1>1, <2>1, VerifiedIs
  <2>4. SliceAccessGood(me) BY DEF IndexInv, SlicesGood, SliceIndexGood
  <2>5. me.keys = grant BY <1>1, <2>1, <2>3, <2>4 DEF SliceAccessGood, PagePCs, Busy
  <2>6. ~Unplaced BY <2>2, <2>5, Constants DEF Unplaced
  <2> QED BY <1>0, <1>2, <2>1, <2>6, ToldFrame
<1>5. CASE Refreshes(w)
  <2>1. me.pc = "refresh" /\ KeptClass("access", fdb') /\ fdb'.access = fdb.access /\ Progress(fdb, "live").phase = "refresh"
    BY <1>5 DEF Refreshes
  <2>2. me.class = "live" BY <1>1, <2>1, SliceFacts DEF PCGood
  <2>3. Pending("live") BY <1>1, <2>2, VerifiedIs
  <2>4. fdb.cursor["live"].rev = fdb.work["live"].rev /\ fdb.cursor["live"].phase = "refresh" BY <2>1 DEF Progress, NoCursor
  <2>5. Reached = Pages BY <2>3, <2>4 DEF Reached, TypeInv, KeysGood, LiveCursorGood
  <2>6. ~Unplaced BY <2>5, Constants DEF Unplaced
  <2> QED BY <1>0, <1>2, <2>1, <2>6, ToldFrame
<1> QED BY <1>3, <1>4, <1>5

LEMMA AccessWorkTold ==
    ASSUME TypeInv, IndexInv, ToldInv, NEW w \in Workers, AccessSteps(w)
    PROVE  ToldKeysGood'
<1> DEFINE me == worker[w]
<1>0. ToldKeysGood /\ fdb.access \in AccessStates /\ told \in Keys \cup {Gone} /\ grant \in Grants \cup {NoParent}
  BY DEF ToldInv, TypeInv, TypeOK, SearchKeys
<1>1. Verified(w) /\ Busy(w) /\ Still /\ Kept(fdb')
  BY DEF AccessSteps, BeginsAccess, SkipsPages, NothingToDo, ChecksPoint, CompletesPages, TellsDependents, Busy
<1>2. me.class = "access"
  BY <1>1, SliceFacts DEF AccessSteps, BeginsAccess, SkipsPages, NothingToDo, ChecksPoint, CompletesPages, TellsDependents, PCGood
<1>3. Pending("access") /\ me.gen = fdb.gen /\ (me.deleted <=> ~present) BY <1>1, <1>2, AccessSlice
<1>4. me.pc \in AccessPCs => present /\ me.keys = grant /\ me.keys \in Grants BY <1>1, <1>2, AccessSlice
<1>5. UNCHANGED <<grant, present>> /\ fdb'.gen = fdb.gen BY <1>1 DEF Still, Kept
<1>6. \A doc, phase : AccessCursor(me, doc, phase).gen = me.gen /\ AccessCursor(me, doc, phase).phase = phase BY DEF AccessCursor
<1>7. \A k : Pointed("access", k, fdb') => Pending("access")' /\ fdb'.cursor["access"] = k BY <1>3 DEF Pointed, Pending
<1>8. Removed("access", fdb') => ~Pending("access")' BY DEF Removed, Pending
<1>9. CASE BeginsAccess(w)
  <2> DEFINE rewrite == ~PagesStored(fdb.access, me.keys)
  <2>1. /\ me.pc = "begin" /\ UNCHANGED told /\ fdb'.access.keys = me.keys /\ fdb'.access.pages = rewrite /\ fdb'.access.dependents
        /\ Pointed("access", AccessCursor(me, NoDocument, IF rewrite THEN "pages" ELSE "dependents"), fdb')
    BY <1>9 DEF BeginsAccess
  <2>2. present /\ me.keys = grant BY <1>4, <2>1 DEF AccessPCs
  <2>3. Pending("access")' /\ (FanoutLeft' => ~rewrite) BY <1>6, <1>7, <2>1 DEF FanoutLeft
  <2>4. FanoutLeft' => Recorded' BY <1>5, <2>1, <2>2, <2>3 DEF Recorded
  <2> HIDE DEF rewrite
  <2> QED BY <1>0, <1>5, <2>1, <2>2, <2>3, <2>4 DEF ToldKeysGood
<1>10. CASE SkipsPages(w)
  <2>1. /\ me.pc = "begin" /\ UNCHANGED told /\ fdb'.access = fdb.access /\ fdb.access.keys = me.keys /\ ~fdb.access.pages
        /\ Pointed("access", AccessCursor(me, NoDocument, "dependents"), fdb')
    BY <1>10 DEF SkipsPages
  <2>2. present /\ me.keys = grant BY <1>4, <2>1 DEF AccessPCs
  <2>3. Pending("access")' /\ Recorded' BY <1>5, <1>7, <2>1, <2>2 DEF Recorded
  <2> QED BY <1>0, <1>5, <2>1, <2>2, <2>3 DEF ToldKeysGood
<1>11. CASE NothingToDo(w)
  <2>1. /\ me.pc = "begin" /\ UNCHANGED told /\ fdb'.access = fdb.access /\ fdb.access.keys = me.keys /\ ~fdb.access.pages
        /\ ~fdb.access.dependents /\ Removed("access", fdb')
    BY <1>11 DEF NothingToDo
  <2>2. present /\ me.keys = grant BY <1>4, <2>1 DEF AccessPCs
  <2>3. ~Pending("access")' /\ Recorded' /\ ~fdb'.access.dependents BY <1>5, <1>8, <2>1, <2>2 DEF Recorded
  <2> QED BY <1>0, <1>5, <2>1, <2>2, <2>3 DEF ToldKeysGood
<1>12. CASE ChecksPoint(w)
  <2>1. /\ me.pc = "complete" /\ UNCHANGED told /\ fdb'.access = fdb.access
        /\ Pointed("access", AccessCursor(me, me.doc, "pages"), fdb')
    BY <1>12 DEF ChecksPoint
  <2>2. present BY <1>4, <2>1 DEF AccessPCs
  <2>3. Pending("access")' /\ ~FanoutLeft' BY <1>6, <1>7, <2>1 DEF FanoutLeft
  <2> QED BY <1>0, <1>5, <2>1, <2>2, <2>3 DEF ToldKeysGood
<1>13. CASE CompletesPages(w)
  <2>1. /\ me.pc = "complete" /\ UNCHANGED told /\ fdb.access.keys = me.keys
        /\ fdb'.access = [fdb.access EXCEPT !.pages = FALSE]
        /\ fdb.access.dependents \/ Removed("access", fdb')
        /\ ~fdb.access.dependents \/ Pointed("access", AccessCursor(me, NoDocument, "dependents"), fdb')
    BY <1>13 DEF CompletesPages
  <2>2. present /\ me.keys = grant BY <1>4, <2>1 DEF AccessPCs
  <2>3. fdb'.access.keys = me.keys /\ fdb'.access.pages = FALSE /\ fdb'.access.dependents = fdb.access.dependents
    BY <1>0, <2>1 DEF AccessStates
  <2>4. Recorded' BY <1>5, <2>2, <2>3 DEF Recorded
  <2>5. ~Pending("access")' => ~fdb'.access.dependents BY <1>7, <2>1, <2>3
  <2> QED BY <1>0, <1>5, <2>1, <2>2, <2>3, <2>4, <2>5 DEF ToldKeysGood
<1>14. CASE TellsDependents(w)
  <2>1. /\ me.pc = "dependents" /\ ~me.deleted /\ told' = fdb.access.keys /\ Removed("access", fdb')
        /\ fdb'.access = [fdb.access EXCEPT !.dependents = FALSE]
    BY <1>14 DEF TellsDependents
  <2>2. present BY <1>3, <2>1
  <2>3. Recorded BY <1>3, <2>1, <2>2 DEF ToldInv, SlicesToldGood, SliceToldGood
  <2>4. fdb'.access.keys = fdb.access.keys /\ fdb'.access.pages = fdb.access.pages /\ fdb'.access.dependents = FALSE
    BY <1>0, <2>1 DEF AccessStates
  <2>5. Recorded' BY <1>5, <2>3, <2>4 DEF Recorded
  <2>6. fdb.access.keys # Gone BY <1>0, Constants DEF AccessStates, Keys
  <2>7. ~Pending("access")' BY <1>8, <2>1
  <2> QED BY <1>0, <1>5, <2>1, <2>2, <2>4, <2>5, <2>6, <2>7 DEF ToldKeysGood
<1> QED BY <1>9, <1>10, <1>11, <1>12, <1>13, <1>14 DEF AccessSteps

LEMMA EndingTold ==
    ASSUME TypeInv, ToldInv, NEW w \in Workers, FinishesFanout(w) \/ Retires(w) \/ FinishesCleanup(w)
    PROVE  ToldKeysGood'
<1>0. ToldKeysGood /\ "access" \in Classes /\ "live" \in Classes BY DEF ToldInv, Classes
<1>1. Still /\ Verified(w) /\ Busy(w) BY DEF FinishesFanout, Retires, FinishesCleanup
<1>2. UNCHANGED <<grant, present>> BY <1>1 DEF Still
<1>3. CASE FinishesFanout(w)
  <2>1. worker[w].deleted /\ told' = Gone BY <1>3 DEF FinishesFanout
  <2>2. ~present BY <1>1, <2>1, VerifiedIs
  <2> QED BY <1>2, <2>1, <2>2 DEF ToldKeysGood
<1>4. ASSUME Kept(fdb'), fdb'.access = fdb.access, fdb'.excluded = fdb.excluded, KeptClass("access", fdb'), KeptClass("live", fdb'), UNCHANGED told
      PROVE  ToldKeysGood'
  <2>1. fdb'.gen = fdb.gen /\ fdb'.rev = fdb.rev BY <1>4 DEF Kept
  <2>2. Unplaced /\ present => Unplaced' BY <1>2, <1>4, <2>1, UnplacedFrame
  <2> QED BY <1>0, <1>2, <1>4, <2>1, <2>2, ToldFrame
<1>5. CASE Retires(w) BY <1>0, <1>4, <1>5 DEF Retires
<1>6. CASE FinishesCleanup(w)
  <2>1. worker[w].class = "cleanup" /\ UNCHANGED told BY <1>6 DEF FinishesCleanup
  <2>2. Pending("cleanup") BY <1>1, <2>1, VerifiedIs
  <2>3. RecordGood("cleanup") BY KeptCursors DEF Classes
  <2>4. CASE fdb.work["cleanup"].deleted /\ Finishes("cleanup", "access")
    <3>1. ~present BY <2>2, <2>3, <2>4 DEF RecordGood
    <3>2. told = Gone \/ Pending("access") BY <1>0, <3>1 DEF ToldKeysGood
    <3>3. "access" \in Classes \ {"cleanup"} BY <1>0
    <3>4. Pending("access") => Pending("access")' BY <2>4, <3>3 DEF Finishes, KeptClass, Pending
    <3> QED BY <1>2, <2>1, <3>1, <3>2, <3>4 DEF ToldKeysGood
  <2> QED BY <1>4, <1>6, <2>1, <2>4 DEF FinishesCleanup
<1> QED BY <1>3, <1>5, <1>6

LEMMA NextTold ==
    ASSUME TypeInv, TypeInv', IndexInv, Effect, ToldInv
    PROVE  ToldInv'
<1>0. ToldKeysGood BY DEF ToldInv
<1>1. SlicesToldGood' BY ToldSlices
<1>2. ASSUME UNCHANGED <<told, grant, present>>, fdb'.gen = fdb.gen, fdb'.rev = fdb.rev, fdb'.access = fdb.access, fdb'.excluded = fdb.excluded,
             fdb'.work = fdb.work, fdb'.cursor = fdb.cursor
      PROVE  ToldKeysGood'
  <2>1. KeptClass("access", fdb') /\ KeptClass("live", fdb') BY <1>2 DEF KeptClass
  <2>2. Unplaced /\ present => Unplaced' BY <1>2, <2>1, UnplacedFrame
  <2> QED BY <1>0, <1>2, <2>1, <2>2, ToldFrame
<1>3. ASSUME Quiet PROVE ToldKeysGood' BY <1>2, <1>3 DEF Quiet, SameKeys
<1>4. ASSUME NEW w \in Workers, NEW x \in Slices, Moves(w, x) PROVE ToldKeysGood' BY <1>2, <1>4 DEF Moves, SameKeys
<1>5. ASSUME NEW q, Written(q) PROVE ToldKeysGood' BY <1>2, <1>5 DEF Written
<1>6. ASSUME Schedules PROVE ToldKeysGood' BY <1>6, SchedulesTold
<1>7. ASSUME NEW w \in Workers, Progresses(w) PROVE ToldKeysGood'
  <2>1. CASE Registers(w) \/ CompletesPage(w) \/ Refreshes(w) BY <2>1, LiveWorkTold
  <2>2. CASE AccessSteps(w) BY <2>2, AccessWorkTold
  <2>3. CASE FinishesFanout(w) \/ Retires(w) \/ FinishesCleanup(w) BY <2>3, EndingTold
  <2> QED BY <1>7, <2>1, <2>2, <2>3 DEF Progresses, AccessSteps
<1>8. ToldKeysGood'
  <2>1. ASSUME NEW w \in Workers, Sends(w) PROVE ToldKeysGood' BY <1>5, <2>1 DEF Sends
  <2>2. ASSUME NEW q \in late, Arrives(q) PROVE ToldKeysGood' BY <1>5, <2>2 DEF Arrives
  <2> QED BY <1>3, <1>4, <1>6, <1>7, <2>1, <2>2 DEF Effect
<1> QED BY <1>1, <1>8 DEF ToldInv

LEMMA InitTold == ASSUME Init PROVE ToldInv
<1>1. /\ fdb.work["access"].gen = 2 /\ fdb.cursor["access"] = NoCursor /\ present = TRUE /\ fdb.gen = 2 /\ told = NoKeys
      /\ fdb.access = [NoAccess EXCEPT !.found = TRUE, !.tracked = TRUE]
  BY DEF Init, Classes
<1>2. Pending("access") /\ ~FanoutLeft BY <1>1 DEF Pending, NoRecord, FanoutLeft, NoCursor
<1>3. fdb.access.keys = NoKeys BY <1>1 DEF NoAccess
<1>4. ToldKeysGood BY <1>1, <1>2, <1>3, Constants DEF ToldKeysGood
<1>5. \A w \in Workers : worker[w].pc = "idle" BY DEF Init, Idle
<1>6. SlicesToldGood BY <1>5 DEF SlicesToldGood, SliceToldGood
<1> QED BY <1>4, <1>6 DEF ToldInv

LEMMA ToldHolds == Spec => [](TypeInv /\ IndexInv /\ ToldInv)
<1>1. Init => TypeInv /\ IndexInv /\ ToldInv BY InitTypes, InitIndex, InitTold
<1>2. TypeInv /\ IndexInv /\ ToldInv /\ [Next]_vars => TypeInv' /\ IndexInv' /\ ToldInv' BY Steps, NextIndex, NextTold
<1> QED BY <1>1, <1>2, PTL DEF Spec

LEMMA ToldGivesSettled == ASSUME TypeInv, ToldInv PROVE DependentsTold
<1> SUFFICES ASSUME Settled PROVE (present /\ ~fdb.excluded => told = grant) /\ (~present => told = Gone) BY DEF DependentsTold
<1>1. ~Pending("access") BY DEF Settled, Classes
<1>2. ~present => told = Gone BY <1>1 DEF ToldInv, ToldKeysGood
<1>3. ASSUME present, ~fdb.excluded PROVE told = grant
  <2>1. Recorded /\ ~fdb.access.dependents BY <1>1, <1>3 DEF ToldInv, ToldKeysGood, Unplaced
  <2>2. fdb.access.keys # NoKeys BY <2>1, Constants DEF Recorded, TypeInv, TypeOK
  <2> QED BY <1>3, <2>1, <2>2 DEF ToldInv, ToldKeysGood, Recorded
<1> QED BY <1>2, <1>3

\* When no work is pending, the dependents of a present node were scheduled after
\* its current access was recorded, those of a deleted node after its deletion.
THEOREM DependentsStayTold == Spec => []DependentsTold
<1>1. TypeInv /\ IndexInv /\ ToldInv => DependentsTold BY ToldGivesSettled
<1> QED BY <1>1, ToldHolds, PTL

-----------------------------------------------------------------------------
(* Access of the pages.  A done page is out of reach of older live writes. *)

Done(d) == d[1] = fdb.rev /\ d[2] < Reached
Fresh(d) == index[d].gen = fdb.gen

\* Nothing of generation g brings new content to page d once it is done.
Covers(d, g) == present /\ Done(d) => g <= index[d].gen

SliceLiveGood(x) ==
    x.class = "live" /\ x.pc \in {"probe", "send", "complete"} =>
        /\ Covers(x.doc, x.gen)
        /\ x.pc = "complete" => x.gen <= index[x.doc].gen

SlicesLiveGood == \A w \in Workers : SliceLiveGood(worker[w])
LateLiveGood == \A q \in late : q.class = "live" => Covers(q.doc, q.gen)

LiveInv == SlicesLiveGood /\ LateLiveGood

\* A page that becomes done was just written for the current generation.
LEMMA NewlyDone ==
    ASSUME TypeInv, TypeInv', IndexInv, Effect, LiveInv, NEW d \in Documents, present', Done(d)'
    PROVE  \/ present /\ Done(d)
           \/ present /\ Fresh(d) /\ Served(d) /\ fdb'.gen = fdb.gen /\ UNCHANGED <<index, grant, late>>
<1>1. CASE \A w \in Workers : ~CompletesPage(w)
  <2>1. Promises BY <1>1, NextPromises
  <2>2. d[2] \in Nat BY DocumentShape
  <2> QED BY <2>1, <2>2 DEF Promises, Done
<1>2. ASSUME NEW w \in Workers, CompletesPage(w)
      PROVE  \/ present /\ Done(d)
             \/ present /\ Fresh(d) /\ Served(d) /\ fdb'.gen = fdb.gen /\ UNCHANGED <<index, grant, late>>
  <2> DEFINE me == worker[w]
  <2>1. /\ present /\ me.gen = fdb.gen /\ me.doc \in Documents /\ Served(me.doc) /\ me.pc = "complete" /\ me.class = "live" /\ Still /\ Kept(fdb')
    BY <1>2, CompletedPage
  <2>2. d = me.doc \/ Done(d) BY <1>2, PageOrBefore DEF Done
  <2>3. me.gen <= index[me.doc].gen BY <2>1 DEF LiveInv, SlicesLiveGood, SliceLiveGood
  <2>4. index[me.doc].gen <= fdb.gen
    <3>1. fdb.gen > 0 BY <2>1 DEF TypeInv, KeysGood
    <3> QED BY <2>1, <3>1 DEF IndexInv, PagesGood, PageGood
  <2>5. Fresh(me.doc) BY <2>1, <2>3, <2>4, KeyNumbers, PageNumbers DEF Fresh, TypeInv
  <2> QED BY <2>1, <2>2, <2>5 DEF Still, Kept
<1> QED BY <1>1, <1>2

LEMMA CoversStays ==
    ASSUME TypeInv, TypeInv', IndexInv, Effect, LiveInv, NEW d \in Documents, NEW g \in Nat, fdb.gen > 0 => g <= fdb.gen, Covers(d, g)
    PROVE  Covers(d, g)'
<1> SUFFICES ASSUME present', Done(d)' PROVE g <= index'[d].gen BY DEF Covers
<1>1. index'[d].gen >= index[d].gen /\ index[d].gen \in Nat /\ index'[d].gen \in Nat
  <2>1. index' \in [Documents -> PageStates] BY DEF TypeInv, TypeOK
  <2>2. index'[d].gen \in Nat BY <2>1 DEF PageStates
  <2> QED BY <2>2, IndexRises, PageNumbers DEF TypeInv
<1>2. CASE present /\ Done(d) BY <1>1, <1>2 DEF Covers
<1>3. CASE present /\ Fresh(d)
  <2>1. fdb.gen > 0 BY <1>3 DEF TypeInv, KeysGood
  <2> QED BY <1>1, <1>3, <2>1, KeyNumbers DEF Fresh
<1> QED BY <1>2, <1>3, NewlyDone

LEMMA SlicesLiveNext ==
    ASSUME worker' \in [Workers -> Slices], \A w \in Workers : \A y \in Slices : y = worker'[w] => SliceLiveGood(y)'
    PROVE  SlicesLiveGood'
<1> SUFFICES ASSUME NEW w \in Workers PROVE SliceLiveGood(worker[w])' BY DEF SlicesLiveGood
<1>1. PICK y \in Slices : y = worker'[w] OBVIOUS
<1>2. SliceLiveGood(y)' BY <1>1
<1> QED BY <1>1, <1>2 DEF SliceLiveGood, Covers, Done

\* A slice y that works on the page of me, and me had it covered.
LEMMA SliceLiveStays ==
    ASSUME TypeInv, TypeInv', IndexInv, Effect, LiveInv, NEW y \in Slices, y.class = "live", y.doc \in Documents,
           fdb.gen > 0 => y.gen <= fdb.gen, Covers(y.doc, y.gen),
           y.pc = "complete" => y.gen <= index[y.doc].gen \/ y.gen <= index'[y.doc].gen
    PROVE  SliceLiveGood(y)'
<1>1. y.gen \in Nat BY DEF Slices
<1>2. Covers(y.doc, y.gen)' BY <1>1, CoversStays
<1>3. y.pc = "complete" => y.gen <= index'[y.doc].gen
  <2>1. index' \in [Documents -> PageStates] BY DEF TypeInv, TypeOK
  <2>2. index'[y.doc].gen \in Nat BY <2>1 DEF PageStates
  <2>3. index'[y.doc].gen >= index[y.doc].gen /\ index[y.doc].gen \in Nat BY IndexRises, PageNumbers DEF TypeInv
  <2> QED BY <1>1, <2>2, <2>3
<1> QED BY <1>2, <1>3 DEF SliceLiveGood

LEMMA AdvancesLive ==
    ASSUME TypeInv, IndexInv, LiveInv, NEW w \in Workers, NEW x \in Slices, Advances(w, x), x.class = "live", x.pc \in {"probe", "send", "complete"}
    PROVE  /\ x.doc \in Documents /\ (fdb.gen > 0 => x.gen <= fdb.gen) /\ Covers(x.doc, x.gen)
           /\ x.pc = "complete" => x.gen <= index[x.doc].gen
<1> DEFINE me == worker[w]
<1>1. me \in Slices /\ SliceGood(me) /\ SliceLiveGood(me) BY DEF TypeInv, TypeOK, WorkersGood, LiveInv, SlicesLiveGood
<1>2. ASSUME me.pc \in {"probe", "send"}, x.class = me.class, x.gen = me.gen, x.doc = me.doc, x.pc = "complete" => x.gen <= index[x.doc].gen
      PROVE  /\ x.doc \in Documents /\ (fdb.gen > 0 => x.gen <= fdb.gen) /\ Covers(x.doc, x.gen)
             /\ x.pc = "complete" => x.gen <= index[x.doc].gen
  <2>1. me.doc \in Documents /\ ItemGood(me) BY <1>1, <1>2, SliceIs
  <2> QED BY <1>1, <1>2, <2>1 DEF ItemGood, SliceLiveGood
<1>3. CASE me.pc = "probe" /\ x = Armed(me)
  <2>1. x.pc = "send" /\ x.class = me.class /\ x.gen = me.gen /\ x.doc = me.doc BY <1>1, <1>3 DEF Armed, Slices
  <2> QED BY <1>2, <1>3, <2>1
<1>4. CASE me.pc = "probe" /\ Decision(w) = "skip" /\ x = At(me, "complete")
  <2>1. x.class = me.class /\ x.gen = me.gen /\ x.doc = me.doc BY <1>1, <1>4 DEF At, Slices
  <2>2. me.doc \in Documents BY <1>1, <1>4, SliceIs
  <2>3. index[me.doc].gen = me.gen /\ index[me.doc].gen \in Nat BY <1>4, <2>1, <2>2, DecisionIs DEF TypeInv
  <2> QED BY <1>2, <1>4, <2>1, <2>3
<1>5. CASE me.pc = "send" /\ x = At(me, "probe")
  <2>1. x.pc = "probe" /\ x.class = me.class /\ x.gen = me.gen /\ x.doc = me.doc BY <1>1, <1>5 DEF At, Slices
  <2> QED BY <1>2, <1>5, <2>1
<1>6. ASSUME me.pc \in {"documents", "update"}, x.class = me.class PROVE FALSE
  BY <1>1, <1>6 DEF SliceGood, PCGood
<1>7. x = At(me, "complete") \/ x = At(me, "documents") => x.class = me.class BY <1>1 DEF At, Slices
<1>8. x = NoneLeft(me) => x.class = me.class BY <1>1 DEF NoneLeft, Slices
<1>9. \A d, last : x = Takes(me, d, last) => x.class = me.class BY <1>1 DEF Takes, Slices
<1>10. x # At(me, "exclude") /\ x # At(me, "documents") BY <1>1 DEF At, Slices
<1>11. x # Reading(me) /\ x # Compiled(me) BY <1>1 DEF Reading, Compiled, Slices
<1>12. ASSUME NEW c \in Classes, Pending(c), x = Claimed(w, c) PROVE FALSE BY <1>12, ClaimedIs
<1> QED BY <1>3, <1>4, <1>5, <1>6, <1>7, <1>8, <1>9, <1>10, <1>11, <1>12 DEF Advances

LEMMA LiveSlices ==
    ASSUME TypeInv, TypeInv', IndexInv, Effect, LiveInv
    PROVE  SlicesLiveGood'
<1>0. worker' \in [Workers -> Slices] /\ worker \in [Workers -> Slices] BY DEF TypeInv, TypeOK
<1> SUFFICES ASSUME NEW v \in Workers, NEW y \in Slices, y = worker'[v], y.class = "live", y.pc \in {"probe", "send", "complete"}
             PROVE  SliceLiveGood(y)'
  BY <1>0, SlicesLiveNext DEF SliceLiveGood
<1> DEFINE me == worker[v]
<1>1. SliceStep(v, y) BY SliceSteps
<1>2. me \in Slices /\ SliceGood(me) /\ SliceLiveGood(me) BY DEF TypeInv, TypeOK, WorkersGood, LiveInv, SlicesLiveGood
<1>3. CASE y = me
  <2>1. y.doc \in Documents /\ ItemGood(y)
    <3>1. y.pc # "idle" /\ y.pc \in PagePCs BY DEF PagePCs
    <3> QED BY <1>2, <1>3, <3>1, SliceIs
  <2> QED BY <1>2, <1>3, <2>1, SliceLiveStays DEF ItemGood, SliceLiveGood
<1>4. CASE Advances(v, y) BY <1>4, AdvancesLive, SliceLiveStays
<1>5. CASE Sends(v) /\ y = At(me, "complete")
  <2>1. v \in Sending /\ me.pc \in {"send", "update"} /\ Written(Request(v)) BY <1>5 DEF Sends, Sending
  <2>2. y.class = me.class /\ y.gen = me.gen /\ y.doc = me.doc /\ y.gen \in Nat BY <1>2, <1>5 DEF At, Slices
  <2>3. me.pc = "send" BY <1>2, <2>1, <2>2 DEF SliceGood, PCGood
  <2>4. me.doc \in Documents /\ ItemGood(me) BY <1>2, <2>3, SliceIs
  <2>5. Request(v) \in Requests /\ RequestGood(Request(v)) /\ Request(v).doc = me.doc /\ Request(v).gen = me.gen
    BY <2>1, RequestIs, AbandonedGood
  <2>6. index'[me.doc].gen = me.gen BY <2>1, <2>4, <2>5, WrittenPage
  <2> QED BY <1>2, <2>2, <2>3, <2>4, <2>6, SliceLiveStays DEF ItemGood, SliceLiveGood
<1>6. CASE Registers(v) /\ y = Registered(me)
  <2>1. me.pc = "register" /\ Busy(v) /\ Verified(v) /\ Progress(fdb, "live").ord = me.ord BY <1>6 DEF Registers, PageVerified, Busy
  <2>2. y.pc = "probe" /\ y.class = me.class /\ y.gen = me.gen /\ y.doc = me.doc BY <1>2, <1>6 DEF Registered, Slices
  <2>3. me.doc \in Documents /\ ItemGood(me) /\ me.doc = <<me.rev, me.ord>> /\ me.ord \in 0..Pages
    <3>1. me.pc # "idle" /\ me.pc \in PagePCs BY <2>1 DEF PagePCs
    <3>2. me.doc \in Documents /\ ItemGood(me) /\ PageAtHand(me) BY <1>2, <2>2, <3>1, SliceIs
    <3> QED BY <1>2, <2>2, <3>1, <3>2 DEF PageAtHand, Slices
  <2>4. Pending("live") BY <2>1, <2>2, VerifiedIs
  <2>5. Reached = me.ord BY <2>1, <2>4 DEF Reached, Progress, NoCursor
  <2>6. ~Done(me.doc) BY <2>3, <2>5, Constants DEF Done
  <2>7. Covers(y.doc, y.gen) BY <2>2, <2>6 DEF Covers
  <2> QED BY <2>2, <2>3, <2>7, SliceLiveStays DEF ItemGood
<1>7. CASE y.pc \in {"idle", "yield"} BY <1>7
<1>8. CASE y = NextPage(me)
  <2>1. y.pc \in {"refresh", "content"} BY <1>2, <1>8 DEF NextPage, Slices
  <2> QED BY <2>1
<1>9. CASE y = Begun(me, BegunPC(me))
  <2>1. y.pc = BegunPC(me) BY <1>2, <1>9 DEF Begun, Slices
  <2> QED BY <2>1 DEF BegunPC
<1>10. CASE y = At(me, "dependents") BY <1>2, <1>10 DEF At, Slices
<1> QED BY <1>1, <1>3, <1>4, <1>5, <1>6, <1>7, <1>8, <1>9, <1>10 DEF SliceStep

\* A request is late because a worker gave it up, or it was late before.
LEMMA LateFrom == ASSUME TypeInv, Effect PROVE late' \subseteq late \cup {Request(w) : w \in Sending}
<1>1. CASE Quiet BY <1>1 DEF Quiet
<1>2. ASSUME NEW w \in Workers, NEW x \in Slices, Moves(w, x) PROVE late' = late BY <1>2 DEF Moves
<1>3. ASSUME NEW q, Written(q) PROVE late' \subseteq late BY <1>3 DEF Written
<1>4. CASE Schedules BY <1>4 DEF Schedules
<1>5. ASSUME NEW w \in Workers, Progresses(w) PROVE late' = late
  BY <1>5 DEF Progresses, Registers, CompletesPage, Refreshes, BeginsAccess, SkipsPages, NothingToDo, ChecksPoint,
              CompletesPages, TellsDependents, FinishesFanout, Retires, FinishesCleanup, Still
<1>6. ASSUME NEW w \in Workers, Sends(w) PROVE late' \subseteq late BY <1>3, <1>6 DEF Sends
<1>7. ASSUME NEW q \in late, Arrives(q) PROVE late' \subseteq late BY <1>3, <1>7 DEF Arrives
<1> QED BY <1>1, <1>2, <1>4, <1>5, <1>6, <1>7 DEF Effect

LEMMA NextLive ==
    ASSUME TypeInv, TypeInv', IndexInv, Effect, LiveInv
    PROVE  LiveInv'
<1>1. SlicesLiveGood' BY LiveSlices
<1>2. LateLiveGood'
  <2> SUFFICES ASSUME NEW q \in late', q.class = "live" PROVE Covers(q.doc, q.gen)' BY DEF LateLiveGood
  <2>1. q \in late \cup {Request(w) : w \in Sending} BY LateFrom
  <2>2. q \in Requests /\ RequestGood(q) BY <2>1, AbandonedGood
  <2>3. q.doc \in Documents /\ q.gen \in Nat /\ (fdb.gen > 0 => q.gen <= fdb.gen) BY <2>2 DEF Requests, RequestGood
  <2>4. CASE q \in late BY <2>3, <2>4, CoversStays DEF LiveInv, LateLiveGood
  <2>5. ASSUME NEW w \in Sending, q = Request(w) PROVE Covers(q.doc, q.gen)'
    <3>1. w \in Workers /\ worker[w].pc \in {"send", "update"} /\ worker[w] \in Slices /\ SliceGood(worker[w])
      BY DEF Sending, TypeInv, TypeOK, WorkersGood
    <3>2. worker[w].doc = q.doc /\ worker[w].gen = q.gen /\ worker[w].class = "live" BY <2>5, RequestIs
    <3>3. worker[w].pc = "send" BY <3>1, <3>2 DEF SliceGood, PCGood
    <3>4. SliceLiveGood(worker[w]) BY <3>1 DEF LiveInv, SlicesLiveGood
    <3>5. Covers(q.doc, q.gen) BY <3>2, <3>3, <3>4 DEF SliceLiveGood
    <3> QED BY <2>3, <3>5, CoversStays
  <2> QED BY <2>1, <2>4, <2>5
<1> QED BY <1>1, <1>2 DEF LiveInv

-----------------------------------------------------------------------------
(* The access keys of done pages, for a node that does not return to a     *)
(* grant it left.                                                          *)

\* No older access can still reach page d.
NoStray(d) ==
    /\ \A w \in Workers : worker[w].class = "access" /\ worker[w].pc \in AccessPCs /\ worker[w].keys # grant
                            => worker[w].gen <= index[d].gen
    /\ \A q \in late : q.class = "access" /\ q.doc = d /\ q.keys # grant => q.gen <= index[d].gen

GoodPage(d) == index[d].keys = grant /\ NoStray(d)
AllGood == \A d \in Documents : Done(d) => GoodPage(d)

\* A page of the current generation is good: nothing under way is newer.
LEMMA FreshGood ==
    ASSUME TypeInv, IndexInv, present, NEW d \in Documents, Served(d), Fresh(d)
    PROVE  GoodPage(d)
<1>0. fdb.gen > 0 BY DEF TypeInv, KeysGood
<1>1. index[d].keys = grant BY DEF IndexInv, PagesGood, PageGood, Fresh
<1>2. ASSUME NEW w \in Workers, worker[w].pc \in AccessPCs PROVE worker[w].gen <= index[d].gen
  <2>1. worker[w] \in Slices /\ SliceGood(worker[w]) /\ worker[w].pc # "idle" BY <1>2 DEF TypeInv, TypeOK, WorkersGood, AccessPCs
  <2> QED BY <1>0, <2>1 DEF SliceGood, ItemGood, Fresh
<1>3. ASSUME NEW q \in late PROVE q.gen <= index[d].gen BY <1>0 DEF IndexInv, LateGood, RequestGood, Fresh
<1> QED BY <1>1, <1>2, <1>3 DEF GoodPage, NoStray

\* An access slice has its keys from its compilation.
LEMMA StraySlice ==
    ASSUME TypeInv, TypeInv', Effect, NEW v \in Workers, NEW y \in Slices, y = worker'[v], y.class = "access", y.pc \in AccessPCs
    PROVE  \/ y.keys = grant
           \/ worker[v].class = "access" /\ worker[v].pc \in AccessPCs /\ worker[v].keys = y.keys /\ worker[v].gen = y.gen
<1> DEFINE me == worker[v]
           From == me.class = "access" /\ me.pc \in AccessPCs /\ me.keys = y.keys /\ me.gen = y.gen
<1> SUFFICES y.keys = grant \/ From OBVIOUS
<1>1. SliceStep(v, y) BY SliceSteps
<1>2. me \in Slices /\ SliceGood(me) BY DEF TypeInv, TypeOK, WorkersGood
<1>3. CASE y = me BY <1>3
<1>4. ASSUME me.pc \in AccessPCs, y.class = me.class, y.keys = me.keys, y.gen = me.gen PROVE From BY <1>4
<1>5. CASE Advances(v, y) /\ Moves(v, y)
  <2>1. y = Compiled(me) => y.keys = grant BY <1>2 DEF Compiled, Slices
  <2>2. \A pc \in {"complete", "documents"} : y = At(me, pc) => y.class = me.class /\ y.keys = me.keys /\ y.gen = me.gen
    BY <1>2 DEF At, Slices
  <2>3. y = NoneLeft(me) => y.class = me.class /\ y.keys = me.keys /\ y.gen = me.gen BY <1>2 DEF NoneLeft, Slices
  <2>4. \A d, last : y = Takes(me, d, last) => y.class = me.class /\ y.keys = me.keys /\ y.gen = me.gen BY <1>2 DEF Takes, Slices
  <2>5. me.pc \in {"update", "documents", "begin"} => me.pc \in AccessPCs BY DEF AccessPCs
  <2>6. \A pc \in {"exclude", "probe"} : y # At(me, pc) BY <1>2 DEF At, Slices, AccessPCs
  <2>7. y # Reading(me) /\ y # Armed(me) BY <1>2 DEF Reading, Armed, Slices, AccessPCs
  <2>8. ~(me.pc = "probe" /\ y = At(me, "complete")) BY <1>2, <2>2 DEF SliceGood, PCGood
  <2>9. ASSUME NEW c \in Classes, Pending(c), y = Claimed(v, c) PROVE FALSE
    <3>1. y.pc = "documents" /\ y.class = c BY <2>9, ClaimedIs DEF AccessPCs
    <3>2. y.pc = FirstStep(c, Progress(fdb, c).phase) BY <2>9, ClaimedIs
    <3> QED BY <3>1, <3>2 DEF FirstStep
  <2> HIDE DEF From
  <2> QED BY <1>4, <1>5, <2>1, <2>2, <2>3, <2>4, <2>5, <2>6, <2>7, <2>8, <2>9 DEF Advances
<1>6. CASE Sends(v) /\ y = At(me, "complete")
  <2>1. me.pc \in {"send", "update"} BY <1>6 DEF Sends, Sending
  <2>2. y.class = me.class /\ y.keys = me.keys /\ y.gen = me.gen BY <1>2, <1>6 DEF At, Slices
  <2>3. me.pc = "update" BY <1>2, <2>1, <2>2 DEF SliceGood, PCGood
  <2> QED BY <2>2, <2>3 DEF AccessPCs
<1>7. CASE BeginsAccess(v) /\ y = Begun(me, BegunPC(me))
  <2>1. me.pc = "begin" BY <1>7 DEF BeginsAccess
  <2>2. y.class = me.class /\ y.keys = me.keys /\ y.gen = me.gen BY <1>2, <1>7 DEF Begun, Slices
  <2> QED BY <2>1, <2>2 DEF AccessPCs
<1>8. CASE y.pc \in {"idle", "yield"} BY <1>8 DEF AccessPCs
<1>9. CASE y = Registered(me) BY <1>2, <1>9 DEF Registered, Slices, AccessPCs
<1>10. CASE CompletesPage(v) /\ y = NextPage(me)
  <2>1. y.pc \in {"refresh", "content"} BY <1>2, <1>10 DEF NextPage, Slices
  <2> QED BY <2>1 DEF AccessPCs
<1>11. CASE y = At(me, "dependents") BY <1>2, <1>11 DEF At, Slices, AccessPCs
<1> HIDE DEF From
<1> QED BY <1>1, <1>3, <1>5, <1>6, <1>7, <1>8, <1>9, <1>10, <1>11 DEF SliceStep, From

\* A done page takes no content, no retirement and no older access.
LEMMA WrittenKeys ==
    ASSUME TypeInv, IndexInv, NEW q \in Requests, RequestGood(q), Written(q), q.class = "live" => Covers(q.doc, q.gen),
           NEW d \in Documents, present, Done(d), index[d].keys = grant,
           q.class = "access" /\ q.doc = d /\ q.keys # grant => q.gen <= index[d].gen
    PROVE  index'[d].keys = grant
<1>1. Accepts(q) /\ index' = Stored(q) BY DEF Written
<1>2. CASE q.doc # d BY <1>1, <1>2 DEF Stored, TypeInv, TypeOK
<1>3. CASE q.doc = d
  <2>1. q.class \in Classes /\ q.gen \in Nat /\ index[d].gen \in Nat /\ d[1] \in Nat /\ fdb.rev \in Nat
    BY PageNumbers, KeyNumbers DEF Requests, TypeInv
  <2>2. CASE q.class = "live"
    <3>1. index[d].gen < q.gen BY <1>1, <1>3, <2>2 DEF Accepts, RequestGood
    <3>2. q.gen <= index[d].gen BY <1>3, <2>2 DEF Covers
    <3> QED BY <2>1, <3>1, <3>2
  <2>3. CASE q.class = "cleanup" BY <1>3, <2>1, <2>3 DEF RequestGood, Done
  <2>4. CASE q.class = "access"
    <3>1. index[d].gen < q.gen BY <1>1, <1>3, <2>4 DEF Accepts
    <3>2. q.keys = grant BY <1>3, <2>1, <2>4, <3>1
    <3>3. index'[d].keys = q.keys BY <1>3, <2>4, WrittenPage
    <3> QED BY <3>2, <3>3
  <2> QED BY <2>1, <2>2, <2>3, <2>4 DEF Classes
<1> QED BY <1>2, <1>3

LEMMA IndexFrom ==
    ASSUME TypeInv, Effect
    PROVE  \/ UNCHANGED index
           \/ \E q \in late \cup {Request(w) : w \in Sending} : Written(q)
<1>1. CASE Quiet \/ Schedules BY <1>1 DEF Quiet, Schedules
<1>2. ASSUME NEW w \in Workers, NEW x \in Slices, Moves(w, x) PROVE UNCHANGED index BY <1>2 DEF Moves
<1>3. ASSUME NEW w \in Workers, Progresses(w) PROVE UNCHANGED index
  BY <1>3 DEF Progresses, Registers, CompletesPage, Refreshes, BeginsAccess, SkipsPages, NothingToDo, ChecksPoint,
              CompletesPages, TellsDependents, FinishesFanout, Retires, FinishesCleanup, Still
<1>4. ASSUME NEW w \in Workers, Sends(w) PROVE \E q \in late \cup {Request(v) : v \in Sending} : Written(q)
  BY <1>4 DEF Sends
<1>5. ASSUME NEW q \in late, Arrives(q) PROVE Written(q) BY <1>5 DEF Arrives
<1> QED BY <1>1, <1>2, <1>3, <1>4, <1>5 DEF Effect

\* What a request on its way is to a good page.
LEMMA RequestStray ==
    ASSUME TypeInv, LiveInv, NEW d \in Documents, NoStray(d), NEW q \in late \cup {Request(w) : w \in Sending}
    PROVE  /\ q.class = "live" => Covers(q.doc, q.gen)
           /\ q.class = "access" /\ q.doc = d /\ q.keys # grant => q.gen <= index[d].gen
<1>1. CASE q \in late BY <1>1 DEF LiveInv, LateLiveGood, NoStray
<1>2. ASSUME NEW w \in Sending, q = Request(w)
      PROVE  /\ q.class = "live" => Covers(q.doc, q.gen)
             /\ q.class = "access" /\ q.doc = d /\ q.keys # grant => q.gen <= index[d].gen
  <2>1. w \in Workers /\ worker[w].pc \in {"send", "update"} /\ SliceGood(worker[w]) BY DEF Sending, TypeInv, WorkersGood
  <2>2. q.doc = worker[w].doc /\ q.class = worker[w].class /\ q.gen = worker[w].gen /\ q.keys = worker[w].keys BY <1>2, RequestIs
  <2>3. q.class = "live" => worker[w].pc = "send" BY <2>1, <2>2 DEF SliceGood, PCGood
  <2>4. q.class = "access" => worker[w].pc = "update" BY <2>1, <2>2 DEF SliceGood, PCGood
  <2>5. SliceLiveGood(worker[w]) BY <2>1 DEF LiveInv, SlicesLiveGood
  <2>6. q.class = "live" => Covers(q.doc, q.gen) BY <2>2, <2>3, <2>5 DEF SliceLiveGood
  <2> QED BY <2>1, <2>2, <2>4, <2>6 DEF NoStray, AccessPCs
<1> QED BY <1>1, <1>2

LEMMA GoodStays ==
    ASSUME TypeInv, TypeInv', IndexInv, Effect, LiveInv, grant' = grant, NEW d \in Documents, present, GoodPage(d),
           Done(d) \/ UNCHANGED index
    PROVE  GoodPage(d)'
<1>0. NoStray(d) /\ index[d].keys = grant BY DEF GoodPage
<1>1. index'[d].keys = grant
  <2>1. CASE UNCHANGED index BY <1>0, <2>1
  <2>2. ASSUME NEW q \in late \cup {Request(w) : w \in Sending}, Written(q), Done(d) PROVE index'[d].keys = grant
    <3>1. q \in Requests /\ RequestGood(q) BY <2>2, AbandonedGood
    <3> QED BY <1>0, <2>2, <3>1, RequestStray, WrittenKeys
  <2> QED BY <2>1, <2>2, IndexFrom
<1>2. index'[d].gen >= index[d].gen /\ index[d].gen \in Nat /\ index'[d].gen \in Nat
  <2>1. index' \in [Documents -> PageStates] BY DEF TypeInv, TypeOK
  <2>2. index'[d].gen \in Nat BY <2>1 DEF PageStates
  <2> QED BY <2>2, IndexRises, PageNumbers DEF TypeInv
<1>3. ASSUME NEW v \in Workers, worker'[v].class = "access", worker'[v].pc \in AccessPCs, worker'[v].keys # grant'
      PROVE  worker'[v].gen <= index'[d].gen
  <2>1. PICK y \in Slices : y = worker'[v] BY DEF TypeInv, TypeOK
  <2>2. worker[v].class = "access" /\ worker[v].pc \in AccessPCs /\ worker[v].keys = y.keys /\ worker[v].gen = y.gen
    BY <1>3, <2>1, StraySlice
  <2>3. y.gen <= index[d].gen BY <1>0, <1>3, <2>1, <2>2 DEF NoStray
  <2>4. y.gen \in Nat BY DEF Slices
  <2> QED BY <1>2, <2>1, <2>3, <2>4
<1>4. ASSUME NEW q \in late', q.class = "access", q.doc = d, q.keys # grant' PROVE q.gen <= index'[d].gen
  <2>1. q \in late \cup {Request(w) : w \in Sending} BY LateFrom
  <2>2. q.gen <= index[d].gen BY <1>0, <1>4, <2>1, RequestStray
  <2>3. q.gen \in Nat BY <2>1, AbandonedGood DEF Requests
  <2> QED BY <1>2, <2>2, <2>3
<1> QED BY <1>1, <1>3, <1>4 DEF GoodPage, NoStray

LEMMA AllGoodStays ==
    ASSUME TypeInv, TypeInv', IndexInv, Effect, LiveInv, DoneServed, AllGood, present', grant' = grant
    PROVE  AllGood'
<1> SUFFICES ASSUME NEW d \in Documents, Done(d)' PROVE GoodPage(d)' BY DEF AllGood
<1>1. CASE present /\ Done(d) BY <1>1, GoodStays DEF AllGood
<1>2. CASE present /\ Fresh(d) /\ Served(d) /\ UNCHANGED index BY <1>2, FreshGood, GoodStays
<1> QED BY <1>1, <1>2, NewlyDone

LEMMA FreshAllGood ==
    ASSUME TypeInv, IndexInv, DoneServed, present, \A d \in Documents : Done(d) => Fresh(d)
    PROVE  AllGood
<1> SUFFICES ASSUME NEW d \in Documents, Done(d) PROVE GoodPage(d) BY DEF AllGood
<1>1. Served(d) BY DEF DoneServed, Done
<1> QED BY <1>1, FreshGood

LEMMA NoneIssuedGood ==
    ASSUME IndexInv, DoneServed, present, fdb.issued = {}
    PROVE  AllGood
<1> SUFFICES ASSUME NEW d \in Documents, Done(d) PROVE FALSE BY DEF AllGood
<1>1. Served(d) BY DEF DoneServed, Done
<1> QED BY <1>1 DEF IndexInv, PagesGood, PageGood

\* The recorded access and the issued pages stay, pages may be retired.
AccessKept ==
    /\ UNCHANGED <<grant, used>> /\ fdb'.issued \subseteq fdb.issued
    /\ fdb'.access.keys = fdb.access.keys /\ fdb'.access.pages = fdb.access.pages
    /\ fdb'.access.tracked = fdb.access.tracked /\ fdb'.access.page = fdb.access.page

LEMMA AccessEffect ==
    ASSUME TypeInv, IndexInv, Effect, present'
    PROVE  \/ AccessKept \/ Schedules
           \/ \E w \in Workers : Registers(w) \/ BeginsAccess(w) \/ CompletesPages(w)
<1>0. fdb.access \in AccessStates BY DEF TypeInv, TypeOK, SearchKeys
<1>1. ASSUME UNCHANGED <<grant, used>>, fdb'.access = fdb.access, fdb'.issued \subseteq fdb.issued PROVE AccessKept
  BY <1>1 DEF AccessKept
<1>2. ASSUME Quiet PROVE AccessKept BY <1>1, <1>2 DEF Quiet, SameKeys
<1>3. ASSUME NEW w \in Workers, NEW x \in Slices, Moves(w, x) PROVE AccessKept BY <1>1, <1>3 DEF Moves, SameKeys
<1>4. ASSUME NEW q, Written(q) PROVE AccessKept BY <1>1, <1>4 DEF Written
<1>5. ASSUME NEW w \in Workers, Progresses(w), ~Registers(w), ~BeginsAccess(w), ~CompletesPages(w) PROVE AccessKept
  <2>1. CASE CompletesPage(w) \/ Refreshes(w) \/ SkipsPages(w) \/ NothingToDo(w) \/ ChecksPoint(w) \/ Retires(w)
    BY <1>1, <2>1 DEF CompletesPage, Refreshes, SkipsPages, NothingToDo, ChecksPoint, Retires, Still
  <2>2. CASE TellsDependents(w)
    <3>1. fdb'.access = [fdb.access EXCEPT !.dependents = FALSE] /\ fdb'.issued = fdb.issued /\ Still BY <2>2 DEF TellsDependents
    <3> QED BY <1>0, <3>1 DEF AccessStates, AccessKept, Still
  <2>3. CASE FinishesFanout(w)
    <3>1. worker[w].deleted /\ Verified(w) /\ Busy(w) /\ present' = present BY <2>3 DEF FinishesFanout, Still
    <3> QED BY <3>1, VerifiedIs
  <2>4. CASE FinishesCleanup(w)
    <3>1. worker[w].class = "cleanup" /\ Verified(w) /\ Busy(w) /\ Still BY <2>4 DEF FinishesCleanup
    <3>2. Pending("cleanup") BY <3>1, VerifiedIs
    <3>3. RecordGood("cleanup") BY KeptCursors DEF Classes
    <3>4. ~fdb.work["cleanup"].deleted BY <3>1, <3>2, <3>3 DEF RecordGood, Still
    <3> QED BY <1>1, <2>4, <3>1, <3>4 DEF FinishesCleanup, Still
  <2> QED BY <1>5, <2>1, <2>2, <2>3, <2>4 DEF Progresses
<1> QED BY <1>2, <1>3, <1>4, <1>5 DEF Effect, Sends, Arrives

\* The keys of the access record are access the node has had.
UsedGood ==
    present => /\ grant \in used \cup {NoParent}
               /\ fdb.access.keys \in used \cup {NoKeys} /\ fdb.access.page \in used \cup {NoKeys}

LEMMA BeginsSlice ==
    ASSUME TypeInv, IndexInv, NEW w \in Workers, BeginsAccess(w) \/ CompletesPages(w)
    PROVE  /\ present /\ present' /\ worker[w].class = "access" /\ worker[w].keys = grant /\ grant \in Grants
           /\ worker[w].gen = fdb.gen /\ fdb'.gen = fdb.gen /\ UNCHANGED <<grant, used>> /\ fdb'.issued = fdb.issued
<1>1. Verified(w) /\ Busy(w) /\ Still /\ Kept(fdb') /\ worker[w].pc \in {"begin", "complete"} /\ fdb'.issued = fdb.issued
  BY DEF BeginsAccess, CompletesPages, Busy
<1>2. worker[w].class = "access" BY <1>1, SliceFacts DEF BeginsAccess, CompletesPages, PCGood
<1>3. present /\ worker[w].keys = grant /\ worker[w].keys \in Grants /\ worker[w].gen = fdb.gen BY <1>1, <1>2, AccessSlice DEF AccessPCs
<1> QED BY <1>1, <1>2, <1>3 DEF Still, Kept

LEMMA NextUsed ==
    ASSUME TypeInv, IndexInv, Effect, UsedGood
    PROVE  UsedGood'
<1> SUFFICES ASSUME present' PROVE UsedGood' BY DEF UsedGood
<1>0. fdb.access \in AccessStates BY DEF TypeInv, TypeOK, SearchKeys
<1>1. present
  <2>1. Ages BY EffectAges
  <2> QED BY <2>1 DEF Ages
<1>2. CASE AccessKept BY <1>1, <1>2 DEF AccessKept, UsedGood
<1>3. CASE Schedules
  <2>1. CASE UNCHANGED <<grant, used>> /\ fdb'.access = fdb.access BY <1>1, <2>1 DEF UsedGood
  <2>2. ASSUME NEW k \in Grants \cup {NoParent}, grant' = k, used' = used \cup ({k} \cap Grants), fdb'.access = fdb.access PROVE UsedGood'
    BY <1>1, <2>2 DEF UsedGood
  <2>3. CASE ExclusionScheduled(fdb') /\ UNCHANGED <<grant, used>> BY <1>1, <2>3 DEF ExclusionScheduled, UsedGood
  <2> QED BY <1>3, <2>1, <2>2, <2>3 DEF Schedules, RevisionScheduled, AccessScheduled
<1>4. ASSUME NEW w \in Workers, Registers(w) PROVE UsedGood'
  <2>1. fdb'.access = Tracked(fdb.access, worker[w].keys) /\ worker[w].keys \in Grants /\ worker[w].keys = grant /\ UNCHANGED <<grant, used>>
    BY <1>4, RegistersAccess DEF Registers, Still
  <2>2. fdb'.access.keys = fdb.access.keys /\ fdb'.access.page \in {NoKeys, grant, fdb.access.page} BY <1>0, <2>1, TrackedIs
  <2>3. grant \in used BY <1>1, <2>1, Constants DEF UsedGood
  <2> QED BY <1>1, <2>1, <2>2, <2>3 DEF UsedGood
<1>5. ASSUME NEW w \in Workers, BeginsAccess(w) PROVE UsedGood'
  <2>1. worker[w].keys = grant /\ grant \in Grants /\ UNCHANGED <<grant, used>> BY <1>5, BeginsSlice
  <2>2. fdb'.access.keys = worker[w].keys /\ fdb'.access.page = NoKeys BY <1>5 DEF BeginsAccess
  <2>3. grant \in used BY <1>1, <2>1, Constants DEF UsedGood
  <2> QED BY <2>1, <2>2, <2>3 DEF UsedGood
<1>6. ASSUME NEW w \in Workers, CompletesPages(w) PROVE UsedGood'
  <2>1. UNCHANGED <<grant, used>> BY <1>6, BeginsSlice
  <2>2. fdb'.access = [fdb.access EXCEPT !.pages = FALSE] BY <1>6 DEF CompletesPages
  <2>3. fdb'.access.keys = fdb.access.keys /\ fdb'.access.page = fdb.access.page BY <1>0, <2>2 DEF AccessStates
  <2> QED BY <1>1, <2>1, <2>3 DEF UsedGood
<1> QED BY <1>2, <1>3, <1>4, <1>5, <1>6, AccessEffect

-----------------------------------------------------------------------------
(* How far the access loop has come.                                       *)

\* The documents the slice x has behind it.
Passed(x, d) ==
    \/ x.pc \in {"compile", "begin", "documents"} /\ ~Before(x.doc, d)
    \/ x.pc = "update" /\ (Before(d, x.doc) \/ (x.done /\ d # x.doc))
    \/ x.pc = "complete" /\ (x.done \/ ~Before(x.doc, d))

SliceFresh(x) ==
    present /\ x.class = "access" /\ x.gen = fdb.gen =>
        \A d \in Documents : Done(d) /\ Passed(x, d) => Fresh(d)

SlicesFresh == \A w \in Workers : SliceFresh(worker[w])

\* What the checkpoint of the access work has behind it.
CursorAt(k) == Pending("access") /\ fdb.cursor["access"] = k /\ k.gen = fdb.gen /\ k.phase # "dependents"
CursorFresh ==
    present => \A k \in Checkpoints : CursorAt(k) =>
        \A d \in Documents : Done(d) /\ ~Before(k.doc, d) => Fresh(d)

\* Within a generation, what is done and fresh stays fresh.
LEMMA FreshStays ==
    ASSUME TypeInv, TypeInv', IndexInv, IndexInv', Effect, LiveInv, present', fdb'.gen = fdb.gen, NEW d \in Documents, Done(d)',
           present /\ Done(d) => Fresh(d) \/ index'[d].gen = fdb.gen
    PROVE  Fresh(d)'
<1>1. index'[d].gen >= index[d].gen /\ index[d].gen \in Nat /\ index'[d].gen \in Nat
  <2>1. index' \in [Documents -> PageStates] BY DEF TypeInv, TypeOK
  <2>2. index'[d].gen \in Nat BY <2>1 DEF PageStates
  <2> QED BY <2>2, IndexRises, PageNumbers DEF TypeInv
<1>2. index'[d].gen <= fdb'.gen /\ fdb'.gen \in Nat
  <2>1. fdb'.gen > 0 /\ fdb'.gen \in Nat BY KeyNumbers DEF TypeInv, KeysGood
  <2> QED BY <2>1 DEF IndexInv, PagesGood, PageGood
<1>3. Fresh(d) \/ index'[d].gen = fdb.gen BY NewlyDone
<1> QED BY <1>1, <1>2, <1>3 DEF Fresh

LEMMA DoneIs ==
    ASSUME TypeInv, IndexInv, DoneServed, present, NEW d \in Documents, Done(d)
    PROVE  Served(d) /\ d \in fdb.issued /\ index[d].gen \in Nat /\ index[d].gen <= fdb.gen /\ index[d].seq > 0 /\ ~index[d].retired
<1>1. Served(d) BY DEF DoneServed, Done
<1>2. fdb.gen > 0 BY DEF TypeInv, KeysGood
<1>3. d \in fdb.issued /\ index[d].gen <= fdb.gen BY <1>1, <1>2 DEF IndexInv, PagesGood, PageGood
<1>4. index[d].gen \in Nat BY PageNumbers DEF TypeInv
<1> QED BY <1>1, <1>3, <1>4 DEF Served

\* A slice that goes on has no more behind it than is fresh.
LEMMA AdvancesFresh ==
    ASSUME TypeInv, IndexInv, DoneServed, SlicesFresh, CursorFresh, NEW w \in Workers, NEW x \in Slices, Advances(w, x),
           x.class = "access", x.gen = fdb.gen, present, NEW d \in Documents, Done(d), Passed(x, d)
    PROVE  Fresh(d)
<1> DEFINE me == worker[w]
<1>1. me \in Slices /\ SliceGood(me) /\ SliceFresh(me) BY DEF TypeInv, TypeOK, WorkersGood, SlicesFresh
<1>2. ASSUME me.class = "access", me.gen = fdb.gen, Passed(me, d) PROVE Fresh(d) BY <1>1, <1>2 DEF SliceFresh
<1>3. x.pc \in {"compile", "begin", "documents", "update", "complete"} BY DEF Passed
<1>4. me.doc \in Documents \cup {NoDocument} BY <1>1 DEF Slices
<1>5. /\ Served(d) /\ d \in fdb.issued /\ index[d].gen \in Nat /\ index[d].gen <= fdb.gen /\ index[d].seq > 0 /\ ~index[d].retired
  BY DoneIs
<1>6. ASSUME NEW c \in Classes, Pending(c), x = Claimed(w, c) PROVE Fresh(d)
  <2>1. c = "access" /\ x.doc = Progress(fdb, c).doc /\ x.pc = FirstStep(c, Progress(fdb, c).phase) /\ ~x.done BY <1>6, ClaimedIs
  <2>2. x.pc = "compile" /\ Progress(fdb, c).phase # "dependents" BY <1>3, <2>1 DEF FirstStep
  <2>3. ~Before(x.doc, d) BY <2>2 DEF Passed
  <2>4. PICK k \in Checkpoints : k = fdb.cursor["access"] BY <1>6, <2>1, KeyNumbers
  <2>5. k.gen = fdb.work["access"].gen /\ Progress(fdb, c) = k
    <3>1. CASE k.gen # fdb.work["access"].gen
      <4>1. x.doc = NoDocument BY <2>1, <2>4, <3>1 DEF Progress, NoCursor
      <4> QED BY <2>3, <4>1, KeyOrder
    <3> QED BY <2>1, <2>4, <3>1 DEF Progress
  <2>6. RecordGood("access") BY DEF TypeInv, KeysGood, Classes
  <2>7. k.gen = fdb.gen BY <1>6, <2>1, <2>5, <2>6 DEF RecordGood
  <2>8. CursorAt(k) BY <1>6, <2>1, <2>2, <2>4, <2>5, <2>7 DEF CursorAt
  <2>9. ~Before(k.doc, d) BY <2>1, <2>3, <2>5
  <2> QED BY <2>8, <2>9 DEF CursorFresh
<1>7. CASE me.pc = "compile" /\ x = Compiled(me)
  <2>1. x.pc = "begin" /\ x.doc = me.doc /\ x.class = me.class /\ x.gen = me.gen BY <1>1, <1>7 DEF Compiled, Slices
  <2> QED BY <1>2, <1>7, <2>1 DEF Passed
<1>8. CASE me.pc = "begin" /\ x = At(me, "documents")
  <2>1. x.pc = "documents" /\ x.doc = me.doc /\ x.class = me.class /\ x.gen = me.gen BY <1>1, <1>8 DEF At, Slices
  <2> QED BY <1>2, <1>8, <2>1 DEF Passed
<1>9. CASE me.pc = "update" /\ ~Accepts(Request(w)) /\ x = At(me, "complete")
  <2>1. x.pc = "complete" /\ x.doc = me.doc /\ x.class = me.class /\ x.gen = me.gen /\ x.done = me.done BY <1>1, <1>9 DEF At, Slices
  <2>2. CASE d # me.doc
    <3>1. Before(d, me.doc) \/ Before(me.doc, d) BY <1>4, <2>2, KeyOrder
    <3> QED BY <1>2, <1>9, <2>1, <2>2, <3>1 DEF Passed
  <2>3. CASE d = me.doc
    <3>1. w \in Sending BY <1>9 DEF Sending
    <3>2. Request(w).class = "access" /\ Request(w).doc = d /\ Request(w).gen = fdb.gen BY <2>1, <2>3, <3>1, RequestIs
    <3>3. ~(index[d].gen < fdb.gen) BY <1>5, <1>9, <3>2 DEF Accepts
    <3> QED BY <1>5, <3>3, KeyNumbers DEF Fresh
  <2> QED BY <2>2, <2>3
<1>10. CASE me.pc = "documents" /\ Selected(w) = {} /\ x = NoneLeft(me)
  <2>1. x.class = me.class /\ x.gen = me.gen BY <1>1, <1>10 DEF NoneLeft, Slices
  <2>2. ~Before(me.doc, d) BY <1>5, <1>10, <2>1 DEF Selected
  <2> QED BY <1>2, <1>10, <2>1, <2>2 DEF Passed
<1>11. ASSUME me.pc = "documents", NEW e \in Selected(w), NEW last \in BOOLEAN, \A f \in Selected(w) \ {e} : Before(e, f),
              last => Selected(w) = {e}, x = Takes(me, e, last)
       PROVE  Fresh(d)
  <2>1. x.class = me.class /\ x.gen = me.gen /\ x.pc = "update" /\ x.doc = e /\ x.done = last BY <1>1, <1>11 DEF Takes, Slices
  <2>2. Before(me.doc, d) => d \in Selected(w) BY <1>5, <2>1 DEF Selected
  <2>3. e \in Documents BY DEF Selected, TypeInv, TypeOK, SearchKeys
  <2>4. Before(d, e) \/ (last /\ d # e) BY <2>1 DEF Passed
  <2>5. ~(Before(d, e) /\ (Before(e, d) \/ d = e)) BY <2>3, KeyOrder
  <2>6. ~Before(me.doc, d) BY <1>11, <2>2, <2>4, <2>5
  <2> QED BY <1>2, <1>11, <2>1, <2>6 DEF Passed
<1>12. \A pc \in {"exclude", "probe"} : x # At(me, pc) BY <1>1, <1>3 DEF At, Slices
<1>13. x # Reading(me) /\ x # Armed(me) BY <1>1, <1>3 DEF Reading, Armed, Slices
<1>14. ~(me.pc = "probe" /\ x = At(me, "complete"))
  <2>1. x = At(me, "complete") => x.class = me.class BY <1>1 DEF At, Slices
  <2> QED BY <1>1, <2>1 DEF SliceGood, PCGood
<1> QED BY <1>6, <1>7, <1>8, <1>9, <1>10, <1>11, <1>12, <1>13, <1>14 DEF Advances

LEMMA SlicesFreshNext ==
    ASSUME worker' \in [Workers -> Slices], \A w \in Workers : \A y \in Slices : y = worker'[w] => SliceFresh(y)'
    PROVE  SlicesFresh'
<1> SUFFICES ASSUME NEW w \in Workers PROVE SliceFresh(worker[w])' BY DEF SlicesFresh
<1>1. PICK y \in Slices : y = worker'[w] OBVIOUS
<1>2. SliceFresh(y)' BY <1>1
<1> QED BY <1>1, <1>2 DEF SliceFresh, Passed

LEMMA FreshSlices ==
    ASSUME TypeInv, TypeInv', IndexInv, IndexInv', Effect, LiveInv, DoneServed, SlicesFresh, CursorFresh
    PROVE  SlicesFresh'
<1>0. worker' \in [Workers -> Slices] /\ worker \in [Workers -> Slices] BY DEF TypeInv, TypeOK
<1> SUFFICES ASSUME NEW v \in Workers, NEW y \in Slices, y = worker'[v], present', y.class = "access", y.gen = fdb'.gen,
                    NEW d \in Documents, Done(d)', Passed(y, d)
             PROVE  Fresh(d)'
  BY <1>0, SlicesFreshNext DEF SliceFresh, Passed
<1> DEFINE me == worker[v]
<1>1. SliceStep(v, y) BY SliceSteps
<1>2. me \in Slices /\ SliceGood(me) /\ SliceFresh(me) BY DEF TypeInv, TypeOK, WorkersGood, SlicesFresh
<1>3. y.pc \in {"compile", "begin", "documents", "update", "complete"} BY DEF Passed
<1>4. ASSUME fdb'.gen = fdb.gen, present /\ Done(d) => Fresh(d) \/ index'[d].gen = fdb.gen PROVE Fresh(d)' BY <1>4, FreshStays
<1>5. CASE y = me
  <2>1. ItemGood(y) /\ y.gen \in Nat /\ y.gen > 0 BY <1>2, <1>3, <1>5, SliceIs
  <2>2. Ages /\ fdb' \in SearchKeys BY EffectAges DEF TypeInv, TypeOK
  <2>3. fdb'.gen = fdb.gen BY <2>1, <2>2, AgesIs DEF ItemGood
  <2>4. present /\ Done(d) => Fresh(d) BY <1>2, <1>5, <2>3 DEF SliceFresh
  <2> QED BY <1>4, <2>3, <2>4
<1>6. CASE Advances(v, y) /\ Moves(v, y)
  <2>1. fdb'.gen = fdb.gen BY <1>6 DEF Moves, SameKeys
  <2>2. present /\ Done(d) => Fresh(d) BY <1>6, <2>1, AdvancesFresh
  <2> QED BY <1>4, <2>1, <2>2
<1>7. CASE Sends(v) /\ y = At(me, "complete")
  <2>1. v \in Sending /\ me.pc \in {"send", "update"} /\ Written(Request(v)) BY <1>7 DEF Sends, Sending
  <2>2. fdb' = fdb BY <2>1 DEF Written
  <2>3. y.pc = "complete" /\ y.class = me.class /\ y.gen = me.gen /\ y.doc = me.doc /\ y.done = me.done BY <1>2, <1>7 DEF At, Slices
  <2>4. me.pc = "update" BY <1>2, <2>1, <2>3 DEF SliceGood, PCGood
  <2>5. Request(v) \in Requests /\ RequestGood(Request(v)) /\ Request(v).doc = me.doc /\ Request(v).gen = me.gen /\ me.doc \in Documents
    BY <2>1, RequestIs, AbandonedGood
  <2>6. index'[me.doc].gen = me.gen BY <2>1, <2>5, WrittenPage
  <2>7. d # me.doc => Passed(me, d)
    <3>1. d # me.doc => Before(d, me.doc) \/ Before(me.doc, d) BY <2>5, KeyOrder
    <3> QED BY <2>3, <2>4, <3>1 DEF Passed
  <2>8. d # me.doc /\ present /\ Done(d) => Fresh(d) BY <1>2, <2>2, <2>3, <2>7 DEF SliceFresh
  <2> QED BY <1>4, <2>2, <2>3, <2>6, <2>8
<1>8. CASE y.pc \in {"idle", "yield"} BY <1>3, <1>8
<1>9. CASE y = Registered(me) BY <1>2, <1>3, <1>9 DEF Registered, Slices
<1>10. CASE y = NextPage(me)
  <2>1. y.pc \in {"refresh", "content"} BY <1>2, <1>10 DEF NextPage, Slices
  <2> QED BY <1>3, <2>1
<1>11. CASE BeginsAccess(v) /\ y = Begun(me, BegunPC(me))
  <2>1. y.doc = NoDocument /\ y.pc = BegunPC(me) BY <1>2, <1>11 DEF Begun, Slices
  <2>2. y.pc = "documents" BY <1>3, <2>1 DEF BegunPC
  <2>3. ~Before(NoDocument, d) BY <2>1, <2>2 DEF Passed
  <2> QED BY <2>3, KeyOrder
<1>12. CASE y = At(me, "dependents") BY <1>2, <1>3, <1>12 DEF At, Slices
<1> QED BY <1>1, <1>5, <1>6, <1>7, <1>8, <1>9, <1>10, <1>11, <1>12 DEF SliceStep

LEMMA NextCursorFresh ==
    ASSUME TypeInv, TypeInv', IndexInv, IndexInv', Effect, LiveInv, SlicesFresh, CursorFresh
    PROVE  CursorFresh'
<1> SUFFICES ASSUME present', NEW k \in Checkpoints, CursorAt(k)', NEW d \in Documents, Done(d)', ~Before(k.doc, d)
             PROVE  Fresh(d)'
  BY DEF CursorFresh, Before
<1>0. Pending("access")' /\ fdb'.cursor["access"] = k /\ k.gen = fdb'.gen /\ k.phase # "dependents" /\ fdb'.gen > 0
  <2>1. fdb'.gen > 0 BY DEF TypeInv, KeysGood
  <2> QED BY <2>1 DEF CursorAt
<1>1. ASSUME KeptClass("access", fdb'), fdb'.gen = fdb.gen PROVE Fresh(d)'
  <2>1. CursorAt(k) BY <1>0, <1>1 DEF KeptClass, CursorAt, Pending
  <2>2. present /\ Done(d) => Fresh(d) BY <2>1 DEF CursorFresh
  <2> QED BY <1>1, <2>2, FreshStays
<1>2. ASSUME Quiet PROVE Fresh(d)' BY <1>1, <1>2 DEF Quiet, SameKeys, KeptClass
<1>3. ASSUME NEW w \in Workers, NEW x \in Slices, Moves(w, x) PROVE Fresh(d)' BY <1>1, <1>3 DEF Moves, SameKeys, KeptClass
<1>4. ASSUME NEW q, Written(q) PROVE Fresh(d)' BY <1>1, <1>4 DEF Written, KeptClass
<1>5. ~Removed("access", fdb') BY <1>0 DEF Removed, Pending
<1>6. ~Put("access", fdb', FALSE) BY <1>0 DEF Put, NoCursor
<1>7. ~Schedules
  <2>1. fdb'.work["access"] # NoRecord BY <1>0 DEF Pending
  <2> QED BY <1>5, <1>6, <2>1 DEF Schedules, RevisionScheduled, AccessScheduled, ExclusionScheduled
<1>8. ASSUME NEW w \in Workers, Progresses(w) PROVE Fresh(d)'
  <2> DEFINE me == worker[w]
  <2>1. CASE Registers(w)
    <3>1. fdb'.gen = fdb.gen /\ KeptClass("access", fdb') BY <2>1 DEF Registers, Kept, Classes
    <3> QED BY <1>1, <3>1
  <2>2. CASE CompletesPage(w) \/ Refreshes(w)
    <3>1. fdb'.gen = fdb.gen /\ KeptClass("access", fdb') BY <2>2 DEF CompletesPage, Refreshes, Kept
    <3> QED BY <1>1, <3>1
  <2>3. CASE Retires(w)
    <3>1. fdb'.gen = fdb.gen /\ KeptClass("access", fdb') BY <2>3 DEF Retires, Kept, Classes
    <3> QED BY <1>1, <3>1
  <2>4. CASE BeginsAccess(w)
    <3>1. k.doc = NoDocument BY <1>0, <2>4 DEF BeginsAccess, Pointed, AccessCursor
    <3> QED BY <3>1, KeyOrder
  <2>5. CASE SkipsPages(w) \/ CompletesPages(w)
    <3>1. Pointed("access", AccessCursor(me, NoDocument, "dependents"), fdb') BY <1>5, <2>5 DEF SkipsPages, CompletesPages
    <3> QED BY <1>0, <3>1 DEF Pointed, AccessCursor
  <2>6. CASE ChecksPoint(w)
    <3>1. Verified(w) /\ Busy(w) /\ me.pc = "complete" /\ me.class = "access" /\ Kept(fdb') /\ k = AccessCursor(me, me.doc, "pages")
      BY <1>0, <2>6 DEF ChecksPoint, Pointed
    <3>2. me.gen = fdb.gen /\ k.doc = me.doc /\ fdb'.gen = fdb.gen BY <3>1, AccessSlice DEF AccessCursor, Kept
    <3>3. Passed(me, d) BY <3>1, <3>2 DEF Passed
    <3>4. SliceFresh(me) BY DEF SlicesFresh
    <3>5. present /\ Done(d) => Fresh(d) BY <3>1, <3>2, <3>3, <3>4 DEF SliceFresh
    <3> QED BY <3>2, <3>5, FreshStays
  <2>7. CASE NothingToDo(w) \/ TellsDependents(w) BY <1>5, <2>7 DEF NothingToDo, TellsDependents
  <2>8. CASE FinishesFanout(w)
    <3>1. me.deleted /\ Verified(w) /\ Busy(w) /\ present' = present BY <2>8 DEF FinishesFanout, Still
    <3> QED BY <3>1, VerifiedIs
  <2>9. CASE FinishesCleanup(w)
    <3>1. me.class = "cleanup" /\ Verified(w) /\ Busy(w) /\ Still BY <2>9 DEF FinishesCleanup
    <3>2. Pending("cleanup") BY <3>1, VerifiedIs
    <3>3. RecordGood("cleanup") BY KeptCursors DEF Classes
    <3>4. ~fdb.work["cleanup"].deleted BY <3>1, <3>2, <3>3 DEF RecordGood, Still
    <3>5. KeptClass("access", fdb') /\ fdb'.gen = fdb.gen BY <2>9, <3>4 DEF FinishesCleanup, Kept
    <3> QED BY <1>1, <3>5
  <2> QED BY <1>8, <2>1, <2>2, <2>3, <2>4, <2>5, <2>6, <2>7, <2>8, <2>9 DEF Progresses
<1> QED BY <1>2, <1>3, <1>4, <1>7, <1>8 DEF Effect, Sends, Arrives

\* Recorded access is in every done page; while registered pages are tracked, so is
\* the access they were registered with.
PagesAccessGood ==
    present => /\ Recorded => AllGood
               /\ fdb.access.tracked /\ fdb.access.page = NoKeys => fdb.issued = {}
               /\ fdb.access.tracked /\ fdb.access.page = grant => AllGood

AccessInv == UsedGood /\ SlicesFresh /\ CursorFresh /\ PagesAccessGood

LEMMA NextPagesAccess ==
    ASSUME ~Returns, TypeInv, TypeInv', IndexInv, Effect, LiveInv, DoneServed, AccessInv
    PROVE  PagesAccessGood'
<1> SUFFICES ASSUME present' PROVE PagesAccessGood' BY DEF PagesAccessGood
<1>0. /\ fdb.access \in AccessStates /\ used \subseteq Grants /\ grant' \in Grants \cup {NoParent} /\ grant \in Grants \cup {NoParent}
      /\ UsedGood /\ SlicesFresh /\ PagesAccessGood
  BY DEF TypeInv, TypeOK, SearchKeys, AccessInv
<1>1. present
  <2>1. Ages BY EffectAges
  <2> QED BY <2>1 DEF Ages
<1>2. AllGood /\ grant' = grant => AllGood' BY AllGoodStays
<1>3. ASSUME grant' = grant, fdb'.issued \subseteq fdb.issued, Recorded' => Recorded, fdb'.access.tracked => fdb.access.tracked,
             fdb'.access.page = fdb.access.page
      PROVE  PagesAccessGood'
  <2>1. Recorded' => AllGood' BY <1>0, <1>1, <1>2, <1>3 DEF PagesAccessGood
  <2>2. fdb'.access.tracked /\ fdb'.access.page = NoKeys => fdb'.issued = {} BY <1>0, <1>1, <1>3 DEF PagesAccessGood
  <2>3. fdb'.access.tracked /\ fdb'.access.page = grant' => AllGood' BY <1>0, <1>1, <1>2, <1>3 DEF PagesAccessGood
  <2> QED BY <2>1, <2>2, <2>3 DEF PagesAccessGood
<1>4. CASE AccessKept BY <1>3, <1>4 DEF AccessKept, Recorded
<1>5. CASE Schedules
  <2>0. fdb'.issued = fdb.issued
    BY <1>5 DEF Schedules, RevisionScheduled, AccessScheduled, DeletionScheduled, ExclusionScheduled, Raised
  <2>1. CASE grant' = grant /\ fdb'.access = fdb.access BY <1>3, <2>0, <2>1 DEF Recorded
  <2>2. ASSUME NEW k \in Grants \cup {NoParent}, grant' = k, Reachable(k), fdb'.access = fdb.access PROVE PagesAccessGood'
    <3>1. k \notin used BY <1>0, <2>2, Constants DEF Reachable
    <3>2. k # NoKeys BY <2>2, Constants
    <3>3. ~Recorded' /\ fdb'.access.page # grant' BY <1>0, <1>1, <2>2, <3>1, <3>2 DEF Recorded, UsedGood
    <3>4. fdb'.access.tracked /\ fdb'.access.page = NoKeys => fdb'.issued = {} BY <1>0, <1>1, <2>0, <2>2 DEF PagesAccessGood
    <3> QED BY <3>3, <3>4 DEF PagesAccessGood
  <2>3. CASE ExclusionScheduled(fdb') /\ grant' = grant
    <3>1. fdb'.access.tracked = fdb.access.tracked /\ fdb'.access.page = fdb.access.page /\ fdb'.access.keys = NoKeys
      BY <2>3 DEF ExclusionScheduled
    <3>2. ~Recorded' BY <1>0, <3>1, Constants DEF Recorded
    <3> QED BY <1>3, <2>0, <2>3, <3>1, <3>2
  <2> QED BY <1>5, <2>1, <2>2, <2>3 DEF Schedules, RevisionScheduled, AccessScheduled
<1>6. ASSUME NEW w \in Workers, Registers(w) PROVE PagesAccessGood'
  <2>1. /\ fdb'.access = Tracked(fdb.access, worker[w].keys) /\ worker[w].keys \in Grants /\ worker[w].keys = grant
        /\ fdb'.access.keys = fdb.access.keys /\ fdb'.access.pages = fdb.access.pages /\ grant' = grant
    BY <1>6, RegistersAccess DEF Registers, Still
  <2>2. Recorded' => Recorded BY <2>1 DEF Recorded
  <2>3. fdb'.access.tracked => fdb.access.tracked /\ fdb'.access.page = grant /\ fdb.access.page \in {NoKeys, grant}
    BY <1>0, <2>1, TrackedIs
  <2>4. fdb.access.tracked /\ fdb.access.page = NoKeys => AllGood BY <1>0, <1>1, NoneIssuedGood DEF PagesAccessGood
  <2>5. fdb'.access.tracked => AllGood BY <1>0, <1>1, <2>3, <2>4 DEF PagesAccessGood
  <2>6. grant # NoKeys BY <2>1, Constants
  <2>7. Recorded => AllGood BY <1>0, <1>1 DEF PagesAccessGood
  <2> QED BY <1>2, <2>1, <2>2, <2>3, <2>5, <2>6, <2>7 DEF PagesAccessGood
<1>7. ASSUME NEW w \in Workers, BeginsAccess(w) PROVE PagesAccessGood'
  <2>1. worker[w].keys = grant /\ grant' = grant BY <1>7, BeginsSlice
  <2>2. ~fdb'.access.tracked /\ (fdb'.access.pages = ~PagesStored(fdb.access, grant)) BY <1>7, <2>1 DEF BeginsAccess
  <2>3. PagesStored(fdb.access, grant) => AllGood
    <3>1. PagesStored(fdb.access, grant) => fdb.access.tracked /\ fdb.access.page \in {NoKeys, grant} BY DEF PagesStored
    <3>2. fdb.access.tracked /\ fdb.access.page = NoKeys => AllGood BY <1>0, <1>1, NoneIssuedGood DEF PagesAccessGood
    <3> QED BY <1>0, <1>1, <3>1, <3>2 DEF PagesAccessGood
  <2>4. Recorded' => AllGood BY <2>2, <2>3 DEF Recorded
  <2> QED BY <1>2, <2>1, <2>2, <2>4 DEF PagesAccessGood
<1>8. ASSUME NEW w \in Workers, CompletesPages(w) PROVE PagesAccessGood'
  <2>1. worker[w].class = "access" /\ worker[w].gen = fdb.gen /\ grant' = grant /\ fdb'.issued = fdb.issued BY <1>8, BeginsSlice
  <2>2. worker[w].pc = "complete" /\ worker[w].done /\ fdb'.access = [fdb.access EXCEPT !.pages = FALSE] BY <1>8 DEF CompletesPages
  <2>3. SliceFresh(worker[w]) BY <1>0 DEF SlicesFresh
  <2>4. \A d \in Documents : Done(d) => Fresh(d) BY <1>1, <2>1, <2>2, <2>3 DEF SliceFresh, Passed
  <2>5. AllGood BY <1>1, <2>4, FreshAllGood
  <2>6. fdb'.access.tracked = fdb.access.tracked /\ fdb'.access.page = fdb.access.page BY <1>0, <2>2 DEF AccessStates
  <2>7. fdb'.access.tracked /\ fdb'.access.page = NoKeys => fdb'.issued = {} BY <1>0, <1>1, <2>1, <2>6 DEF PagesAccessGood
  <2> QED BY <1>2, <2>1, <2>5, <2>7 DEF PagesAccessGood
<1> QED BY <1>4, <1>5, <1>6, <1>7, <1>8, AccessEffect

LEMMA NextAccess ==
    ASSUME ~Returns, TypeInv, TypeInv', IndexInv, IndexInv', Effect, LiveInv, DoneServed, AccessInv
    PROVE  AccessInv'
<1>1. UsedGood' BY NextUsed DEF AccessInv
<1>2. SlicesFresh' BY FreshSlices DEF AccessInv
<1>3. CursorFresh' BY NextCursorFresh DEF AccessInv
<1>4. PagesAccessGood' BY NextPagesAccess
<1> QED BY <1>1, <1>2, <1>3, <1>4 DEF AccessInv

LEMMA InitAccess == ASSUME Init PROVE LiveInv /\ AccessInv
<1>1. /\ fdb.work["access"].gen = 2 /\ fdb.work["live"].gen = 2 /\ fdb.work["live"].rev = 1 /\ fdb.cursor["access"] = NoCursor
      /\ fdb.cursor["live"] = NoCursor /\ present = TRUE /\ fdb.gen = 2 /\ grant = Home /\ used = {Home} /\ fdb.issued = {} /\ late = {}
      /\ fdb.access = [NoAccess EXCEPT !.found = TRUE, !.tracked = TRUE]
  BY DEF Init, Classes
<1>2. \A w \in Workers : worker[w].pc = "idle" BY DEF Init, Idle
<1>3. fdb.access.keys = NoKeys /\ fdb.access.page = NoKeys BY <1>1 DEF NoAccess
<1>4. LiveInv BY <1>1, <1>2 DEF LiveInv, SlicesLiveGood, SliceLiveGood, LateLiveGood
<1>5. UsedGood BY <1>1, <1>3 DEF UsedGood
<1>6. SlicesFresh BY <1>2 DEF SlicesFresh, SliceFresh, Passed
<1>7. CursorFresh
  <2>1. NoCursor.gen = 0 BY DEF NoCursor
  <2> QED BY <1>1, <2>1 DEF CursorFresh, CursorAt
<1>8. PagesAccessGood BY <1>1, <1>3, Constants DEF PagesAccessGood, Recorded
<1> QED BY <1>4, <1>5, <1>6, <1>7, <1>8 DEF AccessInv

LEMMA PagesHold ==
    ASSUME ~Returns PROVE Spec => [](TypeInv /\ IndexInv /\ ContentInv /\ ToldInv /\ LiveInv /\ AccessInv)
<1> DEFINE Inv == TypeInv /\ IndexInv /\ ContentInv /\ ToldInv /\ LiveInv /\ AccessInv
<1>1. Init => Inv BY InitTypes, InitIndex, InitContent, InitTold, InitAccess
<1>2. Inv /\ [Next]_vars => Inv'
  <2> SUFFICES ASSUME Inv, [Next]_vars PROVE Inv' OBVIOUS
  <2>1. TypeInv' /\ Effect BY Steps
  <2>2. IndexInv' /\ ToldInv' /\ LiveInv' BY <2>1, NextIndex, NextTold, NextLive
  <2>3. ContentInv' BY <2>1, <2>2, NextContent
  <2>4. DoneServed BY DEF ContentInv
  <2>5. AccessInv' BY <2>1, <2>2, <2>4, NextAccess
  <2> QED BY <2>1, <2>2, <2>3, <2>5
<1> QED BY <1>1, <1>2, PTL DEF Spec

LEMMA AccessGivesSettled == ASSUME TypeInv, ContentInv, ToldInv, AccessInv PROVE SettledAccess
<1> SUFFICES ASSUME present, Settled, ~fdb.excluded, NEW d \in Active \cap CurrentPages PROVE index[d].keys = grant
  BY DEF SettledAccess
<1>1. ~Pending("access") /\ ~Pending("live") BY DEF Settled, Classes
<1>2. Recorded BY <1>1 DEF ToldInv, ToldKeysGood, Unplaced
<1>3. AllGood BY <1>2 DEF AccessInv, PagesAccessGood
<1>4. d \in Documents BY DEF Active
<1>5. Reached = Pages BY <1>1 DEF Reached
<1>6. d[1] = fdb.rev /\ d[2] \in 0..Pages - 1
  <2>1. PICK o \in 0..Pages - 1 : d = <<fdb.rev, o>> BY DEF CurrentPages
  <2> QED BY <2>1
<1>7. Done(d) BY <1>5, <1>6, Constants DEF Done
<1> QED BY <1>3, <1>4, <1>7 DEF AllGood, GoodPage

\* A node that never returns to an access it left: once no work is pending, every
\* page of its current revision carries the access its hierarchy compiles to,
\* whatever abandoned updates, takeovers and restarts came before.
THEOREM AccessSettles == ASSUME ~Returns PROVE Spec => []SettledAccess
<1>1. TypeInv /\ ContentInv /\ ToldInv /\ AccessInv => SettledAccess BY AccessGivesSettled
<1> QED BY <1>1, PagesHold, PTL
============================================================================
