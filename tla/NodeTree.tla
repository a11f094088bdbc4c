------------------------------ MODULE NodeTree ------------------------------
(***************************************************************************)
(* The node hierarchy in FoundationDB: creates, parent changes, single     *)
(* deletes, relationship removals and subtree delete jobs, as requests of  *)
(* internal/service/node_*.go over the transactions of                     *)
(* internal/adapters/foundationdb/node_mutation_*.go, node_delete*.go,     *)
(* relationship.go and relationship_parent_guard.go.                       *)
(*                                                                         *)
(* A transaction is one step: FoundationDB is serializable.  A request is  *)
(* several transactions: it reads its node, then the ancestors of the new  *)
(* parent one by one, and applies a plan that names the digest of every    *)
(* record it read.  A subtree delete is a stored job of many transactions  *)
(* that any process continues.  A commit whose result is unknown is tried  *)
(* again on its own effects.                                               *)
(*                                                                         *)
(* Data abstraction: a record is its parent_id and a version that stands   *)
(* for its digest (every write changes updated_at).  A relation is         *)
(* child_of or any other, "link".  Node IDs are numbers, which is the      *)
(* order of edges in a range read.  What strict validation says of a       *)
(* record is one bit.  Schema epochs, property values, scopes and          *)
(* reference keys, fences and audit events are left out; search work is    *)
(* SearchWork's.                                                           *)
(***************************************************************************)
EXTENDS Naturals, FiniteSets, Sequences

CONSTANTS
    Requests,      \* requests; each is one operation
    Stored,        \* nodes stored at the start
    New,           \* the ID each request gives a node it creates
    Parents,       \* parent_id of every stored node at the start
    Edges,         \* the sets of relationships <<source, type, target>> to start from
    Under,         \* LivesUnder: pairs <<child, parent>> whose types fit
    Keys,          \* idempotency keys
    NoKey,         \* a create without a key
    EdgePage,      \* maxDeleteEdgePage and MutationEdgeLimit
    MaxEvents      \* bound: relationship and schema changes, commits of unknown result

None == 0
Nodes == Stored \cup {New[r] : r \in Requests}

ASSUME NodeTreeAssumption ==
    /\ Nodes \subseteq Nat \ {None}
    /\ \A r, s \in Requests : New[r] \notin Stored /\ (r # s => New[r] # New[s])
    /\ Parents \in [Stored -> Stored \cup {None}]
    /\ \A start \in Edges :
        /\ start \subseteq Stored \X {"child_of", "link"} \X Stored
        /\ IsFiniteSet(start)
        /\ \A n \in Stored :
            IF Parents[n] = None THEN \A m \in Stored : <<n, "child_of", m>> \notin start
            ELSE <<n, "child_of", Parents[n]>> \in start
    /\ Under \subseteq Nodes \X Nodes
    /\ NoKey \notin Keys
    /\ EdgePage \in Nat \ {0} /\ MaxEvents \in Nat

VARIABLES
    node,      \* node records: exists, parent (parent_id), ver (digest), key
    edges,     \* relationships, by source, type and target
    keys,      \* the node of each idempotency record
    req,       \* per request: its plan and position
    job,       \* the subtree delete job a request started
    invalid,   \* nodes whose record strict validation refuses
    events     \* relationship and schema changes and unknown commits so far

vars == <<node, edges, keys, req, job, invalid, events>>

NoRequest == [pc |-> "idle", kind |-> "none", node |-> None, target |-> None,
              key |-> NoKey, ver |-> 0, at |-> None, seen |-> {}, out |-> {},
              in |-> {}]
NoJob == [state |-> "none", root |-> None, dest |-> None, stack |-> <<>>]

TypeOK ==
    /\ node \in [Nodes -> [exists : BOOLEAN, parent : Nodes \cup {None},
                           ver : Nat, key : Keys \cup {NoKey}]]
    /\ edges \subseteq Nodes \X {"child_of", "link"} \X Nodes
    /\ keys \in [Keys -> Nodes \cup {None}]
    /\ \A r \in Requests :
        /\ req[r].pc \in {"idle", "walk", "apply", "remove", "start", "done"}
        /\ req[r].node \in Nodes \cup {None} /\ req[r].at \in Nodes \cup {None}
        /\ job[r].state \in {"none", "running", "finished", "cleared"}
        /\ job[r].root \in Nodes \cup {None} /\ job[r].dest \in Nodes \cup {None}
        /\ \A i \in 1..Len(job[r].stack) : job[r].stack[i] \in Nodes
    /\ invalid \subseteq Nodes
    /\ events \in 0..MaxEvents

Exists(n) == n # None /\ node[n].exists
Outgoing(n) == {e \in edges : e[1] = n}
Incoming(n) == {e \in edges : e[3] = n}
ChildOf(n) == {e \in Outgoing(n) : e[2] = "child_of"}
Targets(n) == {e[3] : e \in ChildOf(n)}
OnStack(j) == {job[j].stack[i] : i \in 1..Len(job[j].stack)}

Event == events < MaxEvents /\ events' = events + 1

-----------------------------------------------------------------------------
(* Requests up to their plan: one read transaction per step.               *)

Answer(r) == req' = [req EXCEPT ![r] = [NoRequest EXCEPT !.pc = "done"]]

\* Update: the snapshot of the node.
BeginMove(r, n, p) ==
    /\ req[r].pc = "idle" /\ node[n].exists
    /\ req' = [req EXCEPT ![r] = [NoRequest EXCEPT
                  !.pc = "walk", !.kind = "move", !.node = n, !.target = p, !.at = p,
                  !.ver = node[n].ver, !.out = ChildOf(n)]]
    /\ UNCHANGED <<node, edges, keys, job, invalid, events>>

\* Create: lookupExistingCreate, then a new ID.
BeginCreate(r, p, k) ==
    /\ req[r].pc = "idle" /\ node[p].exists
    /\ IF k \in Keys /\ keys[k] # None /\ node[keys[k]].exists THEN Answer(r)
       ELSE req' = [req EXCEPT ![r] = [NoRequest EXCEPT
                  !.pc = "walk", !.kind = "create", !.node = New[r], !.target = p,
                  !.at = p, !.key = k]]
    /\ UNCHANGED <<node, edges, keys, job, invalid, events>>

\* deletesAlone: no child_of edge to the node and one page of edges each way.
DeletesAlone(n) ==
    /\ Cardinality(Incoming(n)) <= EdgePage /\ Cardinality(Outgoing(n)) <= EdgePage
    /\ \A e \in Incoming(n) : e[2] # "child_of"

BeginDelete(r, n) ==
    /\ req[r].pc = "idle" /\ node[n].exists
    /\ req' = [req EXCEPT ![r] = [NoRequest EXCEPT
                  !.pc = IF DeletesAlone(n) THEN "remove" ELSE "start",
                  !.kind = "delete", !.node = n, !.ver = node[n].ver,
                  !.out = Outgoing(n), !.in = Incoming(n)]]
    /\ UNCHANGED <<node, edges, keys, job, invalid, events>>

\* parentGraph: one ancestor per transaction, with its digest.
Walk(r) ==
    LET me == req[r]
        visited == {s[1] : s \in me.seen} IN
    /\ me.pc = "walk"
    /\ IF \/ me.at = me.node \/ me.at \in visited
          \/ me.at = me.target /\ ~node[me.at].exists
       THEN Answer(r)
       ELSE IF ~node[me.at].exists THEN req' = [req EXCEPT ![r].pc = "apply"]
       ELSE req' = [req EXCEPT ![r] =
               [me EXCEPT !.seen = me.seen \cup {<<me.at, node[me.at].ver>>},
                          !.at = node[me.at].parent,
                          !.pc = IF node[me.at].parent = None THEN "apply" ELSE "walk"]]
    /\ UNCHANGED <<node, edges, keys, job, invalid, events>>

-----------------------------------------------------------------------------
(* ApplyMutation: one transaction that checks the plan and writes.         *)

\* Mutant of KeyUsed: the record of the key is not read.
KeyIgnored(r) == FALSE

\* readCreateIdempotency found a record: the receipt of its node, or a conflict.
KeyUsed(r) == req[r].key \in Keys /\ keys[req[r].key] # None

\* checkSource.
SourceMatches(r) ==
    IF req[r].kind = "create" THEN ~node[req[r].node].exists
    ELSE node[req[r].node].exists /\ node[req[r].node].ver = req[r].ver

\* checkGraphRecords.
GraphMatches(r) ==
    \A s \in req[r].seen : node[s[1]].exists /\ node[s[1]].ver = s[2]

\* checkParentChain, over the records just compared: the parent is listed, and
\* the chain ends at a root or at an ancestor that does not exist, without
\* meeting the node or an unlisted ancestor.
ChainHolds(r) ==
    LET listed == {s[1] : s \in req[r].seen} IN
    /\ req[r].target \in listed /\ req[r].node \notin listed
    /\ \A n \in listed : \/ node[n].parent \in listed
                         \/ node[n].parent # req[r].node /\ ~Exists(node[n].parent)

\* childOfChanges: every other child_of edge must be one the plan saw.
EdgesMatch(r) ==
    \A e \in ChildOf(req[r].node) : e[3] = req[r].target \/ e \in req[r].out

\* checkStrictMutation: strict validation is active and refuses the record.
StrictRefuses(n) == n \in invalid

\* Mutant of Accepted: only the node's own record and edges are compared.
AcceptedAlone(r) == ~KeyUsed(r) /\ SourceMatches(r) /\ EdgesMatch(r)

Accepted(r) ==
    /\ ~KeyUsed(r) /\ SourceMatches(r) /\ GraphMatches(r) /\ ChainHolds(r) /\ EdgesMatch(r)
    /\ ~StrictRefuses(req[r].node)

\* The edges of a node whose only parent is p.
WithParent(n, p) == (edges \ ChildOf(n)) \cup {<<n, "child_of", p>>}

\* writeMutation.
WriteMutation(r) ==
    LET me == req[r] IN
    /\ node' = [node EXCEPT ![me.node] =
           [exists |-> TRUE, parent |-> me.target, ver |-> node[me.node].ver + 1,
            key |-> IF me.kind = "create" THEN me.key ELSE node[me.node].key]]
    /\ edges' = WithParent(me.node, me.target)
    /\ keys' = IF me.key \in Keys THEN [keys EXCEPT ![me.key] = me.node] ELSE keys

Apply(r) ==
    /\ req[r].pc = "apply"
    /\ IF Accepted(r) THEN WriteMutation(r) ELSE UNCHANGED <<node, edges, keys>>
    /\ Answer(r)
    /\ UNCHANGED <<job, invalid, events>>

\* The commit took effect and its result is unknown: the attempt runs again.
ApplyUnknown(r) ==
    /\ req[r].pc = "apply" /\ Accepted(r) /\ Event
    /\ WriteMutation(r)
    /\ UNCHANGED <<req, job, invalid>>

\* clearNode: the record and the edges of both directions.
Clear(n) ==
    /\ node' = [node EXCEPT ![n].exists = FALSE, ![n].ver = @ + 1]
    /\ edges' = edges \ (Outgoing(n) \cup Incoming(n))

\* hasHierarchyParent: exactly one distinct target, and it is the parent.
IsChild(c, p) == node[c].exists /\ Targets(c) = {p}
Ambiguous(c) == node[c].exists /\ \E p, q \in Targets(c) : p # q

\* Mutant of PlanHolds: the stored relationships are not compared.
PlanDigestOnly(r) == SourceMatches(r)

\* deleteNodeAttempt: the same record, the same edges, no hierarchy child.
PlanHolds(r) ==
    LET n == req[r].node IN
    /\ SourceMatches(r)
    /\ \A e \in Incoming(n) : e[2] = "child_of" => ~node[e[1]].exists
    /\ Outgoing(n) = req[r].out /\ Incoming(n) = req[r].in

DeleteNode(r) ==
    /\ req[r].pc = "remove"
    /\ IF PlanHolds(r) THEN Clear(req[r].node) ELSE UNCHANGED <<node, edges>>
    /\ Answer(r)
    /\ UNCHANGED <<keys, job, invalid, events>>

DeleteNodeUnknown(r) ==
    /\ req[r].pc = "remove" /\ PlanHolds(r) /\ Event
    /\ Clear(req[r].node)
    /\ UNCHANGED <<keys, req, job, invalid>>

-----------------------------------------------------------------------------
(* RelationshipStore.                                                      *)

\* Add: child_of is reserved, and the ends are read under strict validation only.
AddLink(n, m) ==
    /\ <<n, "link", m>> \notin edges /\ Event
    /\ edges' = edges \cup {<<n, "link", m>>}
    /\ UNCHANGED <<node, keys, req, job, invalid>>

\* Mutant of MayRemove: any edge but the last one.
MayRemoveWhileOthers(n, m) == Cardinality(ChildOf(n)) > 1

\* refuseOnlyParentRemoval: the edge to the stored parent_id stays.  A source
\* without one is gone or a hierarchy root, which needs no parent.
MayRemove(n, m) == ~(node[n].exists /\ node[n].parent = m)

Remove(n, type, m) ==
    /\ <<n, type, m>> \in edges /\ Event
    /\ type = "child_of" => MayRemove(n, m)
    /\ edges' = edges \ {<<n, type, m>>}
    /\ UNCHANGED <<node, keys, req, job, invalid>>

\* What strict validation says of a record changes without a write of it: a
\* property becomes required or optional, a node it refers to is deleted, strict
\* validation is activated.
Revalidate(n) ==
    /\ node[n].exists /\ Event
    /\ invalid' = IF n \in invalid THEN invalid \ {n} ELSE invalid \cup {n}
    /\ UNCHANGED <<node, edges, keys, req, job>>

-----------------------------------------------------------------------------
(* Subtree delete jobs.                                                    *)

Running(j) == job[j].state = "running"

\* StartSubtreeDelete: readRootParent reads the destination of moved children
\* once, here; it refuses a root with several parents and ignores a missing one.
StartSubtreeDelete(r) ==
    LET root == req[r].node
        parents == Targets(root)
        read == 0 < Cardinality(parents) /\ Cardinality(parents) <= EdgePage
        found == {p \in parents : read /\ node[p].exists}
        dest == IF found = {} THEN None ELSE CHOOSE p \in found : TRUE IN
    /\ req[r].pc = "start"
    /\ job' = IF read /\ Cardinality(parents) > 1 THEN job
              ELSE [job EXCEPT ![r] = [state |-> "running", root |-> root,
                                       dest |-> dest, stack |-> <<root>>]]
    /\ Answer(r)
    /\ UNCHANGED <<node, edges, keys, invalid, events>>

\* Range reads return edges by type, then by the other end.
Precedes(e, f) == \/ e[2] = "child_of" /\ f[2] = "link"
                  \/ e[2] = f[2] /\ (e[1] < f[1] \/ (e[1] = f[1] /\ e[3] < f[3]))
FirstPage(set) ==
    {e \in set : Cardinality({f \in set : Precedes(f, e)}) < EdgePage}

\* readDeleteEdges: the incoming edges of the stack's last node one step reads.
Top(j) == job[j].stack[Len(job[j].stack)]
Examined(j) == FirstPage(Incoming(Top(j)))
Candidates(j) ==
    {e \in Examined(j) : e[2] = "child_of" /\ node[e[1]].exists /\ e[1] \notin OnStack(j)}

\* findHierarchyChild: the first child, unless an edge before it is ambiguous.
ChildEdges(j) == {e \in Candidates(j) : IsChild(e[1], Top(j))}
IsFirst(j, e) == e \in ChildEdges(j) /\ \A f \in ChildEdges(j) : ~Precedes(f, e)
MeetsAmbiguous(j) ==
    \E e \in Candidates(j) : /\ Ambiguous(e[1])
                             /\ \A f \in ChildEdges(j) : Precedes(e, f)

\* takeChild and moveChild: a child of the root whose type fits the root's
\* former parent moves there; the job does not look at that parent's ancestors.
MayMove(j, c) ==
    LET dest == job[j].dest IN
    /\ Len(job[j].stack) = 1 /\ dest # None
    /\ node[dest].exists /\ <<c, dest>> \in Under
    /\ Cardinality(ChildOf(c)) <= EdgePage

\* checkStrictRecord at the end of moveChild: the moved record is refused, and
\* the step, which does not commit, fails in the same way when it is repeated.
MoveRefused(j) ==
    \E e \in ChildEdges(j) : IsFirst(j, e) /\ MayMove(j, e[1]) /\ StrictRefuses(e[1])

StepFails(j) == MeetsAmbiguous(j) \/ MoveRefused(j)

\* The step that empties the stack finishes the job.
Stacked(j, stack) ==
    job' = [job EXCEPT ![j].stack = stack,
                       ![j].state = IF stack = <<>> THEN "finished" ELSE @]
Popped(j) == SubSeq(job[j].stack, 1, Len(job[j].stack) - 1)

\* The last node is gone: take it off the stack.
StepGone(j) ==
    /\ Running(j) /\ ~node[Top(j)].exists
    /\ Stacked(j, Popped(j))
    /\ UNCHANGED <<node, edges, keys, req, invalid, events>>

\* A child moves to the root's parent, or joins the stack; the examined edges
\* before it are cleared.
TakeChild(j, first) ==
    LET c == first[1]
        others == {e \in Examined(j) : Precedes(e, first)} IN
    /\ node[Top(j)].exists /\ ~StepFails(j) /\ IsFirst(j, first)
    /\ IF MayMove(j, c)
       THEN /\ node' = [node EXCEPT ![c].parent = job[j].dest, ![c].ver = @ + 1]
            /\ edges' = WithParent(c, job[j].dest) \ others
            /\ UNCHANGED job
       ELSE /\ edges' = edges \ others
            /\ Stacked(j, Append(job[j].stack, c))
            /\ UNCHANGED node
    /\ UNCHANGED <<keys, req, invalid, events>>

StepChild(j) == Running(j) /\ \E first \in Examined(j) : TakeChild(j, first)

Overflows(j) == \/ Cardinality(Incoming(Top(j))) > EdgePage
                \/ Cardinality(Outgoing(Top(j))) > EdgePage

\* Mutant of Page: only the examined edges.
PageIncoming(j) == Examined(j)

Page(j) == Examined(j) \cup FirstPage(Outgoing(Top(j)))

\* Too many edges for one step: clear a page of them.
StepPage(j) ==
    /\ Running(j) /\ node[Top(j)].exists
    /\ ~StepFails(j) /\ ChildEdges(j) = {} /\ Overflows(j)
    /\ edges' = edges \ Page(j)
    /\ UNCHANGED <<node, keys, req, job, invalid, events>>

\* deleteTop.
StepDelete(j) ==
    /\ Running(j) /\ node[Top(j)].exists
    /\ ~StepFails(j) /\ ChildEdges(j) = {} /\ ~Overflows(j)
    /\ Clear(Top(j))
    /\ Stacked(j, Popped(j))
    /\ UNCHANGED <<keys, req, invalid, events>>

\* Past finishedDeleteRetention the record of a finished job goes.
ClearSubtreeDelete(j) ==
    /\ job[j].state = "finished"
    /\ job' = [job EXCEPT ![j].state = "cleared"]
    /\ UNCHANGED <<node, edges, keys, req, invalid, events>>

DeleteSubtreeStep(j) ==
    StepGone(j) \/ StepChild(j) \/ StepPage(j) \/ StepDelete(j)

-----------------------------------------------------------------------------
Init ==
    /\ node = [n \in Nodes |-> [exists |-> n \in Stored,
                                parent |-> IF n \in Stored THEN Parents[n] ELSE None,
                                ver |-> 0, key |-> NoKey]]
    /\ edges \in Edges
    /\ keys = [k \in Keys |-> None]
    /\ req = [r \in Requests |-> NoRequest]
    /\ job = [r \in Requests |-> NoJob]
    /\ invalid = {}
    /\ events = 0

RequestStep(r) ==
    Walk(r) \/ Apply(r) \/ DeleteNode(r) \/ StartSubtreeDelete(r)

Next ==
    \/ \E r \in Requests :
        \/ \E n \in Nodes : \/ \E p \in Nodes : BeginMove(r, n, p)
                            \/ BeginDelete(r, n)
        \/ \E p \in Nodes, k \in Keys \cup {NoKey} : BeginCreate(r, p, k)
        \/ RequestStep(r) \/ ApplyUnknown(r) \/ DeleteNodeUnknown(r)
        \/ DeleteSubtreeStep(r) \/ ClearSubtreeDelete(r)
    \/ \E n \in Nodes : Revalidate(n)
    \/ \E n, m \in Nodes : AddLink(n, m) \/ \E type \in {"child_of", "link"} : Remove(n, type, m)

Spec == Init /\ [][Next]_vars

\* Stuck: the next child of the job's last node has several parents, or would
\* move and strict validation refuses its record.
Blocked(j) == Running(j) /\ node[Top(j)].exists /\ StepFails(j)

\* ResumeSubtreeDeletes takes up every stale job, but its pass ends at the first
\* job whose step fails; requests need not go on with theirs.
Resumed(j) ==
    /\ \A i \in Requests \ {j} : ~Blocked(i)
    /\ DeleteSubtreeStep(j)
FairSpec == Spec /\ \A j \in Requests : WF_vars(Resumed(j))

-----------------------------------------------------------------------------
(* Properties.                                                             *)

\* On the stack of a running job: the job will delete it.
Doomed(n) == \E j \in Requests : Running(j) /\ n \in OnStack(j)
Settled == {n \in Nodes : node[n].exists /\ ~Doomed(n)}

\* The edge to the stored parent_id is there, whatever mix of creates, moves,
\* edge removals and job steps led here: searches and deletes follow edges,
\* cycle checks follow parent_id.
ParentsAgree ==
    \A n \in Settled : IF node[n].parent = None THEN Targets(n) = {}
                       ELSE node[n].parent \in Targets(n)

\* No delete leaves a child behind: the parent of a node that no job is about
\* to delete exists, although children are created and moved while plans and
\* jobs are under way.
NoOrphans ==
    \A n \in Settled : node[n].parent # None => node[node[n].parent].exists

\* Some nodes of the set are in a circle of parents.
Circle(set) == \E C \in SUBSET set : C # {} /\ \A n \in C : node[n].parent \in C
Acyclic == ~Circle({n \in Nodes : node[n].exists})

\* No plan closes a circle: two parent changes that are each fine alone are not
\* both applied when together they would, nor is one whose commit is unknown.
PlansKeepAcyclic ==
    [][Acyclic /\ <<req, events>>' # <<req, events>> => Acyclic']_vars

\* "Self-parenting and ancestor cycles must fail before persistence": no circle
\* of nodes is stored that no running job is about to delete.
NoLastingCircle == ~Circle(Settled)

\* An idempotency key creates one node, with concurrent and repeated requests
\* and a create that runs again after an unknown commit.
OneNodePerKey ==
    \A n, m \in Nodes : node[n].key = node[m].key /\ node[n].key # NoKey => n = m

Ended(j) == job[j].state \in {"finished", "cleared"} /\ ~node[job[j].root].exists

\* A started delete ends with the root gone, across concurrent moves into and
\* out of the subtree and other jobs, unless its next step is refused each time
\* (a child with several parents, or one that strict validation does not let
\* move), or that of a job the resuming pass stops at is.
JobsEnd ==
    \A j \in Requests : Running(j) ~> Ended(j) \/ \E i \in Requests : Blocked(i)
=============================================================================
