--------------------------- MODULE NodeTreeProofs ---------------------------
(***************************************************************************)
(* Parents and edges agree, and no delete leaves an orphan, for every tree,*)
(* every number of requests and jobs, and every page size.                 *)
(*                                                                         *)
(* The two are one induction: a delete finds the children it must not      *)
(* leave behind through the edges, so an orphan could only come from a     *)
(* node whose edge to its parent_id is missing; and an edge goes missing   *)
(* only with its source or when a job clears it, which needs the source on *)
(* the job's stack.                                                        *)
(***************************************************************************)
EXTENDS NodeTree, FiniteSetTheorems, TLAPS

Triples == Nodes \X {"child_of", "link"} \X Nodes

\* What the induction needs of the types.
Records == [exists : BOOLEAN, parent : Nodes \cup {None}, ver : Nat,
            key : Keys \cup {NoKey}]
NodeType == node \in [Nodes -> Records]
EdgeType == edges \subseteq Triples /\ IsFiniteSet(edges)
KeyType == keys \in [Keys -> Nodes \cup {None}]
Plans == [pc : {"idle", "walk", "apply", "remove", "start", "done"},
          kind : {"none", "move", "create", "delete"},
          node : Nodes \cup {None}, target : Nodes \cup {None},
          key : Keys \cup {NoKey}, ver : Nat, at : Nodes \cup {None},
          seen : SUBSET (Nodes \X Nat), out : SUBSET Triples, in : SUBSET Triples]
RequestType == req \in [Requests -> Plans]
Jobs == [state : {"none", "running", "finished", "cleared"},
         root : Nodes \cup {None}, dest : Nodes \cup {None}, stack : Seq(Nodes)]
JobType == job \in [Requests -> Jobs]

\* A request starts its job with its last step, and a running job has a stack.
OneJob ==
    \A r \in Requests : /\ req[r].pc # "done" => job[r].state = "none"
                        /\ Running(r) => job[r].stack # <<>>

\* A plan under way names nodes.
Planned ==
    \A r \in Requests : /\ req[r].pc \in {"walk", "apply", "remove", "start"} => req[r].node \in Nodes
                        /\ req[r].pc \in {"walk", "apply"} => req[r].target \in Nodes
                        /\ req[r].pc = "walk" => req[r].at \in Nodes
                        /\ req[r].kind # "create" => req[r].key = NoKey

TypeInv == NodeType /\ EdgeType /\ KeyType /\ RequestType /\ JobType /\ OneJob /\ Planned
TreeInv == ParentsAgree /\ NoOrphans

-----------------------------------------------------------------------------
(* The steps that only read, and types.                                    *)

LEMMA Constants ==
    /\ None = 0 /\ None \notin Nodes /\ Nodes \subseteq Nat
    /\ Stored \subseteq Nodes /\ \A r \in Requests : New[r] \in Nodes
    /\ EdgePage \in Nat
BY NodeTreeAssumption DEF None, Nodes

LEMMA InitType == Init => TypeInv
<1> SUFFICES ASSUME Init PROVE TypeInv OBVIOUS
<1>1. NodeType
  <2>1. ASSUME NEW n \in Nodes
        PROVE (IF n \in Stored THEN Parents[n] ELSE None) \in Nodes \cup {None}
    BY NodeTreeAssumption, Constants
  <2> QED BY <2>1 DEF Init, NodeType, Records
<1>2. EdgeType
  <2>1. edges \in Edges
    BY DEF Init
  <2>2. edges \subseteq Stored \X {"child_of", "link"} \X Stored /\ IsFiniteSet(edges)
    BY <2>1, NodeTreeAssumption
  <2> QED BY <2>2, Constants DEF EdgeType, Triples
<1>3. KeyType
  BY DEF Init, KeyType
<1>4. RequestType
  BY DEF Init, RequestType, Plans, NoRequest
<1>5. JobType
  BY DEF Init, JobType, Jobs, NoJob
<1>6. OneJob
  BY DEF Init, OneJob, NoJob, NoRequest, Running
<1>7. Planned
  BY DEF Init, Planned, NoRequest
<1> QED BY <1>1, <1>2, <1>3, <1>4, <1>5, <1>6, <1>7 DEF TypeInv

\* A request reads; the tree and the jobs stay.
Reads(r) ==
    \/ \E n \in Nodes : (\E p \in Nodes : BeginMove(r, n, p)) \/ BeginDelete(r, n)
    \/ \E p \in Nodes, k \in Keys \cup {NoKey} : BeginCreate(r, p, k)
    \/ Walk(r)

\* A plan that is well formed, and what a step makes of a request.
GoodPlan(q) ==
    /\ q \in Plans
    /\ q.pc \in {"walk", "apply", "remove", "start"} => q.node \in Nodes
    /\ q.pc \in {"walk", "apply"} => q.target \in Nodes
    /\ q.pc = "walk" => q.at \in Nodes
    /\ q.kind # "create" => q.key = NoKey

LEMMA DonePlan ==
    GoodPlan([NoRequest EXCEPT !.pc = "done"]) /\ [NoRequest EXCEPT !.pc = "done"].pc = "done"
BY DEF GoodPlan, NoRequest, Plans

LEMMA ReadsPlan ==
    ASSUME TypeInv, NEW r \in Requests, Reads(r)
    PROVE \E q : GoodPlan(q) /\ req' = [req EXCEPT ![r] = q] /\ req[r].pc # "done"
<1>1. ASSUME NEW n \in Nodes, NEW p \in Nodes, BeginMove(r, n, p) PROVE \E q : GoodPlan(q) /\ req' = [req EXCEPT ![r] = q] /\ req[r].pc # "done"
  <2>1. node[n].ver \in Nat /\ ChildOf(n) \subseteq Triples
    BY DEF TypeInv, NodeType, Records, EdgeType, ChildOf, Outgoing
  <2>2. PICK q : q = [NoRequest EXCEPT !.pc = "walk", !.kind = "move", !.node = n, !.target = p,
                      !.at = p, !.ver = node[n].ver, !.out = ChildOf(n)]
    OBVIOUS
  <2>3. q = [pc |-> "walk", kind |-> "move", node |-> n, target |-> p, key |-> NoKey,
             ver |-> node[n].ver, at |-> p, seen |-> {}, out |-> ChildOf(n), in |-> {}]
    BY <2>2 DEF NoRequest
  <2>4. GoodPlan(q)
    BY <2>1, <2>3 DEF GoodPlan, Plans
  <2> QED BY <1>1, <2>2, <2>4 DEF BeginMove
<1>2. ASSUME NEW n \in Nodes, BeginDelete(r, n) PROVE \E q : GoodPlan(q) /\ req' = [req EXCEPT ![r] = q] /\ req[r].pc # "done"
  <2>1. node[n].ver \in Nat /\ Outgoing(n) \subseteq Triples /\ Incoming(n) \subseteq Triples
    BY DEF TypeInv, NodeType, Records, EdgeType, Incoming, Outgoing
  <2>2. PICK q : q = [NoRequest EXCEPT !.pc = IF DeletesAlone(n) THEN "remove" ELSE "start",
                  !.kind = "delete", !.node = n, !.ver = node[n].ver,
                  !.out = Outgoing(n), !.in = Incoming(n)]
    OBVIOUS
  <2>3. q = [pc |-> IF DeletesAlone(n) THEN "remove" ELSE "start", kind |-> "delete", node |-> n,
             target |-> None, key |-> NoKey, ver |-> node[n].ver, at |-> None, seen |-> {},
             out |-> Outgoing(n), in |-> Incoming(n)]
    BY <2>2 DEF NoRequest
  <2>4. GoodPlan(q)
    BY <2>1, <2>3 DEF GoodPlan, Plans
  <2> QED BY <1>2, <2>2, <2>4 DEF BeginDelete
<1>3. ASSUME NEW p \in Nodes, NEW k \in Keys \cup {NoKey}, BeginCreate(r, p, k)
      PROVE \E q : GoodPlan(q) /\ req' = [req EXCEPT ![r] = q] /\ req[r].pc # "done"
  <2>1. New[r] \in Nodes
    BY Constants
  <2>2. PICK q : q = [NoRequest EXCEPT !.pc = "walk", !.kind = "create", !.node = New[r],
                      !.target = p, !.at = p, !.key = k]
    OBVIOUS
  <2>3. q = [pc |-> "walk", kind |-> "create", node |-> New[r], target |-> p, key |-> k,
             ver |-> 0, at |-> p, seen |-> {}, out |-> {}, in |-> {}]
    BY <2>2 DEF NoRequest
  <2>4. GoodPlan(q)
    BY <2>1, <2>3 DEF GoodPlan, Plans
  <2> QED BY <1>3, <2>2, <2>4, DonePlan DEF BeginCreate, Answer
<1>4. ASSUME Walk(r) PROVE \E q : GoodPlan(q) /\ req' = [req EXCEPT ![r] = q] /\ req[r].pc # "done"
  <2> DEFINE at == req[r].at
             next == [req[r] EXCEPT !.seen = req[r].seen \cup {<<at, node[at].ver>>}, !.at = node[at].parent,
                          !.pc = IF node[at].parent = None THEN "apply" ELSE "walk"]
  <2>1. req[r] \in Plans /\ req[r].pc = "walk" /\ req[r].node \in Nodes /\ req[r].target \in Nodes /\ at \in Nodes
          /\ (req[r].kind # "create" => req[r].key = NoKey)
    BY <1>4 DEF Walk, TypeInv, RequestType, Planned
  <2>2. GoodPlan([req[r] EXCEPT !.pc = "apply"])
    BY <2>1 DEF GoodPlan, Plans
  <2>3. node[at].ver \in Nat /\ node[at].parent \in Nodes \cup {None}
    BY <2>1 DEF TypeInv, NodeType, Records
  <2>4. <<at, node[at].ver>> \in Nodes \X Nat
    BY <2>1, <2>3
  <2>5. next \in Plans /\ next.node \in Nodes /\ next.target \in Nodes
          /\ (next.pc = "walk" => next.at \in Nodes)
          /\ (next.kind # "create" => next.key = NoKey)
    BY <2>1, <2>3, <2>4 DEF Plans
  <2>6. GoodPlan(next)
    BY <2>5 DEF GoodPlan
  <2>7. \/ req' = [req EXCEPT ![r] = [NoRequest EXCEPT !.pc = "done"]]
        \/ req' = [req EXCEPT ![r] = [req[r] EXCEPT !.pc = "apply"]]
        \/ req' = [req EXCEPT ![r] = next]
    <3> DEFINE stop == \/ at = req[r].node \/ at \in {s[1] : s \in req[r].seen}
                       \/ at = req[r].target /\ ~node[at].exists
    <3>1. CASE stop
      BY <1>4, <3>1 DEF Walk, Answer
    <3>2. CASE ~stop /\ ~node[at].exists
      <4>1. req' = [req EXCEPT ![r].pc = "apply"]
        BY <1>4, <3>2 DEF Walk
      <4> QED BY <4>1
    <3>3. CASE ~stop /\ node[at].exists
      <4>1. req' = [req EXCEPT ![r] = next]
        BY <1>4, <3>3 DEF Walk
      <4> QED BY <4>1
    <3> QED BY <3>1, <3>2, <3>3
  <2> HIDE DEF next
  <2> QED BY <2>1, <2>2, <2>6, <2>7, DonePlan
<1> QED BY <1>1, <1>2, <1>3, <1>4 DEF Reads

LEMMA ReadsType ==
    ASSUME TypeInv, NEW r \in Requests, Reads(r) PROVE TypeInv'
<1>1. UNCHANGED <<node, edges, keys, job>>
  BY DEF Reads, BeginMove, BeginDelete, BeginCreate, Walk
<1>2. PICK q : GoodPlan(q) /\ req' = [req EXCEPT ![r] = q] /\ req[r].pc # "done"
  BY ReadsPlan
<1>3. NodeType' /\ EdgeType' /\ KeyType' /\ JobType'
  BY <1>1 DEF TypeInv, NodeType, EdgeType, KeyType, JobType
<1>4. RequestType'
  BY <1>2 DEF TypeInv, RequestType, GoodPlan
<1>5. OneJob'
  BY <1>1, <1>2 DEF TypeInv, OneJob, Running, RequestType
<1>6. Planned'
  BY <1>1, <1>2 DEF TypeInv, Planned, RequestType, GoodPlan
<1> QED BY <1>3, <1>4, <1>5, <1>6 DEF TypeInv

-----------------------------------------------------------------------------
(* Edges and parents as sets.                                              *)

\* The targets a set of edges gives a node.
LEMMA TargetsAre ==
    ASSUME EdgeType, NEW n \in Nodes
    PROVE Targets(n) = {p \in Nodes : <<n, "child_of", p>> \in edges}
<1>1. ASSUME NEW p \in Targets(n) PROVE p \in Nodes /\ <<n, "child_of", p>> \in edges
  <2>1. PICK e \in edges : e[1] = n /\ e[2] = "child_of" /\ e[3] = p
    BY DEF Targets, ChildOf, Outgoing
  <2>2. e \in Triples
    BY <2>1 DEF EdgeType
  <2>3. e = <<n, "child_of", p>> /\ p \in Nodes
    BY <2>1, <2>2 DEF Triples
  <2> QED BY <2>1, <2>3
<1>2. ASSUME NEW p \in Nodes, <<n, "child_of", p>> \in edges PROVE p \in Targets(n)
  <2>1. PICK e : e = <<n, "child_of", p>>
    OBVIOUS
  <2>2. e \in ChildOf(n) /\ e[3] = p
    BY <1>2, <2>1 DEF ChildOf, Outgoing
  <2> QED BY <2>2 DEF Targets
<1> QED BY <1>1, <1>2

\* What the two invariants say of one node.
Fits(n) ==
    /\ IF node[n].parent = None THEN \A p \in Nodes : <<n, "child_of", p>> \notin edges
       ELSE <<n, "child_of", node[n].parent>> \in edges
    /\ node[n].parent # None => node[node[n].parent].exists

AllFit == \A n \in Nodes : node[n].exists /\ ~Doomed(n) => Fits(n)

LEMMA TreeForm == TypeInv => (TreeInv <=> AllFit)
<1> SUFFICES ASSUME TypeInv PROVE TreeInv <=> AllFit OBVIOUS
<1>1. ASSUME NEW n \in Nodes
      PROVE (IF node[n].parent = None THEN Targets(n) = {} ELSE node[n].parent \in Targets(n))
             <=> (IF node[n].parent = None THEN \A p \in Nodes : <<n, "child_of", p>> \notin edges
                  ELSE <<n, "child_of", node[n].parent>> \in edges)
  <2>1. Targets(n) = {p \in Nodes : <<n, "child_of", p>> \in edges}
    BY TargetsAre DEF TypeInv
  <2>2. node[n].parent \in Nodes \cup {None}
    BY DEF TypeInv, NodeType, Records
  <2> QED BY <2>1, <2>2
<1> QED BY <1>1 DEF TreeInv, ParentsAgree, NoOrphans, Settled, Fits, AllFit

-----------------------------------------------------------------------------
(* The writes, and types.                                                  *)

LEMMA WriteType ==
    ASSUME TypeInv, NEW r \in Requests, req[r].pc = "apply", WriteMutation(r)
    PROVE NodeType' /\ EdgeType' /\ KeyType'
<1> DEFINE n == req[r].node
           p == req[r].target
<1>1. n \in Nodes /\ p \in Nodes /\ req[r].key \in Keys \cup {NoKey}
  BY DEF TypeInv, Planned, RequestType, Plans
<1>2. NodeType'
  <2>1. node[n] \in Records
    BY <1>1 DEF TypeInv, NodeType
  <2>2. PICK new : new = [exists |-> TRUE, parent |-> p, ver |-> node[n].ver + 1,
                          key |-> IF req[r].kind = "create" THEN req[r].key ELSE node[n].key]
    OBVIOUS
  <2>3. new \in Records
    BY <1>1, <2>1, <2>2 DEF Records
  <2>4. node' = [node EXCEPT ![n] = new]
    BY <2>2 DEF WriteMutation
  <2> QED BY <2>3, <2>4 DEF TypeInv, NodeType
<1>3. EdgeType'
  <2>1. edges' = (edges \ ChildOf(n)) \cup {<<n, "child_of", p>>}
    BY DEF WriteMutation, WithParent
  <2>2. <<n, "child_of", p>> \in Triples
    BY <1>1 DEF Triples
  <2>3. IsFiniteSet(edges \ ChildOf(n))
    BY FS_Difference DEF TypeInv, EdgeType
  <2>4. IsFiniteSet(edges')
    BY <2>1, <2>3, FS_AddElement
  <2> QED BY <2>1, <2>2, <2>4 DEF TypeInv, EdgeType
<1>4. KeyType'
  BY <1>1 DEF TypeInv, KeyType, WriteMutation
<1> QED BY <1>2, <1>3, <1>4

LEMMA ClearType ==
    ASSUME TypeInv, NEW n \in Nodes, Clear(n) PROVE NodeType' /\ EdgeType'
<1>1. NodeType'
  BY DEF TypeInv, NodeType, Records, Clear
<1>2. EdgeType'
  BY FS_Subset DEF TypeInv, EdgeType, Clear
<1> QED BY <1>1, <1>2

LEMMA AnswerType ==
    ASSUME TypeInv, NEW r \in Requests, Answer(r), job' = job PROVE RequestType' /\ OneJob' /\ Planned' /\ JobType'
<1>1. PICK q : GoodPlan(q) /\ req' = [req EXCEPT ![r] = q] /\ q.pc = "done"
  BY DonePlan DEF Answer
<1>2. RequestType'
  BY <1>1 DEF TypeInv, RequestType, GoodPlan
<1>3. OneJob'
  BY <1>1 DEF TypeInv, OneJob, Running, RequestType
<1>4. Planned'
  BY <1>1 DEF TypeInv, Planned, RequestType, GoodPlan
<1> QED BY <1>2, <1>3, <1>4 DEF TypeInv, JobType

LEMMA SameRequests ==
    ASSUME TypeInv, UNCHANGED <<req, job>> PROVE RequestType' /\ OneJob' /\ Planned' /\ JobType'
BY DEF TypeInv, RequestType, OneJob, Running, Planned, JobType

LEMMA TreeFormNext ==
    ASSUME TypeInv', \A n \in Nodes : node'[n].exists /\ ~Doomed(n)' => Fits(n)'
    PROVE TreeInv'
<1>1. (TypeInv => (TreeInv <=> AllFit))'
  BY TreeForm, PTL
<1> QED BY <1>1 DEF AllFit

\* The tree and the jobs are what they were.
LEMMA SameTree ==
    ASSUME TypeInv, TypeInv', TreeInv, UNCHANGED <<node, edges, job>> PROVE TreeInv'
BY DEF TreeInv, ParentsAgree, NoOrphans, Settled, Doomed, Running, OnStack, Targets, ChildOf, Outgoing

LEMMA ReadsKeep ==
    ASSUME TypeInv, TreeInv, NEW r \in Requests, Reads(r) PROVE TypeInv' /\ TreeInv'
<1>1. TypeInv'
  BY ReadsType
<1>2. UNCHANGED <<node, edges, job>>
  BY DEF Reads, BeginMove, BeginDelete, BeginCreate, Walk
<1> QED BY <1>1, <1>2, SameTree

\* A plan that is applied gives its node a parent that exists.
LEMMA WriteKeeps ==
    ASSUME TypeInv, TypeInv', TreeInv, NEW r \in Requests, req[r].pc = "apply", Accepted(r),
           WriteMutation(r), job' = job
    PROVE TreeInv'
<1> DEFINE n == req[r].node
           p == req[r].target
<1>1. n \in Nodes /\ p \in Nodes /\ None \notin Nodes
  BY Constants DEF TypeInv, Planned
<1>2. node[p].exists /\ p # n
  <2>1. PICK s \in req[r].seen : s[1] = p
    BY DEF Accepted, ChainHolds
  <2>2. p # n
    BY DEF Accepted, ChainHolds
  <2> QED BY <2>1, <2>2 DEF Accepted, GraphMatches
<1>3. \A m \in Nodes : node[m].exists /\ ~Doomed(m) => Fits(m)
  BY TreeForm DEF AllFit
<1>4. node'[n].exists /\ node'[n].parent = p /\ \A m \in Nodes \ {n} : node'[m] = node[m]
  BY <1>1 DEF WriteMutation, TypeInv, NodeType
<1>5. edges' = (edges \ ChildOf(n)) \cup {<<n, "child_of", p>>}
  BY DEF WriteMutation, WithParent
<1>6. \A m \in Nodes : Doomed(m)' <=> Doomed(m)
  BY DEF Doomed, Running, OnStack
<1>7. ASSUME NEW m \in Nodes, node'[m].exists, ~Doomed(m)' PROVE Fits(m)'
  <2>1. CASE m = n
    BY <1>1, <1>2, <1>4, <1>5, <2>1 DEF Fits
  <2>2. CASE m # n
    <3>1. node'[m] = node[m] /\ Fits(m)
      BY <1>3, <1>4, <1>6, <1>7, <2>2
    <3>2. \A q : <<m, "child_of", q>> \in edges' <=> <<m, "child_of", q>> \in edges
      BY <1>5, <2>2 DEF ChildOf, Outgoing
    <3>3. \A q \in Nodes : node[q].exists => node'[q].exists
      BY <1>4
    <3>4. node[m].parent \in Nodes \cup {None}
      BY DEF TypeInv, NodeType, Records
    <3> QED BY <3>1, <3>2, <3>3, <3>4 DEF Fits
  <2> QED BY <2>1, <2>2
<1> QED BY <1>7, TreeFormNext

LEMMA ApplyKeeps ==
    ASSUME TypeInv, TreeInv, NEW r \in Requests, Apply(r) \/ ApplyUnknown(r)
    PROVE TypeInv' /\ TreeInv'
<1>1. req[r].pc = "apply" /\ job' = job
  BY DEF Apply, ApplyUnknown
<1>2. RequestType' /\ OneJob' /\ Planned' /\ JobType'
  BY AnswerType, SameRequests DEF Apply, ApplyUnknown
<1>3. CASE Accepted(r) /\ WriteMutation(r)
  <2>1. TypeInv'
    BY <1>1, <1>2, <1>3, WriteType DEF TypeInv
  <2> QED BY <1>1, <1>3, <2>1, WriteKeeps
<1>4. CASE UNCHANGED <<node, edges, keys>>
  <2>1. TypeInv'
    BY <1>2, <1>4 DEF TypeInv, NodeType, EdgeType, KeyType
  <2> QED BY <1>1, <1>4, <2>1, SameTree
<1> QED BY <1>3, <1>4 DEF Apply, ApplyUnknown

\* A node without settled children goes with its edges.
LEMMA ClearKeeps ==
    ASSUME TypeInv, TypeInv', TreeInv, NEW n \in Nodes, Clear(n),
           \A m \in Nodes : node[m].exists /\ m # n /\ ~Doomed(m) => node[m].parent # n,
           \A m \in Nodes : node[m].exists /\ m # n /\ Doomed(m) => Doomed(m)'
    PROVE TreeInv'
<1>1. \A m \in Nodes : node[m].exists /\ ~Doomed(m) => Fits(m)
  BY TreeForm DEF AllFit
<1>2. ~node'[n].exists /\ \A m \in Nodes \ {n} : node'[m] = node[m]
  BY DEF Clear, TypeInv, NodeType, Records
<1>3. ASSUME NEW m \in Nodes, node'[m].exists, ~Doomed(m)' PROVE Fits(m)'
  <2>1. m # n /\ node'[m] = node[m] /\ node[m].exists /\ ~Doomed(m)
    BY <1>2, <1>3
  <2>2. Fits(m) /\ node[m].parent # n
    BY <1>1, <2>1
  <2>3. \A q \in Nodes \ {n} : <<m, "child_of", q>> \in edges' <=> <<m, "child_of", q>> \in edges
    BY <2>1 DEF Clear, Outgoing, Incoming
  <2>4. edges' \subseteq edges
    BY DEF Clear
  <2>5. node[m].parent \in Nodes \cup {None}
    BY DEF TypeInv, NodeType, Records
  <2> QED BY <1>2, <2>1, <2>2, <2>3, <2>4, <2>5 DEF Fits
<1> QED BY <1>3, TreeFormNext

LEMMA DeleteKeeps ==
    ASSUME TypeInv, TreeInv, NEW r \in Requests, DeleteNode(r) \/ DeleteNodeUnknown(r)
    PROVE TypeInv' /\ TreeInv'
<1> DEFINE n == req[r].node
<1>1. req[r].pc = "remove" /\ job' = job /\ keys' = keys /\ n \in Nodes
  BY DEF DeleteNode, DeleteNodeUnknown, TypeInv, Planned
<1>2. RequestType' /\ OneJob' /\ Planned' /\ JobType'
  BY AnswerType, SameRequests DEF DeleteNode, DeleteNodeUnknown
<1>3. CASE PlanHolds(r) /\ Clear(n)
  <2>1. TypeInv'
    BY <1>1, <1>2, <1>3, ClearType DEF TypeInv, KeyType
  <2>2. ASSUME NEW m \in Nodes, node[m].exists, ~Doomed(m) PROVE node[m].parent # n
    <3>1. SUFFICES ASSUME node[m].parent = n PROVE FALSE
      OBVIOUS
    <3>2. Fits(m)
      BY <2>2, TreeForm DEF AllFit
    <3>3. PICK e : e = <<m, "child_of", n>>
      OBVIOUS
    <3>4. e \in Incoming(n) /\ e[2] = "child_of" /\ e[1] = m
      BY <1>1, <3>1, <3>2, <3>3, Constants DEF Fits, Incoming
    <3> QED BY <1>3, <2>2, <3>4 DEF PlanHolds
  <2>3. \A m \in Nodes : Doomed(m)' <=> Doomed(m)
    BY <1>1 DEF Doomed, Running, OnStack
  <2> QED BY <1>1, <1>3, <2>1, <2>2, <2>3, ClearKeeps
<1>4. CASE UNCHANGED <<node, edges>>
  <2>1. TypeInv'
    BY <1>1, <1>2, <1>4 DEF TypeInv, NodeType, EdgeType, KeyType
  <2> QED BY <1>1, <1>4, <2>1, SameTree
<1> QED BY <1>3, <1>4 DEF DeleteNode, DeleteNodeUnknown

\* A settled node keeps the edge to its parent when only edges it can spare go
\* and no child_of edge comes.
LEMMA FewerEdges ==
    ASSUME TypeInv, TypeInv', TreeInv, node' = node,
           \A m \in Nodes : node[m].exists /\ Doomed(m) => Doomed(m)',
           \A m, p \in Nodes : <<m, "child_of", p>> \in edges' => <<m, "child_of", p>> \in edges,
           \A m \in Nodes : node[m].exists /\ ~Doomed(m)' /\ <<m, "child_of", node[m].parent>> \in edges
                                => <<m, "child_of", node[m].parent>> \in edges'
    PROVE TreeInv'
<1>1. ASSUME NEW m \in Nodes, node'[m].exists, ~Doomed(m)' PROVE Fits(m)'
  <2>1. Fits(m)
    BY <1>1, TreeForm DEF AllFit
  <2> QED BY <1>1, <2>1 DEF Fits
<1> QED BY <1>1, TreeFormNext

LEMMA RevalidateKeeps ==
    ASSUME TypeInv, TreeInv, NEW n \in Nodes, Revalidate(n) PROVE TypeInv' /\ TreeInv'
<1>1. UNCHANGED <<node, edges, keys, req, job>>
  BY DEF Revalidate
<1>2. TypeInv'
  BY <1>1, SameRequests DEF TypeInv, NodeType, EdgeType, KeyType
<1> QED BY <1>1, <1>2, SameTree

LEMMA RelationshipsKeep ==
    ASSUME TypeInv, TreeInv, NEW n \in Nodes, NEW m \in Nodes,
           AddLink(n, m) \/ \E type \in {"child_of", "link"} : Remove(n, type, m)
    PROVE TypeInv' /\ TreeInv'
<1>1. UNCHANGED <<node, keys, req, job>>
  BY DEF AddLink, Remove
<1>2. \A x \in Nodes : Doomed(x)' <=> Doomed(x)
  BY <1>1 DEF Doomed, Running, OnStack
<1>3. CASE AddLink(n, m)
  <2>1. <<n, "link", m>> \in Triples
    BY DEF Triples
  <2>2. EdgeType'
    BY <1>3, <2>1, FS_AddElement DEF AddLink, TypeInv, EdgeType
  <2>3. TypeInv'
    BY <1>1, <2>2, SameRequests DEF TypeInv, NodeType, KeyType
  <2>4. \A x, y \in Nodes : <<x, "child_of", y>> \in edges' <=> <<x, "child_of", y>> \in edges
    BY <1>3 DEF AddLink
  <2>5. edges \subseteq edges'
    BY <1>3 DEF AddLink
  <2> QED BY <1>1, <1>2, <2>3, <2>4, <2>5, FewerEdges
<1>4. CASE \E type \in {"child_of", "link"} : Remove(n, type, m)
  <2>1. PICK type \in {"child_of", "link"} : Remove(n, type, m)
    BY <1>4
  <2>2. EdgeType'
    BY <2>1, FS_Subset DEF Remove, TypeInv, EdgeType
  <2>3. TypeInv'
    BY <1>1, <2>2, SameRequests DEF TypeInv, NodeType, KeyType
  <2>4. ASSUME NEW x \in Nodes, node[x].exists, ~Doomed(x)',
               <<x, "child_of", node[x].parent>> \in edges
        PROVE <<x, "child_of", node[x].parent>> \in edges'
    <3>1. SUFFICES ASSUME x = n, type = "child_of", node[x].parent = m PROVE FALSE
      BY <2>1, <2>4 DEF Remove
    <3> QED BY <2>1, <2>4, <3>1 DEF Remove, MayRemove
  <2> QED BY <1>1, <1>2, <2>1, <2>3, <2>4, FewerEdges DEF Remove
<1> QED BY <1>3, <1>4

-----------------------------------------------------------------------------
(* Jobs.                                                                   *)

\* A running job has a last node, and it is doomed.
LEMMA TopDoomed ==
    ASSUME TypeInv, NEW j \in Requests, Running(j)
    PROVE Top(j) \in Nodes /\ Top(j) \in OnStack(j) /\ Doomed(Top(j)) /\ Len(job[j].stack) \in Nat \ {0}
<1>1. job[j].stack \in Seq(Nodes) /\ job[j].stack # <<>>
  BY DEF TypeInv, JobType, Jobs, OneJob
<1>2. Len(job[j].stack) \in 1..Len(job[j].stack) /\ Len(job[j].stack) \in Nat \ {0}
  BY <1>1
<1> QED BY <1>1, <1>2 DEF Top, OnStack, Doomed

\* A step that moves the stack leaves a well-formed job.
LEMMA StackedType ==
    ASSUME TypeInv, NEW j \in Requests, Running(j), NEW stack \in Seq(Nodes), Stacked(j, stack),
           req' = req
    PROVE /\ JobType' /\ OneJob' /\ Planned' /\ RequestType'
          /\ \A i \in Requests \ {j} : job'[i] = job[i]
          /\ job'[j].stack = stack
          /\ job'[j].state = (IF stack = <<>> THEN "finished" ELSE "running")
<1>1. job[j] \in Jobs /\ job[j].state = "running"
  BY DEF TypeInv, JobType, Running
<1>2. PICK new : new = [job[j] EXCEPT !.stack = stack,
                          !.state = IF stack = <<>> THEN "finished" ELSE "running"]
  OBVIOUS
<1>3. new \in Jobs /\ new.stack = stack /\ new.state = (IF stack = <<>> THEN "finished" ELSE "running")
  BY <1>1, <1>2 DEF Jobs
<1>4. job' = [job EXCEPT ![j] = new]
  BY <1>1, <1>2 DEF Stacked, TypeInv, JobType, Jobs
<1>5. JobType' /\ job'[j] = new /\ \A i \in Requests \ {j} : job'[i] = job[i]
  BY <1>3, <1>4 DEF TypeInv, JobType
<1>6. OneJob'
  <2>1. req[j].pc = "done"
    BY <1>1 DEF TypeInv, OneJob
  <2> QED BY <1>3, <1>5, <2>1 DEF TypeInv, OneJob, Running
<1>7. Planned' /\ RequestType'
  BY DEF TypeInv, Planned, RequestType
<1> QED BY <1>3, <1>5, <1>6, <1>7

\* Taking the last node off a stack spares no other node.
LEMMA PoppedDoomed ==
    ASSUME TypeInv, NEW j \in Requests, Running(j), Stacked(j, Popped(j)), req' = req
    PROVE /\ JobType' /\ OneJob' /\ Planned' /\ RequestType'
          /\ \A m \in Nodes : Doomed(m) /\ m # Top(j) => Doomed(m)'
<1> DEFINE old == job[j].stack
<1>1. old \in Seq(Nodes) /\ Len(old) \in Nat \ {0}
  BY TopDoomed DEF TypeInv, JobType, Jobs
<1>2. PICK stack : stack = Popped(j)
  OBVIOUS
<1>3. stack \in Seq(Nodes) /\ Len(stack) = Len(old) - 1
        /\ \A i \in 1..(Len(old) - 1) : stack[i] = old[i]
  BY <1>1, <1>2 DEF Popped
<1>4. /\ JobType' /\ OneJob' /\ Planned' /\ RequestType'
      /\ \A i \in Requests \ {j} : job'[i] = job[i]
      /\ job'[j].stack = stack
      /\ job'[j].state = (IF stack = <<>> THEN "finished" ELSE "running")
  BY <1>2, <1>3, StackedType
<1>5. ASSUME NEW m \in Nodes, Doomed(m), m # Top(j) PROVE Doomed(m)'
  <2>1. PICK k \in Requests : Running(k) /\ m \in OnStack(k)
    BY <1>5 DEF Doomed
  <2>2. CASE k # j
    <3>1. job'[k] = job[k]
      BY <1>4, <2>2
    <3> QED BY <2>1, <3>1 DEF Doomed, Running, OnStack
  <2>3. CASE k = j
    <3>1. PICK i \in 1..Len(old) : m = old[i]
      BY <2>1, <2>3 DEF OnStack
    <3>2. i \in 1..Len(stack) /\ stack[i] = m
      BY <1>1, <1>3, <1>5, <3>1 DEF Top
    <3>3. stack # <<>>
      BY <1>3, <3>2
    <3> QED BY <1>4, <3>2, <3>3 DEF Doomed, Running, OnStack
  <2> QED BY <2>2, <2>3
<1> QED BY <1>4, <1>5

LEMMA StepGoneKeeps ==
    ASSUME TypeInv, TreeInv, NEW j \in Requests, StepGone(j) PROVE TypeInv' /\ TreeInv'
<1>1. Running(j) /\ ~node[Top(j)].exists /\ Stacked(j, Popped(j)) /\ UNCHANGED <<node, edges, keys, req>>
  BY DEF StepGone
<1>2. /\ JobType' /\ OneJob' /\ Planned' /\ RequestType'
      /\ \A m \in Nodes : Doomed(m) /\ m # Top(j) => Doomed(m)'
  BY <1>1, PoppedDoomed
<1>3. TypeInv'
  BY <1>1, <1>2 DEF TypeInv, NodeType, EdgeType, KeyType
<1> QED BY <1>1, <1>2, <1>3, FewerEdges

LEMMA StartKeeps ==
    ASSUME TypeInv, TreeInv, NEW r \in Requests, StartSubtreeDelete(r) PROVE TypeInv' /\ TreeInv'
<1> DEFINE root == req[r].node
<1>1. req[r].pc = "start" /\ root \in Nodes /\ UNCHANGED <<node, edges, keys>> /\ Answer(r)
  BY DEF StartSubtreeDelete, TypeInv, Planned
<1>2. job[r].state = "none"
  BY <1>1 DEF TypeInv, OneJob
<1>3. CASE job' = job
  <2>1. TypeInv'
    BY <1>1, <1>3, AnswerType DEF TypeInv, NodeType, EdgeType, KeyType
  <2> QED BY <1>1, <1>3, <2>1, SameTree
<1>4. CASE job' # job
  <2>1. PICK dest \in Nodes \cup {None} :
            job' = [job EXCEPT ![r] = [state |-> "running", root |-> root,
                                       dest |-> dest, stack |-> <<root>>]]
    <3> DEFINE parents == Targets(root)
               read == 0 < Cardinality(parents) /\ Cardinality(parents) <= EdgePage
               found == {p \in parents : read /\ node[p].exists}
               to == IF found = {} THEN None ELSE CHOOSE p \in found : TRUE
    <3>1. parents \subseteq Nodes
      BY <1>1, TargetsAre DEF TypeInv
    <3>2. to \in Nodes \cup {None}
      BY <3>1
    <3>3. job' = [job EXCEPT ![r] = [state |-> "running", root |-> root,
                                     dest |-> to, stack |-> <<root>>]]
      BY <1>4 DEF StartSubtreeDelete
    <3> HIDE DEF to
    <3> QED BY <3>2, <3>3
  <2>2. PICK new : new = [state |-> "running", root |-> root, dest |-> dest, stack |-> <<root>>]
    OBVIOUS
  <2>3. new \in Jobs /\ new.state = "running" /\ new.stack # <<>>
    BY <1>1, <2>1, <2>2 DEF Jobs
  <2>4. PICK q : GoodPlan(q) /\ req' = [req EXCEPT ![r] = q] /\ q.pc = "done"
    BY <1>1, DonePlan DEF Answer
  <2>5. JobType' /\ job'[r] = new /\ \A i \in Requests \ {r} : job'[i] = job[i]
    BY <2>1, <2>2, <2>3 DEF TypeInv, JobType
  <2>6. RequestType' /\ req'[r] = q /\ \A i \in Requests \ {r} : req'[i] = req[i]
    BY <2>4 DEF TypeInv, RequestType, GoodPlan
  <2>7. OneJob' /\ Planned'
    BY <2>3, <2>4, <2>5, <2>6 DEF TypeInv, OneJob, Planned, Running, GoodPlan
  <2>8. TypeInv'
    BY <1>1, <2>5, <2>6, <2>7 DEF TypeInv, NodeType, EdgeType, KeyType
  <2>9. ASSUME NEW m \in Nodes, Doomed(m) PROVE Doomed(m)'
    <3>1. PICK k \in Requests : Running(k) /\ m \in OnStack(k)
      BY <2>9 DEF Doomed
    <3>2. k # r
      BY <1>2, <3>1 DEF Running
    <3>3. job'[k] = job[k]
      BY <2>5, <3>2
    <3> QED BY <3>1, <3>3 DEF Doomed, Running, OnStack
  <2> QED BY <1>1, <2>8, <2>9, FewerEdges
<1> QED BY <1>3, <1>4

LEMMA ClearJobKeeps ==
    ASSUME TypeInv, TreeInv, NEW j \in Requests, ClearSubtreeDelete(j) PROVE TypeInv' /\ TreeInv'
<1>1. job[j].state = "finished" /\ job' = [job EXCEPT ![j].state = "cleared"]
        /\ UNCHANGED <<node, edges, keys, req>>
  BY DEF ClearSubtreeDelete
<1>2. JobType' /\ job'[j].state = "cleared" /\ \A i \in Requests \ {j} : job'[i] = job[i]
  BY <1>1 DEF TypeInv, JobType, Jobs
<1>3. OneJob'
  BY <1>1, <1>2 DEF TypeInv, OneJob, Running
<1>4. TypeInv'
  BY <1>1, <1>2, <1>3 DEF TypeInv, NodeType, EdgeType, KeyType, RequestType, Planned
<1>5. ASSUME NEW m \in Nodes, Doomed(m) PROVE Doomed(m)'
  <2>1. PICK k \in Requests : Running(k) /\ m \in OnStack(k)
    BY <1>5 DEF Doomed
  <2>2. k # j
    BY <1>1, <2>1 DEF Running
  <2>3. job'[k] = job[k]
    BY <1>2, <2>2
  <2> QED BY <2>1, <2>3 DEF Doomed, Running, OnStack
<1> QED BY <1>1, <1>4, <1>5, FewerEdges

\* What a job examines are edges to its last node.
LEMMA ExaminedEdges ==
    ASSUME TypeInv, NEW j \in Requests, NEW e \in Examined(j)
    PROVE e \in edges /\ e = <<e[1], e[2], Top(j)>> /\ e[1] \in Nodes /\ e[2] \in {"child_of", "link"}
<1>1. e \in edges /\ e[3] = Top(j)
  BY DEF Examined, FirstPage, Incoming
<1>2. e \in Triples
  BY <1>1 DEF TypeInv, EdgeType
<1> QED BY <1>1, <1>2 DEF Triples

\* A settled child whose edge is examined is a child to take, or stops the step.
LEMMA SettledChild ==
    ASSUME TypeInv, NEW j \in Requests, Running(j), NEW m \in Nodes, node[m].exists, ~Doomed(m),
           NEW e \in Examined(j), e = <<m, "child_of", Top(j)>>
    PROVE e \in ChildEdges(j) \/ (e \in Candidates(j) /\ Ambiguous(m))
<1>1. m \notin OnStack(j)
  BY DEF Doomed
<1>2. e \in Candidates(j)
  BY <1>1 DEF Candidates
<1>3. Top(j) \in Targets(m)
  BY ExaminedEdges, TopDoomed, TargetsAre DEF TypeInv
<1>4. CASE Targets(m) = {Top(j)}
  BY <1>2, <1>4 DEF ChildEdges, IsChild
<1>5. CASE Targets(m) # {Top(j)}
  BY <1>2, <1>3, <1>5 DEF Ambiguous
<1> QED BY <1>4, <1>5

\* Among the edges before the first child none is a settled node's.
LEMMA OthersAreSpare ==
    ASSUME TypeInv, NEW j \in Requests, Running(j), NEW first \in Examined(j), IsFirst(j, first), ~StepFails(j),
           NEW m \in Nodes, node[m].exists, ~Doomed(m),
           NEW e \in Examined(j), Precedes(e, first)
    PROVE e # <<m, "child_of", Top(j)>>
<1>1. SUFFICES ASSUME e = <<m, "child_of", Top(j)>> PROVE FALSE
  OBVIOUS
<1>2. \A f \in ChildEdges(j) : ~Precedes(f, first)
  BY DEF IsFirst
<1>3. e \notin ChildEdges(j)
  BY <1>2
<1>4. e \in Candidates(j) /\ Ambiguous(m) /\ e[1] = m
  BY <1>1, <1>3, SettledChild
<1>5. ASSUME NEW f \in ChildEdges(j) PROVE Precedes(e, f)
  <2>1. f \in Examined(j) /\ f[2] = "child_of" /\ ~Precedes(f, first)
    BY <1>2 DEF ChildEdges, Candidates
  <2>2. first[2] = "child_of"
    BY DEF IsFirst, ChildEdges, Candidates
  <2>3. e[1] \in Nat /\ f[1] \in Nat /\ first[1] \in Nat /\ e[3] = Top(j) /\ f[3] = Top(j) /\ first[3] = Top(j)
    BY <2>1, ExaminedEdges, Constants
  <2>4. e[2] = "child_of"
    BY <1>1
  <2>5. Top(j) \in Nat
    BY TopDoomed, Constants
  <2>6. e[1] < first[1]
    BY <2>2, <2>3, <2>4, <2>5 DEF Precedes
  <2>7. ~(f[1] < first[1])
    BY <2>1, <2>2 DEF Precedes
  <2>8. e[1] < f[1]
    BY <2>3, <2>6, <2>7
  <2> QED BY <2>1, <2>4, <2>8 DEF Precedes
<1> QED BY <1>4, <1>5 DEF StepFails, MeetsAmbiguous

LEMMA StepPageKeeps ==
    ASSUME TypeInv, TreeInv, NEW j \in Requests, StepPage(j) PROVE TypeInv' /\ TreeInv'
<1>1. Running(j) /\ ~StepFails(j) /\ ChildEdges(j) = {} /\ edges' = edges \ Page(j)
        /\ UNCHANGED <<node, keys, req, job>>
  BY DEF StepPage
<1>2. EdgeType'
  BY <1>1, FS_Subset DEF TypeInv, EdgeType
<1>3. TypeInv'
  BY <1>1, <1>2, SameRequests DEF TypeInv, NodeType, KeyType
<1>4. \A m \in Nodes : Doomed(m)' <=> Doomed(m)
  BY <1>1 DEF Doomed, Running, OnStack
<1>5. ASSUME NEW m \in Nodes, node[m].exists, ~Doomed(m)', <<m, "child_of", node[m].parent>> \in edges
      PROVE <<m, "child_of", node[m].parent>> \in edges'
  <2>1. SUFFICES ASSUME NEW e \in Page(j), e = <<m, "child_of", node[m].parent>> PROVE FALSE
    BY <1>1, <1>5
  <2>2. m # Top(j)
    BY <1>1, <1>4, <1>5, TopDoomed
  <2>3. e \in Examined(j)
    BY <2>1, <2>2 DEF Page, FirstPage, Outgoing
  <2>4. e = <<m, "child_of", Top(j)>>
    BY <2>1, <2>3, ExaminedEdges
  <2>5. e \in Candidates(j) /\ Ambiguous(m) /\ e[1] = m
    BY <1>1, <1>4, <1>5, <2>3, <2>4, SettledChild
  <2> QED BY <1>1, <2>5 DEF StepFails, MeetsAmbiguous
<1> QED BY <1>1, <1>3, <1>4, <1>5, FewerEdges

\* A page that does not overflow is all there is.
LEMMA WholePage ==
    ASSUME TypeInv, NEW j \in Requests, Running(j), ~Overflows(j) PROVE Examined(j) = Incoming(Top(j))
<1> DEFINE set == Incoming(Top(j))
<1>1. IsFiniteSet(set) /\ set \subseteq Triples
  BY FS_Subset DEF TypeInv, EdgeType, Incoming
<1>2. Cardinality(set) \in Nat /\ ~(Cardinality(set) > EdgePage) /\ EdgePage \in Nat
  BY <1>1, FS_CardinalityType, Constants DEF Overflows
<1>3. ASSUME NEW e \in set PROVE Cardinality({f \in set : Precedes(f, e)}) < EdgePage
  <2> DEFINE before == {f \in set : Precedes(f, e)}
  <2>1. e \in Triples
    BY <1>1
  <2>2. e[1] \in Nat /\ e[3] \in Nat /\ e[2] \in {"child_of", "link"}
    BY <2>1, Constants DEF Triples
  <2>3. ~Precedes(e, e)
    BY <2>2 DEF Precedes
  <2>4. before \subseteq set /\ before # set
    BY <2>3
  <2>5. IsFiniteSet(before) /\ Cardinality(before) < Cardinality(set) /\ Cardinality(before) \in Nat
    BY <1>1, <2>4, FS_Subset, FS_CardinalityType
  <2> QED BY <1>2, <2>5
<1> QED BY <1>3 DEF Examined, FirstPage

LEMMA StepDeleteKeeps ==
    ASSUME TypeInv, TreeInv, NEW j \in Requests, StepDelete(j) PROVE TypeInv' /\ TreeInv'
<1>1. Running(j) /\ ~StepFails(j) /\ ChildEdges(j) = {} /\ ~Overflows(j) /\ Clear(Top(j))
        /\ Stacked(j, Popped(j)) /\ UNCHANGED <<keys, req>>
  BY DEF StepDelete
<1>2. Top(j) \in Nodes
  BY <1>1, TopDoomed
<1>3. /\ JobType' /\ OneJob' /\ Planned' /\ RequestType'
      /\ \A m \in Nodes : Doomed(m) /\ m # Top(j) => Doomed(m)'
  BY <1>1, PoppedDoomed
<1>4. TypeInv'
  BY <1>1, <1>2, <1>3, ClearType DEF TypeInv, KeyType
<1>5. ASSUME NEW m \in Nodes, node[m].exists, ~Doomed(m) PROVE node[m].parent # Top(j)
  <2>1. SUFFICES ASSUME node[m].parent = Top(j) PROVE FALSE
    OBVIOUS
  <2>2. Fits(m)
    BY <1>5, TreeForm DEF AllFit
  <2>3. PICK e : e = <<m, "child_of", Top(j)>>
    OBVIOUS
  <2>4. e \in Incoming(Top(j))
    BY <1>2, <2>1, <2>2, <2>3, Constants DEF Fits, Incoming
  <2>5. e \in Examined(j)
    BY <1>1, <2>4, WholePage
  <2>6. e \in Candidates(j) /\ Ambiguous(m) /\ e[1] = m
    BY <1>1, <1>5, <2>3, <2>5, SettledChild
  <2> QED BY <1>1, <2>6 DEF StepFails, MeetsAmbiguous
<1> QED BY <1>1, <1>2, <1>3, <1>4, <1>5, ClearKeeps

LEMMA StepChildKeeps ==
    ASSUME TypeInv, TreeInv, NEW j \in Requests, StepChild(j) PROVE TypeInv' /\ TreeInv'
<1>1. PICK first \in Examined(j) : Running(j) /\ TakeChild(j, first)
  BY DEF StepChild
<1> DEFINE c == first[1]
           dest == job[j].dest
<1>2. PICK others : others = {e \in Examined(j) : Precedes(e, first)}
  OBVIOUS
<1>3. ~StepFails(j) /\ IsFirst(j, first) /\ UNCHANGED <<keys, req>>
  BY <1>1 DEF TakeChild
<1>4. first = <<c, "child_of", Top(j)>> /\ c \in Nodes /\ node[c].exists
  BY <1>3, ExaminedEdges DEF IsFirst, ChildEdges, Candidates
<1>5. ASSUME NEW m \in Nodes, node[m].exists, ~Doomed(m), NEW p \in Nodes, <<m, "child_of", p>> \in others
      PROVE node[m].parent # p
  <2>1. PICK e \in Examined(j) : e = <<m, "child_of", p>> /\ Precedes(e, first)
    BY <1>2, <1>5
  <2>2. e = <<m, "child_of", Top(j)>>
    BY <2>1, ExaminedEdges
  <2> QED BY <1>1, <1>3, <1>5, <2>1, <2>2, OthersAreSpare
<1>6. CASE MayMove(j, c)
  <2>1. node' = [node EXCEPT ![c].parent = dest, ![c].ver = @ + 1]
          /\ edges' = WithParent(c, dest) \ others /\ job' = job
    BY <1>1, <1>2, <1>6 DEF TakeChild
  <2>2. dest \in Nodes /\ node[dest].exists
    BY <1>6 DEF MayMove, TypeInv, JobType, Jobs
  <2>3. NodeType'
    BY <1>4, <2>1, <2>2 DEF TypeInv, NodeType, Records
  <2>4. EdgeType'
    <3>1. PICK all : all = (edges \ ChildOf(c)) \cup {<<c, "child_of", dest>>}
      OBVIOUS
    <3>2. <<c, "child_of", dest>> \in Triples
      BY <1>4, <2>2 DEF Triples
    <3>3. IsFiniteSet(edges \ ChildOf(c))
      BY FS_Difference DEF TypeInv, EdgeType
    <3>4. IsFiniteSet(all) /\ all \subseteq Triples
      BY <3>1, <3>2, <3>3, FS_AddElement DEF TypeInv, EdgeType
    <3>5. edges' \subseteq all
      BY <2>1, <3>1 DEF WithParent
    <3> QED BY <3>4, <3>5, FS_Subset DEF EdgeType
  <2>5. TypeInv'
    BY <1>3, <2>1, <2>3, <2>4, SameRequests DEF TypeInv, KeyType
  <2>6. node'[c].parent = dest /\ \A m \in Nodes : node'[m].exists = node[m].exists
          /\ (m # c => node'[m] = node[m])
    BY <1>4, <2>1 DEF TypeInv, NodeType, Records
  <2>7. <<c, "child_of", dest>> \in edges'
    <3>1. ASSUME <<c, "child_of", dest>> \in others PROVE FALSE
      <4>1. PICK e \in Examined(j) : e = <<c, "child_of", dest>> /\ Precedes(e, first)
        BY <1>2, <3>1
      <4>2. e = <<c, "child_of", Top(j)>>
        BY <4>1, ExaminedEdges
      <4>3. e = first
        BY <1>4, <4>2
      <4>4. first \in ChildEdges(j) /\ ~Precedes(first, first)
        BY <1>3 DEF IsFirst
      <4> QED BY <4>1, <4>3, <4>4
    <3> QED BY <2>1, <3>1 DEF WithParent
  <2>8. \A m \in Nodes : Doomed(m)' <=> Doomed(m)
    BY <2>1 DEF Doomed, Running, OnStack
  <2>9. ASSUME NEW m \in Nodes, node'[m].exists, ~Doomed(m)' PROVE Fits(m)'
    <3>1. CASE m = c
      BY <1>4, <2>2, <2>6, <2>7, <3>1, Constants DEF Fits
    <3>2. CASE m # c
      <4>1. Fits(m) /\ node'[m] = node[m] /\ node[m].exists /\ ~Doomed(m)
        BY <2>6, <2>8, <2>9, <3>2, TreeForm DEF AllFit
      <4>2. node[m].parent \in Nodes \cup {None}
        BY DEF TypeInv, NodeType, Records
      <4>3. \A p \in Nodes : <<m, "child_of", p>> \in edges' => <<m, "child_of", p>> \in edges
        BY <2>1, <3>2 DEF WithParent
      <4>4. CASE node[m].parent = None
        BY <4>1, <4>3, <4>4 DEF Fits
      <4>5. CASE node[m].parent \in Nodes
        <5>1. <<m, "child_of", node[m].parent>> \in edges /\ node[node[m].parent].exists
          BY <4>1, <4>5, Constants DEF Fits
        <5>2. <<m, "child_of", node[m].parent>> \notin others
          BY <1>5, <4>1, <4>5
        <5>3. <<m, "child_of", node[m].parent>> \in edges'
          BY <2>1, <3>2, <5>1, <5>2 DEF WithParent, ChildOf, Outgoing
        <5> QED BY <2>6, <4>1, <4>5, <5>1, <5>3, Constants DEF Fits
      <4> QED BY <4>2, <4>4, <4>5
    <3> QED BY <3>1, <3>2
  <2> QED BY <2>5, <2>9, TreeFormNext
<1>7. CASE ~MayMove(j, c)
  <2>1. edges' = edges \ others /\ Stacked(j, Append(job[j].stack, c)) /\ node' = node
    BY <1>1, <1>2, <1>7 DEF TakeChild
  <2>2. job[j].stack \in Seq(Nodes)
    BY DEF TypeInv, JobType, Jobs
  <2>3. PICK stack : stack = Append(job[j].stack, c)
    OBVIOUS
  <2>4. stack \in Seq(Nodes) /\ stack # <<>> /\ Len(stack) = Len(job[j].stack) + 1
          /\ \A i \in 1..Len(job[j].stack) : stack[i] = job[j].stack[i]
    BY <1>4, <2>2, <2>3
  <2>5. /\ JobType' /\ OneJob' /\ Planned' /\ RequestType'
        /\ \A i \in Requests \ {j} : job'[i] = job[i]
        /\ job'[j].stack = stack /\ job'[j].state = "running"
    BY <1>1, <1>3, <2>1, <2>3, <2>4, StackedType
  <2>6. EdgeType'
    BY <2>1, FS_Subset DEF TypeInv, EdgeType
  <2>7. TypeInv'
    BY <1>3, <2>1, <2>5, <2>6 DEF TypeInv, NodeType, KeyType
  <2>8. ASSUME NEW m \in Nodes, Doomed(m) PROVE Doomed(m)'
    <3>1. PICK k \in Requests : Running(k) /\ m \in OnStack(k)
      BY <2>8 DEF Doomed
    <3>2. CASE k # j
      <4>1. job'[k] = job[k]
        BY <2>5, <3>2
      <4> QED BY <3>1, <4>1 DEF Doomed, Running, OnStack
    <3>3. CASE k = j
      <4>1. PICK i \in 1..Len(job[j].stack) : m = job[j].stack[i]
        BY <3>1, <3>3 DEF OnStack
      <4>2. i \in 1..Len(stack) /\ stack[i] = m
        BY <2>2, <2>4, <4>1
      <4> QED BY <2>5, <4>2 DEF Doomed, Running, OnStack
    <3> QED BY <3>2, <3>3
  <2>9. ASSUME NEW m \in Nodes, node[m].exists, ~Doomed(m)', <<m, "child_of", node[m].parent>> \in edges
        PROVE <<m, "child_of", node[m].parent>> \in edges'
    <3>1. ~Doomed(m)
      BY <2>8, <2>9
    <3>2. <<m, "child_of", node[m].parent>> \in Triples
      BY <2>9 DEF TypeInv, EdgeType
    <3>3. node[m].parent \in Nodes
      BY <3>2 DEF Triples
    <3>4. <<m, "child_of", node[m].parent>> \notin others
      BY <1>5, <2>9, <3>1, <3>3
    <3> QED BY <2>1, <2>9, <3>4
  <2> QED BY <2>1, <2>7, <2>8, <2>9, FewerEdges
<1> QED BY <1>6, <1>7

-----------------------------------------------------------------------------
(* The theorems.                                                           *)

LEMMA InitTree == Init => TreeInv
<1> SUFFICES ASSUME Init PROVE TreeInv OBVIOUS
<1>1. TypeInv
  BY InitType
<1>2. ASSUME NEW n \in Nodes, node[n].exists PROVE Fits(n)
  <2>1. n \in Stored /\ node[n].parent = Parents[n] /\ edges \in Edges
    BY <1>2 DEF Init
  <2>2. Parents[n] \in Stored \cup {None}
    BY <2>1, NodeTreeAssumption
  <2>3. \A p \in Stored : node[p].exists
    BY Constants DEF Init
  <2>4. edges \subseteq Stored \X {"child_of", "link"} \X Stored
    BY <2>1, NodeTreeAssumption
  <2>5. IF Parents[n] = None THEN \A m \in Stored : <<n, "child_of", m>> \notin edges
        ELSE <<n, "child_of", Parents[n]>> \in edges
    BY <2>1, NodeTreeAssumption
  <2>6. \A m \in Nodes : <<n, "child_of", m>> \in edges => m \in Stored
    BY <2>4
  <2> QED BY <2>1, <2>2, <2>3, <2>5, <2>6 DEF Fits
<1> QED BY <1>1, <1>2, TreeForm DEF AllFit

LEMMA NextTree == TypeInv /\ TreeInv /\ [Next]_vars => TypeInv' /\ TreeInv'
<1> SUFFICES ASSUME TypeInv, TreeInv, [Next]_vars PROVE TypeInv' /\ TreeInv'
  OBVIOUS
<1>1. ASSUME NEW r \in Requests, Reads(r) PROVE TypeInv' /\ TreeInv'
  BY <1>1, ReadsKeep
<1>2. ASSUME NEW r \in Requests, Apply(r) \/ ApplyUnknown(r) PROVE TypeInv' /\ TreeInv'
  BY <1>2, ApplyKeeps
<1>3. ASSUME NEW r \in Requests, DeleteNode(r) \/ DeleteNodeUnknown(r) PROVE TypeInv' /\ TreeInv'
  BY <1>3, DeleteKeeps
<1>4. ASSUME NEW r \in Requests, StartSubtreeDelete(r) PROVE TypeInv' /\ TreeInv'
  BY <1>4, StartKeeps
<1>5. ASSUME NEW r \in Requests, DeleteSubtreeStep(r) PROVE TypeInv' /\ TreeInv'
  BY <1>5, StepGoneKeeps, StepChildKeeps, StepPageKeeps, StepDeleteKeeps DEF DeleteSubtreeStep
<1>6. ASSUME NEW r \in Requests, ClearSubtreeDelete(r) PROVE TypeInv' /\ TreeInv'
  BY <1>6, ClearJobKeeps
<1>7. ASSUME NEW n \in Nodes, NEW m \in Nodes,
             AddLink(n, m) \/ \E type \in {"child_of", "link"} : Remove(n, type, m)
      PROVE TypeInv' /\ TreeInv'
  BY <1>7, RelationshipsKeep
<1>8. ASSUME NEW n \in Nodes, Revalidate(n) PROVE TypeInv' /\ TreeInv'
  BY <1>8, RevalidateKeeps
<1>9. CASE UNCHANGED vars
  <2>1. TypeInv'
    BY <1>9, SameRequests DEF vars, TypeInv, NodeType, EdgeType, KeyType
  <2> QED BY <1>9, <2>1, SameTree DEF vars
<1>10. CASE Next
  BY <1>1, <1>2, <1>3, <1>4, <1>5, <1>6, <1>7, <1>8, <1>10 DEF Next, Reads, RequestStep
<1> QED BY <1>9, <1>10

\* Every node that no running job will delete has its parent edge, for every
\* tree, page size and number of requests and jobs: no mix of applied plans,
\* edge removals and job steps separates parent_id from the edges.
THEOREM ParentEdgesKept == Spec => []ParentsAgree
<1>1. Init => TypeInv /\ TreeInv
  BY InitType, InitTree
<1>2. TypeInv /\ TreeInv => ParentsAgree
  BY DEF TreeInv
<1> QED BY <1>1, <1>2, NextTree, PTL DEF Spec

\* No delete, single or of a subtree, leaves an orphan behind.
THEOREM NoDeleteOrphans == Spec => []NoOrphans
<1>1. Init => TypeInv /\ TreeInv
  BY InitType, InitTree
<1>2. TypeInv /\ TreeInv => NoOrphans
  BY DEF TreeInv
<1> QED BY <1>1, <1>2, NextTree, PTL DEF Spec

\* A circle of the new tree through the moved node would leave a circle of the
\* old one inside the ancestors the plan compared.
LEMMA WriteAcyclic ==
    ASSUME TypeInv, NEW r \in Requests, req[r].pc = "apply", Accepted(r), WriteMutation(r), Acyclic
    PROVE Acyclic'
<1> DEFINE n == req[r].node
           p == req[r].target
           live == {m \in Nodes : node[m].exists}
           listed == {s[1] : s \in req[r].seen}
<1>1. SUFFICES ASSUME NEW C \in SUBSET {m \in Nodes : node'[m].exists}, C # {},
                      \A m \in C : node'[m].parent \in C
               PROVE FALSE
  BY DEF Acyclic, Circle
<1>2. n \in Nodes /\ p \in Nodes /\ req[r].seen \subseteq Nodes \X Nat
  BY DEF TypeInv, Planned, RequestType, Plans
<1>3. node'[n].parent = p /\ \A m \in Nodes \ {n} : node'[m] = node[m]
  BY <1>2 DEF WriteMutation, TypeInv, NodeType
<1>4. p \in listed /\ n \notin listed
        /\ \A m \in listed : \/ node[m].parent \in listed
                             \/ node[m].parent # n /\ ~Exists(node[m].parent)
  BY DEF Accepted, ChainHolds
<1>5. listed \subseteq live
  BY <1>2 DEF Accepted, GraphMatches
<1>6. CASE n \notin C
  <2>1. C \in SUBSET live /\ \A m \in C : node[m].parent \in C
    BY <1>1, <1>3, <1>6
  <2> QED BY <1>1, <2>1 DEF Acyclic, Circle
<1>7. CASE n \in C
  <2>1. PICK D : D = C \cap listed
    OBVIOUS
  <2>2. p \in D
    BY <1>1, <1>3, <1>4, <1>7, <2>1
  <2>3. ASSUME NEW m \in D PROVE node[m].parent \in D
    <3>1. m \in Nodes /\ m # n /\ m \in listed /\ m \in C
      BY <1>1, <1>4, <2>1
    <3>2. node[m].parent \in C
      BY <1>1, <1>3, <3>1
    <3>3. node[m].parent \in Nodes /\ node'[node[m].parent].exists
      BY <1>1, <3>2
    <3>4. node[m].parent = n \/ Exists(node[m].parent)
      BY <1>3, <3>3, Constants DEF Exists
    <3>5. node[m].parent \in listed
      BY <1>4, <3>1, <3>4
    <3> QED BY <2>1, <3>2, <3>5
  <2>4. D \in SUBSET live
    BY <1>5, <2>1
  <2> QED BY <2>2, <2>3, <2>4 DEF Acyclic, Circle
<1> QED BY <1>6, <1>7

\* Fewer nodes with the parents they had make no circle.
LEMMA FewerAcyclic ==
    ASSUME Acyclic, \A m \in Nodes : node'[m].exists => node[m].exists /\ node'[m].parent = node[m].parent
    PROVE Acyclic'
BY DEF Acyclic, Circle

LEMMA StepAcyclic ==
    ASSUME TypeInv, Next, Acyclic, <<req, events>>' # <<req, events>> PROVE Acyclic'
<1>1. CASE node' = node
  BY <1>1, FewerAcyclic
<1>2. ASSUME NEW r \in Requests, Apply(r) \/ ApplyUnknown(r) PROVE Acyclic'
  <2>1. CASE Accepted(r) /\ WriteMutation(r)
    BY <1>2, <2>1, WriteAcyclic DEF Apply, ApplyUnknown
  <2>2. CASE ~(Accepted(r) /\ WriteMutation(r))
    BY <1>1, <1>2, <2>2 DEF Apply, ApplyUnknown
  <2> QED BY <2>1, <2>2
<1>3. ASSUME NEW r \in Requests, DeleteNode(r) \/ DeleteNodeUnknown(r) PROVE Acyclic'
  <2>1. CASE Clear(req[r].node)
    <3>1. req[r].node \in Nodes
      BY <1>3 DEF DeleteNode, DeleteNodeUnknown, TypeInv, Planned
    <3>2. \A m \in Nodes : node'[m].exists => node[m].exists /\ node'[m].parent = node[m].parent
      BY <2>1, <3>1 DEF Clear, TypeInv, NodeType, Records
    <3> QED BY <3>2, FewerAcyclic
  <2>2. CASE ~Clear(req[r].node)
    BY <1>1, <1>3, <2>2 DEF DeleteNode, DeleteNodeUnknown
  <2> QED BY <2>1, <2>2
<1>4. ASSUME NEW r \in Requests, Reads(r) \/ StartSubtreeDelete(r) \/ ClearSubtreeDelete(r) PROVE node' = node
  BY <1>4 DEF Reads, BeginMove, BeginDelete, BeginCreate, Walk, StartSubtreeDelete, ClearSubtreeDelete
<1>5. ASSUME NEW r \in Requests, DeleteSubtreeStep(r) PROVE UNCHANGED <<req, events>>
  BY <1>5 DEF DeleteSubtreeStep, StepGone, StepChild, TakeChild, StepPage, StepDelete
<1>6. ASSUME NEW n \in Nodes, NEW m \in Nodes,
             AddLink(n, m) \/ \E type \in {"child_of", "link"} : Remove(n, type, m)
      PROVE node' = node
  BY <1>6 DEF AddLink, Remove
<1>7. ASSUME NEW n \in Nodes, Revalidate(n) PROVE node' = node
  BY <1>7 DEF Revalidate
<1> QED BY <1>1, <1>2, <1>3, <1>4, <1>5, <1>6, <1>7 DEF Next, Reads, RequestStep

\* Two moves that are each fine alone are not both applied when together they
\* close a circle, however many requests plan at once: the comparison of every
\* ancestor's digest, with the chain check, is enough.
THEOREM NoPlanClosesCircle == Spec => PlansKeepAcyclic
<1>1. Init => TypeInv /\ TreeInv
  BY InitType, InitTree
<1>2. TypeInv /\ [Next]_vars => [Acyclic /\ <<req, events>>' # <<req, events>> => Acyclic']_vars
  BY StepAcyclic DEF vars
<1> QED BY <1>1, <1>2, NextTree, PTL DEF Spec, PlansKeepAcyclic

-----------------------------------------------------------------------------
(* Idempotency keys.                                                       *)

\* The record of a key names the one node that was created with it.
KeyInv == \A n \in Nodes : node[n].key \in Keys => keys[node[n].key] = n

LEMMA NextKeys == TypeInv /\ KeyInv /\ [Next]_vars => KeyInv'
<1> SUFFICES ASSUME TypeInv, KeyInv, [Next]_vars PROVE KeyInv'
  OBVIOUS
<1>1. CASE keys' = keys /\ \A n \in Nodes : node'[n].key = node[n].key
  BY <1>1 DEF KeyInv
<1>2. ASSUME NEW r \in Requests, Apply(r) \/ ApplyUnknown(r) PROVE KeyInv'
  <2> DEFINE x == req[r].node
             k == req[r].key
  <2>1. CASE ~(Accepted(r) /\ WriteMutation(r))
    BY <1>1, <1>2, <2>1 DEF Apply, ApplyUnknown
  <2>2. CASE Accepted(r) /\ WriteMutation(r)
    <3>1. x \in Nodes /\ k \in Keys \cup {NoKey} /\ (req[r].kind # "create" => k = NoKey) /\ NoKey \notin Keys
      BY <1>2, NodeTreeAssumption DEF Apply, ApplyUnknown, TypeInv, Planned, RequestType, Plans
    <3>2. node'[x].key = (IF req[r].kind = "create" THEN k ELSE node[x].key)
            /\ \A m \in Nodes \ {x} : node'[m] = node[m]
      BY <2>2, <3>1 DEF WriteMutation, TypeInv, NodeType
    <3>3. k \in Keys => keys[k] = None
      BY <2>2 DEF Accepted, KeyUsed
    <3>4. keys' = IF k \in Keys THEN [keys EXCEPT ![k] = x] ELSE keys
      BY <2>2 DEF WriteMutation
    <3>5. \A m \in Nodes : node[m].key \in Keys => keys[node[m].key] = m /\ m # None
      BY Constants DEF KeyInv
    <3>6. keys \in [Keys -> Nodes \cup {None}]
      BY DEF TypeInv, KeyType
    <3>7. ASSUME NEW m \in Nodes, node'[m].key \in Keys PROVE keys'[node'[m].key] = m
      <4>1. CASE k \in Keys
        BY <3>1, <3>2, <3>3, <3>4, <3>5, <3>6, <3>7, <4>1
      <4>2. CASE k \notin Keys
        BY <3>1, <3>2, <3>4, <3>5, <3>7, <4>2
      <4> QED BY <4>1, <4>2
    <3> QED BY <3>7 DEF KeyInv
  <2> QED BY <2>1, <2>2
<1>3. ASSUME NEW n \in Nodes, Clear(n), keys' = keys PROVE KeyInv'
  BY <1>1, <1>3 DEF Clear, TypeInv, NodeType, Records
<1>4. ASSUME NEW r \in Requests, DeleteNode(r) \/ DeleteNodeUnknown(r) PROVE KeyInv'
  <2>1. req[r].node \in Nodes /\ keys' = keys
    BY <1>4 DEF DeleteNode, DeleteNodeUnknown, TypeInv, Planned
  <2> QED BY <1>1, <1>3, <1>4, <2>1 DEF DeleteNode, DeleteNodeUnknown
<1>5. ASSUME NEW r \in Requests, Reads(r) \/ StartSubtreeDelete(r) \/ ClearSubtreeDelete(r) PROVE KeyInv'
  BY <1>1, <1>5 DEF Reads, BeginMove, BeginDelete, BeginCreate, Walk, StartSubtreeDelete, ClearSubtreeDelete
<1>6. ASSUME NEW r \in Requests, DeleteSubtreeStep(r) PROVE KeyInv'
  <2>1. CASE StepGone(r) \/ StepPage(r)
    BY <1>1, <2>1 DEF StepGone, StepPage
  <2>2. CASE StepDelete(r)
    BY <1>3, <2>2, TopDoomed DEF StepDelete
  <2>3. CASE StepChild(r)
    <3>1. PICK first \in Examined(r) : TakeChild(r, first)
      BY <2>3 DEF StepChild
    <3>2. keys' = keys /\ \A m \in Nodes : node'[m].key = node[m].key
      BY <3>1 DEF TakeChild, TypeInv, NodeType, Records
    <3> QED BY <1>1, <3>2
  <2> QED BY <1>6, <2>1, <2>2, <2>3 DEF DeleteSubtreeStep
<1>7. ASSUME NEW n \in Nodes, NEW m \in Nodes,
             AddLink(n, m) \/ \E type \in {"child_of", "link"} : Remove(n, type, m)
      PROVE KeyInv'
  BY <1>1, <1>7 DEF AddLink, Remove
<1>8. ASSUME NEW n \in Nodes, Revalidate(n) PROVE KeyInv'
  BY <1>1, <1>8 DEF Revalidate
<1>9. CASE UNCHANGED vars
  BY <1>1, <1>9 DEF vars
<1> QED BY <1>2, <1>4, <1>5, <1>6, <1>7, <1>8, <1>9 DEF Next, Reads, RequestStep

\* An idempotency key creates at most one node, however many requests carry it
\* and however often a create runs again after a commit of unknown result.
THEOREM KeyCreatesOnce == Spec => []OneNodePerKey
<1>1. Init => TypeInv /\ TreeInv /\ KeyInv
  BY InitType, InitTree, NodeTreeAssumption DEF Init, KeyInv
<1>2. TypeInv /\ KeyInv => OneNodePerKey
  <2>1. TypeInv => \A n \in Nodes : node[n].key \in Keys \cup {NoKey}
    BY DEF TypeInv, NodeType, Records
  <2> QED BY <2>1 DEF KeyInv, OneNodePerKey
<1> QED BY <1>1, <1>2, NextTree, NextKeys, PTL DEF Spec
=============================================================================
