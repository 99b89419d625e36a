-------------------------- MODULE LifecycleProofs --------------------------
(***************************************************************************)
(* Proofs about the life of nodes: for every graph, every declared         *)
(* capacity and whatever the nodes' definitions may be, in whatever order  *)
(* the commands, the graph changes and the settlement loops of the         *)
(* processes come.                                                         *)
(*                                                                         *)
(* The argument: a settlement is bound to the head its frontier was loaded *)
(* from, and every commit moves the head, so what a fresh job is about to  *)
(* append is still what the frontier says. A node leaves "planned" only on *)
(* its finished sources, a finished node is only ever superseded, and an   *)
(* edge is changed only while its target is planned: so nothing takes back *)
(* what a node was started or skipped on. An attempt that holds capacity   *)
(* cannot be finished nor its node superseded, and the definition it was   *)
(* started by stays.                                                       *)
(***************************************************************************)
EXTENDS Lifecycle, FiniteSetTheorems, TLAPS

(* Some definition the node may have admits its attempts; a node that may  *)
(* start again was granted its retry by one that admits another, although  *)
(* it need not be the one the node has now, if it is in the graph at all.  *)
BudgetInv == \A n \in Nodes : number[n] > 0 =>
    /\ \E d \in Definitions[n] : number[n] <= d.budget + 1
    /\ status[n] \in {"absent", "planned"} => \E d \in Definitions[n] : number[n] <= d.budget

(* The nodes of the graph are those with a definition, whose retry budget  *)
(* is one the node may declare, and who holds the resource holds what its  *)
(* definition says.                                                        *)
GraphInv == \A n \in Nodes :
    /\ status[n] = "absent" <=> definition[n] = NoDefinition
    /\ status[n] # "absent" => \E d \in Definitions[n] : d.budget = definition[n].budget
    /\ \A a \in Attempts : lease[n][a].active => lease[n][a].quantity = definition[n].need

(* What a process in the settlement loop holds: something to append, and   *)
(* while the head has not moved, what the frontier still says.             *)
JobInv(p) ==
    /\ job[p].step = "appending" => job[p].skip # NoNode \/ job[p].auto # NoNode
    /\ job[p].fresh =>
          /\ job[p].rev = Revision
          /\ job[p].skip # NoNode => job[p].skip \in Unreachable
          /\ job[p].auto # NoNode => job[p].auto \in Ready /\ job[p].auto \in Automatic

IInv ==
    /\ TypeOK /\ BudgetInv /\ GraphInv
    /\ StartedOnInputs /\ SkipIsJustified
    /\ NoOrphanLease /\ ReleasedByConfirmation /\ CapacityRespected
    /\ \A p \in Procs : JobInv(p)

Holds(n) == \E a \in Attempts : lease[n][a].active
Units    == {u \in Nodes \X (1..Capacity) : u[2] \in Held(u[1])}

-----------------------------------------------------------------------------
(* The settlement jobs.                                                    *)

LEMMA IdleFacts ==
    /\ Idle \in Job /\ Loading \in Job
    /\ Idle.step = "idle" /\ Loading.step = "loading"
    /\ ~Idle.fresh /\ ~Loading.fresh
  <1>1. [nodes |-> [n \in Nodes |-> NoDefinition], edges |-> {}] \in Revisions
    BY DEF Revisions
  <1>2. QED
    BY <1>1 DEF Idle, Loading, Job

LEMMA RevisionType ==
    ASSUME TypeOK
    PROVE  Revision \in Revisions
  BY DEF TypeOK, Revision, Revisions

(* A commit leaves no other process with a fresh head.                     *)
LEMMA CommitJobs ==
    ASSUME job \in [Procs -> Job], \A q \in Procs : JobInv(q),
           NEW p \in Procs, NEW j \in {Idle, Loading}, Commit(p, j)
    PROVE  job' \in [Procs -> Job] /\ \A q \in Procs : JobInv(q)'
  <1>1. /\ j \in Job /\ ~j.fresh /\ j.step # "appending"
    BY IdleFacts
  <1>2. \A q \in Procs : Stale(job[q]) \in Job
    BY DEF Stale, Job
  <1>3. job' \in [Procs -> Job]
    BY <1>1, <1>2 DEF Commit
  <1>4. ASSUME NEW q \in Procs PROVE JobInv(q)'
    <2>1. CASE q = p
      <3>1. job'[q] = j
        BY <2>1 DEF Commit
      <3>2. QED
        BY <1>1, <3>1 DEF JobInv
    <2>2. CASE q # p
      <3>1. job'[q] = Stale(job[q]) /\ job[q] \in Job /\ JobInv(q)
        BY <2>2 DEF Commit
      <3>2. /\ job'[q].step = job[q].step /\ ~job'[q].fresh
            /\ job'[q].skip = job[q].skip /\ job'[q].auto = job[q].auto
        BY <3>1 DEF Stale, Job
      <3>3. QED
        BY <3>1, <3>2 DEF JobInv
    <2>3. QED
      BY <2>1, <2>2
  <1>5. QED
    BY <1>3, <1>4

(* A step that commits nothing leaves the frontier as it is.               *)
LEMMA FrontierFrame ==
    ASSUME UNCHANGED <<status, definition, edges, lease>>
    PROVE  /\ Unreachable' = Unreachable /\ Ready' = Ready
           /\ Automatic' = Automatic /\ Revision' = Revision
  BY DEF Unreachable, Ready, Automatic, Revision, Incoming, Satisfied, Refuted, Available, InUse, Held

(* A local step of one process: the invariant of its new job is enough.    *)
LEMMA LocalStep ==
    ASSUME IInv, NEW p \in Procs, NEW j \in Job, Become(p, j),
           UNCHANGED <<status, graph, attempt, number, lease, incident, keys>>,
           j.step = "appending" => j.skip # NoNode \/ j.auto # NoNode,
           j.fresh => /\ j.rev = Revision
                      /\ j.skip # NoNode => j.skip \in Unreachable
                      /\ j.auto # NoNode => j.auto \in Ready /\ j.auto \in Automatic
    PROVE  IInv'
  <1>1. TypeOK'
    BY DEF IInv, TypeOK, Become, graph
  <1>2. BudgetInv' /\ GraphInv' /\ NoOrphanLease' /\ ReleasedByConfirmation' /\ CapacityRespected'
    BY DEF IInv, BudgetInv, GraphInv, NoOrphanLease, ReleasedByConfirmation,
           CapacityRespected, InUse, Held, graph
  <1>3. StartedOnInputs' /\ SkipIsJustified'
    BY DEF IInv, StartedOnInputs, SkipIsJustified, Incoming, Satisfied, Refuted, graph
  <1>4. ASSUME NEW q \in Procs PROVE JobInv(q)'
    <2>1. /\ Unreachable' = Unreachable /\ Ready' = Ready
          /\ Automatic' = Automatic /\ Revision' = Revision
      BY FrontierFrame DEF graph
    <2>2. CASE q = p
      <3>1. job'[q] = j
        BY <2>2 DEF Become, IInv, TypeOK
      <3>2. QED
        BY <2>1, <3>1 DEF JobInv
    <2>3. CASE q # p
      <3>1. job'[q] = job[q] /\ JobInv(q)
        BY <2>3 DEF Become, IInv, TypeOK
      <3>2. QED
        BY <2>1, <3>1 DEF JobInv
    <2>4. QED
      BY <2>2, <2>3
  <1>5. QED
    BY <1>1, <1>2, <1>3, <1>4 DEF IInv

-----------------------------------------------------------------------------
(* The resource.                                                           *)

(* The units of the resource from one to the k-th.                         *)
LEMMA UnitsTo ==
    ASSUME NEW k \in Nat
    PROVE  IsFiniteSet(1..k) /\ Cardinality(1..k) = k
  <1>1. 1 \in Int /\ k \in Int
    OBVIOUS
  <1>2. IsFiniteSet(1..k) /\ Cardinality(1..k) = IF 1 > k THEN 0 ELSE k - 1 + 1
    BY <1>1, FS_Interval, Zenon
  <1>3. QED
    BY <1>2

(* The same, as those of a node.                                           *)
LEMMA UnitsOfNode ==
    ASSUME NEW n, NEW k \in Nat
    PROVE  IsFiniteSet({n} \X (1..k)) /\ Cardinality({n} \X (1..k)) = k
  <1>1. IsFiniteSet(1..k) /\ Cardinality(1..k) = k
    BY UnitsTo
  <1>2. IsFiniteSet({n}) /\ Cardinality({n}) = 1
    BY FS_Singleton
  <1>3. IsFiniteSet({n} \X (1..k)) /\ Cardinality({n} \X (1..k)) = 1 * k
    BY <1>1, <1>2, FS_Product
  <1>4. QED
    BY <1>3

LEMMA UnitsFinite ==
    ASSUME NEW S \in SUBSET (Nodes \X (1..Capacity))
    PROVE  IsFiniteSet(S) /\ Cardinality(S) \in Nat
  <1>1. IsFiniteSet(Nodes) /\ Capacity \in Nat
    BY LifecycleConstants
  <1>2. IsFiniteSet(1..Capacity)
    BY <1>1, UnitsTo
  <1>3. IsFiniteSet(Nodes \X (1..Capacity))
    BY <1>1, <1>2, FS_Product
  <1>4. IsFiniteSet(S)
    BY <1>3, FS_Subset
  <1>5. QED
    BY <1>4, FS_CardinalityType

(* What is in use before and after a step.                                 *)
LEMMA UnitsInUse ==
    /\ InUse = Cardinality(Units) /\ IsFiniteSet(Units) /\ InUse \in Nat
    /\ InUse' = Cardinality(Units') /\ InUse' \in Nat
  <1>1. Units \in SUBSET (Nodes \X (1..Capacity)) /\ Units' \in SUBSET (Nodes \X (1..Capacity))
    BY DEF Units
  <1>2. InUse = Cardinality(Units) /\ InUse' = Cardinality(Units')
    BY DEF InUse, Units, Holds
  <1>3. QED
    BY <1>1, <1>2, UnitsFinite

(* A step after which nobody holds more of the resource than before        *)
(* respects the capacity.                                                  *)
LEMMA CapacityKept ==
    ASSUME CapacityRespected, \A n \in Nodes : Held(n)' \subseteq Held(n)
    PROVE  CapacityRespected'
  <1>1. /\ InUse = Cardinality(Units) /\ IsFiniteSet(Units) /\ InUse \in Nat
        /\ InUse' = Cardinality(Units') /\ InUse' \in Nat
    BY UnitsInUse
  <1>2. Units' \in SUBSET Units
    BY DEF Units
  <1>3. Cardinality(Units') <= Cardinality(Units)
    BY <1>1, <1>2, FS_Subset
  <1>4. QED
    BY <1>1, <1>3, LifecycleConstants DEF CapacityRespected

(* One more node takes what is available to it.                            *)
LEMMA CapacityTaken ==
    ASSUME CapacityRespected, NEW n \in Nodes, NEW q \in 1..Capacity,
           q <= Available, Held(n) = {}, Held(n)' = 1..q,
           \A m \in Nodes \ {n} : Held(m)' = Held(m)
    PROVE  CapacityRespected'
  <1> DEFINE mine == {n} \X (1..q)
  <1>1. /\ InUse = Cardinality(Units) /\ IsFiniteSet(Units) /\ InUse \in Nat
        /\ InUse' = Cardinality(Units') /\ InUse' \in Nat
    BY UnitsInUse
  <1>2. q \in Nat /\ q <= Capacity /\ Capacity \in Nat
    BY LifecycleConstants
  <1>3. IsFiniteSet(mine) /\ Cardinality(mine) = q
    BY <1>2, UnitsOfNode
  <1>4. Units' = Units \cup mine
    <2>1. \A u \in Nodes \X (1..Capacity) : u \in Units' <=> u \in Units \/ u \in mine
      <3> SUFFICES ASSUME NEW m \in Nodes, NEW k \in 1..Capacity
                   PROVE  <<m, k>> \in Units' <=> <<m, k>> \in Units \/ <<m, k>> \in mine
        OBVIOUS
      <3>1. /\ <<m, k>> \in Units <=> k \in Held(m)
            /\ <<m, k>> \in Units' <=> k \in Held(m)'
        BY DEF Units
      <3>2. <<m, k>> \in mine <=> m = n /\ k \in 1..q
        OBVIOUS
      <3>3. QED
        BY <3>1, <3>2
    <2>2. Units \subseteq Nodes \X (1..Capacity) /\ Units' \subseteq Nodes \X (1..Capacity)
      BY DEF Units
    <2>3. mine \subseteq Nodes \X (1..Capacity)
      BY <1>2
    <2>4. QED
      BY <2>1, <2>2, <2>3
  <1>5. Units \cap mine = {}
    BY DEF Units
  <1> HIDE DEF mine
  <1>6. Cardinality(Units') = InUse + q
    <2>1. Cardinality(Units \cup mine) = Cardinality(Units) + Cardinality(mine) - Cardinality(Units \cap mine)
      BY <1>1, <1>3, FS_Union
    <2>2. Cardinality(Units \cap mine) = 0
      BY <1>5, FS_EmptySet
    <2>3. QED
      BY <1>1, <1>2, <1>3, <1>4, <2>1, <2>2
  <1>7. q <= Capacity - InUse
    BY DEF Available
  <1>8. QED
    BY <1>1, <1>2, <1>6, <1>7 DEF CapacityRespected

-----------------------------------------------------------------------------
(* What a node was started or skipped on.                                  *)

(* The parts of an edge.                                                   *)
LEMMA EdgeFacts ==
    ASSUME NEW e \in Edges
    PROVE  e.from \in Nodes /\ e.to \in Nodes /\ e.when \subseteq Classes
  BY LifecycleConstants DEF Predicate

(* A step changes the status of one unfinished node. If the node starts or *)
(* completes it does so on satisfied predicates, and it is skipped for a   *)
(* refuted one: as a source it had satisfied or refuted nothing so far.    *)
LEMMA OneNodeMoves ==
    ASSUME TypeOK, StartedOnInputs, SkipIsJustified, NEW n \in Nodes, NEW s \in Statuses,
           status' = [status EXCEPT ![n] = s], edges' = edges,
           status[n] \in {"absent", "planned", "active"},
           s \in {"active"} \cup Classes =>
              status[n] = "active" \/ \A e \in Incoming(n) : Satisfied(e),
           s = "skipped" => n \in Unreachable
    PROVE  StartedOnInputs' /\ SkipIsJustified'
  <1>1. ASSUME NEW e \in edges
        PROVE  /\ Satisfied(e) => Satisfied(e)' /\ status'[e.from] = status[e.from]
               /\ Refuted(e) => Refuted(e)' /\ status'[e.from] = status[e.from]
               /\ status[e.from] = "superseded" => status'[e.from] = "superseded"
    <2>1. e.from \in Nodes /\ e.when \subseteq Classes
      BY EdgeFacts DEF TypeOK
    <2>2. e.from # n => status'[e.from] = status[e.from]
      BY <2>1 DEF TypeOK
    <2>3. e.from = n => ~Satisfied(e) /\ ~Refuted(e) /\ status[e.from] # "superseded"
      BY <2>1 DEF Satisfied, Refuted, Ended, Classes
    <2>4. QED
      BY <2>2, <2>3 DEF Satisfied, Refuted
  <1>2. ASSUME NEW m \in Nodes, status'[m] \in {"active"} \cup Classes, NEW e \in edges, e.to = m
        PROVE  Satisfied(e)' \/ status'[e.from] = "superseded"
    <2>1. CASE m = n
      <3>1. status'[m] = s
        BY <2>1 DEF TypeOK
      <3>2. Satisfied(e) \/ status[e.from] = "superseded"
        BY <1>2, <2>1, <3>1 DEF StartedOnInputs, Incoming
      <3>3. QED
        BY <1>1, <3>2
    <2>2. CASE m # n
      <3>1. status[m] \in {"active"} \cup Classes
        BY <1>2, <2>2 DEF TypeOK
      <3>2. Satisfied(e) \/ status[e.from] = "superseded"
        BY <1>2, <3>1 DEF StartedOnInputs, Incoming
      <3>3. QED
        BY <1>1, <3>2
    <2>3. QED
      BY <2>1, <2>2
  <1>3. ASSUME NEW m \in Nodes, status'[m] = "skipped"
        PROVE  \E e \in edges : e.to = m /\ (Refuted(e)' \/ status'[e.from] = "superseded")
    <2>1. PICK e \in edges : e.to = m /\ (Refuted(e) \/ status[e.from] = "superseded")
      <3>1. CASE m = n
        BY <1>3, <3>1 DEF TypeOK, Unreachable, Incoming
      <3>2. CASE m # n
        BY <1>3, <3>2 DEF TypeOK, SkipIsJustified, Incoming
      <3>3. QED
        BY <3>1, <3>2
    <2>2. QED
      BY <1>1, <2>1
  <1>4. StartedOnInputs'
    BY <1>2 DEF StartedOnInputs, Incoming
  <1>5. SkipIsJustified'
    BY <1>3 DEF SkipIsJustified, Incoming
  <1>6. QED
    BY <1>4, <1>5

(* The edges change only where their target is planned.                    *)
LEMMA EdgesMove ==
    ASSUME TypeOK, StartedOnInputs, SkipIsJustified, UNCHANGED status,
           \A e \in edges' : e \in edges \/ status[e.to] = "planned",
           \A e \in edges : e \in edges' \/ status[e.to] = "planned"
    PROVE  StartedOnInputs' /\ SkipIsJustified'
  <1>1. "planned" \notin {"active"} \cup Classes /\ "planned" # "skipped"
    BY DEF Classes
  <1>2. ASSUME NEW n \in Nodes, status[n] \in {"active"} \cup Classes, NEW e \in edges', e.to = n
        PROVE  Satisfied(e) \/ status[e.from] = "superseded"
    BY <1>1, <1>2 DEF StartedOnInputs, Incoming
  <1>3. ASSUME NEW n \in Nodes, status[n] = "skipped"
        PROVE  \E e \in edges' : e.to = n /\ (Refuted(e) \/ status[e.from] = "superseded")
    BY <1>1, <1>3 DEF SkipIsJustified, Incoming
  <1>4. \A e : (Satisfied(e)' <=> Satisfied(e)) /\ (Refuted(e)' <=> Refuted(e))
    BY DEF Satisfied, Refuted
  <1>5. StartedOnInputs'
    BY <1>2, <1>4 DEF StartedOnInputs, Incoming
  <1>6. SkipIsJustified'
    BY <1>3, <1>4 DEF SkipIsJustified, Incoming
  <1>7. QED
    BY <1>5, <1>6

-----------------------------------------------------------------------------
(* Commands that touch neither the graph nor the resource.                 *)

(* When no attempt moves and no lease is touched, what is said about them  *)
(* stays true.                                                             *)
LEMMA LeasesFrame ==
    ASSUME NoOrphanLease, ReleasedByConfirmation, CapacityRespected, UNCHANGED <<number, lease>>,
           \A n \in Nodes : Holds(n) => status'[n] = "active" /\ attempt'[n] # "terminal"
    PROVE  NoOrphanLease' /\ ReleasedByConfirmation' /\ CapacityRespected'
  <1>1. \A n \in Nodes : Held(n)' \subseteq Held(n)
    BY DEF Held
  <1>2. NoOrphanLease'
    BY DEF NoOrphanLease, Holds
  <1>3. ReleasedByConfirmation'
    BY DEF ReleasedByConfirmation
  <1>4. QED
    BY <1>1, <1>2, <1>3, CapacityKept

(* So does what is said about the graph when neither a definition nor a    *)
(* lease is touched and no node comes or goes.                             *)
LEMMA GraphFrame ==
    ASSUME GraphInv, UNCHANGED <<definition, lease>>,
           \A n \in Nodes : status'[n] = "absent" <=> status[n] = "absent"
    PROVE  GraphInv'
  BY DEF GraphInv

(* A definition the graph may have of a node is that of a node.            *)
LEMMA DefinitionFacts ==
    /\ \A n \in Nodes : \A d \in Definitions[n] : d \in Definition
    /\ \A d \in Definition : d # NoDefinition /\ d.need \in 0..Capacity /\ d.budget \in Nat
    /\ NoDefinition.need = 0 /\ NoDefinition.supersedes = NoNode
  <1>1. \A n \in Nodes : \A d \in Definitions[n] : d \in Definition
    BY LifecycleConstants
  <1>2. ASSUME NEW d \in Definition PROVE d.kind # "none" /\ d.need \in 0..Capacity /\ d.budget \in Nat
    BY DEF Definition
  <1>3. NoDefinition.kind = "none" /\ NoDefinition.need = 0 /\ NoDefinition.supersedes = NoNode
    BY DEF NoDefinition
  <1>4. QED
    BY <1>1, <1>2, <1>3

(* Who holds the resource has a running attempt, and holds it by that one. *)
LEMMA HoldersRun ==
    ASSUME TypeOK, NoOrphanLease, NEW n \in Nodes, Holds(n)
    PROVE  status[n] = "active" /\ attempt[n] # "terminal" /\ HoldsLease(n)
  <1>1. PICK a \in Attempts : lease[n][a].active
    BY DEF Holds
  <1>2. status[n] = "active" /\ attempt[n] # "terminal" /\ a = number[n]
    BY <1>1 DEF NoOrphanLease
  <1>3. a > 0
    BY LifecycleConstants DEF Attempts
  <1>4. QED
    BY <1>1, <1>2, <1>3 DEF HoldsLease

LEMMA StepOtherCommand ==
    ASSUME IInv, NEW p \in Procs, OtherCommand(p)
    PROVE  IInv'
  <1>1. PICK settles \in BOOLEAN : Commit(p, IF settles THEN Loading ELSE Idle)
    BY DEF OtherCommand
  <1>2. job' \in [Procs -> Job] /\ \A q \in Procs : JobInv(q)'
    BY <1>1, CommitJobs DEF IInv, TypeOK
  <1>3. UNCHANGED <<status, definition, edges, changes, attempt, number, lease, incident, keys>>
    BY DEF OtherCommand, graph
  <1>4. TypeOK'
    BY <1>2, <1>3 DEF IInv, TypeOK
  <1>5. BudgetInv' /\ GraphInv' /\ NoOrphanLease' /\ ReleasedByConfirmation' /\ CapacityRespected'
    BY <1>3 DEF IInv, BudgetInv, GraphInv, NoOrphanLease, ReleasedByConfirmation,
           CapacityRespected, InUse, Held
  <1>6. StartedOnInputs' /\ SkipIsJustified'
    BY <1>3 DEF IInv, StartedOnInputs, SkipIsJustified, Incoming, Satisfied, Refuted
  <1>7. QED
    BY <1>2, <1>4, <1>5, <1>6 DEF IInv

LEMMA StepResolveIncident ==
    ASSUME IInv, NEW p \in Procs, NEW n \in Nodes, ResolveIncident(p, n)
    PROVE  IInv'
  <1>1. job' \in [Procs -> Job] /\ \A q \in Procs : JobInv(q)'
    BY CommitJobs DEF ResolveIncident, IInv, TypeOK
  <1>2. UNCHANGED <<status, definition, edges, changes, attempt, number, lease, keys>>
    BY DEF ResolveIncident, graph
  <1>3. TypeOK'
    BY <1>1, <1>2 DEF ResolveIncident, IInv, TypeOK
  <1>4. BudgetInv' /\ GraphInv' /\ NoOrphanLease' /\ ReleasedByConfirmation' /\ CapacityRespected'
    BY <1>2 DEF IInv, BudgetInv, GraphInv, NoOrphanLease, ReleasedByConfirmation,
           CapacityRespected, InUse, Held
  <1>5. StartedOnInputs' /\ SkipIsJustified'
    BY <1>2 DEF IInv, StartedOnInputs, SkipIsJustified, Incoming, Satisfied, Refuted
  <1>6. QED
    BY <1>1, <1>3, <1>4, <1>5 DEF IInv

LEMMA StepImportGraph ==
    ASSUME IInv, NEW p \in Procs, ImportGraph(p)
    PROVE  IInv'
  <1>1. job' \in [Procs -> Job] /\ \A q \in Procs : JobInv(q)'
    BY CommitJobs DEF ImportGraph, Command, IInv, TypeOK
  <1>2. /\ status' = [n \in Nodes |-> IF FirstNodes[n] = NoDefinition THEN "absent" ELSE "planned"]
        /\ definition' = FirstNodes /\ edges' = FirstEdges
        /\ UNCHANGED <<attempt, number, lease, incident, keys, changes>>
    BY DEF ImportGraph
  <1>3. \A n \in Nodes : status[n] = "absent" /\ status'[n] \in {"planned", "absent"}
    BY <1>2 DEF ImportGraph, Present
  <1>4. TypeOK'
    <2>1. status' \in [Nodes -> Statuses]
      BY <1>2 DEF Statuses
    <2>2. edges' \in SUBSET Edges
      BY <1>2, LifecycleConstants
    <2>3. definition' \in [Nodes -> Definition \cup {NoDefinition}]
      BY <1>2, LifecycleConstants, DefinitionFacts
    <2>4. QED
      BY <1>1, <1>2, <2>1, <2>2, <2>3 DEF IInv, TypeOK
  <1>5. BudgetInv'
    BY <1>2, <1>3 DEF IInv, BudgetInv
  <1>6. NoOrphanLease' /\ ReleasedByConfirmation' /\ CapacityRespected' /\ GraphInv'
    <2>1. \A n \in Nodes : ~Holds(n)
      BY <1>3, HoldersRun DEF IInv
    <2>2. NoOrphanLease' /\ ReleasedByConfirmation' /\ CapacityRespected'
      BY <1>2, <2>1, LeasesFrame DEF IInv
    <2>3. ASSUME NEW n \in Nodes
          PROVE  /\ status'[n] = "absent" <=> definition'[n] = NoDefinition
                 /\ status'[n] # "absent" => \E d \in Definitions[n] : d.budget = definition'[n].budget
      BY <1>2, LifecycleConstants
    <2>4. QED
      BY <1>2, <2>1, <2>2, <2>3 DEF GraphInv, Holds
  <1>7. StartedOnInputs' /\ SkipIsJustified'
    BY <1>3 DEF StartedOnInputs, SkipIsJustified, Classes
  <1>8. QED
    BY <1>1, <1>4, <1>5, <1>6, <1>7 DEF IInv

-----------------------------------------------------------------------------
(* Attempts.                                                               *)

LEMMA StepChangeAttempt ==
    ASSUME IInv, NEW p \in Procs, NEW n \in Nodes, NEW from,
           NEW to \in {"running", "waiting", "submitted"}, ChangeAttempt(p, n, from, to)
    PROVE  IInv'
  <1>1. job' \in [Procs -> Job] /\ \A q \in Procs : JobInv(q)'
    BY CommitJobs DEF ChangeAttempt, Command, IInv, TypeOK
  <1>2. /\ attempt' = [attempt EXCEPT ![n] = to]
        /\ UNCHANGED <<status, definition, edges, changes, number, lease, incident, keys>>
    BY DEF ChangeAttempt, graph
  <1>3. TypeOK'
    BY <1>1, <1>2 DEF IInv, TypeOK
  <1>4. NoOrphanLease' /\ ReleasedByConfirmation' /\ CapacityRespected'
    <2>1. ASSUME NEW m \in Nodes, Holds(m)
          PROVE  status'[m] = "active" /\ attempt'[m] # "terminal"
      <3>1. status[m] = "active" /\ attempt[m] # "terminal"
        BY <2>1, HoldersRun DEF IInv
      <3>2. QED
        BY <1>2, <3>1 DEF IInv, TypeOK
    <2>2. QED
      BY <1>2, <2>1, LeasesFrame DEF IInv
  <1>5. BudgetInv' /\ GraphInv'
    BY <1>2, GraphFrame DEF IInv, BudgetInv
  <1>6. StartedOnInputs' /\ SkipIsJustified'
    BY <1>2 DEF IInv, StartedOnInputs, SkipIsJustified, Incoming, Satisfied, Refuted
  <1>7. QED
    BY <1>1, <1>3, <1>4, <1>5, <1>6 DEF IInv

(* An attempt starts on a planned node, which holds nothing yet.           *)
LEMMA StepStartNode ==
    ASSUME IInv, NEW p \in Procs, NEW n \in Nodes, StartNode(p, n)
    PROVE  IInv'
  <1> DEFINE q == definition[n].need
  <1> DEFINE new == [NoLease EXCEPT !.closure = "pending", !.active = TRUE, !.quantity = q]
  <1>1. job' \in [Procs -> Job] /\ \A r \in Procs : JobInv(r)'
    BY CommitJobs DEF StartNode, Command, IInv, TypeOK
  <1>2. /\ status[n] = "planned" /\ n \in Ready /\ number[n] < MaxAttempts
        /\ status'  = [status EXCEPT ![n] = "active"]
        /\ attempt' = [attempt EXCEPT ![n] = "running"]
        /\ number'  = [number EXCEPT ![n] = @ + 1]
        /\ lease'   = IF q = 0 THEN lease ELSE [lease EXCEPT ![n][number[n] + 1] = new]
        /\ UNCHANGED <<definition, edges, changes, incident, keys>>
    BY DEF StartNode, graph
  <1>3. /\ number[n] \in 0..MaxAttempts /\ MaxAttempts \in Nat /\ number[n] + 1 \in Attempts
        /\ q \in 0..Capacity /\ Capacity \in Nat
    <2>1. number[n] \in 0..MaxAttempts /\ definition[n] \in Definition \cup {NoDefinition}
      BY DEF IInv, TypeOK
    <2>2. MaxAttempts \in Nat /\ Capacity \in Nat
      BY LifecycleConstants
    <2>3. QED
      BY <1>2, <2>1, <2>2, DefinitionFacts DEF Attempts
  <1>4. /\ new \in Lease /\ new.active /\ new.quantity = q
        /\ new.closure = "pending" /\ new.incident = "none"
    <2>1. 0 \in 0..AttemptBudget
      BY LifecycleConstants
    <2>2. QED
      BY <1>3, <2>1 DEF NoLease, Lease
  <1> HIDE DEF new
  <1>5. lease' \in [Nodes -> [Attempts -> Lease]]
    <2>1. lease \in [Nodes -> [Attempts -> Lease]] /\ lease[n] \in [Attempts -> Lease]
      BY DEF IInv, TypeOK
    <2>2. [lease[n] EXCEPT ![number[n] + 1] = new] \in [Attempts -> Lease]
      BY <1>3, <1>4, <2>1
    <2>3. [lease EXCEPT ![n] = [lease[n] EXCEPT ![number[n] + 1] = new]] \in [Nodes -> [Attempts -> Lease]]
      BY <2>1, <2>2
    <2>4. QED
      BY <1>2, <2>1, <2>3
  <1>6. TypeOK'
    <2>1. number' \in [Nodes -> 0..MaxAttempts]
      BY <1>2, <1>3 DEF IInv, TypeOK
    <2>2. status' \in [Nodes -> Statuses]
      BY <1>2 DEF IInv, TypeOK, Statuses
    <2>3. attempt' \in [Nodes -> {"none", "running", "waiting", "submitted", "terminal"}]
      BY <1>2 DEF IInv, TypeOK
    <2>4. QED
      BY <1>1, <1>2, <1>5, <2>1, <2>2, <2>3 DEF IInv, TypeOK
  <1>7. ~Holds(n)
    BY <1>2, HoldersRun DEF IInv
  <1>8. ASSUME NEW m \in Nodes, NEW a \in Attempts
        PROVE  lease'[m][a] = IF m = n /\ a = number[n] + 1 /\ q # 0 THEN new ELSE lease[m][a]
    BY <1>2, <1>3 DEF IInv, TypeOK
  <1>9. BudgetInv'
    <2>1. \E d \in Definitions[n] : number[n] + 1 <= d.budget + 1
      <3>1. CASE number[n] > 0
        <4>1. PICK d \in Definitions[n] : number[n] <= d.budget
          BY <1>2, <3>1 DEF IInv, BudgetInv
        <4>2. d.budget \in Nat /\ number[n] \in Nat
          BY <1>3, DefinitionFacts
        <4>3. QED
          BY <4>1, <4>2
      <3>2. CASE number[n] = 0
        <4>1. PICK d \in Definitions[n] : d.budget = definition[n].budget
          BY <1>2 DEF IInv, GraphInv
        <4>2. d.budget \in Nat
          BY DefinitionFacts
        <4>3. QED
          BY <3>2, <4>1, <4>2
      <3>3. QED
        BY <1>3, <3>1, <3>2
    <2>2. /\ number'[n] = number[n] + 1 /\ status'[n] = "active"
          /\ \A m \in Nodes \ {n} : number'[m] = number[m] /\ status'[m] = status[m]
      BY <1>2 DEF IInv, TypeOK
    <2>3. QED
      BY <2>1, <2>2 DEF IInv, BudgetInv
  <1>10. NoOrphanLease'
    <2>1. ASSUME NEW m \in Nodes, NEW a \in Attempts, lease'[m][a].active
          PROVE  status'[m] = "active" /\ attempt'[m] # "terminal" /\ a = number'[m]
      <3>1. CASE m = n
        BY <1>2, <1>7, <1>8, <2>1, <3>1 DEF IInv, TypeOK, Holds
      <3>2. CASE m # n
        <4>1. lease[m][a].active
          BY <1>8, <2>1, <3>2
        <4>2. status[m] = "active" /\ attempt[m] # "terminal" /\ a = number[m]
          BY <4>1 DEF IInv, NoOrphanLease
        <4>3. QED
          BY <1>2, <3>2, <4>2 DEF IInv, TypeOK
      <3>3. QED
        BY <3>1, <3>2
    <2>2. QED
      BY <2>1 DEF NoOrphanLease
  <1>11. ReleasedByConfirmation'
    <2>1. ASSUME NEW m \in Nodes, NEW a \in Attempts
          PROVE  /\ lease'[m][a].closure # "none" =>
                       (lease'[m][a].active <=> lease'[m][a].closure # "confirmed")
                 /\ lease'[m][a].incident = "resolved" => lease'[m][a].closure = "confirmed"
                 /\ lease'[m][a].closure = "confirmed" => lease'[m][a].incident \in {"none", "resolved"}
      BY <1>4, <1>8 DEF IInv, ReleasedByConfirmation
    <2>2. QED
      BY <2>1 DEF ReleasedByConfirmation
  <1>12. CapacityRespected'
    <2>1. \A m \in Nodes \ {n} : Held(m)' = Held(m)
      BY <1>8 DEF Held
    <2>2. CASE q = 0
      <3>1. \A m \in Nodes : Held(m)' \subseteq Held(m)
        BY <1>8, <2>2 DEF Held
      <3>2. QED
        BY <3>1, CapacityKept DEF IInv
    <2>3. CASE q # 0
      <3>1. q \in 1..Capacity /\ q <= Available
        BY <1>2, <1>3, <2>3 DEF Ready
      <3>2. Held(n) = {}
        BY <1>7 DEF Held, Holds
      <3>3. Held(n)' = 1..q
        <4>1. ASSUME NEW a \in Attempts
              PROVE  lease'[n][a].active <=> a = number[n] + 1
          BY <1>4, <1>7, <1>8, <2>3 DEF Holds
        <4>2. lease'[n][number[n] + 1].quantity = q /\ number[n] + 1 \in Attempts
          BY <1>3, <1>4, <1>8, <2>3
        <4>3. \A k \in 1..Capacity : k \in Held(n)' <=> k <= q
          BY <4>1, <4>2 DEF Held
        <4>4. Held(n)' \subseteq 1..Capacity
          BY DEF Held
        <4> HIDE DEF q
        <4>5. \A k : k \in Held(n)' <=> k \in 1..q
          BY <1>3, <4>3, <4>4
        <4>6. QED
          BY <4>5, Zenon
      <3> HIDE DEF q
      <3>4. QED
        BY <2>1, <3>1, <3>2, <3>3, CapacityTaken DEF IInv
    <2>4. QED
      BY <2>2, <2>3
  <1>13. StartedOnInputs' /\ SkipIsJustified'
    <2>1. \A e \in Incoming(n) : Satisfied(e)
      BY <1>2 DEF Ready
    <2>2. "active" \in Statuses
      BY DEF Statuses
    <2>3. QED
      BY <1>2, <2>1, <2>2, OneNodeMoves DEF IInv
  <1>14. GraphInv'
    <2>1. \A m \in Nodes : status'[m] = "absent" <=> status[m] = "absent"
      BY <1>2 DEF IInv, TypeOK
    <2>2. ASSUME NEW m \in Nodes, NEW a \in Attempts, lease'[m][a].active
          PROVE  lease'[m][a].quantity = definition[m].need
      BY <1>4, <1>8, <2>2 DEF IInv, GraphInv
    <2>3. QED
      BY <1>2, <2>1, <2>2 DEF IInv, GraphInv
  <1>15. QED
    BY <1>1, <1>6, <1>9, <1>10, <1>11, <1>12, <1>13, <1>14 DEF IInv

(* An attempt that holds nothing ends; the node is planned again only      *)
(* while its budget lasts.                                                 *)
LEMMA StepFinishAttempt ==
    ASSUME IInv, NEW p \in Procs, NEW n \in Nodes, NEW class \in Classes \cup {"retryable"},
           FinishAttempt(p, n, class)
    PROVE  IInv'
  <1> DEFINE s == IF class = "retryable" THEN "planned" ELSE class
  <1> DEFINE i == IF class \in {"failure", "cancelled"} THEN "open" ELSE incident[n]
  <1>1. job' \in [Procs -> Job] /\ \A q \in Procs : JobInv(q)'
    BY CommitJobs DEF FinishAttempt, Command, IInv, TypeOK
  <1>2. /\ status[n] = "active" /\ ~HoldsLease(n)
        /\ class = "retryable" => MayRetry(n)
        /\ attempt' = [attempt EXCEPT ![n] = "terminal"]
        /\ status' = [status EXCEPT ![n] = s]
        /\ incident' = [incident EXCEPT ![n] = i]
        /\ UNCHANGED <<definition, edges, changes, number, lease, keys>>
    BY DEF FinishAttempt, graph, IInv, TypeOK
  <1>3. /\ s \in {"planned"} \cup Classes /\ s \in Statuses
        /\ s = "planned" => number[n] <= definition[n].budget
    BY <1>2 DEF MayRetry, Classes, Statuses, Ended
  <1>4. i \in {"none", "open", "resolved"}
    BY DEF IInv, TypeOK
  <1> HIDE DEF s, i
  <1>5. TypeOK'
    BY <1>1, <1>2, <1>3, <1>4 DEF IInv, TypeOK
  <1>6. BudgetInv'
    <2>1. ASSUME NEW m \in Nodes, number[m] > 0, status'[m] \in {"absent", "planned"}
          PROVE  \E d \in Definitions[m] : number[m] <= d.budget
      <3>1. CASE m = n
        <4>1. number[n] <= definition[n].budget
          BY <1>2, <1>3, <2>1, <3>1 DEF IInv, TypeOK, Classes
        <4>2. PICK d \in Definitions[n] : d.budget = definition[n].budget
          BY <1>2 DEF IInv, GraphInv
        <4>3. QED
          BY <3>1, <4>1, <4>2
      <3>2. CASE m # n
        BY <1>2, <2>1, <3>2 DEF IInv, TypeOK, BudgetInv
      <3>3. QED
        BY <3>1, <3>2
    <2>2. QED
      BY <1>2, <2>1 DEF IInv, BudgetInv
  <1>7. NoOrphanLease' /\ ReleasedByConfirmation' /\ CapacityRespected'
    <2>1. ASSUME NEW m \in Nodes, Holds(m)
          PROVE  status'[m] = "active" /\ attempt'[m] # "terminal"
      <3>1. status[m] = "active" /\ attempt[m] # "terminal" /\ HoldsLease(m)
        BY <2>1, HoldersRun DEF IInv
      <3>2. QED
        BY <1>2, <3>1 DEF IInv, TypeOK
    <2>2. QED
      BY <1>2, <2>1, LeasesFrame DEF IInv
  <1>8. StartedOnInputs' /\ SkipIsJustified'
    <2>1. s # "skipped"
      BY <1>3 DEF Classes
    <2>2. QED
      BY <1>2, <1>3, <2>1, OneNodeMoves DEF IInv
  <1>9. GraphInv'
    <2>1. \A m \in Nodes : status'[m] = "absent" <=> status[m] = "absent"
      BY <1>2, <1>3 DEF IInv, TypeOK, Classes
    <2>2. QED
      BY <1>2, <2>1, GraphFrame DEF IInv
  <1>10. QED
    BY <1>1, <1>5, <1>6, <1>7, <1>8, <1>9 DEF IInv

-----------------------------------------------------------------------------
(* Resources.                                                              *)

(* What is said of a lease by itself.                                      *)
LeaseInv(l) ==
    /\ l.closure # "none" => (l.active <=> l.closure # "confirmed")
    /\ l.incident = "resolved" => l.closure = "confirmed"
    /\ l.closure = "confirmed" => l.incident \in {"none", "resolved"}

LEMMA LatestLease ==
    ASSUME IInv, NEW n \in Nodes, number[n] > 0
    PROVE  /\ number[n] \in Attempts
           /\ lease[n][number[n]] \in Lease /\ LeaseInv(lease[n][number[n]])
  <1>1. number[n] \in 0..MaxAttempts /\ MaxAttempts \in Nat
    BY LifecycleConstants DEF IInv, TypeOK
  <1>2. number[n] \in Attempts
    BY <1>1 DEF Attempts
  <1>3. QED
    BY <1>2 DEF IInv, TypeOK, ReleasedByConfirmation, LeaseInv

(* The lease of the latest attempt changes: it is active only if it was,   *)
(* and for the same quantity.                                              *)
LEMMA StepUpdateLease ==
    ASSUME IInv, NEW p \in Procs, NEW n \in Nodes, NEW l \in Lease, number[n] > 0,
           UpdateLease(p, n, l), LeaseInv(l),
           l.active => lease[n][number[n]].active, l.quantity = lease[n][number[n]].quantity
    PROVE  IInv'
  <1>1. job' \in [Procs -> Job] /\ \A q \in Procs : JobInv(q)'
    BY CommitJobs DEF UpdateLease, IInv, TypeOK
  <1>2. /\ lease' = [lease EXCEPT ![n][number[n]] = l]
        /\ UNCHANGED <<status, definition, edges, changes, attempt, number, incident, keys>>
    BY DEF UpdateLease, graph
  <1>3. number[n] \in Attempts
    BY LatestLease
  <1>4. lease' \in [Nodes -> [Attempts -> Lease]]
    <2>1. lease \in [Nodes -> [Attempts -> Lease]] /\ lease[n] \in [Attempts -> Lease]
      BY DEF IInv, TypeOK
    <2>2. [lease[n] EXCEPT ![number[n]] = l] \in [Attempts -> Lease]
      BY <1>3, <2>1
    <2>3. QED
      BY <1>2, <2>1, <2>2
  <1>5. TypeOK'
    BY <1>1, <1>2, <1>4 DEF IInv, TypeOK
  <1>6. ASSUME NEW m \in Nodes, NEW a \in Attempts
        PROVE  lease'[m][a] = IF m = n /\ a = number[n] THEN l ELSE lease[m][a]
    BY <1>2, <1>3 DEF IInv, TypeOK
  <1>7. ASSUME NEW m \in Nodes, NEW a \in Attempts, lease'[m][a].active
        PROVE  lease[m][a].active /\ lease'[m][a].quantity = lease[m][a].quantity
    BY <1>6, <1>7
  <1>8. NoOrphanLease'
    BY <1>2, <1>7 DEF IInv, NoOrphanLease
  <1>9. ReleasedByConfirmation'
    <2>1. ASSUME NEW m \in Nodes, NEW a \in Attempts PROVE LeaseInv(lease'[m][a])
      <3>1. LeaseInv(lease[m][a])
        BY DEF IInv, ReleasedByConfirmation, LeaseInv
      <3>2. QED
        BY <1>6, <3>1
    <2>2. QED
      BY <2>1 DEF ReleasedByConfirmation, LeaseInv
  <1>10. CapacityRespected'
    <2>1. \A m \in Nodes : Held(m)' \subseteq Held(m)
      BY <1>7 DEF Held
    <2>2. QED
      BY <2>1, CapacityKept DEF IInv
  <1>11. BudgetInv' /\ GraphInv'
    BY <1>2, <1>7 DEF IInv, BudgetInv, GraphInv
  <1>12. StartedOnInputs' /\ SkipIsJustified'
    BY <1>2 DEF IInv, StartedOnInputs, SkipIsJustified, Incoming, Satisfied, Refuted
  <1>13. QED
    BY <1>1, <1>5, <1>8, <1>9, <1>10, <1>11, <1>12 DEF IInv

LEMMA BumpType ==
    ASSUME NEW k \in 0..AttemptBudget
    PROVE  Bump(k) \in 0..AttemptBudget /\ 0 \in 0..AttemptBudget
  <1>1. AttemptBudget \in Nat
    BY LifecycleConstants
  <1>2. QED
    BY <1>1 DEF Bump

(* An observation releases the lease exactly when it confirms the closure. *)
LEMMA ObservedLease ==
    ASSUME NEW l \in Lease, l.active, l.incident \in {"none", "open"},
           NEW r \in {"confirmed", "unconfirmed"}
    PROVE  /\ Observed(l, r) \in Lease /\ LeaseInv(Observed(l, r))
           /\ Observed(l, r).quantity = l.quantity
  <1>1. Bump(l.noProgress) \in 0..AttemptBudget /\ 0 \in 0..AttemptBudget
    BY BumpType DEF Lease
  <1>2. CASE r = "confirmed"
    <2> DEFINE i == IF l.incident = "none" THEN "none" ELSE "resolved"
    <2>1. Observed(l, r) = [l EXCEPT !.closure = r, !.active = FALSE, !.noProgress = 0, !.incident = i]
      BY <1>2 DEF Observed, Lease
    <2>2. i \in {"none", "resolved"}
      OBVIOUS
    <2> HIDE DEF i
    <2>3. Observed(l, r) \in Lease
      BY <1>1, <1>2, <2>1, <2>2 DEF Lease
    <2>4. /\ Observed(l, r).closure = "confirmed" /\ ~Observed(l, r).active
          /\ Observed(l, r).incident = i /\ Observed(l, r).quantity = l.quantity
      BY <1>2, <2>1 DEF Lease
    <2>5. QED
      BY <2>2, <2>3, <2>4 DEF LeaseInv
  <1>3. CASE r = "unconfirmed"
    <2> DEFINE i == IF l.incident # "none" /\ l.noProgress + 1 >= AttemptBudget
                      THEN "circuit-open" ELSE "open"
    <2>1. Observed(l, r) = [l EXCEPT !.closure = r, !.noProgress = Bump(l.noProgress), !.incident = i]
      BY <1>3 DEF Observed, Lease
    <2>2. i \in {"circuit-open", "open"}
      OBVIOUS
    <2> HIDE DEF i
    <2>3. Observed(l, r) \in Lease
      BY <1>1, <1>3, <2>1, <2>2 DEF Lease
    <2>4. /\ Observed(l, r).closure = "unconfirmed" /\ Observed(l, r).active
          /\ Observed(l, r).incident = i /\ Observed(l, r).quantity = l.quantity
      BY <1>3, <2>1 DEF Lease
    <2>5. QED
      BY <2>2, <2>3, <2>4 DEF LeaseInv
  <1>4. QED
    BY <1>2, <1>3

LEMMA StepCloseResource ==
    ASSUME IInv, NEW p \in Procs, NEW n \in Nodes, CloseResource(p, n)
    PROVE  IInv'
  <1>1. PICK r \in {"confirmed", "unconfirmed"} :
           /\ HoldsLease(n) /\ lease[n][number[n]].incident \in {"none", "open"}
           /\ UpdateLease(p, n, Observed(lease[n][number[n]], r))
    BY DEF CloseResource
  <1>2. number[n] > 0 /\ lease[n][number[n]].active
    BY <1>1 DEF HoldsLease
  <1>3. lease[n][number[n]] \in Lease
    BY <1>2, LatestLease
  <1>4. /\ Observed(lease[n][number[n]], r) \in Lease /\ LeaseInv(Observed(lease[n][number[n]], r))
        /\ Observed(lease[n][number[n]], r).quantity = lease[n][number[n]].quantity
    BY <1>1, <1>2, <1>3, ObservedLease
  <1>5. QED
    BY <1>1, <1>2, <1>4, StepUpdateLease

(* The counter and the circuit of an unresolved incident move: the lease   *)
(* and its closure do not.                                                 *)
LEMMA StepIncident ==
    ASSUME IInv, NEW p \in Procs, NEW n \in Nodes, number[n] > 0,
           lease[n][number[n]].incident \in {"open", "circuit-open"},
           NEW i \in {"open", "circuit-open"}, NEW np \in 0..AttemptBudget,
           UpdateLease(p, n, [lease[n][number[n]] EXCEPT !.noProgress = np, !.incident = i])
    PROVE  IInv'
  <1>1. PICK l \in Lease : l = lease[n][number[n]] /\ LeaseInv(l)
    BY LatestLease
  <1>2. PICK k : k = [l EXCEPT !.noProgress = np, !.incident = i]
    OBVIOUS
  <1>3. /\ k \in Lease /\ k.active = l.active /\ k.quantity = l.quantity
        /\ k.closure = l.closure /\ k.incident = i
    BY <1>2 DEF Lease
  <1>4. LeaseInv(k)
    BY <1>1, <1>3 DEF LeaseInv
  <1>5. UpdateLease(p, n, k)
    BY <1>1, <1>2
  <1>6. QED
    BY <1>1, <1>3, <1>4, <1>5, StepUpdateLease

LEMMA StepProgressIncident ==
    ASSUME IInv, NEW p \in Procs, NEW n \in Nodes, ProgressIncident(p, n)
    PROVE  IInv'
  <1>1. number[n] > 0 /\ lease[n][number[n]].incident = "open"
    BY DEF ProgressIncident
  <1>2. lease[n][number[n]].noProgress \in 0..AttemptBudget
    BY <1>1, LatestLease DEF Lease
  <1>3. PICK made \in BOOLEAN, late \in BOOLEAN :
           LET np == IF made THEN 0 ELSE Bump(lease[n][number[n]].noProgress) IN
           UpdateLease(p, n, [lease[n][number[n]] EXCEPT
              !.noProgress = np,
              !.incident = IF np >= AttemptBudget \/ late THEN "circuit-open" ELSE "open"])
    BY DEF ProgressIncident
  <1>4. PICK np : np = IF made THEN 0 ELSE Bump(lease[n][number[n]].noProgress)
    OBVIOUS
  <1>5. PICK i : i = IF np >= AttemptBudget \/ late THEN "circuit-open" ELSE "open"
    OBVIOUS
  <1>6. np \in 0..AttemptBudget /\ i \in {"open", "circuit-open"}
    BY <1>2, <1>4, <1>5, BumpType
  <1>7. UpdateLease(p, n, [lease[n][number[n]] EXCEPT !.noProgress = np, !.incident = i])
    BY <1>3, <1>4, <1>5
  <1>8. QED
    BY <1>1, <1>6, <1>7, StepIncident

LEMMA StepTripIncident ==
    ASSUME IInv, NEW p \in Procs, NEW n \in Nodes, TripIncident(p, n)
    PROVE  IInv'
  <1>1. number[n] > 0 /\ lease[n][number[n]].incident \in {"open", "circuit-open"}
    BY DEF TripIncident
  <1>2. PICK l \in Lease : l = lease[n][number[n]]
    BY <1>1, LatestLease
  <1>3. [l EXCEPT !.incident = "circuit-open"] =
           [l EXCEPT !.noProgress = l.noProgress, !.incident = "circuit-open"]
    BY DEF Lease
  <1>4. l.noProgress \in 0..AttemptBudget
    BY DEF Lease
  <1>5. UpdateLease(p, n, [l EXCEPT !.noProgress = l.noProgress, !.incident = "circuit-open"])
    BY <1>2, <1>3 DEF TripIncident
  <1>6. QED
    BY <1>1, <1>2, <1>4, <1>5, StepIncident

LEMMA StepRetryIncident ==
    ASSUME IInv, NEW p \in Procs, NEW n \in Nodes, RetryIncident(p, n)
    PROVE  IInv'
  <1>1. number[n] > 0 /\ lease[n][number[n]].incident = "circuit-open"
    BY DEF RetryIncident
  <1>2. PICK l \in Lease : l = lease[n][number[n]]
    BY <1>1, LatestLease
  <1>3. [l EXCEPT !.incident = "open", !.noProgress = 0] =
           [l EXCEPT !.noProgress = 0, !.incident = "open"]
    BY DEF Lease
  <1>4. 0 \in 0..AttemptBudget
    BY LifecycleConstants
  <1>5. UpdateLease(p, n, [l EXCEPT !.noProgress = 0, !.incident = "open"])
    BY <1>2, <1>3 DEF RetryIncident
  <1>6. QED
    BY <1>1, <1>2, <1>4, <1>5, StepIncident

-----------------------------------------------------------------------------
(* Graph changes.                                                          *)

(* The part that all changes of the graph share.                           *)
LEMMA ChangeFacts ==
    ASSUME IInv, NEW p \in Procs, NEW ds, NEW es, Change(p, ds, es)
    PROVE  /\ job' \in [Procs -> Job] /\ \A q \in Procs : JobInv(q)'
           /\ definition' = ds /\ edges' = es /\ changes' \in 0..MaxChanges
           /\ UNCHANGED <<number, keys, incident>>
  <1>1. job' \in [Procs -> Job] /\ \A q \in Procs : JobInv(q)'
    BY CommitJobs DEF Change, Command, IInv, TypeOK
  <1>2. changes \in 0..MaxChanges /\ MaxChanges \in Nat
    BY LifecycleConstants DEF IInv, TypeOK
  <1>3. changes' \in 0..MaxChanges
    BY <1>2 DEF Change
  <1>4. QED
    BY <1>1, <1>3 DEF Change

(* The definition of one node that does not run is another one.            *)
LEMMA Redefine ==
    ASSUME IInv, NEW n \in Nodes, NEW d, definition' = Defined(n, d), UNCHANGED lease,
           status[n] \in {"absent", "planned"}, status'[n] = "absent" <=> d = NoDefinition,
           d # NoDefinition => d \in Definition /\ \E e \in Definitions[n] : e.budget = d.budget,
           \A m \in Nodes \ {n} : status'[m] = "absent" <=> status[m] = "absent"
    PROVE  definition' \in [Nodes -> Definition \cup {NoDefinition}] /\ GraphInv'
  <1>1. definition' = [definition EXCEPT ![n] = d] /\ d \in Definition \cup {NoDefinition}
    BY DEF Defined
  <1>2. definition \in [Nodes -> Definition \cup {NoDefinition}]
    BY DEF IInv, TypeOK
  <1>3. \A a \in Attempts : ~lease[n][a].active
    BY HoldersRun DEF IInv, Holds
  <1>4. ASSUME NEW m \in Nodes
        PROVE  /\ status'[m] = "absent" <=> definition'[m] = NoDefinition
               /\ status'[m] # "absent" => \E e \in Definitions[m] : e.budget = definition'[m].budget
               /\ \A a \in Attempts : lease[m][a].active => lease[m][a].quantity = definition'[m].need
    <2>1. CASE m = n
      BY <1>1, <1>2, <1>3, <2>1
    <2>2. CASE m # n
      BY <1>1, <1>2, <2>2 DEF IInv, GraphInv
    <2>3. QED
      BY <2>1, <2>2
  <1>5. QED
    BY <1>1, <1>2, <1>4 DEF GraphInv

LEMMA StepAddNode ==
    ASSUME IInv, NEW p \in Procs, NEW n \in Nodes, NEW d \in Definitions[n], AddNode(p, n, d)
    PROVE  IInv'
  <1>1. /\ job' \in [Procs -> Job] /\ \A q \in Procs : JobInv(q)'
        /\ definition' = Defined(n, d) /\ edges' = edges /\ changes' \in 0..MaxChanges
        /\ UNCHANGED <<attempt, number, lease, keys, incident>>
    BY ChangeFacts DEF AddNode
  <1>2. status[n] = "absent" /\ status' = [status EXCEPT ![n] = "planned"]
    BY DEF AddNode, Present
  <1>3. "planned" \in Statuses /\ "planned" \notin {"active"} \cup Classes
    BY DEF Statuses, Classes
  <1>4. /\ definition' \in [Nodes -> Definition \cup {NoDefinition}] /\ GraphInv'
    BY <1>1, <1>2, Redefine, DefinitionFacts DEF IInv, TypeOK
  <1>5. TypeOK'
    BY <1>1, <1>2, <1>3, <1>4 DEF IInv, TypeOK
  <1>6. BudgetInv'
    BY <1>1, <1>2 DEF IInv, TypeOK, BudgetInv
  <1>7. NoOrphanLease' /\ ReleasedByConfirmation' /\ CapacityRespected'
    <2>1. ASSUME NEW m \in Nodes, Holds(m)
          PROVE  status'[m] = "active" /\ attempt'[m] # "terminal"
      <3>1. status[m] = "active" /\ attempt[m] # "terminal"
        BY <2>1, HoldersRun DEF IInv
      <3>2. QED
        BY <1>1, <1>2, <3>1 DEF IInv, TypeOK
    <2>2. QED
      BY <1>1, <2>1, LeasesFrame DEF IInv
  <1>8. StartedOnInputs' /\ SkipIsJustified'
    BY <1>1, <1>2, <1>3, OneNodeMoves DEF IInv
  <1>9. QED
    BY <1>1, <1>4, <1>5, <1>6, <1>7, <1>8 DEF IInv

(* A node that was planned again keeps the retry it was granted, also when *)
(* the definition it has now would not grant it.                           *)
LEMMA StepUpdateNode ==
    ASSUME IInv, NEW p \in Procs, NEW n \in Nodes, NEW d \in Definitions[n], UpdateNode(p, n, d)
    PROVE  IInv'
  <1>1. /\ job' \in [Procs -> Job] /\ \A q \in Procs : JobInv(q)'
        /\ definition' = Defined(n, d) /\ edges' = edges /\ changes' \in 0..MaxChanges
        /\ UNCHANGED <<status, attempt, number, lease, keys, incident>>
    BY ChangeFacts DEF UpdateNode
  <1>2. status[n] = "planned"
    BY DEF UpdateNode
  <1>3. definition' \in [Nodes -> Definition \cup {NoDefinition}] /\ GraphInv'
    BY <1>1, <1>2, Redefine, DefinitionFacts
  <1>4. TypeOK'
    BY <1>1, <1>3 DEF IInv, TypeOK
  <1>5. BudgetInv' /\ NoOrphanLease' /\ ReleasedByConfirmation' /\ CapacityRespected'
    BY <1>1 DEF IInv, BudgetInv, NoOrphanLease, ReleasedByConfirmation, CapacityRespected, InUse, Held
  <1>6. StartedOnInputs' /\ SkipIsJustified'
    BY <1>1 DEF IInv, StartedOnInputs, SkipIsJustified, Incoming, Satisfied, Refuted
  <1>7. QED
    BY <1>1, <1>3, <1>4, <1>5, <1>6 DEF IInv

(* With a planned node go its edges: none of them is what another node was *)
(* started or skipped on.                                                  *)
LEMMA StepRemoveNode ==
    ASSUME IInv, NEW p \in Procs, NEW n \in Nodes, RemoveNode(p, n)
    PROVE  IInv'
  <1>1. /\ job' \in [Procs -> Job] /\ \A q \in Procs : JobInv(q)'
        /\ definition' = Defined(n, NoDefinition)
        /\ edges' = {e \in edges : n \notin {e.from, e.to}} /\ changes' \in 0..MaxChanges
        /\ UNCHANGED <<attempt, number, lease, keys, incident>>
    BY ChangeFacts DEF RemoveNode
  <1>2. status[n] = "planned" /\ status' = [status EXCEPT ![n] = "absent"]
    BY DEF RemoveNode
  <1>3. TypeOK' /\ GraphInv'
    <2>1. status' \in [Nodes -> Statuses]
      BY <1>2 DEF IInv, TypeOK, Statuses
    <2>2. definition' \in [Nodes -> Definition \cup {NoDefinition}] /\ GraphInv'
      BY <1>1, <1>2, Redefine DEF IInv, TypeOK
    <2>3. edges' \in SUBSET Edges
      BY <1>1 DEF IInv, TypeOK
    <2>4. QED
      BY <1>1, <2>1, <2>2, <2>3 DEF IInv, TypeOK
  <1>4. BudgetInv'
    BY <1>1, <1>2 DEF IInv, TypeOK, BudgetInv
  <1>5. NoOrphanLease' /\ ReleasedByConfirmation' /\ CapacityRespected'
    <2>1. ASSUME NEW m \in Nodes, Holds(m)
          PROVE  status'[m] = "active" /\ attempt'[m] # "terminal"
      <3>1. status[m] = "active" /\ attempt[m] # "terminal"
        BY <2>1, HoldersRun DEF IInv
      <3>2. QED
        BY <1>1, <1>2, <3>1 DEF IInv, TypeOK
    <2>2. QED
      BY <1>1, <2>1, LeasesFrame DEF IInv
  <1>6. \A m \in Nodes : m # n => status'[m] = status[m]
    BY <1>2 DEF IInv, TypeOK
  <1>7. \A e \in edges' : e \in edges /\ e.from \in Nodes /\ e.from # n /\ e.to # n
    BY <1>1, EdgeFacts DEF IInv, TypeOK
  <1>8. status'[n] = "absent" /\ "absent" \notin {"active"} \cup Classes
    BY <1>2 DEF IInv, TypeOK, Classes
  <1>9. \A e \in edges' : (Satisfied(e)' <=> Satisfied(e)) /\ (Refuted(e)' <=> Refuted(e))
    BY <1>6, <1>7 DEF Satisfied, Refuted
  <1>10. StartedOnInputs'
    <2>1. ASSUME NEW m \in Nodes, status'[m] \in {"active"} \cup Classes, NEW e \in edges', e.to = m
          PROVE  Satisfied(e)' \/ status'[e.from] = "superseded"
      <3>1. m # n /\ status[m] \in {"active"} \cup Classes
        BY <1>6, <1>8, <2>1
      <3>2. Satisfied(e) \/ status[e.from] = "superseded"
        BY <1>7, <2>1, <3>1 DEF IInv, StartedOnInputs, Incoming
      <3>3. QED
        BY <1>6, <1>7, <1>9, <3>2
    <2>2. QED
      BY <2>1 DEF StartedOnInputs, Incoming
  <1>11. SkipIsJustified'
    <2>1. ASSUME NEW m \in Nodes, status'[m] = "skipped"
          PROVE  \E e \in edges' : e.to = m /\ (Refuted(e)' \/ status'[e.from] = "superseded")
      <3>1. m # n /\ status[m] = "skipped"
        BY <1>6, <1>8, <2>1
      <3>2. PICK e \in edges : e.to = m /\ (Refuted(e) \/ status[e.from] = "superseded")
        BY <3>1 DEF IInv, SkipIsJustified, Incoming
      <3>3. e.from # n
        BY <1>2, <3>2 DEF Refuted, Ended, Classes
      <3>4. e \in edges'
        BY <1>1, <3>1, <3>2, <3>3
      <3>5. QED
        BY <1>6, <1>7, <1>9, <3>2, <3>4
    <2>2. QED
      BY <2>1 DEF SkipIsJustified, Incoming
  <1>12. QED
    BY <1>1, <1>3, <1>4, <1>5, <1>10, <1>11 DEF IInv

LEMMA StepChangeEdges ==
    ASSUME IInv, NEW p \in Procs, NEW es \in SUBSET Edges, Change(p, definition, es),
           UNCHANGED <<status, attempt, lease>>,
           \A e \in es : e \in edges \/ status[e.to] = "planned",
           \A e \in edges : e \in es \/ status[e.to] = "planned"
    PROVE  IInv'
  <1>1. /\ job' \in [Procs -> Job] /\ \A q \in Procs : JobInv(q)'
        /\ edges' = es /\ changes' \in 0..MaxChanges
        /\ UNCHANGED <<definition, number, keys, incident>>
    BY ChangeFacts
  <1>2. TypeOK'
    BY <1>1 DEF IInv, TypeOK
  <1>3. BudgetInv' /\ GraphInv' /\ NoOrphanLease' /\ ReleasedByConfirmation' /\ CapacityRespected'
    BY <1>1 DEF IInv, BudgetInv, GraphInv, NoOrphanLease, ReleasedByConfirmation,
           CapacityRespected, InUse, Held
  <1>4. StartedOnInputs' /\ SkipIsJustified'
    BY <1>1, EdgesMove DEF IInv
  <1>5. QED
    BY <1>1, <1>2, <1>3, <1>4 DEF IInv

LEMMA StepAddEdge ==
    ASSUME IInv, NEW p \in Procs, NEW e \in Edges, AddEdge(p, e)
    PROVE  IInv'
  <1>1. edges \cup {e} \in SUBSET Edges
    BY DEF IInv, TypeOK
  <1>2. /\ Change(p, definition, edges \cup {e}) /\ status[e.to] = "planned"
        /\ UNCHANGED <<status, attempt, lease>>
    BY DEF AddEdge
  <1>3. PICK es \in SUBSET Edges : es = edges \cup {e}
    BY <1>1
  <1>4. QED
    BY <1>2, <1>3, StepChangeEdges

LEMMA StepRemoveEdge ==
    ASSUME IInv, NEW p \in Procs, NEW e \in Edges, RemoveEdge(p, e)
    PROVE  IInv'
  <1>1. edges \ {e} \in SUBSET Edges
    BY DEF IInv, TypeOK
  <1>2. /\ Change(p, definition, edges \ {e}) /\ status[e.to] = "planned"
        /\ UNCHANGED <<status, attempt, lease>>
    BY DEF RemoveEdge
  <1>3. PICK es \in SUBSET Edges : es = edges \ {e}
    BY <1>1
  <1>4. QED
    BY <1>2, <1>3, StepChangeEdges

(* The superseded node holds nothing, so no lease is released.             *)
LEMMA StepSupersedeNode ==
    ASSUME IInv, NEW p \in Procs, NEW old \in Nodes, NEW new \in Nodes, NEW d \in Definitions[new],
           SupersedeNode(p, old, new, d)
    PROVE  IInv'
  <1> DEFINE e == [d EXCEPT !.supersedes = old]
  <1>1. /\ job' \in [Procs -> Job] /\ \A q \in Procs : JobInv(q)'
        /\ definition' = Defined(new, e) /\ edges' = edges /\ changes' \in 0..MaxChanges
        /\ UNCHANGED <<number, keys, incident>>
    BY ChangeFacts DEF SupersedeNode, Superseded
  <1>2. /\ status[old] # "absent" /\ status[new] = "absent" /\ old # new /\ ~HoldsLease(old)
        /\ status' = [status EXCEPT ![old] = "superseded", ![new] = "planned"]
        /\ UNCHANGED <<edges, number, keys, incident, lease>>
    BY <1>1 DEF SupersedeNode, Superseded, Present
  <1>3. attempt' = [attempt EXCEPT ![old] = IF number[old] = 0 THEN attempt[old] ELSE "terminal"]
    BY DEF SupersedeNode, Superseded, IInv, TypeOK
  <1>4. e \in Definition /\ e.budget = d.budget
    BY DefinitionFacts DEF Definition
  <1> HIDE DEF e
  <1>5. TypeOK' /\ GraphInv'
    <2>1. status' \in [Nodes -> Statuses]
      BY <1>2 DEF IInv, TypeOK, Statuses
    <2>2. attempt' \in [Nodes -> {"none", "running", "waiting", "submitted", "terminal"}]
      BY <1>3 DEF IInv, TypeOK
    <2>3. definition' \in [Nodes -> Definition \cup {NoDefinition}] /\ GraphInv'
      BY <1>1, <1>2, <1>4, Redefine, DefinitionFacts DEF IInv, TypeOK
    <2>4. QED
      BY <1>1, <1>2, <2>1, <2>2, <2>3 DEF IInv, TypeOK
  <1>6. /\ status'[old] = "superseded" /\ status'[new] = "planned"
        /\ \A m \in Nodes : m # old /\ m # new => status'[m] = status[m] /\ attempt'[m] = attempt[m]
    BY <1>2, <1>3 DEF IInv, TypeOK
  <1>7. BudgetInv'
    BY <1>2, <1>6 DEF IInv, BudgetInv
  <1>8. NoOrphanLease' /\ ReleasedByConfirmation' /\ CapacityRespected'
    <2>1. ASSUME NEW m \in Nodes, Holds(m)
          PROVE  status'[m] = "active" /\ attempt'[m] # "terminal"
      <3>1. status[m] = "active" /\ attempt[m] # "terminal" /\ HoldsLease(m)
        BY <2>1, HoldersRun DEF IInv
      <3>2. m # old /\ m # new
        BY <1>2, <3>1
      <3>3. QED
        BY <1>6, <3>1, <3>2
    <2>2. QED
      BY <1>2, <2>1, LeasesFrame DEF IInv
  <1>9. ASSUME NEW f \in edges
        PROVE  /\ Satisfied(f) \/ status[f.from] = "superseded" =>
                     Satisfied(f)' \/ status'[f.from] = "superseded"
               /\ Refuted(f) \/ status[f.from] = "superseded" =>
                     Refuted(f)' \/ status'[f.from] = "superseded"
    <2>1. f.from \in Nodes /\ f.when \subseteq Classes
      BY EdgeFacts DEF IInv, TypeOK
    <2>2. CASE f.from = old
      BY <1>6, <2>2
    <2>3. CASE f.from = new
      BY <1>2, <2>1, <2>3 DEF Satisfied, Refuted, Ended, Classes
    <2>4. CASE f.from # old /\ f.from # new
      BY <1>6, <2>1, <2>4 DEF Satisfied, Refuted
    <2>5. QED
      BY <2>2, <2>3, <2>4
  <1>10. "planned" \notin {"active"} \cup Classes /\ "superseded" \notin {"active"} \cup Classes
    BY DEF Classes
  <1>11. StartedOnInputs'
    <2>1. ASSUME NEW m \in Nodes, status'[m] \in {"active"} \cup Classes, NEW f \in edges, f.to = m
          PROVE  Satisfied(f)' \/ status'[f.from] = "superseded"
      <3>1. status[m] \in {"active"} \cup Classes
        BY <1>6, <1>10, <2>1
      <3>2. QED
        BY <1>9, <2>1, <3>1 DEF IInv, StartedOnInputs, Incoming
    <2>2. QED
      BY <1>2, <2>1 DEF StartedOnInputs, Incoming
  <1>12. SkipIsJustified'
    <2>1. ASSUME NEW m \in Nodes, status'[m] = "skipped"
          PROVE  \E f \in edges : f.to = m /\ (Refuted(f)' \/ status'[f.from] = "superseded")
      <3>1. status[m] = "skipped"
        BY <1>6, <2>1
      <3>2. QED
        BY <1>9, <3>1 DEF IInv, SkipIsJustified, Incoming
    <2>2. QED
      BY <1>2, <2>1 DEF SkipIsJustified, Incoming
  <1>13. QED
    BY <1>1, <1>5, <1>7, <1>8, <1>11, <1>12 DEF IInv

-----------------------------------------------------------------------------
(* The settlement loop.                                                    *)

(* An append on a fresh head settles a node the frontier still names.      *)
LEMMA SettledIsPlanned ==
    ASSUME IInv, NEW p \in Procs
    PROVE  /\ SkipNode(p) => job[p].skip \in Nodes /\ job[p].skip \in Unreachable
           /\ CompleteNode(p) => job[p].auto \in Nodes /\ job[p].auto \in Ready
           /\ \A n \in Unreachable \cup Ready : status[n] = "planned"
  <1>1. job[p] \in Job /\ JobInv(p)
    BY DEF IInv, TypeOK
  <1>2. job[p].skip \in Nodes \cup {NoNode} /\ job[p].auto \in Nodes \cup {NoNode}
    BY <1>1 DEF Job
  <1>3. ASSUME SkipNode(p) PROVE job[p].skip \in Nodes /\ job[p].skip \in Unreachable
    BY <1>1, <1>2, <1>3 DEF SkipNode, Settle, HeadIs, JobInv
  <1>4. ASSUME CompleteNode(p) PROVE job[p].auto \in Nodes /\ job[p].auto \in Ready
    BY <1>1, <1>2, <1>4 DEF CompleteNode, Settle, HeadIs, JobInv
  <1>5. \A n \in Unreachable \cup Ready : status[n] = "planned"
    BY DEF Unreachable, Ready
  <1>6. QED
    BY <1>3, <1>4, <1>5

LEMMA StepSettle ==
    ASSUME IInv, NEW p \in Procs, NEW kind \in {"skip", "auto"}, NEW n \in Nodes,
           NEW s \in {"skipped", "success"}, Settle(p, kind, n, s),
           s = "skipped" => n \in Unreachable, s = "success" => n \in Ready
    PROVE  IInv'
  <1>1. job' \in [Procs -> Job] /\ \A q \in Procs : JobInv(q)'
    BY CommitJobs DEF Settle, IInv, TypeOK
  <1>2. /\ keys' = keys \cup {Key(kind, job[p].rev, n)}
        /\ status' = [status EXCEPT ![n] = s]
        /\ UNCHANGED <<definition, edges, changes, attempt, number, lease, incident>>
    BY DEF Settle, graph
  <1>3. status[n] = "planned"
    BY DEF Unreachable, Ready
  <1>4. TypeOK'
    <2>1. status' \in [Nodes -> Statuses]
      BY <1>2 DEF IInv, TypeOK, Statuses, Ended, Classes
    <2>2. Key(kind, job[p].rev, n) \in [kind: {"skip", "auto"}, rev: Revisions, node: Nodes]
      BY DEF Key, IInv, TypeOK, Job
    <2>3. QED
      BY <1>1, <1>2, <2>1, <2>2 DEF IInv, TypeOK
  <1>5. BudgetInv' /\ GraphInv'
    <2>1. \A m \in Nodes : status'[m] = "absent" <=> status[m] = "absent"
      BY <1>2, <1>3 DEF IInv, TypeOK
    <2>2. GraphInv'
      BY <1>2, <2>1, GraphFrame DEF IInv
    <2>3. QED
      BY <1>2, <2>2 DEF IInv, TypeOK, BudgetInv
  <1>6. NoOrphanLease' /\ ReleasedByConfirmation' /\ CapacityRespected'
    <2>1. ASSUME NEW m \in Nodes, Holds(m)
          PROVE  status'[m] = "active" /\ attempt'[m] # "terminal"
      <3>1. status[m] = "active" /\ attempt[m] # "terminal"
        BY <2>1, HoldersRun DEF IInv
      <3>2. QED
        BY <1>2, <1>3, <3>1 DEF IInv, TypeOK
    <2>2. QED
      BY <1>2, <1>4, <2>1, LeasesFrame DEF IInv
  <1>7. StartedOnInputs' /\ SkipIsJustified'
    <2>1. s \in Statuses /\ "skipped" \notin {"active"} \cup Classes
      BY DEF Statuses, Ended, Classes
    <2>2. s = "success" => \A e \in Incoming(n) : Satisfied(e)
      BY DEF Ready
    <2>3. QED
      BY <1>2, <1>3, <2>1, <2>2, OneNodeMoves DEF IInv
  <1>8. QED
    BY <1>1, <1>4, <1>5, <1>6, <1>7 DEF IInv

LEMMA StepGoIdle ==
    ASSUME IInv, NEW p \in Procs, NEW j \in {Idle, Loading}, Become(p, j),
           UNCHANGED <<status, graph, attempt, number, lease, incident, keys>>
    PROVE  IInv'
  <1>1. j \in Job /\ ~j.fresh /\ j.step # "appending"
    BY IdleFacts
  <1>2. QED
    BY <1>1, LocalStep

LEMMA StepLoadFrontier ==
    ASSUME IInv, NEW p \in Procs, LoadFrontier(p)
    PROVE  IInv'
  <1>1. PICK s \in PickFrom(Unreachable), a \in PickFrom(Ready \cap Automatic) :
           Become(p, IF s = NoNode /\ a = NoNode THEN Idle
                     ELSE [step |-> "appending", fresh |-> TRUE, skip |-> s, auto |-> a,
                           rev |-> Revision])
    BY DEF LoadFrontier
  <1>2. UNCHANGED <<status, graph, attempt, number, lease, incident, keys>>
    BY DEF LoadFrontier
  <1>3. CASE s = NoNode /\ a = NoNode
    BY <1>1, <1>2, <1>3, StepGoIdle
  <1>4. CASE ~(s = NoNode /\ a = NoNode)
    <2>1. /\ s \in Nodes \cup {NoNode} /\ a \in Nodes \cup {NoNode}
          /\ s # NoNode => s \in Unreachable
          /\ a # NoNode => a \in Ready /\ a \in Automatic
      <3>1. Unreachable \subseteq Nodes /\ Ready \subseteq Nodes
        BY DEF Unreachable, Ready
      <3>2. QED
        BY <3>1 DEF PickFrom
    <2>2. PICK j : j = [step |-> "appending", fresh |-> TRUE, skip |-> s, auto |-> a, rev |-> Revision]
      OBVIOUS
    <2>3. j \in Job
      BY <2>1, <2>2, RevisionType DEF Job, IInv
    <2>4. /\ j.rev = Revision /\ j.skip = s /\ j.auto = a
      BY <2>2
    <2>5. Become(p, j)
      BY <1>1, <1>4, <2>2
    <2>6. QED
      BY <1>2, <1>4, <2>1, <2>3, <2>4, <2>5, LocalStep
  <1>5. QED
    BY <1>3, <1>4

LEMMA StepReplaySettlement ==
    ASSUME IInv, NEW p \in Procs, ReplaySettlement(p)
    PROVE  IInv'
  <1>1. PICK k \in Job : k = job[p] /\ JobInv(p)
    BY DEF IInv, TypeOK
  <1>2. /\ Become(p, IF k.skip = NoNode \/ k.auto = NoNode THEN Idle ELSE [k EXCEPT !.skip = NoNode])
        /\ UNCHANGED <<status, graph, attempt, number, lease, incident, keys>>
    BY <1>1 DEF ReplaySettlement
  <1>3. CASE k.skip = NoNode \/ k.auto = NoNode
    BY <1>2, <1>3, StepGoIdle
  <1>4. CASE ~(k.skip = NoNode \/ k.auto = NoNode)
    <2>1. PICK j : j = [k EXCEPT !.skip = NoNode]
      OBVIOUS
    <2>2. /\ j \in Job /\ j.skip = NoNode /\ j.auto = k.auto
          /\ j.rev = k.rev /\ j.fresh = k.fresh
      BY <2>1 DEF Job
    <2>3. Become(p, j)
      BY <1>2, <1>4, <2>1
    <2>4. j.fresh => j.rev = Revision /\ (j.auto # NoNode => j.auto \in Ready /\ j.auto \in Automatic)
      BY <1>1, <2>2 DEF JobInv
    <2>5. QED
      BY <1>2, <1>4, <2>2, <2>3, <2>4, LocalStep
  <1>5. QED
    BY <1>3, <1>4

-----------------------------------------------------------------------------
(* The invariant.                                                          *)

LEMMA InitInv == Init => IInv
  <1> SUFFICES ASSUME Init PROVE IInv
    OBVIOUS
  <1>1. NoLease \in Lease /\ ~NoLease.active /\ NoLease.closure = "none" /\ NoLease.incident = "none"
    <2>1. 0 \in 0..AttemptBudget /\ 0 \in 0..Capacity
      BY LifecycleConstants
    <2>2. QED
      BY <2>1 DEF NoLease, Lease
  <1>2. 0 \in 0..MaxAttempts /\ 0 \in 0..MaxChanges /\ "absent" \in Statuses
    BY LifecycleConstants DEF Statuses
  <1>3. TypeOK
    BY <1>1, <1>2, IdleFacts DEF Init, TypeOK
  <1>4. /\ \A n \in Nodes : status[n] = "absent" /\ number[n] = 0 /\ definition[n] = NoDefinition
        /\ \A n \in Nodes, a \in Attempts : lease[n][a] = NoLease
    BY DEF Init
  <1>5. BudgetInv /\ GraphInv
    BY <1>1, <1>4 DEF BudgetInv, GraphInv
  <1>6. StartedOnInputs /\ SkipIsJustified
    BY <1>4 DEF StartedOnInputs, SkipIsJustified, Classes
  <1>7. NoOrphanLease /\ ReleasedByConfirmation
    BY <1>1, <1>4 DEF NoOrphanLease, ReleasedByConfirmation
  <1>8. CapacityRespected
    <2>1. Units = {}
      BY <1>1, <1>4 DEF Units, Held
    <2>2. InUse = 0
      BY <2>1, UnitsInUse, FS_EmptySet
    <2>3. QED
      BY <2>2, LifecycleConstants DEF CapacityRespected
  <1>9. ASSUME NEW p \in Procs PROVE JobInv(p)
    <2>1. job[p] = Idle
      BY DEF Init
    <2>2. QED
      BY <2>1, IdleFacts DEF JobInv
  <1>10. QED
    BY <1>3, <1>5, <1>6, <1>7, <1>8, <1>9 DEF IInv

LEMMA StepNode ==
    ASSUME IInv, NEW p \in Procs, NEW n \in Nodes, NodeStep(p, n)
    PROVE  IInv'
  <1>1. CASE StartNode(p, n)
    BY <1>1, StepStartNode
  <1>2. CASE WaitAttempt(p, n)
    BY <1>2, StepChangeAttempt DEF WaitAttempt
  <1>3. CASE ResumeAttempt(p, n)
    BY <1>3, StepChangeAttempt DEF ResumeAttempt
  <1>4. CASE SubmitAttempt(p, n)
    BY <1>4, StepChangeAttempt DEF SubmitAttempt
  <1>5. CASE \E class \in Classes \cup {"retryable"} : FinishAttempt(p, n, class)
    BY <1>5, StepFinishAttempt
  <1>6. CASE ResolveIncident(p, n)
    BY <1>6, StepResolveIncident
  <1>7. CASE ControlResolveIncident(p, n)
    BY <1>7, StepResolveIncident DEF ControlResolveIncident
  <1>8. CASE \E m \in Nodes : SupersedeIncident(p, n, m)
    BY <1>8, StepResolveIncident DEF SupersedeIncident
  <1>9. CASE CloseResource(p, n)
    BY <1>9, StepCloseResource
  <1>10. CASE ProgressIncident(p, n)
    BY <1>10, StepProgressIncident
  <1>11. CASE TripIncident(p, n)
    BY <1>11, StepTripIncident
  <1>12. CASE RetryIncident(p, n)
    BY <1>12, StepRetryIncident
  <1>13. QED
    BY <1>1, <1>2, <1>3, <1>4, <1>5, <1>6, <1>7, <1>8, <1>9, <1>10, <1>11, <1>12 DEF NodeStep

LEMMA StepGraph ==
    ASSUME IInv, NEW p \in Procs, GraphStep(p)
    PROVE  IInv'
  <1>1. CASE \E n \in Nodes : \/ \E d \in Definitions[n] : AddNode(p, n, d) \/ UpdateNode(p, n, d)
                             \/ RemoveNode(p, n)
    BY <1>1, StepAddNode, StepUpdateNode, StepRemoveNode
  <1>2. CASE \E e \in Edges : AddEdge(p, e) \/ RemoveEdge(p, e)
    BY <1>2, StepAddEdge, StepRemoveEdge
  <1>3. CASE \E old, new \in Nodes : \E d \in Definitions[new] : SupersedeNode(p, old, new, d)
    BY <1>3, StepSupersedeNode
  <1>4. QED
    BY <1>1, <1>2, <1>3 DEF GraphStep

LEMMA StepSettlement ==
    ASSUME IInv, NEW p \in Procs, SettleStep(p)
    PROVE  IInv'
  <1>1. CASE LoadFrontier(p)
    BY <1>1, StepLoadFrontier
  <1>2. CASE SkipNode(p)
    <2>1. job[p].skip \in Nodes /\ job[p].skip \in Unreachable
      BY <1>2, SettledIsPlanned
    <2>2. PICK n \in Nodes : n = job[p].skip
      BY <2>1
    <2>3. Settle(p, "skip", n, "skipped")
      BY <1>2, <2>2 DEF SkipNode
    <2>4. QED
      BY <2>1, <2>2, <2>3, StepSettle
  <1>3. CASE CompleteNode(p)
    <2>1. job[p].auto \in Nodes /\ job[p].auto \in Ready
      BY <1>3, SettledIsPlanned
    <2>2. PICK n \in Nodes : n = job[p].auto
      BY <2>1
    <2>3. Settle(p, "auto", n, "success")
      BY <1>3, <2>2 DEF CompleteNode
    <2>4. QED
      BY <2>1, <2>2, <2>3, StepSettle
  <1>4. CASE ReplaySettlement(p)
    BY <1>4, StepReplaySettlement
  <1>5. CASE LoseRace(p)
    BY <1>5, StepGoIdle DEF LoseRace
  <1>6. QED
    BY <1>1, <1>2, <1>3, <1>4, <1>5 DEF SettleStep

LEMMA NextInv ==
    ASSUME IInv, [Next]_vars
    PROVE  IInv'
  <1>1. CASE UNCHANGED vars
    <2>1. UNCHANGED <<status, definition, edges, attempt, number, lease, incident, keys, job, changes>>
      BY <1>1 DEF vars
    <2>2. TypeOK'
      BY <2>1 DEF IInv, TypeOK
    <2>3. BudgetInv' /\ GraphInv' /\ NoOrphanLease' /\ ReleasedByConfirmation' /\ CapacityRespected'
      BY <2>1 DEF IInv, BudgetInv, GraphInv, NoOrphanLease, ReleasedByConfirmation,
             CapacityRespected, InUse, Held
    <2>4. StartedOnInputs' /\ SkipIsJustified'
      BY <2>1 DEF IInv, StartedOnInputs, SkipIsJustified, Incoming, Satisfied, Refuted
    <2>5. \A p \in Procs : JobInv(p)'
      BY <2>1, FrontierFrame DEF IInv, JobInv
    <2>6. QED
      BY <2>2, <2>3, <2>4, <2>5 DEF IInv
  <1>2. ASSUME NEW p \in Procs, ImportGraph(p) PROVE IInv'
    BY <1>2, StepImportGraph
  <1>3. ASSUME NEW p \in Procs, OtherCommand(p) PROVE IInv'
    BY <1>3, StepOtherCommand
  <1>4. ASSUME NEW p \in Procs, OpenService(p) PROVE IInv'
    BY <1>4, StepGoIdle DEF OpenService
  <1>5. ASSUME NEW p \in Procs, NEW n \in Nodes, NodeStep(p, n) PROVE IInv'
    BY <1>5, StepNode
  <1>6. ASSUME NEW p \in Procs, GraphStep(p) PROVE IInv'
    BY <1>6, StepGraph
  <1>7. ASSUME NEW p \in Procs, SettleStep(p) PROVE IInv'
    BY <1>7, StepSettlement
  <1>8. ASSUME NEW p \in Procs, AbandonSettlement(p) PROVE IInv'
    BY <1>8, StepGoIdle DEF AbandonSettlement
  <1>9. QED
    BY <1>1, <1>2, <1>3, <1>4, <1>5, <1>6, <1>7, <1>8 DEF Next

(* Only a settlement records a key, for a node that is still planned.      *)
LEMMA OnlySettlingAddsKeys ==
    ASSUME [Next]_vars
    PROVE  keys' = keys \/ \E p \in Procs : SkipNode(p) \/ CompleteNode(p)
  <1>1. CASE UNCHANGED vars
    BY <1>1 DEF vars
  <1>2. ASSUME NEW p \in Procs, ImportGraph(p) \/ OtherCommand(p) \/ OpenService(p)
        PROVE  keys' = keys
    BY <1>2 DEF ImportGraph, OtherCommand, OpenService
  <1>3. ASSUME NEW p \in Procs, NEW n \in Nodes, NodeStep(p, n)
        PROVE  keys' = keys
    <2>1. CASE \/ StartNode(p, n) \/ WaitAttempt(p, n) \/ ResumeAttempt(p, n) \/ SubmitAttempt(p, n)
               \/ \E class \in Classes \cup {"retryable"} : FinishAttempt(p, n, class)
      BY <2>1 DEF StartNode, WaitAttempt, ResumeAttempt, SubmitAttempt, ChangeAttempt, FinishAttempt
    <2>2. CASE \/ ResolveIncident(p, n) \/ ControlResolveIncident(p, n)
               \/ \E m \in Nodes : SupersedeIncident(p, n, m)
      BY <2>2 DEF ResolveIncident, ControlResolveIncident, SupersedeIncident
    <2>3. CASE CloseResource(p, n) \/ ProgressIncident(p, n) \/ TripIncident(p, n) \/ RetryIncident(p, n)
      BY <2>3 DEF CloseResource, ProgressIncident, TripIncident, RetryIncident, UpdateLease
    <2>4. QED
      BY <1>3, <2>1, <2>2, <2>3 DEF NodeStep
  <1>4. ASSUME NEW p \in Procs, GraphStep(p) PROVE keys' = keys
    BY <1>4 DEF GraphStep, AddNode, UpdateNode, RemoveNode, AddEdge, RemoveEdge, Change,
                SupersedeNode, Superseded
  <1>5. ASSUME NEW p \in Procs, SettleStep(p), ~SkipNode(p), ~CompleteNode(p)
        PROVE  keys' = keys
    BY <1>5 DEF SettleStep, LoadFrontier, ReplaySettlement, LoseRace
  <1>6. ASSUME NEW p \in Procs, AbandonSettlement(p) PROVE keys' = keys
    BY <1>6 DEF AbandonSettlement
  <1>7. QED
    BY <1>1, <1>2, <1>3, <1>4, <1>5, <1>6 DEF Next

(* A new key is that of a node that was still planned.                     *)
LEMMA KeysOfPlanned ==
    ASSUME IInv, [Next]_vars
    PROVE  \A k \in keys' \ keys : status[k.node] = "planned"
  <1>1. ASSUME NEW p \in Procs, SkipNode(p)
        PROVE  \A k \in keys' \ keys : status[k.node] = "planned"
    <2>1. keys' = keys \cup {Key("skip", job[p].rev, job[p].skip)}
      BY <1>1 DEF SkipNode, Settle
    <2>2. Key("skip", job[p].rev, job[p].skip).node = job[p].skip
      BY DEF Key
    <2>3. QED
      BY <1>1, <2>1, <2>2, SettledIsPlanned
  <1>2. ASSUME NEW p \in Procs, CompleteNode(p)
        PROVE  \A k \in keys' \ keys : status[k.node] = "planned"
    <2>1. keys' = keys \cup {Key("auto", job[p].rev, job[p].auto)}
      BY <1>2 DEF CompleteNode, Settle
    <2>2. Key("auto", job[p].rev, job[p].auto).node = job[p].auto
      BY DEF Key
    <2>3. QED
      BY <1>2, <2>1, <2>2, SettledIsPlanned
  <1>3. QED
    BY <1>1, <1>2, OnlySettlingAddsKeys

-----------------------------------------------------------------------------
(* The refinement of NodePromise. The promise sees the statuses, the       *)
(* graph, the number of attempts and who holds capacity; its actions are   *)
(* the commits of the concurrent processes, each at the moment it commits. *)

PromiseStep == [Promise!Next]_(Promise!vars)

(* The frontier of the promise is the frontier of the code.                *)
LEMMA SameFrontier ==
    ASSUME IInv
    PROVE  /\ \A n \in Nodes : n \in Holding <=> Holds(n)
           /\ \A n \in Nodes : n \in Ready <=> Promise!MayRun(n)
           /\ \A n \in Nodes : n \in Unreachable <=> Promise!Hopeless(n)
           /\ Promise!Outcomes = Classes
  <1>1. \A n \in Nodes : n \in Holding <=> Holds(n)
    BY DEF Holding, Holds
  <1>2. Promise!Outcomes = Classes /\ Promise!Finished = Ended
    BY DEF Promise!Outcomes, Promise!Finished, Classes, Ended
  <1>3. /\ \A n : Promise!Inputs(n) = Incoming(n)
        /\ \A e : Promise!Satisfied(e) <=> Satisfied(e)
        /\ \A e : Promise!Refuted(e) <=> Refuted(e)
    BY <1>2 DEF Promise!Inputs, Incoming, Promise!Satisfied, Satisfied, Promise!Refuted, Refuted
  <1>4. Promise!Held = InUse
    <2>1. ASSUME NEW n \in Nodes, NEW k \in 1..Capacity
          PROVE  (n \in Holding /\ k <= definition[n].need) <=> k \in Held(n)
      BY DEF IInv, GraphInv, Holding, Held
    <2>2. {u \in Nodes \X (1..Capacity) : u[1] \in Holding /\ u[2] <= definition[u[1]].need} = Units
      BY <2>1 DEF Units
    <2>3. Promise!Held = Cardinality(Units)
      BY <2>2 DEF Promise!Held, Promise!Cardinality, Cardinality, Promise!IsFiniteSet, IsFiniteSet
    <2>4. QED
      BY <2>3, UnitsInUse
  <1>5. ASSUME NEW n \in Nodes PROVE n \in Ready <=> Promise!MayRun(n)
    <2>1. InUse \in Nat /\ Capacity \in Nat /\ definition[n].need \in Nat
      BY UnitsInUse, LifecycleConstants, DefinitionFacts DEF IInv, TypeOK
    <2>2. definition[n].need <= Available <=> Promise!Held + definition[n].need <= Capacity
      BY <1>4, <2>1 DEF Available
    <2>3. QED
      BY <1>3, <2>2 DEF Ready, Promise!MayRun
  <1>6. \A n \in Nodes : n \in Unreachable <=> Promise!Hopeless(n)
    BY <1>3 DEF Unreachable, Promise!Hopeless
  <1>7. QED
    BY <1>1, <1>2, <1>5, <1>6

(* A step that the promise does not see.                                   *)
LEMMA UnseenStep ==
    ASSUME UNCHANGED <<status, definition, edges, number>>, Holding' = Holding
    PROVE  PromiseStep
  BY DEF PromiseStep, Promise!vars

LEMMA HoldingKept ==
    ASSUME UNCHANGED lease
    PROVE  Holding' = Holding
  BY DEF Holding

LEMMA LatestHolds ==
    ASSUME IInv, NEW n \in Nodes
    PROVE  HoldsLease(n) <=> n \in Holding
  <1>1. ASSUME HoldsLease(n) PROVE n \in Holding
    <2>1. number[n] > 0 /\ lease[n][number[n]].active
      BY <1>1 DEF HoldsLease
    <2>2. number[n] \in Attempts
      BY <2>1, LatestLease
    <2>3. QED
      BY <2>1, <2>2 DEF Holding
  <1>2. ASSUME n \in Holding PROVE HoldsLease(n)
    BY <1>2, HoldersRun DEF IInv, Holding, Holds
  <1>3. QED
    BY <1>1, <1>2

LEMMA StartRefines ==
    ASSUME IInv, NEW p \in Procs, NEW n \in Nodes, StartNode(p, n)
    PROVE  PromiseStep
  <1> DEFINE q == definition[n].need
  <1> DEFINE new == [NoLease EXCEPT !.closure = "pending", !.active = TRUE, !.quantity = q]
  <1>1. /\ definition[n].kind # "join" /\ n \in Ready /\ number[n] < MaxAttempts
        /\ status'  = [status EXCEPT ![n] = "active"]
        /\ number'  = [number EXCEPT ![n] = @ + 1]
        /\ lease'   = IF q = 0 THEN lease ELSE [lease EXCEPT ![n][number[n] + 1] = new]
        /\ UNCHANGED <<definition, edges>>
    BY DEF StartNode, Automatic, graph
  <1>2. new.active
    BY DEF NoLease
  <1>3. q \in Nat /\ number[n] + 1 \in Attempts /\ lease \in [Nodes -> [Attempts -> Lease]]
    <2>1. number[n] \in 0..MaxAttempts /\ MaxAttempts \in Nat /\ q \in Nat
      BY LifecycleConstants, DefinitionFacts DEF IInv, TypeOK
    <2>2. QED
      BY <1>1, <2>1 DEF Attempts, IInv, TypeOK
  <1> HIDE DEF new
  <1>4. Holding' = IF q > 0 THEN Holding \cup {n} ELSE Holding
    <2>1. CASE q = 0
      BY <1>1, <2>1, HoldingKept
    <2>2. CASE q # 0
      <3>1. ASSUME NEW m \in Nodes, NEW a \in Attempts
            PROVE  lease'[m][a] = IF m = n /\ a = number[n] + 1 THEN new ELSE lease[m][a]
        BY <1>1, <1>3, <2>2
      <3>2. n \in Holding'
        BY <1>2, <1>3, <3>1 DEF Holding
      <3>3. \A m \in Nodes : m # n => (m \in Holding' <=> m \in Holding)
        BY <3>1 DEF Holding
      <3>4. Holding \subseteq Nodes /\ Holding' \subseteq Nodes
        BY DEF Holding
      <3>5. QED
        BY <1>3, <2>2, <3>2, <3>3, <3>4
    <2>3. QED
      BY <2>1, <2>2
  <1>5. Promise!MayRun(n)
    BY <1>1, SameFrontier
  <1>6. Promise!Start(n)
    BY <1>1, <1>4, <1>5 DEF Promise!Start, Promise!Turn
  <1>7. QED
    BY <1>6 DEF PromiseStep, Promise!Next

LEMMA FinishRefines ==
    ASSUME IInv, NEW p \in Procs, NEW n \in Nodes, NEW class \in Classes \cup {"retryable"},
           FinishAttempt(p, n, class)
    PROVE  PromiseStep
  <1>1. /\ status[n] = "active" /\ ~HoldsLease(n)
        /\ class = "retryable" => number[n] <= definition[n].budget
        /\ status' = [status EXCEPT ![n] = IF class = "retryable" THEN "planned" ELSE class]
        /\ UNCHANGED <<definition, edges, number, lease>>
    BY DEF FinishAttempt, MayRetry, graph
  <1>2. n \notin Holding /\ Holding' = Holding
    BY <1>1, LatestHolds, HoldingKept
  <1>3. \/ \E s \in Promise!Outcomes : Promise!Turn(n, s)
        \/ number[n] <= definition[n].budget /\ Promise!Turn(n, "planned")
    <2>1. CASE class = "retryable"
      BY <1>1, <2>1 DEF Promise!Turn
    <2>2. CASE class # "retryable"
      BY <1>1, <2>2, SameFrontier DEF Promise!Turn
    <2>3. QED
      BY <2>1, <2>2
  <1>4. Promise!Finish(n)
    BY <1>1, <1>2, <1>3 DEF Promise!Finish
  <1>5. QED
    BY <1>4 DEF PromiseStep, Promise!Next

(* A lease that is updated stays active, or is released.                   *)
LEMMA LeaseRefines ==
    ASSUME IInv, NEW p \in Procs, NEW n \in Nodes, NEW l \in Lease, number[n] > 0,
           UpdateLease(p, n, l), l.active => lease[n][number[n]].active
    PROVE  PromiseStep
  <1>1. /\ lease' = [lease EXCEPT ![n][number[n]] = l]
        /\ UNCHANGED <<status, definition, edges, number>>
    BY DEF UpdateLease, graph
  <1>2. number[n] \in Attempts /\ lease \in [Nodes -> [Attempts -> Lease]]
    BY LatestLease DEF IInv, TypeOK
  <1>3. ASSUME NEW m \in Nodes, NEW a \in Attempts
        PROVE  lease'[m][a] = IF m = n /\ a = number[n] THEN l ELSE lease[m][a]
    BY <1>1, <1>2
  <1>4. \A m \in Nodes : m # n => (m \in Holding' <=> m \in Holding)
    BY <1>3 DEF Holding
  <1>5. Holding \subseteq Nodes /\ Holding' \subseteq Nodes
    BY DEF Holding
  <1>6. CASE l.active <=> lease[n][number[n]].active
    <2>1. n \in Holding' <=> n \in Holding
      BY <1>2, <1>3, <1>6 DEF Holding
    <2>2. QED
      BY <1>1, <1>4, <1>5, <2>1, UnseenStep
  <1>7. CASE ~l.active /\ lease[n][number[n]].active
    <2>1. n \in Holding /\ status[n] = "active"
      BY <1>2, <1>7 DEF Holding, IInv, NoOrphanLease
    <2>2. n \notin Holding'
      <3>1. ASSUME NEW a \in Attempts, lease'[n][a].active PROVE FALSE
        <4>1. a # number[n] /\ lease[n][a].active
          BY <1>3, <1>7, <3>1
        <4>2. QED
          BY <4>1 DEF IInv, NoOrphanLease
      <3>2. QED
        BY <3>1 DEF Holding
    <2>3. Holding' = Holding \ {n}
      BY <1>4, <1>5, <2>2
    <2>4. Promise!Release(n)
      BY <1>1, <2>1, <2>3 DEF Promise!Release
    <2>5. QED
      BY <2>4 DEF PromiseStep, Promise!Next
  <1>8. lease[n][number[n]] \in Lease /\ l.active \in BOOLEAN /\ lease[n][number[n]].active \in BOOLEAN
    BY <1>2 DEF Lease
  <1>9. QED
    BY <1>6, <1>7, <1>8

LEMMA ResourceRefines ==
    ASSUME IInv, NEW p \in Procs, NEW n \in Nodes,
           \/ CloseResource(p, n) \/ ProgressIncident(p, n)
           \/ TripIncident(p, n) \/ RetryIncident(p, n)
    PROVE  PromiseStep
  <1> DEFINE l == lease[n][number[n]]
  <1>1. CASE CloseResource(p, n)
    <2>1. PICK r \in {"confirmed", "unconfirmed"} :
             HoldsLease(n) /\ l.incident \in {"none", "open"} /\ UpdateLease(p, n, Observed(l, r))
      BY <1>1 DEF CloseResource
    <2>2. number[n] > 0 /\ l.active
      BY <2>1 DEF HoldsLease
    <2>3. l \in Lease
      BY <2>2, LatestLease
    <2> HIDE DEF l
    <2>4. Observed(l, r) \in Lease
      BY <2>1, <2>2, <2>3, ObservedLease
    <2>5. QED
      BY <2>1, <2>2, <2>4, LeaseRefines DEF l
  <1>2. CASE ProgressIncident(p, n) \/ TripIncident(p, n) \/ RetryIncident(p, n)
    <2>1. number[n] > 0
      BY <1>2 DEF ProgressIncident, TripIncident, RetryIncident
    <2>2. l \in Lease /\ l.noProgress \in 0..AttemptBudget
      BY <2>1, LatestLease DEF Lease
    <2> HIDE DEF l
    <2>3. PICK np \in 0..AttemptBudget, i \in {"open", "circuit-open"} :
             UpdateLease(p, n, [l EXCEPT !.noProgress = np, !.incident = i])
      <3>1. CASE ProgressIncident(p, n)
        <4>1. PICK made \in BOOLEAN, late \in BOOLEAN :
                 LET np == IF made THEN 0 ELSE Bump(l.noProgress) IN
                 UpdateLease(p, n, [l EXCEPT !.noProgress = np,
                    !.incident = IF np >= AttemptBudget \/ late THEN "circuit-open" ELSE "open"])
          BY <3>1 DEF ProgressIncident, l
        <4>2. PICK np : np = IF made THEN 0 ELSE Bump(l.noProgress)
          OBVIOUS
        <4>3. np \in 0..AttemptBudget
          BY <2>2, <4>2, BumpType
        <4>4. PICK i : i = IF np >= AttemptBudget \/ late THEN "circuit-open" ELSE "open"
          OBVIOUS
        <4>5. UpdateLease(p, n, [l EXCEPT !.noProgress = np, !.incident = i])
          BY <4>1, <4>2, <4>4
        <4>6. QED
          BY <4>3, <4>4, <4>5
      <3>2. CASE TripIncident(p, n)
        <4>1. UpdateLease(p, n, [l EXCEPT !.incident = "circuit-open"])
          BY <3>2 DEF TripIncident, l
        <4>2. [l EXCEPT !.incident = "circuit-open"] =
                 [l EXCEPT !.noProgress = l.noProgress, !.incident = "circuit-open"]
          BY <2>2 DEF Lease
        <4>3. QED
          BY <2>2, <4>1, <4>2
      <3>3. CASE RetryIncident(p, n)
        <4>1. UpdateLease(p, n, [l EXCEPT !.incident = "open", !.noProgress = 0])
          BY <3>3 DEF RetryIncident, l
        <4>2. [l EXCEPT !.incident = "open", !.noProgress = 0] =
                 [l EXCEPT !.noProgress = 0, !.incident = "open"]
          BY <2>2 DEF Lease
        <4>3. 0 \in 0..AttemptBudget
          BY LifecycleConstants
        <4>4. QED
          BY <4>1, <4>2, <4>3
      <3>4. QED
        BY <1>2, <3>1, <3>2, <3>3
    <2>4. PICK k : k = [l EXCEPT !.noProgress = np, !.incident = i]
      OBVIOUS
    <2>5. k \in Lease /\ k.active = l.active
      BY <2>2, <2>4 DEF Lease
    <2>6. UpdateLease(p, n, k)
      BY <2>3, <2>4
    <2>7. QED
      BY <2>1, <2>5, <2>6, LeaseRefines DEF l
  <1>3. QED
    BY <1>1, <1>2

(* A graph change is decided on the graph as it is.                        *)
LEMMA GraphRefines ==
    ASSUME IInv, NEW p \in Procs, GraphStep(p)
    PROVE  PromiseStep
  <1>1. ASSUME NEW n \in Nodes, NEW d \in Definitions[n], AddNode(p, n, d) PROVE PromiseStep
    <2>1. /\ status[n] = "absent" /\ status' = [status EXCEPT ![n] = "planned"]
          /\ definition' = [definition EXCEPT ![n] = d]
          /\ UNCHANGED <<edges, number, lease>>
      BY <1>1 DEF AddNode, Change, Present, Defined
    <2>2. Promise!Redefined(n)
      BY <2>1 DEF IInv, TypeOK, Promise!Redefined
    <2>3. Promise!Add(n)
      BY <2>1, <2>2, HoldingKept DEF Promise!Add, Promise!Turn
    <2>4. QED
      BY <2>3 DEF PromiseStep, Promise!Next
  <1>2. ASSUME NEW n \in Nodes, NEW d \in Definitions[n], UpdateNode(p, n, d) PROVE PromiseStep
    <2>1. /\ status[n] = "planned" /\ definition' = [definition EXCEPT ![n] = d]
          /\ UNCHANGED <<status, edges, number, lease>>
      BY <1>2 DEF UpdateNode, Change, Defined
    <2>2. Promise!Redefined(n)
      BY <2>1 DEF IInv, TypeOK, Promise!Redefined
    <2>3. Promise!Update(n)
      BY <2>1, <2>2, HoldingKept DEF Promise!Update
    <2>4. QED
      BY <2>3 DEF PromiseStep, Promise!Next
  <1>3. ASSUME NEW n \in Nodes, RemoveNode(p, n) PROVE PromiseStep
    <2>1. /\ status[n] = "planned" /\ status' = [status EXCEPT ![n] = "absent"]
          /\ definition' = [definition EXCEPT ![n] = NoDefinition]
          /\ edges' = {e \in edges : e.from # n /\ e.to # n}
          /\ UNCHANGED <<number, lease>>
      BY <1>3 DEF RemoveNode, Change, Defined
    <2>2. ASSUME NEW m \in Nodes \ {n} PROVE definition[m].supersedes # n
      <3>1. definition'[m] = definition[m] /\ definition'[n] = NoDefinition /\ n # NoNode
        BY <2>1, LifecycleConstants DEF IInv, TypeOK
      <3>2. ValidGraph(definition', edges')
        BY <1>3 DEF RemoveNode, Change
      <3>3. CASE definition[m] = NoDefinition
        BY <3>1, <3>3, DefinitionFacts
      <3>4. CASE definition[m] # NoDefinition
        BY <3>1, <3>2, <3>4 DEF ValidGraph
      <3>5. QED
        BY <3>3, <3>4
    <2>3. Promise!Remove(n)
      BY <2>1, <2>2, HoldingKept DEF Promise!Remove, Promise!Turn
    <2>4. QED
      BY <2>3 DEF PromiseStep, Promise!Next
  <1>4. ASSUME NEW e \in Edges, AddEdge(p, e) \/ RemoveEdge(p, e) PROVE PromiseStep
    <2>1. /\ status[e.to] = "planned"
          /\ edges' = edges \cup {e} \/ edges' = edges \ {e}
          /\ UNCHANGED <<status, definition, number, lease>>
          /\ ValidGraph(definition, edges')
      BY <1>4 DEF AddEdge, RemoveEdge, Change
    <2>2. e \in edges' => status[e.from] # "absent"
      <3>1. e.from \in Nodes
        BY EdgeFacts
      <3>2. e \in edges' => definition[e.from] # NoDefinition
        BY <2>1 DEF ValidGraph
      <3>3. QED
        BY <3>1, <3>2 DEF IInv, GraphInv
    <2>3. Promise!Rewire(e)
      BY <2>1, <2>2, HoldingKept DEF Promise!Rewire
    <2>4. QED
      BY <2>3 DEF PromiseStep, Promise!Next
  <1>5. ASSUME NEW old \in Nodes, NEW new \in Nodes, NEW d \in Definitions[new],
               SupersedeNode(p, old, new, d)
        PROVE  PromiseStep
    <2> DEFINE e == [d EXCEPT !.supersedes = old]
    <2>1. /\ status[old] # "absent" /\ status[new] = "absent" /\ ~HoldsLease(old)
          /\ status' = [status EXCEPT ![old] = "superseded", ![new] = "planned"]
          /\ definition' = [definition EXCEPT ![new] = e]
          /\ UNCHANGED <<edges, number, lease>>
      BY <1>5 DEF SupersedeNode, Superseded, Change, Present, Defined
    <2>2. e \in Definition /\ e.supersedes = old
      BY DefinitionFacts DEF Definition
    <2> HIDE DEF e
    <2>3. definition'[new] = e /\ Promise!Redefined(new)
      BY <2>1 DEF IInv, TypeOK, Promise!Redefined
    <2>4. ASSUME NEW m \in Nodes PROVE definition[m].supersedes # old
      <3>1. ValidGraph(definition', edges')
        BY <1>5 DEF SupersedeNode, Superseded, Change
      <3>2. definition[new] = NoDefinition /\ old # NoNode /\ e # NoDefinition
        BY <2>1, <2>2, DefinitionFacts, LifecycleConstants DEF IInv, GraphInv
      <3>3. CASE definition[m] = NoDefinition
        BY <3>2, <3>3, DefinitionFacts
      <3>4. CASE definition[m] # NoDefinition
        <4>1. m # new /\ definition'[m] = definition[m]
          BY <2>3, <3>2, <3>4 DEF Promise!Redefined
        <4>2. QED
          BY <2>2, <2>3, <3>1, <3>2, <3>4, <4>1 DEF ValidGraph
      <3>5. QED
        BY <3>3, <3>4
    <2>5. old \notin Holding /\ Holding' = Holding
      BY <2>1, LatestHolds, HoldingKept
    <2>6. Promise!Supersede(old, new)
      BY <2>1, <2>2, <2>3, <2>4, <2>5 DEF Promise!Supersede
    <2>7. QED
      BY <2>6 DEF PromiseStep, Promise!Next
  <1>6. QED
    BY <1>1, <1>2, <1>3, <1>4, <1>5 DEF GraphStep

(* An append on a fresh head settles what the frontier still names: the    *)
(* decision was made at the load and holds at the commit.                  *)
LEMMA SettleRefines ==
    ASSUME IInv, NEW p \in Procs, SettleStep(p)
    PROVE  PromiseStep
  <1>1. ASSUME NEW n \in Nodes, NEW s, status' = [status EXCEPT ![n] = s],
               UNCHANGED <<definition, edges, number, lease>>,
               \/ n \in Automatic /\ n \in Ready /\ s = "success"
               \/ n \in Unreachable /\ s = "skipped"
        PROVE  PromiseStep
    <2>1. \/ definition[n].kind = "join" /\ Promise!MayRun(n) /\ Promise!Turn(n, "success")
          \/ Promise!Hopeless(n) /\ Promise!Turn(n, "skipped")
      BY <1>1, SameFrontier DEF Promise!Turn, Automatic
    <2>2. Promise!Settle(n)
      BY <1>1, <2>1, HoldingKept DEF Promise!Settle
    <2>3. QED
      BY <2>2 DEF PromiseStep, Promise!Next
  <1>2. CASE SkipNode(p)
    <2>1. job[p].skip \in Nodes /\ job[p].skip \in Unreachable
      BY <1>2, SettledIsPlanned
    <2>2. /\ status' = [status EXCEPT ![job[p].skip] = "skipped"]
          /\ UNCHANGED <<definition, edges, number, lease>>
      BY <1>2 DEF SkipNode, Settle, graph
    <2>3. QED
      BY <1>1, <2>1, <2>2
  <1>3. CASE CompleteNode(p)
    <2>1. job[p].auto \in Nodes /\ job[p].auto \in Ready
      BY <1>3, SettledIsPlanned
    <2>2. job[p].auto \in Automatic
      <3>1. JobInv(p) /\ job[p].fresh /\ job[p].step = "appending" /\ job[p].skip = NoNode
        BY <1>3 DEF CompleteNode, Settle, HeadIs, IInv
      <3>2. QED
        BY <3>1 DEF JobInv
    <2>3. /\ status' = [status EXCEPT ![job[p].auto] = "success"]
          /\ UNCHANGED <<definition, edges, number, lease>>
      BY <1>3 DEF CompleteNode, Settle, graph
    <2>4. QED
      BY <1>1, <2>1, <2>2, <2>3
  <1>4. CASE LoadFrontier(p) \/ ReplaySettlement(p) \/ LoseRace(p)
    BY <1>4, HoldingKept, UnseenStep DEF LoadFrontier, ReplaySettlement, LoseRace, graph
  <1>5. QED
    BY <1>2, <1>3, <1>4 DEF SettleStep

LEMMA NodeRefines ==
    ASSUME IInv, NEW p \in Procs, NEW n \in Nodes, NodeStep(p, n)
    PROVE  PromiseStep
  <1>1. CASE WaitAttempt(p, n) \/ ResumeAttempt(p, n) \/ SubmitAttempt(p, n)
    BY <1>1, HoldingKept, UnseenStep
       DEF WaitAttempt, ResumeAttempt, SubmitAttempt, ChangeAttempt, graph
  <1>2. CASE \/ ResolveIncident(p, n) \/ ControlResolveIncident(p, n)
             \/ \E m \in Nodes : SupersedeIncident(p, n, m)
    BY <1>2, HoldingKept, UnseenStep
       DEF ResolveIncident, ControlResolveIncident, SupersedeIncident, graph
  <1>3. QED
    BY <1>1, <1>2, StartRefines, FinishRefines, ResourceRefines DEF NodeStep

LEMMA NextRefines ==
    ASSUME IInv, [Next]_vars
    PROVE  PromiseStep
  <1>1. CASE UNCHANGED vars
    BY <1>1, HoldingKept, UnseenStep DEF vars
  <1>2. ASSUME NEW p \in Procs, ImportGraph(p) PROVE PromiseStep
    <2>1. /\ \A n \in Nodes : status[n] = "absent"
          /\ status' = [n \in Nodes |-> IF FirstNodes[n] = NoDefinition THEN "absent" ELSE "planned"]
          /\ definition' = FirstNodes /\ edges' = FirstEdges /\ UNCHANGED <<number, lease>>
      BY <1>2 DEF ImportGraph, Present
    <2>2. Promise!Import
      BY <2>1, HoldingKept DEF Promise!Import
    <2>3. QED
      BY <2>2 DEF PromiseStep, Promise!Next
  <1>3. ASSUME NEW p \in Procs, OtherCommand(p) \/ OpenService(p) \/ AbandonSettlement(p)
        PROVE  PromiseStep
    BY <1>3, HoldingKept, UnseenStep DEF OtherCommand, OpenService, AbandonSettlement, graph
  <1>4. QED
    BY <1>1, <1>2, <1>3, NodeRefines, GraphRefines, SettleRefines DEF Next

LEMMA InitRefines == Init => Promise!Init
  <1> SUFFICES ASSUME Init PROVE Promise!Init
    OBVIOUS
  <1>1. \A n \in Nodes, a \in Attempts : ~lease[n][a].active
    BY DEF Init, NoLease
  <1>2. Holding = {}
    BY <1>1 DEF Holding
  <1>3. QED
    BY <1>2 DEF Init, Promise!Init

-----------------------------------------------------------------------------
(* The theorems.                                                           *)

(* The inductive invariant holds whatever the commands and the settlement  *)
(* loops of all processes (actions.go, graphchange.go, automatic.go) do.   *)
THEOREM LifecycleInvariant == Spec => []IInv
  <1>1. Init => IInv
    BY InitInv
  <1>2. IInv /\ [Next]_vars => IInv'
    BY NextInv
  <1>3. QED
    BY <1>1, <1>2, PTL DEF Spec

(* Statuses, attempts, leases and jobs keep the shape the reducer gives    *)
(* them (internal/domain/types.go).                                        *)
THEOREM LifecycleTypeOK == Spec => []TypeOK
  <1>1. IInv => TypeOK
    BY DEF IInv
  <1>2. QED
    BY <1>1, LifecycleInvariant, PTL

(* What startNode (actions.go) or the settlement of a join (automatic.go)  *)
(* found satisfied is never taken back, except by superseding the source.  *)
THEOREM StartsStayJustified == Spec => []StartedOnInputs
  <1>1. IInv => StartedOnInputs
    BY DEF IInv
  <1>2. QED
    BY <1>1, LifecycleInvariant, PTL

(* What settleAutomatic (automatic.go) skipped stays unreachable: nobody   *)
(* removes the refuted edge or revives its source.                         *)
THEOREM SkipsStayJustified == Spec => []SkipIsJustified
  <1>1. IInv => SkipIsJustified
    BY DEF IInv
  <1>2. QED
    BY <1>1, LifecycleInvariant, PTL

(* The admission of a start against availableResourceCapacity (types.go)   *)
(* never lets the leases exceed what is declared.                          *)
THEOREM CapacityNeverExceeded == Spec => []CapacityRespected
  <1>1. IInv => CapacityRespected
    BY DEF IInv
  <1>2. QED
    BY <1>1, LifecycleInvariant, PTL

(* Neither finishing an attempt (actions.go) nor superseding its node      *)
(* (graphchange.go) leaves a lease behind that nobody can close.           *)
THEOREM LeasesStayReachable == Spec => []NoOrphanLease
  <1>1. IInv => NoOrphanLease
    BY DEF IInv
  <1>2. QED
    BY <1>1, LifecycleInvariant, PTL

(* Capacity comes back by a confirmed closure only, and the incident of    *)
(* the lease is resolved with it (resources.go).                           *)
THEOREM CapacityReturnsByConfirmation == Spec => []ReleasedByConfirmation
  <1>1. IInv => ReleasedByConfirmation
    BY DEF IInv
  <1>2. QED
    BY <1>1, LifecycleInvariant, PTL

(* A retry is admitted by the number of attempts the node has had, which   *)
(* neither removing and adding the node nor another definition of it       *)
(* resets (actions.go, graphchange.go): that number stays within the       *)
(* largest of the budgets the node may declare, not within the one it      *)
(* declares now.                                                           *)
THEOREM RetriesStayBounded == Spec => []RetriesBounded
  <1>1. IInv => RetriesBounded
    BY DEF IInv, BudgetInv, RetriesBounded
  <1>2. QED
    BY <1>1, LifecycleInvariant, PTL

(* Every settlement that automatic.go commits is one the reducer accepts.  *)
THEOREM SettlementsAreAccepted == Spec => ReducerAccepts
  <1> DEFINE A == \A k \in keys' \ keys : status[k.node] = "planned"
  <1>1. IInv /\ [Next]_vars => A
    BY KeysOfPlanned
  <1>2. A => [A]_vars
    OBVIOUS
  <1>3. IInv /\ [Next]_vars => [A]_vars
    BY <1>1, <1>2
  <1>4. QED
    BY <1>3, LifecycleInvariant, PTL DEF Spec, ReducerAccepts

(* The commands, graph changes and settlement loops of any number of       *)
(* processes (actions.go, graphchange.go, automatic.go) implement a graph  *)
(* in which a node starts, completes or is skipped in one step, on what    *)
(* the frontier says in that step.                                         *)
THEOREM NodesKeepPromise == Spec => PromiseSpec
  <1>1. Promise!Init /\ [][Promise!Next]_(Promise!vars) => PromiseSpec
    BY DEF PromiseSpec, Promise!Spec
  <1>2. IInv /\ [Next]_vars => [Promise!Next]_(Promise!vars)
    BY NextRefines DEF PromiseStep
  <1>3. QED
    BY <1>1, <1>2, InitRefines, LifecycleInvariant, PTL DEF Spec

(* What every step leaves of a node's outcome.                             *)
OutcomesKept == \A n \in Nodes :
    /\ status[n] \in Ended => status'[n] \in {status[n], "superseded"}
    /\ status[n] = "superseded" => status'[n] = "superseded"

(* The promise alone keeps outcomes, step by step.                         *)
LEMMA PromiseKeepsOutcomes == ASSUME IInv, PromiseStep PROVE OutcomesKept
  <1> SUFFICES ASSUME NEW n \in Nodes
               PROVE  /\ status[n] \in Ended => status'[n] \in {status[n], "superseded"}
                      /\ status[n] = "superseded" => status'[n] = "superseded"
    BY DEF OutcomesKept
  <1>1. /\ status \in [Nodes -> Statuses]
        /\ \A s \in Ended \cup {"superseded"} : s \notin {"absent", "planned", "active"}
    <2>1. status \in [Nodes -> Statuses]
      BY DEF IInv, TypeOK
    <2>2. QED
      BY <2>1 DEF Ended, Classes
  <1>2. ASSUME NEW m \in Nodes, NEW s, status[m] \in {"absent", "planned", "active"}, Promise!Turn(m, s)
        PROVE  status'[n] = status[n] \/ status[n] \notin Ended \cup {"superseded"}
    BY <1>1, <1>2 DEF Promise!Turn
  <1>3. CASE Promise!Import
    BY <1>1, <1>3 DEF Promise!Import
  <1>4. ASSUME NEW m \in Nodes, \/ Promise!Start(m) \/ Promise!Settle(m) \/ Promise!Finish(m)
                                \/ Promise!Add(m) \/ Promise!Remove(m)
        PROVE  status'[n] = status[n] \/ status[n] \notin Ended \cup {"superseded"}
    <2>1. \E s : Promise!Turn(m, s)
      BY <1>4 DEF Promise!Start, Promise!Settle, Promise!Finish, Promise!Add, Promise!Remove
    <2>2. status[m] \in {"absent", "planned", "active"}
      BY <1>4 DEF Promise!Start, Promise!Settle, Promise!Finish, Promise!Add, Promise!Remove,
                  Promise!MayRun, Promise!Hopeless
    <2>3. QED
      BY <1>2, <2>1, <2>2
  <1>5. CASE \/ \E m \in Nodes : Promise!Release(m) \/ Promise!Update(m)
             \/ \E e \in Edges : Promise!Rewire(e)
             \/ UNCHANGED Promise!vars
    BY <1>5 DEF Promise!Release, Promise!Update, Promise!Rewire, Promise!vars
  <1>6. ASSUME NEW old \in Nodes, NEW new \in Nodes, Promise!Supersede(old, new)
        PROVE  status'[n] \in {status[n], "superseded"} \/ status[n] \notin Ended \cup {"superseded"}
    <2>1. /\ status[new] = "absent"
          /\ status' = [status EXCEPT ![old] = "superseded", ![new] = "planned"]
      BY <1>6 DEF Promise!Supersede
    <2>2. QED
      BY <1>1, <2>1
  <1>7. QED
    BY <1>3, <1>4, <1>5, <1>6 DEF PromiseStep, Promise!Next

(* What the reducer recorded as a node's outcome stays its outcome: no     *)
(* late command, stale settlement or graph change gives it another one or  *)
(* plans it again, and a node that was superseded is never revived. This   *)
(* follows from the promise alone.                                         *)
THEOREM OutcomesStand == Spec => [][OutcomesKept]_vars
  <1>1. IInv /\ [Next]_vars => OutcomesKept
    BY PromiseKeepsOutcomes, NextRefines
  <1>2. OutcomesKept => [OutcomesKept]_vars
    OBVIOUS
  <1>3. QED
    BY <1>1, <1>2, LifecycleInvariant, PTL DEF Spec

(* A settlement's idempotency key is spent on a node that has its outcome, *)
(* also when graph changes bring an old revision, and with it the key,     *)
(* back.                                                                   *)
SpentKeys == \A k \in keys : status[k.node] \in Ended \cup {"superseded"}

(* The node of a new key gets its outcome in the same step.                *)
LEMMA NewKeysAreSpent ==
    ASSUME IInv, [Next]_vars
    PROVE  \A k \in keys' \ keys : status'[k.node] \in Ended
  <1>1. SUFFICES ASSUME NEW k \in keys', k \notin keys
                 PROVE  status'[k.node] \in Ended
    OBVIOUS
  <1>2. PICK p \in Procs : SkipNode(p) \/ CompleteNode(p)
    BY <1>1, OnlySettlingAddsKeys
  <1>3. status \in [Nodes -> Statuses] /\ "skipped" \in Ended /\ "success" \in Ended
    BY DEF IInv, TypeOK, Ended, Classes
  <1>4. CASE SkipNode(p)
    <2>1. /\ keys' = keys \cup {Key("skip", job[p].rev, job[p].skip)}
          /\ status' = [status EXCEPT ![job[p].skip] = "skipped"]
      BY <1>4 DEF SkipNode, Settle
    <2>2. k.node = job[p].skip /\ job[p].skip \in Nodes
      BY <1>1, <1>4, <2>1, SettledIsPlanned DEF Key
    <2>3. QED
      BY <1>3, <2>1, <2>2
  <1>5. CASE CompleteNode(p)
    <2>1. /\ keys' = keys \cup {Key("auto", job[p].rev, job[p].auto)}
          /\ status' = [status EXCEPT ![job[p].auto] = "success"]
      BY <1>5 DEF CompleteNode, Settle
    <2>2. k.node = job[p].auto /\ job[p].auto \in Nodes
      BY <1>1, <1>5, <2>1, SettledIsPlanned DEF Key
    <2>3. QED
      BY <1>3, <2>1, <2>2
  <1>6. QED
    BY <1>2, <1>4, <1>5

(* A settlement decided on the present head is never taken for a replay of *)
(* an older one: its key is new, however often the graph has been at the   *)
(* revision that is part of it (automatic.go, Journal.AppendOnce).         *)
FreshIsNew == \A p \in Procs :
    job[p].step = "appending" /\ HeadIs(p) => Pending(p) \notin keys

(* With OutcomesStand: the node of a spent key is never planned again, and *)
(* a fresh job names a planned node.                                       *)
THEOREM SettlementsAreNew == Spec => [](SpentKeys /\ FreshIsNew)
  <1>1. Init => SpentKeys
    BY DEF Init, SpentKeys
  <1>2. IInv /\ SpentKeys /\ [Next]_vars => SpentKeys'
    <2> SUFFICES ASSUME IInv, SpentKeys, [Next]_vars, NEW k \in keys'
                 PROVE  status'[k.node] \in Ended \cup {"superseded"}
      BY DEF SpentKeys
    <2>1. CASE k \notin keys
      BY <2>1, NewKeysAreSpent
    <2>2. CASE k \in keys
      <3>1. k.node \in Nodes /\ status[k.node] \in Ended \cup {"superseded"}
        BY <2>2 DEF IInv, TypeOK, SpentKeys
      <3>2. OutcomesKept
        BY PromiseKeepsOutcomes, NextRefines
      <3>3. QED
        BY <3>1, <3>2 DEF OutcomesKept
    <2>3. QED
      BY <2>1, <2>2
  <1>3. IInv /\ SpentKeys => FreshIsNew
    <2> SUFFICES ASSUME IInv, SpentKeys, NEW p \in Procs,
                        job[p].step = "appending", job[p].fresh, Pending(p) \in keys
                 PROVE  FALSE
      BY DEF FreshIsNew, HeadIs
    <2>1. JobInv(p)
      BY DEF IInv
    <2>2. Pending(p).node \in Unreachable \cup Ready
      BY <2>1 DEF JobInv, Pending, Key
    <2>3. status[Pending(p).node] = "planned"
      BY <2>2, SettledIsPlanned
    <2>4. QED
      BY <2>3 DEF SpentKeys, Ended, Classes
  <1>4. QED
    BY <1>1, <1>2, <1>3, LifecycleInvariant, PTL DEF Spec
=============================================================================
