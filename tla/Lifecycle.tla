----------------------------- MODULE Lifecycle -----------------------------
(***************************************************************************)
(* The life of the nodes of a graph (internal/service/actions.go,          *)
(* resources.go, graphchange.go, automatic.go) and the frontier that       *)
(* decides which of them may start (internal/domain/types.go).             *)
(*                                                                         *)
(* Commands of roles are bound to the journal head they were decided on,   *)
(* so each is one step. What runs after it is not: the process goes on to  *)
(* settle joins and unreachable nodes in a loop of its own, one append at  *)
(* a time, while other processes commit. Who may give a command (leases,   *)
(* capabilities, references) is the subject of other modules.              *)
(*                                                                         *)
(* A node's outcome is its class, a predicate the set of outcomes that     *)
(* satisfy it, and there is one kind of resource.                          *)
(***************************************************************************)
EXTENDS Integers, FiniteSets

CONSTANTS Procs,          \* processes that open the project
          Nodes,          \* node identifiers
          NoNode,         \* no node
          Definitions,    \* definitions a graph may have of each node
          Edges,          \* edges a graph may have
          FirstNodes,     \* definitions of the imported graph
          FirstEdges,     \* edges of the imported graph
          Capacity,       \* declared capacity of the resource
          AttemptBudget,  \* an incident's budget; the code uses 2
          MaxAttempts,    \* bound: attempts of a node
          MaxChanges      \* bound: graph changes

Classes   == {"success", "failure", "cancelled"}
Predicate == SUBSET Classes
Attempts  == 1..MaxAttempts

(* NodeDefinition: a task's success needs a submission, a join completes   *)
(* by itself (so does a milestone) and has no executor; "role" stands for  *)
(* the other kinds.                                                        *)
Definition   == {d \in [kind: {"task", "role", "join"}, need: 0..Capacity, budget: Nat,
                        supersedes: Nodes \cup {NoNode}] : d.kind = "join" => d.need = 0}
NoDefinition == [kind |-> "none", need |-> 0, budget |-> 0, supersedes |-> NoNode]

ASSUME LifecycleConstants ==
    /\ NoNode \notin Nodes /\ IsFiniteSet(Nodes)
    /\ Definitions \in [Nodes -> SUBSET Definition]
    /\ \A n \in Nodes : FirstNodes[n] \in Definitions[n] \cup {NoDefinition}
    /\ FirstNodes = [n \in Nodes |-> FirstNodes[n]] /\ FirstEdges \subseteq Edges
    /\ \A e \in Edges : e = [from |-> e.from, to |-> e.to, when |-> e.when]
    /\ \A e \in Edges : e.from \in Nodes /\ e.to \in Nodes /\ e.when \in Predicate
    /\ Capacity \in Nat /\ AttemptBudget \in Nat \ {0}
    /\ MaxAttempts \in Nat /\ MaxChanges \in Nat

VARIABLES
    status,     \* status of each node; a terminal one shows its outcome
    definition, \* what the graph says of each node
    edges,      \* edges of the graph
    attempt,    \* status of each node's latest attempt
    number,     \* how many attempts each node has had
    lease,      \* the resource lease of each attempt
    incident,   \* the incident of each node's failed attempt
    keys,       \* idempotency keys of committed settlements
    job,        \* where each process is in settleAutomatic
    changes     \* graph changes so far

vars == <<status, definition, edges, attempt, number, lease, incident, keys, job, changes>>
graph == <<definition, edges, changes>>

Ended    == Classes \cup {"skipped"}
Statuses == Ended \cup {"absent", "planned", "active", "superseded"}

(* A lease is active until its closure is confirmed ("unconfirmed" stands  *)
(* for the receipts failed and unknown, which the code treats alike); its  *)
(* incident counts the observations without progress up to its budget.     *)
Lease   == [closure: {"none", "pending", "unconfirmed", "confirmed"},
            active: BOOLEAN, quantity: 0..Capacity,
            incident: {"none", "open", "circuit-open", "resolved"},
            noProgress: 0..AttemptBudget]
NoLease == [closure |-> "none", active |-> FALSE, quantity |-> 0, incident |-> "none", noProgress |-> 0]
Bump(k) == IF k < AttemptBudget THEN k + 1 ELSE AttemptBudget

Present(n) == status[n] # "absent"
Automatic  == {n \in Nodes : definition[n].kind = "join"}
Revision   == [nodes |-> definition, edges |-> edges]
Key(kind, rev, n) == [kind |-> kind, rev |-> rev, node |-> n]

Revisions == [nodes: [Nodes -> Definition \cup {NoDefinition}], edges: SUBSET Edges]
Job  == [step: {"idle", "loading", "appending"}, fresh: BOOLEAN,
         skip: Nodes \cup {NoNode}, auto: Nodes \cup {NoNode}, rev: Revisions]
Idle == [step |-> "idle", fresh |-> FALSE, skip |-> NoNode, auto |-> NoNode,
         rev |-> [nodes |-> [n \in Nodes |-> NoDefinition], edges |-> {}]]
Loading == [Idle EXCEPT !.step = "loading"]

TypeOK ==
    /\ status \in [Nodes -> Statuses]
    /\ definition \in [Nodes -> Definition \cup {NoDefinition}]
    /\ edges \in SUBSET Edges
    /\ attempt \in [Nodes -> {"none", "running", "waiting", "submitted", "terminal"}]
    /\ number \in [Nodes -> 0..MaxAttempts]
    /\ lease \in [Nodes -> [Attempts -> Lease]]
    /\ incident \in [Nodes -> {"none", "open", "resolved"}]
    /\ keys \in SUBSET [kind: {"skip", "auto"}, rev: Revisions, node: Nodes]
    /\ job \in [Procs -> Job]
    /\ changes \in 0..MaxChanges

Init ==
    /\ status   = [n \in Nodes |-> "absent"]
    /\ definition = [n \in Nodes |-> NoDefinition]
    /\ edges    = {}
    /\ attempt  = [n \in Nodes |-> "none"]
    /\ number   = [n \in Nodes |-> 0]
    /\ lease    = [n \in Nodes |-> [a \in Attempts |-> NoLease]]
    /\ incident = [n \in Nodes |-> "none"]
    /\ keys = {} /\ job = [p \in Procs |-> Idle] /\ changes = 0

-----------------------------------------------------------------------------
(* The frontier: computeFrontier.                                          *)

Incoming(n)  == {e \in edges : e.to = n}
Satisfied(e) == status[e.from] \in e.when
Refuted(e)   == status[e.from] \in Ended /\ ~Satisfied(e)

(* One refuted predicate is enough, whatever the other sources do.         *)
Unreachable == {n \in Nodes : status[n] = "planned" /\ \E e \in Incoming(n) : Refuted(e)}

(* Counted unit by unit: an active lease holds as many as its attempt was  *)
(* started with.                                                           *)
Held(n)   == {k \in 1..Capacity : \E a \in Attempts : lease[n][a].active /\ k <= lease[n][a].quantity}
InUse     == Cardinality({u \in Nodes \X (1..Capacity) : u[2] \in Held(u[1])})
Available == Capacity - InUse

(* Mutant: the capacity in use is not subtracted.                          *)
ReadyUnmetered == {n \in Nodes : /\ status[n] = "planned"
                                 /\ \A e \in Incoming(n) : Satisfied(e)
                                 /\ definition[n].need <= Capacity}

Ready == LET available == Available IN
    {n \in Nodes : /\ status[n] = "planned"
                   /\ \A e \in Incoming(n) : Satisfied(e)
                   /\ definition[n].need > 0 => definition[n].need <= available}

-----------------------------------------------------------------------------
(* A committed command makes every loaded head stale; most commands go on  *)
(* to settle, and so does opening the project.                             *)

Stale(j)       == [j EXCEPT !.fresh = FALSE]
Commit(p, j)   == job' = [q \in Procs |-> IF q = p THEN j ELSE Stale(job[q])]
Command(p)     == Commit(p, Loading)
Become(p, j)   == job' = [job EXCEPT ![p] = j]

(* ValidateGraph: every edge joins two nodes of the graph, there is no     *)
(* cycle, and a node supersedes another one that nobody else supersedes.   *)
ValidGraph(ds, es) ==
    LET ns == {n \in Nodes : ds[n] # NoDefinition} IN
    /\ \A e \in es : e.from \in ns /\ e.to \in ns
    /\ \A s \in SUBSET ns \ {{}} : \E n \in s : \A e \in es : e.to = n => e.from \notin s
    /\ \A n \in ns : LET old == ds[n].supersedes IN
          old # NoNode => old \in ns \ {n} /\ \A m \in ns \ {n} : ds[m].supersedes # old

ImportGraph(p) ==
    /\ job[p].step = "idle"
    /\ \A n \in Nodes : ~Present(n)
    /\ changes = 0
    /\ ValidGraph(FirstNodes, FirstEdges)
    /\ status' = [n \in Nodes |-> IF FirstNodes[n] = NoDefinition THEN "absent" ELSE "planned"]
    /\ definition' = FirstNodes
    /\ edges' = FirstEdges
    /\ Command(p)
    /\ UNCHANGED <<attempt, number, lease, incident, keys, changes>>

(* A command that changes none of this: a checkpoint, evidence, a lease of *)
(* a role, a change of a lane, of what else a node's definition says. Some *)
(* settle afterwards.                                                      *)
OtherCommand(p) == \E settles \in BOOLEAN :
    /\ job[p].step = "idle"
    /\ Commit(p, IF settles THEN Loading ELSE Idle)
    /\ UNCHANGED <<status, graph, attempt, number, lease, incident, keys>>

-----------------------------------------------------------------------------
(* Attempts.                                                               *)

StartNode(p, n) ==
    /\ n \notin Automatic /\ status[n] = "planned" /\ n \in Ready
    /\ number[n] < MaxAttempts
    /\ status'  = [status EXCEPT ![n] = "active"]
    /\ attempt' = [attempt EXCEPT ![n] = "running"]
    /\ number'  = [number EXCEPT ![n] = @ + 1]
    /\ lease'   = IF definition[n].need = 0 THEN lease
                  ELSE [lease EXCEPT ![n][number[n] + 1] =
                          [NoLease EXCEPT !.closure = "pending", !.active = TRUE,
                                          !.quantity = definition[n].need]]
    /\ Command(p)
    /\ UNCHANGED <<graph, incident, keys>>

(* attempt.wait, attempt.resume and attempt.submit.                        *)
ChangeAttempt(p, n, from, to) ==
    /\ status[n] = "active" /\ attempt[n] = from
    /\ attempt' = [attempt EXCEPT ![n] = to]
    /\ Command(p)
    /\ UNCHANGED <<status, graph, number, lease, incident, keys>>

WaitAttempt(p, n)   == ChangeAttempt(p, n, "running", "waiting")
ResumeAttempt(p, n) == ChangeAttempt(p, n, "waiting", "running")
SubmitAttempt(p, n) == definition[n].kind = "task" /\ ChangeAttempt(p, n, "running", "submitted")

HoldsLease(n) == number[n] > 0 /\ lease[n][number[n]].active

(* Mutant: the retry after the last one is still admitted.                 *)
RetryOnceMore(n) == number[n] <= definition[n].budget + 1

MayRetry(n) == number[n] <= definition[n].budget

(* Mutant: the attempt's resources are not looked at.                      *)
FinishWithLease(p, n, class) ==
    /\ status[n] = "active" /\ attempt[n] \in {"running", "submitted"}
    /\ definition[n].kind = "task" /\ class = "success" => attempt[n] = "submitted"
    /\ class = "retryable" => MayRetry(n)
    /\ attempt'  = [attempt EXCEPT ![n] = "terminal"]
    /\ status'   = [status EXCEPT ![n] = IF class = "retryable" THEN "planned" ELSE class]
    /\ incident' = [incident EXCEPT ![n] = IF class \in {"failure", "cancelled"} THEN "open" ELSE @]
    /\ Command(p)
    /\ UNCHANGED <<graph, number, lease, keys>>

(* The completion action of the node's kind. A retryable outcome plans the *)
(* node again, a failure opens an incident.                                *)
FinishAttempt(p, n, class) ==
    /\ status[n] = "active" /\ attempt[n] \in {"running", "submitted"}
    /\ ~HoldsLease(n)
    /\ definition[n].kind = "task" /\ class = "success" => attempt[n] = "submitted"
    /\ class = "retryable" => MayRetry(n)
    /\ attempt'  = [attempt EXCEPT ![n] = "terminal"]
    /\ status'   = [status EXCEPT ![n] = IF class = "retryable" THEN "planned" ELSE class]
    /\ incident' = [incident EXCEPT ![n] = IF class \in {"failure", "cancelled"} THEN "open" ELSE @]
    /\ Command(p)
    /\ UNCHANGED <<graph, number, lease, keys>>

(* The owner closes the incident of a failed attempt.                      *)
ResolveIncident(p, n) ==
    /\ incident[n] = "open"
    /\ incident' = [incident EXCEPT ![n] = "resolved"]
    /\ Commit(p, Idle)
    /\ UNCHANGED <<status, graph, attempt, number, lease, keys>>

(* A controller may do it for another role while the failure stands.       *)
ControlResolveIncident(p, n) ==
    /\ status[n] \in {"failure", "cancelled"}
    /\ ResolveIncident(p, n)

(* So does a repair node that is planned or active: it supersedes the      *)
(* failed node, or the failure is what its predicate asked for.            *)
SupersedeIncident(p, n, m) ==
    /\ status[m] \in {"planned", "active"}
    /\ definition[m].supersedes = n \/ \E e \in Incoming(m) : e.from = n /\ Satisfied(e)
    /\ ResolveIncident(p, n)

-----------------------------------------------------------------------------
(* Resources: applyResourceAction and the incidents it opens. None of      *)
(* these commands settles.                                                 *)

UpdateLease(p, n, l) ==
    /\ lease' = [lease EXCEPT ![n][number[n]] = l]
    /\ Commit(p, Idle)
    /\ UNCHANGED <<status, graph, attempt, number, incident, keys>>

(* Mutant: the incident takes the status of the receipt.                   *)
ObservedRaw(l, r) == [l EXCEPT !.closure = r, !.incident = r]

(* A confirmed closure releases the lease and resolves the incident (whose *)
(* counter nobody reads any more).                                         *)
Observed(l, r) ==
    IF r = "confirmed"
      THEN [l EXCEPT !.closure = r, !.active = FALSE, !.noProgress = 0,
                     !.incident = IF @ = "none" THEN "none" ELSE "resolved"]
      ELSE [l EXCEPT !.closure = r, !.noProgress = Bump(@),
                     !.incident = IF @ # "none" /\ l.noProgress + 1 >= AttemptBudget
                                    THEN "circuit-open" ELSE "open"]

(* resource.close while the closure is pending, resource.reconcile after a *)
(* failed or unknown one.                                                  *)
CloseResource(p, n) == \E r \in {"confirmed", "unconfirmed"} :
    /\ status[n] = "active" /\ HoldsLease(n)
    /\ lease[n][number[n]].incident \in {"none", "open"}
    /\ UpdateLease(p, n, Observed(lease[n][number[n]], r))

(* A progress report; "late" when the incident's deadline has passed.      *)
ProgressIncident(p, n) == \E made, late \in BOOLEAN :
    LET l  == lease[n][number[n]]
        np == IF made THEN 0 ELSE Bump(l.noProgress) IN
    /\ number[n] > 0 /\ l.incident = "open"
    /\ UpdateLease(p, n, [l EXCEPT !.noProgress = np,
                                   !.incident = IF np >= AttemptBudget \/ late
                                                  THEN "circuit-open" ELSE "open"])

TripIncident(p, n) ==
    /\ number[n] > 0 /\ lease[n][number[n]].incident \in {"open", "circuit-open"}
    /\ UpdateLease(p, n, [lease[n][number[n]] EXCEPT !.incident = "circuit-open"])

(* Disposition "retry" on an open circuit; the other dispositions change   *)
(* nothing here and are commands of their own (OtherCommand).              *)
RetryIncident(p, n) ==
    /\ number[n] > 0 /\ lease[n][number[n]].incident = "circuit-open"
    /\ UpdateLease(p, n, [lease[n][number[n]] EXCEPT !.incident = "open", !.noProgress = 0])

-----------------------------------------------------------------------------
(* Graph changes: the operations of applyGraphPatch. The token binds the   *)
(* change to the head it was previewed on.                                 *)

Change(p, ds, es) ==
    /\ \E n \in Nodes : Present(n)
    /\ changes < MaxChanges /\ changes' = changes + 1
    /\ ValidGraph(ds, es)
    /\ definition' = ds /\ edges' = es
    /\ Command(p)
    /\ UNCHANGED <<number, keys, incident>>

Defined(n, d) == [definition EXCEPT ![n] = d]

AddNode(p, n, d) ==
    /\ ~Present(n)
    /\ status' = [status EXCEPT ![n] = "planned"]
    /\ Change(p, Defined(n, d), edges)
    /\ UNCHANGED <<attempt, lease>>

(* Nothing of a planned node stays as it was, except its edges and the     *)
(* attempts it has had.                                                    *)
UpdateNode(p, n, d) ==
    /\ status[n] = "planned" /\ d # definition[n]
    /\ Change(p, Defined(n, d), edges)
    /\ UNCHANGED <<status, attempt, lease>>

RemoveNode(p, n) ==
    /\ status[n] = "planned"
    /\ status' = [status EXCEPT ![n] = "absent"]
    /\ Change(p, Defined(n, NoDefinition), {e \in edges : n \notin {e.from, e.to}})
    /\ UNCHANGED <<attempt, lease>>

(* Mutant: the target may have started.                                    *)
AddAnyEdge(p, e) ==
    /\ e \notin edges
    /\ Change(p, definition, edges \cup {e})
    /\ UNCHANGED <<status, attempt, lease>>

AddEdge(p, e) ==
    /\ e \notin edges /\ status[e.to] = "planned"
    /\ Change(p, definition, edges \cup {e})
    /\ UNCHANGED <<status, attempt, lease>>

RemoveEdge(p, e) ==
    /\ e \in edges /\ status[e.to] = "planned"
    /\ Change(p, definition, edges \ {e})
    /\ UNCHANGED <<status, attempt, lease>>

(* Superseding ends the latest attempt and would release what it holds.    *)
Superseded(p, old, new, d) ==
    /\ status' = [status EXCEPT ![old] = "superseded", ![new] = "planned"]
    /\ attempt' = [attempt EXCEPT ![old] = IF number[old] = 0 THEN @ ELSE "terminal"]
    /\ lease' = IF HoldsLease(old) THEN [lease EXCEPT ![old][number[old]].active = FALSE] ELSE lease
    /\ Change(p, Defined(new, [d EXCEPT !.supersedes = old]), edges)

(* Mutant: the resources of the latest attempt are not looked at.          *)
SupersedeHolder(p, old, new, d) ==
    /\ Present(old) /\ ~Present(new)
    /\ Superseded(p, old, new, d)

SupersedeNode(p, old, new, d) ==
    /\ Present(old) /\ ~Present(new)
    /\ ~HoldsLease(old)
    /\ Superseded(p, old, new, d)

-----------------------------------------------------------------------------
(* settleAutomatic: load, append one skip or one completion, load again.   *)

(* Mutant: opening the project only loads it.                              *)
OpenWithoutSettling(p) ==
    /\ job[p].step = "idle"
    /\ UNCHANGED vars

(* Opening the project settles what an earlier process left.               *)
OpenService(p) ==
    /\ job[p].step = "idle"
    /\ Become(p, Loading)
    /\ UNCHANGED <<status, graph, attempt, number, lease, incident, keys>>

PickFrom(s) == IF s = {} THEN {NoNode} ELSE s

(* Mutant: a load that finds nothing starts the loop again.                *)
LoadForEver(p) ==
    /\ job[p].step = "loading"
    /\ \E s \in PickFrom(Unreachable), a \in PickFrom(Ready \cap Automatic) :
         Become(p, IF s = NoNode /\ a = NoNode THEN Loading
                   ELSE [step |-> "appending", fresh |-> TRUE, skip |-> s, auto |-> a,
                         rev |-> Revision])
    /\ UNCHANGED <<status, graph, attempt, number, lease, incident, keys>>

LoadFrontier(p) ==
    /\ job[p].step = "loading"
    /\ \E s \in PickFrom(Unreachable), a \in PickFrom(Ready \cap Automatic) :
         Become(p, IF s = NoNode /\ a = NoNode THEN Idle
                   ELSE [step |-> "appending", fresh |-> TRUE, skip |-> s, auto |-> a,
                         rev |-> Revision])
    /\ UNCHANGED <<status, graph, attempt, number, lease, incident, keys>>

(* Mutant: the append is not bound to the head that was loaded.            *)
AnyHead(p) == TRUE

HeadIs(p) == job[p].fresh

Settle(p, kind, n, s) ==
    /\ Key(kind, job[p].rev, n) \notin keys /\ HeadIs(p)
    /\ keys' = keys \cup {Key(kind, job[p].rev, n)}
    /\ status' = [status EXCEPT ![n] = s]
    /\ Commit(p, Loading)
    /\ UNCHANGED <<graph, attempt, number, lease, incident>>

SkipNode(p) ==
    /\ job[p].step = "appending" /\ job[p].skip # NoNode
    /\ Settle(p, "skip", job[p].skip, "skipped")

CompleteNode(p) ==
    /\ job[p].step = "appending" /\ job[p].skip = NoNode
    /\ Settle(p, "auto", job[p].auto, "success")

(* What the process is about to append.                                    *)
Pending(p) == LET j == job[p] IN
    IF j.skip # NoNode THEN Key("skip", j.rev, j.skip) ELSE Key("auto", j.rev, j.auto)

(* Somebody else committed the same settlement: after a skip the loop goes *)
(* on with the completions it loaded, after a completion it ends.          *)
ReplaySettlement(p) ==
    LET j == job[p] IN
    /\ j.step = "appending" /\ Pending(p) \in keys
    /\ Become(p, IF j.skip = NoNode \/ j.auto = NoNode THEN Idle ELSE [j EXCEPT !.skip = NoNode])
    /\ UNCHANGED <<status, graph, attempt, number, lease, incident, keys>>

(* The head has moved and the append is refused: the loop ends.            *)
LoseRace(p) ==
    /\ job[p].step = "appending" /\ Pending(p) \notin keys /\ ~HeadIs(p)
    /\ Become(p, Idle)
    /\ UNCHANGED <<status, graph, attempt, number, lease, incident, keys>>

(* The load or the append fails, or the process dies: the command that     *)
(* came before it stays committed.                                         *)
AbandonSettlement(p) ==
    /\ job[p].step # "idle"
    /\ Become(p, Idle)
    /\ UNCHANGED <<status, graph, attempt, number, lease, incident, keys>>

SettleStep(p) == \/ LoadFrontier(p) \/ SkipNode(p) \/ CompleteNode(p)
                 \/ ReplaySettlement(p) \/ LoseRace(p)

-----------------------------------------------------------------------------
(* A process gives one command at a time and settles before the next.      *)

NodeStep(p, n) ==
    \/ StartNode(p, n) \/ WaitAttempt(p, n) \/ ResumeAttempt(p, n) \/ SubmitAttempt(p, n)
    \/ \E class \in Classes \cup {"retryable"} : FinishAttempt(p, n, class)
    \/ ResolveIncident(p, n) \/ ControlResolveIncident(p, n)
    \/ \E m \in Nodes : SupersedeIncident(p, n, m)
    \/ CloseResource(p, n)
    \/ ProgressIncident(p, n) \/ TripIncident(p, n) \/ RetryIncident(p, n)

GraphStep(p) ==
    \/ \E n \in Nodes : \/ \E d \in Definitions[n] : AddNode(p, n, d) \/ UpdateNode(p, n, d)
                        \/ RemoveNode(p, n)
    \/ \E e \in Edges : AddEdge(p, e) \/ RemoveEdge(p, e)
    \/ \E old, new \in Nodes : \E d \in Definitions[new] : SupersedeNode(p, old, new, d)

Next == \E p \in Procs :
    \/ ImportGraph(p) \/ OtherCommand(p) \/ OpenService(p)
    \/ job[p].step = "idle" /\ \E n \in Nodes : NodeStep(p, n)
    \/ job[p].step = "idle" /\ GraphStep(p)
    \/ SettleStep(p)
    \/ AbandonSettlement(p)

Spec == Init /\ [][Next]_vars

(* A process in the settlement loop keeps running: its steps are local     *)
(* file operations.                                                        *)
FairSpec == Spec /\ \A p \in Procs : WF_vars(SettleStep(p))

(* Moreover the project is opened again and again, and a process does not  *)
(* fail or lose the race for the head every single time.                   *)
RepairSpec == FairSpec /\ \A p \in Procs : /\ WF_vars(OpenService(p))
                                            /\ SF_vars(LoadFrontier(p))
                                            /\ SF_vars(SkipNode(p))
                                            /\ SF_vars(CompleteNode(p))

-----------------------------------------------------------------------------
(* Properties.                                                             *)

(* A node that has started, or was completed automatically, did so on      *)
(* finished sources that satisfy its predicates: neither a graph change    *)
(* nor a retry nor a stale settlement invalidates that afterwards, except  *)
(* that a source may have been superseded since.                           *)
StartedOnInputs ==
    \A n \in Nodes : status[n] \in {"active"} \cup Classes =>
        \A e \in Incoming(n) : Satisfied(e) \/ status[e.from] = "superseded"

(* A skipped node really had a refuted predicate, and keeps it.            *)
SkipIsJustified ==
    \A n \in Nodes : status[n] = "skipped" =>
        \E e \in Incoming(n) : Refuted(e) \/ status[e.from] = "superseded"

(* The active leases never exceed the declared capacity.                   *)
CapacityRespected == InUse <= Capacity

(* Whatever holds capacity can still be closed: its attempt is the latest  *)
(* and is running, so resource.close or resource.reconcile is offered.     *)
NoOrphanLease ==
    \A n \in Nodes, a \in Attempts : lease[n][a].active =>
        /\ status[n] = "active" /\ attempt[n] # "terminal"
        /\ a = number[n]

(* CONTEXT.md, invariant 28: only a confirmed closure returns capacity,    *)
(* and with it the incident of the resource is resolved.                   *)
ReleasedByConfirmation ==
    \A n \in Nodes, a \in Attempts : LET l == lease[n][a] IN
        /\ l.closure # "none" => (l.active <=> l.closure # "confirmed")
        /\ l.incident = "resolved" => l.closure = "confirmed"
        /\ l.closure = "confirmed" => l.incident \in {"none", "resolved"}

(* A retry is granted by the budget the node declares at that moment. Over *)
(* a node's whole life this means: it never has more attempts than one     *)
(* more than the largest budget it may ever declare, although a change of  *)
(* the graph may lower the budget of a node that a retry has planned again *)
(* (its start does not look at it), or take the node out of the graph and  *)
(* put it back with another definition.                                    *)
RetriesBounded ==
    \A n \in Nodes : number[n] > 0 => \E d \in Definitions[n] : number[n] <= d.budget + 1

(* What commits is what the frontier says at that moment: the settlement   *)
(* loops, commands and graph changes of several processes implement a      *)
(* graph whose nodes start, complete and are skipped one at a time.        *)
Holding == {n \in Nodes : \E a \in Attempts : lease[n][a].active}

Promise == INSTANCE NodePromise WITH started <- number, holding <- Holding

PromiseSpec == Promise!Spec

(* Every settlement the loop commits is one the reducer accepts: the node  *)
(* is still planned. A second one would make every later load fail.        *)
ReducerAccepts == [][\A k \in keys' \ keys : status[k.node] = "planned"]_vars

(* The settlement loop of a process ends, also when it never fails: with   *)
(* nothing left to settle, with a lost race or with another's completion.  *)
SettleTerminates == \A p \in Procs : job[p].step # "idle" ~> job[p].step = "idle"

(* What a crashed or defeated settlement left behind is settled by a later *)
(* opening: an unreachable node does not stay planned, a ready join does   *)
(* not stay uncompleted.                                                   *)
UnsettledIsRepaired ==
    \A n \in Nodes : n \in Unreachable \cup (Ready \cap Automatic)
                     ~> n \notin Unreachable \cup (Ready \cap Automatic)
=============================================================================
