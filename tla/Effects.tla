------------------------------ MODULE Effects ------------------------------
(***************************************************************************)
(* The saga of an external effect (internal/service/effects.go) and of the *)
(* incident it opens (incidents.go): one effect node, its attempts, and    *)
(* the processes that prepare, dispatch, observe and reconcile it.         *)
(*                                                                         *)
(* Every write is a compare-and-swap on the journal head (module Journal). *)
(* A process remembers whether the head it loaded is still the head:       *)
(* "fresh" turns false as soon as anyone else commits. The adapter is      *)
(* external: it answers any receipt, an error, or nothing at all.          *)
(***************************************************************************)
EXTENDS Integers, FiniteSets

CONSTANTS Procs,          \* processes, each one session of the owner role
          NoProc,         \* no process
          Keys,           \* idempotency keys of reconcile requests
          NoKey,          \* a job that is not a reconcile
          MaxAttempts,    \* bound: attempts of the node
          RetryBudget,    \* the node's retry budget
          AttemptBudget   \* an incident's budget; the code uses 2

ASSUME EffectsConstants ==
    /\ NoProc \notin Procs /\ NoKey \notin Keys
    /\ MaxAttempts \in Nat /\ RetryBudget \in Nat
    /\ AttemptBudget \in Nat \ {0}

VARIABLES
    holder,     \* session with the unexpired lease of the owner role
    caps,       \* effect capabilities that role declares
    node,       \* status of the node
    att,        \* number of its latest attempt
    effect,     \* status of each attempt's effect
    incident,   \* the incident of each attempt's effect
    lock,       \* holder of each effect's observation lock
    job,        \* what each process is doing
    begun,      \* reconcile keys whose /begin command is committed
    answered,   \* reconcile keys whose observation is committed
    calls,      \* history: calls of adapter.Dispatch
    admitted    \* history: effects with a dispatch or reconcile not yet answered

vars == <<holder, caps, node, att, effect, incident, lock, job, begun, answered,
          calls, admitted>>
role    == <<holder, caps>>
graph   == <<node, att>>
history == <<calls, admitted>>

Attempts == 1..MaxAttempts
Capabilities == {"effect.apply", "effect.reconcile"}
Receipts == {"confirmed", "failed", "unknown", "reconciling"}
Statuses == Receipts \cup {"none", "prepared", "dispatched"}

InLock   == {"locked", "prepared", "authorized", "dispatching", "admitting",
             "asking", "received", "observing"}
JobSteps == InLock \cup {"idle", "preparing"}
Job      == [step: JobSteps, on: 0..MaxAttempts, fresh: BOOLEAN,
             key: Keys \cup {NoKey}, receipt: Receipts \cup {"none"}]
Idle     == [step |-> "idle", on |-> 0, fresh |-> FALSE, key |-> NoKey, receipt |-> "none"]

(* Counters are compared with the budget only: they stop there.            *)
Incident   == [status: {"none", "open", "circuit-open", "resolved"},
               attempts: 0..AttemptBudget, noProgress: 0..AttemptBudget]
NoIncident == [status |-> "none", attempts |-> 0, noProgress |-> 0]
Bump(n)    == IF n < AttemptBudget THEN n + 1 ELSE AttemptBudget

TypeOK ==
    /\ holder \in Procs \cup {NoProc}
    /\ caps \in SUBSET Capabilities
    /\ node \in {"planned", "active", "succeeded", "failed", "superseded"}
    /\ att \in 0..MaxAttempts
    /\ effect \in [Attempts -> Statuses]
    /\ incident \in [Attempts -> Incident]
    /\ lock \in [Attempts -> Procs \cup {NoProc}]
    /\ job \in [Procs -> Job]
    /\ begun \in SUBSET (Keys \X Attempts)
    /\ answered \in SUBSET (Keys \X Attempts)
    /\ calls \in [Attempts -> Nat]
    /\ admitted \in SUBSET Attempts

Init ==
    /\ holder = NoProc /\ caps = Capabilities /\ node = "planned" /\ att = 0
    /\ effect   = [a \in Attempts |-> "none"]
    /\ incident = [a \in Attempts |-> NoIncident]
    /\ lock     = [a \in Attempts |-> NoProc]
    /\ job      = [p \in Procs |-> Idle]
    /\ begun = {} /\ answered = {}
    /\ calls = [a \in Attempts |-> 0] /\ admitted = {}

-----------------------------------------------------------------------------
(* Commits. Whoever commits makes the head everyone else loaded stale.     *)

Stale(j)     == [j EXCEPT !.fresh = FALSE]
Commit(p, j) == job' = [q \in Procs |-> IF q = p THEN j ELSE Stale(job[q])]
CommitAside  == job' = [q \in Procs |-> Stale(job[q])]
Become(p, j) == job' = [job EXCEPT ![p] = j]
At(p, step)  == job[p].step = step
On(p)        == job[p].on

Acquire(p, a) == lock[a] = NoProc /\ lock' = [lock EXCEPT ![a] = p]

(* Mutant: the release function is never called.                           *)
KeepLock(p)   == UNCHANGED lock

Release(p)    == lock' = [a \in Attempts |-> IF lock[a] = p THEN NoProc ELSE lock[a]]

(* Mutant: the append is not bound to the head that was loaded.            *)
AnyHead(p)   == TRUE

(* AppendOnce with an expected head.                                       *)
HeadIs(p)    == job[p].fresh

-----------------------------------------------------------------------------
(* The owner role and the node around the effect.                          *)

(* A lease ends with time; without a lease any session may bind the role.  *)
Expire ==
    /\ holder # NoProc
    /\ holder' = NoProc
    /\ UNCHANGED <<caps, graph, effect, incident, lock, job, begun, answered, history>>

BindRole(p) ==
    /\ holder = NoProc
    /\ holder' = p
    /\ CommitAside
    /\ UNCHANGED <<caps, graph, effect, incident, lock, begun, answered, history>>

(* The session gives its lease up, or a controller role hands a live lease *)
(* to another session.                                                     *)
ReleaseRole(p) ==
    /\ holder = p
    /\ holder' = NoProc
    /\ CommitAside
    /\ UNCHANGED <<caps, graph, effect, incident, lock, begun, answered, history>>

TransferRole(p) ==
    /\ holder \notin {p, NoProc}
    /\ holder' = p
    /\ CommitAside
    /\ UNCHANGED <<caps, graph, effect, incident, lock, begun, answered, history>>

(* A graph change may give the role other capabilities, at any time.       *)
UpdateRole == \E c \in SUBSET Capabilities :
    /\ caps' = c
    /\ CommitAside
    /\ UNCHANGED <<holder, graph, effect, incident, lock, begun, answered, history>>

(* The session holds the lease and the role may apply effects.             *)
MayApply(p) == holder = p /\ "effect.apply" \in caps

(* Any command that has nothing to do with this effect.                    *)
Unrelated ==
    /\ CommitAside
    /\ UNCHANGED <<role, graph, effect, incident, lock, begun, answered, history>>

StartNode(p) ==
    /\ MayApply(p) /\ node = "planned" /\ att < MaxAttempts
    /\ node' = "active" /\ att' = att + 1
    /\ CommitAside
    /\ UNCHANGED <<role, effect, incident, lock, begun, answered, history>>

(* Mutant: any received status will do for a success.                      *)
AnyReceipt(class) == class # "retryable" \/ att <= RetryBudget

(* effect.complete is offered once a receipt is in; its outcome must agree *)
(* with the receipt.                                                       *)
Consistent(class) ==
    \/ class = "success"   /\ effect[att] = "confirmed"
    \/ class = "failure"   /\ effect[att] = "failed"
    \/ class = "cancelled"
    \/ class = "retryable" /\ att <= RetryBudget

CompleteEffect(p) == \E class \in {"success", "failure", "cancelled", "retryable"} :
    /\ MayApply(p) /\ node = "active"
    /\ effect[att] \in {"confirmed", "failed"}
    /\ Consistent(class)
    /\ node' = CASE class = "success" -> "succeeded"
                 [] class = "retryable" -> "planned"
                 [] OTHER -> "failed"
    /\ CommitAside
    /\ UNCHANGED <<role, att, effect, incident, lock, begun, answered, history>>

(* A graph change may replace the node whatever its effect is doing.       *)
SupersedeNode ==
    /\ node # "superseded"
    /\ node' = "superseded"
    /\ CommitAside
    /\ UNCHANGED <<role, att, effect, incident, lock, begun, answered, history>>

-----------------------------------------------------------------------------
(* effect.prepare: applyEffectAction.                                      *)

(* A session takes the action at the current head; adapter.Prepare runs    *)
(* without any lock.                                                       *)
PrepareEffect(p) ==
    /\ At(p, "idle") /\ MayApply(p)
    /\ node = "active" /\ effect[att] = "none"
    /\ Become(p, [Idle EXCEPT !.step = "preparing", !.on = att, !.fresh = TRUE])
    /\ UNCHANGED <<role, graph, effect, incident, lock, begun, answered, history>>

(* Under the observation lock the head and the lease are checked again; a  *)
(* stale reference is answered from the journal or refused.                *)
LockPrepared(p) ==
    /\ At(p, "preparing") /\ lock[On(p)] = NoProc
    /\ IF job[p].fresh /\ holder = p
         THEN Acquire(p, On(p)) /\ Become(p, [job[p] EXCEPT !.step = "locked"])
         ELSE Become(p, Idle) /\ UNCHANGED lock
    /\ UNCHANGED <<role, graph, effect, incident, begun, answered, history>>

CommitPrepared(p) ==
    /\ At(p, "locked") /\ HeadIs(p)
    /\ effect' = [effect EXCEPT ![On(p)] = "prepared"]
    /\ Commit(p, [job[p] EXCEPT !.step = "prepared"])
    /\ UNCHANGED <<role, graph, incident, lock, begun, answered, history>>

(* The journal is loaded again; a session that lost its lease stops here   *)
(* and leaves the prepared effect to a reconcile.                          *)
AuthorizeDispatch(p) ==
    /\ At(p, "prepared")
    /\ IF holder = p
         THEN Become(p, [job[p] EXCEPT !.step = "authorized", !.fresh = TRUE]) /\ UNCHANGED lock
         ELSE Become(p, Idle) /\ Release(p)
    /\ UNCHANGED <<role, graph, effect, incident, begun, answered, history>>

CommitDispatched(p) ==
    /\ At(p, "authorized") /\ HeadIs(p)
    /\ effect' = [effect EXCEPT ![On(p)] = "dispatched"]
    /\ admitted' = admitted \cup {On(p)}
    /\ Commit(p, [job[p] EXCEPT !.step = "dispatching"])
    /\ UNCHANGED <<role, graph, incident, lock, begun, answered, calls>>

(* Mutant: an unknown answer makes the adapter call run again.             *)
DispatchBlindly(p) == \E r \in Receipts :
    /\ At(p, "dispatching")
    /\ calls' = [calls EXCEPT ![On(p)] = @ + 1]
    /\ Become(p, [job[p] EXCEPT !.step = IF r = "unknown" THEN "dispatching" ELSE "received",
                                !.receipt = r])
    /\ UNCHANGED <<role, graph, effect, incident, lock, begun, answered, admitted>>

(* The one call of adapter.Dispatch; an error is an unknown receipt. In a  *)
(* daemon the caller is answered before it, and the job keeps the lock.    *)
Dispatch(p) == \E r \in Receipts :
    /\ At(p, "dispatching")
    /\ calls' = [calls EXCEPT ![On(p)] = @ + 1]
    /\ Become(p, [job[p] EXCEPT !.step = "received", !.receipt = r])
    /\ UNCHANGED <<role, graph, effect, incident, lock, begun, answered, admitted>>

-----------------------------------------------------------------------------
(* Reconciling: ReconcileEffectContext. Any process may ask while the      *)
(* owner role has a valid lease.                                           *)

(* Mutant: an open circuit does not stop an observation.                   *)
Unresolved(a) == incident[a].status # "resolved"

Untripped(a) == incident[a].status \in {"none", "open"}

(* Mutant: the reconcile does not take the observation lock.               *)
ReconcileUnlocked(p, a, k) ==
    /\ At(p, "idle") /\ UNCHANGED lock
    /\ <<k, a>> \notin answered /\ \A b \in Attempts \ {a} : <<k, b>> \notin begun \cup answered
    /\ effect[a] \notin {"none", "confirmed"} /\ holder # NoProc /\ caps # {}
    /\ Untripped(a)
    /\ Become(p, [Idle EXCEPT !.step = "admitting", !.on = a, !.fresh = TRUE, !.key = k])
    /\ UNCHANGED <<role, graph, effect, incident, begun, answered, history>>

ReconcileEffect(p, a, k) ==
    /\ At(p, "idle") /\ Acquire(p, a)
    /\ <<k, a>> \notin answered /\ \A b \in Attempts \ {a} : <<k, b>> \notin begun \cup answered
    /\ effect[a] \notin {"none", "confirmed"} /\ holder # NoProc /\ caps # {}
    /\ Untripped(a)
    /\ Become(p, [Idle EXCEPT !.step = "admitting", !.on = a, !.fresh = TRUE, !.key = k])
    /\ UNCHANGED <<role, graph, effect, incident, begun, answered, history>>

(* The /begin command is committed once per key: a retry of the request    *)
(* finds it, whatever the head is now, and records nothing.                *)
CommitReconciling(p) ==
    /\ At(p, "admitting") /\ HeadIs(p)
    /\ <<job[p].key, On(p)>> \notin begun
    /\ effect' = [effect EXCEPT ![On(p)] = "reconciling"]
    /\ begun' = begun \cup {<<job[p].key, On(p)>>}
    /\ admitted' = admitted \cup {On(p)}
    /\ Commit(p, [job[p] EXCEPT !.step = "asking"])
    /\ UNCHANGED <<role, graph, incident, lock, answered, calls>>

ReplayReconciling(p) ==
    /\ At(p, "admitting") /\ <<job[p].key, On(p)>> \in begun
    /\ Become(p, [job[p] EXCEPT !.step = "asking"])
    /\ UNCHANGED <<role, graph, effect, incident, lock, begun, answered, history>>

AskAdapter(p) == \E r \in Receipts :
    /\ At(p, "asking")
    /\ Become(p, [job[p] EXCEPT !.step = "received", !.receipt = r])
    /\ UNCHANGED <<role, graph, effect, incident, lock, begun, answered, history>>

-----------------------------------------------------------------------------
(* Recording a receipt: observeEffect.                                     *)

(* Mutant: the confirmed receipt leaves the incident as it is.             *)
ObservedUnresolved(i, r) ==
    IF r \in {"failed", "unknown"} THEN [i EXCEPT !.status = "open"] ELSE i

(* Mutant: the incident takes the status of the receipt.                   *)
ObservedRaw(i, r) == [i EXCEPT !.status = r]

(* The incident after a receipt: a failure or an unknown result opens it   *)
(* and later uses up its budget, only a confirmation resolves it.          *)
Observed(i, r) ==
    CASE r \in {"failed", "unknown"} /\ i.status = "none" -> [NoIncident EXCEPT !.status = "open"]
      [] r \in {"failed", "unknown"} /\ i.status # "none" ->
            [i EXCEPT !.attempts = Bump(@),
                      !.status = IF i.attempts + 1 >= AttemptBudget THEN "circuit-open" ELSE "open"]
      [] r = "confirmed" /\ i.status # "none" -> [i EXCEPT !.status = "resolved"]
      [] OTHER -> i

(* The incident is checked on a freshly loaded journal.                    *)
LoadObservation(p) ==
    /\ At(p, "received")
    /\ IF Untripped(On(p))
         THEN Become(p, [job[p] EXCEPT !.step = "observing", !.fresh = TRUE]) /\ UNCHANGED lock
         ELSE Become(p, Idle) /\ Release(p)
    /\ UNCHANGED <<role, graph, effect, incident, begun, answered, history>>

CommitObserved(p) ==
    LET a == On(p)  r == job[p].receipt  k == job[p].key IN
    /\ At(p, "observing") /\ HeadIs(p)
    /\ effect'   = [effect EXCEPT ![a] = r]
    /\ incident' = [incident EXCEPT ![a] = Observed(@, r)]
    /\ answered' = IF k = NoKey THEN answered ELSE answered \cup {<<k, a>>}
    /\ admitted' = admitted \ {a}
    /\ Commit(p, Idle) /\ Release(p)
    /\ UNCHANGED <<role, graph, begun, calls>>

-----------------------------------------------------------------------------
(* The owner role manages the incident: updateIncident waits for the       *)
(* observation lock and loads again, so one step stands for the whole      *)
(* call; a call whose append loses the race changes nothing.               *)

(* Mutant: the call does not wait for an observation under way.            *)
UpdateIncidentAtOnce(a, i) ==
    /\ holder # NoProc
    /\ incident' = [incident EXCEPT ![a] = i]
    /\ CommitAside
    /\ UNCHANGED <<role, graph, effect, lock, begun, answered, history>>

UpdateIncident(a, i) ==
    /\ lock[a] = NoProc /\ holder # NoProc
    /\ incident' = [incident EXCEPT ![a] = i]
    /\ CommitAside
    /\ UNCHANGED <<role, graph, effect, lock, begun, answered, history>>

(* A progress report; "late" when the incident's deadline has passed.      *)
ProgressIncident(a) == \E made, late \in BOOLEAN :
    LET np == IF made THEN 0 ELSE Bump(incident[a].noProgress) IN
    /\ incident[a].status = "open"
    /\ UpdateIncident(a, [status     |-> IF np >= AttemptBudget \/ late THEN "circuit-open" ELSE "open",
                          attempts   |-> Bump(incident[a].attempts),
                          noProgress |-> np])

TripIncident(a) ==
    /\ incident[a].status \in {"open", "circuit-open"}
    /\ UpdateIncident(a, [incident[a] EXCEPT !.status = "circuit-open"])

(* Disposition "retry" reopens a tripped circuit with a new budget.        *)
RetryIncident(a) ==
    /\ incident[a].status = "circuit-open"
    /\ UpdateIncident(a, [NoIncident EXCEPT !.status = "open"])

(* Every other disposition, and "retry" on an open incident, leaves the    *)
(* status and the counters alone.                                          *)
DispositionIncident(a) ==
    /\ incident[a].status \in {"open", "circuit-open"}
    /\ UpdateIncident(a, incident[a])

-----------------------------------------------------------------------------
(* Failures.                                                               *)

(* A call gives up: an error of the adapter or the journal, a lost race,   *)
(* a cancelled context, an expired reference, or the death of the process, *)
(* whose locks the operating system drops.                                 *)
Abandon(p) ==
    /\ ~At(p, "idle")
    /\ Become(p, Idle) /\ Release(p)
    /\ UNCHANGED <<role, graph, effect, incident, begun, answered, history>>


Proceed(p) ==
    \/ CommitPrepared(p) \/ AuthorizeDispatch(p) \/ CommitDispatched(p) \/ Dispatch(p)
    \/ CommitReconciling(p) \/ ReplayReconciling(p) \/ AskAdapter(p)
    \/ LoadObservation(p) \/ CommitObserved(p)

Next ==
    \/ Expire \/ UpdateRole \/ Unrelated \/ SupersedeNode
    \/ \E p \in Procs :
         \/ BindRole(p) \/ ReleaseRole(p) \/ TransferRole(p)
         \/ StartNode(p) \/ CompleteEffect(p)
         \/ PrepareEffect(p) \/ LockPrepared(p)
         \/ \E a \in Attempts, k \in Keys : ReconcileEffect(p, a, k)
         \/ Proceed(p)
         \/ Abandon(p)
    \/ \E a \in Attempts :
         ProgressIncident(a) \/ TripIncident(a) \/ RetryIncident(a) \/ DispositionIncident(a)

Spec == Init /\ [][Next]_vars

(* A job waits for the adapter: nothing bounds the time that takes.        *)
AtAdapter(p) == At(p, "dispatching") \/ At(p, "asking")

(* Outside of the adapter a call goes on to its end: every step is local   *)
(* and fails when the head has moved. The adapter may never answer.        *)
FairSpec == Spec /\ \A p \in Procs : WF_vars(~AtAdapter(p) /\ (Proceed(p) \/ Abandon(p)))

-----------------------------------------------------------------------------
(* Properties.                                                             *)

(* adapter.Dispatch runs at most once for an effect, and only after the    *)
(* dispatched command is in the journal: no crash, retry or second process *)
(* makes it run again or before its record.                                *)
DispatchedOnce ==
    \A a \in Attempts :
        /\ calls[a] <= 1
        /\ calls[a] = 1 => effect[a] \notin {"none", "prepared"}

(* Dispatch and reconcile calls of one effect never overlap.               *)
OneAdapterCall ==
    \A p, q \in Procs :
        /\ job[p].step \in {"dispatching", "asking"} /\ job[q].step \in {"dispatching", "asking"}
        /\ On(p) = On(q)
        => p = q

(* An incident is resolved exactly when its effect is confirmed, and an    *)
(* open one has budget left; nobody resolves one by hand.                  *)
ResolvedByConfirmation ==
    \A a \in Attempts :
        /\ incident[a].status = "resolved" => effect[a] = "confirmed"
        /\ effect[a] = "confirmed" => incident[a].status \in {"none", "resolved"}

(* A node that succeeded has a confirmed effect for its last attempt, also *)
(* after every later reconcile.                                            *)
SuccessIsConfirmed == node = "succeeded" => effect[att] = "confirmed"

(* Failed and unknown receipts alone never keep an incident open past its  *)
(* budget: the receipt that reaches it trips the circuit.                  *)
BudgetTrips ==
    [][\A a \in Attempts :
          /\ effect'[a] \in {"failed", "unknown"} /\ effect'[a] # effect[a]
          /\ incident[a].status = "open" /\ incident[a].attempts + 1 >= AttemptBudget
          => incident'[a].status = "circuit-open"]_vars

(* While the circuit is open no receipt and no admission is recorded, and  *)
(* only the retry disposition closes it.                                   *)
CircuitHolds ==
    [][\A a \in Attempts :
          incident[a].status = "circuit-open" /\ ~RetryIncident(a)
          => incident'[a].status = "circuit-open" /\ effect'[a] = effect[a]]_vars

(* An effect is dispatched only from its prepared record, by the process   *)
(* that holds its lock, and never once another session has taken over the  *)
(* role: the lease check and the append are bound to one head.             *)
DispatchBySession ==
    [][\A a \in Attempts :
          effect[a] # "dispatched" /\ effect'[a] = "dispatched"
          => /\ effect[a] = "prepared"
             /\ \E p \in Procs : lock[a] = p /\ holder \in {p, NoProc}]_vars

(* CONTEXT.md: every mutation rechecks both an unexpired role lease and    *)
(* the capability; here, of every command that dispatches an effect.       *)
DispatchIsCapable ==
    [][\A p \in Procs : CommitDispatched(p) => "effect.apply" \in caps]_vars

(* CONTEXT.md: each observation consumes exactly one dispatch or reconcile *)
(* admission.                                                              *)
ObservationAdmitted ==
    [][\A p \in Procs : CommitObserved(p) => On(p) \in admitted]_vars

(* Nothing but an adapter that never answers keeps an observation lock:    *)
(* whatever races its holder wins or loses, it comes to a release or to an *)
(* adapter call that does not end.                                         *)
EffectLockReleased ==
    \A a \in Attempts, p \in Procs : lock[a] = p ~> lock[a] # p \/ []AtAdapter(p)

-----------------------------------------------------------------------------
(* What the saga promises.                                                 *)

(* What a job does with the adapter, or the receipt it has in its hands.   *)
ExchangeOf(j) ==
    CASE j.step = "dispatching"             -> "dispatch"
      [] j.step = "asking"                  -> "ask"
      [] j.step \in {"received", "observing"} -> j.receipt
      [] OTHER                              -> "none"

(* The exchange of an effect is that of the process with its lock.         *)
Exchange ==
    [a \in Attempts |-> IF lock[a] # NoProc /\ On(lock[a]) = a
                          THEN ExchangeOf(job[lock[a]]) ELSE "none"]

Circuit == [a \in Attempts |-> incident[a].status]
Spent   == [a \in Attempts |-> incident[a].attempts]

Promise == INSTANCE EffectPromise WITH
    Effects  <- Attempts,
    Budget   <- AttemptBudget,
    record   <- effect,
    circuit  <- Circuit,
    spent    <- Spent,
    exchange <- Exchange

(* CONTEXT.md: dispatch, reconcile and incident mutation share one lease   *)
(* from the prepared record to the persisted receipt. The saga implements  *)
(* the effect as one object: whatever processes, leases and crashes do,    *)
(* each step is one step of the promise or is not visible.                 *)
PromiseSpec == Promise!Spec
=============================================================================
