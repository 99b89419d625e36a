--------------------------- MODULE EffectsProofs ---------------------------
(***************************************************************************)
(* Proofs about the effect saga: its safety invariants and its action      *)
(* properties hold for every number of processes, reconcile keys and       *)
(* attempts, and for every budget.                                         *)
(*                                                                         *)
(* None of them is inductive alone. The argument is about ownership: only  *)
(* the process that holds the observation lock of an effect changes it,    *)
(* and a process that works without the lock, or that relies on the lease, *)
(* is bound to the head it loaded, which every commit of another makes     *)
(* stale.                                                                  *)
(***************************************************************************)
EXTENDS Effects, TLAPS

(* What a process may rely on at each step of its call.                    *)
JobInv(p) ==
    /\ job[p].step = "preparing" => On(p) \in Attempts
    /\ job[p].step \in InLock => On(p) \in Attempts /\ lock[On(p)] = p
    /\ job[p].step \in {"preparing", "locked"} /\ job[p].fresh => effect[On(p)] = "none"
    /\ job[p].step \in {"prepared", "authorized"} => effect[On(p)] = "prepared"
    /\ job[p].step = "authorized" /\ job[p].fresh => holder \in {p, NoProc}
    /\ job[p].step = "dispatching" => effect[On(p)] = "dispatched" /\ calls[On(p)] = 0
    /\ job[p].step = "admitting" => job[p].key \in Keys
    /\ job[p].step \in {"admitting", "asking", "received", "observing"} =>
         effect[On(p)] \notin {"none", "confirmed"}
    /\ job[p].step \in {"admitting", "observing"} => Untripped(On(p))
    /\ job[p].step \in {"received", "observing"} => job[p].receipt # "none"

(* What holds of an effect whoever works on it.                            *)
EffectInv(a) ==
    /\ calls[a] \in {0, 1}
    /\ calls[a] = 1 => effect[a] \notin {"none", "prepared"}
    /\ incident[a].status # "none" => effect[a] \notin {"none", "prepared"}
    /\ incident[a].status = "resolved" => effect[a] = "confirmed"
    /\ effect[a] = "confirmed" => incident[a].status \in {"none", "resolved"}

(* A started node has an attempt, and a succeeded one a confirmed effect.  *)
NodeInv ==
    /\ node \in {"active", "succeeded"} => att \in Attempts
    /\ node = "succeeded" => effect[att] = "confirmed"

IInv == /\ TypeOK /\ NodeInv
        /\ \A p \in Procs : JobInv(p)
        /\ \A a \in Attempts : EffectInv(a)

-----------------------------------------------------------------------------
(* Jobs and how commits change them.                                       *)

(* A job whose head became stale differs in nothing else.                  *)
LEMMA StaleFacts ==
    ASSUME NEW j \in Job
    PROVE  /\ Stale(j) \in Job
           /\ Stale(j).step = j.step /\ Stale(j).on = j.on /\ Stale(j).fresh = FALSE
           /\ Stale(j).key = j.key /\ Stale(j).receipt = j.receipt
  BY DEF Stale, Job

(* The idle job.                                                           *)
LEMMA IdleFacts == /\ Idle \in Job /\ Idle.step = "idle" /\ Idle.on = 0
                   /\ Idle.fresh = FALSE /\ Idle.key = NoKey /\ Idle.receipt = "none"
  BY EffectsConstants DEF Idle, Job, JobSteps

(* CommitAside makes every loaded head stale and changes no job otherwise. *)
LEMMA CommitAsideJobs ==
    ASSUME TypeOK, CommitAside
    PROVE  /\ job' \in [Procs -> Job]
           /\ \A q \in Procs : job'[q] = Stale(job[q])
  <1>1. \A q \in Procs : Stale(job[q]) \in Job
    BY StaleFacts DEF TypeOK
  <1>2. QED
    BY <1>1 DEF CommitAside

(* Commit does so for every process but the one that commits.              *)
LEMMA CommitJobs ==
    ASSUME TypeOK, NEW p \in Procs, NEW j \in Job, Commit(p, j)
    PROVE  /\ job' \in [Procs -> Job]
           /\ job'[p] = j
           /\ \A q \in Procs \ {p} : job'[q] = Stale(job[q])
  <1>1. \A q \in Procs : Stale(job[q]) \in Job
    BY StaleFacts DEF TypeOK
  <1>2. QED
    BY <1>1 DEF Commit

(* A step without a commit leaves the other jobs alone.                    *)
LEMMA BecomeJobs ==
    ASSUME TypeOK, NEW p \in Procs, NEW j \in Job, Become(p, j)
    PROVE  /\ job' \in [Procs -> Job]
           /\ job'[p] = j
           /\ \A q \in Procs \ {p} : job'[q] = job[q]
  BY DEF Become, TypeOK

(* Release gives back the locks of one process and touches no other.       *)
LEMMA ReleaseLocks ==
    ASSUME TypeOK, NEW p \in Procs, Release(p)
    PROVE  /\ lock' \in [Attempts -> Procs \cup {NoProc}]
           /\ \A a \in Attempts : lock[a] # p => lock'[a] = lock[a]
  BY DEF Release, TypeOK

(* Acquire takes a free lock only.                                         *)
LEMMA AcquireLocks ==
    ASSUME TypeOK, NEW p \in Procs, NEW a \in Attempts, Acquire(p, a)
    PROVE  /\ lock' \in [Attempts -> Procs \cup {NoProc}]
           /\ lock[a] = NoProc /\ lock'[a] = p
           /\ \A b \in Attempts \ {a} : lock'[b] = lock[b]
  BY DEF Acquire, TypeOK

(* An idle process relies on nothing.                                      *)
LEMMA IdleJob ==
    ASSUME NEW p \in Procs, job'[p] = Idle
    PROVE  JobInv(p)'
  BY IdleFacts DEF JobInv, InLock

(* What a process under the observation lock relies on survives the commit *)
(* of another, as long as its own effect is left alone: this is where the  *)
(* head it loaded becomes stale.                                           *)
LEMMA StaleJob ==
    ASSUME TypeOK, NEW q \in Procs, JobInv(q), job'[q] = Stale(job[q]),
           job[q].step \in InLock =>
             /\ lock'[On(q)] = lock[On(q)] /\ effect'[On(q)] = effect[On(q)]
             /\ calls'[On(q)] = calls[On(q)] /\ incident'[On(q)] = incident[On(q)]
    PROVE  JobInv(q)'
  <1>1. job[q] \in Job
    BY DEF TypeOK
  <1>2. /\ job'[q].step = job[q].step /\ job'[q].on = job[q].on /\ job'[q].fresh = FALSE
        /\ job'[q].key = job[q].key /\ job'[q].receipt = job[q].receipt
    BY <1>1, StaleFacts
  <1>3. QED
    BY <1>1, <1>2 DEF JobInv, On, Untripped, InLock

(* Without a commit it survives too, when no lease passes to another.      *)
LEMMA QuietJob ==
    ASSUME TypeOK, NEW q \in Procs, JobInv(q), job'[q] = job[q],
           UNCHANGED <<effect, incident>>, holder' \in {holder, NoProc},
           job[q].step \in InLock => lock'[On(q)] = lock[On(q)] /\ calls'[On(q)] = calls[On(q)]
    PROVE  JobInv(q)'
  BY DEF JobInv, On, Untripped, InLock

(* Another process inside the observation lock works on another effect.    *)
LEMMA LockExcludes ==
    ASSUME NEW p, NEW q \in Procs, JobInv(q), NEW a, lock[a] = p, p # q,
           job[q].step \in InLock
    PROVE  On(q) # a /\ lock[On(q)] # p /\ On(q) \in Attempts
  BY DEF JobInv

(* The invariant starts true.                                              *)
LEMMA InitIInv == Init => IInv
  <1> SUFFICES ASSUME Init PROVE IInv
    OBVIOUS
  <1>1. NoIncident \in Incident /\ NoIncident.status = "none"
    BY EffectsConstants DEF NoIncident, Incident
  <1>2. TypeOK
    BY <1>1, IdleFacts, EffectsConstants DEF Init, TypeOK, Statuses
  <1>3. NodeInv
    BY DEF Init, NodeInv
  <1>4. \A p \in Procs : JobInv(p)
    BY IdleFacts DEF Init, JobInv, InLock
  <1>5. \A a \in Attempts : EffectInv(a)
    BY <1>1 DEF Init, EffectInv
  <1>6. QED
    BY <1>2, <1>3, <1>4, <1>5 DEF IInv

-----------------------------------------------------------------------------
(* Steps that touch neither the effects nor their incidents.               *)

(* Stuttering.                                                             *)
LEMMA StutterStep == ASSUME IInv, UNCHANGED vars PROVE IInv'
  BY DEF IInv, TypeOK, NodeInv, JobInv, EffectInv, On, Untripped, vars

(* The lease ends.                                                         *)
LEMMA ExpireStep == ASSUME IInv, Expire PROVE IInv'
  <1> USE DEF IInv, Expire, graph, history
  <1>1. TypeOK'
    BY DEF TypeOK
  <1>2. NodeInv' /\ \A a \in Attempts : EffectInv(a)'
    BY DEF NodeInv, EffectInv
  <1>3. \A q \in Procs : JobInv(q)'
    BY QuietJob
  <1>4. QED
    BY <1>1, <1>2, <1>3

(* A commit of a command that is not about the effect: whatever becomes of *)
(* the role and the node, what the processes rely on survives.             *)
LEMMA AsideStep ==
    ASSUME IInv, CommitAside,
           UNCHANGED <<effect, incident, lock, begun, answered, history>>,
           holder' \in Procs \cup {NoProc}, caps' \in SUBSET Capabilities,
           node' \in {"planned", "active", "succeeded", "failed", "superseded"},
           att' \in 0..MaxAttempts, NodeInv'
    PROVE  IInv'
  <1> USE DEF IInv, history
  <1>1. job' \in [Procs -> Job] /\ \A q \in Procs : job'[q] = Stale(job[q])
    BY CommitAsideJobs
  <1>2. TypeOK'
    BY <1>1 DEF TypeOK
  <1>3. \A a \in Attempts : EffectInv(a)'
    BY DEF EffectInv
  <1>4. \A q \in Procs : JobInv(q)'
    BY <1>1, StaleJob
  <1>5. QED
    BY <1>2, <1>3, <1>4

(* Binding, releasing and transferring the role, other capabilities, and   *)
(* any unrelated command.                                                  *)
LEMMA RoleStep ==
    ASSUME IInv,
           \/ UpdateRole \/ Unrelated
           \/ \E p \in Procs : BindRole(p) \/ ReleaseRole(p) \/ TransferRole(p)
    PROVE  IInv'
  <1>1. /\ CommitAside /\ UNCHANGED <<graph, effect, incident, lock, begun, answered, history>>
        /\ holder' \in Procs \cup {NoProc} /\ caps' \in SUBSET Capabilities
    BY DEF IInv, TypeOK, UpdateRole, Unrelated, BindRole, ReleaseRole, TransferRole, role
  <1>2. /\ NodeInv' /\ att' \in 0..MaxAttempts
        /\ node' \in {"planned", "active", "succeeded", "failed", "superseded"}
    BY <1>1 DEF IInv, TypeOK, NodeInv, graph
  <1>3. QED
    BY <1>1, <1>2, AsideStep

(* The node starts, completes on its receipt, or is superseded.            *)
LEMMA NodeStep ==
    ASSUME IInv, SupersedeNode \/ \E p \in Procs : StartNode(p) \/ CompleteEffect(p)
    PROVE  IInv'
  <1>1. /\ CommitAside /\ UNCHANGED <<role, effect, incident, lock, begun, answered, history>>
    BY DEF SupersedeNode, StartNode, CompleteEffect
  <1>2. holder' \in Procs \cup {NoProc} /\ caps' \in SUBSET Capabilities
    BY <1>1 DEF IInv, TypeOK, role
  <1>3. /\ NodeInv' /\ att' \in 0..MaxAttempts
        /\ node' \in {"planned", "active", "succeeded", "failed", "superseded"}
    <2>1. CASE SupersedeNode
      BY <2>1 DEF IInv, TypeOK, NodeInv, SupersedeNode
    <2>2. CASE \E p \in Procs : StartNode(p)
      BY <2>2, EffectsConstants DEF IInv, TypeOK, NodeInv, StartNode, Attempts
    <2>3. CASE \E p \in Procs : CompleteEffect(p)
      BY <2>3 DEF IInv, TypeOK, NodeInv, CompleteEffect, Consistent
    <2>4. QED
      BY <2>1, <2>2, <2>3
  <1>4. QED
    BY <1>1, <1>2, <1>3, AsideStep

-----------------------------------------------------------------------------
(* Steps of one call that leave effects and incidents alone.               *)

(* The frame of such a step: the process p changes its own job and at most *)
(* its own or a free lock.                                                 *)
LEMMA QuietStep ==
    ASSUME IInv, NEW p \in Procs, NEW j \in Job, Become(p, j),
           UNCHANGED <<role, graph, effect, incident, begun, answered, history>>,
           lock' \in [Attempts -> Procs \cup {NoProc}],
           \A a \in Attempts : lock[a] \notin {p, NoProc} => lock'[a] = lock[a],
           JobInv(p)'
    PROVE  IInv'
  <1> USE DEF IInv, role, graph, history
  <1>1. /\ job' \in [Procs -> Job]
        /\ \A q \in Procs \ {p} : job'[q] = job[q]
    BY BecomeJobs
  <1>2. TypeOK'
    BY <1>1 DEF TypeOK
  <1>3. NodeInv' /\ \A a \in Attempts : EffectInv(a)'
    BY DEF NodeInv, EffectInv
  <1>4. ASSUME NEW q \in Procs \ {p}
        PROVE  JobInv(q)'
    <2>1. job[q].step \in InLock => lock'[On(q)] = lock[On(q)]
      BY EffectsConstants DEF JobInv
    <2>2. QED
      BY <1>1, <2>1, QuietJob
  <1>5. QED
    BY <1>2, <1>3, <1>4

(* A call that ends gives its lock back.                                   *)
LEMMA GiveUpStep ==
    ASSUME IInv, NEW p \in Procs, Become(p, Idle), Release(p),
           UNCHANGED <<role, graph, effect, incident, begun, answered, history>>
    PROVE  IInv'
  <1>1. TypeOK /\ Idle \in Job
    BY IdleFacts DEF IInv
  <1>2. JobInv(p)'
    BY <1>1, BecomeJobs, IdleJob
  <1>3. QED
    BY <1>1, <1>2, ReleaseLocks, QuietStep

(* A call that fails, or a process that dies, leaves the records as they   *)
(* are.                                                                    *)
LEMMA AbandonStep == ASSUME IInv, NEW p \in Procs, Abandon(p) PROVE IInv'
  BY GiveUpStep DEF Abandon

(* The action is taken at the current head: nothing is recorded yet.       *)
LEMMA PrepareEffectStep == ASSUME IInv, NEW p \in Procs, PrepareEffect(p) PROVE IInv'
  <1> DEFINE j == [Idle EXCEPT !.step = "preparing", !.on = att, !.fresh = TRUE]
  <1>1. TypeOK /\ att \in Attempts /\ effect[att] = "none"
    BY DEF IInv, NodeInv, PrepareEffect
  <1>2. /\ j \in Job /\ j.step = "preparing" /\ j.on = att
    BY <1>1, IdleFacts DEF Job, JobSteps, TypeOK
  <1>3. Become(p, j) /\ UNCHANGED <<role, graph, effect, incident, lock, begun, answered, history>>
    BY DEF PrepareEffect
  <1> HIDE DEF j
  <1>4. job'[p] = j
    BY <1>1, <1>2, <1>3, BecomeJobs
  <1>5. JobInv(p)'
    BY <1>1, <1>2, <1>3, <1>4 DEF JobInv, On, InLock
  <1>6. QED
    BY <1>1, <1>2, <1>3, <1>5, QuietStep DEF TypeOK

(* The head and the lease are checked again under the lock.                *)
LEMMA LockPreparedStep == ASSUME IInv, NEW p \in Procs, LockPrepared(p) PROVE IInv'
  <1>1. /\ TypeOK /\ JobInv(p) /\ job[p] \in Job /\ Idle \in Job
        /\ UNCHANGED <<role, graph, effect, incident, begun, answered, history>>
    BY IdleFacts DEF IInv, TypeOK, LockPrepared
  <1>2. CASE job[p].fresh /\ holder = p
    <2> DEFINE j == [job[p] EXCEPT !.step = "locked"]
    <2>1. /\ j \in Job /\ j.step = "locked" /\ j.on = On(p) /\ j.fresh = job[p].fresh
      BY <1>1 DEF Job, JobSteps, InLock, On
    <2>2. Become(p, j) /\ Acquire(p, On(p)) /\ On(p) \in Attempts /\ effect[On(p)] = "none"
      BY <1>1, <1>2 DEF LockPrepared, JobInv, At
    <2> HIDE DEF j
    <2>3. job'[p] = j
      BY <1>1, <2>1, <2>2, BecomeJobs
    <2>4. /\ lock' \in [Attempts -> Procs \cup {NoProc}] /\ lock'[On(p)] = p
          /\ \A a \in Attempts : lock[a] \notin {p, NoProc} => lock'[a] = lock[a]
      BY <1>1, <2>2, AcquireLocks
    <2>5. JobInv(p)'
      BY <1>1, <2>1, <2>2, <2>3, <2>4 DEF JobInv, On, InLock
    <2>6. QED
      BY <1>1, <2>1, <2>2, <2>4, <2>5, QuietStep
  <1>3. CASE ~(job[p].fresh /\ holder = p)
    <2>1. Become(p, Idle) /\ UNCHANGED lock
      BY <1>3 DEF LockPrepared
    <2>2. JobInv(p)'
      BY <1>1, <2>1, BecomeJobs, IdleJob
    <2>3. QED
      BY <1>1, <2>1, <2>2, QuietStep DEF TypeOK
  <1>4. QED
    BY <1>2, <1>3

(* The lease is checked on a freshly loaded journal before the dispatch.   *)
LEMMA AuthorizeDispatchStep == ASSUME IInv, NEW p \in Procs, AuthorizeDispatch(p) PROVE IInv'
  <1>1. /\ TypeOK /\ JobInv(p) /\ job[p] \in Job /\ job[p].step = "prepared"
        /\ UNCHANGED <<role, graph, effect, incident, begun, answered, history>>
    BY DEF IInv, TypeOK, AuthorizeDispatch, At
  <1>2. CASE holder = p
    <2> DEFINE j == [job[p] EXCEPT !.step = "authorized", !.fresh = TRUE]
    <2>1. /\ j \in Job /\ j.step = "authorized" /\ j.on = On(p)
      BY <1>1 DEF Job, JobSteps, InLock, On
    <2>2. Become(p, j) /\ UNCHANGED lock
      BY <1>2 DEF AuthorizeDispatch
    <2> HIDE DEF j
    <2>3. job'[p] = j
      BY <1>1, <2>1, <2>2, BecomeJobs
    <2>4. JobInv(p)'
      BY <1>1, <1>2, <2>1, <2>2, <2>3 DEF JobInv, On, InLock, role
    <2>5. QED
      BY <1>1, <2>1, <2>2, <2>4, QuietStep DEF TypeOK
  <1>3. CASE holder # p
    BY <1>1, <1>3, GiveUpStep DEF AuthorizeDispatch
  <1>4. QED
    BY <1>2, <1>3

(* A reconcile takes the lock of an unconfirmed effect.                    *)
LEMMA ReconcileEffectStep ==
    ASSUME IInv, NEW p \in Procs, NEW a \in Attempts, NEW k \in Keys, ReconcileEffect(p, a, k)
    PROVE  IInv'
  <1> DEFINE j == [Idle EXCEPT !.step = "admitting", !.on = a, !.fresh = TRUE, !.key = k]
  <1>1. j \in Job /\ j.step = "admitting" /\ j.on = a /\ j.key = k
    <2>1. a \in 0..MaxAttempts
      BY EffectsConstants DEF Attempts
    <2>2. QED
      BY <2>1, IdleFacts DEF Job, JobSteps, InLock
  <1>2. /\ TypeOK /\ Become(p, j) /\ Acquire(p, a)
        /\ effect[a] \notin {"none", "confirmed"} /\ Untripped(a)
        /\ UNCHANGED <<role, graph, effect, incident, begun, answered, history>>
    BY DEF IInv, ReconcileEffect
  <1> HIDE DEF j
  <1>3. job'[p] = j
    BY <1>1, <1>2, BecomeJobs
  <1>4. /\ lock' \in [Attempts -> Procs \cup {NoProc}] /\ lock'[a] = p
        /\ \A b \in Attempts : lock[b] \notin {p, NoProc} => lock'[b] = lock[b]
    BY <1>2, AcquireLocks
  <1>5. JobInv(p)'
    BY <1>1, <1>2, <1>3, <1>4 DEF JobInv, On, InLock, Untripped
  <1>6. QED
    BY <1>1, <1>2, <1>4, <1>5, QuietStep

(* The begin command of this key is already in the journal.                *)
LEMMA ReplayReconcilingStep == ASSUME IInv, NEW p \in Procs, ReplayReconciling(p) PROVE IInv'
  <1> DEFINE j == [job[p] EXCEPT !.step = "asking"]
  <1>1. /\ TypeOK /\ JobInv(p) /\ job[p] \in Job /\ job[p].step = "admitting" /\ Become(p, j)
        /\ UNCHANGED <<role, graph, effect, incident, lock, begun, answered, history>>
    BY DEF IInv, TypeOK, ReplayReconciling, At
  <1>2. j \in Job /\ j.step = "asking" /\ j.on = On(p)
    BY <1>1 DEF Job, JobSteps, InLock, On
  <1> HIDE DEF j
  <1>3. job'[p] = j
    BY <1>1, <1>2, BecomeJobs
  <1>4. JobInv(p)'
    BY <1>1, <1>2, <1>3 DEF JobInv, On, InLock
  <1>5. QED
    BY <1>1, <1>2, <1>4, QuietStep DEF TypeOK

(* adapter.Reconcile answers.                                              *)
LEMMA AskAdapterStep == ASSUME IInv, NEW p \in Procs, AskAdapter(p) PROVE IInv'
  <1> PICK r \in Receipts : Become(p, [job[p] EXCEPT !.step = "received", !.receipt = r])
    BY DEF AskAdapter
  <1> DEFINE j == [job[p] EXCEPT !.step = "received", !.receipt = r]
  <1>1. /\ TypeOK /\ JobInv(p) /\ job[p] \in Job /\ job[p].step = "asking" /\ Become(p, j)
        /\ UNCHANGED <<role, graph, effect, incident, lock, begun, answered, history>>
    BY DEF IInv, TypeOK, AskAdapter, At
  <1>2. j \in Job /\ j.step = "received" /\ j.on = On(p) /\ j.receipt # "none"
    BY <1>1 DEF Job, JobSteps, InLock, On, Receipts
  <1> HIDE DEF j
  <1>3. job'[p] = j
    BY <1>1, <1>2, BecomeJobs
  <1>4. JobInv(p)'
    BY <1>1, <1>2, <1>3 DEF JobInv, On, InLock
  <1>5. QED
    BY <1>1, <1>2, <1>4, QuietStep DEF TypeOK

(* The incident is checked on a freshly loaded journal.                    *)
LEMMA LoadObservationStep == ASSUME IInv, NEW p \in Procs, LoadObservation(p) PROVE IInv'
  <1>1. /\ TypeOK /\ JobInv(p) /\ job[p] \in Job /\ job[p].step = "received"
        /\ UNCHANGED <<role, graph, effect, incident, begun, answered, history>>
    BY DEF IInv, TypeOK, LoadObservation, At
  <1>2. CASE Untripped(On(p))
    <2> DEFINE j == [job[p] EXCEPT !.step = "observing", !.fresh = TRUE]
    <2>1. j \in Job /\ j.step = "observing" /\ j.on = On(p) /\ j.receipt = job[p].receipt
      BY <1>1 DEF Job, JobSteps, InLock, On
    <2>2. Become(p, j) /\ UNCHANGED lock
      BY <1>2 DEF LoadObservation
    <2> HIDE DEF j
    <2>3. job'[p] = j
      BY <1>1, <2>1, <2>2, BecomeJobs
    <2>4. JobInv(p)'
      BY <1>1, <1>2, <2>1, <2>2, <2>3 DEF JobInv, On, InLock, Untripped
    <2>5. QED
      BY <1>1, <2>1, <2>2, <2>4, QuietStep DEF TypeOK
  <1>3. CASE ~Untripped(On(p))
    BY <1>1, <1>3, GiveUpStep DEF LoadObservation
  <1>4. QED
    BY <1>2, <1>3

-----------------------------------------------------------------------------
(* Steps that change an effect: each is made under its observation lock.   *)

(* The frame of such a step: what the other processes rely on survives.    *)
LEMMA OthersKeep ==
    ASSUME IInv, NEW p \in Procs, NEW q \in Procs \ {p}, NEW a \in Attempts,
           lock[a] = p,
           \/ job'[q] = Stale(job[q])
           \/ job'[q] = job[q] /\ UNCHANGED <<effect, incident>>,
           UNCHANGED holder,
           \A b \in Attempts : lock[b] # p => lock'[b] = lock[b],
           \A b \in Attempts \ {a} : /\ effect'[b] = effect[b] /\ calls'[b] = calls[b]
                                     /\ incident'[b] = incident[b]
    PROVE  JobInv(q)'
  <1>1. TypeOK /\ JobInv(q)
    BY DEF IInv
  <1>2. job[q].step \in InLock => On(q) \in Attempts \ {a} /\ lock[On(q)] # p
    BY <1>1, LockExcludes
  <1>3. QED
    BY <1>1, <1>2, StaleJob, QuietJob

(* The prepared effect is recorded at the head the action was taken at.    *)
LEMMA CommitPreparedStep == ASSUME IInv, NEW p \in Procs, CommitPrepared(p) PROVE IInv'
  <1> DEFINE j == [job[p] EXCEPT !.step = "prepared"]
             a == On(p)
  <1>1. /\ TypeOK /\ JobInv(p) /\ job[p] \in Job /\ job[p].step = "locked" /\ job[p].fresh
        /\ Commit(p, j) /\ UNCHANGED <<role, graph, incident, lock, begun, answered, history>>
        /\ effect' = [effect EXCEPT ![a] = "prepared"]
    BY DEF IInv, TypeOK, CommitPrepared, At, HeadIs
  <1>2. j \in Job /\ j.step = "prepared" /\ j.on = a
    BY <1>1 DEF Job, JobSteps, InLock, On
  <1>3. a \in Attempts /\ lock[a] = p /\ effect[a] = "none"
    BY <1>1 DEF JobInv, InLock
  <1>4. /\ effect' \in [Attempts -> Statuses] /\ effect'[a] = "prepared"
        /\ \A b \in Attempts \ {a} : effect'[b] = effect[b]
    BY <1>1, <1>3 DEF TypeOK, Statuses
  <1> HIDE DEF j, a
  <1>5. /\ job' \in [Procs -> Job] /\ job'[p] = j
        /\ \A q \in Procs \ {p} : job'[q] = Stale(job[q])
    BY <1>1, <1>2, CommitJobs
  <1>6. TypeOK'
    BY <1>1, <1>4, <1>5 DEF TypeOK, role, graph, history
  <1>7. NodeInv'
    BY <1>1, <1>3, <1>4 DEF IInv, NodeInv, graph
  <1>8. \A b \in Attempts : EffectInv(b)'
    BY <1>1, <1>3, <1>4 DEF IInv, EffectInv, history
  <1>9. JobInv(p)'
    BY <1>1, <1>2, <1>3, <1>4, <1>5 DEF JobInv, On, InLock
  <1>10. \A q \in Procs \ {p} : JobInv(q)'
    BY <1>1, <1>3, <1>4, <1>5, OthersKeep DEF role, history
  <1>11. QED
    BY <1>6, <1>7, <1>8, <1>9, <1>10 DEF IInv

(* The dispatch is recorded at the head the lease was checked at.          *)
LEMMA CommitDispatchedStep == ASSUME IInv, NEW p \in Procs, CommitDispatched(p) PROVE IInv'
  <1> DEFINE j == [job[p] EXCEPT !.step = "dispatching"]
             a == On(p)
  <1>1. /\ TypeOK /\ JobInv(p) /\ job[p] \in Job /\ job[p].step = "authorized" /\ job[p].fresh
        /\ Commit(p, j) /\ UNCHANGED <<role, graph, incident, lock, begun, answered, calls>>
        /\ effect' = [effect EXCEPT ![a] = "dispatched"] /\ admitted' = admitted \cup {a}
    BY DEF IInv, TypeOK, CommitDispatched, At, HeadIs
  <1>2. j \in Job /\ j.step = "dispatching" /\ j.on = a
    BY <1>1 DEF Job, JobSteps, InLock, On
  <1>3. a \in Attempts /\ lock[a] = p /\ effect[a] = "prepared"
    BY <1>1 DEF JobInv, InLock
  <1>4. /\ effect' \in [Attempts -> Statuses] /\ effect'[a] = "dispatched"
        /\ \A b \in Attempts \ {a} : effect'[b] = effect[b]
    BY <1>1, <1>3 DEF TypeOK, Statuses
  <1> HIDE DEF j, a
  <1>5. /\ job' \in [Procs -> Job] /\ job'[p] = j
        /\ \A q \in Procs \ {p} : job'[q] = Stale(job[q])
    BY <1>1, <1>2, CommitJobs
  <1>6. TypeOK'
    BY <1>1, <1>3, <1>4, <1>5 DEF TypeOK, role, graph
  <1>7. NodeInv'
    BY <1>1, <1>3, <1>4 DEF IInv, NodeInv, graph
  <1>8. (\A b \in Attempts : EffectInv(b)') /\ calls[a] = 0
    BY <1>1, <1>3, <1>4 DEF IInv, EffectInv
  <1>9. JobInv(p)'
    BY <1>1, <1>2, <1>3, <1>4, <1>5, <1>8 DEF JobInv, On, InLock
  <1>10. \A q \in Procs \ {p} : JobInv(q)'
    BY <1>1, <1>3, <1>4, <1>5, OthersKeep DEF role
  <1>11. QED
    BY <1>6, <1>7, <1>8, <1>9, <1>10 DEF IInv

(* The one call of adapter.Dispatch: its effect was never called before.   *)
LEMMA DispatchStep == ASSUME IInv, NEW p \in Procs, Dispatch(p) PROVE IInv'
  <1> PICK r \in Receipts : Become(p, [job[p] EXCEPT !.step = "received", !.receipt = r])
    BY DEF Dispatch
  <1> DEFINE j == [job[p] EXCEPT !.step = "received", !.receipt = r]
             a == On(p)
  <1>1. /\ TypeOK /\ JobInv(p) /\ job[p] \in Job /\ job[p].step = "dispatching" /\ Become(p, j)
        /\ UNCHANGED <<role, graph, effect, incident, lock, begun, answered, admitted>>
        /\ calls' = [calls EXCEPT ![a] = @ + 1]
    BY DEF IInv, TypeOK, Dispatch, At
  <1>2. j \in Job /\ j.step = "received" /\ j.on = a /\ j.receipt # "none"
    BY <1>1 DEF Job, JobSteps, InLock, On, Receipts
  <1>3. a \in Attempts /\ lock[a] = p /\ effect[a] = "dispatched" /\ calls[a] = 0
    BY <1>1 DEF JobInv, InLock
  <1>4. /\ calls' \in [Attempts -> Nat] /\ calls'[a] = 1
        /\ \A b \in Attempts \ {a} : calls'[b] = calls[b]
    BY <1>1, <1>3 DEF TypeOK
  <1> HIDE DEF j, a
  <1>5. /\ job' \in [Procs -> Job] /\ job'[p] = j
        /\ \A q \in Procs \ {p} : job'[q] = job[q]
    BY <1>1, <1>2, BecomeJobs
  <1>6. TypeOK'
    BY <1>1, <1>4, <1>5 DEF TypeOK, role, graph
  <1>7. NodeInv'
    BY <1>1 DEF IInv, NodeInv, graph
  <1>8. \A b \in Attempts : EffectInv(b)'
    BY <1>1, <1>3, <1>4 DEF IInv, EffectInv
  <1>9. JobInv(p)'
    BY <1>1, <1>2, <1>3, <1>5 DEF JobInv, On, InLock
  <1>10. \A q \in Procs \ {p} : JobInv(q)'
    BY <1>1, <1>3, <1>4, <1>5, OthersKeep DEF role
  <1>11. QED
    BY <1>6, <1>7, <1>8, <1>9, <1>10 DEF IInv

(* The begin command of a reconcile is recorded.                           *)
LEMMA CommitReconcilingStep == ASSUME IInv, NEW p \in Procs, CommitReconciling(p) PROVE IInv'
  <1> DEFINE j == [job[p] EXCEPT !.step = "asking"]
             a == On(p)
  <1>1. /\ TypeOK /\ JobInv(p) /\ job[p] \in Job /\ job[p].step = "admitting" /\ job[p].fresh
        /\ Commit(p, j) /\ UNCHANGED <<role, graph, incident, lock, answered, calls>>
        /\ effect' = [effect EXCEPT ![a] = "reconciling"] /\ admitted' = admitted \cup {a}
        /\ begun' = begun \cup {<<job[p].key, a>>}
    BY DEF IInv, TypeOK, CommitReconciling, At, HeadIs
  <1>2. j \in Job /\ j.step = "asking" /\ j.on = a
    BY <1>1 DEF Job, JobSteps, InLock, On
  <1>3. /\ a \in Attempts /\ lock[a] = p /\ effect[a] \notin {"none", "confirmed"}
        /\ job[p].key \in Keys
    BY <1>1 DEF JobInv, InLock
  <1>4. /\ effect' \in [Attempts -> Statuses] /\ effect'[a] = "reconciling"
        /\ \A b \in Attempts \ {a} : effect'[b] = effect[b]
    BY <1>1, <1>3 DEF TypeOK, Statuses, Receipts
  <1> HIDE DEF j, a
  <1>5. /\ job' \in [Procs -> Job] /\ job'[p] = j
        /\ \A q \in Procs \ {p} : job'[q] = Stale(job[q])
    BY <1>1, <1>2, CommitJobs
  <1>6. TypeOK'
    BY <1>1, <1>3, <1>4, <1>5 DEF TypeOK, role, graph
  <1>7. NodeInv'
    BY <1>1, <1>3, <1>4 DEF IInv, NodeInv, graph
  <1>8. \A b \in Attempts : EffectInv(b)'
    BY <1>1, <1>3, <1>4 DEF IInv, EffectInv
  <1>9. JobInv(p)'
    BY <1>1, <1>2, <1>3, <1>4, <1>5 DEF JobInv, On, InLock
  <1>10. \A q \in Procs \ {p} : JobInv(q)'
    BY <1>1, <1>3, <1>4, <1>5, OthersKeep DEF role
  <1>11. QED
    BY <1>6, <1>7, <1>8, <1>9, <1>10 DEF IInv

(* Counters stay within the budget.                                        *)
LEMMA BumpType == ASSUME NEW n \in 0..AttemptBudget PROVE Bump(n) \in 0..AttemptBudget
  BY EffectsConstants DEF Bump

(* What a receipt makes of an incident: only a confirmation resolves it,   *)
(* and a failed or unknown result that reaches the budget trips it.        *)
LEMMA ObservedFacts ==
    ASSUME NEW i \in Incident, NEW r \in Receipts
    PROVE  /\ Observed(i, r) \in Incident
           /\ r = "confirmed" => Observed(i, r).status \in {"none", "resolved"}
           /\ r # "confirmed" /\ i.status # "resolved" => Observed(i, r).status # "resolved"
           /\ r \in {"failed", "unknown"} /\ i.status # "none" /\ i.attempts + 1 >= AttemptBudget
                => Observed(i, r).status = "circuit-open"
  <1>1. Bump(i.attempts) \in 0..AttemptBudget
    BY BumpType DEF Incident
  <1>2. NoIncident \in Incident /\ NoIncident.status = "none"
    BY EffectsConstants DEF NoIncident, Incident
  <1>3. CASE r \in {"failed", "unknown"} /\ i.status = "none"
    <2>1. Observed(i, r) = [NoIncident EXCEPT !.status = "open"]
      BY <1>3 DEF Observed
    <2>2. QED
      BY <1>2, <1>3, <2>1 DEF Incident
  <1>4. CASE r \in {"failed", "unknown"} /\ i.status # "none"
    <2>1. Observed(i, r) =
            [i EXCEPT !.attempts = Bump(@),
                      !.status = IF i.attempts + 1 >= AttemptBudget THEN "circuit-open" ELSE "open"]
      BY <1>4 DEF Observed
    <2>2. QED
      BY <1>1, <1>4, <2>1 DEF Incident
  <1>5. CASE r = "confirmed" /\ i.status # "none"
    <2>1. Observed(i, r) = [i EXCEPT !.status = "resolved"]
      BY <1>5 DEF Observed
    <2>2. QED
      BY <1>5, <2>1 DEF Incident
  <1>6. CASE r \notin {"failed", "unknown"} /\ ~(r = "confirmed" /\ i.status # "none")
    <2>1. Observed(i, r) = i
      BY <1>6 DEF Observed
    <2>2. QED
      BY <1>6, <2>1
  <1>7. QED
    BY <1>3, <1>4, <1>5, <1>6

(* The shape of a recorded observation, used by the step and by the action *)
(* properties.                                                             *)
LEMMA ObservedShape ==
    ASSUME IInv, NEW p \in Procs, CommitObserved(p)
    PROVE  /\ On(p) \in Attempts /\ lock[On(p)] = p /\ job[p].receipt \in Receipts
           /\ effect[On(p)] \notin {"none", "confirmed"} /\ Untripped(On(p))
           /\ effect' \in [Attempts -> Statuses] /\ effect'[On(p)] = job[p].receipt
           /\ \A b \in Attempts \ {On(p)} : effect'[b] = effect[b] /\ incident'[b] = incident[b]
           /\ incident' \in [Attempts -> Incident]
           /\ incident'[On(p)] = Observed(incident[On(p)], job[p].receipt)
  <1>1. /\ TypeOK /\ JobInv(p) /\ job[p] \in Job /\ job[p].step = "observing"
        /\ effect' = [effect EXCEPT ![On(p)] = job[p].receipt]
        /\ incident' = [incident EXCEPT ![On(p)] = Observed(@, job[p].receipt)]
    BY DEF IInv, TypeOK, CommitObserved, At
  <1>2. /\ On(p) \in Attempts /\ lock[On(p)] = p /\ job[p].receipt \in Receipts
        /\ effect[On(p)] \notin {"none", "confirmed"} /\ Untripped(On(p))
    BY <1>1 DEF JobInv, InLock, Job
  <1>3. incident[On(p)] \in Incident /\ Observed(incident[On(p)], job[p].receipt) \in Incident
    BY <1>1, <1>2, ObservedFacts DEF TypeOK
  <1>4. QED
    BY <1>1, <1>2, <1>3 DEF TypeOK, Statuses

(* A receipt is recorded, and the call ends.                               *)
LEMMA CommitObservedStep == ASSUME IInv, NEW p \in Procs, CommitObserved(p) PROVE IInv'
  <1> DEFINE a == On(p)
             r == job[p].receipt
  <1>1. /\ TypeOK /\ JobInv(p) /\ job[p] \in Job
        /\ Commit(p, Idle) /\ Release(p) /\ UNCHANGED <<role, graph, begun, calls>>
        /\ answered' = (IF job[p].key = NoKey THEN answered ELSE answered \cup {<<job[p].key, a>>})
        /\ admitted' = admitted \ {a}
    BY DEF IInv, TypeOK, CommitObserved
  <1>2. /\ a \in Attempts /\ lock[a] = p /\ r \in Receipts
        /\ effect[a] \notin {"none", "confirmed"} /\ Untripped(a)
        /\ effect' \in [Attempts -> Statuses] /\ effect'[a] = r
        /\ \A b \in Attempts \ {a} : effect'[b] = effect[b] /\ incident'[b] = incident[b]
        /\ incident' \in [Attempts -> Incident] /\ incident[a] \in Incident
        /\ incident'[a] = Observed(incident[a], r)
    BY <1>1, ObservedShape DEF TypeOK
  <1>3. /\ job' \in [Procs -> Job] /\ job'[p] = Idle
        /\ \A q \in Procs \ {p} : job'[q] = Stale(job[q])
    BY <1>1, IdleFacts, CommitJobs
  <1>4. /\ lock' \in [Attempts -> Procs \cup {NoProc}]
        /\ \A b \in Attempts : lock[b] # p => lock'[b] = lock[b]
    BY <1>1, ReleaseLocks
  <1>5. answered' \in SUBSET (Keys \X Attempts)
    <2>1. job[p].key \in Keys \cup {NoKey}
      BY <1>1 DEF Job
    <2>2. QED
      BY <1>1, <1>2, <2>1 DEF TypeOK
  <1> HIDE DEF a, r
  <1>6. TypeOK'
    BY <1>1, <1>2, <1>3, <1>4, <1>5 DEF TypeOK, role, graph
  <1>7. NodeInv'
    BY <1>1, <1>2 DEF IInv, NodeInv, graph
  <1>8. ASSUME NEW b \in Attempts PROVE EffectInv(b)'
    <2>1. CASE b # a
      BY <2>1, <1>1, <1>2 DEF IInv, EffectInv
    <2>2. CASE b = a
      <3>1. r \notin {"none", "prepared"}
        BY <1>2 DEF Receipts
      <3>2. /\ r = "confirmed" => incident'[a].status \in {"none", "resolved"}
            /\ r # "confirmed" => incident'[a].status # "resolved"
        BY <1>2, ObservedFacts DEF Untripped
      <3>3. calls'[a] \in {0, 1}
        BY <1>1, <1>2 DEF IInv, EffectInv
      <3>4. QED
        BY <2>2, <3>1, <3>2, <3>3, <1>2 DEF EffectInv
    <2>3. QED
      BY <2>1, <2>2
  <1>9. JobInv(p)'
    BY <1>3, IdleJob
  <1>10. \A q \in Procs \ {p} : JobInv(q)'
    BY <1>1, <1>2, <1>3, <1>4, OthersKeep DEF role
  <1>11. QED
    BY <1>6, <1>7, <1>8, <1>9, <1>10 DEF IInv

-----------------------------------------------------------------------------
(* The owner manages an incident: nobody is inside its observation lock.   *)

ManageIncident(a) ==
    ProgressIncident(a) \/ TripIncident(a) \/ RetryIncident(a) \/ DispositionIncident(a)

(* Every management command leaves an incident that is neither new nor     *)
(* resolved, and only the retry disposition reopens a tripped one.         *)
LEMMA ManageShape ==
    ASSUME TypeOK, NEW a \in Attempts, ManageIncident(a)
    PROVE  \E i \in Incident :
             /\ UpdateIncident(a, i) /\ i.status \in {"open", "circuit-open"}
             /\ incident[a].status \in {"open", "circuit-open"}
             /\ incident[a].status = "circuit-open" /\ ~RetryIncident(a) => i.status = "circuit-open"
  <1>1. incident[a] \in Incident
    BY DEF TypeOK
  <1>2. CASE ProgressIncident(a)
    <2> PICK made \in BOOLEAN, late \in BOOLEAN :
          LET np == IF made THEN 0 ELSE Bump(incident[a].noProgress) IN
          /\ incident[a].status = "open"
          /\ UpdateIncident(a, [status     |-> IF np >= AttemptBudget \/ late THEN "circuit-open" ELSE "open",
                                attempts   |-> Bump(incident[a].attempts),
                                noProgress |-> np])
      BY <1>2 DEF ProgressIncident
    <2> DEFINE np == IF made THEN 0 ELSE Bump(incident[a].noProgress)
               st == IF np >= AttemptBudget \/ late THEN "circuit-open" ELSE "open"
               i == [status |-> st, attempts |-> Bump(incident[a].attempts), noProgress |-> np]
    <2>1. Bump(incident[a].attempts) \in 0..AttemptBudget /\ Bump(incident[a].noProgress) \in 0..AttemptBudget
      BY <1>1, BumpType DEF Incident
    <2>2. np \in 0..AttemptBudget
      BY <2>1, EffectsConstants
    <2>3. st \in {"open", "circuit-open"}
      OBVIOUS
    <2>4. UpdateIncident(a, i) /\ incident[a].status = "open"
      OBVIOUS
    <2> HIDE DEF np, st
    <2>5. i \in Incident /\ i.status = st
      BY <2>1, <2>2, <2>3 DEF Incident
    <2>6. QED
      BY <2>3, <2>4, <2>5
  <1>3. CASE TripIncident(a)
    <2> DEFINE i == [incident[a] EXCEPT !.status = "circuit-open"]
    <2>1. i \in Incident /\ i.status = "circuit-open"
      BY <1>1 DEF Incident
    <2>2. UpdateIncident(a, i) /\ incident[a].status \in {"open", "circuit-open"}
      BY <1>3 DEF TripIncident
    <2>3. QED
      BY <2>1, <2>2
  <1>4. CASE RetryIncident(a)
    <2> DEFINE i == [NoIncident EXCEPT !.status = "open"]
    <2>1. i \in Incident /\ i.status = "open"
      BY EffectsConstants DEF Incident, NoIncident
    <2>2. UpdateIncident(a, i) /\ incident[a].status = "circuit-open"
      BY <1>4 DEF RetryIncident
    <2>3. QED
      BY <2>1, <2>2, <1>4
  <1>5. CASE DispositionIncident(a)
    <2>1. UpdateIncident(a, incident[a]) /\ incident[a].status \in {"open", "circuit-open"}
      BY <1>5 DEF DispositionIncident
    <2>2. QED
      BY <1>1, <2>1
  <1>6. QED
    BY <1>2, <1>3, <1>4, <1>5 DEF ManageIncident

(* No management command touches what a running call relies on.            *)
LEMMA ManageIncidentStep == ASSUME IInv, NEW a \in Attempts, ManageIncident(a) PROVE IInv'
  <1>1. TypeOK
    BY DEF IInv
  <1>2. PICK i \in Incident :
           /\ UpdateIncident(a, i) /\ i.status \in {"open", "circuit-open"}
           /\ incident[a].status \in {"open", "circuit-open"}
    BY <1>1, ManageShape
  <1>3. /\ lock[a] = NoProc /\ CommitAside
        /\ UNCHANGED <<role, graph, effect, lock, begun, answered, history>>
        /\ incident' \in [Attempts -> Incident] /\ incident'[a] = i
        /\ \A b \in Attempts \ {a} : incident'[b] = incident[b]
    BY <1>1, <1>2 DEF UpdateIncident, TypeOK
  <1>4. job' \in [Procs -> Job] /\ \A q \in Procs : job'[q] = Stale(job[q])
    BY <1>1, <1>3, CommitAsideJobs
  <1>5. TypeOK'
    BY <1>1, <1>3, <1>4 DEF TypeOK, role, graph, history
  <1>6. NodeInv'
    BY <1>3 DEF IInv, NodeInv, graph
  <1>7. \A b \in Attempts : EffectInv(b)'
    BY <1>2, <1>3 DEF IInv, EffectInv, history
  <1>8. ASSUME NEW q \in Procs PROVE JobInv(q)'
    <2>1. JobInv(q)
      BY DEF IInv
    <2>2. job[q].step \in InLock => On(q) \in Attempts \ {a}
      BY <2>1, <1>3, EffectsConstants DEF JobInv
    <2>3. QED
      BY <1>1, <1>3, <1>4, <2>1, <2>2, StaleJob DEF history
  <1>9. QED
    BY <1>5, <1>6, <1>7, <1>8 DEF IInv

-----------------------------------------------------------------------------
(* Every step keeps the invariant.                                         *)
LEMMA NextIInv == IInv /\ [Next]_vars => IInv'
  <1> SUFFICES ASSUME IInv, [Next]_vars PROVE IInv'
    OBVIOUS
  <1>1. CASE UNCHANGED vars
    BY <1>1, StutterStep
  <1>2. CASE Expire
    BY <1>2, ExpireStep
  <1>3. CASE UpdateRole \/ Unrelated
    BY <1>3, RoleStep
  <1>4. CASE SupersedeNode
    BY <1>4, NodeStep
  <1>5. ASSUME NEW p \in Procs,
               \/ BindRole(p) \/ ReleaseRole(p) \/ TransferRole(p)
               \/ StartNode(p) \/ CompleteEffect(p)
               \/ PrepareEffect(p) \/ LockPrepared(p)
               \/ \E a \in Attempts, k \in Keys : ReconcileEffect(p, a, k)
               \/ Proceed(p)
               \/ Abandon(p)
        PROVE  IInv'
    <2>1. CASE BindRole(p) \/ ReleaseRole(p) \/ TransferRole(p)
      BY <2>1, RoleStep
    <2>2. CASE StartNode(p) \/ CompleteEffect(p)
      BY <2>2, NodeStep
    <2>3. CASE PrepareEffect(p) \/ LockPrepared(p)
      BY <2>3, PrepareEffectStep, LockPreparedStep
    <2>4. CASE \E a \in Attempts, k \in Keys : ReconcileEffect(p, a, k)
      BY <2>4, ReconcileEffectStep
    <2>5. CASE Proceed(p)
      BY <2>5, CommitPreparedStep, AuthorizeDispatchStep, CommitDispatchedStep, DispatchStep,
         CommitReconcilingStep, ReplayReconcilingStep, AskAdapterStep, LoadObservationStep,
         CommitObservedStep DEF Proceed
    <2>6. CASE Abandon(p)
      BY <2>6, AbandonStep
    <2>7. QED
      BY <1>5, <2>1, <2>2, <2>3, <2>4, <2>5, <2>6
  <1>6. ASSUME NEW a \in Attempts, ManageIncident(a)
        PROVE  IInv'
    BY <1>6, ManageIncidentStep
  <1>7. QED
    BY <1>1, <1>2, <1>3, <1>4, <1>5, <1>6 DEF Next, ManageIncident

(* The inductive invariant of the saga holds in every reachable state:     *)
(* each process owns, through the observation lock, the effect it works    *)
(* on, and knows its status at every step of effects.go.                   *)
THEOREM SagaInvariant == Spec => []IInv
  BY InitIInv, NextIInv, PTL DEF Spec

(* Every variable of the saga keeps its type.                              *)
THEOREM SagaTypeOK == Spec => []TypeOK
  <1>1. IInv => TypeOK
    BY DEF IInv
  <1>2. QED
    BY <1>1, SagaInvariant, PTL

(* adapter.Dispatch runs at most once per effect and never before its      *)
(* dispatched record (applyEffectAction), whatever crashes, retries and    *)
(* other processes do.                                                     *)
THEOREM EffectDispatchedOnce == Spec => []DispatchedOnce
  <1>1. IInv => DispatchedOnce
    BY DEF IInv, DispatchedOnce, EffectInv
  <1>2. QED
    BY <1>1, SagaInvariant, PTL

(* Dispatch and Reconcile of one effect never run at the same time: both   *)
(* are called under the effect's observation lock.                         *)
THEOREM AdapterCallsExclude == Spec => []OneAdapterCall
  <1>1. IInv => OneAdapterCall
    BY DEF IInv, OneAdapterCall, JobInv, InLock
  <1>2. QED
    BY <1>1, SagaInvariant, PTL

(* A node completed with success keeps a confirmed effect: observeEffect   *)
(* never replaces a confirmed receipt.                                     *)
THEOREM SuccessStaysConfirmed == Spec => []SuccessIsConfirmed
  <1>1. IInv => SuccessIsConfirmed
    BY DEF IInv, SuccessIsConfirmed, NodeInv
  <1>2. QED
    BY <1>1, SagaInvariant, PTL

(* An incident is resolved by a confirmed receipt and by nothing else, and *)
(* a confirmed effect has no incident that still asks for work.            *)
THEOREM IncidentsResolvedByConfirmation == Spec => []ResolvedByConfirmation
  <1>1. IInv => ResolvedByConfirmation
    BY DEF IInv, ResolvedByConfirmation, EffectInv
  <1>2. QED
    BY <1>1, SagaInvariant, PTL

-----------------------------------------------------------------------------
(* Action properties. Only three steps change an effect on the way to a    *)
(* receipt, one records the receipt, and the management commands change    *)
(* incidents only.                                                         *)

(* Who changes effects and incidents, and which way.                       *)
LEMMA WhoChanges ==
    ASSUME IInv, [Next]_vars
    PROVE  \/ UNCHANGED <<effect, incident>>
           \/ \E p \in Procs :
                /\ UNCHANGED incident /\ effect \in [Attempts -> Statuses]
                /\ \/ CommitPrepared(p)    /\ effect' = [effect EXCEPT ![On(p)] = "prepared"]
                   \/ CommitDispatched(p)  /\ effect' = [effect EXCEPT ![On(p)] = "dispatched"]
                   \/ CommitReconciling(p) /\ effect' = [effect EXCEPT ![On(p)] = "reconciling"]
           \/ \E p \in Procs : CommitObserved(p)
           \/ \E a \in Attempts : ManageIncident(a) /\ UNCHANGED effect
  <1>1. effect \in [Attempts -> Statuses]
    BY DEF IInv, TypeOK
  <1>2. CASE UNCHANGED vars
    BY <1>2 DEF vars
  <1>3. CASE Expire \/ UpdateRole \/ Unrelated \/ SupersedeNode
    BY <1>3 DEF Expire, UpdateRole, Unrelated, SupersedeNode
  <1>4. ASSUME NEW p \in Procs,
               \/ BindRole(p) \/ ReleaseRole(p) \/ TransferRole(p)
               \/ StartNode(p) \/ CompleteEffect(p) \/ PrepareEffect(p) \/ LockPrepared(p)
               \/ \E a \in Attempts, k \in Keys : ReconcileEffect(p, a, k)
               \/ Abandon(p)
        PROVE  UNCHANGED <<effect, incident>>
    <2>1. CASE BindRole(p) \/ ReleaseRole(p) \/ TransferRole(p)
      BY <2>1 DEF BindRole, ReleaseRole, TransferRole
    <2>2. CASE StartNode(p)
      BY <2>2 DEF StartNode
    <2>3. CASE CompleteEffect(p)
      BY <2>3, Zenon DEF CompleteEffect
    <2>4. CASE PrepareEffect(p) \/ LockPrepared(p) \/ Abandon(p)
      BY <2>4 DEF PrepareEffect, LockPrepared, Abandon
    <2>5. CASE \E a \in Attempts, k \in Keys : ReconcileEffect(p, a, k)
      BY <2>5 DEF ReconcileEffect
    <2>6. QED
      BY <1>4, <2>1, <2>2, <2>3, <2>4, <2>5
  <1>5. ASSUME NEW p \in Procs, Proceed(p)
        PROVE  \/ UNCHANGED <<effect, incident>>
               \/ /\ UNCHANGED incident
                  /\ \/ CommitPrepared(p)    /\ effect' = [effect EXCEPT ![On(p)] = "prepared"]
                     \/ CommitDispatched(p)  /\ effect' = [effect EXCEPT ![On(p)] = "dispatched"]
                     \/ CommitReconciling(p) /\ effect' = [effect EXCEPT ![On(p)] = "reconciling"]
               \/ CommitObserved(p)
    <2>1. CASE CommitPrepared(p) \/ CommitDispatched(p) \/ CommitReconciling(p)
      BY <2>1 DEF CommitPrepared, CommitDispatched, CommitReconciling
    <2>2. CASE AuthorizeDispatch(p) \/ ReplayReconciling(p) \/ LoadObservation(p)
      BY <2>2 DEF AuthorizeDispatch, ReplayReconciling, LoadObservation
    <2>3. CASE Dispatch(p) \/ AskAdapter(p)
      BY <2>3 DEF Dispatch, AskAdapter
    <2>4. CASE CommitObserved(p)
      BY <2>4
    <2>5. QED
      BY <1>5, <2>1, <2>2, <2>3, <2>4 DEF Proceed
  <1>6. ASSUME NEW a \in Attempts, ManageIncident(a)
        PROVE  UNCHANGED effect
    <2>1. TypeOK
      BY DEF IInv
    <2>2. QED
      BY <1>6, <2>1, ManageShape DEF UpdateIncident
  <1>7. QED
    BY <1>1, <1>2, <1>3, <1>4, <1>5, <1>6 DEF Next, ManageIncident

(* A dispatched record is written only over a prepared one, by the process *)
(* that holds the observation lock, while no other session holds the role. *)
THEOREM DispatchedBySession == Spec => DispatchBySession
  <1> DEFINE A == \A a \in Attempts :
          effect[a] # "dispatched" /\ effect'[a] = "dispatched"
          => /\ effect[a] = "prepared"
             /\ \E p \in Procs : lock[a] = p /\ holder \in {p, NoProc}
  <1>1. IInv /\ [Next]_vars => A
    <2> SUFFICES ASSUME IInv, [Next]_vars, NEW a \in Attempts,
                        effect[a] # "dispatched", effect'[a] = "dispatched"
                 PROVE  /\ effect[a] = "prepared"
                        /\ \E p \in Procs : lock[a] = p /\ holder \in {p, NoProc}
      OBVIOUS
    <2>1. ASSUME NEW p \in Procs, effect \in [Attempts -> Statuses],
                 \/ CommitPrepared(p)    /\ effect' = [effect EXCEPT ![On(p)] = "prepared"]
                 \/ CommitDispatched(p)  /\ effect' = [effect EXCEPT ![On(p)] = "dispatched"]
                 \/ CommitReconciling(p) /\ effect' = [effect EXCEPT ![On(p)] = "reconciling"]
          PROVE  CommitDispatched(p) /\ On(p) = a
      BY <2>1
    <2>2. ASSUME NEW p \in Procs, CommitDispatched(p), On(p) = a
          PROVE  effect[a] = "prepared" /\ lock[a] = p /\ holder \in {p, NoProc}
      BY <2>2 DEF IInv, JobInv, CommitDispatched, At, HeadIs, InLock
    <2>3. ASSUME NEW p \in Procs, CommitObserved(p)
          PROVE  FALSE
      BY <2>3, ObservedShape DEF Receipts
    <2>4. QED
      BY <2>1, <2>2, <2>3, WhoChanges
  <1>2. A => [A]_vars
    OBVIOUS
  <1>3. QED
    BY <1>1, SagaInvariant, PTL DEF Spec, DispatchBySession

(* The failed or unknown receipt that uses up an incident's budget trips   *)
(* its circuit, in the same commit.                                        *)
THEOREM BudgetAlwaysTrips == Spec => BudgetTrips
  <1> DEFINE A == \A a \in Attempts :
          /\ effect'[a] \in {"failed", "unknown"} /\ effect'[a] # effect[a]
          /\ incident[a].status = "open" /\ incident[a].attempts + 1 >= AttemptBudget
          => incident'[a].status = "circuit-open"
  <1>1. IInv /\ [Next]_vars => A
    <2> SUFFICES ASSUME IInv, [Next]_vars, NEW a \in Attempts,
                        effect'[a] \in {"failed", "unknown"}, effect'[a] # effect[a],
                        incident[a].status = "open", incident[a].attempts + 1 >= AttemptBudget
                 PROVE  incident'[a].status = "circuit-open"
      OBVIOUS
    <2>1. ASSUME NEW p \in Procs, effect \in [Attempts -> Statuses],
                 \/ effect' = [effect EXCEPT ![On(p)] = "prepared"]
                 \/ effect' = [effect EXCEPT ![On(p)] = "dispatched"]
                 \/ effect' = [effect EXCEPT ![On(p)] = "reconciling"]
          PROVE  FALSE
      BY <2>1
    <2>2. ASSUME NEW p \in Procs, CommitObserved(p)
          PROVE  incident'[a].status = "circuit-open"
      <3>1. On(p) = a /\ job[p].receipt \in {"failed", "unknown"}
        BY <2>2, ObservedShape
      <3>2. incident[a] \in Incident /\ job[p].receipt \in Receipts
        BY <2>2, ObservedShape DEF IInv, TypeOK
      <3>3. incident'[a] = Observed(incident[a], job[p].receipt)
        BY <2>2, <3>1, ObservedShape
      <3>4. QED
        BY <3>1, <3>2, <3>3, ObservedFacts
    <2>3. QED
      BY <2>1, <2>2, WhoChanges
  <1>2. A => [A]_vars
    OBVIOUS
  <1>3. QED
    BY <1>1, SagaInvariant, PTL DEF Spec, BudgetTrips

(* While a circuit is open nothing is recorded about its effect, and only  *)
(* the retry disposition of updateIncident closes it.                      *)
THEOREM CircuitAlwaysHolds == Spec => CircuitHolds
  <1> DEFINE A == \A a \in Attempts :
          incident[a].status = "circuit-open" /\ ~RetryIncident(a)
          => incident'[a].status = "circuit-open" /\ effect'[a] = effect[a]
  <1>1. IInv /\ [Next]_vars => A
    <2> SUFFICES ASSUME IInv, [Next]_vars, NEW a \in Attempts,
                        incident[a].status = "circuit-open", ~RetryIncident(a)
                 PROVE  incident'[a].status = "circuit-open" /\ effect'[a] = effect[a]
      OBVIOUS
    <2>1. effect[a] \notin {"none", "prepared"}
      BY DEF IInv, EffectInv
    <2>2. ASSUME NEW p \in Procs, effect \in [Attempts -> Statuses],
                 \/ CommitPrepared(p)    /\ effect' = [effect EXCEPT ![On(p)] = "prepared"]
                 \/ CommitDispatched(p)  /\ effect' = [effect EXCEPT ![On(p)] = "dispatched"]
                 \/ CommitReconciling(p) /\ effect' = [effect EXCEPT ![On(p)] = "reconciling"]
          PROVE  effect'[a] = effect[a]
      <3>1. JobInv(p)
        BY DEF IInv
      <3>2. CASE CommitPrepared(p)
        <4>1. effect[On(p)] = "none"
          BY <3>1, <3>2 DEF JobInv, CommitPrepared, At, HeadIs
        <4>2. QED
          BY <2>1, <2>2, <4>1
      <3>3. CASE CommitDispatched(p)
        <4>1. effect[On(p)] = "prepared"
          BY <3>1, <3>3 DEF JobInv, CommitDispatched, At
        <4>2. QED
          BY <2>1, <2>2, <4>1
      <3>4. CASE CommitReconciling(p)
        <4>1. Untripped(On(p))
          BY <3>1, <3>4 DEF JobInv, CommitReconciling, At
        <4>2. On(p) # a
          BY <4>1 DEF Untripped
        <4>3. QED
          BY <2>2, <4>2
      <3>5. QED
        BY <2>2, <3>2, <3>3, <3>4
    <2>3. ASSUME NEW p \in Procs, CommitObserved(p)
          PROVE  incident'[a] = incident[a] /\ effect'[a] = effect[a]
      <3>1. On(p) # a
        BY <2>3, ObservedShape DEF Untripped
      <3>2. QED
        BY <2>3, <3>1, ObservedShape
    <2>4. ASSUME NEW b \in Attempts, ManageIncident(b), UNCHANGED effect
          PROVE  incident'[a].status = "circuit-open" /\ effect'[a] = effect[a]
      <3>1. TypeOK
        BY DEF IInv
      <3>2. PICK i \in Incident :
               /\ UpdateIncident(b, i)
               /\ incident[b].status = "circuit-open" /\ ~RetryIncident(b) => i.status = "circuit-open"
        BY <2>4, <3>1, ManageShape
      <3>3. /\ incident'[b] = i
            /\ b # a => incident'[a] = incident[a]
        BY <3>1, <3>2 DEF UpdateIncident, TypeOK
      <3>4. QED
        BY <2>4, <3>2, <3>3
    <2>5. QED
      BY <2>2, <2>3, <2>4, WhoChanges
  <1>2. A => [A]_vars
    OBVIOUS
  <1>3. QED
    BY <1>1, SagaInvariant, PTL DEF Spec, CircuitHolds
=============================================================================
