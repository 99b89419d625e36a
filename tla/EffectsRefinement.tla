------------------------- MODULE EffectsRefinement -------------------------
(***************************************************************************)
(* The saga of effects.go implements EffectPromise: seen through the       *)
(* records in the journal and the adapter, an effect is one object, in use *)
(* by one exchange at a time. The exchange is that of the process with the *)
(* observation lock; the lock keeps its record and its incident still, and *)
(* the invariant of EffectsProofs says what the process knows of them.     *)
(***************************************************************************)
EXTENDS EffectsProofs

(* A question to the adapter, or an answer to one, is about an effect that *)
(* was recorded as dispatched or asked about. A retried request relies on  *)
(* the /begin command of the first.                                        *)
Asking   == {"asking", "received", "observing"}
OnRecord(a) == effect[a] \notin {"none", "prepared"}
AskedInv ==
    /\ \A k \in Keys, a \in Attempts : <<k, a>> \in begun => OnRecord(a)
    /\ \A p \in Procs : job[p].step \in Asking => OnRecord(On(p))

-----------------------------------------------------------------------------
(* What is asked about is on record.                                       *)

(* A record that left "prepared" behind never comes back to it.            *)
LEMMA RecordStays ==
    ASSUME IInv, [Next]_vars, NEW a \in Attempts, OnRecord(a)
    PROVE  OnRecord(a)'
  <1>1. ASSUME NEW p \in Procs, effect \in [Attempts -> Statuses],
               \/ CommitPrepared(p)    /\ effect' = [effect EXCEPT ![On(p)] = "prepared"]
               \/ CommitDispatched(p)  /\ effect' = [effect EXCEPT ![On(p)] = "dispatched"]
               \/ CommitReconciling(p) /\ effect' = [effect EXCEPT ![On(p)] = "reconciling"]
        PROVE  OnRecord(a)'
    <2>1. CASE CommitPrepared(p) /\ effect' = [effect EXCEPT ![On(p)] = "prepared"]
      <3>1. effect[On(p)] = "none"
        BY <2>1 DEF CommitPrepared, At, HeadIs, IInv, JobInv
      <3>2. QED
        BY <1>1, <2>1, <3>1 DEF OnRecord
    <2>2. QED
      BY <1>1, <2>1 DEF OnRecord
  <1>2. ASSUME NEW p \in Procs, CommitObserved(p)
        PROVE  OnRecord(a)'
    BY <1>2, ObservedShape DEF OnRecord, Receipts
  <1>3. CASE UNCHANGED effect
    BY <1>3 DEF OnRecord
  <1>4. QED
    BY <1>1, <1>2, <1>3, WhoChanges

(* A job that another process makes stale, or that a step leaves alone, is *)
(* at the same step on the same effect.                                    *)
Same(q) == job'[q].step = job[q].step /\ job'[q].on = job[q].on
           /\ job'[q].receipt = job[q].receipt

LEMMA OthersSame ==
    ASSUME TypeOK, NEW p \in Procs, NEW j \in Job, Commit(p, j) \/ Become(p, j)
    PROVE  job'[p] = j /\ \A q \in Procs \ {p} : Same(q)
  <1>1. \A q \in Procs : job[q] \in Job
    BY DEF TypeOK
  <1>2. CASE Commit(p, j)
    <2>1. job'[p] = j /\ \A q \in Procs \ {p} : job'[q] = Stale(job[q])
      BY <1>2, CommitJobs
    <2>2. QED
      BY <1>1, <2>1, StaleFacts DEF Same
  <1>3. CASE Become(p, j)
    BY <1>3, BecomeJobs DEF Same
  <1>4. QED
    BY <1>2, <1>3

LEMMA AllSame ==
    ASSUME TypeOK, CommitAside \/ UNCHANGED job
    PROVE  \A q \in Procs : Same(q)
  <1>1. \A q \in Procs : job[q] \in Job
    BY DEF TypeOK
  <1>2. QED
    BY <1>1, CommitAsideJobs, StaleFacts DEF Same

(* The steps of a call, in the form that both invariants below use: what   *)
(* the job of the process becomes.                                         *)
Moves(p, step) == job'[p].step = step /\ job'[p].on = job[p].on /\ \A q \in Procs \ {p} : Same(q)

LEMMA CallMoves ==
    ASSUME TypeOK, NEW p \in Procs
    PROVE  /\ CommitPrepared(p)    => Moves(p, "prepared")
           /\ CommitDispatched(p)  => Moves(p, "dispatching")
           /\ CommitReconciling(p) => Moves(p, "asking")
           /\ ReplayReconciling(p) => Moves(p, "asking")
           /\ Dispatch(p) \/ AskAdapter(p) => Moves(p, "received") /\ job'[p].receipt \in Receipts
           /\ CommitObserved(p) => job'[p] = Idle /\ \A q \in Procs \ {p} : Same(q)
  <1>1. job[p] \in Job /\ Idle \in Job
    BY IdleFacts DEF TypeOK
  <1>2. ASSUME NEW s \in JobSteps, NEW j \in Job, j.step = s, j.on = job[p].on,
               Commit(p, j) \/ Become(p, j)
        PROVE  Moves(p, s)
    BY <1>2, OthersSame DEF Moves
  <1>3. ASSUME NEW s \in JobSteps
        PROVE  /\ [job[p] EXCEPT !.step = s] \in Job
               /\ [job[p] EXCEPT !.step = s].step = s
               /\ [job[p] EXCEPT !.step = s].on = job[p].on
    BY <1>1 DEF Job
  <1>4. ASSUME NEW r \in Receipts
        PROVE  /\ [job[p] EXCEPT !.step = "received", !.receipt = r] \in Job
               /\ [job[p] EXCEPT !.step = "received", !.receipt = r].step = "received"
               /\ [job[p] EXCEPT !.step = "received", !.receipt = r].receipt = r
               /\ [job[p] EXCEPT !.step = "received", !.receipt = r].on = job[p].on
    BY <1>1 DEF Job, JobSteps, InLock
  <1>5. {"prepared", "dispatching", "asking", "received"} \subseteq JobSteps
    BY DEF JobSteps, InLock
  <1>6. CommitPrepared(p) => Moves(p, "prepared")
    BY <1>2, <1>3, <1>5 DEF CommitPrepared
  <1>7. CommitDispatched(p) => Moves(p, "dispatching")
    BY <1>2, <1>3, <1>5 DEF CommitDispatched
  <1>8. CommitReconciling(p) \/ ReplayReconciling(p) => Moves(p, "asking")
    BY <1>2, <1>3, <1>5 DEF CommitReconciling, ReplayReconciling
  <1>9. ASSUME Dispatch(p) \/ AskAdapter(p)
        PROVE  Moves(p, "received") /\ job'[p].receipt \in Receipts
    <2>1. PICK r \in Receipts : Become(p, [job[p] EXCEPT !.step = "received", !.receipt = r])
      BY <1>9 DEF Dispatch, AskAdapter
    <2>2. QED
      BY <1>2, <1>4, <1>5, <2>1, OthersSame
  <1>10. CommitObserved(p) => job'[p] = Idle /\ \A q \in Procs \ {p} : Same(q)
    BY <1>1, OthersSame DEF CommitObserved
  <1>11. QED
    BY <1>6, <1>7, <1>8, <1>9, <1>10

(* The other steps: what a process has asked or been answered before.      *)
QuietCall(p) ==
    \/ BindRole(p) \/ ReleaseRole(p) \/ TransferRole(p)
    \/ StartNode(p) \/ CompleteEffect(p)
    \/ PrepareEffect(p) \/ LockPrepared(p) \/ AuthorizeDispatch(p)
    \/ \E a \in Attempts, k \in Keys : ReconcileEffect(p, a, k)

(* A step that neither asks nor answers ends outside of the exchange.      *)
LEMMA QuietMoves ==
    ASSUME TypeOK, NEW p \in Procs, QuietCall(p)
    PROVE  /\ UNCHANGED <<effect, incident, begun, calls>>
           /\ \A q \in Procs \ {p} : Same(q)
           /\ \/ Same(p)
              \/ job'[p].step \in {"idle", "preparing", "locked", "authorized", "admitting"}
                 /\ job[p].step \in {"idle", "preparing", "prepared"}
  <1>1. job[p] \in Job /\ Idle \in Job /\ Idle.step = "idle"
    BY IdleFacts DEF TypeOK
  <1>2. CASE BindRole(p) \/ ReleaseRole(p) \/ TransferRole(p) \/ StartNode(p)
    BY <1>2, AllSame DEF BindRole, ReleaseRole, TransferRole, StartNode, history
  <1>3. CASE CompleteEffect(p)
    <2>1. CommitAside /\ UNCHANGED <<effect, incident, begun, history>>
      BY <1>3, Zenon DEF CompleteEffect
    <2>2. QED
      BY <2>1, AllSame DEF history
  <1>4. CASE PrepareEffect(p)
    <2> DEFINE j == [Idle EXCEPT !.step = "preparing", !.on = att, !.fresh = TRUE]
    <2>1. j \in Job /\ j.step = "preparing"
      BY <1>1 DEF Job, JobSteps, TypeOK
    <2>2. Become(p, j) /\ job[p].step = "idle"
      BY <1>4 DEF PrepareEffect, At
    <2> HIDE DEF j
    <2>3. QED
      BY <1>4, <2>1, <2>2, OthersSame DEF PrepareEffect, history
  <1>5. CASE LockPrepared(p)
    <2> DEFINE j == [job[p] EXCEPT !.step = "locked"]
    <2>1. j \in Job /\ j.step = "locked"
      BY <1>1 DEF Job, JobSteps, InLock
    <2>2. (Become(p, j) \/ Become(p, Idle)) /\ job[p].step = "preparing"
      BY <1>5 DEF LockPrepared, At
    <2> HIDE DEF j
    <2>3. QED
      BY <1>1, <1>5, <2>1, <2>2, OthersSame DEF LockPrepared, history
  <1>6. CASE AuthorizeDispatch(p)
    <2> DEFINE j == [job[p] EXCEPT !.step = "authorized", !.fresh = TRUE]
    <2>1. j \in Job /\ j.step = "authorized"
      BY <1>1 DEF Job, JobSteps, InLock
    <2>2. (Become(p, j) \/ Become(p, Idle)) /\ job[p].step = "prepared"
      BY <1>6 DEF AuthorizeDispatch, At
    <2> HIDE DEF j
    <2>3. QED
      BY <1>1, <1>6, <2>1, <2>2, OthersSame DEF AuthorizeDispatch, history
  <1>7. ASSUME NEW a \in Attempts, NEW k \in Keys, ReconcileEffect(p, a, k)
        PROVE  /\ UNCHANGED <<effect, incident, begun, calls>>
               /\ \A q \in Procs \ {p} : Same(q)
               /\ job'[p].step = "admitting" /\ job[p].step = "idle"
    <2> DEFINE j == [Idle EXCEPT !.step = "admitting", !.on = a, !.fresh = TRUE, !.key = k]
    <2>0. a \in 0..MaxAttempts
      BY EffectsConstants DEF Attempts
    <2>1. j \in Job /\ j.step = "admitting"
      BY <1>1, <2>0 DEF Job, JobSteps, InLock
    <2>2. Become(p, j) /\ job[p].step = "idle"
      BY <1>7 DEF ReconcileEffect, At
    <2> HIDE DEF j
    <2>3. QED
      BY <1>7, <2>1, <2>2, OthersSame DEF ReconcileEffect, history
  <1>8. QED
    BY <1>2, <1>3, <1>4, <1>5, <1>6, <1>7 DEF QuietCall

(* A call ends, or a receipt is about to be recorded.                      *)
LEMMA EndingMoves ==
    ASSUME TypeOK, NEW p \in Procs, Abandon(p) \/ LoadObservation(p)
    PROVE  /\ UNCHANGED <<effect, incident, begun, calls>>
           /\ \A q \in Procs \ {p} : Same(q)
           /\ \/ job'[p] = Idle /\ Release(p)
              \/ /\ job[p].step = "received" /\ job'[p].step = "observing" /\ lock' = lock
                 /\ job'[p].on = job[p].on /\ job'[p].receipt = job[p].receipt
  <1>1. job[p] \in Job /\ Idle \in Job
    BY IdleFacts DEF TypeOK
  <1> DEFINE j == [job[p] EXCEPT !.step = "observing", !.fresh = TRUE]
  <1>2. j \in Job /\ j.step = "observing" /\ j.on = job[p].on /\ j.receipt = job[p].receipt
    BY <1>1 DEF Job, JobSteps, InLock
  <1>3. /\ UNCHANGED <<effect, incident, begun, calls>>
        /\ \/ Become(p, Idle) /\ Release(p)
           \/ Become(p, j) /\ job[p].step = "received" /\ lock' = lock
    BY DEF Abandon, LoadObservation, At, history
  <1> HIDE DEF j
  <1>4. QED
    BY <1>1, <1>2, <1>3, OthersSame

(* A step on one's own effect leaves what the others rely on.              *)
LEMMA OthersAsked ==
    ASSUME IInv, AskedInv, [Next]_vars, NEW q \in Procs, Same(q)
    PROVE  job'[q].step \in Asking => OnRecord(On(q))'
  <1>1. JobInv(q)
    BY DEF IInv
  <1>2. SUFFICES ASSUME job[q].step \in Asking PROVE OnRecord(On(q))'
    BY DEF Same
  <1>3. On(q) \in Attempts /\ OnRecord(On(q))
    BY <1>1, <1>2 DEF JobInv, AskedInv, Asking, InLock
  <1>4. On(q)' = On(q)
    BY DEF Same, On
  <1>5. QED
    BY <1>3, <1>4, RecordStays DEF OnRecord

LEMMA AskedKept == IInv /\ AskedInv /\ [Next]_vars => AskedInv'
  <1> SUFFICES ASSUME IInv, AskedInv, [Next]_vars PROVE AskedInv'
    OBVIOUS
  <1>1. TypeOK
    BY DEF IInv
  <1>2. ASSUME NEW p \in Procs, \A q \in Procs \ {p} : Same(q), begun' = begun,
               job'[p].step \in Asking => OnRecord(On(p))'
        PROVE  AskedInv'
    <2>1. \A q \in Procs : job'[q].step \in Asking => OnRecord(On(q))'
      BY <1>2, OthersAsked
    <2>2. \A k \in Keys, a \in Attempts : <<k, a>> \in begun' => OnRecord(a)'
      BY <1>2, RecordStays DEF AskedInv
    <2>3. QED
      BY <2>1, <2>2 DEF AskedInv
  <1>3. ASSUME \A q \in Procs : Same(q), begun' = begun
        PROVE  AskedInv'
    <2>1. \A q \in Procs : job'[q].step \in Asking => OnRecord(On(q))'
      BY <1>3, OthersAsked
    <2>2. \A k \in Keys, a \in Attempts : <<k, a>> \in begun' => OnRecord(a)'
      BY <1>3, RecordStays DEF AskedInv
    <2>3. QED
      BY <2>1, <2>2 DEF AskedInv
  <1>4. CASE UNCHANGED vars
    BY <1>1, <1>3, <1>4, AllSame DEF vars
  <1>5. CASE Expire \/ UpdateRole \/ Unrelated \/ SupersedeNode
    BY <1>1, <1>3, <1>5, AllSame DEF Expire, UpdateRole, Unrelated, SupersedeNode
  <1>6. ASSUME NEW a \in Attempts, ManageIncident(a)
        PROVE  AskedInv'
    <2>1. CommitAside /\ begun' = begun
      BY <1>1, <1>6, ManageShape DEF UpdateIncident
    <2>2. QED
      BY <1>1, <1>3, <2>1, AllSame
  <1>7. ASSUME NEW p \in Procs, QuietCall(p)
        PROVE  AskedInv'
    <2>1. CASE Same(p)
      BY <1>1, <1>3, <1>7, <2>1, QuietMoves
    <2>2. CASE ~Same(p)
      BY <1>1, <1>2, <1>7, <2>2, QuietMoves DEF Asking
    <2>3. QED
      BY <2>1, <2>2
  <1>8. ASSUME NEW p \in Procs, Abandon(p) \/ LoadObservation(p)
        PROVE  AskedInv'
    <2>1. CASE job'[p] = Idle
      BY <1>1, <1>2, <1>8, <2>1, EndingMoves, IdleFacts DEF Asking
    <2>2. CASE job'[p] # Idle
      <3>1. job[p].step = "received" /\ On(p)' = On(p) /\ JobInv(p)
        BY <1>1, <1>8, <2>2, EndingMoves DEF On, IInv
      <3>2. OnRecord(On(p)) /\ effect' = effect
        BY <1>1, <1>8, <3>1, EndingMoves DEF AskedInv, Asking
      <3>3. OnRecord(On(p))'
        BY <3>1, <3>2 DEF OnRecord
      <3>4. QED
        BY <1>1, <1>2, <1>8, <3>3, EndingMoves
    <2>3. QED
      BY <2>1, <2>2
  <1>9. ASSUME NEW p \in Procs, Proceed(p), ~AuthorizeDispatch(p), ~LoadObservation(p)
        PROVE  AskedInv'
    <2>1. JobInv(p) /\ job[p] \in Job /\ effect \in [Attempts -> Statuses]
      BY <1>1 DEF IInv, TypeOK
    <2>2. CASE CommitPrepared(p) \/ CommitDispatched(p)
      BY <1>1, <1>2, <2>2, CallMoves DEF Moves, Asking, CommitPrepared, CommitDispatched
    <2>3. CASE CommitReconciling(p)
      <3>1. /\ On(p) \in Attempts /\ On(p)' = On(p)
            /\ effect' = [effect EXCEPT ![On(p)] = "reconciling"]
            /\ begun' = begun \cup {<<job[p].key, On(p)>>}
        BY <1>1, <2>1, <2>3, CallMoves DEF CommitReconciling, JobInv, At, InLock, Moves, On
      <3>2. OnRecord(On(p))'
        BY <2>1, <3>1 DEF OnRecord
      <3>3. effect'[On(p)] = "reconciling"
        BY <2>1, <3>1
      <3>4. \A k \in Keys, a \in Attempts : <<k, a>> \in begun' => OnRecord(a)'
        <4> TAKE k \in Keys, a \in Attempts
        <4>1. CASE <<k, a>> \in begun
          BY <4>1, RecordStays DEF AskedInv
        <4>2. CASE a = On(p)
          BY <3>3, <4>2 DEF OnRecord
        <4>3. QED
          BY <3>1, <4>1, <4>2
      <3>5. \A q \in Procs \ {p} : job'[q].step \in Asking => OnRecord(On(q))'
        BY <1>1, <2>3, CallMoves, OthersAsked DEF Moves
      <3>6. QED
        BY <3>2, <3>4, <3>5 DEF AskedInv
    <2>4. CASE ReplayReconciling(p)
      <3>1. /\ <<job[p].key, On(p)>> \in begun /\ On(p) \in Attempts /\ job[p].key \in Keys
            /\ effect' = effect /\ begun' = begun /\ On(p)' = On(p)
        BY <1>1, <2>1, <2>4, CallMoves DEF ReplayReconciling, JobInv, At, InLock, Moves, On
      <3>2. OnRecord(On(p))'
        BY <3>1 DEF AskedInv, OnRecord
      <3>3. QED
        BY <1>1, <1>2, <2>4, <3>1, <3>2, CallMoves DEF Moves
    <2>5. CASE Dispatch(p) \/ AskAdapter(p)
      <3>1. effect' = effect /\ begun' = begun /\ job[p].step \in {"dispatching", "asking"}
        BY <2>5 DEF Dispatch, AskAdapter, At
      <3>2. OnRecord(On(p)) /\ On(p)' = On(p)
        BY <1>1, <2>1, <2>5, <3>1, CallMoves DEF JobInv, AskedInv, Asking, OnRecord, Moves, On
      <3>3. OnRecord(On(p))'
        BY <3>1, <3>2 DEF OnRecord
      <3>4. QED
        BY <1>1, <1>2, <2>5, <3>1, <3>3, CallMoves DEF Moves
    <2>6. CASE CommitObserved(p)
      BY <1>1, <1>2, <2>6, CallMoves, IdleFacts DEF Asking, CommitObserved
    <2>7. QED
      BY <1>9, <2>2, <2>3, <2>4, <2>5, <2>6 DEF Proceed
  <1>10. QED
    BY <1>4, <1>5, <1>6, <1>7, <1>8, <1>9 DEF Next, QuietCall, Proceed, ManageIncident

LEMMA AskedFirst == Init => AskedInv
  <1> SUFFICES ASSUME Init PROVE AskedInv
    OBVIOUS
  <1>1. begun = {} /\ \A p \in Procs : job[p] = Idle
    BY DEF Init
  <1>2. QED
    BY <1>1, IdleFacts DEF AskedInv, Asking

(* A receipt is recorded only for an effect that was on record as          *)
(* dispatched or asked about before the adapter heard of it.               *)
THEOREM AskedIsRecorded == Spec => [](IInv /\ AskedInv)
  BY AskedFirst, AskedKept, InitIInv, NextIInv, PTL DEF Spec

-----------------------------------------------------------------------------
(* The exchange of each effect, before and after a step.                   *)

LEMMA ExchangeAt ==
    ASSUME NEW a \in Attempts
    PROVE  Exchange[a] = IF lock[a] # NoProc /\ On(lock[a]) = a
                           THEN ExchangeOf(job[lock[a]]) ELSE "none"
  BY DEF Exchange

LEMMA ExchangeAtNext ==
    ASSUME NEW a \in Attempts
    PROVE  Exchange'[a] = IF lock'[a] # NoProc /\ job'[lock'[a]].on = a
                            THEN ExchangeOf(job'[lock'[a]]) ELSE "none"
  BY DEF Exchange, On

(* The process with the lock has the exchange.                             *)
LEMMA ExchangeOwn ==
    ASSUME IInv, NEW p \in Procs, job[p].step \in InLock
    PROVE  /\ On(p) \in Attempts /\ lock[On(p)] = p
           /\ Exchange[On(p)] = ExchangeOf(job[p])
  <1>1. On(p) \in Attempts /\ lock[On(p)] = p
    BY DEF IInv, JobInv
  <1>2. QED
    BY <1>1, ExchangeAt, EffectsConstants

(* The same process is at the same point of the exchange.                  *)
LEMMA SameExchange ==
    ASSUME NEW q \in Procs, Same(q)
    PROVE  ExchangeOf(job'[q]) = ExchangeOf(job[q]) /\ On(q)' = On(q)
  BY DEF Same, ExchangeOf, On

(* An effect keeps its exchange when a step of p leaves its lock alone, or *)
(* moves the lock while p has no exchange.                                 *)
LEMMA ExchangeKept ==
    ASSUME TypeOK, TypeOK', NEW p \in Procs, \A q \in Procs \ {p} : Same(q), NEW b \in Attempts,
           lock'[b] = lock[b] \/ (lock[b] \in {p, NoProc} /\ lock'[b] \in {p, NoProc}),
           lock[b] = p /\ On(p) = b => ExchangeOf(job[p]) = "none",
           lock'[b] = p /\ On(p)' = b => ExchangeOf(job'[p]) = "none"
    PROVE  Exchange'[b] = Exchange[b]
  <1>1. lock[b] \in Procs \cup {NoProc} /\ lock'[b] \in Procs \cup {NoProc}
    BY DEF TypeOK
  <1>2. CASE lock[b] \in {p, NoProc} /\ lock'[b] \in {p, NoProc}
    <2>1. Exchange[b] = "none"
      BY <1>2, ExchangeAt
    <2>2. lock'[b] = p => job'[p].on # b \/ ExchangeOf(job'[p]) = "none"
      BY DEF On
    <2>3. Exchange'[b] = IF lock'[b] # NoProc /\ job'[lock'[b]].on = b
                           THEN ExchangeOf(job'[lock'[b]]) ELSE "none"
      BY ExchangeAtNext
    <2>4. Exchange'[b] = "none"
      BY <1>2, <2>2, <2>3
    <2>5. QED
      BY <2>1, <2>4
  <1>3. CASE lock[b] \notin {p, NoProc}
    <2>1. lock'[b] = lock[b] /\ lock[b] \in Procs \ {p} /\ lock[b] # NoProc
      BY <1>1, <1>3
    <2> DEFINE q == lock[b]
    <2>2. ExchangeOf(job'[q]) = ExchangeOf(job[q]) /\ (job'[q]).on = job[q].on
      BY <2>1, SameExchange DEF Same
    <2>3. Exchange[b] = IF job[q].on = b THEN ExchangeOf(job[q]) ELSE "none"
      BY <2>1, ExchangeAt DEF On
    <2>4. Exchange'[b] = IF job'[q].on = b THEN ExchangeOf(job'[q]) ELSE "none"
      BY <2>1, ExchangeAtNext DEF On
    <2>5. QED
      BY <2>2, <2>3, <2>4
  <1>4. QED
    BY <1>1, <1>2, <1>3

LEMMA SameFunction ==
    (\A b \in Attempts : Exchange'[b] = Exchange[b]) => Exchange' = Exchange
  BY DEF Exchange

LEMMA ExchangeDomain ==
    /\ DOMAIN Exchange = Attempts /\ DOMAIN Exchange' = Attempts
    /\ Exchange = [a \in Attempts |-> Exchange[a]] /\ Exchange' = [a \in Attempts |-> Exchange'[a]]
  BY DEF Exchange

(* Nobody's exchange moves.                                                *)
LEMMA NoExchangeMoves ==
    ASSUME TypeOK, TypeOK', lock' = lock, \A q \in Procs : Same(q)
    PROVE  Exchange' = Exchange
  <1>1. ASSUME NEW b \in Attempts
        PROVE  Exchange'[b] = Exchange[b]
    <2>1. lock[b] \in Procs \cup {NoProc}
      BY DEF TypeOK
    <2>2. CASE lock[b] = NoProc
      BY <2>2, ExchangeAt, ExchangeAtNext
    <2>3. CASE lock[b] # NoProc
      <3>1. lock[b] \in Procs /\ lock'[b] = lock[b]
        BY <2>1, <2>3
      <3>2. ExchangeOf(job'[lock[b]]) = ExchangeOf(job[lock[b]])
            /\ job'[lock[b]].on = job[lock[b]].on
        BY <3>1, SameExchange DEF Same
      <3>3. Exchange[b] = IF job[lock[b]].on = b THEN ExchangeOf(job[lock[b]]) ELSE "none"
        BY <2>3, ExchangeAt DEF On
      <3>4. Exchange'[b] = IF job'[lock[b]].on = b THEN ExchangeOf(job'[lock[b]]) ELSE "none"
        BY <2>3, <3>1, ExchangeAtNext DEF On
      <3>5. QED
        BY <3>2, <3>3, <3>4
    <2>4. QED
      BY <2>2, <2>3
  <1>2. QED
    BY <1>1, SameFunction

(* A call moves on under its lock: only its own effect can see it.         *)
LEMMA OwnExchangeMoves ==
    ASSUME IInv, IInv', NEW p \in Procs, NEW s \in InLock, Moves(p, s), lock' = lock,
           job[p].step \in InLock
    PROVE  Exchange' = [Exchange EXCEPT ![On(p)] = ExchangeOf(job'[p])]
  <1>1. TypeOK /\ TypeOK' /\ On(p) \in Attempts /\ lock[On(p)] = p /\ On(p)' = On(p)
    BY ExchangeOwn DEF IInv, Moves, On
  <1>2. \A b \in Attempts \ {On(p)} : Exchange'[b] = Exchange[b]
    BY <1>1, ExchangeKept DEF Moves
  <1>3. Exchange'[On(p)] = ExchangeOf(job'[p])
    <2>1. lock'[On(p)] = p /\ p # NoProc /\ job'[p].on = On(p)
      BY <1>1, EffectsConstants DEF On
    <2> DEFINE a == On(p)
    <2>2. a \in Attempts /\ lock'[a] = p /\ p # NoProc /\ job'[p].on = a
      BY <1>1, <2>1
    <2> HIDE DEF a
    <2>3. Exchange'[a] = ExchangeOf(job'[p])
      BY <2>2, ExchangeAtNext
    <2>4. QED
      BY <2>3 DEF a
  <1>4. QED
    BY <1>2, <1>3, ExchangeDomain

(* A call ends: if it was in an exchange, that one ends.                   *)
LEMMA ExchangeEnds ==
    ASSUME IInv, IInv', NEW p \in Procs, job'[p] = Idle, \A q \in Procs \ {p} : Same(q),
           Release(p)
    PROVE  \/ Exchange' = Exchange /\ ExchangeOf(job[p]) = "none"
           \/ /\ On(p) \in Attempts /\ Exchange[On(p)] = ExchangeOf(job[p])
              /\ ExchangeOf(job[p]) # "none"
              /\ Exchange' = [Exchange EXCEPT ![On(p)] = "none"]
  <1>1. TypeOK /\ TypeOK' /\ ExchangeOf(job'[p]) = "none"
    BY IdleFacts DEF IInv, ExchangeOf
  <1>2. \A b \in Attempts : lock'[b] = lock[b] \/ (lock[b] = p /\ lock'[b] = NoProc)
    BY <1>1 DEF Release, TypeOK
  <1>3. CASE ExchangeOf(job[p]) = "none"
    <2>1. \A b \in Attempts : Exchange'[b] = Exchange[b]
      BY <1>1, <1>2, <1>3, ExchangeKept
    <2>2. QED
      BY <1>3, <2>1, SameFunction
  <1>4. CASE ExchangeOf(job[p]) # "none"
    <2>1. job[p].step \in InLock
      BY <1>4 DEF ExchangeOf, InLock
    <2>2. On(p) \in Attempts /\ lock[On(p)] = p /\ Exchange[On(p)] = ExchangeOf(job[p])
      BY <2>1, ExchangeOwn
    <2>3. \A b \in Attempts \ {On(p)} : Exchange'[b] = Exchange[b]
      BY <1>1, <1>2, ExchangeKept
    <2>4. lock'[On(p)] = NoProc
      BY <1>1, <2>2 DEF Release, TypeOK
    <2>5. Exchange'[On(p)] = "none"
      BY <2>2, <2>4, ExchangeAtNext
    <2>6. QED
      BY <1>4, <2>2, <2>3, <2>5, ExchangeDomain
  <1>5. QED
    BY <1>3, <1>4

-----------------------------------------------------------------------------
(* The steps.                                                              *)

PromiseStep == [Promise!Next]_(Promise!vars)

LEMMA CircuitFacts ==
    /\ \A a \in Attempts : Circuit[a] = incident[a].status /\ Spent[a] = incident[a].attempts
    /\ incident' = incident => Circuit' = Circuit /\ Spent' = Spent
  BY DEF Circuit, Spent

(* One incident changes: so does its status, and what it has spent.        *)
LEMMA CircuitMoves ==
    ASSUME NEW e \in Attempts, \A b \in Attempts \ {e} : incident'[b] = incident[b]
    PROVE  /\ Circuit' = [Circuit EXCEPT ![e] = incident'[e].status]
           /\ Spent' = [Spent EXCEPT ![e] = incident'[e].attempts]
           /\ incident'[e].status = incident[e].status => Circuit' = Circuit
           /\ incident'[e].attempts = incident[e].attempts => Spent' = Spent
  BY DEF Circuit, Spent

LEMMA SpendIsBump == \A n : Promise!Spend(n) = Bump(n)
  BY DEF Promise!Spend, Bump

LEMMA Invisible ==
    ASSUME UNCHANGED <<effect, incident, calls>>, Exchange' = Exchange
    PROVE  PromiseStep
  BY CircuitFacts DEF PromiseStep, Promise!vars

LEMMA CommitPreparedRefines ==
    ASSUME IInv, IInv', NEW p \in Procs, CommitPrepared(p)
    PROVE  PromiseStep
  <1> DEFINE e == On(p)
  <1>1. TypeOK /\ JobInv(p) /\ job[p].step = "locked" /\ job[p].fresh
    BY DEF IInv, CommitPrepared, At, HeadIs
  <1>2. /\ e \in Attempts /\ Exchange[e] = "none" /\ effect[e] = "none"
        /\ effect' = [effect EXCEPT ![e] = "prepared"] /\ UNCHANGED <<incident, calls>>
    BY <1>1, ExchangeOwn DEF InLock, ExchangeOf, JobInv, CommitPrepared, history
  <1>3. Exchange' = [Exchange EXCEPT ![e] = "none"]
    <2>1. Moves(p, "prepared") /\ lock' = lock
      BY <1>1, CallMoves DEF CommitPrepared
    <2>2. ExchangeOf(job'[p]) = "none"
      BY <2>1 DEF Moves, ExchangeOf
    <2>3. QED
      BY <1>1, <2>1, <2>2, OwnExchangeMoves DEF InLock
  <1> HIDE DEF e
  <1>4. Exchange' = Exchange
    BY <1>2, <1>3, ExchangeDomain
  <1>5. Promise!Prepare(e)
    BY <1>2, <1>4, CircuitFacts DEF Promise!Prepare, Promise!Free
  <1>6. QED
    BY <1>2, <1>5 DEF PromiseStep, Promise!Next

LEMMA CommitDispatchedRefines ==
    ASSUME IInv, IInv', NEW p \in Procs, CommitDispatched(p)
    PROVE  PromiseStep
  <1> DEFINE e == On(p)
  <1>1. TypeOK /\ JobInv(p) /\ job[p].step = "authorized"
    BY DEF IInv, CommitDispatched, At
  <1>2. /\ e \in Attempts /\ Exchange[e] = "none" /\ effect[e] = "prepared"
        /\ effect' = [effect EXCEPT ![e] = "dispatched"] /\ UNCHANGED <<incident, calls>>
    BY <1>1, ExchangeOwn DEF InLock, ExchangeOf, JobInv, CommitDispatched
  <1>3. Exchange' = [Exchange EXCEPT ![e] = "dispatch"]
    <2>1. Moves(p, "dispatching") /\ lock' = lock
      BY <1>1, CallMoves DEF CommitDispatched
    <2>2. ExchangeOf(job'[p]) = "dispatch"
      BY <2>1 DEF Moves, ExchangeOf
    <2>3. QED
      BY <1>1, <2>1, <2>2, OwnExchangeMoves DEF InLock
  <1> HIDE DEF e
  <1>4. Promise!Dispatch(e)
    BY <1>2, <1>3, CircuitFacts DEF Promise!Dispatch, Promise!Free
  <1>5. QED
    BY <1>2, <1>4 DEF PromiseStep, Promise!Next

(* A reconcile, or the retry of one, asks about an effect on record.       *)
LEMMA ReconcilingRefines ==
    ASSUME IInv, IInv', AskedInv, NEW p \in Procs, CommitReconciling(p) \/ ReplayReconciling(p)
    PROVE  PromiseStep
  <1> DEFINE e == On(p)
  <1>1. TypeOK /\ JobInv(p) /\ job[p].step = "admitting" /\ job[p].key \in Keys
    BY DEF IInv, JobInv, CommitReconciling, ReplayReconciling, At
  <1>2. /\ e \in Attempts /\ Exchange[e] = "none" /\ effect[e] \notin {"none", "confirmed"}
        /\ Untripped(e) /\ UNCHANGED <<incident, calls>>
    BY <1>1, ExchangeOwn DEF InLock, ExchangeOf, JobInv, CommitReconciling, ReplayReconciling,
                             history
  <1>3. Exchange' = [Exchange EXCEPT ![e] = "ask"]
    <2>1. Moves(p, "asking") /\ lock' = lock
      BY <1>1, CallMoves DEF CommitReconciling, ReplayReconciling
    <2>2. ExchangeOf(job'[p]) = "ask"
      BY <2>1 DEF Moves, ExchangeOf
    <2>3. QED
      BY <1>1, <2>1, <2>2, OwnExchangeMoves DEF InLock
  <1>4. \/ effect' = [effect EXCEPT ![e] = "reconciling"]
        \/ effect[e] # "prepared" /\ effect' = effect
    BY <1>1, <1>2 DEF CommitReconciling, ReplayReconciling, AskedInv, OnRecord
  <1> HIDE DEF e
  <1>5. Circuit[e] \in {"none", "open"}
    BY <1>2, CircuitFacts DEF Untripped
  <1>6. Promise!Ask(e)
    BY <1>2, <1>3, <1>4, <1>5, CircuitFacts DEF Promise!Ask, Promise!Free
  <1>7. QED
    BY <1>2, <1>6 DEF PromiseStep, Promise!Next

(* The adapter acts once, after the dispatched record; or it answers.      *)
LEMMA AnswerRefines ==
    ASSUME IInv, IInv', NEW p \in Procs, Dispatch(p) \/ AskAdapter(p)
    PROVE  PromiseStep
  <1> DEFINE e == On(p)
             r == job'[p].receipt
  <1>1. TypeOK /\ JobInv(p) /\ job[p].step \in {"dispatching", "asking"}
    BY DEF IInv, Dispatch, AskAdapter, At
  <1>2. /\ e \in Attempts /\ Exchange[e] = ExchangeOf(job[p]) /\ UNCHANGED <<effect, incident>>
    BY <1>1, ExchangeOwn DEF InLock, Dispatch, AskAdapter
  <1>3. Moves(p, "received") /\ r \in Receipts /\ lock' = lock
    BY <1>1, CallMoves DEF Dispatch, AskAdapter
  <1>4. Exchange' = [Exchange EXCEPT ![e] = r]
    <2>1. ExchangeOf(job'[p]) = r
      BY <1>3 DEF Moves, ExchangeOf
    <2>2. QED
      BY <1>1, <1>3, <2>1, OwnExchangeMoves DEF InLock
  <1>5. \/ Exchange[e] = "dispatch" /\ calls[e] = 0 /\ calls' = [calls EXCEPT ![e] = 1]
        \/ Exchange[e] = "ask" /\ UNCHANGED calls
    <2>1. CASE Dispatch(p)
      <3>1. job[p].step = "dispatching" /\ calls' = [calls EXCEPT ![e] = @ + 1]
        BY <2>1 DEF Dispatch, At
      <3>2. calls[e] = 0
        BY <1>1, <3>1 DEF JobInv
      <3>3. QED
        BY <1>2, <3>1, <3>2 DEF ExchangeOf
    <2>2. CASE AskAdapter(p)
      BY <1>2, <2>2 DEF AskAdapter, At, ExchangeOf, history
    <2>3. QED
      BY <2>1, <2>2
  <1> HIDE DEF e, r
  <1>6. r \in Promise!Receipts
    BY <1>3 DEF Promise!Receipts, Receipts
  <1>7. Promise!Answer(e)
    BY <1>2, <1>4, <1>5, <1>6, CircuitFacts DEF Promise!Answer
  <1>8. QED
    BY <1>2, <1>7 DEF PromiseStep, Promise!Next

(* What a receipt makes of an incident without an open circuit is what the *)
(* promise says of it.                                                     *)
LEMMA ObservedJudges ==
    ASSUME NEW e \in Attempts, NEW r \in Receipts, incident[e] \in Incident,
           incident[e].status \in {"none", "open"},
           \A b \in Attempts \ {e} : incident'[b] = incident[b],
           incident'[e] = Observed(incident[e], r)
    PROVE  Promise!Judge(e, r)
  <1> DEFINE i == incident[e]
             n == Observed(i, r)
  <1>1. /\ Circuit[e] = i.status /\ Spent[e] = i.attempts
        /\ Circuit' = [Circuit EXCEPT ![e] = n.status] /\ Spent' = [Spent EXCEPT ![e] = n.attempts]
        /\ n.status = i.status => Circuit' = Circuit
        /\ n.attempts = i.attempts => Spent' = Spent
    BY CircuitFacts, CircuitMoves
  <1>2. i \in Incident /\ i.status \in {"none", "open"}
    OBVIOUS
  <1>3. Spent' = [Spent EXCEPT ![e] = n.attempts] /\ n.attempts = Bump(i.attempts)
           => Spent' = [Spent EXCEPT ![e] = Promise!Spend(@)]
    BY <1>1, SpendIsBump
  <1>4. CASE r \in {"failed", "unknown"} /\ i.status = "none"
    <2>1. n.status = "open" /\ n.attempts = 0
      BY <1>4 DEF Observed, NoIncident
    <2> HIDE DEF i, n
    <2>2. QED
      BY <1>1, <1>4, <2>1 DEF Promise!Judge
  <1>5. CASE r \in {"failed", "unknown"} /\ i.status = "open"
    <2>1. n = [i EXCEPT !.attempts = Bump(@),
                        !.status = IF i.attempts + 1 >= AttemptBudget THEN "circuit-open" ELSE "open"]
      BY <1>5 DEF Observed
    <2>2. /\ n.status = IF i.attempts + 1 >= AttemptBudget THEN "circuit-open" ELSE "open"
          /\ n.attempts = Bump(i.attempts)
      BY <1>2, <2>1 DEF Incident
    <2> HIDE DEF i, n
    <2>3. QED
      BY <1>1, <1>3, <1>5, <2>2 DEF Promise!Judge
  <1>6. CASE r = "confirmed" /\ i.status = "open"
    <2>1. n.status = "resolved" /\ n.attempts = i.attempts
      BY <1>2, <1>6 DEF Observed, Incident
    <2> HIDE DEF i, n
    <2>2. QED
      BY <1>1, <1>6, <2>1 DEF Promise!Judge
  <1>7. CASE r = "reconciling" \/ (r = "confirmed" /\ i.status = "none")
    <2>1. n = i
      BY <1>7 DEF Observed
    <2> HIDE DEF i, n
    <2>2. QED
      BY <1>1, <1>7, <2>1 DEF Promise!Judge
  <1>8. QED
    BY <1>2, <1>4, <1>5, <1>6, <1>7 DEF Receipts

(* The receipt and what it means for the incident go on record together,   *)
(* and the exchange is over.                                               *)
LEMMA CommitObservedRefines ==
    ASSUME IInv, IInv', AskedInv, NEW p \in Procs, CommitObserved(p)
    PROVE  PromiseStep
  <1> DEFINE e == On(p)
             r == job[p].receipt
  <1>1. /\ TypeOK /\ job[p].step = "observing" /\ job'[p] = Idle
        /\ \A q \in Procs \ {p} : Same(q)
        /\ Release(p) /\ calls' = calls /\ effect' = [effect EXCEPT ![e] = r]
    BY CallMoves DEF IInv, CommitObserved, At
  <1>2. /\ e \in Attempts /\ r \in Receipts /\ effect[e] # "confirmed" /\ Untripped(e)
        /\ \A b \in Attempts \ {e} : incident'[b] = incident[b]
        /\ incident'[e] = Observed(incident[e], r)
    BY ObservedShape
  <1>3. effect[e] \notin {"none", "prepared", "confirmed"}
    BY <1>1, <1>2 DEF AskedInv, Asking, OnRecord
  <1>4. Exchange[e] = r /\ Exchange' = [Exchange EXCEPT ![e] = "none"]
    <2>1. ExchangeOf(job[p]) = r
      BY <1>1 DEF ExchangeOf
    <2>2. r # "none"
      BY <1>2 DEF Receipts
    <2>3. QED
      BY <1>1, <2>1, <2>2, ExchangeEnds
  <1>5. incident[e] \in Incident /\ Circuit[e] = incident[e].status /\ Circuit[e] \in {"none", "open"}
    BY <1>1, <1>2, CircuitFacts DEF TypeOK, Untripped
  <1>6. Promise!Judge(e, r)
    BY <1>2, <1>5, ObservedJudges, CircuitFacts
  <1>7. r \in Promise!Receipts
    BY <1>2 DEF Promise!Receipts, Receipts
  <1> HIDE DEF e, r
  <1>8. Promise!Observe(e)
    BY <1>1, <1>3, <1>4, <1>5, <1>6, <1>7 DEF Promise!Observe
  <1>9. QED
    BY <1>2, <1>8 DEF PromiseStep, Promise!Next

(* A call that ends without a receipt ends its exchange, if it had one.    *)
LEMMA EndingRefines ==
    ASSUME IInv, IInv', NEW p \in Procs, Abandon(p) \/ LoadObservation(p)
    PROVE  PromiseStep
  <1>1. TypeOK
    BY DEF IInv
  <1>2. CASE job'[p] = Idle /\ Release(p)
    <2>1. CASE Exchange' = Exchange
      BY <1>1, <2>1, EndingMoves, Invisible
    <2>2. CASE Exchange' # Exchange
      <3> DEFINE e == On(p)
      <3>1. e \in Attempts /\ Exchange[e] # "none" /\ Exchange' = [Exchange EXCEPT ![e] = "none"]
        BY <1>1, <1>2, <2>2, EndingMoves, ExchangeEnds
      <3>2. UNCHANGED <<effect, incident, calls>>
        BY <1>1, EndingMoves
      <3> HIDE DEF e
      <3>3. Promise!GiveUp(e)
        BY <3>1, <3>2, CircuitFacts DEF Promise!GiveUp, Promise!Free
      <3>4. QED
        BY <3>1, <3>3 DEF PromiseStep, Promise!Next
    <2>3. QED
      BY <2>1, <2>2
  <1>3. CASE ~(job'[p] = Idle /\ Release(p))
    <2>1. /\ job[p].step = "received" /\ lock' = lock /\ Moves(p, "observing")
          /\ job'[p].receipt = job[p].receipt /\ UNCHANGED <<effect, incident, calls>>
      BY <1>1, <1>3, EndingMoves DEF Moves
    <2>2. ExchangeOf(job'[p]) = ExchangeOf(job[p])
      BY <2>1 DEF ExchangeOf, Moves
    <2>3. /\ On(p) \in Attempts /\ Exchange[On(p)] = ExchangeOf(job[p])
          /\ Exchange' = [Exchange EXCEPT ![On(p)] = ExchangeOf(job[p])]
      BY <2>1, <2>2, ExchangeOwn, OwnExchangeMoves DEF InLock
    <2>4. Exchange' = Exchange
      BY <2>3, ExchangeDomain
    <2>5. QED
      BY <2>1, <2>4, Invisible
  <1>4. QED
    BY <1>2, <1>3

(* Whoever manages an incident has waited for the exchange to end.         *)
LEMMA ManageRefines ==
    ASSUME IInv, IInv', NEW a \in Attempts, ManageIncident(a)
    PROVE  PromiseStep
  <1>1. TypeOK /\ TypeOK' /\ incident[a] \in Incident
    BY DEF IInv, TypeOK
  <1>2. ASSUME NEW i, UpdateIncident(a, i)
        PROVE  /\ UNCHANGED <<effect, calls>> /\ Exchange' = Exchange /\ Exchange[a] = "none"
               /\ incident' = [incident EXCEPT ![a] = i] /\ incident'[a] = i
               /\ \A b \in Attempts \ {a} : incident'[b] = incident[b]
    <2>1. /\ lock[a] = NoProc /\ incident' = [incident EXCEPT ![a] = i] /\ CommitAside
          /\ UNCHANGED <<effect, lock, calls>>
      BY <1>2 DEF UpdateIncident, history
    <2>2. QED
      BY <1>1, <2>1, AllSame, NoExchangeMoves, ExchangeAt DEF TypeOK
  <1>3. CASE ProgressIncident(a)
    <2>1. PICK i : /\ UpdateIncident(a, i) /\ incident[a].status = "open"
                   /\ i.status \in {"open", "circuit-open"}
                   /\ i.attempts = Bump(incident[a].attempts)
      BY <1>3 DEF ProgressIncident
    <2>2. /\ Circuit' = [Circuit EXCEPT ![a] = i.status] /\ Spent' = [Spent EXCEPT ![a] = i.attempts]
          /\ i.attempts = Promise!Spend(Spent[a]) /\ Circuit[a] = "open"
      BY <1>2, <2>1, CircuitFacts, CircuitMoves, SpendIsBump
    <2>3. Promise!Report(a)
      BY <1>2, <2>1, <2>2 DEF Promise!Report, Promise!Free
    <2>4. QED
      BY <2>3 DEF PromiseStep, Promise!Next
  <1>4. CASE TripIncident(a)
    <2> DEFINE i == [incident[a] EXCEPT !.status = "circuit-open"]
    <2>1. /\ UpdateIncident(a, i) /\ incident[a].status \in {"open", "circuit-open"}
          /\ i.status = "circuit-open" /\ i.attempts = incident[a].attempts
      BY <1>1, <1>4 DEF TripIncident, Incident
    <2> HIDE DEF i
    <2>2. /\ Circuit' = [Circuit EXCEPT ![a] = "circuit-open"] /\ Spent' = Spent
          /\ Circuit[a] = incident[a].status
          /\ incident[a].status = "circuit-open" => Circuit' = Circuit
      BY <1>2, <2>1, CircuitFacts, CircuitMoves
    <2>3. CASE incident[a].status = "open"
      <3>1. Promise!Trip(a)
        BY <1>2, <2>1, <2>2, <2>3 DEF Promise!Trip, Promise!Free
      <3>2. QED
        BY <3>1 DEF PromiseStep, Promise!Next
    <2>4. CASE incident[a].status = "circuit-open"
      BY <1>2, <2>1, <2>2, <2>4 DEF PromiseStep, Promise!vars
    <2>5. QED
      BY <2>1, <2>3, <2>4
  <1>5. CASE RetryIncident(a)
    <2> DEFINE i == [NoIncident EXCEPT !.status = "open"]
    <2>1. /\ UpdateIncident(a, i) /\ incident[a].status = "circuit-open"
          /\ i.status = "open" /\ i.attempts = 0
      BY <1>5 DEF RetryIncident, NoIncident
    <2> HIDE DEF i
    <2>2. /\ Circuit' = [Circuit EXCEPT ![a] = "open"] /\ Spent' = [Spent EXCEPT ![a] = 0]
          /\ Circuit[a] = "circuit-open"
      BY <1>2, <2>1, CircuitFacts, CircuitMoves
    <2>3. Promise!Retry(a)
      BY <1>2, <2>1, <2>2 DEF Promise!Retry, Promise!Free
    <2>4. QED
      BY <2>3 DEF PromiseStep, Promise!Next
  <1>6. CASE DispositionIncident(a)
    <2>1. UpdateIncident(a, incident[a])
      BY <1>6 DEF DispositionIncident
    <2>2. Circuit' = Circuit /\ Spent' = Spent
      BY <1>2, <2>1, CircuitMoves
    <2>3. QED
      BY <1>2, <2>1, <2>2 DEF PromiseStep, Promise!vars
  <1>7. QED
    BY <1>3, <1>4, <1>5, <1>6 DEF ManageIncident

(* Roles, the node and the beginning of a call cannot be seen.             *)
LEMMA QuietLock ==
    ASSUME TypeOK, NEW p \in Procs, QuietCall(p), NEW b \in Attempts
    PROVE  lock'[b] = lock[b] \/ (lock[b] \in {p, NoProc} /\ lock'[b] \in {p, NoProc})
  <1>1. CASE BindRole(p) \/ ReleaseRole(p) \/ TransferRole(p) \/ StartNode(p) \/ PrepareEffect(p)
    BY <1>1 DEF BindRole, ReleaseRole, TransferRole, StartNode, PrepareEffect
  <1>2. CASE CompleteEffect(p)
    BY <1>2, Zenon DEF CompleteEffect
  <1>3. CASE LockPrepared(p)
    BY <1>3 DEF LockPrepared, Acquire, TypeOK
  <1>4. CASE AuthorizeDispatch(p)
    BY <1>4 DEF AuthorizeDispatch, Release, TypeOK
  <1>5. ASSUME NEW a \in Attempts, NEW k \in Keys, ReconcileEffect(p, a, k)
        PROVE  lock'[b] = lock[b] \/ (lock[b] \in {p, NoProc} /\ lock'[b] \in {p, NoProc})
    BY <1>5 DEF ReconcileEffect, Acquire, TypeOK
  <1>6. QED
    BY <1>1, <1>2, <1>3, <1>4, <1>5 DEF QuietCall

LEMMA QuietRefines ==
    ASSUME IInv, IInv', NEW p \in Procs, QuietCall(p)
    PROVE  PromiseStep
  <1>1. TypeOK /\ TypeOK'
    BY DEF IInv
  <1>2. /\ UNCHANGED <<effect, incident, calls>> /\ \A q \in Procs \ {p} : Same(q)
        /\ Same(p) \/ (ExchangeOf(job[p]) = "none" /\ ExchangeOf(job'[p]) = "none")
    BY <1>1, QuietMoves DEF ExchangeOf
  <1>3. CASE ~Same(p)
    <2>1. \A b \in Attempts : Exchange'[b] = Exchange[b]
      BY <1>1, <1>2, <1>3, QuietLock, ExchangeKept
    <2>2. QED
      BY <1>2, <2>1, SameFunction, Invisible
  <1>4. CASE Same(p)
    <2>1. CASE lock' = lock
      BY <1>1, <1>2, <1>4, <2>1, NoExchangeMoves, Invisible
    <2>2. CASE lock' # lock
      <3>1. LockPrepared(p) \/ AuthorizeDispatch(p)
            \/ \E a \in Attempts, k \in Keys : ReconcileEffect(p, a, k)
        <4>1. CompleteEffect(p) => lock' = lock
          BY Zenon DEF CompleteEffect
        <4>2. QED
          BY <2>2, <4>1 DEF QuietCall, BindRole, ReleaseRole, TransferRole, StartNode, PrepareEffect
      <3>2. job[p].step \in {"idle", "preparing", "prepared"}
        BY <3>1 DEF LockPrepared, AuthorizeDispatch, ReconcileEffect, At
      <3>3. ExchangeOf(job[p]) = "none" /\ ExchangeOf(job'[p]) = "none"
        BY <1>4, <3>2 DEF ExchangeOf, Same
      <3>4. \A b \in Attempts : Exchange'[b] = Exchange[b]
        BY <1>1, <1>2, <3>3, QuietLock, ExchangeKept
      <3>5. QED
        BY <1>2, <3>4, SameFunction, Invisible
    <2>3. QED
      BY <2>1, <2>2
  <1>5. QED
    BY <1>3, <1>4

LEMMA NextRefines == IInv /\ IInv' /\ AskedInv /\ [Next]_vars => PromiseStep
  <1> SUFFICES ASSUME IInv, IInv', AskedInv, [Next]_vars PROVE PromiseStep
    OBVIOUS
  <1>1. TypeOK /\ TypeOK'
    BY DEF IInv
  <1>2. ASSUME UNCHANGED <<effect, incident, calls, lock>>, CommitAside \/ UNCHANGED job
        PROVE  PromiseStep
    BY <1>1, <1>2, AllSame, NoExchangeMoves, Invisible
  <1>3. CASE UNCHANGED vars
    BY <1>2, <1>3 DEF vars
  <1>4. CASE Expire \/ UpdateRole \/ Unrelated \/ SupersedeNode
    BY <1>2, <1>4 DEF Expire, UpdateRole, Unrelated, SupersedeNode, history
  <1>5. ASSUME NEW p \in Procs, QuietCall(p) \/ Proceed(p) \/ Abandon(p)
        PROVE  PromiseStep
    BY <1>5, QuietRefines, EndingRefines, CommitPreparedRefines, CommitDispatchedRefines,
       AnswerRefines, ReconcilingRefines, CommitObservedRefines DEF Proceed, QuietCall
  <1>6. ASSUME NEW a \in Attempts, ManageIncident(a)
        PROVE  PromiseStep
    BY <1>6, ManageRefines
  <1>7. QED
    BY <1>3, <1>4, <1>5, <1>6 DEF Next, QuietCall, ManageIncident

LEMMA InitRefines == Init => Promise!Init
  <1> SUFFICES ASSUME Init PROVE Promise!Init
    OBVIOUS
  <1>1. /\ effect = [a \in Attempts |-> "none"] /\ calls = [a \in Attempts |-> 0]
        /\ incident = [a \in Attempts |-> NoIncident] /\ lock = [a \in Attempts |-> NoProc]
    BY DEF Init
  <1>2. Circuit = [a \in Attempts |-> "none"]
    BY <1>1 DEF Circuit, NoIncident
  <1>3. Exchange = [a \in Attempts |-> "none"] /\ Spent = [a \in Attempts |-> 0]
    BY <1>1 DEF Exchange, Spent, NoIncident
  <1>4. QED
    BY <1>1, <1>2, <1>3 DEF Promise!Init

(* For every set of processes and keys, every number of attempts and every *)
(* budget, whatever leases, graph changes and crashes do to the calls of   *)
(* effects.go, an effect is one object that is used by one exchange at a   *)
(* time.                                                                   *)
THEOREM SagaKeepsPromise == Spec => PromiseSpec
  <1>1. Promise!Init /\ [][Promise!Next]_(Promise!vars) => PromiseSpec
    BY DEF PromiseSpec, Promise!Spec
  <1>2. IInv /\ IInv' /\ AskedInv /\ [Next]_vars => [Promise!Next]_(Promise!vars)
    BY NextRefines DEF PromiseStep
  <1>3. QED
    BY <1>1, <1>2, InitRefines, AskedIsRecorded, PTL DEF Spec

-----------------------------------------------------------------------------
(* What the refinement means for a confirmed effect.                       *)

(* A confirmed effect stays confirmed, the adapter is never told to act on *)
(* it again, and its incident is closed for good.                          *)
SettledStands ==
    \A a \in Attempts : effect[a] = "confirmed" =>
        effect'[a] = "confirmed" /\ calls'[a] = calls[a] /\ Circuit'[a] = Circuit[a]

(* Only an effect on record as dispatched is in a dispatch.                *)
LEMMA DispatchOnRecord ==
    ASSUME IInv, NEW a \in Attempts, Exchange[a] = "dispatch"
    PROVE  effect[a] = "dispatched"
  <1> DEFINE p == lock[a]
  <1>1. p \in Procs /\ On(p) = a /\ ExchangeOf(job[p]) = "dispatch"
    BY DEF Exchange, IInv, TypeOK
  <1>2. job[p] \in Job /\ JobInv(p)
    BY <1>1 DEF IInv, TypeOK
  <1> HIDE DEF p
  <1>3. job[p].receipt # "dispatch"
    BY <1>2 DEF Job, Receipts
  <1>4. job[p].step = "dispatching"
    BY <1>1, <1>3 DEF ExchangeOf
  <1>5. QED
    BY <1>1, <1>2, <1>4 DEF JobInv

(* The steps of the promise, one by one.                                   *)
LEMMA StepSettles ==
    ASSUME IInv, PromiseStep
    PROVE  SettledStands
  <1> SUFFICES ASSUME NEW a \in Attempts, effect[a] = "confirmed"
               PROVE  /\ effect'[a] = "confirmed" /\ calls'[a] = calls[a]
                      /\ Circuit'[a] = Circuit[a]
    BY DEF SettledStands
  <1>1. /\ effect \in [Attempts -> Statuses] /\ calls \in [Attempts -> Nat]
        /\ Circuit[a] \in {"none", "resolved"}
        /\ \A b, v : [Circuit EXCEPT ![b] = v][a] = IF b = a THEN v ELSE Circuit[a]
    BY CircuitFacts DEF IInv, TypeOK, EffectInv, Circuit
  <1>2. CASE UNCHANGED Promise!vars
    BY <1>2 DEF Promise!vars
  <1>3. ASSUME NEW e \in Attempts, Promise!Prepare(e) \/ Promise!Dispatch(e) \/ Promise!Ask(e)
        PROVE  /\ effect'[a] = "confirmed" /\ calls'[a] = calls[a] /\ Circuit'[a] = Circuit[a]
    BY <1>1, <1>3 DEF Promise!Prepare, Promise!Dispatch, Promise!Ask
  <1>4. ASSUME NEW e \in Attempts, Promise!Answer(e)
        PROVE  /\ effect'[a] = "confirmed" /\ calls'[a] = calls[a] /\ Circuit'[a] = Circuit[a]
    <2>1. Exchange[e] = "dispatch" => e # a
      BY DispatchOnRecord
    <2>2. QED
      BY <1>1, <1>4, <2>1 DEF Promise!Answer
  <1>5. ASSUME NEW e \in Attempts, Promise!Observe(e) \/ Promise!GiveUp(e)
        PROVE  /\ effect'[a] = "confirmed" /\ calls'[a] = calls[a] /\ Circuit'[a] = Circuit[a]
    <2>1. CASE Promise!GiveUp(e)
      BY <2>1 DEF Promise!GiveUp
    <2>2. CASE Promise!Observe(e)
      <3>1. e # a /\ calls' = calls /\ effect' = [effect EXCEPT ![e] = Exchange[e]]
        BY <2>2 DEF Promise!Observe
      <3>2. Promise!Judge(e, Exchange[e])
        BY <2>2 DEF Promise!Observe
      <3>3. Circuit' = Circuit \/ \E v : Circuit' = [Circuit EXCEPT ![e] = v]
        BY <3>2 DEF Promise!Judge
      <3>4. QED
        <4>1. Circuit'[a] = Circuit[a]
          BY <1>1, <3>1, <3>3
        <4>2. effect'[a] = effect[a]
          BY <1>1, <3>1
        <4>3. QED
          BY <3>1, <4>1, <4>2
    <2>3. QED
      BY <1>5, <2>1, <2>2
  <1>6. ASSUME NEW e \in Attempts, Promise!Report(e) \/ Promise!Trip(e) \/ Promise!Retry(e)
        PROVE  /\ effect'[a] = "confirmed" /\ calls'[a] = calls[a] /\ Circuit'[a] = Circuit[a]
    <2>1. e # a /\ calls' = calls /\ effect' = effect
      BY <1>1, <1>6 DEF Promise!Report, Promise!Trip, Promise!Retry
    <2>2. \E v : Circuit' = [Circuit EXCEPT ![e] = v]
      BY <1>6 DEF Promise!Report, Promise!Trip, Promise!Retry
    <2>3. QED
      BY <1>1, <2>1, <2>2
  <1>7. QED
    BY <1>2, <1>3, <1>4, <1>5, <1>6 DEF PromiseStep, Promise!Next

(* Once an effect is confirmed nothing that processes, late receipts,      *)
(* leases, graph changes or incident calls do reopens it (effects.go,      *)
(* incidents.go).                                                          *)
THEOREM ConfirmationIsFinal == Spec => [][SettledStands]_vars
  <1>1. IInv /\ IInv' /\ AskedInv /\ [Next]_vars => SettledStands
    BY NextRefines, StepSettles
  <1>2. SettledStands => [SettledStands]_vars
    OBVIOUS
  <1>3. QED
    BY <1>1, <1>2, AskedIsRecorded, PTL DEF Spec
=============================================================================
