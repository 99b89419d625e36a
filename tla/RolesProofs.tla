---------------------------- MODULE RolesProofs ----------------------------
(***************************************************************************)
(* Proofs about the role leases: for every set of roles, sessions, keys    *)
(* and lease times, whatever the callers, the clock and the graph changes  *)
(* do between the decision of a command and its append.                    *)
(*                                                                         *)
(* The argument: what a command was decided on (the leases and the control *)
(* capabilities) changes only with the head, so an append on the head of   *)
(* the decision finds them as they were. What the validator demands of an  *)
(* event depends on them and on the event alone, never on the clock that   *)
(* has gone on meanwhile.                                                  *)
(***************************************************************************)
EXTENDS Roles, FiniteSetTheorems, TLAPS

(* A lease that an event carries begins before it ends, and not later than *)
(* now.                                                                    *)
Dated(e) == e.type # "role.released" => e.next.bound < e.next.expires /\ e.next.bound <= clock

(* What a process in the middle of a command may rely on.                  *)
CallerInv(c) ==
    /\ caller[c].at = "decided" =>
          /\ Dated(caller[c].event)
          /\ caller[c].head <= head
          /\ caller[c].head = head => Accepts(caller[c].event)
    /\ caller[c].at = "committed" /\ caller[c].key \in Keys =>
          Known(caller[c].key) /\ commands[caller[c].key].event = caller[c].event

(* No lease begins in the future.                                          *)
LeaseInv == \A r \in RoleIDs : leases[r].bound <= clock

IInv == /\ TypeOK /\ LeaseInv /\ ReceiptIsExact
        /\ \A c \in Callers : CallerInv(c)

-----------------------------------------------------------------------------
(* Requests and their events.                                              *)

(* Three sessions that make a set of three are distinct.                   *)
LEMMA ThreeDistinct ==
    ASSUME NEW x, NEW y, NEW z, Cardinality({x, y, z}) = 3
    PROVE  x # y /\ x # z /\ y # z
  <1>1. ASSUME NEW u, NEW v PROVE Cardinality({u, v}) # 3
    <2>1. IsFiniteSet({v}) /\ Cardinality({v}) = 1
      BY FS_Singleton
    <2>2. Cardinality({v} \cup {u}) = IF u \in {v} THEN 1 ELSE 2
      BY <2>1, FS_AddElement
    <2>3. {v} \cup {u} = {u, v}
      OBVIOUS
    <2>4. QED
      BY <2>2, <2>3
  <1>2. x = y => {x, y, z} = {x, z}
    OBVIOUS
  <1>3. x = z => {x, y, z} = {x, y}
    OBVIOUS
  <1>4. y = z => {x, y, z} = {x, y}
    OBVIOUS
  <1>5. QED
    BY <1>1, <1>2, <1>3, <1>4

(* What the requests of each operation are.                                *)
LEMMA RequestFacts ==
    ASSUME NEW q \in CommandRequests
    PROVE  /\ q.op \in {"bind", "takeover", "renew", "release", "transfer"}
           /\ q.role \in RoleIDs /\ q.session \in Sessions
           /\ q.op # "release" => q.ttl \in Nat
           /\ q.op = "transfer" =>
                /\ q.actor \in RoleIDs /\ q.actorSession \in Sessions /\ q.expected \in Sessions
                /\ q.actor # q.role
                /\ q.actorSession # q.expected /\ q.actorSession # q.session
                /\ q.expected # q.session
  <1>1. CASE q \in Bindings
    BY <1>1, RolesConstants DEF Bindings
  <1>2. CASE q \in Renewals
    BY <1>2, RolesConstants DEF Renewals
  <1>3. CASE q \in Releases
    BY <1>3 DEF Releases
  <1>4. CASE q \in Transfers
    <2>1. /\ q \in [op: {"transfer"}, actor: RoleIDs, actorSession: Sessions,
                    role: RoleIDs, expected: Sessions, session: Sessions, ttl: TTLs]
          /\ q.actor # q.role
          /\ Cardinality({q.actorSession, q.expected, q.session}) = 3
      BY <1>4 DEF Transfers
    <2>2. /\ q.actorSession # q.expected /\ q.actorSession # q.session
          /\ q.expected # q.session
      BY <2>1, ThreeDistinct
    <2>3. QED
      BY <2>1, <2>2, RolesConstants
  <1>5. QED
    BY <1>1, <1>2, <1>3, <1>4 DEF CommandRequests

(* A new lease begins now and has a future, also when no time was given.   *)
LEMMA NewLeaseFacts ==
    ASSUME TypeOK, NEW q \in CommandRequests, q.op # "release"
    PROVE  /\ NewLease(q) \in Lease
           /\ NewLease(q).session = q.session
           /\ NewLease(q).bound = clock /\ clock < NewLease(q).expires
  <1>1. q.ttl \in Nat /\ q.session \in Sessions /\ clock \in Times /\ clock \in Nat
    BY RequestFacts, RolesConstants DEF TypeOK, Times
  <1> DEFINE t == IF q.ttl = 0 THEN DefaultTTL ELSE q.ttl
  <1>2. t \in Nat /\ t > 0
    BY <1>1, RolesConstants
  <1>3. NewLease(q) = [session |-> q.session, bound |-> clock, active |-> TRUE, expires |-> clock + t]
    BY DEF NewLease
  <1> HIDE DEF t
  <1>4. QED
    BY <1>1, <1>2, <1>3 DEF Lease

(* The event of a request, by operation.                                   *)
LEMMA EventFacts ==
    ASSUME TypeOK, NEW q \in CommandRequests
    PROVE  /\ EventOf(q) \in Events
           /\ Dated(EventOf(q))
           /\ q.op = "transfer" => EventOf(q) = Transferred(q, NewLease(q))
           /\ q.op = "release" => EventOf(q) = Released(q)
           /\ q.op \notin {"transfer", "release"} => EventOf(q) = Bound(q, NewLease(q))
  <1>1. /\ q.role \in RoleIDs /\ clock \in Times /\ clock \in Nat
        /\ leases[q.role] \in Lease
    BY RequestFacts, RolesConstants DEF TypeOK, Times
  <1>2. CASE q.op = "transfer"
    <2>1. EventOf(q) = Transferred(q, NewLease(q))
      BY <1>2 DEF EventOf
    <2>2. /\ NewLease(q) \in Lease /\ q.actor \in RoleIDs /\ q.actorSession \in Sessions
          /\ NewLease(q).bound = clock /\ clock < NewLease(q).expires
      BY <1>2, RequestFacts, NewLeaseFacts
    <2>3. QED
      BY <1>1, <1>2, <2>1, <2>2 DEF Transferred, Events, Dated
  <1>3. CASE q.op = "release"
    <2>1. EventOf(q) = Released(q)
      BY <1>3 DEF EventOf
    <2>2. QED
      BY <1>1, <1>3, <2>1 DEF Released, Events, Dated
  <1>4. CASE q.op \notin {"transfer", "release"}
    <2>1. EventOf(q) = Bound(q, NewLease(q))
      BY <1>4 DEF EventOf
    <2>2. NewLease(q) \in Lease /\ NewLease(q).bound = clock /\ clock < NewLease(q).expires
      BY <1>4, NewLeaseFacts
    <2>3. QED
      BY <1>1, <1>4, <2>1, <2>2 DEF Bound, Events, Dated
  <1>5. QED
    BY <1>2, <1>3, <1>4

(* A command that the service admits makes an event that the validator of  *)
(* imported histories accepts on the same state.                           *)
LEMMA AdmissibleAccepted ==
    ASSUME TypeOK, LeaseInv, NEW q \in CommandRequests, Admissible(q)
    PROVE  Accepts(EventOf(q))
  <1> DEFINE e == EventOf(q)
  <1>1. /\ q.role \in RoleIDs /\ clock \in Nat
        /\ \A r \in RoleIDs : leases[r] \in Lease /\ leases[r].bound <= clock
    BY RequestFacts, RolesConstants DEF TypeOK, Times, LeaseInv
  <1>2. CASE q.op \in {"bind", "takeover", "renew"}
    <2>1. e = Bound(q, NewLease(q)) /\ q.op \notin {"transfer", "release"}
      BY <1>2, EventFacts
    <2>2. /\ NewLease(q).session = q.session
          /\ NewLease(q).bound = clock /\ clock < NewLease(q).expires
      BY <1>2, NewLeaseFacts
    <2>3. Unexpired(leases[q.role]) => leases[q.role].session = q.session
      BY <1>2 DEF Admissible, MayBind, MayRenew
    <2>4. e.type = "role.bound" /\ e.role = q.role /\ e.next = NewLease(q)
      BY <2>1 DEF Bound
    <2> HIDE DEF e
    <2>5. leases[q.role].expires \in Nat /\ leases[q.role].bound \in Nat
      BY <1>1, RolesConstants DEF Lease, Times
    <2>6. AcceptsBound(e)
      BY <1>1, <2>2, <2>3, <2>4, <2>5 DEF AcceptsBound, Unexpired
    <2>7. QED
      BY <2>4, <2>6 DEF Accepts, e
  <1>3. CASE q.op = "release"
    <2>1. e = Released(q) /\ MayRelease(q)
      BY <1>3, EventFacts DEF Admissible
    <2>2. e.type = "role.released" /\ e.role = q.role /\ e.at = clock
      BY <2>1 DEF Released
    <2>3. AcceptsReleased(e)
      BY <1>1, <2>1, <2>2 DEF AcceptsReleased, MayRelease
    <2>4. QED
      BY <2>2, <2>3 DEF Accepts
  <1>4. CASE q.op = "transfer"
    <2>1. e = Transferred(q, NewLease(q)) /\ MayTransfer(q)
      BY <1>4, EventFacts DEF Admissible
    <2>2. /\ e.type = "role.transferred" /\ e.role = q.role /\ e.next = NewLease(q)
          /\ e.previous = leases[q.role] /\ e.actor = q.actor
          /\ e.actorSession = q.actorSession /\ e.at = clock
      BY <2>1 DEF Transferred
    <2>3. /\ NewLease(q).session = q.session
          /\ NewLease(q).bound = clock /\ clock < NewLease(q).expires
      BY <1>4, NewLeaseFacts
    <2>4. /\ q.actor # q.role /\ q.actor \in RoleIDs
          /\ q.actorSession # q.expected /\ q.actorSession # q.session
          /\ q.expected # q.session
      BY <1>4, RequestFacts
    <2>5. /\ leases[q.role].session = q.expected /\ q.actor \in control
          /\ leases[q.role].active /\ clock < leases[q.role].expires /\ leases[q.role].bound <= clock
          /\ leases[q.actor].session = q.actorSession /\ leases[q.actor].active
          /\ leases[q.actor].bound <= clock /\ clock < leases[q.actor].expires
      BY <2>1 DEF MayTransfer, ValidLease, Unexpired
    <2>6. ASSUME NEW r \in RoleIDs \ {q.role}, leases[r].active, leases[r].session = q.session
          PROVE  leases[r].expires <= clock
      <3>1. ~Unexpired(leases[r])
        BY <2>1, <2>6 DEF MayTransfer
      <3>2. leases[r].expires \in Nat
        BY <1>1, <2>6 DEF Lease
      <3>3. QED
        BY <1>1, <2>6, <3>1, <3>2 DEF Unexpired
    <2> HIDE DEF e
    <2>7. AcceptsTransferred(e)
      BY <2>2, <2>3, <2>4, <2>5, <2>6 DEF AcceptsTransferred
    <2>8. QED
      BY <2>2, <2>7 DEF Accepts, e
  <1>5. QED
    BY <1>2, <1>3, <1>4, RequestFacts

-----------------------------------------------------------------------------
(* Committing an event.                                                    *)

(* The reducer keeps the leases well formed and dated.                     *)
LEMMA ReduceFacts ==
    ASSUME TypeOK, LeaseInv, NEW e \in Events, Dated(e)
    PROVE  /\ Reduce(e) \in [RoleIDs -> Lease]
           /\ \A r \in RoleIDs : /\ Reduce(e)[r].bound < Reduce(e)[r].expires
                                 /\ Reduce(e)[r].bound <= clock
  <1>1. e.role \in RoleIDs /\ e.type \in {"role.bound", "role.transferred", "role.released"}
    BY DEF Events
  <1>2. e.type # "role.released" => e.next \in Lease
    BY DEF Events
  <1>3. leases \in [RoleIDs -> Lease] /\ leases[e.role] \in Lease
    BY <1>1 DEF TypeOK
  <1>4. CASE e.type = "role.released"
    <2> DEFINE l == [leases[e.role] EXCEPT !.active = FALSE]
    <2>1. l \in Lease /\ l.bound = leases[e.role].bound /\ l.expires = leases[e.role].expires
      BY <1>3 DEF Lease
    <2>2. Reduce(e) = [leases EXCEPT ![e.role] = l]
      BY <1>4 DEF Reduce
    <2> HIDE DEF l
    <2>3. QED
      BY <1>1, <1>3, <2>1, <2>2 DEF TypeOK, LeaseInv
  <1>5. CASE e.type # "role.released"
    <2>1. Reduce(e) = [leases EXCEPT ![e.role] = e.next]
      BY <1>5 DEF Reduce
    <2>2. QED
      BY <1>1, <1>2, <1>3, <1>5, <2>1 DEF TypeOK, LeaseInv, Dated
  <1>6. QED
    BY <1>4, <1>5

(* A recorded command is known from then on, and no other entry changes.   *)
LEMMA RecordFacts ==
    ASSUME TypeOK, NEW k \in Keys \cup {Fresh}, NEW q \in CommandRequests, NEW e \in Events,
           ~Known(k), commands' = Record(k, q, e)
    PROVE  /\ commands' \in [Keys -> Command \cup {NoCommand}]
           /\ k \in Keys => Known(k)' /\ commands'[k].event = e
           /\ \A j \in Keys : Known(j) => Known(j)' /\ commands'[j] = commands[j]
  <1> DEFINE rec == [request |-> q, event |-> e]
  <1>1. rec \in Command /\ rec # NoCommand /\ rec.event = e
    BY NoCommandIsNone DEF Command
  <1>2. commands' = [j \in Keys |-> IF j = k THEN rec ELSE commands[j]]
    BY DEF Record
  <1> HIDE DEF rec
  <1>3. commands' \in [Keys -> Command \cup {NoCommand}]
    BY <1>1, <1>2 DEF TypeOK
  <1>4. ASSUME NEW j \in Keys, Known(j)
        PROVE  Known(j)' /\ commands'[j] = commands[j]
    <2>1. j # k
      BY <1>4
    <2>2. commands'[j] = commands[j]
      BY <1>2, <2>1
    <2>3. QED
      BY <1>4, <2>2 DEF Known
  <1>5. k \in Keys => Known(k)' /\ commands'[k].event = e
    BY <1>1, <1>2 DEF Known
  <1>6. QED
    BY <1>3, <1>4, <1>5

(* The other callers keep what they rely on when the head moves on: their  *)
(* decisions are void.                                                     *)
LEMMA HeadMoves ==
    ASSUME TypeOK, NEW c \in Callers, CallerInv(c), caller'[c] = caller[c],
           head' = head + 1, clock' = clock,
           \A j \in Keys : Known(j) => Known(j)' /\ commands'[j] = commands[j]
    PROVE  CallerInv(c)'
  <1>1. ASSUME caller[c].at = "decided"
        PROVE  /\ Dated(caller[c].event)'
               /\ caller'[c].head <= head' /\ caller'[c].head # head'
    <2>1. caller[c] \in Running
      BY <1>1 DEF TypeOK, Idle
    <2>2. caller[c].head \in Nat /\ head \in Nat
      BY <2>1, RolesConstants DEF Running, TypeOK
    <2>3. QED
      BY <1>1, <2>2 DEF CallerInv, Dated
  <1>2. QED
    BY <1>1 DEF CallerInv

(* While the head stays, so do the leases, the capabilities and the known  *)
(* commands; only the clock goes on.                                       *)
LEMMA HeadStays ==
    ASSUME TypeOK, NEW c \in Callers, CallerInv(c), caller'[c] = caller[c],
           UNCHANGED <<leases, control, commands, head>>,
           clock' \in Nat, clock <= clock'
    PROVE  CallerInv(c)'
  <1>1. ASSUME caller[c].at = "decided"
        PROVE  Dated(caller[c].event)'
    <2>1. caller[c] \in Running /\ clock \in Nat
      BY <1>1, RolesConstants DEF TypeOK, Times, Idle
    <2>2. caller[c].event \in Events
      BY <2>1 DEF Running
    <2>3. caller[c].event.type # "role.released" => caller[c].event.next \in Lease
      BY <2>2 DEF Events
    <2>4. caller[c].event.type # "role.released" => caller[c].event.next.bound \in Nat
      BY <2>3, RolesConstants DEF Lease, Times
    <2>5. QED
      BY <1>1, <2>1, <2>4 DEF CallerInv, Dated
  <1>2. Accepts(caller[c].event) => Accepts(caller[c].event)'
    BY DEF Accepts, AcceptsBound, AcceptsTransferred, AcceptsReleased
  <1>3. QED
    BY <1>1, <1>2 DEF CallerInv, Known

(* A command whose answer is not given yet leaves nothing to be exact.     *)
LEMMA NoReplyExact == reply' = NoReply => ReceiptIsExact'
  BY DEF ReceiptIsExact, NoReply

-----------------------------------------------------------------------------
(* The invariant starts true.                                              *)
LEMMA InitIInv == Init => IInv
  <1> SUFFICES ASSUME Init PROVE IInv
    OBVIOUS
  <1>1. NoLease \in Lease /\ NoLease.bound = 0 /\ NoLease.expires = 1
    BY RolesConstants DEF NoLease, Lease, Times
  <1>2. TypeOK
    BY <1>1, RolesConstants DEF Init, TypeOK, Times
  <1>3. LeaseInv /\ ReceiptIsExact
    BY <1>1 DEF Init, LeaseInv, ReceiptIsExact
  <1>4. \A c \in Callers : CallerInv(c)
    BY DEF Init, CallerInv, Idle
  <1>5. QED
    BY <1>2, <1>3, <1>4 DEF IInv

(* Deciding changes nothing but the caller, which knows its event to be    *)
(* acceptable at this head.                                                *)
LEMMA DecideStep ==
    ASSUME IInv, NEW c \in Callers, NEW k \in Keys \cup {Fresh}, NEW q \in CommandRequests,
           Decide(c, k, q)
    PROVE  IInv'
  <1> DEFINE r == [at |-> "decided", key |-> k, request |-> q, event |-> EventOf(q), head |-> head]
  <1>1. /\ TypeOK /\ LeaseInv /\ Admissible(q) /\ reply' = NoReply
        /\ caller' = [caller EXCEPT ![c] = r]
        /\ UNCHANGED <<leases, control, commands, head, clock>>
    BY DEF IInv, Decide
  <1>2. EventOf(q) \in Events /\ Dated(EventOf(q)) /\ Accepts(EventOf(q))
    BY <1>1, EventFacts, AdmissibleAccepted
  <1>3. /\ r \in Running /\ r.at = "decided" /\ r.event = EventOf(q) /\ r.head = head
    BY <1>1, <1>2 DEF Running, TypeOK
  <1> HIDE DEF r
  <1>4. /\ caller' \in [Callers -> Running \cup {Idle}] /\ caller'[c] = r
        /\ \A d \in Callers \ {c} : caller'[d] = caller[d]
    BY <1>1, <1>3 DEF TypeOK
  <1>5. TypeOK' /\ LeaseInv' /\ ReceiptIsExact'
    BY <1>1, <1>4, NoReplyExact DEF TypeOK, LeaseInv
  <1>6. CallerInv(c)'
    <2>1. Dated(caller[c].event)'
      BY <1>1, <1>2, <1>3, <1>4 DEF Dated
    <2>2. Accepts(caller[c].event)'
      BY <1>1, <1>2, <1>3, <1>4
         DEF Accepts, AcceptsBound, AcceptsTransferred, AcceptsReleased
    <2>3. head' \in Nat
      BY <1>5, RolesConstants DEF TypeOK
    <2>4. QED
      BY <1>1, <1>3, <1>4, <2>1, <2>2, <2>3 DEF CallerInv
  <1>7. clock' \in Nat /\ clock <= clock'
    BY <1>1, RolesConstants DEF TypeOK, Times
  <1>8. \A d \in Callers \ {c} : CallerInv(d)'
    BY <1>1, <1>4, <1>7, HeadStays DEF IInv
  <1>9. QED
    BY <1>5, <1>6, <1>8 DEF IInv

(* A caller that ends, with or without an answer.                          *)
LEMMA EndStep ==
    ASSUME IInv, NEW c \in Callers, caller' = [caller EXCEPT ![c] = Idle], ReceiptIsExact',
           UNCHANGED <<leases, control, commands, head, clock>>
    PROVE  IInv'
  <1>1. /\ caller' \in [Callers -> Running \cup {Idle}] /\ caller'[c] = Idle
        /\ \A d \in Callers \ {c} : caller'[d] = caller[d]
    BY DEF IInv, TypeOK
  <1>2. TypeOK' /\ LeaseInv'
    BY <1>1 DEF IInv, TypeOK, LeaseInv
  <1>3. CallerInv(c)'
    BY <1>1 DEF CallerInv, Idle
  <1>4. clock' \in Nat /\ clock <= clock' /\ TypeOK
    BY RolesConstants DEF IInv, TypeOK, Times
  <1>5. \A d \in Callers \ {c} : CallerInv(d)'
    BY <1>1, <1>4, HeadStays DEF IInv
  <1>6. QED
    BY <1>2, <1>3, <1>5 DEF IInv

(* A lost race, a crash or a failed second load.                           *)
LEMMA LoseStep == ASSUME IInv, NEW c \in Callers, Lose(c) PROVE IInv'
  BY EndStep, NoReplyExact DEF Lose

(* The answer after the second load.                                       *)
LEMMA ReloadStep == ASSUME IInv, NEW c \in Callers, Reload(c) PROVE IInv'
  <1> DEFINE q == caller[c].request
             e == caller[c].event
             k == caller[c].key
  <1>1. /\ caller[c].at = "committed" /\ caller' = [caller EXCEPT ![c] = Idle]
        /\ reply' = [at |-> "answered", key |-> k, request |-> q, event |-> e, answer |-> Answer(q, e)]
        /\ UNCHANGED <<leases, control, commands, head, clock>>
    BY DEF Reload, Reply
  <1>2. k \in Keys => commands[k].event = e
    BY <1>1 DEF IInv, CallerInv, Idle
  <1>3. q.op = "transfer" => Answer(q, e) = e
    BY DEF Answer
  <1>4. ReceiptIsExact'
    <2>1. /\ reply'.request = q /\ reply'.event = e /\ reply'.key = k /\ reply'.answer = Answer(q, e)
      BY <1>1
    <2>2. QED
      BY <1>1, <1>2, <1>3, <2>1 DEF ReceiptIsExact
  <1>5. QED
    BY <1>1, <1>4, EndStep

(* A retry is answered from the journal.                                   *)
LEMMA ReplayStep == ASSUME IInv, NEW k \in Keys, Replay(k) PROVE IInv'
  <1> DEFINE q == commands[k].request
             e == commands[k].event
             answer == IF q.op = "renew" THEN e ELSE Answer(q, e)
  <1>1. /\ reply' = [at |-> "answered", key |-> k, request |-> q, event |-> e, answer |-> answer]
        /\ UNCHANGED <<leases, control, commands, head, clock, caller>>
    BY DEF Replay, Reply
  <1>2. q.op = "transfer" => answer = e
    BY DEF Answer
  <1>3. ReceiptIsExact'
    <2>1. /\ reply'.request = q /\ reply'.event = e /\ reply'.key = k /\ reply'.answer = answer
      BY <1>1
    <2>2. QED
      BY <1>1, <1>2, <2>1 DEF ReceiptIsExact
  <1>4. TypeOK' /\ LeaseInv'
    BY <1>1 DEF IInv, TypeOK, LeaseInv
  <1>5. clock' \in Nat /\ clock <= clock' /\ TypeOK
    BY <1>1, RolesConstants DEF IInv, TypeOK, Times
  <1>6. \A d \in Callers : CallerInv(d)'
    BY <1>1, <1>5, HeadStays DEF IInv
  <1>7. QED
    BY <1>3, <1>4, <1>6 DEF IInv

(* Another process's command, done at once.                                *)
LEMMA PromptStep ==
    ASSUME IInv, NEW k \in Keys \cup {Fresh}, NEW q \in CommandRequests, Prompt(k, q)
    PROVE  IInv'
  <1>1. /\ TypeOK /\ LeaseInv /\ ~Known(k) /\ head < MaxHead
        /\ leases' = Reduce(EventOf(q)) /\ commands' = Record(k, q, EventOf(q))
        /\ head' = head + 1 /\ reply' = NoReply
        /\ UNCHANGED <<control, clock, caller>>
    BY DEF IInv, Prompt
  <1>2. EventOf(q) \in Events /\ Dated(EventOf(q))
    BY <1>1, EventFacts
  <1>3. /\ leases' \in [RoleIDs -> Lease]
        /\ \A r \in RoleIDs : leases'[r].bound < leases'[r].expires /\ leases'[r].bound <= clock
    BY <1>1, <1>2, ReduceFacts
  <1>4. /\ commands' \in [Keys -> Command \cup {NoCommand}]
        /\ \A j \in Keys : Known(j) => Known(j)' /\ commands'[j] = commands[j]
    BY <1>1, <1>2, RecordFacts
  <1>5. TypeOK' /\ LeaseInv' /\ ReceiptIsExact'
    BY <1>1, <1>3, <1>4, NoReplyExact, RolesConstants DEF TypeOK, LeaseInv
  <1>6. \A d \in Callers : CallerInv(d)'
    BY <1>1, <1>4, HeadMoves DEF IInv
  <1>7. QED
    BY <1>5, <1>6 DEF IInv

(* The append of a decided command: committed on the head of the decision, *)
(* confirmed when another process committed the same request, or refused.  *)
LEMMA AppendOnceStep == ASSUME IInv, NEW c \in Callers, AppendOnce(c) PROVE IInv'
  <1>0. PICK k, q, e : k = caller[c].key /\ q = caller[c].request /\ e = caller[c].event
    OBVIOUS
  <1>1. TypeOK /\ LeaseInv /\ caller[c].at = "decided" /\ caller[c] # Idle /\ CallerInv(c)
    BY DEF IInv, AppendOnce, Idle
  <1>2. /\ caller[c] \in Running /\ k \in Keys \cup {Fresh}
        /\ q \in CommandRequests /\ e \in Events /\ Dated(e)
    BY <1>0, <1>1 DEF TypeOK, Running, CallerInv
  <1>3. CASE ~Known(k) /\ head = caller[c].head /\ Commit(c)
    <2>1. /\ head < MaxHead /\ leases' = Reduce(e) /\ commands' = Record(k, q, e)
          /\ head' = head + 1 /\ reply' = NoReply /\ UNCHANGED <<control, clock>>
          /\ caller' = [caller EXCEPT ![c].at = "committed", ![c].head = 0]
      BY <1>0, <1>3 DEF Commit
    <2> DEFINE r == [caller[c] EXCEPT !.at = "committed", !.head = 0]
    <2>2. /\ r \in Running /\ r.at = "committed" /\ r.head = 0 /\ r.key = k /\ r.event = e
      <3>1. 0 \in 0..MaxHead
        BY RolesConstants
      <3>2. QED
        BY <1>0, <1>2, <3>1 DEF Running
    <2>3. caller' = [caller EXCEPT ![c] = r]
      BY <1>2, <2>1 DEF TypeOK
    <2> HIDE DEF r
    <2>4. /\ caller' \in [Callers -> Running \cup {Idle}] /\ caller'[c] = r
          /\ \A d \in Callers \ {c} : caller'[d] = caller[d]
      BY <1>1, <2>2, <2>3 DEF TypeOK
    <2>5. /\ leases' \in [RoleIDs -> Lease]
          /\ \A s \in RoleIDs : leases'[s].bound < leases'[s].expires /\ leases'[s].bound <= clock
      BY <1>1, <1>2, <2>1, ReduceFacts
    <2>6. /\ commands' \in [Keys -> Command \cup {NoCommand}]
          /\ k \in Keys => Known(k)' /\ commands'[k].event = e
          /\ \A j \in Keys : Known(j) => Known(j)' /\ commands'[j] = commands[j]
      BY <1>1, <1>2, <1>3, <2>1, RecordFacts
    <2>7. TypeOK' /\ LeaseInv' /\ ReceiptIsExact'
      BY <1>1, <2>1, <2>4, <2>5, <2>6, NoReplyExact, RolesConstants DEF TypeOK, LeaseInv
    <2>8. CallerInv(c)'
      BY <2>2, <2>4, <2>6 DEF CallerInv
    <2>9. \A d \in Callers \ {c} : CallerInv(d)'
      BY <1>1, <2>1, <2>4, <2>6, HeadMoves DEF IInv
    <2>10. QED
      BY <2>7, <2>8, <2>9 DEF IInv
  <1>4. CASE /\ Known(k) /\ commands[k].request = q
             /\ caller' = [caller EXCEPT ![c].at = "committed", ![c].head = 0,
                                         ![c].event = commands[k].event]
             /\ reply' = NoReply
             /\ UNCHANGED <<leases, control, commands, head, clock>>
    <2> DEFINE r == [caller[c] EXCEPT !.at = "committed", !.head = 0, !.event = commands[k].event]
    <2>1. k \in Keys /\ commands[k] \in Command /\ commands[k].event \in Events
      BY <1>1, <1>4 DEF Known, TypeOK, Command
    <2>2. /\ r \in Running /\ r.at = "committed" /\ r.head = 0 /\ r.key = k
          /\ r.event = commands[k].event
      <3>1. 0 \in 0..MaxHead
        BY RolesConstants
      <3>2. QED
        BY <1>0, <1>2, <2>1, <3>1 DEF Running
    <2>3. caller' = [caller EXCEPT ![c] = r]
      BY <1>2, <1>4 DEF TypeOK
    <2> HIDE DEF r
    <2>4. /\ caller' \in [Callers -> Running \cup {Idle}] /\ caller'[c] = r
          /\ \A d \in Callers \ {c} : caller'[d] = caller[d]
      BY <1>1, <2>2, <2>3 DEF TypeOK
    <2>5. TypeOK' /\ LeaseInv' /\ ReceiptIsExact'
      BY <1>1, <1>4, <2>4, NoReplyExact DEF TypeOK, LeaseInv
    <2>6. CallerInv(c)'
      BY <1>4, <2>1, <2>2, <2>4 DEF CallerInv, Known
    <2>7. clock' \in Nat /\ clock <= clock'
      BY <1>1, <1>4, RolesConstants DEF TypeOK, Times
    <2>8. \A d \in Callers \ {c} : CallerInv(d)'
      BY <1>1, <1>4, <2>4, <2>7, HeadStays DEF IInv
    <2>9. QED
      BY <2>5, <2>6, <2>8 DEF IInv
  <1>5. CASE (IF Known(k) THEN commands[k].request # q ELSE head # caller[c].head) /\ Lose(c)
    BY <1>5, LoseStep
  <1>6. QED
    BY <1>0, <1>3, <1>4, <1>5 DEF AppendOnce

(* A graph change gives or takes role.control and moves the head.          *)
LEMMA UpdateRoleStep == ASSUME IInv, NEW r \in Controllers, UpdateRole(r) PROVE IInv'
  <1>1. /\ TypeOK /\ head < MaxHead /\ head' = head + 1 /\ reply' = NoReply
        /\ control' \subseteq Controllers
        /\ UNCHANGED <<leases, commands, clock, caller>>
    BY DEF IInv, UpdateRole, TypeOK
  <1>2. TypeOK' /\ LeaseInv' /\ ReceiptIsExact'
    BY <1>1, NoReplyExact, RolesConstants DEF IInv, TypeOK, LeaseInv
  <1>3. \A d \in Callers : CallerInv(d)'
    BY <1>1, HeadMoves DEF IInv, Known
  <1>4. QED
    BY <1>2, <1>3 DEF IInv

(* Time passes.                                                            *)
LEMMA TickStep == ASSUME IInv, Tick PROVE IInv'
  <1>1. /\ TypeOK /\ clock < MaxTime /\ clock' = clock + 1 /\ reply' = NoReply
        /\ UNCHANGED <<leases, control, commands, head, caller>>
    BY DEF IInv, Tick
  <1>2. clock \in Nat /\ clock' \in Nat /\ clock <= clock' /\ clock' \in Times
    BY <1>1, RolesConstants DEF TypeOK, Times
  <1>3. TypeOK' /\ ReceiptIsExact'
    BY <1>1, <1>2, NoReplyExact DEF TypeOK
  <1>4. LeaseInv'
    <2>1. \A r \in RoleIDs : leases[r].bound \in Nat
      BY <1>1, RolesConstants DEF TypeOK, Lease, Times
    <2>2. QED
      BY <1>1, <1>2, <2>1 DEF IInv, LeaseInv
  <1>5. \A d \in Callers : CallerInv(d)'
    BY <1>1, <1>2, HeadStays DEF IInv
  <1>6. QED
    BY <1>3, <1>4, <1>5 DEF IInv

(* Stuttering.                                                             *)
LEMMA StutterStep == ASSUME IInv, UNCHANGED vars PROVE IInv'
  <1>1. TypeOK' /\ LeaseInv' /\ ReceiptIsExact'
    BY DEF IInv, TypeOK, LeaseInv, ReceiptIsExact, vars
  <1>2. clock' \in Nat /\ clock <= clock' /\ TypeOK
    BY RolesConstants DEF IInv, TypeOK, Times, vars
  <1>3. \A d \in Callers : CallerInv(d)'
    BY <1>2, HeadStays DEF IInv, vars
  <1>4. QED
    BY <1>1, <1>3 DEF IInv

(* Every step keeps the invariant.                                         *)
LEMMA NextIInv == IInv /\ [Next]_vars => IInv'
  <1> SUFFICES ASSUME IInv, [Next]_vars PROVE IInv'
    OBVIOUS
  <1>1. ASSUME NEW k \in Keys \cup {Fresh}, NEW q \in CommandRequests,
               Prompt(k, q) \/ \E c \in Callers : Decide(c, k, q)
        PROVE  IInv'
    BY <1>1, PromptStep, DecideStep
  <1>2. ASSUME NEW c \in Callers, AppendOnce(c) \/ Reload(c) \/ Crash(c)
        PROVE  IInv'
    BY <1>2, AppendOnceStep, ReloadStep, LoseStep DEF Crash
  <1>3. ASSUME NEW k \in Keys, Replay(k)
        PROVE  IInv'
    BY <1>3, ReplayStep
  <1>4. ASSUME NEW r \in Controllers, UpdateRole(r)
        PROVE  IInv'
    BY <1>4, UpdateRoleStep
  <1>5. CASE Tick
    BY <1>5, TickStep
  <1>6. CASE UNCHANGED vars
    BY <1>6, StutterStep
  <1>7. QED
    BY <1>1, <1>2, <1>3, <1>4, <1>5, <1>6 DEF Next

-----------------------------------------------------------------------------
(* The inductive invariant of the leases: a decision stays good for as     *)
(* long as the head it was taken on is the head of the journal.            *)
THEOREM LeaseInvariant == Spec => []IInv
  BY InitIInv, NextIInv, PTL DEF Spec

(* Every variable keeps its type, and every lease ends after it began.     *)
THEOREM RolesTypeOK == Spec => []TypeOK
  <1>1. IInv => TypeOK
    BY DEF IInv
  <1>2. QED
    BY <1>1, LeaseInvariant, PTL

(* An answer under a key is made from the one command committed under it,  *)
(* and a transfer is answered with its own event (actions.go).               *)
THEOREM AnswersAreExact == Spec => []ReceiptIsExact
  <1>1. IInv => ReceiptIsExact
    BY DEF IInv
  <1>2. QED
    BY <1>1, LeaseInvariant, PTL

(* Every event that a role command commits is one the validator of         *)
(* imported histories accepts on the state it is applied to.               *)
THEOREM CommittedHistoryRevalidates == Spec => HistoryRevalidates
  <1> DEFINE A == \A c \in Callers :
          caller[c].at = "decided" /\ caller'[c].at = "committed" /\ head' # head
          => Accepts(caller[c].event)
  <1>1. IInv /\ [Next]_vars => A
    <2> SUFFICES ASSUME IInv, [Next]_vars, NEW c \in Callers,
                        caller[c].at = "decided", caller'[c].at = "committed", head' # head
                 PROVE  Accepts(caller[c].event)
      OBVIOUS
    <2>1. caller \in [Callers -> Running \cup {Idle}]
      BY DEF IInv, TypeOK
    <2>2. CASE AppendOnce(c)
      <3>1. CASE head = caller[c].head
        BY <3>1 DEF IInv, CallerInv
      <3>2. CASE head # caller[c].head
        BY <2>2, <3>2 DEF AppendOnce, Lose
      <3>3. QED
        BY <3>1, <3>2
    <2>3. ASSUME NEW d \in Callers, d # c, AppendOnce(d)
          PROVE  FALSE
      BY <2>1, <2>3 DEF AppendOnce, Commit, Lose
    <2>4. ASSUME NEW d \in Callers, Reload(d) \/ Crash(d)
          PROVE  FALSE
      BY <2>4 DEF Reload, Crash, Lose
    <2>5. ASSUME NEW k \in Keys \cup {Fresh}, NEW q \in CommandRequests,
                 Prompt(k, q) \/ \E d \in Callers : Decide(d, k, q)
          PROVE  FALSE
      BY <2>5 DEF Prompt, Decide
    <2>6. CASE UNCHANGED caller
      BY <2>6
    <2>7. QED
      BY <2>2, <2>3, <2>4, <2>5, <2>6 DEF Next, Replay, UpdateRole, Tick, vars
  <1>2. A => [A]_vars
    OBVIOUS
  <1>3. QED
    BY <1>1, LeaseInvariant, PTL DEF Spec, HistoryRevalidates
-----------------------------------------------------------------------------
(* The refinement of RolePromise: one register for each role.              *)

(* A decision whose head has not moved grants from an instant that is not  *)
(* before the lease it replaces.                                           *)
Follows(e)  == e.type # "role.released" =>
                  e.next.active /\ e.next.session \in Sessions /\ leases[e.role].bound <= e.next.bound
DecidedInv  == \A c \in Callers :
                  caller[c].at = "decided" /\ caller[c].head = head => Follows(caller[c].event)
PromiseStep == [Promise!Next]_(Promise!vars)

(* The event of a decision follows on the lease it was decided on.         *)
LEMMA EventFollows ==
    ASSUME TypeOK, LeaseInv, NEW q \in CommandRequests
    PROVE  EventOf(q).role \in RoleIDs /\ Follows(EventOf(q))
  <1>1. q.role \in RoleIDs /\ q.session \in Sessions /\ leases[q.role].bound <= clock
    BY RequestFacts DEF LeaseInv
  <1>2. CASE q.op = "release"
    BY <1>1, <1>2, EventFacts DEF Released, Follows
  <1>3. CASE q.op # "release"
    <2>1. NewLease(q).session = q.session /\ NewLease(q).bound = clock /\ NewLease(q).active
      BY <1>3, NewLeaseFacts DEF NewLease
    <2>2. EventOf(q) \in {Bound(q, NewLease(q)), Transferred(q, NewLease(q))}
      BY <1>3, EventFacts
    <2>3. EventOf(q).role = q.role /\ EventOf(q).next = NewLease(q)
      BY <2>2 DEF Bound, Transferred
    <2>4. QED
      BY <1>1, <2>1, <2>3 DEF Follows
  <1>4. QED
    BY <1>2, <1>3

(* A decision that was taken before stays on its head or is void.          *)
LEMMA DecidedKept ==
    ASSUME IInv, DecidedInv, NEW d \in Callers, caller'[d] = caller[d],
           \/ UNCHANGED <<leases, head>>
           \/ head' = head + 1
    PROVE  caller'[d].at = "decided" /\ caller'[d].head = head' => Follows(caller[d].event)'
  <1>1. CASE UNCHANGED <<leases, head>>
    BY <1>1 DEF DecidedInv, Follows
  <1>2. CASE head' = head + 1
    <2>1. ASSUME caller[d].at = "decided"
          PROVE  caller[d].head # head'
      <3>1. caller[d] \in Running /\ caller[d].head <= head
        BY <2>1 DEF IInv, TypeOK, CallerInv, Idle
      <3>2. caller[d].head \in Nat /\ head \in Nat
        BY <3>1, RolesConstants DEF Running, IInv, TypeOK
      <3>3. QED
        BY <1>2, <3>1, <3>2
    <2>2. QED
      BY <2>1
  <1>3. QED
    BY <1>1, <1>2

LEMMA DecidedNext == IInv /\ DecidedInv /\ [Next]_vars => DecidedInv'
  <1> SUFFICES ASSUME IInv, DecidedInv, [Next]_vars, NEW d \in Callers,
                      caller'[d].at = "decided", caller'[d].head = head'
               PROVE  Follows(caller[d].event)'
    BY DEF DecidedInv
  <1>1. caller \in [Callers -> Running \cup {Idle}] /\ TypeOK /\ LeaseInv
    BY DEF IInv, TypeOK
  <1>2. ASSUME NEW c \in Callers, NEW k \in Keys \cup {Fresh}, NEW q \in CommandRequests, Decide(c, k, q)
        PROVE  Follows(caller[d].event)'
    <2>1. CASE d = c
      <3>1. caller'[d].event = EventOf(q) /\ leases' = leases
        BY <1>1, <1>2, <2>1 DEF Decide
      <3>2. Follows(EventOf(q))
        BY <1>1, EventFollows
      <3>3. QED
        BY <3>1, <3>2 DEF Follows
    <2>2. CASE d # c
      <3>1. caller'[d] = caller[d] /\ UNCHANGED <<leases, head>>
        BY <1>1, <1>2, <2>2 DEF Decide
      <3>2. QED
        BY <3>1, DecidedKept
    <2>3. QED
      BY <2>1, <2>2
  <1>3. ASSUME NEW c \in Callers, AppendOnce(c) \/ Reload(c) \/ Crash(c)
        PROVE  Follows(caller[d].event)'
    <2>1. /\ \E r : r.at # "decided" /\ caller' = [caller EXCEPT ![c] = r]
          /\ UNCHANGED <<leases, head>> \/ head' = head + 1
      <3>1. CASE AppendOnce(c)
        <4>1. caller[c].at = "decided" /\ caller[c] \in Running
          BY <1>1, <3>1 DEF AppendOnce, Idle
        <4>2. \A e : /\ [caller[c] EXCEPT !.at = "committed", !.head = 0].at # "decided"
                     /\ [caller[c] EXCEPT !.at = "committed", !.head = 0, !.event = e].at # "decided"
          BY <4>1 DEF Running
        <4>3. Idle.at # "decided"
          BY DEF Idle
        <4>4. QED
          BY <1>1, <3>1, <4>2, <4>3 DEF AppendOnce, Commit, Lose
      <3>2. CASE Reload(c) \/ Crash(c)
        BY <3>2 DEF Reload, Crash, Lose, Idle
      <3>3. QED
        BY <1>3, <3>1, <3>2
    <2>2. d # c
      BY <1>1, <2>1
    <2>3. caller'[d] = caller[d]
      BY <1>1, <2>1, <2>2
    <2>4. QED
      BY <2>1, <2>3, DecidedKept
  <1>4. ASSUME \/ \E k \in Keys \cup {Fresh}, q \in CommandRequests : Prompt(k, q)
               \/ \E k \in Keys : Replay(k)
               \/ \E r \in Controllers : UpdateRole(r)
               \/ Tick \/ UNCHANGED vars
        PROVE  Follows(caller[d].event)'
    <2>1. caller' = caller /\ (UNCHANGED <<leases, head>> \/ head' = head + 1)
      BY <1>4 DEF Prompt, Replay, UpdateRole, Tick, vars
    <2>2. QED
      BY <2>1, DecidedKept
  <1>5. QED
    BY <1>2, <1>3, <1>4 DEF Next

LEMMA DecisionsFollow == Spec => []DecidedInv
  <1>1. Init => DecidedInv
    BY DEF Init, DecidedInv, Idle
  <1>2. QED
    BY <1>1, DecidedNext, LeaseInvariant, PTL DEF Spec

(* A recorded command uses its key, for the first time.                    *)
LEMMA RecordUses ==
    ASSUME TypeOK, NEW k \in Keys \cup {Fresh}, NEW q \in CommandRequests, NEW e \in Events,
           ~Known(k), commands' = Record(k, q, e)
    PROVE  Promise!Once
  <1>1. /\ k \in Keys => Known(k)'
        /\ \A j \in Keys : Known(j) => Known(j)'
    BY RecordFacts
  <1>2. \A j \in Keys : j # k => commands'[j] = commands[j]
    BY DEF Record
  <1>3. \A j \in Keys : j # k => (Known(j)' <=> Known(j))
    BY <1>2 DEF Known
  <1>4. CASE k \in Keys
    <2>1. Used' = Used \cup {k} /\ k \in Keys \ Used
      BY <1>1, <1>3, <1>4 DEF Used
    <2>2. QED
      BY <2>1 DEF Promise!Once
  <1>5. CASE k \notin Keys
    BY <1>3, <1>5 DEF Used, Promise!Once
  <1>6. QED
    BY <1>4, <1>5

(* An event that the validator accepts and that follows on the lease it    *)
(* replaces is a step of the register.                                     *)
LEMMA EventRefines ==
    ASSUME TypeOK, NEW e \in Events, Dated(e), Follows(e), Accepts(e),
           leases' = Reduce(e), UNCHANGED <<control, clock>>, Promise!Once
    PROVE  PromiseStep
  <1>1. /\ e.role \in RoleIDs /\ e.type \in {"role.bound", "role.transferred", "role.released"}
        /\ e.type # "role.released" => e.next \in Lease
        /\ e.type = "role.transferred" => e.actor \in RoleIDs /\ e.at \in Times
    BY DEF Events
  <1>2. leases \in [RoleIDs -> Lease]
    BY DEF TypeOK
  <1>3. /\ clock \in Nat
        /\ \A l \in Lease : l.bound \in Nat /\ l.expires \in Nat
    BY RolesConstants DEF TypeOK, Lease, Times
  <1>4. CASE e.type = "role.released"
    <2>1. leases' = [leases EXCEPT ![e.role].active = FALSE] /\ leases[e.role].active
      BY <1>4 DEF Reduce, Accepts, AcceptsReleased
    <2>2. Promise!GiveBack(e.role)
      BY <2>1 DEF Promise!GiveBack
    <2>3. QED
      BY <1>1, <2>2 DEF PromiseStep, Promise!Next
  <1>5. ASSUME e.type # "role.released"
        PROVE  leases'[e.role] = e.next /\ Promise!Only(e.role) /\ Promise!Granted(e.role)
    <2>1. leases' = [leases EXCEPT ![e.role] = e.next]
      BY <1>5 DEF Reduce
    <2>2. leases'[e.role] = e.next
      BY <1>1, <1>2, <2>1
    <2>3. Promise!Granted(e.role)
      BY <1>5, <2>2 DEF Promise!Granted, Dated, Follows
    <2>4. QED
      BY <2>1, <2>2, <2>3 DEF Promise!Only
  <1>6. CASE e.type = "role.bound"
    <2>1. leases'[e.role] = e.next /\ Promise!Only(e.role) /\ Promise!Granted(e.role)
      BY <1>5, <1>6
    <2>2. AcceptsBound(e)
      BY <1>6 DEF Accepts
    <2>3. leases[e.role] \in Lease /\ e.next \in Lease
      BY <1>1, <1>2, <1>6
    <2>4. Promise!Runs(leases[e.role], e.next.bound) => e.next.session = leases[e.role].session
      BY <1>3, <2>2, <2>3 DEF AcceptsBound, Promise!Runs
    <2>5. Promise!Take(e.role)
      BY <2>1, <2>4 DEF Promise!Take
    <2>6. QED
      BY <1>1, <2>5 DEF PromiseStep, Promise!Next
  <1>7. CASE e.type = "role.transferred"
    <2>1. leases'[e.role] = e.next /\ Promise!Only(e.role) /\ Promise!Granted(e.role)
      BY <1>5, <1>7
    <2>2. AcceptsTransferred(e)
      BY <1>7 DEF Accepts
    <2> DEFINE now == e.next.bound
    <2>3. /\ e.actor # e.role /\ e.actor \in control
          /\ Promise!Runs(leases[e.actor], now) /\ Promise!Runs(leases[e.role], now)
          /\ leases[e.actor].session \notin {leases[e.role].session, e.next.session}
          /\ leases[e.role].session # e.next.session
      BY <2>2 DEF AcceptsTransferred, Promise!Runs
    <2>4. ASSUME NEW o \in RoleIDs \ {e.role}, Promise!Runs(leases[o], now)
          PROVE  leases[o].session # e.next.session
      <3>1. leases[o] \in Lease /\ e.next \in Lease /\ now = e.at
        BY <1>1, <1>2, <1>7, <2>2 DEF AcceptsTransferred
      <3>2. now \in Nat /\ leases[o].bound \in Nat /\ leases[o].expires \in Nat
        BY <1>3, <3>1
      <3>3. QED
        BY <2>2, <2>4, <3>1, <3>2 DEF AcceptsTransferred, Promise!Runs
    <2> HIDE DEF now
    <2>5. Promise!HandOver(e.actor, e.role)
      BY <2>1, <2>3, <2>4 DEF Promise!HandOver, now
    <2>6. QED
      BY <1>1, <1>7, <2>5 DEF PromiseStep, Promise!Next
  <1>8. QED
    BY <1>1, <1>4, <1>6, <1>7

(* A step that touches neither a lease nor a command.                      *)
LEMMA UnseenStep ==
    ASSUME UNCHANGED <<leases, control, commands, clock>>
    PROVE  PromiseStep
  BY DEF PromiseStep, Promise!vars, Used, Known

LEMMA NextRefines == IInv /\ DecidedInv /\ [Next]_vars => PromiseStep
  <1> SUFFICES ASSUME IInv, DecidedInv, [Next]_vars PROVE PromiseStep
    OBVIOUS
  <1>1. TypeOK /\ LeaseInv
    BY DEF IInv
  <1>2. ASSUME NEW k \in Keys \cup {Fresh}, NEW q \in CommandRequests, Prompt(k, q)
        PROVE  PromiseStep
    <2>1. /\ ~Known(k) /\ Admissible(q) /\ leases' = Reduce(EventOf(q))
          /\ commands' = Record(k, q, EventOf(q)) /\ UNCHANGED <<control, clock>>
      BY <1>2 DEF Prompt
    <2>2. /\ EventOf(q) \in Events /\ Dated(EventOf(q))
          /\ Follows(EventOf(q)) /\ Accepts(EventOf(q))
      BY <1>1, <2>1, EventFacts, EventFollows, AdmissibleAccepted
    <2>3. QED
      BY <1>1, <2>1, <2>2, RecordUses, EventRefines
  <1>3. ASSUME NEW c \in Callers, AppendOnce(c)
        PROVE  PromiseStep
    <2>1. PICK k, q, e : k = caller[c].key /\ q = caller[c].request /\ e = caller[c].event
      OBVIOUS
    <2>2. caller[c].at = "decided" /\ caller[c] \in Running /\ CallerInv(c)
      BY <1>1, <1>3 DEF AppendOnce, IInv, TypeOK, Idle
    <2>3. k \in Keys \cup {Fresh} /\ q \in CommandRequests /\ e \in Events
      BY <2>1, <2>2 DEF Running
    <2>4. CASE ~Known(k) /\ head = caller[c].head /\ Commit(c)
      <3>1. leases' = Reduce(e) /\ commands' = Record(k, q, e) /\ UNCHANGED <<control, clock>>
        BY <2>1, <2>4 DEF Commit
      <3>2. Dated(e) /\ Accepts(e) /\ Follows(e)
        BY <2>1, <2>2, <2>4 DEF CallerInv, DecidedInv
      <3>3. QED
        BY <1>1, <2>3, <2>4, <3>1, <3>2, RecordUses, EventRefines
    <2>5. CASE UNCHANGED <<leases, control, commands, clock>>
      BY <2>5, UnseenStep
    <2>6. QED
      BY <1>3, <2>1, <2>4, <2>5 DEF AppendOnce, Lose
  <1>4. CASE \/ \E c \in Callers, k \in Keys \cup {Fresh}, q \in CommandRequests : Decide(c, k, q)
             \/ \E c \in Callers : Reload(c) \/ Crash(c)
             \/ \E k \in Keys : Replay(k)
             \/ UNCHANGED vars
    BY <1>4, UnseenStep DEF Decide, Reload, Crash, Lose, Replay, vars
  <1>5. CASE \E r \in Controllers : UpdateRole(r)
    <2>1. control' \in SUBSET Controllers /\ UNCHANGED <<leases, commands, clock>>
      BY <1>1, <1>5 DEF UpdateRole, TypeOK
    <2>2. Promise!Empower
      BY <2>1 DEF Promise!Empower, Used, Known
    <2>3. QED
      BY <2>2 DEF PromiseStep, Promise!Next
  <1>6. CASE Tick
    <2>1. Promise!Tick
      BY <1>6 DEF Tick, Promise!Tick, Used, Known
    <2>2. QED
      BY <2>1 DEF PromiseStep, Promise!Next
  <1>7. QED
    BY <1>2, <1>3, <1>4, <1>5, <1>6 DEF Next

LEMMA InitRefines == Init => Promise!Init
  <1> SUFFICES ASSUME Init PROVE Promise!Init
    OBVIOUS
  <1>1. Used = {}
    BY DEF Init, Used, Known
  <1>2. \A r \in RoleIDs : leases[r].bound = 0 /\ ~leases[r].active
    BY DEF Init, NoLease
  <1>3. QED
    BY <1>1, <1>2 DEF Init, Promise!Init

(* The role commands of any number of processes (actions.go), with their   *)
(* races, retries and crashes, implement one register for each role that   *)
(* changes in one step, and a key takes effect at most once.               *)
THEOREM RolesKeepPromise == Spec => PromiseSpec
  <1>1. Promise!Init /\ [][Promise!Next]_(Promise!vars) => PromiseSpec
    BY DEF PromiseSpec, Promise!Spec
  <1>2. IInv /\ DecidedInv /\ [Next]_vars => [Promise!Next]_(Promise!vars)
    BY NextRefines DEF PromiseStep
  <1>3. QED
    BY <1>1, <1>2, InitRefines, LeaseInvariant, DecisionsFollow, PTL DEF Spec

(* A role changes hands.                                                   *)
Deprived(r) == leases[r].active /\ leases'[r].session # leases[r].session
KeptUntil(r) ==
    /\ leases[r].bound <= leases'[r].bound
    /\ Deprived(r) => \/ leases[r].expires <= leases'[r].bound
                      \/ \E c \in control \ {r} : Promise!Runs(leases[c], leases'[r].bound)

(* Nobody loses a role (actions.go) that is leased still at the instant of *)
(* the change, unless a controller that holds its own role hands it over;  *)
(* and the leases of a role never go back in time.                         *)
THEOREM RolesAreKept == Spec => [][\A r \in RoleIDs : KeptUntil(r)]_vars
  <1> DEFINE A == \A r \in RoleIDs : KeptUntil(r)
  <1>1. ASSUME IInv, IInv', PromiseStep PROVE A
    <2> SUFFICES ASSUME NEW r \in RoleIDs PROVE KeptUntil(r)
      OBVIOUS
    <2>1. leases \in [RoleIDs -> Lease] /\ leases'[r] \in Lease /\ leases[r] \in Lease
      BY <1>1 DEF IInv, TypeOK
    <2>2. leases[r].bound \in Nat /\ leases[r].expires \in Nat
      BY <2>1, RolesConstants DEF Lease, Times
    <2>3. CASE leases'[r] = leases[r]
      BY <2>2, <2>3 DEF KeptUntil, Deprived
    <2>4. ASSUME NEW o \in RoleIDs, Promise!Take(o) \/ \E c \in RoleIDs : Promise!HandOver(c, o)
          PROVE  KeptUntil(r)
      <3>1. Promise!Only(o) /\ Promise!Granted(o)
        BY <2>4 DEF Promise!Take, Promise!HandOver
      <3>2. CASE o # r
        <4>1. leases'[r] = leases[r]
          BY <2>1, <3>1, <3>2 DEF Promise!Only
        <4>2. QED
          BY <2>3, <4>1
      <3>3. CASE o = r
        <4>1. leases[r].bound <= leases'[r].bound
          BY <3>1, <3>3 DEF Promise!Granted
        <4>2. CASE Promise!Take(r)
          <5>1. ASSUME Deprived(r) PROVE ~(leases'[r].bound < leases[r].expires)
            BY <4>1, <4>2, <5>1 DEF Promise!Take, Promise!Runs, Deprived
          <5>2. leases'[r].bound \in Nat
            BY <2>1, RolesConstants DEF Lease, Times
          <5>3. QED
            BY <2>2, <4>1, <5>1, <5>2 DEF KeptUntil
        <4>3. CASE \E c \in RoleIDs : Promise!HandOver(c, r)
          BY <4>1, <4>3 DEF Promise!HandOver, KeptUntil
        <4>4. QED
          BY <2>4, <3>3, <4>2, <4>3
      <3>4. QED
        BY <3>2, <3>3
    <2>5. ASSUME NEW o \in RoleIDs, Promise!GiveBack(o)
          PROVE  KeptUntil(r)
      <3>1. leases' = [leases EXCEPT ![o].active = FALSE]
        BY <2>5 DEF Promise!GiveBack
      <3>2. leases'[r].bound = leases[r].bound /\ leases'[r].session = leases[r].session
        BY <2>1, <3>1 DEF Lease
      <3>3. QED
        BY <2>2, <3>2 DEF KeptUntil, Deprived
    <2>6. CASE Promise!Empower \/ Promise!Tick \/ UNCHANGED Promise!vars
      BY <2>3, <2>6 DEF Promise!Empower, Promise!Tick, Promise!vars
    <2>7. QED
      BY <1>1, <2>4, <2>5, <2>6 DEF PromiseStep, Promise!Next
  <1>2. IInv /\ DecidedInv /\ [Next]_vars => [A]_vars
    <2>1. IInv /\ DecidedInv /\ [Next]_vars => A
      BY <1>1, NextIInv, NextRefines
    <2> HIDE DEF A
    <2>2. QED
      BY <2>1
  <1>3. QED
    BY <1>2, LeaseInvariant, DecisionsFollow, PTL DEF Spec
=============================================================================
