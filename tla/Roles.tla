------------------------------- MODULE Roles -------------------------------
(***************************************************************************)
(* The leases of the stable roles: harness sessions bind, renew, take over *)
(* and release a role, and a controller hands an unexpired lease to a      *)
(* successor. Every command loads the state, decides on it, appends on the *)
(* head it decided on and loads again for its answer; other processes,     *)
(* retries with the same key, graph changes and the clock come between.    *)
(*                                                                         *)
(* The harness travels with its session. Reasons, formats and the limits   *)
(* of their sizes are left out; an answer is the event it was made from.   *)
(***************************************************************************)
EXTENDS Naturals, FiniteSets

CONSTANTS Callers,      \* processes that run role commands
          RoleIDs,      \* the roles of the graph
          Controllers,  \* those a graph change may give role.control
          Sessions,     \* harness sessions
          Keys,         \* idempotency keys that are used again
          Fresh,        \* a key that is used once
          NoCommand,    \* the key is unused
          TTLs,         \* lease times asked for; 0: none given
          RenewalTTLs,  \* lease times a renewal asks for
          DefaultTTL,   \* 15 minutes
          MaxTime,      \* bound: the clock
          MaxHead       \* bound: commands

ASSUME RolesConstants ==
    /\ Fresh \notin Keys
    /\ Controllers \subseteq RoleIDs
    /\ TTLs \subseteq Nat /\ RenewalTTLs \subseteq Nat \ {0}
    /\ DefaultTTL \in Nat \ {0}
    /\ MaxTime \in Nat
    /\ MaxHead \in Nat

VARIABLES
    leases,    \* state.Leases: the latest lease of each role
    control,   \* roles with the role.control capability
    commands,  \* state.Commands: the request and the event of each key
    head,      \* the number of commands
    clock,     \* Now()
    caller,    \* what each process is doing
    reply      \* the answer the last step gave

vars == <<leases, control, commands, head, clock, caller, reply>>

Times   == 0..MaxTime
NoLease == [session |-> "none", bound |-> 0, expires |-> 1, active |-> FALSE]
Lease   == [session: Sessions \cup {"none"}, bound: Times, expires: Nat, active: BOOLEAN]

Bindings  == [op: {"bind", "takeover"}, role: RoleIDs, session: Sessions, ttl: TTLs]
Renewals  == [op: {"renew"}, role: RoleIDs, session: Sessions, ttl: RenewalTTLs]
Releases  == [op: {"release"}, role: RoleIDs, session: Sessions]

(* A controller is not the role it transfers, and the three sessions of a  *)
(* transfer are distinct.                                                  *)
Transfers == {q \in [op: {"transfer"}, actor: RoleIDs, actorSession: Sessions,
                     role: RoleIDs, expected: Sessions, session: Sessions, ttl: TTLs] :
                 /\ q.actor # q.role
                 /\ Cardinality({q.actorSession, q.expected, q.session}) = 3}

CommandRequests == Bindings \cup Renewals \cup Releases \cup Transfers

(* The events; a released lease keeps its session and its times.           *)
Events ==
    [type: {"role.bound"}, role: RoleIDs, next: Lease] \cup
    [type: {"role.transferred"}, role: RoleIDs, next: Lease, previous: Lease,
     actor: RoleIDs, actorSession: Sessions, at: Times] \cup
    [type: {"role.released"}, role: RoleIDs, at: Times]

Command == [request: CommandRequests, event: Events]

ASSUME NoCommandIsNone == NoCommand \notin Command

Bound(q, l)       == [type |-> "role.bound", role |-> q.role, next |-> l]
Transferred(q, l) == [type |-> "role.transferred", role |-> q.role, next |-> l,
                      previous |-> leases[q.role], actor |-> q.actor,
                      actorSession |-> q.actorSession, at |-> clock]
Released(q)       == [type |-> "role.released", role |-> q.role, at |-> clock]

Idle    == [at |-> "idle"]
Running == [at: {"decided", "committed"}, key: Keys \cup {Fresh}, request: CommandRequests,
            event: Events, head: 0..MaxHead]
NoReply == [at |-> "none"]

(* A command whose key nobody uses again need not be remembered.           *)
Known(k)         == k \in Keys /\ commands[k] # NoCommand
Record(k, q, e)  == [j \in Keys |-> IF j = k THEN [request |-> q, event |-> e] ELSE commands[j]]

TypeOK ==
    /\ leases \in [RoleIDs -> Lease] /\ \A r \in RoleIDs : leases[r].bound < leases[r].expires
    /\ control \subseteq Controllers
    /\ commands \in [Keys -> Command \cup {NoCommand}]
    /\ head \in 0..MaxHead /\ clock \in Times
    /\ caller \in [Callers -> Running \cup {Idle}]

Init ==
    /\ leases = [r \in RoleIDs |-> NoLease]
    /\ control \in SUBSET Controllers
    /\ commands = [k \in Keys |-> NoCommand]
    /\ head = 0 /\ clock = 0
    /\ caller = [c \in Callers |-> Idle]
    /\ reply = NoReply

-----------------------------------------------------------------------------
(* What a command may do to the state it has loaded.                       *)

Unexpired(l) == l.active /\ clock < l.expires
ValidLease(l) == Unexpired(l) /\ l.bound <= clock

(* Mutant: no lease time is put in for a request without one.              *)
NewLeaseAsAsked(q) ==
    [session |-> q.session, bound |-> clock, expires |-> clock + q.ttl, active |-> TRUE]

NewLease(q) ==
    [session |-> q.session, bound |-> clock, active |-> TRUE,
     expires |-> clock + (IF q.ttl = 0 THEN DefaultTTL ELSE q.ttl)]

(* BindRole, with takeover: an unexpired lease is only its own session's   *)
(* to bind again, and nobody's to take over.                               *)
MayBind(q) ==
    Unexpired(leases[q.role]) => leases[q.role].session = q.session /\ q.op = "bind"

MayRenew(q) == Unexpired(leases[q.role]) /\ leases[q.role].session = q.session

MayRelease(q) == leases[q.role].active /\ leases[q.role].session = q.session

(* A transfer is decided by a leased controller about exactly the lease it *)
(* names, for a session that holds no other unexpired role.                *)
MayTransfer(q) ==
    /\ ValidLease(leases[q.actor]) /\ leases[q.actor].session = q.actorSession
    /\ q.actor \in control
    /\ ValidLease(leases[q.role]) /\ leases[q.role].session = q.expected
    /\ \A r \in RoleIDs \ {q.role} :
          leases[r].session = q.session => ~Unexpired(leases[r])

Admissible(q) ==
    \/ q.op \in {"bind", "takeover"} /\ MayBind(q)
    \/ q.op = "renew" /\ MayRenew(q)
    \/ q.op = "release" /\ MayRelease(q)
    \/ q.op = "transfer" /\ MayTransfer(q)

EventOf(q) ==
    CASE q.op = "transfer" -> Transferred(q, NewLease(q))
      [] q.op = "release"  -> Released(q)
      [] OTHER             -> Bound(q, NewLease(q))

-----------------------------------------------------------------------------
(* The steps of a command.                                                 *)

(* Load and decide; the clock is read after the load.                      *)
Decide(c, k, q) ==
    /\ caller[c] = Idle
    /\ ~Known(k)
    /\ Admissible(q)
    /\ caller' = [caller EXCEPT ![c] =
          [at |-> "decided", key |-> k, request |-> q, event |-> EventOf(q), head |-> head]]
    /\ reply' = NoReply
    /\ UNCHANGED <<leases, control, commands, head, clock>>

(* The answer to a command whose event is e: the role's present lease      *)
(* after a bind or a renewal, the event in the journal otherwise.          *)
Answer(q, e) ==
    IF q.op \in {"bind", "takeover", "renew"} THEN Bound(q, leases[q.role]) ELSE e

Reply(k, q, e, answer) ==
    reply' = [at |-> "answered", key |-> k, request |-> q, event |-> e, answer |-> answer]

(* A key that is known is answered without a decision, if the request is   *)
(* the same: a renewal, a transfer and a release from the journal, a bind  *)
(* with the role's present lease.                                          *)
Replay(k) ==
    /\ Known(k)
    /\ LET q == commands[k].request
           e == commands[k].event
       IN  Reply(k, q, e, IF q.op = "renew" THEN e ELSE Answer(q, e))
    /\ UNCHANGED <<leases, control, commands, head, clock, caller>>

(* What the reducer makes of the three events.                             *)
Reduce(e) ==
    [leases EXCEPT ![e.role] =
        IF e.type = "role.released" THEN [@ EXCEPT !.active = FALSE] ELSE e.next]

Lose(c) == /\ caller' = [caller EXCEPT ![c] = Idle]
           /\ reply' = NoReply
           /\ UNCHANGED <<leases, control, commands, head, clock>>

(* The command is committed. Its event names what the answer is made from. *)
Commit(c) ==
    /\ head < MaxHead
    /\ leases' = Reduce(caller[c].event)
    /\ commands' = Record(caller[c].key, caller[c].request, caller[c].event)
    /\ head' = head + 1
    /\ caller' = [caller EXCEPT ![c].at = "committed", ![c].head = 0]
    /\ reply' = NoReply
    /\ UNCHANGED <<control, clock>>

(* Mutant: the append is not bound to the head of the decision.            *)
AppendOnAnyHead(c) ==
    /\ caller[c].at = "decided" /\ ~Known(caller[c].key)
    /\ Commit(c)

(* AppendOnce: a key that another process has committed meanwhile is       *)
(* confirmed for the same request and refused for another; a head that     *)
(* has moved is refused.                                                   *)
AppendOnce(c) ==
    /\ caller[c].at = "decided"
    /\ LET k == caller[c].key
           q == caller[c].request
       IN  \/ ~Known(k) /\ head = caller[c].head /\ Commit(c)
           \/ /\ Known(k) /\ commands[k].request = q
              /\ caller' = [caller EXCEPT ![c].at = "committed", ![c].head = 0,
                                         ![c].event = commands[k].event]
              /\ reply' = NoReply
              /\ UNCHANGED <<leases, control, commands, head, clock>>
           \/ /\ IF Known(k) THEN commands[k].request # q ELSE head # caller[c].head
              /\ Lose(c)

(* Mutant: every answer is made from the role's present lease.             *)
ReloadPresent(c) ==
    /\ caller[c].at = "committed"
    /\ LET q == caller[c].request
       IN  Reply(caller[c].key, q, caller[c].event, Bound(q, leases[q.role]))
    /\ caller' = [caller EXCEPT ![c] = Idle]
    /\ UNCHANGED <<leases, control, commands, head, clock>>

(* The second load, and the answer.                                        *)
Reload(c) ==
    /\ caller[c].at = "committed"
    /\ LET q == caller[c].request
           e == caller[c].event
       IN  Reply(caller[c].key, q, e, Answer(q, e))
    /\ caller' = [caller EXCEPT ![c] = Idle]
    /\ UNCHANGED <<leases, control, commands, head, clock>>

(* A command whose steps nothing comes between, at once: what the callers  *)
(* that are in the middle of theirs find done by others.                   *)
Prompt(k, q) ==
    /\ ~Known(k) /\ Admissible(q) /\ head < MaxHead
    /\ leases' = Reduce(EventOf(q))
    /\ commands' = Record(k, q, EventOf(q))
    /\ head' = head + 1
    /\ reply' = NoReply
    /\ UNCHANGED <<control, clock, caller>>

(* The process is gone, or its second load fails.                          *)
Crash(c) == caller[c] # Idle /\ Lose(c)

-----------------------------------------------------------------------------
(* Around the commands.                                                    *)

(* A graph change gives or takes the capability; other commands of the     *)
(* project advance the head in the same way.                               *)
UpdateRole(r) ==
    /\ head < MaxHead
    /\ control' = IF r \in control THEN control \ {r} ELSE control \cup {r}
    /\ head' = head + 1
    /\ reply' = NoReply
    /\ UNCHANGED <<leases, commands, clock, caller>>

Tick == /\ clock < MaxTime
        /\ clock' = clock + 1
        /\ reply' = NoReply
        /\ UNCHANGED <<leases, control, commands, head, caller>>

Next ==
    \/ \E k \in Keys \cup {Fresh}, q \in CommandRequests :
          Prompt(k, q) \/ \E c \in Callers : Decide(c, k, q)
    \/ \E c \in Callers : \/ AppendOnce(c) \/ Reload(c) \/ Crash(c)
    \/ \E k \in Keys : Replay(k)
    \/ \E r \in Controllers : UpdateRole(r)
    \/ Tick

Spec == Init /\ [][Next]_vars

-----------------------------------------------------------------------------
(* What the validation of an imported history demands of an event that     *)
(* follows on the leases "leases" (lifecycle_validation.go), committed at  *)
(* the instant "at" of its command.                                        *)

AcceptsBound(e) ==
    LET current == leases[e.role]
    IN  /\ e.next.bound < e.next.expires
        /\ current.active =>
              /\ current.bound <= e.next.bound
              /\ current.expires <= e.next.bound \/ current.session = e.next.session

AcceptsTransferred(e) ==
    /\ e.actor # e.role /\ e.actorSession \notin {e.previous.session, e.next.session}
    /\ e.previous.session # e.next.session
    /\ e.next.bound = e.at /\ e.next.bound < e.next.expires
    /\ e.previous.bound <= e.at /\ e.at < e.previous.expires
    /\ leases[e.actor].active /\ leases[e.actor].session = e.actorSession
    /\ leases[e.actor].bound <= e.at /\ e.at < leases[e.actor].expires
    /\ e.actor \in control
    /\ leases[e.role] = e.previous /\ e.previous.active
    /\ \A r \in RoleIDs \ {e.role} :
          leases[r].active /\ leases[r].session = e.next.session
          => e.at < leases[r].bound \/ leases[r].expires <= e.at

AcceptsReleased(e) == leases[e.role].active /\ leases[e.role].bound <= e.at

Accepts(e) ==
    \/ e.type = "role.bound" /\ AcceptsBound(e)
    \/ e.type = "role.transferred" /\ AcceptsTransferred(e)
    \/ e.type = "role.released" /\ AcceptsReleased(e)

-----------------------------------------------------------------------------
(* Properties.                                                             *)

(* Every event the role commands commit, whatever came between their       *)
(* decision and their append, is one that the validator of imported        *)
(* histories accepts on the state it is applied to: no two sessions have a *)
(* role at once unless a leased, capable and separate controller handed it *)
(* over, naming exactly the lease it replaces, to a session without        *)
(* another role.                                                           *)
HistoryRevalidates ==
    [][\A c \in Callers :
          caller[c].at = "decided" /\ caller'[c].at = "committed" /\ head' # head
          => Accepts(caller[c].event)]_vars

(* What commits changes one lease at a time, as if each command were one   *)
(* step: the commands of several processes, their retries and their races  *)
(* implement one register for each role.                                   *)
Used == {k \in Keys : Known(k)}

Promise == INSTANCE RolePromise WITH used <- Used

PromiseSpec == Promise!Spec

(* The answer of a transfer is its own event, and an answer under a key    *)
(* belongs to the one command committed under it, also when that command   *)
(* was another process's and the role has changed hands since.             *)
ReceiptIsExact ==
    reply # NoReply =>
        /\ reply.request.op = "transfer" => reply.answer = reply.event
        /\ reply.key \in Keys => commands[reply.key].event = reply.event
=============================================================================
