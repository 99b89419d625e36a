---------------------------- MODULE RolePromise ----------------------------
(***************************************************************************)
(* What the role commands promise of a lease: each role is one register    *)
(* that holds one lease, and a command changes it in one step. A session   *)
(* takes a role that nobody else has at that instant; only a controller    *)
(* that holds its own role hands one over while it is held. The instant of *)
(* a change is in its past, never before the lease that it replaces.       *)
(*                                                                         *)
(* Loads, decisions, the head of the journal, races for it, answers and    *)
(* crashes do not appear: they are how Roles keeps the promise.            *)
(***************************************************************************)
EXTENDS Naturals

CONSTANTS RoleIDs,      \* the roles
          Sessions,     \* the sessions that may hold them
          Controllers,  \* the roles that may have role.control
          Keys          \* the idempotency keys of the commands

VARIABLES leases,    \* the latest lease of each role
          control,   \* the roles with the role.control capability
          used,      \* the keys whose command has taken effect
          clock      \* the time

vars == <<leases, control, used, clock>>

Init ==
    /\ \A r \in RoleIDs : leases[r].bound = 0 /\ ~leases[r].active
    /\ control \subseteq Controllers
    /\ used = {}
    /\ clock = 0

(* Who holds a role at an instant.                                         *)
Runs(l, t) == l.active /\ l.bound <= t /\ t < l.expires

(* The one lease that a command changes, and the key it is given under.    *)
Only(r) == leases' = [leases EXCEPT ![r] = leases'[r]]
Once    == used' = used \/ \E k \in Keys \ used : used' = used \cup {k}

(* A new lease is for some time, and follows on the one it replaces.       *)
Granted(r) ==
    LET l == leases'[r]
    IN  /\ l.active /\ l.session \in Sessions
        /\ l.bound < l.expires /\ leases[r].bound <= l.bound /\ l.bound <= clock

(* A session binds, renews or takes over a role.                           *)
Take(r) ==
    /\ Only(r) /\ Granted(r) /\ Once
    /\ Runs(leases[r], leases'[r].bound) => leases'[r].session = leases[r].session
    /\ UNCHANGED <<control, clock>>

(* A controller c hands a role over, to a session without another one.     *)
HandOver(c, r) ==
    /\ Only(r) /\ Granted(r) /\ Once
    /\ LET now == leases'[r].bound
       IN  /\ c # r /\ c \in control /\ Runs(leases[c], now) /\ Runs(leases[r], now)
           /\ leases[c].session \notin {leases[r].session, leases'[r].session}
           /\ leases[r].session # leases'[r].session
           /\ \A o \in RoleIDs \ {r} :
                 Runs(leases[o], now) => leases[o].session # leases'[r].session
    /\ UNCHANGED <<control, clock>>

(* A session gives its role back.                                          *)
GiveBack(r) ==
    /\ leases[r].active
    /\ leases' = [leases EXCEPT ![r].active = FALSE]
    /\ Once
    /\ UNCHANGED <<control, clock>>

(* A graph change gives or takes the capability; time passes.              *)
Empower ==
    /\ control' \in SUBSET Controllers
    /\ UNCHANGED <<leases, used, clock>>

Tick ==
    /\ clock' = clock + 1
    /\ UNCHANGED <<leases, control, used>>

Next ==
    \/ \E r \in RoleIDs : \/ Take(r) \/ GiveBack(r)
                          \/ \E c \in RoleIDs : HandOver(c, r)
    \/ Empower \/ Tick

Spec == Init /\ [][Next]_vars
=============================================================================
