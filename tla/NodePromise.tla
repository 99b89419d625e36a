---------------------------- MODULE NodePromise ----------------------------
(***************************************************************************)
(* What the frontier promises of the nodes of a graph: a node starts, is   *)
(* completed or is skipped in one step, on what its sources and the        *)
(* capacity say at that very moment, and leaves its state only that way.   *)
(* The graph changes only where nothing has been decided yet.              *)
(*                                                                         *)
(* Processes, settlement loops, the head of the journal, idempotency keys, *)
(* the attempts, closure receipts and incidents do not appear: they are    *)
(* how Lifecycle keeps the promise.                                        *)
(***************************************************************************)
EXTENDS Integers, FiniteSets

CONSTANTS Nodes, Edges, FirstNodes, FirstEdges,
          NoDefinition, \* of a node that is not in the graph
          Capacity      \* how much of the resource there is

VARIABLES status,       \* status of each node; a finished one shows its outcome
          definition,   \* its kind, how much it holds while it is active, how
                        \* often it is planned again, whom it supersedes
          edges,        \* edges of the graph
          started,      \* how often each node was started
          holding       \* the nodes that hold capacity

vars == <<status, definition, edges, started, holding>>

Outcomes == {"success", "failure", "cancelled"}
Finished == Outcomes \cup {"skipped"}

Init ==
    /\ status   = [n \in Nodes |-> "absent"]
    /\ definition = [n \in Nodes |-> NoDefinition]
    /\ edges    = {}
    /\ started  = [n \in Nodes |-> 0]
    /\ holding  = {}

Inputs(n)    == {e \in edges : e.to = n}
Satisfied(e) == status[e.from] \in e.when
Refuted(e)   == status[e.from] \in Finished /\ ~Satisfied(e)
Held         == Cardinality({u \in Nodes \X (1..Capacity) :
                                u[1] \in holding /\ u[2] <= definition[u[1]].need})

(* A node moves on from "planned" at the moment its sources say so.        *)
MayRun(n) ==
    /\ status[n] = "planned"
    /\ \A e \in Inputs(n) : Satisfied(e)
    /\ definition[n].need > 0 => Held + definition[n].need <= Capacity
Hopeless(n) ==
    /\ status[n] = "planned"
    /\ \E e \in Inputs(n) : Refuted(e)

Turn(n, s) == status' = [status EXCEPT ![n] = s]

(* Of this node alone the definition is another one from now on.           *)
Redefined(n) == \A m \in Nodes \ {n} : definition'[m] = definition[m]

Start(n) ==
    /\ definition[n].kind # "join" /\ MayRun(n)
    /\ Turn(n, "active")
    /\ started' = [started EXCEPT ![n] = @ + 1]
    /\ holding' = IF definition[n].need > 0 THEN holding \cup {n} ELSE holding
    /\ UNCHANGED <<definition, edges>>

Settle(n) ==
    /\ \/ definition[n].kind = "join" /\ MayRun(n) /\ Turn(n, "success")
       \/ Hopeless(n) /\ Turn(n, "skipped")
    /\ UNCHANGED <<definition, edges, started, holding>>

Release(n) ==
    /\ status[n] = "active" /\ n \in holding
    /\ holding' = holding \ {n}
    /\ UNCHANGED <<status, definition, edges, started>>

(* Whoever holds something does not finish.                                *)
Finish(n) ==
    /\ status[n] = "active" /\ n \notin holding
    /\ \/ \E s \in Outcomes : Turn(n, s)
       \/ started[n] <= definition[n].budget /\ Turn(n, "planned")
    /\ UNCHANGED <<definition, edges, started, holding>>

Import ==
    /\ \A n \in Nodes : status[n] = "absent"
    /\ status' = [n \in Nodes |-> IF FirstNodes[n] = NoDefinition THEN "absent" ELSE "planned"]
    /\ definition' = FirstNodes
    /\ edges' = FirstEdges
    /\ UNCHANGED <<started, holding>>

Add(n) ==
    /\ status[n] = "absent" /\ Turn(n, "planned") /\ Redefined(n)
    /\ UNCHANGED <<edges, started, holding>>

(* What a node is and what it waits for changes only while it waits.       *)
Update(n) ==
    /\ status[n] = "planned" /\ Redefined(n)
    /\ UNCHANGED <<status, edges, started, holding>>

Rewire(e) ==
    /\ status[e.to] = "planned"
    /\ \/ status[e.from] # "absent" /\ edges' = edges \cup {e}
       \/ edges' = edges \ {e}
    /\ UNCHANGED <<status, definition, started, holding>>

Remove(n) ==
    /\ status[n] = "planned" /\ \A m \in Nodes \ {n} : definition[m].supersedes # n
    /\ Turn(n, "absent") /\ definition' = [definition EXCEPT ![n] = NoDefinition]
    /\ edges' = {e \in edges : e.from # n /\ e.to # n}
    /\ UNCHANGED <<started, holding>>

Supersede(old, new) ==
    /\ status[old] # "absent" /\ status[new] = "absent" /\ old \notin holding
    /\ \A m \in Nodes : definition[m].supersedes # old
    /\ status' = [status EXCEPT ![old] = "superseded", ![new] = "planned"]
    /\ Redefined(new) /\ definition'[new].supersedes = old
    /\ UNCHANGED <<edges, started, holding>>

Next ==
    \/ Import
    \/ \E n \in Nodes : \/ Start(n) \/ Settle(n) \/ Release(n) \/ Finish(n)
                        \/ Add(n) \/ Update(n) \/ Remove(n)
    \/ \E e \in Edges : Rewire(e)
    \/ \E old, new \in Nodes : Supersede(old, new)

Spec == Init /\ [][Next]_vars
=============================================================================
