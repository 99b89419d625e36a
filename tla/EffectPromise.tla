--------------------------- MODULE EffectPromise ---------------------------
(***************************************************************************)
(* What effects.go promises of an external effect: it is one object, used  *)
(* by one exchange with the adapter at a time. An exchange begins with its *)
(* record in the journal, ends with its receipt there or with nothing, and *)
(* nobody decides about the effect's incident meanwhile.                   *)
(*                                                                         *)
(* Processes, sessions, locks, leases, idempotency keys and the head of    *)
(* the journal do not appear: they are how Effects keeps the promise.      *)
(***************************************************************************)
EXTENDS Naturals

CONSTANTS Effects,    \* the effects of a project
          Budget      \* how many failures an incident may have

VARIABLES record,     \* status of each effect in the journal
          circuit,    \* status of its incident
          spent,      \* how much of the incident's budget is spent
          exchange,   \* what is going on with the adapter, or its receipt
          calls       \* how often the adapter was told to act

vars == <<record, circuit, spent, exchange, calls>>

Receipts  == {"confirmed", "failed", "unknown", "reconciling"}
Exchanges == {"none", "dispatch", "ask"} \cup Receipts

TypeOK ==
    /\ record \in [Effects -> Receipts \cup {"none", "prepared", "dispatched"}]
    /\ circuit \in [Effects -> {"none", "open", "circuit-open", "resolved"}]
    /\ spent \in [Effects -> 0..Budget]
    /\ exchange \in [Effects -> Exchanges]
    /\ calls \in [Effects -> Nat]

Init ==
    /\ record   = [e \in Effects |-> "none"]
    /\ circuit  = [e \in Effects |-> "none"]
    /\ spent    = [e \in Effects |-> 0]
    /\ exchange = [e \in Effects |-> "none"]
    /\ calls    = [e \in Effects |-> 0]

Free(e) == exchange[e] = "none"

Prepare(e) ==
    /\ record[e] = "none" /\ Free(e)
    /\ record' = [record EXCEPT ![e] = "prepared"]
    /\ UNCHANGED <<circuit, spent, exchange, calls>>

(* The adapter will be told to act: only once, and it is on record first.  *)
Dispatch(e) ==
    /\ record[e] = "prepared" /\ Free(e)
    /\ record'   = [record EXCEPT ![e] = "dispatched"]
    /\ exchange' = [exchange EXCEPT ![e] = "dispatch"]
    /\ UNCHANGED <<circuit, spent, calls>>

(* The adapter will be asked what became of an effect that is not settled, *)
(* unless its circuit is open. A retried question is on record already.    *)
Ask(e) ==
    /\ record[e] \notin {"none", "confirmed"} /\ Free(e) /\ circuit[e] \in {"none", "open"}
    /\ \/ record' = [record EXCEPT ![e] = "reconciling"]
       \/ record[e] # "prepared" /\ UNCHANGED record
    /\ exchange' = [exchange EXCEPT ![e] = "ask"]
    /\ UNCHANGED <<circuit, spent, calls>>

(* The adapter answers; a dispatch has acted by then.                      *)
Answer(e) ==
    /\ \/ exchange[e] = "dispatch" /\ calls[e] = 0 /\ calls' = [calls EXCEPT ![e] = 1]
       \/ exchange[e] = "ask" /\ UNCHANGED calls
    /\ \E r \in Receipts : exchange' = [exchange EXCEPT ![e] = r]
    /\ UNCHANGED <<record, circuit, spent>>

Spend(n) == IF n < Budget THEN n + 1 ELSE Budget

(* What a receipt means for the incident: a failure or an unknown result   *)
(* opens it, then spends its budget and trips the circuit with the last of *)
(* it; a confirmation resolves it.                                         *)
Judge(e, r) ==
    \/ /\ r \in {"failed", "unknown"} /\ circuit[e] = "none"
       /\ circuit' = [circuit EXCEPT ![e] = "open"]
       /\ spent' = [spent EXCEPT ![e] = 0]
    \/ /\ r \in {"failed", "unknown"} /\ circuit[e] = "open"
       /\ circuit' = [circuit EXCEPT ![e] = IF spent[e] + 1 >= Budget THEN "circuit-open" ELSE "open"]
       /\ spent' = [spent EXCEPT ![e] = Spend(@)]
    \/ /\ r = "confirmed" /\ circuit[e] = "open"
       /\ circuit' = [circuit EXCEPT ![e] = "resolved"]
       /\ UNCHANGED spent
    \/ /\ r = "reconciling" \/ (r = "confirmed" /\ circuit[e] = "none")
       /\ UNCHANGED <<circuit, spent>>

(* The receipt goes on record, together with its meaning.                  *)
Observe(e) ==
    /\ record[e] \notin {"none", "prepared", "confirmed"} /\ exchange[e] \in Receipts
    /\ record' = [record EXCEPT ![e] = exchange[e]]
    /\ circuit[e] \in {"none", "open"} /\ Judge(e, exchange[e])
    /\ exchange' = [exchange EXCEPT ![e] = "none"]
    /\ UNCHANGED calls

(* An exchange ends without a receipt on record.                           *)
GiveUp(e) ==
    /\ ~Free(e)
    /\ exchange' = [exchange EXCEPT ![e] = "none"]
    /\ UNCHANGED <<record, circuit, spent, calls>>

(* A role reports progress on an open incident, which spends of the budget *)
(* and may trip the circuit, or trips it.                                  *)
Report(e) ==
    /\ circuit[e] = "open" /\ Free(e)
    /\ \E c \in {"open", "circuit-open"} : circuit' = [circuit EXCEPT ![e] = c]
    /\ spent' = [spent EXCEPT ![e] = Spend(@)]
    /\ UNCHANGED <<record, exchange, calls>>

Trip(e) ==
    /\ circuit[e] = "open" /\ Free(e)
    /\ circuit' = [circuit EXCEPT ![e] = "circuit-open"]
    /\ UNCHANGED <<record, spent, exchange, calls>>

(* Only a role closes a circuit again, with a new budget.                  *)
Retry(e) ==
    /\ circuit[e] = "circuit-open" /\ Free(e)
    /\ circuit' = [circuit EXCEPT ![e] = "open"]
    /\ spent'   = [spent EXCEPT ![e] = 0]
    /\ UNCHANGED <<record, exchange, calls>>

Next == \E e \in Effects :
    \/ Prepare(e) \/ Dispatch(e) \/ Ask(e) \/ Answer(e) \/ Observe(e) \/ GiveUp(e)
    \/ Report(e) \/ Trip(e) \/ Retry(e)

Spec == Init /\ [][Next]_vars
=============================================================================
