----------------------------- MODULE CommandLog -----------------------------
(***************************************************************************)
(* What the journal promises to the rest of DAGrail: one append-only       *)
(* sequence of commands, each with its own idempotency key, opened by an   *)
(* establishment fence and closed by at most one retirement fence.         *)
(*                                                                         *)
(* "durable" is the length of the prefix that survives a power loss.       *)
(***************************************************************************)
EXTENDS Naturals, Sequences

CONSTANTS Keys,      \* idempotency keys of ordinary commands
          Intents    \* request digests a command can carry

VARIABLES log,       \* the committed commands, oldest first
          durable    \* how many of them survive a power loss

vars == <<log, durable>>

(* The two authority fences use their kind as their key: a journal holds   *)
(* at most one of each.                                                    *)
Fences  == {"establish", "retire"}
Command == [key: Keys \cup Fences, intent: Intents]

HasKey(l, k)   == \E i \in DOMAIN l : l[i].key = k
Retired(l)     == HasKey(l, "retire")
Established(l) == l # <<>> /\ l[1].key = "establish"

TypeOK == /\ log \in Seq(Command)
          /\ durable \in 0..Len(log)

Init == log = <<>> /\ durable = 0

(* A new command becomes visible. Nothing may follow a retirement, nothing *)
(* but the establishment fence may come first, and no key is used twice.   *)
Commit(c) == /\ ~Retired(log)
             /\ ~HasKey(log, c.key)
             /\ Established(log) <=> c.key # "establish"
             /\ log' = Append(log, c)
             /\ UNCHANGED durable

(* The directory entries written so far reach stable storage.              *)
Sync == /\ durable' = Len(log)
        /\ UNCHANGED log

(* A power loss takes some of the commands that were not yet synced; what  *)
(* it leaves is on stable storage.                                         *)
PowerLoss == \E n \in durable..Len(log) :
                /\ log' = SubSeq(log, 1, n)
                /\ durable' = n

Next == \/ \E c \in Command : Commit(c)
        \/ Sync
        \/ PowerLoss

Spec == Init /\ [][Next]_vars
=============================================================================
