------------------------------ MODULE Journal ------------------------------
(***************************************************************************)
(* The append-only segment store of internal/journal, as several processes *)
(* (CLI calls, the daemon, MCP servers) use it at once: every write runs   *)
(* under the writer lock, publishes one file by rename and then syncs the  *)
(* directory; between any two of those steps the call may fail, the        *)
(* process may be killed, or the machine may lose power.                   *)
(*                                                                         *)
(* A segment hash covers a fresh command id and a timestamp, so two        *)
(* segments never share one: hashes are numbers drawn from "nextHash",     *)
(* and 0 is the empty head.                                                *)
(***************************************************************************)
EXTENDS Integers, Sequences, FiniteSets

CONSTANTS Procs,            \* processes that open the store
          Keys,             \* idempotency keys of ordinary commands
          Intents,          \* request digests
          NoProc,           \* nobody holds the writer lock
          MaxSegmentCount,  \* journal.MaxSegmentCount
          MaxWrites,        \* bound: segments ever published
          MaxLosses         \* bound: power losses

ASSUME JournalConstants ==
    /\ NoProc \notin Procs
    /\ Keys \cap {"establish", "retire"} = {}
    /\ MaxSegmentCount \in Nat
    /\ MaxWrites \in Nat
    /\ MaxLosses \in Nat

VARIABLES
    disk,      \* the segment files, by sequence number
    durable,   \* how many of them are in a synced directory
    sidecar,   \* authority-retired.json: "none", "visible" or "durable"
    lock,      \* holder of the writer lock
    nextHash,  \* the next fresh segment hash
    pc,        \* where each process is
    cap,       \* capability of its handle
    view,      \* head its caller last loaded
    work,      \* the segment it is writing
    backup,    \* the last exported snapshot
    acked,     \* history: successful replies
    losses     \* power losses so far

vars == <<disk, durable, sidecar, lock, nextHash, pc, cap, view, work,
          backup, acked, losses>>

EmptyHead == 0
Kinds     == Keys \cup {"establish", "retire"}

(* "expect" is the head the caller decided on, "prev" the head the segment *)
(* is chained to.                                                          *)
Segment == [hash: Nat, prev: Nat, expect: Nat, key: Kinds, intent: Intents]
Draft   == [prev: Nat, expect: Nat, key: Kinds, intent: Intents]
NoWork  == <<>>

(* A reply to a caller: its segment was created by this call, or confirmed *)
(* by a retry that synced the directory, or replayed from what is there.   *)
Ack == [seg: Segment, how: {"created", "confirmed", "replayed"}]

Capabilities == {"none", "ordinary", "establishment", "inspection"}
HoldingLock  == {"staged", "published", "replaying", "marking", "marked",
                 "restoring", "restored"}
Steps        == HoldingLock \cup {"closed", "idle"}

(* What one process sees when it reads the directory under the lock.       *)
JournalHead    == IF disk = <<>> THEN EmptyHead ELSE disk[Len(disk)].hash
Readable       == Len(disk) <= MaxSegmentCount
Established    == disk # <<>> /\ disk[1].key = "establish"
HasKey(k)      == \E i \in DOMAIN disk : disk[i].key = k
Retired        == HasKey("retire")
SegmentOf(k)   == disk[CHOOSE i \in DOMAIN disk : disk[i].key = k]

TypeOK ==
    /\ disk \in Seq(Segment)
    /\ durable \in 0..Len(disk)
    /\ sidecar \in {"none", "visible", "durable"}
    /\ lock \in Procs \cup {NoProc}
    /\ nextHash \in Nat \ {0}
    /\ pc \in [Procs -> Steps]
    /\ cap \in [Procs -> Capabilities]
    /\ view \in [Procs -> Nat]
    /\ work \in [Procs -> Draft \cup {NoWork}]
    /\ backup \in Seq(Segment)
    /\ acked \in SUBSET Ack
    /\ losses \in Nat

Init ==
    /\ disk = <<>> /\ durable = 0 /\ sidecar = "none" /\ lock = NoProc
    /\ nextHash = 1
    /\ pc   = [p \in Procs |-> "closed"]
    /\ cap  = [p \in Procs |-> "none"]
    /\ view = [p \in Procs |-> EmptyHead]
    /\ work = [p \in Procs |-> NoWork]
    /\ backup = <<>> /\ acked = {} /\ losses = 0

-----------------------------------------------------------------------------
(* Opening and reading.                                                    *)

(* Opening for writing syncs the journal directory before anything is      *)
(* read; the handle exists only if the claim of an established authority   *)
(* (or, to establish one, of an empty one) is found.                       *)
OpenFor(p, c, admitted) ==
    /\ pc[p] = "closed" /\ lock = NoProc
    /\ durable' = Len(disk)
    /\ IF Readable /\ admitted
         THEN pc' = [pc EXCEPT ![p] = "idle"] /\ cap' = [cap EXCEPT ![p] = c]
         ELSE UNCHANGED <<pc, cap>>
    /\ UNCHANGED <<disk, sidecar, lock, nextHash, view, work, backup, acked, losses>>

Open(p) == OpenFor(p, "ordinary", Established)

OpenForAuthorityEstablishment(p) ==
    OpenFor(p, "establishment", disk = <<>> \/ Established)

(* An inspection handle requires the directory to exist and syncs nothing. *)
OpenInspection(p) ==
    /\ pc[p] = "closed" /\ lock = NoProc
    /\ Readable /\ Established
    /\ pc'  = [pc EXCEPT ![p] = "idle"]
    /\ cap' = [cap EXCEPT ![p] = "inspection"]
    /\ UNCHANGED <<disk, durable, sidecar, lock, nextHash, view, work, backup,
                   acked, losses>>

Close(p) ==
    /\ pc[p] = "idle"
    /\ pc'   = [pc EXCEPT ![p] = "closed"]
    /\ cap'  = [cap EXCEPT ![p] = "none"]
    /\ view' = [view EXCEPT ![p] = EmptyHead]
    /\ UNCHANGED <<disk, durable, sidecar, lock, nextHash, work, backup, acked, losses>>

(* The caller loads the journal and remembers the head it decides on.      *)
ReadAll(p) ==
    /\ pc[p] = "idle" /\ lock = NoProc
    /\ Readable
    /\ view' = [view EXCEPT ![p] = JournalHead]
    /\ UNCHANGED <<disk, durable, sidecar, lock, nextHash, pc, cap, work, backup,
                   acked, losses>>

(* A portable backup is a verified snapshot taken under the lock.          *)
WithSnapshot(p) ==
    /\ pc[p] = "idle" /\ lock = NoProc
    /\ Readable /\ Established
    /\ backup' = disk
    /\ UNCHANGED <<disk, durable, sidecar, lock, nextHash, pc, cap, view, work,
                   acked, losses>>

-----------------------------------------------------------------------------
(* Writing one segment. The caller enters with the lock free and leaves it *)
(* only by a reply, an error or its death.                                 *)

Enter(p, step, draft) ==
    /\ lock' = p
    /\ pc'   = [pc EXCEPT ![p] = step]
    /\ work' = [work EXCEPT ![p] = draft]
    /\ UNCHANGED <<disk, durable, sidecar, nextHash, cap, view, backup, acked, losses>>

(* Mutant: the deferred unlock is missing.                                 *)
LeaveLocked(p, step) ==
    /\ pc'   = [pc EXCEPT ![p] = step]
    /\ work' = [work EXCEPT ![p] = NoWork]
    /\ UNCHANGED lock

Leave(p, step) ==
    /\ lock' = NoProc
    /\ pc'   = [pc EXCEPT ![p] = step]
    /\ work' = [work EXCEPT ![p] = NoWork]

(* Mutant: the handle does not wait for the writer lock.                   *)
AdmittedUnlocked(p, c) == pc[p] = "idle" /\ cap[p] = c /\ Readable

Admitted(p, c) == pc[p] = "idle" /\ lock = NoProc /\ cap[p] = c /\ Readable

(* A temporary file with the segment is written and synced; nothing is     *)
(* committed yet.                                                          *)
Stage(p, k, i, expect) ==
    /\ nextHash <= MaxWrites
    /\ Enter(p, "staged", [prev |-> JournalHead, expect |-> expect, key |-> k, intent |-> i])

DraftOf(s) == [prev |-> s.prev, expect |-> s.expect, key |-> s.key, intent |-> s.intent]

(* Mutants of AppendNew: no search for the key, no comparison with the     *)
(* expected head, no search for the retirement event.                      *)
AppendWithoutDedup(p, k, i) ==
    /\ Admitted(p, "ordinary")
    /\ sidecar = "none" /\ Established /\ ~Retired
    /\ view[p] = JournalHead
    /\ Stage(p, k, i, view[p])

AppendOnAnyHead(p, k, i) ==
    /\ Admitted(p, "ordinary")
    /\ sidecar = "none" /\ Established /\ ~Retired
    /\ ~HasKey(k)
    /\ Stage(p, k, i, view[p])

AppendUnlessSidecar(p, k, i) ==
    /\ Admitted(p, "ordinary")
    /\ sidecar = "none" /\ Established
    /\ ~HasKey(k)
    /\ view[p] = JournalHead
    /\ Stage(p, k, i, view[p])

(* AppendOnce, first use of the key: it is bound to the head its caller    *)
(* loaded.                                                                 *)
AppendNew(p, k, i) ==
    /\ Admitted(p, "ordinary")
    /\ sidecar = "none" /\ Established /\ ~Retired
    /\ ~HasKey(k)
    /\ view[p] = JournalHead
    /\ Stage(p, k, i, view[p])

(* AppendOnce, exact retry: the committed segment is the answer, whatever  *)
(* the head is by now.                                                     *)
AppendReplay(p, k, i) ==
    /\ Admitted(p, "ordinary")
    /\ sidecar = "none" /\ Established /\ ~Retired
    /\ HasKey(k) /\ SegmentOf(k).intent = i
    /\ acked' = acked \cup {[seg |-> SegmentOf(k), how |-> "replayed"]}
    /\ UNCHANGED <<disk, durable, sidecar, lock, nextHash, pc, cap, view, work,
                   backup, losses>>

AppendOnce(p) == \E k \in Keys, i \in Intents : AppendNew(p, k, i) \/ AppendReplay(p, k, i)

(* The bootstrap fence goes into an empty journal only; an exact retry     *)
(* syncs the directory again.                                              *)
EstablishAuthority(p) == \E i \in Intents :
    /\ Admitted(p, "establishment")
    /\ IF disk = <<>>
         THEN Stage(p, "establish", i, EmptyHead)
         ELSE /\ Established /\ disk[1].intent = i
              /\ Enter(p, "replaying", DraftOf(disk[1]))

(* The retirement fence: an existing one with the same intent is synced    *)
(* again, a new one needs the head its caller loaded.                      *)
RetireAuthority(p) == \E i \in Intents :
    /\ Admitted(p, "ordinary") /\ Established
    /\ sidecar = "none" \/ Retired
    /\ IF Retired
         THEN /\ SegmentOf("retire").intent = i
              /\ Enter(p, "replaying", DraftOf(SegmentOf("retire")))
         ELSE /\ view[p] = JournalHead
              /\ Stage(p, "retire", i, view[p])

(* Mutant: the draft has lost its place in the chain.                      *)
PublishUnchained(p) ==
    /\ pc[p] = "staged"
    /\ disk' = Append(disk, [hash |-> nextHash, key |-> work[p].key, intent |-> work[p].intent])
    /\ nextHash' = nextHash + 1
    /\ pc' = [pc EXCEPT ![p] = "published"]
    /\ UNCHANGED <<durable, sidecar, lock, cap, view, work, backup, acked, losses>>

(* The rename commits the segment.                                         *)
Publish(p) ==
    /\ pc[p] = "staged"
    /\ disk' = Append(disk, [hash   |-> nextHash,
                             prev   |-> work[p].prev,
                             expect |-> work[p].expect,
                             key    |-> work[p].key,
                             intent |-> work[p].intent])
    /\ nextHash' = nextHash + 1
    /\ pc' = [pc EXCEPT ![p] = "published"]
    /\ UNCHANGED <<durable, sidecar, lock, cap, view, work, backup, acked, losses>>

(* Mutant: the call returns without syncing the directory.                 *)
SkipSyncDirectory(p) ==
    /\ pc[p] \in {"published", "replaying"}
    /\ IF work[p].key = "retire"
         THEN /\ pc' = [pc EXCEPT ![p] = "marking"]
              /\ UNCHANGED <<lock, work, acked>>
         ELSE /\ acked' = acked \cup {[seg |-> SegmentOf(work[p].key), how |-> "created"]}
              /\ Leave(p, "idle")
    /\ UNCHANGED <<disk, durable, sidecar, nextHash, cap, view, backup, losses>>

(* The directory sync ends an append, an establishment and their retries;  *)
(* a retirement goes on to its sidecar.                                    *)
SyncDirectory(p) ==
    /\ pc[p] \in {"published", "replaying"}
    /\ durable' = Len(disk)
    /\ IF work[p].key = "retire"
         THEN /\ pc' = [pc EXCEPT ![p] = "marking"]
              /\ UNCHANGED <<lock, work, acked>>
         ELSE /\ acked' = acked \cup
                   {[seg |-> SegmentOf(work[p].key),
                     how |-> IF pc[p] = "published" THEN "created" ELSE "confirmed"]}
              /\ Leave(p, "idle")
    /\ UNCHANGED <<disk, sidecar, nextHash, cap, view, backup, losses>>

(* The sidecar is published exclusively, or found, and then synced; the    *)
(* locator change the caller passed in ends the call.                      *)
WriteSidecar(p) ==
    /\ pc[p] = "marking"
    /\ sidecar' = IF sidecar = "none" THEN "visible" ELSE sidecar
    /\ pc' = [pc EXCEPT ![p] = "marked"]
    /\ UNCHANGED <<disk, durable, lock, nextHash, cap, view, work, backup, acked, losses>>

FinishRetirement(p) ==
    /\ pc[p] = "marked"
    /\ sidecar' = "durable"
    /\ acked' = acked \cup {[seg |-> SegmentOf("retire"), how |-> "confirmed"]}
    /\ Leave(p, "idle")
    /\ UNCHANGED <<disk, durable, nextHash, cap, view, backup, losses>>

-----------------------------------------------------------------------------
(* Restoring a backup: only onto a prefix of it, one segment at a time.    *)

Prefix(s, t) == Len(s) <= Len(t) /\ \A i \in DOMAIN s : s[i].hash = t[i].hash

RestoreSegments(p) ==
    /\ Admitted(p, "ordinary")
    /\ sidecar = "none" /\ ~Retired
    /\ Prefix(disk, backup) /\ Len(disk) < Len(backup)
    /\ Enter(p, "restoring", NoWork)

RestorePublish(p) ==
    /\ pc[p] = "restoring"
    /\ disk' = Append(disk, backup[Len(disk) + 1])
    /\ pc' = [pc EXCEPT ![p] = "restored"]
    /\ UNCHANGED <<durable, sidecar, lock, nextHash, cap, view, work, backup, acked, losses>>

RestoreSync(p) ==
    /\ pc[p] = "restored"
    /\ durable' = Len(disk)
    /\ IF Len(disk) < Len(backup)
         THEN pc' = [pc EXCEPT ![p] = "restoring"] /\ UNCHANGED <<lock, work>>
         ELSE Leave(p, "idle")
    /\ UNCHANGED <<disk, sidecar, nextHash, cap, view, backup, acked, losses>>

-----------------------------------------------------------------------------
(* Failures.                                                               *)

(* A file operation fails: the call returns an error, the lock is released *)
(* and whatever was already renamed stays.                                 *)
Fault(p) ==
    /\ pc[p] \in HoldingLock
    /\ Leave(p, "idle")
    /\ UNCHANGED <<disk, durable, sidecar, nextHash, cap, view, backup, acked, losses>>

(* The process is killed; the operating system drops its lock.             *)
Crash(p) ==
    /\ pc[p] \in HoldingLock
    /\ Leave(p, "closed")
    /\ cap'  = [cap EXCEPT ![p] = "none"]
    /\ view' = [view EXCEPT ![p] = EmptyHead]
    /\ UNCHANGED <<disk, durable, sidecar, nextHash, backup, acked, losses>>

(* The machine stops: every process dies, and directory entries that were  *)
(* not synced may be gone, the newest first.                               *)
PowerLoss ==
    /\ losses < MaxLosses
    /\ losses' = losses + 1
    /\ \E n \in durable..Len(disk) : disk' = SubSeq(disk, 1, n) /\ durable' = n
    /\ \/ sidecar' = IF sidecar = "visible" THEN "none" ELSE sidecar
       \/ sidecar' = IF sidecar = "visible" THEN "durable" ELSE sidecar
    /\ lock' = NoProc
    /\ pc'   = [p \in Procs |-> "closed"]
    /\ cap'  = [p \in Procs |-> "none"]
    /\ view' = [p \in Procs |-> EmptyHead]
    /\ work' = [p \in Procs |-> NoWork]
    /\ UNCHANGED <<nextHash, backup, acked>>

-----------------------------------------------------------------------------
(* The steps a process takes on its own once it holds the lock.            *)
Proceed(p) == \/ Publish(p)
              \/ SyncDirectory(p)
              \/ WriteSidecar(p)
              \/ FinishRetirement(p)
              \/ RestorePublish(p)
              \/ RestoreSync(p)

Next ==
    \/ \E p \in Procs :
         \/ Open(p) \/ OpenForAuthorityEstablishment(p) \/ OpenInspection(p)
         \/ Close(p) \/ ReadAll(p) \/ WithSnapshot(p)
         \/ AppendOnce(p) \/ EstablishAuthority(p) \/ RetireAuthority(p)
         \/ RestoreSegments(p)
         \/ Proceed(p)
         \/ Fault(p) \/ Crash(p)
    \/ PowerLoss

Spec == Init /\ [][Next]_vars

(* A process inside the lock keeps running: its remaining steps are plain  *)
(* file operations that wait for nobody.                                   *)
FairSpec == Spec /\ \A p \in Procs : WF_vars(Proceed(p))

-----------------------------------------------------------------------------
(* Properties.                                                             *)

(* The files form one chain that starts with the establishment fence: no   *)
(* interleaving of writers, faults, crashes, power losses and restores     *)
(* leaves a segment whose previousHash is not its predecessor's hash,      *)
(* which readSegmentFileUnlocked would refuse for ever.                    *)
ChainIntact ==
    \A i \in DOMAIN disk :
        /\ disk[i].prev = IF i = 1 THEN EmptyHead ELSE disk[i - 1].hash
        /\ (i = 1) <=> (disk[i].key = "establish")

(* AppendOnce commits an idempotency key at most once, however many        *)
(* processes race or retry with it and whatever a restore brings back.     *)
OneCommitPerKey ==
    \A i, j \in DOMAIN disk : disk[i].key = disk[j].key => i = j

(* Every segment was decided on exactly the journal it extends: the head   *)
(* its caller had loaded is the head it is chained to.                     *)
DecidedOnHead == \A i \in DOMAIN disk : disk[i].expect = disk[i].prev

(* The retirement fence is final: no append, and no restore, puts a        *)
(* segment after it, also while its sidecar is still missing.              *)
NothingAfterRetirement ==
    \A i \in DOMAIN disk : disk[i].key = "retire" => i = Len(disk)

(* The sidecar never exists without the fence, also after a power loss:    *)
(* RetireAuthority syncs the fence before it writes the sidecar, and a     *)
(* sidecar without a fence would make every later call fail.               *)
SidecarHasFence ==
    sidecar # "none" => \E i \in 1..durable : disk[i].key = "retire"

(* A segment acknowledged as created, or confirmed by a retry that synced, *)
(* is never lost, not even to a power loss.                                *)
CreatedSurvives ==
    \A a \in acked : a.how # "replayed" => \E i \in 1..durable : disk[i] = a.seg

(* docs/recovery.md: an exact retry reconfirms the bytes and the namespace *)
(* entries. Here, for every successful reply of AppendOnce.                *)
AckedSurvives == \A a \in acked : \E i \in DOMAIN disk : disk[i] = a.seg

(* Whoever holds the writer lock gives it up: nobody waits for ever.       *)
LockReleased == \A p \in Procs : lock = p ~> lock # p

(* What the abstract log keeps of a sequence of segments.                  *)
Entry(s) == [key |-> s.key, intent |-> s.intent]
LogOf(s) == [i \in DOMAIN s |-> Entry(s[i])]

Log == INSTANCE CommandLog WITH log <- LogOf(disk)

(* The store implements the abstract command log: whatever the processes   *)
(* do with files, each step commits one command, makes the log durable,    *)
(* loses an unsynced tail or is not visible.                               *)
LogSpec == Log!Spec
=============================================================================
