----------------------------- MODULE Projection -----------------------------
(***************************************************************************)
(* What the program derives from the journal: the SQLite projection, the   *)
(* sealed checkpoint beside it, and the snapshot cache the requests of the *)
(* controller daemon share. All three are disposable; the journal is the   *)
(* authority. Requests of the daemon run under the actor lock of their     *)
(* project (many readers or one writer), offline recovery commands in a    *)
(* process of their own that may still run when a daemon starts.           *)
(*                                                                         *)
(* The state a call works with is the reduction of the segments it loaded, *)
(* so a state is stood for by the sequence of those segments' hashes, and  *)
(* so are the tables of the projection, which one transaction replaces. A  *)
(* journal is the sequence of the hashes of its files; "durable" of them   *)
(* are in a synced directory (module Journal has the steps of a write).    *)
(***************************************************************************)
EXTENDS Naturals, Sequences, FiniteSets

CONSTANTS Requests,   \* request slots of the daemon
          Offline,    \* offline processes
          NoCall,     \* nobody holds a lock
          MaxWrites,  \* bound: segments ever published
          MaxLosses   \* bound: power losses

ASSUME ProjectionConstants ==
    /\ Requests \cap Offline = {}
    /\ NoCall \notin Requests \cup Offline
    /\ MaxWrites \in Nat \ {0}
    /\ MaxLosses \in Nat

VARIABLES
    journal, durable, next,  \* the files, how many are durable, the next hash
    rows,     \* applied_segments and the state stored with them
    sealed,   \* verified-snapshot-checkpoint.json; empty: no file
    cache,    \* verifiedSnapshotCache of the daemon
    mutex,    \* its mutex
    plock,    \* projection.lock
    wlock,    \* writer.lock, where it is held over several steps
    up,       \* the daemon runs
    call,     \* what each call is doing
    losses    \* power losses so far

vars == <<journal, durable, next, rows, sealed, cache, mutex, plock, wlock,
          up, call, losses>>

Calls  == Requests \cup Offline
Hashes == 1..MaxWrites

(* A loaded segment: the checkpoint knows its hash, not its command and    *)
(* events.                                                                 *)
Segment == [hash: Hashes, full: BOOLEAN]

HashesOf(segs) == [i \in DOMAIN segs |-> segs[i].hash]
Read(hashes)   == [i \in DOMAIN hashes |-> [hash |-> hashes[i], full |-> TRUE]]
Listed(hashes) == [i \in DOMAIN hashes |-> [hash |-> hashes[i], full |-> FALSE]]
Prefix(s, t)   == Len(s) <= Len(t) /\ \A i \in DOMAIN s : s[i] = t[i]
HeadHash(s)    == IF s = <<>> THEN 0 ELSE s[Len(s)]

(* A call: the command, where it is, which of its loads this is (1 opens   *)
(* the service, 2 decides, 3 answers), what it loaded, the checkpoint      *)
(* document it read, the length of the journal that its load must not      *)
(* miss, and whether a check of the cache ended since that load began.     *)
Steps == {"idle", "wait", "verify", "rows", "restore", "read", "reduce", "loaded",
          "append", "sync", "seal", "rebuild", "rebuilding", "refill"}
Call  == [kind: {"read", "write", "rebuild", "restore"}, at: Steps, load: 1..3,
          got: Seq(Segment), doc: Seq(Hashes), since: Nat, checked: BOOLEAN]
Idle  == [kind |-> "read", at |-> "idle", load |-> 1, got |-> <<>>,
          doc |-> <<>>, since |-> 0, checked |-> FALSE]

NoCache == [valid |-> FALSE, segs |-> <<>>]

TypeOK ==
    /\ journal \in Seq(Hashes) /\ durable \in 1..Len(journal)
    /\ next \in 2..(MaxWrites + 1)
    /\ rows \in Seq(Hashes) /\ sealed \in Seq(Hashes)
    /\ cache.valid \in BOOLEAN /\ cache.segs \in Seq(Segment)
    /\ {mutex, plock, wlock} \subseteq Calls \cup {NoCall}
    /\ up \in BOOLEAN
    /\ call \in [Calls -> Call]
    /\ losses \in 0..MaxLosses

(* A project begins with its establishment fence.                          *)
Init ==
    /\ journal = <<1>> /\ durable = 1 /\ next = 2
    /\ rows = <<>> /\ sealed = <<>>
    /\ cache = NoCache
    /\ mutex = NoCall /\ plock = NoCall /\ wlock = NoCall
    /\ up = FALSE
    /\ call = [c \in Calls |-> Idle]
    /\ losses = 0

At(c, step)   == call[c].at = step
Goto(c, step) == [call EXCEPT ![c].at = step]
Return(c)     == [call EXCEPT ![c] = Idle]

(* load() notes its start before it asks for the cache; an offline process *)
(* has no cache. What is in the journal by then (length) it must not miss. *)
StartLoad(c, n, length) ==
    [call EXCEPT ![c].load = n, ![c].since = length, ![c].checked = FALSE,
                 ![c].at = IF c \in Requests THEN "wait" ELSE "read"]

-----------------------------------------------------------------------------
(* Requests and offline commands.                                          *)

(* A query may share the result of a check under way, which may have read  *)
(* the journal already; a command has the actor lock and shares nothing.   *)
Reducing == mutex # NoCall /\ At(mutex, "reduce")
Sharable == IF Reducing THEN Len(call[mutex].got) ELSE Len(journal)

(* Readers share the actor lock, a mutation has it alone; a read opens for *)
(* inspection, every other command opens the store and syncs its directory.*)
Begin(c, k) ==
    /\ At(c, "idle")
    /\ IF c \in Requests
         THEN /\ up /\ k \in {"read", "write", "rebuild"}
              /\ \A d \in Requests \ {c} :
                    At(d, "idle") \/ (k = "read" /\ call[d].kind = "read")
         ELSE ~up /\ k \in {"rebuild", "restore"}
    /\ call' = [StartLoad(c, 1, IF k = "read" THEN Sharable ELSE Len(journal))
                  EXCEPT ![c].kind = k]
    /\ durable' = IF k = "read" THEN durable ELSE Len(journal)
    /\ UNCHANGED <<journal, next, rows, sealed, cache, mutex, plock, wlock, up, losses>>

-----------------------------------------------------------------------------
(* load(): the cached state, the checkpoint, or a replay of the journal.   *)

(* Mutant: any cached state is taken for a check made since.               *)
LoadSharedStale(c) ==
    /\ At(c, "wait") /\ mutex = NoCall /\ cache.valid
    /\ call' = [call EXCEPT ![c].at = "loaded", ![c].got = cache.segs]
    /\ UNCHANGED <<journal, durable, next, rows, sealed, cache, mutex, plock, wlock, up, losses>>

(* A load that waited while another one checked the journal takes that     *)
(* result.                                                                 *)
LoadShared(c) ==
    /\ At(c, "wait") /\ mutex = NoCall /\ cache.valid /\ call[c].checked
    /\ call' = [call EXCEPT ![c].at = "loaded", ![c].got = cache.segs]
    /\ UNCHANGED <<journal, durable, next, rows, sealed, cache, mutex, plock, wlock, up, losses>>

LoadLocks(c) ==
    /\ At(c, "wait") /\ mutex = NoCall /\ ~(cache.valid /\ call[c].checked)
    /\ mutex' = c
    /\ call' = Goto(c, IF cache.valid THEN "read" ELSE "verify")
    /\ UNCHANGED <<journal, durable, next, rows, sealed, cache, plock, wlock, up, losses>>

(* The checkpoint file is read before the projection lock is taken. It may *)
(* also be absent or refused for what is not modelled: its secret, its     *)
(* HMAC, a WAL file beside a read-only projection, other providers.        *)
ReadCheckpoint(c) ==
    /\ At(c, "verify")
    /\ \/ /\ sealed # <<>>
          /\ call' = [call EXCEPT ![c].doc = sealed, ![c].at = "rows"]
       \/ call' = Goto(c, "read")
    /\ UNCHANGED <<journal, durable, next, rows, sealed, cache, mutex, plock, wlock, up, losses>>

(* The sealed digests are those of the projected state and of the segment  *)
(* files as they are now.                                                  *)
Identifies(doc) == doc = rows /\ Prefix(rows, journal)

VerifyCheckpoint(c) ==
    /\ At(c, "rows") /\ plock = NoCall
    /\ call' = Goto(c, IF Identifies(call[c].doc) THEN "restore" ELSE "read")
    /\ UNCHANGED <<journal, durable, next, rows, sealed, cache, mutex, plock, wlock, up, losses>>

(* The rows are read again, under the lock again: a head that has changed  *)
(* in between, or a segment file that is missing, is refused.              *)
RestoreCheckpoint(c) ==
    /\ At(c, "restore") /\ plock = NoCall
    /\ cache' = IF /\ Len(rows) = Len(call[c].doc) /\ HeadHash(rows) = HeadHash(call[c].doc)
                   /\ Prefix(rows, journal)
                  THEN [valid |-> TRUE, segs |-> Listed(rows)]
                  ELSE cache
    /\ call' = Goto(c, "read")
    /\ UNCHANGED <<journal, durable, next, rows, sealed, mutex, plock, wlock, up, losses>>

(* ReadSnapshot keeps an unchanged prefix and verifies what was appended;  *)
(* it refuses a journal that became shorter. The writer lock is given back *)
(* with its return, the mutex is not.                                      *)
ReadSnapshot(c) ==
    /\ At(c, "read") /\ c \in Requests /\ wlock = NoCall
    /\ LET known == HashesOf(cache.segs)
           segs  == IF cache.valid /\ Prefix(known, journal)
                      THEN cache.segs \o Read(SubSeq(journal, Len(known) + 1, Len(journal)))
                      ELSE Read(journal)
       IN  IF cache.valid /\ Len(journal) < Len(known)
             THEN call' = Return(c) /\ mutex' = NoCall
             ELSE /\ call' = [call EXCEPT ![c].at = "reduce", ![c].got = segs]
                  /\ UNCHANGED mutex
    /\ UNCHANGED <<journal, durable, next, rows, sealed, cache, plock, wlock, up, losses>>

(* What was read is reduced, and only then is the check on record: every   *)
(* load that has begun by now may take this result, although the journal   *)
(* may have grown. New segments may also fail to reduce or to validate.    *)
ReduceSnapshot(c) ==
    /\ At(c, "reduce")
    /\ mutex' = NoCall
    /\ \/ /\ cache' = [valid |-> TRUE, segs |-> call[c].got]
          /\ call' = [d \in Calls |->
                IF d = c THEN [call[c] EXCEPT !.at = "loaded"]
                ELSE IF At(d, "wait") THEN [call[d] EXCEPT !.checked = TRUE]
                ELSE call[d]]
       \/ /\ ~cache.valid \/ call[c].got # cache.segs
          /\ call' = Return(c)
          /\ UNCHANGED cache
    /\ UNCHANGED <<journal, durable, next, rows, sealed, plock, wlock, up, losses>>

LoadAuthority(c) ==
    /\ At(c, "read") /\ c \in Offline /\ wlock = NoCall
    /\ call' = [call EXCEPT ![c].at = "loaded", ![c].got = Read(journal)]
    /\ UNCHANGED <<journal, durable, next, rows, sealed, cache, mutex, plock, wlock, up, losses>>

(* Mutant: a query goes on loading.                                        *)
ContinueLoading(c) ==
    /\ At(c, "loaded")
    /\ call' = IF call[c].kind = "read"
                 THEN StartLoad(c, call[c].load + 1, Sharable)
                 ELSE Goto(c, IF call[c].load = 2 THEN "append" ELSE "sync")
    /\ UNCHANGED <<journal, durable, next, rows, sealed, cache, mutex, plock, wlock, up, losses>>

(* What a command does with what it loaded: a query loads twice and        *)
(* answers, the others first synchronize the projection.                   *)
Continue(c) ==
    /\ At(c, "loaded")
    /\ LET r == call[c]
       IN  call' = IF r.kind = "read"
                     THEN IF r.load = 1 THEN StartLoad(c, 2, Sharable) ELSE Return(c)
                     ELSE Goto(c, IF r.load = 2 THEN "append" ELSE "sync")
    /\ UNCHANGED <<journal, durable, next, rows, sealed, cache, mutex, plock, wlock, up, losses>>

-----------------------------------------------------------------------------
(* Writing the journal.                                                    *)

Publish ==
    /\ wlock = NoCall /\ next <= MaxWrites
    /\ journal' = Append(journal, next)
    /\ next' = next + 1

(* A command appends on the head it decided on, or fails; it then loads    *)
(* again. The rename may also succeed and the call fail before the         *)
(* directory is synced.                                                    *)
AppendOnce(c) ==
    /\ At(c, "append") /\ call[c].kind = "write"
    /\ \/ /\ HeadHash(HashesOf(call[c].got)) = HeadHash(journal)
          /\ Publish
          /\ \/ durable' = Len(journal') /\ call' = StartLoad(c, 3, Len(journal'))
             \/ durable' = durable       /\ call' = Return(c)
       \/ /\ HeadHash(HashesOf(call[c].got)) # HeadHash(journal) \/ next > MaxWrites
          /\ call' = Return(c)
          /\ UNCHANGED <<journal, durable, next>>
    /\ UNCHANGED <<rows, sealed, cache, mutex, plock, wlock, up, losses>>

(* Restoring a backup adds the segments the journal lacks, if there are    *)
(* any, and rebuilds the projection.                                       *)
RestoreBackup(c) ==
    /\ At(c, "append") /\ call[c].kind = "restore"
    /\ \/ Publish /\ durable' = Len(journal')
       \/ wlock = NoCall /\ UNCHANGED <<journal, next, durable>>
    /\ call' = Goto(c, "rebuild")
    /\ UNCHANGED <<rows, sealed, cache, mutex, plock, wlock, up, losses>>

-----------------------------------------------------------------------------
(* Writing the projection.                                                 *)

(* Where a call goes on after Sync or Rebuild.                             *)
Synced(c) ==
    LET r == call[c]
    IN  IF r.load = 3 THEN Return(c)
        ELSE IF r.kind = "write" THEN StartLoad(c, 2, Len(journal))
        ELSE IF r.kind = "restore" THEN Goto(c, "append")
        ELSE Goto(c, "rebuild")

(* Mutant: a cursor that is ahead is not respected.                        *)
SyncBackwards(c) ==
    /\ At(c, "sync") /\ plock = NoCall
    /\ rows' = HashesOf(call[c].got)
    /\ plock' = c
    /\ call' = Goto(c, "seal")
    /\ UNCHANGED <<journal, durable, next, sealed, cache, mutex, wlock, up, losses>>

(* A projection that is ahead of the caller's snapshot is left alone, one  *)
(* that is level with it must name the same hash, an older one is replaced *)
(* in one transaction. Sync goes on to seal, still under the lock.         *)
Sync(c) ==
    /\ At(c, "sync") /\ plock = NoCall
    /\ LET incoming == HashesOf(call[c].got)
       IN  \/ /\ Len(rows) > Len(incoming)
              /\ call' = Synced(c)
              /\ UNCHANGED <<rows, plock>>
           \/ /\ Len(rows) = Len(incoming) /\ HeadHash(rows) # HeadHash(incoming)
              /\ call' = Return(c)
              /\ UNCHANGED <<rows, plock>>
           \/ /\ Len(rows) < Len(incoming) \/ HeadHash(rows) = HeadHash(incoming)
              /\ Len(rows) <= Len(incoming)
              /\ rows' = IF Len(rows) = Len(incoming) THEN rows ELSE incoming
              /\ plock' = c
              /\ call' = Goto(c, "seal")
    /\ UNCHANGED <<journal, durable, next, sealed, cache, mutex, wlock, up, losses>>

(* Mutant: the lock is kept when the checkpoint is written.                *)
SealCheckpointLocked(c) ==
    /\ At(c, "seal")
    /\ sealed' = HashesOf(call[c].got)
    /\ wlock' = IF wlock = c THEN NoCall ELSE wlock
    /\ call' = Synced(c)
    /\ UNCHANGED <<journal, durable, next, rows, cache, mutex, plock, up, losses>>

(* The checkpoint is replaced by a rename; a rebuild then also gives the   *)
(* writer lock back.                                                       *)
SealCheckpoint(c) ==
    /\ At(c, "seal")
    /\ sealed' = HashesOf(call[c].got)
    /\ plock' = NoCall
    /\ wlock' = IF wlock = c THEN NoCall ELSE wlock
    /\ call' = Synced(c)
    /\ UNCHANGED <<journal, durable, next, rows, cache, mutex, up, losses>>

(* RebuildProjection holds the writer lock from its replay on, drops the   *)
(* database under the projection lock and fills a new one.                 *)
RebuildProjection(c) ==
    /\ At(c, "rebuild") /\ wlock = NoCall
    /\ wlock' = c
    /\ call' = [call EXCEPT ![c].at = "rebuilding", ![c].got = Read(journal), ![c].load = 3]
    /\ UNCHANGED <<journal, durable, next, rows, sealed, cache, mutex, plock, up, losses>>

RebuildDrops(c) ==
    /\ At(c, "rebuilding") /\ plock = NoCall
    /\ plock' = c
    /\ rows' = <<>>
    /\ call' = Goto(c, "refill")
    /\ UNCHANGED <<journal, durable, next, sealed, cache, mutex, wlock, up, losses>>

RebuildFills(c) ==
    /\ At(c, "refill")
    /\ rows' = HashesOf(call[c].got)
    /\ call' = Goto(c, "seal")
    /\ UNCHANGED <<journal, durable, next, sealed, cache, mutex, plock, wlock, up, losses>>

-----------------------------------------------------------------------------
(* The daemon and failures.                                                *)

StartDaemon ==
    /\ ~up
    /\ up' = TRUE
    /\ UNCHANGED <<journal, durable, next, rows, sealed, cache, mutex, plock, wlock, call, losses>>

(* The calls of a process that ends are gone, and so are its locks and its *)
(* cache. The files stay.                                                  *)
Gone(dead) ==
    /\ call'  = [c \in Calls |-> IF c \in dead THEN Idle ELSE call[c]]
    /\ mutex' = IF mutex \in dead THEN NoCall ELSE mutex
    /\ plock' = IF plock \in dead THEN NoCall ELSE plock
    /\ wlock' = IF wlock \in dead THEN NoCall ELSE wlock

(* Drained, or killed at any point.                                        *)
StopDaemon ==
    /\ up
    /\ up' = FALSE
    /\ cache' = NoCache
    /\ Gone(Requests)
    /\ UNCHANGED <<journal, durable, next, rows, sealed, losses>>

KillOffline(c) ==
    /\ c \in Offline /\ ~At(c, "idle")
    /\ Gone({c})
    /\ UNCHANGED <<journal, durable, next, rows, sealed, cache, up, losses>>

(* Files that were renamed and not synced may be lost; SQLite's commits    *)
(* and the checkpoint are synced and stay.                                 *)
PowerLoss ==
    /\ losses < MaxLosses
    /\ \E k \in durable..Len(journal) : journal' = SubSeq(journal, 1, k) /\ durable' = k
    /\ up' = FALSE
    /\ cache' = NoCache
    /\ Gone(Calls)
    /\ losses' = losses + 1
    /\ UNCHANGED <<next, rows, sealed>>

Step(c) ==
    \/ LoadShared(c) \/ LoadLocks(c)
    \/ ReadCheckpoint(c) \/ VerifyCheckpoint(c) \/ RestoreCheckpoint(c)
    \/ ReadSnapshot(c) \/ ReduceSnapshot(c) \/ LoadAuthority(c)
    \/ Continue(c)
    \/ AppendOnce(c) \/ RestoreBackup(c)
    \/ Sync(c) \/ SealCheckpoint(c)
    \/ RebuildProjection(c) \/ RebuildDrops(c) \/ RebuildFills(c)

Next ==
    \/ \E c \in Calls : \/ \E k \in {"read", "write", "rebuild", "restore"} : Begin(c, k)
                        \/ Step(c)
                        \/ KillOffline(c)
    \/ StartDaemon \/ StopDaemon
    \/ PowerLoss

Spec == Init /\ [][Next]_vars

-----------------------------------------------------------------------------
(* Properties.                                                             *)

(* load() answers with the journal: a state some prefix of the present     *)
(* files reduces to, whether it came from the cache, from another load's   *)
(* check, from the checkpoint or from a replay. A command's load has all   *)
(* that was in the journal when it began, its own append included, and so  *)
(* has a query's, unless it began while a check that had read the journal  *)
(* was still reducing: then it has at least what that check has read. And  *)
(* the cache never holds a segment that the journal lacks, which would     *)
(* make every later ReadSnapshot fail.                                     *)
LoadIsJournal ==
    /\ cache.valid => Prefix(HashesOf(cache.segs), journal)
    /\ \A c \in Calls : At(c, "loaded") =>
          /\ Prefix(HashesOf(call[c].got), journal)
          /\ Len(call[c].got) >= call[c].since

(* Synchronizations that end out of order never take the projection back;  *)
(* only a rebuild empties it.                                              *)
CursorIsMonotone ==
    [][Len(rows') < Len(rows) => \E c \in Calls : At(c, "rebuilding")]_vars

(* The locks are all that can keep a call from its next step.              *)
Free(c) ==
    \/ call[c].at \in {"verify", "reduce", "loaded", "seal", "refill"}
    \/ At(c, "wait") /\ mutex = NoCall
    \/ call[c].at \in {"rows", "restore", "sync", "rebuilding"} /\ plock = NoCall
    \/ call[c].at \in {"read", "rebuild"} /\ wlock = NoCall
    \/ At(c, "append") /\ \/ wlock = NoCall
                          \/ /\ call[c].kind = "write"
                             /\ \/ HeadHash(HashesOf(call[c].got)) # HeadHash(journal)
                                \/ next > MaxWrites

(* A load takes the cache mutex, then the projection lock, then the writer *)
(* lock, a rebuild the writer lock, then the projection lock, and a        *)
(* synchronization only the latter. Whenever calls are under way, one of   *)
(* them waits for no lock.                                                 *)
NoWaitCycle == (\E c \in Calls : ~At(c, "idle")) => \E c \in Calls : Free(c)

(* The calls never block one another for ever: a call that waits for no    *)
(* lock has a step, one that waits has none, and they never all wait.      *)
SomeCallGoesOn ==
    /\ \A c \in Calls : Free(c) <=> ENABLED Step(c)
    /\ NoWaitCycle

(* docs/adr/0022: a restart may make the next query slower, never change   *)
(* what it says. Every segment a load hands to its caller has its command  *)
(* and events, which history, context deltas and receipts are made from.   *)
LoadedIsComplete ==
    \A c \in Requests : At(c, "loaded") => \A i \in DOMAIN call[c].got : call[c].got[i].full
=============================================================================
