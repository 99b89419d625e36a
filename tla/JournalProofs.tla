--------------------------- MODULE JournalProofs ---------------------------
(***************************************************************************)
(* Proofs about the segment store: its safety invariants hold for every    *)
(* number of processes, keys, intents and writes, and for every limit.     *)
(*                                                                         *)
(* None of them is inductive alone. A published segment fits the chain     *)
(* because its draft was taken from the head and nobody else wrote since,  *)
(* which is what the writer lock ensures; a restored segment fits because  *)
(* the backup is itself well formed and a hash names one segment only.     *)
(***************************************************************************)
EXTENDS Journal, TLAPS

(* The lock is held by exactly the process that is inside a write.         *)
LockInv == \A p \in Procs : pc[p] \in HoldingLock <=> lock = p

(* The four shape invariants, of any sequence of segments.                 *)
WellFormed(s) ==
    /\ \A i \in 1..Len(s) :
         /\ s[i].prev = IF i = 1 THEN EmptyHead ELSE s[i - 1].hash
         /\ (i = 1) <=> (s[i].key = "establish")
         /\ s[i].expect = s[i].prev
         /\ s[i].key = "retire" => i = Len(s)
    /\ \A i, j \in 1..Len(s) : s[i].key = s[j].key => i = j

(* Hashes are older than nextHash, and one hash names one segment.         *)
Below(s, n) == \A i \in 1..Len(s) : s[i].hash < n
Agree(s, t) == \A i \in 1..Len(s), j \in 1..Len(t) : s[i].hash = t[j].hash => s[i] = t[j]

HashInv == /\ Below(disk, nextHash) /\ Below(backup, nextHash)
           /\ Agree(disk, disk) /\ Agree(disk, backup) /\ Agree(backup, backup)

DurableFence == \E i \in 1..durable : disk[i].key = "retire"

(* What a process inside a write may rely on.                              *)
Staged(p) == /\ work[p] \in Draft
             /\ work[p].prev = JournalHead /\ work[p].expect = JournalHead
             /\ ~HasKey(work[p].key) /\ ~Retired
             /\ (work[p].key = "establish") <=> (disk = <<>>)

WorkOf(p) ==
    /\ pc[p] = "staged" => Staged(p)
    /\ pc[p] \in {"published", "replaying"} => work[p] \in Draft /\ HasKey(work[p].key)
    /\ pc[p] \in {"marking", "marked"} => DurableFence
    /\ pc[p] = "restoring" => Prefix(disk, backup) /\ Len(disk) < Len(backup)
    /\ pc[p] = "restored" => Prefix(disk, backup)

WorkInv == \A p \in Procs : WorkOf(p)

StoreInv == /\ WellFormed(disk) /\ WellFormed(backup)
            /\ HashInv /\ SidecarHasFence /\ CreatedSurvives

IInv == TypeOK /\ LockInv /\ WorkInv /\ StoreInv

-----------------------------------------------------------------------------
(* Facts about sequences.                                                  *)

(* Appending keeps the old elements and adds one at the end.               *)
LEMMA AppendFacts ==
    ASSUME NEW S, NEW s \in Seq(S), NEW e \in S
    PROVE  /\ Append(s, e) \in Seq(S)
           /\ Len(Append(s, e)) = Len(s) + 1
           /\ \A i \in 1..Len(s) : Append(s, e)[i] = s[i]
           /\ Append(s, e)[Len(s) + 1] = e
  OBVIOUS

(* What a power loss leaves of a sequence.                                 *)
LEMMA PrefixFacts ==
    ASSUME NEW S, NEW s \in Seq(S), NEW n \in 0..Len(s)
    PROVE  /\ SubSeq(s, 1, n) \in Seq(S)
           /\ Len(SubSeq(s, 1, n)) = n
           /\ \A i \in 1..n : SubSeq(s, 1, n)[i] = s[i]
  OBVIOUS

(* A prefix of a well formed sequence is well formed.                      *)
LEMMA WellFormedPrefix ==
    ASSUME NEW s \in Seq(Segment), NEW t \in Seq(Segment),
           WellFormed(t), Len(s) <= Len(t),
           \A i \in 1..Len(s) : s[i] = t[i]
    PROVE  WellFormed(s)
  <1>1. Len(s) \in Nat /\ Len(t) \in Nat
    OBVIOUS
  <1>2. \A i \in 1..Len(s) : i \in 1..Len(t) /\ s[i] = t[i]
                              /\ (i # 1 => i - 1 \in 1..Len(s) /\ s[i-1] = t[i-1])
    BY <1>1
  <1>3. ASSUME NEW i \in 1..Len(s)
        PROVE  /\ s[i].prev = IF i = 1 THEN EmptyHead ELSE s[i - 1].hash
               /\ (i = 1) <=> (s[i].key = "establish")
               /\ s[i].expect = s[i].prev
               /\ s[i].key = "retire" => i = Len(s)
    BY <1>1, <1>2 DEF WellFormed
  <1>4. \A i, j \in 1..Len(s) : s[i].key = s[j].key => i = j
    BY <1>1, <1>2 DEF WellFormed
  <1>5. QED
    BY <1>3, <1>4 DEF WellFormed

(* A segment that is chained to the last one, with a fresh key, extends a  *)
(* well formed sequence that is not retired.                               *)
LEMMA WellFormedAppend ==
    ASSUME NEW s \in Seq(Segment), NEW e \in Segment, WellFormed(s),
           e.prev = IF s = <<>> THEN EmptyHead ELSE s[Len(s)].hash,
           e.expect = e.prev,
           \A i \in 1..Len(s) : s[i].key # e.key /\ s[i].key # "retire",
           (e.key = "establish") <=> (s = <<>>)
    PROVE  WellFormed(Append(s, e))
  <1> DEFINE t == Append(s, e)
  <1>1. /\ Len(s) \in Nat /\ Len(t) = Len(s) + 1
        /\ \A i \in 1..Len(s) : t[i] = s[i]
        /\ t[Len(s) + 1] = e
    BY AppendFacts
  <1>2. s = <<>> <=> Len(s) = 0
    OBVIOUS
  <1> HIDE DEF t
  <1>3. ASSUME NEW i \in 1..Len(t)
        PROVE  /\ t[i].prev = IF i = 1 THEN EmptyHead ELSE t[i - 1].hash
               /\ (i = 1) <=> (t[i].key = "establish")
               /\ t[i].expect = t[i].prev
               /\ t[i].key = "retire" => i = Len(t)
    <2>1. CASE i \in 1..Len(s)
      <3>1. t[i] = s[i] /\ (i # 1 => i - 1 \in 1..Len(s) /\ t[i - 1] = s[i - 1])
        BY <2>1, <1>1
      <3>2. QED
        BY <2>1, <3>1 DEF WellFormed
    <2>2. CASE i = Len(s) + 1
      <3>1. t[i] = e /\ (i # 1 => Len(s) \in 1..Len(s) /\ t[i - 1] = s[Len(s)])
        BY <2>2, <1>1
      <3>2. QED
        BY <2>2, <3>1, <1>1, <1>2
    <2>3. QED
      BY <2>1, <2>2, <1>1
  <1>4. ASSUME NEW i \in 1..Len(t), NEW j \in 1..Len(t), t[i].key = t[j].key
        PROVE  i = j
    BY <1>1, <1>4 DEF WellFormed
  <1>5. QED
    BY <1>3, <1>4 DEF WellFormed, t
-----------------------------------------------------------------------------
(* The invariant starts true.                                              *)
LEMMA InitIInv == Init => IInv
  <1> SUFFICES ASSUME Init PROVE IInv
    OBVIOUS
  <1>1. TypeOK
    BY DEF Init, TypeOK, Steps, Capabilities, EmptyHead
  <1>2. LockInv
    BY JournalConstants DEF Init, LockInv, HoldingLock
  <1>3. WorkInv
    BY DEF Init, WorkInv, WorkOf
  <1>4. StoreInv
    BY DEF Init, StoreInv, WellFormed, HashInv, Below, Agree, SidecarHasFence, CreatedSurvives
  <1>5. QED
    BY <1>1, <1>2, <1>3, <1>4 DEF IInv

(* Shape and hashes depend on the files and the backup only.               *)
LEMMA ShapeKept ==
    ASSUME StoreInv, UNCHANGED <<disk, backup, nextHash>>
    PROVE  WellFormed(disk)' /\ WellFormed(backup)' /\ HashInv'
  <1>1. WellFormed(disk)'
    BY DEF StoreInv, WellFormed
  <1>2. WellFormed(backup)'
    BY DEF StoreInv, WellFormed
  <1>3. HashInv'
    BY DEF StoreInv, HashInv, Below, Agree
  <1>4. QED
    BY <1>1, <1>2, <1>3

(* More of the journal may become durable without any other change.        *)
LEMMA StoreKept ==
    ASSUME TypeOK, StoreInv,
           UNCHANGED <<disk, backup, nextHash, sidecar, acked>>,
           durable' = durable \/ durable' = Len(disk)
    PROVE  StoreInv'
  <1>1. (1..durable) \subseteq (1..durable')
    BY DEF TypeOK
  <1>2. WellFormed(disk)' /\ WellFormed(backup)' /\ HashInv'
    BY ShapeKept
  <1>3. SidecarHasFence'
    BY <1>1 DEF StoreInv, SidecarHasFence
  <1>4. CreatedSurvives'
    BY <1>1 DEF StoreInv, CreatedSurvives
  <1>5. QED
    BY <1>2, <1>3, <1>4 DEF StoreInv

(* Nobody is inside a write while the lock is free, so a step that takes   *)
(* no lock cannot disturb WorkInv.                                         *)
LEMMA NobodyWrites ==
    ASSUME LockInv, lock = NoProc
    PROVE  \A p \in Procs : pc[p] \notin HoldingLock
  BY JournalConstants DEF LockInv

LEMMA OutsideLock ==
    ASSUME TypeOK, \A q \in Procs : pc'[q] \notin HoldingLock, lock' = NoProc
    PROVE  LockInv' /\ WorkInv'
  <1>1. LockInv'
    BY JournalConstants DEF LockInv
  <1>2. WorkInv'
    BY DEF WorkInv, WorkOf, HoldingLock
  <1>3. QED
    BY <1>1, <1>2

(* The head is a hash, and the last segment's when there is one.           *)
LEMMA HeadType ==
    ASSUME TypeOK
    PROVE  JournalHead \in Nat
  <1>1. CASE disk = <<>>
    BY <1>1 DEF JournalHead, EmptyHead
  <1>2. CASE disk # <<>>
    <2>1. disk[Len(disk)] \in Segment
      BY <1>2 DEF TypeOK
    <2>2. QED
      BY <1>2, <2>1 DEF JournalHead, Segment
  <1>3. QED
    BY <1>1, <1>2

(* A step of a process outside the lock that leaves the files alone.       *)
StaysOutside(q) == \/ pc'[q] = pc[q]
                   \/ pc[q] \notin HoldingLock /\ pc'[q] \notin HoldingLock

LEMMA OutsideKept ==
    ASSUME LockInv, WorkInv, UNCHANGED <<disk, durable, backup, work, lock>>,
           \A q \in Procs : StaysOutside(q)
    PROVE  LockInv' /\ WorkInv'
  <1>1. LockInv'
    BY DEF LockInv, StaysOutside
  <1>2. ASSUME NEW q \in Procs
        PROVE  WorkOf(q)'
    <2>1. CASE pc'[q] \notin HoldingLock
      BY <2>1 DEF WorkOf, HoldingLock
    <2>2. CASE pc'[q] = pc[q]
      BY <2>2 DEF WorkInv, WorkOf, Staged, DurableFence, HasKey, Retired, JournalHead, Prefix
    <2>3. QED
      BY <2>1, <2>2 DEF StaysOutside
  <1>3. WorkInv'
    BY <1>2 DEF WorkInv
  <1>4. QED
    BY <1>1, <1>3

(* Opening a handle: the directory is synced, nothing else changes.        *)
LEMMA OpenForStep ==
    ASSUME IInv, NEW p \in Procs, NEW c \in Capabilities, NEW ok \in BOOLEAN,
           OpenFor(p, c, ok)
    PROVE  IInv'
  <1>1. pc' \in [Procs -> Steps] /\ cap' \in [Procs -> Capabilities]
    BY DEF IInv, TypeOK, OpenFor, Steps
  <1>2. TypeOK'
    BY <1>1 DEF IInv, TypeOK, OpenFor
  <1>3. LockInv' /\ WorkInv'
    <2>1. \A q \in Procs : pc'[q] \notin HoldingLock
      BY NobodyWrites DEF IInv, OpenFor, TypeOK, HoldingLock
    <2>2. QED
      BY <2>1, OutsideLock DEF IInv, OpenFor
  <1>4. StoreInv'
    BY StoreKept DEF IInv, OpenFor
  <1>5. QED
    BY <1>2, <1>3, <1>4 DEF IInv

(* Inspecting, closing and loading change only the process's own handle.   *)
LEMMA ReadStep ==
    ASSUME IInv, NEW p \in Procs,
           OpenInspection(p) \/ Close(p) \/ ReadAll(p)
    PROVE  IInv'
  <1>1. /\ UNCHANGED <<disk, durable, sidecar, lock, nextHash, work, backup, acked, losses>>
        /\ pc' \in [Procs -> Steps] /\ cap' \in [Procs -> Capabilities]
        /\ view' \in [Procs -> Nat]
        /\ \A q \in Procs : StaysOutside(q)
    <2>1. CASE OpenInspection(p)
      BY <2>1 DEF IInv, TypeOK, OpenInspection, Steps, Capabilities, HoldingLock, StaysOutside
    <2>2. CASE Close(p)
      BY <2>2 DEF IInv, TypeOK, Close, Steps, Capabilities, HoldingLock, EmptyHead, StaysOutside
    <2>3. CASE ReadAll(p)
      BY <2>3, HeadType DEF IInv, TypeOK, ReadAll, StaysOutside
    <2>4. QED
      BY <2>1, <2>2, <2>3
  <1>2. TypeOK'
    BY <1>1 DEF IInv, TypeOK
  <1>3. LockInv' /\ WorkInv'
    BY <1>1, OutsideKept DEF IInv
  <1>4. StoreInv'
    BY <1>1, StoreKept DEF IInv
  <1>5. QED
    BY <1>2, <1>3, <1>4 DEF IInv

(* A backup is a copy of a well formed journal.                            *)
LEMMA WithSnapshotStep ==
    ASSUME IInv, NEW p \in Procs, WithSnapshot(p)
    PROVE  IInv'
  <1>1. TypeOK'
    BY DEF IInv, TypeOK, WithSnapshot
  <1>2. LockInv' /\ WorkInv'
    BY NobodyWrites, OutsideLock DEF IInv, WithSnapshot
  <1>3. StoreInv'
    <2>1. WellFormed(disk)' /\ WellFormed(backup)' /\ HashInv'
      BY DEF IInv, StoreInv, WellFormed, HashInv, Below, Agree, WithSnapshot
    <2>2. SidecarHasFence' /\ CreatedSurvives'
      BY DEF IInv, StoreInv, SidecarHasFence, CreatedSurvives, WithSnapshot
    <2>3. QED
      BY <2>1, <2>2 DEF StoreInv
  <1>4. QED
    BY <1>1, <1>2, <1>3 DEF IInv
(* SegmentOf finds a segment when the key was used.                        *)
LEMMA SegmentOfKey ==
    ASSUME TypeOK, NEW k, HasKey(k)
    PROVE  \E j \in 1..Len(disk) : SegmentOf(k) = disk[j] /\ disk[j].key = k
  <1>1. DOMAIN disk = 1..Len(disk)
    BY DEF TypeOK
  <1>2. \E j \in DOMAIN disk : disk[j].key = k
    BY DEF HasKey
  <1>3. QED
    BY <1>1, <1>2 DEF SegmentOf

(* A replay answers from the files and changes none.                       *)
LEMMA AppendReplayStep ==
    ASSUME IInv, NEW p \in Procs, NEW k \in Keys, NEW i \in Intents, AppendReplay(p, k, i)
    PROVE  IInv'
  <1>1. SegmentOf(k) \in Segment
    BY DEF IInv, TypeOK, AppendReplay, HasKey, SegmentOf
  <1>2. TypeOK'
    BY <1>1 DEF IInv, TypeOK, AppendReplay, Ack
  <1>3. LockInv' /\ WorkInv'
    BY OutsideKept DEF IInv, AppendReplay, StaysOutside
  <1>4. StoreInv'
    <2>1. WellFormed(disk)' /\ WellFormed(backup)' /\ HashInv'
      BY ShapeKept DEF IInv, AppendReplay
    <2>2. SidecarHasFence' /\ CreatedSurvives'
      BY DEF IInv, StoreInv, SidecarHasFence, CreatedSurvives, AppendReplay
    <2>3. QED
      BY <2>1, <2>2 DEF StoreInv
  <1>5. QED
    BY <1>2, <1>3, <1>4 DEF IInv

(* A process that takes the free lock need only account for its own work.  *)
LEMMA EnterStep ==
    ASSUME IInv, NEW p \in Procs, lock = NoProc, NEW step \in HoldingLock,
           NEW draft \in Draft \cup {NoWork}, Enter(p, step, draft), WorkOf(p)'
    PROVE  IInv'
  <1>1. pc' \in [Procs -> Steps] /\ work' \in [Procs -> Draft \cup {NoWork}]
    BY DEF IInv, TypeOK, Enter, Steps
  <1>2. TypeOK'
    BY <1>1 DEF IInv, TypeOK, Enter
  <1>3. pc'[p] = step /\ \A q \in Procs : q # p => pc'[q] \notin HoldingLock
    BY NobodyWrites DEF IInv, TypeOK, Enter
  <1>4. LockInv'
    BY <1>3 DEF LockInv, Enter
  <1>5. WorkInv'
    BY <1>3 DEF WorkInv, WorkOf, HoldingLock
  <1>6. StoreInv'
    BY StoreKept DEF IInv, Enter
  <1>7. QED
    BY <1>2, <1>4, <1>5, <1>6 DEF IInv

(* A process that gives the lock up leaves no work behind.                 *)
LEMMA LeaveFacts ==
    ASSUME TypeOK, LockInv, NEW p \in Procs, pc[p] \in HoldingLock,
           NEW step \in {"idle", "closed"}, Leave(p, step)
    PROVE  /\ pc' \in [Procs -> Steps] /\ work' \in [Procs -> Draft \cup {NoWork}]
           /\ lock' \in Procs \cup {NoProc}
           /\ LockInv' /\ WorkInv'
  <1>1. pc' \in [Procs -> Steps] /\ work' \in [Procs -> Draft \cup {NoWork}]
    BY DEF TypeOK, Leave, Steps
  <1>2. \A q \in Procs : pc'[q] \notin HoldingLock
    BY JournalConstants DEF TypeOK, LockInv, Leave, HoldingLock
  <1>3. LockInv' /\ WorkInv'
    BY <1>2, OutsideLock DEF Leave
  <1>4. QED
    BY <1>1, <1>3 DEF Leave

(* A fault or the death of the writer releases the lock and keeps every    *)
(* file that was already renamed.                                          *)
LEMMA FaultStep ==
    ASSUME IInv, NEW p \in Procs, Fault(p) \/ Crash(p)
    PROVE  IInv'
  <1>1. /\ pc[p] \in HoldingLock
        /\ \E step \in {"idle", "closed"} : Leave(p, step)
        /\ UNCHANGED <<disk, durable, sidecar, nextHash, backup, acked, losses>>
        /\ cap' \in [Procs -> Capabilities] /\ view' \in [Procs -> Nat]
    <2>1. CASE Fault(p)
      BY <2>1 DEF IInv, TypeOK, Fault
    <2>2. CASE Crash(p)
      BY <2>2 DEF IInv, TypeOK, Crash, Capabilities, EmptyHead
    <2>3. QED
      BY <2>1, <2>2
  <1>2. PICK step \in {"idle", "closed"} : Leave(p, step)
    BY <1>1
  <1>3. /\ pc' \in [Procs -> Steps] /\ work' \in [Procs -> Draft \cup {NoWork}]
        /\ lock' \in Procs \cup {NoProc}
        /\ LockInv' /\ WorkInv'
    BY <1>1, <1>2, LeaveFacts DEF IInv
  <1>4. TypeOK'
    BY <1>1, <1>3 DEF IInv, TypeOK
  <1>5. StoreInv'
    BY <1>1, StoreKept DEF IInv
  <1>6. QED
    BY <1>3, <1>4, <1>5 DEF IInv
(* A staged draft is chained to the head, has a fresh key and does not     *)
(* follow a retirement.                                                    *)
LEMMA StageStep ==
    ASSUME IInv, NEW p \in Procs, lock = NoProc, NEW k \in Kinds, NEW i \in Intents,
           Stage(p, k, i, JournalHead),
           ~HasKey(k), ~Retired, (k = "establish") <=> (disk = <<>>)
    PROVE  IInv'
  <1> DEFINE d == [prev |-> JournalHead, expect |-> JournalHead, key |-> k, intent |-> i]
  <1>1. d \in Draft
    BY HeadType DEF IInv, Draft
  <1>2. Enter(p, "staged", d)
    BY DEF Stage
  <1> HIDE DEF d
  <1>3. pc'[p] = "staged" /\ work'[p] = d /\ disk' = disk
    BY <1>2 DEF Enter, IInv, TypeOK
  <1>4. d.prev = JournalHead /\ d.expect = JournalHead /\ d.key = k
    BY DEF d
  <1>5. Staged(p)'
    BY <1>1, <1>3, <1>4 DEF Staged, HasKey, Retired, JournalHead
  <1>6. WorkOf(p)'
    BY <1>3, <1>5 DEF WorkOf
  <1>7. QED
    BY <1>1, <1>2, <1>6, EnterStep DEF HoldingLock

(* Retrying a fence enters with the draft of the committed segment.        *)
LEMMA ReplayingStep ==
    ASSUME IInv, NEW p \in Procs, lock = NoProc, NEW j \in 1..Len(disk),
           Enter(p, "replaying", DraftOf(disk[j]))
    PROVE  IInv'
  <1>0. disk[j] \in Segment
    BY DEF IInv, TypeOK
  <1>1. DraftOf(disk[j]) \in Draft /\ DraftOf(disk[j]).key = disk[j].key
    BY <1>0 DEF DraftOf, Draft, Segment
  <1>2. pc'[p] = "replaying" /\ work'[p] = DraftOf(disk[j]) /\ disk' = disk
    BY DEF Enter, IInv, TypeOK
  <1>3. HasKey(work[p].key)'
    BY <1>1, <1>2 DEF HasKey, IInv, TypeOK
  <1>4. WorkOf(p)'
    BY <1>1, <1>2, <1>3 DEF WorkOf
  <1>5. QED
    BY <1>1, <1>4, EnterStep DEF HoldingLock

(* The three writers that stage a segment or retry a fence.                *)
LEMMA WriterStep ==
    ASSUME IInv, NEW p \in Procs,
           AppendOnce(p) \/ EstablishAuthority(p) \/ RetireAuthority(p)
    PROVE  IInv'
  <1>0. Established => disk # <<>>
    BY DEF Established
  <1>1. CASE AppendOnce(p)
    <2>1. PICK k \in Keys, i \in Intents : AppendNew(p, k, i) \/ AppendReplay(p, k, i)
      BY <1>1 DEF AppendOnce
    <2>2. CASE AppendNew(p, k, i)
      <3>1. k \in Kinds /\ k # "establish"
        BY JournalConstants DEF Kinds
      <3>2. QED
        BY <1>0, <2>2, <3>1, StageStep DEF AppendNew, Admitted
    <2>3. CASE AppendReplay(p, k, i)
      BY <2>3, AppendReplayStep
    <2>4. QED
      BY <2>1, <2>2, <2>3
  <1>2. CASE EstablishAuthority(p)
    <2>1. PICK i \in Intents :
            /\ Admitted(p, "establishment")
            /\ IF disk = <<>>
                 THEN Stage(p, "establish", i, EmptyHead)
                 ELSE /\ Established /\ disk[1].intent = i
                      /\ Enter(p, "replaying", DraftOf(disk[1]))
      BY <1>2 DEF EstablishAuthority
    <2>2. CASE disk = <<>>
      <3>1. /\ JournalHead = EmptyHead /\ ~HasKey("establish") /\ ~Retired
            /\ "establish" \in Kinds
        BY <2>2 DEF JournalHead, HasKey, Retired, Kinds
      <3>2. QED
        BY <2>1, <2>2, <3>1, StageStep DEF Admitted
    <2>3. CASE disk # <<>>
      <3>1. 1 \in 1..Len(disk)
        BY <2>3 DEF IInv, TypeOK
      <3>2. QED
        BY <2>1, <2>3, <3>1, ReplayingStep DEF Admitted
    <2>4. QED
      BY <2>2, <2>3
  <1>3. CASE RetireAuthority(p)
    <2>1. PICK i \in Intents :
            /\ Admitted(p, "ordinary") /\ Established
            /\ IF Retired
                 THEN Enter(p, "replaying", DraftOf(SegmentOf("retire")))
                 ELSE view[p] = JournalHead /\ Stage(p, "retire", i, view[p])
      BY <1>3 DEF RetireAuthority
    <2>2. CASE Retired
      <3>1. PICK j \in 1..Len(disk) : SegmentOf("retire") = disk[j]
        BY <2>2, SegmentOfKey DEF IInv, Retired
      <3>2. QED
        BY <2>1, <2>2, <3>1, ReplayingStep DEF Admitted
    <2>3. CASE ~Retired
      <3>1. "retire" \in Kinds /\ ~HasKey("retire")
        BY <2>3 DEF Kinds, Retired
      <3>2. QED
        BY <1>0, <2>1, <2>3, <3>1, StageStep DEF Admitted
    <2>4. QED
      BY <2>2, <2>3
  <1>4. QED
    BY <1>1, <1>2, <1>3

(* A restore starts on a prefix of the backup.                             *)
LEMMA RestoreSegmentsStep ==
    ASSUME IInv, NEW p \in Procs, RestoreSegments(p)
    PROVE  IInv'
  <1>1. pc'[p] = "restoring" /\ disk' = disk /\ backup' = backup
    BY DEF RestoreSegments, Enter, IInv, TypeOK
  <1>2. WorkOf(p)'
    BY <1>1 DEF WorkOf, RestoreSegments, Prefix
  <1>3. QED
    BY <1>2, EnterStep DEF RestoreSegments, Admitted, HoldingLock
(* A file more at the end of the journal: what is durable, the sidecar and *)
(* the acknowledged segments stay as they are.                             *)
LEMMA GrowKept ==
    ASSUME TypeOK, SidecarHasFence, CreatedSurvives, NEW e \in Segment,
           disk' = Append(disk, e), UNCHANGED <<durable, sidecar, acked>>
    PROVE  /\ SidecarHasFence' /\ CreatedSurvives'
           /\ disk' \in Seq(Segment) /\ durable' \in 0..Len(disk')
  <1>1. /\ disk' \in Seq(Segment) /\ Len(disk) \in Nat /\ Len(disk') = Len(disk) + 1
        /\ \A i \in 1..Len(disk) : disk'[i] = disk[i]
    BY AppendFacts DEF TypeOK
  <1>2. \A i \in 1..durable : i \in 1..Len(disk) /\ disk'[i] = disk[i]
    BY <1>1 DEF TypeOK
  <1>3. SidecarHasFence'
    BY <1>2 DEF SidecarHasFence
  <1>4. CreatedSurvives'
    BY <1>2 DEF CreatedSurvives
  <1>5. durable' \in 0..Len(disk')
    BY <1>1 DEF TypeOK
  <1>6. QED
    BY <1>1, <1>3, <1>4, <1>5

(* The rename: the draft still fits the head it was taken from, because no *)
(* other process wrote while this one held the lock.                       *)
LEMMA PublishStep ==
    ASSUME IInv, NEW p \in Procs, Publish(p)
    PROVE  IInv'
  <1> DEFINE e == [hash |-> nextHash, prev |-> work[p].prev, expect |-> work[p].expect,
                   key |-> work[p].key, intent |-> work[p].intent]
  <1>1. pc[p] = "staged" /\ disk' = Append(disk, e)
    BY DEF Publish
  <1>2. lock = p /\ Staged(p)
    BY <1>1 DEF IInv, LockInv, HoldingLock, WorkInv, WorkOf
  <1>3. e \in Segment
    BY <1>2 DEF Staged, Draft, Segment, IInv, TypeOK
  <1>4. /\ e.hash = nextHash /\ e.prev = JournalHead /\ e.expect = JournalHead
        /\ e.key = work[p].key
    BY <1>2 DEF Staged
  <1> HIDE DEF e
  <1>5. /\ Len(disk) \in Nat /\ Len(disk') = Len(disk) + 1
        /\ \A i \in 1..Len(disk) : disk'[i] = disk[i]
        /\ disk'[Len(disk) + 1] = e
    BY <1>1, <1>3, AppendFacts DEF IInv, TypeOK
  <1>6. pc' \in [Procs -> Steps] /\ pc'[p] = "published" /\ \A q \in Procs : q # p => pc'[q] = pc[q]
    BY DEF Publish, IInv, TypeOK, Steps, HoldingLock
  <1>7. /\ SidecarHasFence' /\ CreatedSurvives'
        /\ disk' \in Seq(Segment) /\ durable' \in 0..Len(disk')
    BY <1>1, <1>3, GrowKept DEF IInv, StoreInv, Publish
  <1>8. TypeOK'
    BY <1>6, <1>7 DEF IInv, TypeOK, Publish
  <1>9. LockInv'
    BY <1>2, <1>6 DEF IInv, LockInv, Publish, HoldingLock
  <1>10. WorkInv'
    <2>1. ASSUME NEW q \in Procs, q # p
          PROVE  WorkOf(q)'
      BY <1>2, <1>6, <2>1 DEF IInv, LockInv, WorkOf, HoldingLock
    <2>2. HasKey(work[p].key)'
      <3>1. DOMAIN disk' = 1..Len(disk')
        BY <1>7
      <3>2. QED
        BY <3>1, <1>4, <1>5 DEF HasKey, Publish
    <2>3. WorkOf(p)'
      BY <1>2, <1>6, <2>2 DEF WorkOf, Publish, Staged
    <2>4. QED
      BY <2>1, <2>3 DEF WorkInv
  <1>11. WellFormed(disk')
    <2>1. \A i \in 1..Len(disk) : disk[i].key # e.key /\ disk[i].key # "retire"
      <3>1. DOMAIN disk = 1..Len(disk)
        BY DEF IInv, TypeOK
      <3>2. QED
        BY <3>1, <1>2, <1>4 DEF Staged, HasKey, Retired
    <2>2. (e.key = "establish") <=> (disk = <<>>)
      BY <1>2, <1>4 DEF Staged
    <2>3. QED
      BY <1>1, <1>3, <1>4, <2>1, <2>2, WellFormedAppend DEF IInv, TypeOK, StoreInv, JournalHead
  <1>12. HashInv'
    <2>1. /\ Below(disk, nextHash) /\ Below(backup, nextHash) /\ Agree(disk, disk)
          /\ Agree(disk, backup) /\ Agree(backup, backup)
          /\ nextHash \in Nat /\ nextHash' = nextHash + 1 /\ backup' = backup
      BY DEF IInv, StoreInv, HashInv, TypeOK, Publish
    <2>2. /\ \A i \in 1..Len(disk) : disk[i].hash \in Nat
          /\ \A i \in 1..Len(backup) : backup[i].hash \in Nat
      <3>1. /\ \A i \in 1..Len(disk) : disk[i] \in Segment
            /\ \A i \in 1..Len(backup) : backup[i] \in Segment
        BY DEF IInv, TypeOK
      <3>2. \A x \in Segment : x.hash \in Nat
        BY DEF Segment
      <3>3. QED
        BY <3>1, <3>2
    <2>3. Below(disk', nextHash') /\ Below(backup', nextHash')
      <3>1. ASSUME NEW i \in 1..Len(disk')
            PROVE  disk'[i].hash < nextHash'
        <4>1. CASE i \in 1..Len(disk)
          BY <4>1, <1>5, <2>1, <2>2 DEF Below
        <4>2. CASE i = Len(disk) + 1
          BY <4>2, <1>4, <1>5, <2>1
        <4>3. QED
          BY <4>1, <4>2, <1>5
      <3>2. \A i \in 1..Len(backup) : backup[i].hash < nextHash'
        BY <2>1, <2>2 DEF Below
      <3>3. QED
        BY <3>1, <3>2, <2>1 DEF Below
    <2>4. ASSUME NEW i \in 1..Len(disk'), NEW j \in 1..Len(disk'), disk'[i].hash = disk'[j].hash
          PROVE  disk'[i] = disk'[j]
      BY <1>4, <1>5, <2>1, <2>2, <2>4 DEF Below, Agree
    <2>5. ASSUME NEW i \in 1..Len(disk'), NEW j \in 1..Len(backup), disk'[i].hash = backup[j].hash
          PROVE  disk'[i] = backup[j]
      BY <1>4, <1>5, <2>1, <2>2, <2>5 DEF Below, Agree
    <2>6. QED
      BY <2>1, <2>3, <2>4, <2>5 DEF HashInv, Agree
  <1>13. StoreInv'
    <2>1. WellFormed(backup)'
      BY DEF IInv, StoreInv, Publish, WellFormed
    <2>2. WellFormed(disk)'
      BY <1>11 DEF WellFormed
    <2>3. QED
      BY <1>7, <1>12, <2>1, <2>2 DEF StoreInv
  <1>14. QED
    BY <1>8, <1>9, <1>10, <1>13 DEF IInv
(* The segment a writer answers with is one of the files.                  *)
LEMMA AnswerFacts ==
    ASSUME TypeOK, NEW k, HasKey(k), NEW h \in {"created", "confirmed"}
    PROVE  /\ [seg |-> SegmentOf(k), how |-> h] \in Ack
           /\ \E j \in 1..Len(disk) : disk[j] = SegmentOf(k)
  <1>1. PICK j \in 1..Len(disk) : SegmentOf(k) = disk[j]
    BY SegmentOfKey
  <1>2. disk[j] \in Segment
    BY DEF TypeOK
  <1>3. QED
    BY <1>1, <1>2 DEF Ack

(* The directory sync makes the whole journal durable before the reply.    *)
LEMMA SyncDirectoryStep ==
    ASSUME IInv, NEW p \in Procs, SyncDirectory(p)
    PROVE  IInv'
  <1>1. pc[p] \in {"published", "replaying"} /\ lock = p
    BY DEF SyncDirectory, IInv, LockInv, HoldingLock
  <1>2. work[p] \in Draft /\ HasKey(work[p].key)
    BY <1>1 DEF IInv, WorkInv, WorkOf
  <1>3. CASE work[p].key = "retire"
    <2>1. /\ pc' = [pc EXCEPT ![p] = "marking"] /\ durable' = Len(disk)
          /\ UNCHANGED <<lock, work, acked, disk, sidecar, nextHash, cap, view, backup, losses>>
      BY <1>3 DEF SyncDirectory
    <2>2. TypeOK'
      BY <2>1 DEF IInv, TypeOK, Steps, HoldingLock
    <2>3. LockInv'
      BY <1>1, <2>1 DEF IInv, LockInv, TypeOK, HoldingLock
    <2>4. DurableFence'
      <3>1. DOMAIN disk = 1..Len(disk)
        BY DEF IInv, TypeOK
      <3>2. QED
        BY <1>2, <1>3, <2>1, <3>1 DEF DurableFence, HasKey
    <2>5. ASSUME NEW q \in Procs
          PROVE  WorkOf(q)'
      BY <1>1, <2>1, <2>4 DEF IInv, TypeOK, LockInv, WorkOf, HoldingLock
    <2>6. StoreInv'
      BY <2>1, StoreKept DEF IInv
    <2>7. QED
      BY <2>2, <2>3, <2>5, <2>6 DEF IInv, WorkInv
  <1>4. CASE work[p].key # "retire"
    <2>1. PICK h \in {"created", "confirmed"} :
             acked' = acked \cup {[seg |-> SegmentOf(work[p].key), how |-> h]}
      BY <1>4 DEF SyncDirectory
    <2>2. /\ Leave(p, "idle") /\ durable' = Len(disk)
          /\ UNCHANGED <<disk, sidecar, nextHash, cap, view, backup, losses>>
      BY <1>4 DEF SyncDirectory
    <2>3. /\ pc' \in [Procs -> Steps] /\ work' \in [Procs -> Draft \cup {NoWork}]
          /\ lock' \in Procs \cup {NoProc}
          /\ LockInv' /\ WorkInv'
      BY <1>1, <2>2, LeaveFacts DEF IInv, HoldingLock
    <2>4. /\ [seg |-> SegmentOf(work[p].key), how |-> h] \in Ack
          /\ \E j \in 1..Len(disk) : disk[j] = SegmentOf(work[p].key)
      BY <1>2, AnswerFacts DEF IInv
    <2>5. TypeOK'
      BY <2>1, <2>2, <2>3, <2>4 DEF IInv, TypeOK
    <2>6. WellFormed(disk)' /\ WellFormed(backup)' /\ HashInv'
      BY <2>2, ShapeKept DEF IInv
    <2>7. (1..durable) \subseteq (1..durable')
      BY <2>2 DEF IInv, TypeOK
    <2>8. SidecarHasFence'
      BY <2>2, <2>7 DEF IInv, StoreInv, SidecarHasFence
    <2>9. CreatedSurvives'
      BY <2>1, <2>2, <2>4, <2>7 DEF IInv, StoreInv, CreatedSurvives
    <2>10. QED
      BY <2>3, <2>5, <2>6, <2>8, <2>9 DEF IInv, StoreInv
  <1>5. QED
    BY <1>3, <1>4

(* The sidecar is written only once the fence is durable.                  *)
LEMMA WriteSidecarStep ==
    ASSUME IInv, NEW p \in Procs, WriteSidecar(p)
    PROVE  IInv'
  <1>1. DurableFence /\ lock = p
    BY DEF WriteSidecar, IInv, LockInv, HoldingLock, WorkInv, WorkOf
  <1>2. TypeOK'
    BY DEF WriteSidecar, IInv, TypeOK, Steps, HoldingLock
  <1>3. LockInv'
    BY <1>1 DEF WriteSidecar, IInv, LockInv, TypeOK, HoldingLock
  <1>4. ASSUME NEW q \in Procs
        PROVE  WorkOf(q)'
    BY <1>1 DEF WriteSidecar, IInv, TypeOK, LockInv, WorkOf, HoldingLock, DurableFence
  <1>5. WellFormed(disk)' /\ WellFormed(backup)' /\ HashInv' /\ CreatedSurvives'
    BY ShapeKept DEF WriteSidecar, IInv, StoreInv, CreatedSurvives
  <1>6. SidecarHasFence'
    BY <1>1 DEF WriteSidecar, SidecarHasFence, DurableFence
  <1>7. QED
    BY <1>2, <1>3, <1>4, <1>5, <1>6 DEF IInv, WorkInv, StoreInv

(* The reply of a retirement names the one durable fence.                  *)
LEMMA FinishRetirementStep ==
    ASSUME IInv, NEW p \in Procs, FinishRetirement(p)
    PROVE  IInv'
  <1>1. pc[p] = "marked" /\ DurableFence
    BY DEF FinishRetirement, IInv, WorkInv, WorkOf
  <1>2. PICK i \in 1..durable : disk[i].key = "retire"
    BY <1>1 DEF DurableFence
  <1>3. DOMAIN disk = 1..Len(disk) /\ (1..durable) \subseteq (1..Len(disk))
    BY DEF IInv, TypeOK
  <1>4. HasKey("retire")
    BY <1>2, <1>3 DEF HasKey
  <1>5. PICK j \in 1..Len(disk) : SegmentOf("retire") = disk[j] /\ disk[j].key = "retire"
    BY <1>4, SegmentOfKey DEF IInv
  <1>6. i = j
    BY <1>2, <1>3, <1>5 DEF IInv, StoreInv, WellFormed
  <1>7. [seg |-> SegmentOf("retire"), how |-> "confirmed"] \in Ack
    BY <1>4, AnswerFacts DEF IInv
  <1>8. /\ pc' \in [Procs -> Steps] /\ work' \in [Procs -> Draft \cup {NoWork}]
        /\ lock' \in Procs \cup {NoProc}
        /\ LockInv' /\ WorkInv'
    BY <1>1, LeaveFacts DEF FinishRetirement, IInv, HoldingLock
  <1>9. TypeOK'
    BY <1>7, <1>8 DEF FinishRetirement, IInv, TypeOK
  <1>10. WellFormed(disk)' /\ WellFormed(backup)' /\ HashInv'
    BY ShapeKept DEF FinishRetirement, IInv
  <1>11. SidecarHasFence'
    BY <1>2 DEF FinishRetirement, SidecarHasFence
  <1>12. CreatedSurvives'
    BY <1>2, <1>5, <1>6 DEF FinishRetirement, IInv, StoreInv, CreatedSurvives
  <1>13. QED
    BY <1>8, <1>9, <1>10, <1>11, <1>12 DEF IInv, StoreInv
(* While a restore runs, equal hashes make the journal a true prefix of    *)
(* the backup, so the next file it publishes fits.                         *)
LEMMA PrefixIsEqual ==
    ASSUME TypeOK, HashInv, Prefix(disk, backup)
    PROVE  \A i \in 1..Len(disk) : i \in 1..Len(backup) /\ disk[i] = backup[i]
  <1>1. DOMAIN disk = 1..Len(disk) /\ Len(disk) \in Nat /\ Len(backup) \in Nat
    BY DEF TypeOK
  <1>2. QED
    BY <1>1 DEF HashInv, Agree, Prefix

LEMMA RestorePublishStep ==
    ASSUME IInv, NEW p \in Procs, RestorePublish(p)
    PROVE  IInv'
  <1> DEFINE e == backup[Len(disk) + 1]
  <1>1. /\ pc[p] = "restoring" /\ disk' = Append(disk, e) /\ pc' = [pc EXCEPT ![p] = "restored"]
        /\ UNCHANGED <<durable, sidecar, lock, nextHash, cap, view, work, backup, acked, losses>>
    BY DEF RestorePublish
  <1>2. lock = p /\ Prefix(disk, backup) /\ Len(disk) < Len(backup)
    BY <1>1 DEF IInv, LockInv, HoldingLock, WorkInv, WorkOf
  <1>3. Len(disk) \in Nat /\ Len(backup) \in Nat /\ e \in Segment
    BY <1>2 DEF IInv, TypeOK
  <1>4. \A i \in 1..Len(disk) : i \in 1..Len(backup) /\ disk[i] = backup[i]
    BY <1>2, PrefixIsEqual DEF IInv, StoreInv
  <1>5. /\ Len(disk') = Len(disk) + 1
        /\ \A i \in 1..Len(disk) : disk'[i] = disk[i]
        /\ disk'[Len(disk) + 1] = e
    BY <1>1, <1>3, AppendFacts DEF IInv, TypeOK
  <1>6. Len(disk') <= Len(backup) /\ \A i \in 1..Len(disk') : i \in 1..Len(backup) /\ disk'[i] = backup[i]
    BY <1>2, <1>3, <1>4, <1>5
  <1>7. /\ SidecarHasFence' /\ CreatedSurvives'
        /\ disk' \in Seq(Segment) /\ durable' \in 0..Len(disk')
    BY <1>1, <1>3, GrowKept DEF IInv, StoreInv
  <1> HIDE DEF e
  <1>8. TypeOK'
    BY <1>1, <1>7 DEF IInv, TypeOK, Steps, HoldingLock
  <1>9. LockInv'
    BY <1>1, <1>2 DEF IInv, LockInv, TypeOK, HoldingLock
  <1>10. Prefix(disk', backup')
    BY <1>1, <1>6, <1>7 DEF Prefix
  <1>11. ASSUME NEW q \in Procs
         PROVE  WorkOf(q)'
    BY <1>1, <1>2, <1>10 DEF IInv, TypeOK, LockInv, WorkOf, HoldingLock, Prefix
  <1>12. WellFormed(disk')
    BY <1>6, <1>7, WellFormedPrefix DEF IInv, TypeOK, StoreInv
  <1>13. HashInv'
    <2>1. /\ Below(backup, nextHash) /\ Agree(backup, backup)
          /\ nextHash' = nextHash /\ backup' = backup
      BY <1>1 DEF IInv, StoreInv, HashInv
    <2>2. QED
      BY <1>6, <2>1 DEF HashInv, Below, Agree
  <1>14. WellFormed(disk)' /\ WellFormed(backup)'
    <2>1. backup' = backup /\ WellFormed(backup)
      BY <1>1 DEF IInv, StoreInv
    <2>2. QED
      BY <1>12, <2>1 DEF WellFormed
  <1>15. QED
    BY <1>7, <1>8, <1>9, <1>11, <1>13, <1>14 DEF IInv, WorkInv, StoreInv

(* A restore goes on while the backup has more, or gives the lock up.      *)
LEMMA RestoreSyncStep ==
    ASSUME IInv, NEW p \in Procs, RestoreSync(p)
    PROVE  IInv'
  <1>1. pc[p] = "restored" /\ lock = p /\ Prefix(disk, backup)
    BY DEF RestoreSync, IInv, LockInv, HoldingLock, WorkInv, WorkOf
  <1>2. /\ UNCHANGED <<disk, sidecar, nextHash, cap, view, backup, acked, losses>>
        /\ durable' = Len(disk)
    BY DEF RestoreSync
  <1>3. StoreInv'
    BY <1>2, StoreKept DEF IInv
  <1>4. CASE Len(disk) < Len(backup)
    <2>1. pc' = [pc EXCEPT ![p] = "restoring"] /\ UNCHANGED <<lock, work>>
      BY <1>4 DEF RestoreSync
    <2>2. TypeOK'
      BY <1>2, <2>1 DEF IInv, TypeOK, Steps, HoldingLock
    <2>3. LockInv'
      BY <1>1, <2>1 DEF IInv, LockInv, TypeOK, HoldingLock
    <2>4. ASSUME NEW q \in Procs
          PROVE  WorkOf(q)'
      BY <1>1, <1>2, <1>4, <2>1 DEF IInv, TypeOK, LockInv, WorkOf, HoldingLock, Prefix
    <2>5. QED
      BY <1>3, <2>2, <2>3, <2>4 DEF IInv, WorkInv
  <1>5. CASE ~(Len(disk) < Len(backup))
    <2>1. /\ pc' \in [Procs -> Steps] /\ work' \in [Procs -> Draft \cup {NoWork}]
          /\ lock' \in Procs \cup {NoProc}
          /\ LockInv' /\ WorkInv'
      BY <1>1, <1>5, LeaveFacts DEF RestoreSync, IInv, HoldingLock
    <2>2. TypeOK'
      BY <1>2, <2>1 DEF IInv, TypeOK
    <2>3. QED
      BY <1>3, <2>1, <2>2 DEF IInv
  <1>6. QED
    BY <1>4, <1>5

(* A power loss keeps a prefix that contains everything durable.           *)
LEMMA PowerLossStep ==
    ASSUME IInv, PowerLoss
    PROVE  IInv'
  <1>1. PICK n \in durable..Len(disk) : disk' = SubSeq(disk, 1, n) /\ durable' = n
    BY DEF PowerLoss
  <1>2. n \in 0..Len(disk) /\ durable \in Nat /\ n \in Nat /\ durable <= n
    BY DEF IInv, TypeOK
  <1>3. disk' \in Seq(Segment) /\ Len(disk') = n /\ \A i \in 1..n : disk'[i] = disk[i]
    BY <1>1, <1>2, PrefixFacts DEF IInv, TypeOK
  <1>4. \A i \in 1..n : i \in 1..Len(disk)
    BY <1>2
  <1>5. \A i \in 1..durable : i \in 1..n /\ disk'[i] = disk[i]
    BY <1>2, <1>3
  <1>6. TypeOK'
    <2>1. /\ sidecar' \in {"none", "visible", "durable"} /\ lock' \in Procs \cup {NoProc}
          /\ pc' \in [Procs -> Steps] /\ cap' \in [Procs -> Capabilities]
          /\ view' \in [Procs -> Nat] /\ work' \in [Procs -> Draft \cup {NoWork}]
          /\ losses' \in Nat
      BY DEF PowerLoss, IInv, TypeOK, Steps, Capabilities, EmptyHead
    <2>2. nextHash' = nextHash /\ backup' = backup /\ acked' = acked
      BY DEF PowerLoss
    <2>3. durable' \in 0..Len(disk')
      BY <1>1, <1>2, <1>3
    <2>4. QED
      BY <1>3, <2>1, <2>2, <2>3 DEF IInv, TypeOK
  <1>7. LockInv' /\ WorkInv'
    <2>1. \A q \in Procs : pc'[q] \notin HoldingLock
      BY DEF PowerLoss, HoldingLock
    <2>2. QED
      BY <2>1, OutsideLock DEF PowerLoss, IInv
  <1>8. WellFormed(disk')
    <2>1. disk \in Seq(Segment) /\ WellFormed(disk)
      BY DEF IInv, TypeOK, StoreInv
    <2>2. Len(disk') <= Len(disk) /\ \A i \in 1..Len(disk') : disk'[i] = disk[i]
      BY <1>2, <1>3
    <2>3. QED
      BY <1>3, <2>1, <2>2, WellFormedPrefix
  <1>9. nextHash' = nextHash /\ backup' = backup /\ acked' = acked
    BY DEF PowerLoss
  <1>10. WellFormed(disk)' /\ WellFormed(backup)'
    <2>1. WellFormed(backup)
      BY DEF IInv, StoreInv
    <2>2. QED
      BY <1>8, <1>9, <2>1 DEF WellFormed
  <1>11. HashInv'
    <2>1. HashInv
      BY DEF IInv, StoreInv
    <2>2. Below(disk', nextHash') /\ Below(backup', nextHash')
      BY <1>3, <1>4, <1>9, <2>1 DEF HashInv, Below
    <2>3. Agree(disk', disk') /\ Agree(disk', backup') /\ Agree(backup', backup')
      BY <1>3, <1>4, <1>9, <2>1 DEF HashInv, Agree
    <2>4. QED
      BY <2>2, <2>3 DEF HashInv, Below, Agree
  <1>12. SidecarHasFence'
    <2>1. sidecar' # "none" => sidecar # "none"
      BY DEF PowerLoss
    <2>2. QED
      BY <1>1, <1>5, <2>1 DEF IInv, StoreInv, SidecarHasFence
  <1>13. CreatedSurvives'
    BY <1>1, <1>5, <1>9 DEF IInv, StoreInv, CreatedSurvives
  <1>14. QED
    BY <1>6, <1>7, <1>10, <1>11, <1>12, <1>13 DEF IInv, StoreInv

-----------------------------------------------------------------------------
(* Every step preserves the invariant.                                     *)
LEMMA NextIInv == IInv /\ [Next]_vars => IInv'
  <1> SUFFICES ASSUME IInv, [Next]_vars PROVE IInv'
    OBVIOUS
  <1>1. CASE UNCHANGED vars
    <2>1. TypeOK' /\ LockInv'
      BY <1>1 DEF IInv, TypeOK, LockInv, vars
    <2>2. WorkInv'
      BY <1>1, OutsideKept DEF IInv, vars, StaysOutside
    <2>3. StoreInv'
      BY <1>1, StoreKept DEF IInv, vars
    <2>4. QED
      BY <2>1, <2>2, <2>3 DEF IInv
  <1>2. ASSUME NEW p \in Procs, Open(p) \/ OpenForAuthorityEstablishment(p)
        PROVE  IInv'
    <2>1. Established \in BOOLEAN /\ (disk = <<>> \/ Established) \in BOOLEAN
      BY DEF Established
    <2>2. QED
      BY <1>2, <2>1, OpenForStep DEF Open, OpenForAuthorityEstablishment, Capabilities
  <1>3. ASSUME NEW p \in Procs, Proceed(p)
        PROVE  IInv'
    BY <1>3, PublishStep, SyncDirectoryStep, WriteSidecarStep, FinishRetirementStep,
       RestorePublishStep, RestoreSyncStep DEF Proceed
  <1>4. CASE Next
    BY <1>2, <1>3, <1>4, ReadStep, WithSnapshotStep, WriterStep, RestoreSegmentsStep,
       FaultStep, PowerLossStep DEF Next
  <1>5. QED
    BY <1>1, <1>4

(* The inductive invariant holds in every behaviour of the store.          *)
THEOREM StoreInvariant == Spec => []IInv
  BY InitIInv, NextIInv, PTL DEF Spec

(* Type correctness, for every number of processes, keys and writes.       *)
THEOREM TypeCorrect == Spec => []TypeOK
  <1>1. IInv => TypeOK
    BY DEF IInv
  <1>2. QED
    BY <1>1, StoreInvariant, PTL

(* What the inductive invariant says of the files on disk: readers accept  *)
(* the chain, keys are unique, every decision was made on the head it      *)
(* extends and a retirement is final.                                      *)
LEMMA DiskShape ==
    IInv => ChainIntact /\ OneCommitPerKey /\ DecidedOnHead /\ NothingAfterRetirement
  <1> SUFFICES ASSUME IInv
               PROVE  ChainIntact /\ OneCommitPerKey /\ DecidedOnHead /\ NothingAfterRetirement
    OBVIOUS
  <1>1. DOMAIN disk = 1..Len(disk)
    BY DEF IInv, TypeOK
  <1>2. QED
    BY <1>1 DEF IInv, StoreInv, WellFormed, ChainIntact, OneCommitPerKey, DecidedOnHead,
                NothingAfterRetirement

(* The chain of segments never breaks (readSegmentFileUnlocked).           *)
THEOREM ChainNeverBreaks == Spec => []ChainIntact
  BY StoreInvariant, DiskShape, PTL

(* AppendOnce commits a key at most once.                                  *)
THEOREM KeysCommitOnce == Spec => []OneCommitPerKey
  BY StoreInvariant, DiskShape, PTL

(* Every segment extends the head its caller decided on.                   *)
THEOREM DecisionsAreFresh == Spec => []DecidedOnHead
  BY StoreInvariant, DiskShape, PTL

(* Nothing is ever written after the retirement fence.                     *)
THEOREM RetirementIsFinal == Spec => []NothingAfterRetirement
  BY StoreInvariant, DiskShape, PTL

(* The retirement sidecar never outlives its fence.                        *)
THEOREM SidecarIsFenced == Spec => []SidecarHasFence
  <1>1. IInv => SidecarHasFence
    BY DEF IInv, StoreInv
  <1>2. QED
    BY <1>1, StoreInvariant, PTL

(* Created and confirmed segments survive every failure, power loss        *)
(* included.                                                               *)
THEOREM CreatedIsDurable == Spec => []CreatedSurvives
  <1>1. IInv => CreatedSurvives
    BY DEF IInv, StoreInv
  <1>2. QED
    BY <1>1, StoreInvariant, PTL
=============================================================================
