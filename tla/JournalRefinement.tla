------------------------- MODULE JournalRefinement -------------------------
(***************************************************************************)
(* The segment store implements CommandLog. The initial states agree; a    *)
(* rename commits one command, a directory sync makes the log durable, a   *)
(* power loss takes an unsynced tail, and every other step of the store is *)
(* invisible. That the renames are legal commits rests on the invariant of *)
(* JournalProofs.                                                          *)
(***************************************************************************)
EXTENDS JournalProofs

(* The abstract log of a sequence of segments is a sequence of commands.   *)
LEMMA LogOfType ==
    ASSUME NEW s \in Seq(Segment)
    PROVE  /\ LogOf(s) \in Seq(Log!Command) /\ Len(LogOf(s)) = Len(s)
           /\ DOMAIN LogOf(s) = 1..Len(s)
           /\ \A i \in 1..Len(s) : LogOf(s)[i] = Entry(s[i])
  <1>1. DOMAIN s = 1..Len(s) /\ Len(s) \in Nat /\ \A i \in 1..Len(s) : s[i] \in Segment
    OBVIOUS
  <1>2. \A i \in 1..Len(s) : Entry(s[i]) \in Log!Command
    BY <1>1 DEF Entry, Segment, Kinds, Log!Command, Log!Fences
  <1>3. LogOf(s) = [i \in 1..Len(s) |-> Entry(s[i])]
    BY <1>1 DEF LogOf
  <1>4. QED
    BY <1>1, <1>2, <1>3

(* One more segment is one more command.                                   *)
LEMMA LogOfAppend ==
    ASSUME NEW s \in Seq(Segment), NEW e \in Segment
    PROVE  LogOf(Append(s, e)) = Append(LogOf(s), Entry(e))
  <1> DEFINE t == Append(s, e)
  <1> DEFINE u == Append(LogOf(s), Entry(e))
  <1>1. /\ t \in Seq(Segment) /\ Len(s) \in Nat /\ Len(t) = Len(s) + 1
        /\ \A i \in 1..Len(s) : t[i] = s[i]
        /\ t[Len(s) + 1] = e
    BY AppendFacts
  <1>2. Entry(e) \in Log!Command
    BY DEF Entry, Segment, Kinds, Log!Command, Log!Fences
  <1>3. /\ LogOf(s) \in Seq(Log!Command) /\ Len(LogOf(s)) = Len(s)
        /\ \A i \in 1..Len(s) : LogOf(s)[i] = Entry(s[i])
    BY LogOfType
  <1>4. /\ u \in Seq(Log!Command) /\ Len(u) = Len(s) + 1
        /\ \A i \in 1..Len(s) : u[i] = Entry(s[i])
        /\ u[Len(s) + 1] = Entry(e)
    BY <1>2, <1>3, AppendFacts
  <1>5. /\ LogOf(t) \in Seq(Log!Command) /\ Len(LogOf(t)) = Len(t)
        /\ \A i \in 1..Len(t) : LogOf(t)[i] = Entry(t[i])
    BY <1>1, LogOfType
  <1> HIDE DEF t, u
  <1>6. \A i \in 1..Len(t) : LogOf(t)[i] = u[i]
    BY <1>1, <1>4, <1>5
  <1>7. LogOf(t) = u
    BY <1>1, <1>4, <1>5, <1>6
  <1>8. QED
    BY <1>7 DEF t, u

(* Losing segments is losing commands.                                     *)
LEMMA LogOfPrefix ==
    ASSUME NEW s \in Seq(Segment), NEW n \in 0..Len(s)
    PROVE  LogOf(SubSeq(s, 1, n)) = SubSeq(LogOf(s), 1, n)
  <1> DEFINE t == SubSeq(s, 1, n)
  <1> DEFINE u == SubSeq(LogOf(s), 1, n)
  <1>1. t \in Seq(Segment) /\ Len(t) = n /\ \A i \in 1..n : t[i] = s[i]
    BY PrefixFacts
  <1>2. /\ LogOf(s) \in Seq(Log!Command) /\ Len(LogOf(s)) = Len(s)
        /\ \A i \in 1..Len(s) : LogOf(s)[i] = Entry(s[i])
    BY LogOfType
  <1>3. u \in Seq(Log!Command) /\ Len(u) = n /\ \A i \in 1..n : u[i] = LogOf(s)[i]
    BY <1>2, PrefixFacts
  <1>4. /\ LogOf(t) \in Seq(Log!Command) /\ Len(LogOf(t)) = n
        /\ \A i \in 1..n : LogOf(t)[i] = Entry(t[i])
    BY <1>1, LogOfType
  <1> HIDE DEF t, u
  <1>5. \A i \in 1..n : LogOf(t)[i] = u[i]
    BY <1>1, <1>2, <1>3, <1>4
  <1>6. LogOf(t) = u
    BY <1>3, <1>4, <1>5
  <1>7. QED
    BY <1>6 DEF t, u

(* A key is in the log when a segment has it.                              *)
LEMMA LogOfKeys ==
    ASSUME NEW s \in Seq(Segment), NEW k, \A i \in 1..Len(s) : s[i].key # k
    PROVE  ~Log!HasKey(LogOf(s), k)
  <1>1. DOMAIN LogOf(s) = 1..Len(s) /\ \A i \in 1..Len(s) : LogOf(s)[i] = Entry(s[i])
    BY LogOfType
  <1>2. \A i \in 1..Len(s) : LogOf(s)[i].key = s[i].key
    BY <1>1 DEF Entry
  <1>3. QED
    BY <1>1, <1>2 DEF Log!HasKey

LEMMA LogOfEstablished ==
    ASSUME NEW s \in Seq(Segment), WellFormed(s)
    PROVE  Log!Established(LogOf(s)) <=> s # <<>>
  <1>1. /\ LogOf(s) \in Seq(Log!Command) /\ Len(LogOf(s)) = Len(s) /\ Len(s) \in Nat
        /\ \A i \in 1..Len(s) : LogOf(s)[i] = Entry(s[i])
    BY LogOfType
  <1>2. CASE s = <<>>
    BY <1>1, <1>2 DEF Log!Established
  <1>3. CASE s # <<>>
    <2>1. 1 \in 1..Len(s) /\ LogOf(s) # <<>>
      BY <1>1, <1>3
    <2>2. s[1].key = "establish"
      BY <2>1 DEF WellFormed
    <2>3. LogOf(s)[1] = Entry(s[1])
      BY <1>1, <2>1
    <2>4. LogOf(s)[1].key = s[1].key
      BY <2>3 DEF Entry
    <2>5. QED
      BY <1>3, <2>1, <2>2, <2>4 DEF Log!Established
  <1>4. QED
    BY <1>2, <1>3

-----------------------------------------------------------------------------
(* The steps.                                                              *)

(* A segment with a fresh key on a journal that is not retired is a legal  *)
(* commit.                                                                 *)
LEMMA CommitStep ==
    ASSUME IInv, NEW e \in Segment, disk' = Append(disk, e), durable' = durable,
           \A i \in 1..Len(disk) : disk[i].key # e.key /\ disk[i].key # "retire",
           (e.key = "establish") <=> (disk = <<>>)
    PROVE  Log!Next
  <1>1. disk \in Seq(Segment) /\ WellFormed(disk)
    BY DEF IInv, TypeOK, StoreInv
  <1>2. Entry(e) \in Log!Command /\ Entry(e).key = e.key
    BY DEF Entry, Segment, Kinds, Log!Command, Log!Fences
  <1>3. LogOf(disk)' = Append(LogOf(disk), Entry(e))
    <2>1. LogOf(disk)' = LogOf(Append(disk, e))
      BY DEF LogOf
    <2>2. QED
      BY <1>1, <2>1, LogOfAppend
  <1>4. ~Log!HasKey(LogOf(disk), e.key) /\ ~Log!Retired(LogOf(disk))
    BY <1>1, LogOfKeys DEF Log!Retired
  <1>5. Log!Established(LogOf(disk)) <=> e.key # "establish"
    BY <1>1, LogOfEstablished
  <1>6. Log!Commit(Entry(e))
    BY <1>2, <1>3, <1>4, <1>5 DEF Log!Commit
  <1>7. QED
    BY <1>2, <1>6 DEF Log!Next

(* A step that leaves the files alone is a sync, or is not visible.        *)
LEMMA QuietStep ==
    ASSUME IInv, disk' = disk, durable' = durable \/ durable' = Len(disk)
    PROVE  [Log!Next]_(Log!vars)
  <1>1. LogOf(disk)' = LogOf(disk)
    BY DEF LogOf
  <1>2. CASE durable' = durable
    BY <1>1, <1>2 DEF Log!vars
  <1>3. CASE durable' = Len(disk)
    <2>1. Len(LogOf(disk)) = Len(disk)
      BY LogOfType DEF IInv, TypeOK
    <2>2. QED
      BY <1>1, <1>3, <2>1 DEF Log!Next, Log!Sync
  <1>4. QED
    BY <1>2, <1>3

LEMMA PublishRefines ==
    ASSUME IInv, NEW p \in Procs, Publish(p)
    PROVE  Log!Next
  <1> DEFINE e == [hash |-> nextHash, prev |-> work[p].prev, expect |-> work[p].expect,
                   key |-> work[p].key, intent |-> work[p].intent]
  <1>1. pc[p] = "staged" /\ disk' = Append(disk, e) /\ durable' = durable
    BY DEF Publish
  <1>2. Staged(p)
    BY <1>1 DEF IInv, WorkInv, WorkOf
  <1>3. e \in Segment /\ e.key = work[p].key
    BY <1>2 DEF Staged, Draft, Segment, IInv, TypeOK
  <1> HIDE DEF e
  <1>4. DOMAIN disk = 1..Len(disk)
    BY DEF IInv, TypeOK
  <1>5. \A i \in 1..Len(disk) : disk[i].key # e.key /\ disk[i].key # "retire"
    BY <1>2, <1>3, <1>4 DEF Staged, HasKey, Retired
  <1>6. (e.key = "establish") <=> (disk = <<>>)
    BY <1>2, <1>3 DEF Staged
  <1>7. QED
    BY <1>1, <1>3, <1>5, <1>6, CommitStep

LEMMA RestorePublishRefines ==
    ASSUME IInv, NEW p \in Procs, RestorePublish(p)
    PROVE  Log!Next
  <1> DEFINE e == backup[Len(disk) + 1]
  <1>1. pc[p] = "restoring" /\ disk' = Append(disk, e) /\ durable' = durable
    BY DEF RestorePublish
  <1>2. Prefix(disk, backup) /\ Len(disk) < Len(backup)
    BY <1>1 DEF IInv, WorkInv, WorkOf
  <1>3. Len(disk) \in Nat /\ Len(backup) \in Nat /\ Len(disk) + 1 \in 1..Len(backup) /\ e \in Segment
    BY <1>2 DEF IInv, TypeOK
  <1>4. \A i \in 1..Len(disk) : i \in 1..Len(backup) /\ disk[i] = backup[i]
    BY <1>2, PrefixIsEqual DEF IInv, StoreInv
  <1>5. WellFormed(backup)
    BY DEF IInv, StoreInv
  <1>6. \A i \in 1..Len(disk) : disk[i].key # e.key /\ disk[i].key # "retire"
    BY <1>2, <1>3, <1>4, <1>5 DEF WellFormed
  <1>7. disk = <<>> <=> Len(disk) = 0
    BY DEF IInv, TypeOK
  <1>8. (e.key = "establish") <=> (disk = <<>>)
    BY <1>3, <1>5, <1>7 DEF WellFormed
  <1> HIDE DEF e
  <1>9. QED
    BY <1>1, <1>3, <1>6, <1>8, CommitStep

LEMMA PowerLossRefines ==
    ASSUME IInv, PowerLoss
    PROVE  Log!Next
  <1>1. PICK n \in durable..Len(disk) : disk' = SubSeq(disk, 1, n) /\ durable' = n
    BY DEF PowerLoss
  <1>2. n \in 0..Len(disk) /\ disk \in Seq(Segment)
    BY DEF IInv, TypeOK
  <1>3. LogOf(disk)' = SubSeq(LogOf(disk), 1, n)
    <2>1. LogOf(disk)' = LogOf(SubSeq(disk, 1, n))
      BY <1>1 DEF LogOf
    <2>2. QED
      BY <1>2, <2>1, LogOfPrefix
  <1>4. Len(LogOf(disk)) = Len(disk)
    BY <1>2, LogOfType
  <1>5. Log!PowerLoss
    BY <1>1, <1>3, <1>4 DEF Log!PowerLoss
  <1>6. QED
    BY <1>5 DEF Log!Next

LEMMA NextRefines == IInv /\ [Next]_vars => [Log!Next]_(Log!vars)
  <1> SUFFICES ASSUME IInv, [Next]_vars PROVE [Log!Next]_(Log!vars)
    OBVIOUS
  <1>1. CASE UNCHANGED vars
    BY <1>1, QuietStep DEF vars
  <1>2. ASSUME NEW p \in Procs, Publish(p) \/ RestorePublish(p)
        PROVE  [Log!Next]_(Log!vars)
    BY <1>2, PublishRefines, RestorePublishRefines
  <1>3. ASSUME NEW p \in Procs,
               SyncDirectory(p) \/ WriteSidecar(p) \/ FinishRetirement(p) \/ RestoreSync(p)
        PROVE  [Log!Next]_(Log!vars)
    <2>1. disk' = disk /\ (durable' = durable \/ durable' = Len(disk))
      BY <1>3 DEF SyncDirectory, WriteSidecar, FinishRetirement, RestoreSync
    <2>2. QED
      BY <2>1, QuietStep
  <1>4. ASSUME NEW p \in Procs,
               \/ Open(p) \/ OpenForAuthorityEstablishment(p) \/ OpenInspection(p)
               \/ Close(p) \/ ReadAll(p) \/ WithSnapshot(p) \/ Fault(p) \/ Crash(p)
        PROVE  [Log!Next]_(Log!vars)
    <2>1. disk' = disk /\ (durable' = durable \/ durable' = Len(disk))
      BY <1>4 DEF Open, OpenForAuthorityEstablishment, OpenFor, OpenInspection, Close,
                  ReadAll, WithSnapshot, Fault, Crash
    <2>2. QED
      BY <2>1, QuietStep
  <1>5. ASSUME NEW p \in Procs,
               AppendOnce(p) \/ EstablishAuthority(p) \/ RetireAuthority(p) \/ RestoreSegments(p)
        PROVE  [Log!Next]_(Log!vars)
    <2>1. disk' = disk /\ durable' = durable
      BY <1>5 DEF AppendOnce, AppendNew, AppendReplay, EstablishAuthority, RetireAuthority,
                  RestoreSegments, Stage, Enter
    <2>2. QED
      BY <2>1, QuietStep
  <1>6. CASE PowerLoss
    BY <1>6, PowerLossRefines
  <1>7. QED
    BY <1>1, <1>2, <1>3, <1>4, <1>5, <1>6 DEF Next, Proceed

LEMMA InitRefines == Init => Log!Init
  <1> SUFFICES ASSUME Init PROVE Log!Init
    OBVIOUS
  <1>1. disk = <<>> /\ durable = 0
    BY DEF Init
  <1>2. disk \in Seq(Segment) /\ Len(disk) = 0
    BY <1>1
  <1>3. LogOf(disk) \in Seq(Log!Command) /\ Len(LogOf(disk)) = 0
    BY <1>2, LogOfType
  <1>4. LogOf(disk) = <<>>
    BY <1>3
  <1>5. QED
    BY <1>1, <1>4 DEF Log!Init

(* For every set of processes, keys and intents and every bound, each      *)
(* behaviour of the segment store, with its faults, crashes and power      *)
(* losses, is a behaviour of the abstract command log.                     *)
THEOREM StoreImplementsLog == Spec => LogSpec
  <1>1. Log!Init /\ [][Log!Next]_(Log!vars) => LogSpec
    BY DEF LogSpec, Log!Spec
  <1>2. QED
    BY <1>1, InitRefines, NextRefines, StoreInvariant, PTL DEF Spec

-----------------------------------------------------------------------------
(* What the refinement and the invariant mean for a caller.                *)

(* The position of every segment below the synced length is for ever, and  *)
(* that length never shrinks.                                              *)
DurableIsForever ==
    [][durable <= durable' /\ \A i \in 1..durable : disk'[i] = disk[i]]_vars

(* A step that is not visible, or makes the log durable, keeps every file; *)
(* a commit adds one; a power loss takes none of the synced ones.          *)
LEMMA DurableKept ==
    ASSUME IInv, [Next]_vars
    PROVE  durable <= durable' /\ \A i \in 1..durable : disk'[i] = disk[i]
  <1>1. disk \in Seq(Segment) /\ Len(disk) \in Nat /\ durable \in 0..Len(disk)
    BY DEF IInv, TypeOK
  <1>2. CASE disk' = disk /\ (durable' = durable \/ durable' = Len(disk))
    BY <1>1, <1>2
  <1>3. ASSUME NEW p \in Procs, Publish(p) \/ RestorePublish(p)
        PROVE  durable <= durable' /\ \A i \in 1..durable : disk'[i] = disk[i]
    <2>1. durable' = durable /\ \E e : disk' = Append(disk, e)
      BY <1>3 DEF Publish, RestorePublish
    <2>2. QED
      BY <1>1, <2>1
  <1>4. CASE PowerLoss
    <2>1. PICK n \in durable..Len(disk) : disk' = SubSeq(disk, 1, n) /\ durable' = n
      BY <1>4 DEF PowerLoss
    <2>2. n \in Nat /\ durable <= n /\ n <= Len(disk)
      BY <1>1, <2>1
    <2>3. \A i \in 1..n : SubSeq(disk, 1, n)[i] = disk[i]
      BY <1>1, <2>2
    <2>4. QED
      BY <1>1, <2>1, <2>2, <2>3
  <1>5. CASE UNCHANGED vars
    BY <1>2, <1>5 DEF vars
  <1>6. ASSUME NEW p \in Procs,
               \/ SyncDirectory(p) \/ WriteSidecar(p) \/ FinishRetirement(p) \/ RestoreSync(p)
               \/ Open(p) \/ OpenForAuthorityEstablishment(p) \/ OpenInspection(p)
               \/ Close(p) \/ ReadAll(p) \/ WithSnapshot(p) \/ Fault(p) \/ Crash(p)
               \/ AppendOnce(p) \/ EstablishAuthority(p) \/ RetireAuthority(p)
               \/ RestoreSegments(p)
        PROVE  disk' = disk /\ (durable' = durable \/ durable' = Len(disk))
    BY <1>6 DEF SyncDirectory, WriteSidecar, FinishRetirement, RestoreSync, Open,
       OpenForAuthorityEstablishment, OpenFor, OpenInspection, Close, ReadAll, WithSnapshot,
       Fault, Crash, AppendOnce, AppendNew, AppendReplay, EstablishAuthority, RetireAuthority,
       RestoreSegments, Stage, Enter
  <1>7. QED
    BY <1>2, <1>3, <1>4, <1>5, <1>6 DEF Next, Proceed

(* No write, fault, crash, restore or power loss changes or removes a      *)
(* segment once a directory sync has covered it (journal.go).              *)
THEOREM SyncedIsForever == Spec => DurableIsForever
  <1> DEFINE A == durable <= durable' /\ \A i \in 1..durable : disk'[i] = disk[i]
  <1>1. IInv /\ [Next]_vars => A
    BY DurableKept
  <1>2. A => [A]_vars
    OBVIOUS
  <1>3. QED
    BY <1>1, <1>2, StoreInvariant, PTL DEF Spec, DurableIsForever

(* All calls that ever created the segment of a key, or confirmed it with  *)
(* a directory sync of their own, through any number of processes,         *)
(* retries, crashes and power losses, were told of the same segment. What  *)
(* a replay reads back without a sync is left out: it may yet be lost.     *)
AnswersAgree ==
    \A a, b \in acked :
        a.how # "replayed" /\ b.how # "replayed" /\ a.seg.key = b.seg.key => a.seg = b.seg

(* Two such answers name the one durable segment of the key (AppendOnce,   *)
(* EstablishAuthority and RetireAuthority of journal.go).                  *)
THEOREM AnswersNeverDisagree == Spec => []AnswersAgree
  <1>1. IInv => AnswersAgree
    <2> SUFFICES ASSUME IInv, NEW a \in acked, NEW b \in acked,
                        a.how # "replayed", b.how # "replayed", a.seg.key = b.seg.key
                 PROVE  a.seg = b.seg
      BY DEF AnswersAgree
    <2>1. OneCommitPerKey /\ CreatedSurvives /\ durable \in 0..Len(disk) /\ DOMAIN disk = 1..Len(disk)
          /\ Len(disk) \in Nat
      BY DiskShape DEF IInv, StoreInv, TypeOK
    <2>2. PICK i \in 1..durable : disk[i] = a.seg
      BY <2>1 DEF CreatedSurvives
    <2>3. PICK j \in 1..durable : disk[j] = b.seg
      BY <2>1 DEF CreatedSurvives
    <2>4. i \in DOMAIN disk /\ j \in DOMAIN disk
      BY <2>1
    <2>5. QED
      BY <2>1, <2>2, <2>3, <2>4 DEF OneCommitPerKey
  <1>2. QED
    BY <1>1, StoreInvariant, PTL
=============================================================================
