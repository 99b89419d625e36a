-------------------------- MODULE ProjectionProofs --------------------------
(***************************************************************************)
(* Proofs about what is derived from the journal: for every number of      *)
(* request slots, offline processes, writes and power losses, load()       *)
(* answers with the journal, the projection never goes back and the locks  *)
(* never make every call wait.                                             *)
(*                                                                         *)
(* The argument is about who may touch what. Only the holder of the cache  *)
(* mutex replaces the cache, and it restores a checkpoint only into an     *)
(* empty one, so a load that another load's check released finds a cache   *)
(* at least as long as it must be: a query that began after that check had *)
(* read the journal asks for no more than that, and no command begins, or  *)
(* loads again, beside a check of another request, because it has the      *)
(* actor lock. Only the holder of the projection lock writes rows, and a   *)
(* rebuild keeps the lock from emptying them until it has filled them.     *)
(***************************************************************************)
EXTENDS Projection, SequenceTheorems, TLAPS

(* Under the cache mutex, and before it has found anything to share.       *)
Loading   == {"verify", "rows", "restore", "read", "reduce"}
Uncached  == {"verify", "rows", "restore"}

CallInv(c) ==
    /\ call[c].since <= Len(journal)
    /\ At(c, "loaded") => Prefix(HashesOf(call[c].got), journal) /\ Len(call[c].got) >= call[c].since
    /\ call[c].at \in {"wait", "reduce"} \cup Uncached => c \in Requests
    /\ c \in Requests /\ call[c].at \in Loading => mutex = c
    /\ call[c].at \in Uncached => ~cache.valid
    /\ At(c, "wait") /\ call[c].checked => cache.valid /\ Len(cache.segs) >= call[c].since
    /\ At(c, "reduce") =>
          /\ Prefix(HashesOf(call[c].got), journal) /\ Len(call[c].got) >= call[c].since
          /\ cache.valid => Len(cache.segs) <= Len(call[c].got)
    /\ At(c, "wait") => \A d \in Calls : At(d, "reduce") => call[c].since <= Len(call[d].got)
    /\ call[c].at \in {"seal", "refill"} => plock = c
    /\ At(c, "refill") => rows = <<>>

CacheInv == cache.valid => Prefix(HashesOf(cache.segs), journal)

(* Beside a command under way no other request is; an idle call is none.   *)
ActorInv ==
    /\ \A c, d \in Requests : c # d /\ call[c].kind # "read" => At(d, "idle")
    /\ \A c \in Calls : At(c, "idle") => call[c].kind = "read"

Core == TypeOK /\ CacheInv /\ \A c \in Calls : CallInv(c)
IInv == Core /\ ActorInv

-----------------------------------------------------------------------------
(* Sequences of segments and of hashes.                                    *)

(* A function on an initial interval is a sequence.                        *)
LEMMA FunctionIsSeq ==
    ASSUME NEW S, NEW n \in Nat, NEW f \in [1..n -> S]
    PROVE  f \in Seq(S) /\ Len(f) = n
  OBVIOUS

(* The hashes of loaded segments, element by element.                      *)
LEMMA HashesOfFacts ==
    ASSUME NEW segs \in Seq(Segment)
    PROVE  /\ HashesOf(segs) \in Seq(Hashes) /\ Len(HashesOf(segs)) = Len(segs)
           /\ DOMAIN HashesOf(segs) = 1..Len(segs)
           /\ \A i \in 1..Len(segs) : HashesOf(segs)[i] = segs[i].hash
  <1>1. Len(segs) \in Nat /\ DOMAIN segs = 1..Len(segs) /\ segs \in [1..Len(segs) -> Segment]
    BY LenProperties
  <1>2. HashesOf(segs) \in [1..Len(segs) -> Hashes]
    BY <1>1 DEF HashesOf, Segment
  <1>3. QED
    BY <1>1, <1>2, FunctionIsSeq DEF HashesOf

(* Segments read from files, or listed from the rows, have their hashes.   *)
LEMMA ReadFacts ==
    ASSUME NEW hs \in Seq(Hashes)
    PROVE  /\ Read(hs) \in Seq(Segment) /\ Len(Read(hs)) = Len(hs)
           /\ \A i \in 1..Len(hs) : Read(hs)[i].hash = hs[i]
           /\ Listed(hs) \in Seq(Segment) /\ Len(Listed(hs)) = Len(hs)
           /\ \A i \in 1..Len(hs) : Listed(hs)[i].hash = hs[i]
  <1>1. Len(hs) \in Nat /\ DOMAIN hs = 1..Len(hs) /\ hs \in [1..Len(hs) -> Hashes]
    BY LenProperties
  <1>2. Read(hs) \in [1..Len(hs) -> Segment] /\ Listed(hs) \in [1..Len(hs) -> Segment]
    BY <1>1 DEF Read, Listed, Segment
  <1>3. QED
    BY <1>1, <1>2, FunctionIsSeq DEF Read, Listed

(* Prefix, by positions.                                                   *)
LEMMA PrefixFacts ==
    ASSUME NEW s \in Seq(Hashes), NEW t \in Seq(Hashes)
    PROVE  Prefix(s, t) <=> Len(s) <= Len(t) /\ \A i \in 1..Len(s) : s[i] = t[i]
  BY LenProperties DEF Prefix

(* A prefix of a prefix is one.                                            *)
LEMMA PrefixTransitive ==
    ASSUME NEW s \in Seq(Hashes), NEW t \in Seq(Hashes), NEW u \in Seq(Hashes),
           Prefix(s, t), Prefix(t, u)
    PROVE  Prefix(s, u)
  <1>1. Len(s) \in Nat /\ Len(t) \in Nat /\ Len(u) \in Nat
    BY LenProperties
  <1>2. QED
    BY <1>1, PrefixFacts

(* A replay of the journal has the journal's hashes.                       *)
LEMMA ReadIsJournal ==
    ASSUME NEW hs \in Seq(Hashes)
    PROVE  Prefix(HashesOf(Read(hs)), hs) /\ Prefix(HashesOf(Listed(hs)), hs)
  <1>1. Len(hs) \in Nat
    BY LenProperties
  <1>2. QED
    BY <1>1, ReadFacts, HashesOfFacts, PrefixFacts

(* ReadSnapshot: the kept prefix and what was appended make the journal.   *)
LEMMA ExtendedIsJournal ==
    ASSUME NEW segs \in Seq(Segment), NEW hs \in Seq(Hashes), Prefix(HashesOf(segs), hs)
    PROVE  LET more == segs \o Read(SubSeq(hs, Len(HashesOf(segs)) + 1, Len(hs)))
           IN  more \in Seq(Segment) /\ Len(more) = Len(hs) /\ Prefix(HashesOf(more), hs)
  <1> DEFINE n == Len(segs)
             tail == SubSeq(hs, n + 1, Len(hs))
             more == segs \o Read(tail)
  <1>1. Len(HashesOf(segs)) = n /\ n \in Nat /\ Len(hs) \in Nat /\ n <= Len(hs)
    BY HashesOfFacts, PrefixFacts, LenProperties
  <1>2. \A i \in 1..Len(hs) : hs[i] \in Hashes
    BY ElementOfSeq
  <1>3. /\ tail \in Seq(Hashes) /\ Len(tail) = Len(hs) - n
        /\ \A i \in 1..(Len(hs) - n) : tail[i] = hs[n + i]
    <2>1. \A i \in (n + 1)..Len(hs) : hs[i] \in Hashes
      BY <1>1, <1>2
    <2>2. n + 1 \in Int /\ Len(hs) \in Int
      BY <1>1
    <2>3. /\ tail \in Seq(Hashes)
          /\ Len(tail) = IF n + 1 <= Len(hs) THEN Len(hs) - (n + 1) + 1 ELSE 0
          /\ \A i \in 1..(Len(hs) - (n + 1) + 1) : tail[i] = hs[n + 1 + i - 1]
      BY <2>1, <2>2, SubSeqProperties
    <2> HIDE DEF tail
    <2>4. QED
      BY <1>1, <2>3
  <1> HIDE DEF tail
  <1>4. /\ Read(tail) \in Seq(Segment) /\ Len(Read(tail)) = Len(hs) - n
        /\ \A i \in 1..(Len(hs) - n) : Read(tail)[i].hash = hs[n + i]
    BY <1>1, <1>3, ReadFacts
  <1>5. /\ more \in Seq(Segment) /\ Len(more) = n + (Len(hs) - n)
        /\ \A i \in 1..(n + (Len(hs) - n)) :
              more[i] = IF i <= n THEN segs[i] ELSE Read(tail)[i - n]
    BY <1>4, ConcatProperties
  <1> HIDE DEF more
  <1>6. Len(more) = Len(hs)
    BY <1>1, <1>5
  <1>7. ASSUME NEW i \in 1..Len(hs) PROVE more[i].hash = hs[i]
    <2>1. CASE i <= n
      <3>1. i \in 1..n /\ more[i] = segs[i]
        BY <1>1, <1>5, <2>1
      <3>2. segs[i].hash = hs[i]
        BY <1>1, <3>1, HashesOfFacts, PrefixFacts
      <3>3. QED
        BY <3>1, <3>2
    <2>2. CASE ~(i <= n)
      <3>1. more[i] = Read(tail)[i - n] /\ i - n \in 1..(Len(hs) - n) /\ n + (i - n) = i
        BY <1>1, <1>5, <2>2
      <3>2. QED
        BY <1>4, <3>1
    <2>3. QED
      BY <2>1, <2>2
  <1>8. Prefix(HashesOf(more), hs)
    <2> DEFINE h == HashesOf(more)
    <2>1. /\ h \in Seq(Hashes) /\ Len(h) = Len(hs)
          /\ \A i \in 1..Len(hs) : h[i] = more[i].hash
      BY <1>5, <1>6, HashesOfFacts
    <2> HIDE DEF h
    <2>2. Prefix(h, hs)
      BY <1>1, <1>7, <2>1, PrefixFacts
    <2>3. QED
      BY <2>2 DEF h
  <1>9. QED
    BY <1>1, <1>5, <1>6, <1>8 DEF more, tail

(* The journal after a publish has the old one as a prefix.                *)
LEMMA AppendFacts ==
    ASSUME NEW s \in Seq(Hashes), NEW e \in Hashes
    PROVE  /\ Append(s, e) \in Seq(Hashes) /\ Len(Append(s, e)) = Len(s) + 1
           /\ Prefix(s, Append(s, e)) /\ Prefix(s, s)
  <1>1. Len(s) \in Nat
    BY LenProperties
  <1> DEFINE t == Append(s, e)
  <1>2. /\ t \in Seq(Hashes) /\ Len(t) = Len(s) + 1
        /\ \A i \in 1..Len(s) : t[i] = s[i]
    OBVIOUS
  <1> HIDE DEF t
  <1>3. Prefix(s, t)
    BY <1>1, <1>2, PrefixFacts
  <1>4. Prefix(s, s)
    BY <1>1, PrefixFacts
  <1>5. QED
    BY <1>2, <1>3, <1>4 DEF t

-----------------------------------------------------------------------------
(* Calls and how their steps change them.                                  *)

(* The idle call.                                                          *)
LEMMA IdleFacts == Idle \in Call /\ Idle.at = "idle" /\ Idle.since = 0
  <1>1. <<>> \in Seq(Segment) /\ <<>> \in Seq(Hashes)
    BY EmptySeq
  <1>2. QED
    BY <1>1 DEF Idle, Call, Steps

(* A call moves on, and keeps all it knows.                                *)
LEMMA GotoFacts ==
    ASSUME TypeOK, NEW c \in Calls, NEW s \in Steps, call' = Goto(c, s)
    PROVE  /\ call' \in [Calls -> Call] /\ call'[c].at = s
           /\ call'[c].since = call[c].since /\ call'[c].got = call[c].got
           /\ \A d \in Calls \ {c} : call'[d] = call[d]
  <1> DEFINE r == [call[c] EXCEPT !.at = s]
  <1>1. call[c] \in Call /\ call' = [call EXCEPT ![c] = r]
    BY DEF TypeOK, Goto
  <1>2. r \in Call /\ r.at = s /\ r.since = call[c].since /\ r.got = call[c].got
    BY <1>1 DEF Call
  <1> HIDE DEF r
  <1>3. QED
    BY <1>1, <1>2 DEF TypeOK

(* Where a load starts.                                                    *)
First(c) == IF c \in Requests THEN "wait" ELSE "read"

(* A load begins: in a request it waits for the cache, elsewhere it reads. *)
LEMMA StartLoadFacts ==
    ASSUME TypeOK, NEW c \in Calls, NEW n \in 1..3, NEW length \in Nat
    PROVE  /\ StartLoad(c, n, length) \in [Calls -> Call]
           /\ StartLoad(c, n, length)[c].at = First(c)
           /\ StartLoad(c, n, length)[c].since = length
           /\ ~StartLoad(c, n, length)[c].checked
           /\ \A d \in Calls \ {c} : StartLoad(c, n, length)[d] = call[d]
  <1> DEFINE s == First(c)
             r == [call[c] EXCEPT !.load = n, !.since = length, !.checked = FALSE, !.at = s]
  <1>1. call[c] \in Call /\ s \in Steps
    BY DEF TypeOK, Steps, First
  <1>2. StartLoad(c, n, length) = [call EXCEPT ![c] = r]
    BY DEF TypeOK, StartLoad, First
  <1> HIDE DEF s
  <1>3. r \in Call /\ r.at = s /\ r.since = length /\ r.checked = FALSE
    BY <1>1 DEF Call
  <1> HIDE DEF r
  <1>4. QED
    BY <1>2, <1>3 DEF s, TypeOK

(* A call has loaded some segments.                                        *)
LEMMA LoadedFacts ==
    ASSUME TypeOK, NEW c \in Calls, NEW segs \in Seq(Segment)
    PROVE  LET r == [call[c] EXCEPT !.at = "loaded", !.got = segs]
           IN  r \in Call /\ r.at = "loaded" /\ r.got = segs /\ r.since = call[c].since
  <1>1. call[c] \in Call
    BY DEF TypeOK
  <1>2. QED
    BY <1>1 DEF Call, Steps

(* The other calls are left alone.                                         *)
LEMMA LoadedCalls ==
    ASSUME TypeOK, NEW c \in Calls, NEW segs \in Seq(Segment),
           call' = [call EXCEPT ![c].at = "loaded", ![c].got = segs]
    PROVE  /\ call' \in [Calls -> Call] /\ call'[c].at = "loaded" /\ call'[c].got = segs
           /\ call'[c].since = call[c].since
           /\ \A d \in Calls \ {c} : call'[d] = call[d]
  <1> DEFINE r == [call[c] EXCEPT !.at = "loaded", !.got = segs]
  <1>1. r \in Call /\ r.at = "loaded" /\ r.got = segs /\ r.since = call[c].since
    BY LoadedFacts
  <1>2. call' = [call EXCEPT ![c] = r]
    BY DEF TypeOK
  <1> HIDE DEF r
  <1>3. QED
    BY <1>1, <1>2 DEF TypeOK

(* What a call relies on is not disturbed by a step that respects the      *)
(* locks it holds, the segments it loaded and the cache it waits for.      *)
LEMMA OtherCall ==
    ASSUME TypeOK, NEW d \in Calls, CallInv(d), call'[d] = call[d],
           journal' \in Seq(Hashes), Prefix(journal, journal'),
           mutex = d => mutex' = d /\ cache' = cache,
           plock = d => plock' = d /\ rows' = rows,
           cache.valid => cache'.valid /\ Len(cache'.segs) \in Nat /\ Len(cache.segs) <= Len(cache'.segs),
           \A e \in Calls : call'[e].at = "reduce" => call'[e] = call[e]
    PROVE  CallInv(d)'
  <1>1. /\ call[d] \in Call /\ call[d].since \in Nat /\ call[d].got \in Seq(Segment)
        /\ journal \in Seq(Hashes) /\ cache.segs \in Seq(Segment)
    BY DEF TypeOK, Call
  <1>2. Len(journal) \in Nat /\ Len(journal') \in Nat /\ Len(cache.segs) \in Nat
    BY <1>1, LenProperties
  <1>3. call'[d].since <= Len(journal')
    BY <1>1, <1>2, PrefixFacts DEF CallInv
  <1>4. At(d, "loaded") \/ At(d, "reduce") => Prefix(HashesOf(call[d].got), journal')
    BY <1>1, HashesOfFacts, PrefixTransitive DEF CallInv
  <1>5. At(d, "wait") /\ call[d].checked => cache'.valid /\ Len(cache'.segs) >= call[d].since
    BY <1>1, <1>2 DEF CallInv
  <1>6. call[d].at \in Uncached => mutex = d /\ ~cache'.valid
    BY DEF CallInv, Uncached, Loading
  <1>7. At(d, "reduce") => mutex = d
    BY DEF CallInv, Loading, At
  <1>8. At(d, "wait") => \A e \in Calls : call'[e].at = "reduce" => call[d].since <= Len(call'[e].got)
    BY DEF CallInv, At
  <1>9. QED
    BY <1>3, <1>4, <1>5, <1>6, <1>7, <1>8 DEF CallInv, At

(* A step of one call that leaves the cache alone.                         *)
LEMMA OneCallStep ==
    ASSUME IInv, NEW c \in Calls, call' \in [Calls -> Call],
           \A d \in Calls \ {c} : call'[d] = call[d],
           journal' \in Seq(Hashes), Prefix(journal, journal'),
           durable' \in 1..Len(journal'), next' \in 2..(MaxWrites + 1),
           rows' \in Seq(Hashes), sealed' \in Seq(Hashes),
           {mutex', plock', wlock'} \subseteq Calls \cup {NoCall},
           UNCHANGED <<cache, up, losses>>,
           mutex' = mutex \/ mutex = NoCall,
           (plock' = plock /\ rows' = rows) \/ plock \in {NoCall, c},
           call'[c].at # "reduce", CallInv(c)'
    PROVE  Core'
  <1>1. /\ TypeOK /\ CacheInv
        /\ \A d \in Calls \ {c} : CallInv(d)
        /\ journal \in Seq(Hashes) /\ cache.segs \in Seq(Segment)
    BY DEF IInv, Core, TypeOK
  <1>2. TypeOK'
    BY <1>1 DEF TypeOK
  <1>3. CacheInv'
    <2>1. HashesOf(cache.segs) \in Seq(Hashes)
      BY <1>1, HashesOfFacts
    <2>2. QED
      BY <1>1, <2>1, PrefixTransitive DEF CacheInv
  <1>4. ASSUME NEW d \in Calls \ {c} PROVE CallInv(d)'
    <2>1. d # NoCall
      BY ProjectionConstants DEF Calls
    <2>2. Len(cache.segs) \in Nat /\ Len(cache.segs) <= Len(cache.segs)
      BY <1>1, LenProperties
    <2>3. QED
      BY <1>1, <2>1, <2>2, OtherCall
  <1>5. QED
    BY <1>2, <1>3, <1>4 DEF IInv, Core

(* A step of one call that changes the call, and perhaps the mutex, only.  *)
LEMMA LocalStep ==
    ASSUME IInv, NEW c \in Calls, call' \in [Calls -> Call],
           \A d \in Calls \ {c} : call'[d] = call[d],
           UNCHANGED <<journal, durable, next, rows, sealed, cache, plock, wlock, up, losses>>,
           mutex' = mutex \/ (mutex = NoCall /\ mutex' = c),
           call'[c].at # "reduce", CallInv(c)'
    PROVE  Core'
  <1>1. TypeOK /\ Prefix(journal, journal')
    <2>1. TypeOK /\ journal \in Seq(Hashes) /\ Len(journal) \in Nat
      BY LenProperties DEF IInv, Core, TypeOK
    <2>2. QED
      BY <2>1, PrefixFacts
  <1>2. QED
    BY <1>1, OneCallStep DEF TypeOK

(* A call that ends relies on nothing.                                     *)
LEMMA IdleCall ==
    ASSUME NEW c \in Calls, call'[c] = Idle, Len(journal') \in Nat
    PROVE  CallInv(c)' /\ call'[c].at # "reduce"
  BY IdleFacts DEF CallInv, At, Uncached, Loading

(* The invariant starts true.                                              *)
LEMMA InitIInv == Init => IInv
  <1> SUFFICES ASSUME Init PROVE IInv
    OBVIOUS
  <1>1. 1 \in Hashes /\ 2 \in 2..(MaxWrites + 1) /\ 0 \in 0..MaxLosses
    BY ProjectionConstants DEF Hashes
  <1>2. journal \in Seq(Hashes) /\ Len(journal) = 1
    BY <1>1 DEF Init
  <1>3. cache.valid = FALSE /\ cache.segs = <<>> /\ <<>> \in Seq(Segment) /\ <<>> \in Seq(Hashes)
    BY EmptySeq DEF Init, NoCache
  <1>4. TypeOK
    <2>1. durable \in 1..Len(journal)
      BY <1>2 DEF Init
    <2>2. call \in [Calls -> Call]
      BY IdleFacts DEF Init
    <2>3. QED
      BY <1>1, <1>2, <1>3, <2>1, <2>2 DEF Init, TypeOK
  <1>5. CacheInv
    BY <1>3 DEF CacheInv
  <1>6. \A c \in Calls : CallInv(c)
    BY <1>2, IdleFacts DEF Init, CallInv, At, Uncached, Loading
  <1>7. ActorInv
    BY DEF Init, ActorInv, At, Calls, Idle
  <1>8. QED
    BY <1>4, <1>5, <1>6, <1>7 DEF IInv, Core

-----------------------------------------------------------------------------
(* One lemma per action.                                                   *)

(* The types a step needs most often.                                      *)
LEMMA Types ==
    ASSUME IInv
    PROVE  /\ TypeOK /\ journal \in Seq(Hashes) /\ Len(journal) \in Nat
           /\ Prefix(journal, journal) /\ cache.segs \in Seq(Segment) /\ Len(cache.segs) \in Nat
           /\ rows \in Seq(Hashes) /\ Len(rows) \in Nat
           /\ \A c \in Calls : call[c] \in Call /\ call[c].since \in Nat
                               /\ call[c].got \in Seq(Segment) /\ CallInv(c)
  <1>1. /\ TypeOK /\ journal \in Seq(Hashes) /\ cache.segs \in Seq(Segment) /\ rows \in Seq(Hashes)
        /\ \A c \in Calls : call[c] \in Call /\ CallInv(c)
    BY DEF IInv, Core, TypeOK
  <1>2. Len(journal) \in Nat /\ Len(cache.segs) \in Nat /\ Len(rows) \in Nat
    BY <1>1, LenProperties
  <1>3. Prefix(journal, journal)
    BY <1>1, <1>2, PrefixFacts
  <1>4. \A c \in Calls : call[c].since \in Nat /\ call[c].got \in Seq(Segment)
    BY <1>1 DEF Call
  <1>5. QED
    BY <1>1, <1>2, <1>3, <1>4

(* The check under way is the one of the mutex's holder, and what it has   *)
(* read is in the journal.                                                 *)
LEMMA SharableFacts ==
    ASSUME IInv
    PROVE  /\ Sharable \in Nat /\ Sharable <= Len(journal)
           /\ \A d \in Calls : At(d, "reduce") => Sharable = Len(call[d].got)
  <1>1. \A d \in Calls : At(d, "reduce") => mutex = d
    BY Types DEF CallInv, At, Loading
  <1>2. \A d \in Calls : mutex = d => mutex # NoCall
    BY ProjectionConstants DEF Calls
  <1>3. CASE Reducing
    <2>1. mutex \in Calls /\ At(mutex, "reduce") /\ Sharable = Len(call[mutex].got)
      BY <1>3, Types DEF Reducing, Sharable, TypeOK
    <2>2. call[mutex].got \in Seq(Segment) /\ Prefix(HashesOf(call[mutex].got), journal)
      BY <2>1, Types DEF CallInv
    <2>3. Len(call[mutex].got) \in Nat /\ Len(call[mutex].got) <= Len(journal)
      BY <2>2, HashesOfFacts, LenProperties DEF Prefix
    <2>4. QED
      BY <1>1, <2>1, <2>3
  <1>4. CASE ~Reducing
    BY <1>1, <1>2, <1>4, Types DEF Reducing, Sharable
  <1>5. QED
    BY <1>3, <1>4

(* Beside a command no other request has a check under way.                *)
LEMMA CommandAlone ==
    ASSUME IInv, NEW c \in Requests, call[c].kind # "read"
    PROVE  \A d \in Calls \ {c} : ~At(d, "reduce")
  BY Types DEF IInv, ActorInv, CallInv, At

(* What a load that has just begun relies on.                              *)
LEMMA StartedCall ==
    ASSUME NEW c \in Calls, call'[c].at = First(c), call'[c].since <= Len(journal'),
           ~call'[c].checked,
           c \in Requests => \A d \in Calls \ {c} :
               call'[d].at = "reduce" => call'[c].since <= Len(call'[d].got)
    PROVE  CallInv(c)' /\ call'[c].at # "reduce"
  BY DEF CallInv, At, Uncached, Loading, First

(* What a call relies on at the steps where it needs nothing but its start.*)
LEMMA MovedCall ==
    ASSUME NEW c \in Calls, call'[c].since <= Len(journal'),
           call'[c].at \in {"append", "sync", "rebuild", "rebuilding"}
    PROVE  CallInv(c)' /\ call'[c].at # "reduce"
  BY DEF CallInv, At, Uncached, Loading

(* A command begins; opening the store syncs its directory.                *)
LEMMA BeginStep ==
    ASSUME IInv, NEW c \in Calls, NEW k \in {"read", "write", "rebuild", "restore"}, Begin(c, k)
    PROVE  Core'
  <1> DEFINE n == IF k = "read" THEN Sharable ELSE Len(journal)
             f == StartLoad(c, 1, n)
             r == [f[c] EXCEPT !.kind = k]
  <1>1. TypeOK /\ n \in Nat /\ n <= Len(journal) /\ 1 \in 1..3
    BY Types, SharableFacts
  <1>11. c \in Requests => \A d \in Calls \ {c} : At(d, "reduce") => n <= Len(call[d].got)
    <2>1. CASE k = "read"
      BY <1>1, <2>1, SharableFacts
    <2>2. CASE k # "read" /\ c \in Requests
      BY <2>2, Types DEF Begin, CallInv, At
    <2>3. QED
      BY <2>1, <2>2
  <1>12. call' = [f EXCEPT ![c].kind = k]
    BY DEF Begin
  <1> HIDE DEF n
  <1>2. /\ f \in [Calls -> Call] /\ f[c].at = First(c) /\ f[c].since = n
        /\ ~f[c].checked /\ \A d \in Calls \ {c} : f[d] = call[d]
    BY <1>1, StartLoadFacts
  <1>3. call' = [f EXCEPT ![c] = r]
    BY <1>2, <1>12
  <1> HIDE DEF f
  <1>4. r \in Call /\ r.at = f[c].at /\ r.since = f[c].since /\ r.checked = f[c].checked
    BY <1>2 DEF Call
  <1> HIDE DEF r
  <1>5. /\ call' \in [Calls -> Call] /\ call'[c] = r
        /\ \A d \in Calls \ {c} : call'[d] = call[d]
    BY <1>2, <1>3, <1>4
  <1>6. /\ durable' \in 1..Len(journal')
        /\ UNCHANGED <<journal, next, rows, sealed, cache, mutex, plock, wlock, up, losses>>
    BY <1>1 DEF Begin, TypeOK
  <1>7. CallInv(c)' /\ call'[c].at # "reduce"
    <2>1. call'[c].since <= Len(journal')
      BY <1>1, <1>2, <1>4, <1>5, <1>6
    <2>2. c \in Requests => \A d \in Calls \ {c} :
             call'[d].at = "reduce" => call'[c].since <= Len(call'[d].got)
      BY <1>2, <1>4, <1>5, <1>11 DEF At
    <2>3. QED
      BY <1>2, <1>4, <1>5, <2>1, <2>2, StartedCall
  <1>8. QED
    BY <1>1, <1>5, <1>6, <1>7, Types, OneCallStep DEF TypeOK

(* A load takes the result of another one's check.                         *)
LEMMA LoadSharedStep == ASSUME IInv, NEW c \in Calls, LoadShared(c) PROVE Core'
  <1>1. /\ TypeOK /\ CallInv(c) /\ CacheInv /\ Len(journal) \in Nat
    BY Types DEF IInv, Core
  <1>2. /\ call' \in [Calls -> Call] /\ call'[c].at = "loaded" /\ call'[c].got = cache.segs
        /\ call'[c].since = call[c].since /\ \A d \in Calls \ {c} : call'[d] = call[d]
    BY <1>1, Types, LoadedCalls DEF LoadShared
  <1>3. /\ UNCHANGED <<journal, durable, next, rows, sealed, cache, mutex, plock, wlock, up, losses>>
        /\ At(c, "wait") /\ cache.valid /\ call[c].checked
    BY DEF LoadShared
  <1>4. CallInv(c)' /\ call'[c].at # "reduce"
    BY <1>1, <1>2, <1>3 DEF CallInv, CacheInv, At, Uncached, Loading
  <1>5. QED
    BY <1>2, <1>3, <1>4, LocalStep

(* A load takes the cache mutex.                                           *)
LEMMA LoadLocksStep == ASSUME IInv, NEW c \in Calls, LoadLocks(c) PROVE Core'
  <1> DEFINE s == IF cache.valid THEN "read" ELSE "verify"
  <1>1. /\ TypeOK /\ CallInv(c) /\ s \in Steps /\ call' = Goto(c, s) /\ mutex = NoCall /\ mutex' = c
        /\ At(c, "wait")
        /\ UNCHANGED <<journal, durable, next, rows, sealed, cache, plock, wlock, up, losses>>
    BY DEF IInv, Core, LoadLocks, Steps
  <1>2. /\ call' \in [Calls -> Call] /\ call'[c].at = s /\ call'[c].since = call[c].since
        /\ \A d \in Calls \ {c} : call'[d] = call[d]
    BY <1>1, GotoFacts
  <1>3. CallInv(c)' /\ call'[c].at # "reduce"
    BY <1>1, <1>2 DEF CallInv, At, Uncached, Loading
  <1>4. QED
    BY <1>1, <1>2, <1>3, LocalStep

(* The checkpoint file is read, or there is none to use.                   *)
LEMMA ReadCheckpointStep == ASSUME IInv, NEW c \in Calls, ReadCheckpoint(c) PROVE Core'
  <1>1. /\ TypeOK /\ CallInv(c) /\ At(c, "verify") /\ call[c] \in Call
        /\ UNCHANGED <<journal, durable, next, rows, sealed, cache, mutex, plock, wlock, up, losses>>
    BY Types DEF ReadCheckpoint
  <1>2. /\ call' \in [Calls -> Call] /\ call'[c].at \in {"rows", "read"}
        /\ call'[c].since = call[c].since /\ \A d \in Calls \ {c} : call'[d] = call[d]
    <2>1. CASE call' = [call EXCEPT ![c].doc = sealed, ![c].at = "rows"]
      <3> DEFINE r == [call[c] EXCEPT !.doc = sealed, !.at = "rows"]
      <3>1. call' = [call EXCEPT ![c] = r]
        BY <1>1, <2>1 DEF TypeOK
      <3>2. r \in Call /\ r.at = "rows" /\ r.since = call[c].since
        BY <1>1 DEF Call, Steps, TypeOK
      <3> HIDE DEF r
      <3>3. QED
        BY <1>1, <3>1, <3>2 DEF TypeOK
    <2>2. CASE call' = Goto(c, "read")
      <3>1. "read" \in Steps
        BY DEF Steps
      <3>2. QED
        BY <1>1, <2>2, <3>1, GotoFacts
    <2>3. QED
      BY <2>1, <2>2 DEF ReadCheckpoint
  <1>3. CallInv(c)' /\ call'[c].at # "reduce"
    BY <1>1, <1>2 DEF CallInv, At, Uncached, Loading
  <1>4. QED
    BY <1>1, <1>2, <1>3, LocalStep

(* The sealed digests are compared.                                        *)
LEMMA VerifyCheckpointStep == ASSUME IInv, NEW c \in Calls, VerifyCheckpoint(c) PROVE Core'
  <1> DEFINE s == IF Identifies(call[c].doc) THEN "restore" ELSE "read"
  <1>1. /\ TypeOK /\ CallInv(c) /\ At(c, "rows") /\ s \in Steps /\ call' = Goto(c, s)
        /\ UNCHANGED <<journal, durable, next, rows, sealed, cache, mutex, plock, wlock, up, losses>>
    BY DEF IInv, Core, VerifyCheckpoint, Steps
  <1>2. s \in {"restore", "read"}
    OBVIOUS
  <1> HIDE DEF s
  <1>3. /\ call' \in [Calls -> Call] /\ call'[c].at = s /\ call'[c].since = call[c].since
        /\ \A d \in Calls \ {c} : call'[d] = call[d]
    BY <1>1, GotoFacts
  <1>4. CallInv(c)' /\ call'[c].at # "reduce"
    BY <1>1, <1>2, <1>3 DEF CallInv, At, Uncached, Loading
  <1>5. QED
    BY <1>1, <1>3, <1>4, LocalStep

(* The rows become the cache, under the mutex and into an empty cache.     *)
LEMMA RestoreCheckpointStep == ASSUME IInv, NEW c \in Calls, RestoreCheckpoint(c) PROVE Core'
  <1>1. /\ TypeOK /\ CallInv(c) /\ At(c, "restore") /\ call' = Goto(c, "read") /\ "read" \in Steps
        /\ UNCHANGED <<journal, durable, next, rows, sealed, mutex, plock, wlock, up, losses>>
    BY DEF IInv, Core, RestoreCheckpoint, Steps
  <1>3. /\ call' \in [Calls -> Call] /\ call'[c].at = "read" /\ call'[c].since = call[c].since
        /\ \A d \in Calls \ {c} : call'[d] = call[d]
    BY <1>1, GotoFacts
  <1>4. mutex = c /\ ~cache.valid /\ c \in Requests
    BY <1>1 DEF CallInv, At, Loading, Uncached
  <1>5. /\ cache'.valid \in BOOLEAN /\ cache'.segs \in Seq(Segment) /\ CacheInv'
    <2>1. CASE cache' = cache
      BY <1>1, <1>4, <2>1 DEF TypeOK, CacheInv
    <2>2. CASE cache' = [valid |-> TRUE, segs |-> Listed(rows)] /\ Prefix(rows, journal)
      <3>1. rows \in Seq(Hashes) /\ journal \in Seq(Hashes)
        BY Types
      <3>2. Listed(rows) \in Seq(Segment) /\ HashesOf(Listed(rows)) \in Seq(Hashes)
        BY <3>1, ReadFacts, HashesOfFacts
      <3>3. Prefix(HashesOf(Listed(rows)), journal)
        BY <2>2, <3>1, <3>2, ReadIsJournal, PrefixTransitive
      <3>4. QED
        BY <1>1, <2>2, <3>2, <3>3 DEF CacheInv
    <2>3. QED
      BY <2>1, <2>2 DEF RestoreCheckpoint
  <1>6. TypeOK'
    BY <1>1, <1>3, <1>5 DEF TypeOK
  <1>7. CallInv(c)'
    BY <1>1, <1>3, <1>4 DEF CallInv, At, Uncached, Loading
  <1>8. \A d \in Calls \ {c} : CallInv(d)'
    BY <1>1, <1>3, <1>4, Types, OtherCall
  <1>9. QED
    BY <1>5, <1>6, <1>7, <1>8 DEF IInv, Core

(* ReadSnapshot: the holder of the mutex has the journal in its hands.     *)
LEMMA ReadSnapshotStep == ASSUME IInv, NEW c \in Calls, ReadSnapshot(c) PROVE Core'
  <1> DEFINE known == HashesOf(cache.segs)
             segs == IF cache.valid /\ Prefix(known, journal)
                       THEN cache.segs \o Read(SubSeq(journal, Len(known) + 1, Len(journal)))
                       ELSE Read(journal)
  <1>1. /\ TypeOK /\ CallInv(c) /\ At(c, "read") /\ c \in Requests
        /\ UNCHANGED <<journal, durable, next, rows, sealed, cache, plock, wlock, up, losses>>
    BY DEF IInv, Core, ReadSnapshot
  <1>2. mutex = c /\ Len(known) = Len(cache.segs)
    BY <1>1, Types, HashesOfFacts DEF CallInv, At, Loading
  <1>3. ~(cache.valid /\ Len(journal) < Len(known))
    <2>1. cache.valid => Len(known) <= Len(journal)
      BY DEF IInv, Core, CacheInv, Prefix
    <2>2. QED
      BY <1>2, <2>1, Types
  <1>4. segs \in Seq(Segment) /\ Len(segs) = Len(journal) /\ Prefix(HashesOf(segs), journal)
    <2>1. CASE cache.valid /\ Prefix(known, journal)
      BY <2>1, Types, ExtendedIsJournal
    <2>2. CASE ~(cache.valid /\ Prefix(known, journal))
      BY <2>2, Types, ReadFacts, ReadIsJournal
    <2>3. QED
      BY <2>1, <2>2
  <1>5. call' = [call EXCEPT ![c].at = "reduce", ![c].got = segs] /\ mutex' = mutex
    BY <1>3 DEF ReadSnapshot
  <1> HIDE DEF segs, known
  <1>6. cache.valid => Len(cache.segs) <= Len(segs)
    BY <1>2, <1>3, <1>4, Types
  <1> DEFINE r == [call[c] EXCEPT !.at = "reduce", !.got = segs]
  <1>7. call' = [call EXCEPT ![c] = r]
    BY <1>1, <1>5 DEF TypeOK
  <1>8. r \in Call /\ r.at = "reduce" /\ r.got = segs /\ r.since = call[c].since
    BY <1>4, Types DEF Call, Steps
  <1> HIDE DEF r
  <1>9. /\ call' \in [Calls -> Call] /\ call'[c] = r
        /\ \A d \in Calls \ {c} : call'[d] = call[d]
    BY <1>1, <1>7, <1>8 DEF TypeOK
  <1>10. TypeOK'
    BY <1>1, <1>5, <1>9 DEF TypeOK
  <1>11. CacheInv'
    BY <1>1 DEF IInv, Core, CacheInv
  <1>12. call[c].since <= Len(segs)
    BY <1>1, <1>4 DEF CallInv
  <1>13. CallInv(c)'
    BY <1>1, <1>2, <1>4, <1>5, <1>6, <1>8, <1>9, <1>12, Types DEF CallInv, At, Uncached, Loading
  <1>14. ASSUME NEW d \in Calls \ {c} PROVE CallInv(d)'
    <2>1. CallInv(d) /\ call'[d] = call[d] /\ call[d].since <= Len(journal)
      BY <1>9, Types DEF CallInv
    <2>2. At(d, "wait") => \A e \in Calls : call'[e].at = "reduce" => call[d].since <= Len(call'[e].got)
      BY <1>4, <1>8, <1>9, <2>1 DEF CallInv, At
    <2>3. QED
      BY <1>1, <1>5, <2>1, <2>2 DEF CallInv, At
  <1>15. QED
    BY <1>10, <1>11, <1>13, <1>14 DEF Core

(* A call returns.                                                         *)
LEMMA ReturnFacts ==
    ASSUME TypeOK, NEW c \in Calls, call' = Return(c), Len(journal') \in Nat
    PROVE  /\ call' \in [Calls -> Call] /\ CallInv(c)' /\ call'[c].at # "reduce"
           /\ \A d \in Calls \ {c} : call'[d] = call[d]
  <1>1. /\ call' \in [Calls -> Call] /\ call'[c] = Idle
        /\ \A d \in Calls \ {c} : call'[d] = call[d]
    BY IdleFacts DEF Return, TypeOK
  <1>2. QED
    BY <1>1, IdleCall

(* ReduceSnapshot: what was read becomes the cache, for every load that    *)
(* waits.                                                                  *)
LEMMA ReduceSnapshotStep == ASSUME IInv, NEW c \in Calls, ReduceSnapshot(c) PROVE Core'
  <1> DEFINE segs == call[c].got
  <1>1. /\ TypeOK /\ CallInv(c) /\ At(c, "reduce") /\ mutex' = NoCall
        /\ UNCHANGED <<journal, durable, next, rows, sealed, plock, wlock, up, losses>>
    BY DEF IInv, Core, ReduceSnapshot
  <1>2. /\ mutex = c /\ c \in Requests /\ segs \in Seq(Segment) /\ Len(segs) \in Nat
        /\ Prefix(HashesOf(segs), journal) /\ Len(segs) >= call[c].since
        /\ cache.valid => Len(cache.segs) <= Len(segs)
    BY <1>1, Types, LenProperties DEF CallInv, At, Loading
  <1>3. \A d \in Calls \ {c} : call[d].at = "reduce" => FALSE
    BY <1>2, Types DEF CallInv, At, Loading
  <1>4. CASE call' = Return(c) /\ UNCHANGED cache
    <2>1. /\ call' \in [Calls -> Call] /\ CallInv(c)' /\ call'[c].at # "reduce"
          /\ \A d \in Calls \ {c} : call'[d] = call[d]
      BY <1>1, <1>4, Types, ReturnFacts
    <2>2. TypeOK' /\ CacheInv'
      BY <1>1, <1>4, <2>1 DEF IInv, Core, TypeOK, CacheInv
    <2>3. \A d \in Calls \ {c} : CallInv(d)'
      BY <1>1, <1>2, <1>4, <2>1, Types, OtherCall
    <2>4. QED
      BY <2>1, <2>2, <2>3 DEF Core
  <1>5. CASE /\ cache' = [valid |-> TRUE, segs |-> call[c].got]
             /\ call' = [d \in Calls |->
                   IF d = c THEN [call[c] EXCEPT !.at = "loaded"]
                   ELSE IF At(d, "wait") THEN [call[d] EXCEPT !.checked = TRUE]
                   ELSE call[d]]
    <2>1. cache'.valid = TRUE /\ cache'.segs = segs
      BY <1>5
    <2>2. \A d \in Calls : At(d, "wait") => call[d].since <= Len(segs)
      BY <1>1, Types DEF CallInv
    <2>3. call'[c] \in Call /\ call'[c].at = "loaded" /\ CallInv(c)'
      <3> DEFINE r == [call[c] EXCEPT !.at = "loaded"]
      <3>1. call'[c] = r
        BY <1>5
      <3>2. r \in Call /\ r.at = "loaded" /\ r.got = segs /\ r.since = call[c].since
        BY Types DEF Call, Steps
      <3> HIDE DEF r
      <3>3. QED
        BY <1>1, <1>2, <3>1, <3>2 DEF CallInv, At, Uncached, Loading
    <2>4. ASSUME NEW d \in Calls \ {c}, At(d, "wait")
          PROVE  /\ call'[d] \in Call /\ call'[d].at = "wait" /\ call'[d].since = call[d].since
      <3> DEFINE r == [call[d] EXCEPT !.checked = TRUE]
      <3>1. call'[d] = r
        BY <1>5, <2>4
      <3>2. r \in Call /\ r.at = "wait" /\ r.since = call[d].since
        BY <2>4, Types DEF Call, At
      <3> HIDE DEF r
      <3>3. QED
        BY <3>1, <3>2
    <2>5. \A d \in Calls \ {c} : ~At(d, "wait") => call'[d] = call[d]
      BY <1>5
    <2>6. \A e \in Calls : call'[e].at # "reduce"
      BY <1>3, <2>3, <2>4, <2>5
    <2> HIDE DEF segs
    <2>7. ASSUME NEW d \in Calls \ {c} PROVE call'[d] \in Call /\ CallInv(d)'
      <3>1. CASE At(d, "wait")
        <4>1. d \in Requests /\ call[d].since <= Len(journal)
          BY <3>1, Types DEF CallInv, At
        <4>2. QED
          BY <1>1, <2>1, <2>2, <2>4, <2>6, <3>1, <4>1 DEF CallInv, At, Uncached, Loading
      <3>2. CASE ~At(d, "wait")
        BY <1>1, <1>2, <2>1, <2>5, <2>6, <3>2, Types, OtherCall
      <3>3. QED
        BY <3>1, <3>2
    <2>8. call' \in [Calls -> Call]
      <3>1. call' = [d \in Calls |-> call'[d]]
        BY <1>5
      <3>2. QED
        BY <2>3, <2>7, <3>1
    <2>9. TypeOK' /\ CacheInv'
      BY <1>1, <1>2, <2>1, <2>8 DEF TypeOK, CacheInv
    <2>10. QED
      BY <2>3, <2>7, <2>9 DEF Core
  <1>6. QED
    BY <1>4, <1>5 DEF ReduceSnapshot

(* An offline process replays the journal.                                 *)
LEMMA LoadAuthorityStep == ASSUME IInv, NEW c \in Calls, LoadAuthority(c) PROVE Core'
  <1> DEFINE segs == Read(journal)
  <1>1. /\ TypeOK /\ CallInv(c)
        /\ UNCHANGED <<journal, durable, next, rows, sealed, cache, mutex, plock, wlock, up, losses>>
        /\ call' = [call EXCEPT ![c].at = "loaded", ![c].got = segs]
    BY DEF IInv, Core, LoadAuthority
  <1>2. segs \in Seq(Segment) /\ Len(segs) = Len(journal) /\ Prefix(HashesOf(segs), journal)
    BY Types, ReadFacts, ReadIsJournal
  <1> HIDE DEF segs
  <1>3. /\ call' \in [Calls -> Call] /\ call'[c].at = "loaded" /\ call'[c].got = segs
        /\ call'[c].since = call[c].since /\ \A d \in Calls \ {c} : call'[d] = call[d]
    BY <1>1, <1>2, LoadedCalls
  <1>4. CallInv(c)' /\ call'[c].at # "reduce"
    BY <1>1, <1>2, <1>3 DEF CallInv, At, Uncached, Loading
  <1>5. QED
    BY <1>1, <1>3, <1>4, LocalStep

(* A command starts its next load at the journal as it is after the step.  *)
LEMMA NextLoad ==
    ASSUME IInv, NEW c \in Calls, NEW n \in 1..3, call' = StartLoad(c, n, Len(journal')),
           call[c].kind # "read", Len(journal') \in Nat
    PROVE  /\ call' \in [Calls -> Call] /\ CallInv(c)' /\ call'[c].at # "reduce"
           /\ \A d \in Calls \ {c} : call'[d] = call[d]
  <1>1. PICK len \in Nat : len = Len(journal')
    OBVIOUS
  <1>2. TypeOK /\ call' = StartLoad(c, n, len)
    BY <1>1, Types
  <1>3. /\ call' \in [Calls -> Call] /\ call'[c].at = First(c) /\ call'[c].since = len
        /\ ~call'[c].checked /\ \A d \in Calls \ {c} : call'[d] = call[d]
    BY <1>2, StartLoadFacts
  <1>4. call'[c].since <= Len(journal')
    BY <1>1, <1>3
  <1>5. c \in Requests => \A d \in Calls \ {c} : call'[d].at # "reduce"
    BY <1>3, CommandAlone DEF At
  <1>6. QED
    BY <1>3, <1>4, <1>5, StartedCall

(* A query starts its second load.                                         *)
LEMMA NextQuery ==
    ASSUME IInv, NEW c \in Calls, call' = StartLoad(c, 2, Sharable), UNCHANGED journal
    PROVE  /\ call' \in [Calls -> Call] /\ CallInv(c)' /\ call'[c].at # "reduce"
           /\ \A d \in Calls \ {c} : call'[d] = call[d]
  <1>1. PICK len \in Nat : len = Sharable
    BY SharableFacts
  <1>2. TypeOK /\ call' = StartLoad(c, 2, len) /\ 2 \in 1..3
    BY <1>1, Types
  <1>3. /\ call' \in [Calls -> Call] /\ call'[c].at = First(c) /\ call'[c].since = len
        /\ ~call'[c].checked /\ \A d \in Calls \ {c} : call'[d] = call[d]
    BY <1>2, StartLoadFacts
  <1>4. call'[c].since <= Len(journal')
    BY <1>1, <1>3, SharableFacts
  <1>5. \A d \in Calls \ {c} : call'[d].at = "reduce" => call'[c].since <= Len(call'[d].got)
    BY <1>1, <1>3, SharableFacts DEF At
  <1>6. QED
    BY <1>3, <1>4, <1>5, StartedCall

(* A call goes on to a step that relies on nothing but its start.          *)
LEMMA MoveOn ==
    ASSUME TypeOK, NEW c \in Calls, CallInv(c), NEW s \in {"append", "sync", "rebuild"},
           call' = Goto(c, s), Len(journal) \in Nat, Len(journal') \in Nat,
           Len(journal) <= Len(journal')
    PROVE  /\ call' \in [Calls -> Call] /\ CallInv(c)' /\ call'[c].at # "reduce"
           /\ \A d \in Calls \ {c} : call'[d] = call[d]
  <1>1. s \in Steps /\ call[c].since \in Nat
    BY DEF Steps, TypeOK, Call
  <1>2. /\ call' \in [Calls -> Call] /\ call'[c].at = s /\ call'[c].since = call[c].since
        /\ \A d \in Calls \ {c} : call'[d] = call[d]
    BY <1>1, GotoFacts
  <1>3. call'[c].since <= Len(journal')
    BY <1>1, <1>2 DEF CallInv
  <1>4. QED
    BY <1>2, <1>3, MovedCall

(* Where a call goes on after Sync or Rebuild.                             *)
LEMMA SyncedFacts ==
    ASSUME IInv, NEW c \in Calls, call' = Synced(c), UNCHANGED journal
    PROVE  /\ call' \in [Calls -> Call] /\ CallInv(c)' /\ call'[c].at # "reduce"
           /\ \A d \in Calls \ {c} : call'[d] = call[d]
  <1>1. TypeOK /\ CallInv(c) /\ Len(journal) \in Nat /\ Len(journal') \in Nat /\ 2 \in 1..3
    BY Types
  <1>2. \/ call' = Return(c)
        \/ call' = StartLoad(c, 2, Len(journal)) /\ call[c].kind = "write"
        \/ call' = Goto(c, "append")
        \/ call' = Goto(c, "rebuild")
    <2>1. CASE call[c].load = 3
      BY <2>1 DEF Synced
    <2>2. CASE call[c].load # 3 /\ call[c].kind = "write"
      BY <2>2 DEF Synced
    <2>3. CASE call[c].load # 3 /\ call[c].kind # "write"
      BY <2>3 DEF Synced
    <2>4. QED
      BY <2>1, <2>2, <2>3
  <1>3. CASE call' = Return(c)
    BY <1>1, <1>3, ReturnFacts
  <1>4. CASE call' = StartLoad(c, 2, Len(journal)) /\ call[c].kind = "write"
    <2>1. call' = StartLoad(c, 2, Len(journal'))
      BY <1>4
    <2>2. QED
      BY <1>1, <1>4, <2>1, NextLoad
  <1>5. CASE call' = Goto(c, "append") \/ call' = Goto(c, "rebuild")
    BY <1>1, <1>5, MoveOn
  <1>6. QED
    BY <1>2, <1>3, <1>4, <1>5

(* What a command does with what it loaded.                                *)
LEMMA ContinueStep == ASSUME IInv, NEW c \in Calls, Continue(c) PROVE Core'
  <1>1. /\ TypeOK /\ CallInv(c) /\ Len(journal) \in Nat /\ 2 \in 1..3
        /\ UNCHANGED <<journal, durable, next, rows, sealed, cache, mutex, plock, wlock, up, losses>>
    BY Types DEF Continue
  <1>2. \/ call' = Return(c) \/ call' = StartLoad(c, 2, Sharable)
        \/ call' = Goto(c, "append") \/ call' = Goto(c, "sync")
    BY DEF Continue
  <1>3. /\ call' \in [Calls -> Call] /\ CallInv(c)' /\ call'[c].at # "reduce"
        /\ \A d \in Calls \ {c} : call'[d] = call[d]
    <2>1. CASE call' = Return(c)
      BY <1>1, <2>1, ReturnFacts
    <2>2. CASE call' = StartLoad(c, 2, Sharable)
      BY <1>1, <2>2, NextQuery
    <2>3. CASE call' = Goto(c, "append") \/ call' = Goto(c, "sync")
      BY <1>1, <2>3, MoveOn
    <2>4. QED
      BY <1>2, <2>1, <2>2, <2>3
  <1>4. QED
    BY <1>1, <1>3, LocalStep

(* Publishing a segment extends the journal.                               *)
LEMMA PublishFacts ==
    ASSUME IInv, Publish
    PROVE  /\ journal' \in Seq(Hashes) /\ Len(journal') = Len(journal) + 1
           /\ Prefix(journal, journal') /\ next' \in 2..(MaxWrites + 1)
  <1>1. next \in Hashes /\ journal \in Seq(Hashes) /\ next \in 2..(MaxWrites + 1)
    BY ProjectionConstants DEF IInv, Core, TypeOK, Publish, Hashes
  <1>2. QED
    BY <1>1, AppendFacts, ProjectionConstants DEF Publish

(* A command appends on the head it decided on, or fails.                  *)
LEMMA AppendOnceStep == ASSUME IInv, NEW c \in Calls, AppendOnce(c) PROVE Core'
  <1>1. /\ TypeOK /\ CallInv(c) /\ Len(journal) \in Nat /\ 3 \in 1..3 /\ Prefix(journal, journal)
        /\ durable \in 1..Len(journal)
        /\ UNCHANGED <<rows, sealed, cache, mutex, plock, wlock, up, losses>>
    BY Types DEF AppendOnce, TypeOK
  <1>2. CASE /\ Publish
             /\ \/ durable' = Len(journal') /\ call' = StartLoad(c, 3, Len(journal'))
                \/ durable' = durable       /\ call' = Return(c)
    <2>1. /\ journal' \in Seq(Hashes) /\ Len(journal') = Len(journal) + 1
          /\ Prefix(journal, journal') /\ next' \in 2..(MaxWrites + 1)
      BY <1>2, PublishFacts
    <2>2. Len(journal') \in Nat
      BY <1>1, <2>1
    <2>3. /\ call' \in [Calls -> Call] /\ CallInv(c)' /\ call'[c].at # "reduce"
          /\ \A d \in Calls \ {c} : call'[d] = call[d]
      BY <1>1, <1>2, <2>2, NextLoad, ReturnFacts DEF AppendOnce
    <2>4. durable' \in 1..Len(journal')
      BY <1>1, <1>2, <2>1
    <2>5. QED
      BY <1>1, <2>1, <2>3, <2>4, OneCallStep DEF TypeOK
  <1>3. CASE call' = Return(c) /\ UNCHANGED <<journal, durable, next>>
    <2>1. /\ call' \in [Calls -> Call] /\ CallInv(c)' /\ call'[c].at # "reduce"
          /\ \A d \in Calls \ {c} : call'[d] = call[d]
      BY <1>1, <1>3, ReturnFacts
    <2>2. QED
      BY <1>1, <1>3, <2>1, LocalStep
  <1>4. QED
    BY <1>2, <1>3 DEF AppendOnce

(* A restored backup may extend the journal.                               *)
LEMMA RestoreBackupStep == ASSUME IInv, NEW c \in Calls, RestoreBackup(c) PROVE Core'
  <1>1. /\ TypeOK /\ CallInv(c) /\ Len(journal) \in Nat /\ call' = Goto(c, "rebuild")
        /\ UNCHANGED <<rows, sealed, cache, mutex, plock, wlock, up, losses>>
    BY Types DEF RestoreBackup
  <1>2. CASE Publish /\ durable' = Len(journal')
    <2>1. /\ journal' \in Seq(Hashes) /\ Len(journal') = Len(journal) + 1
          /\ Prefix(journal, journal') /\ next' \in 2..(MaxWrites + 1)
      BY <1>2, PublishFacts
    <2>2. Len(journal') \in Nat /\ Len(journal) <= Len(journal')
      BY <1>1, <2>1
    <2>3. /\ call' \in [Calls -> Call] /\ CallInv(c)' /\ call'[c].at # "reduce"
          /\ \A d \in Calls \ {c} : call'[d] = call[d]
      BY <1>1, <2>2, MoveOn
    <2>4. durable' \in 1..Len(journal')
      BY <1>1, <1>2, <2>1
    <2>5. QED
      BY <1>1, <2>1, <2>3, <2>4, OneCallStep DEF TypeOK
  <1>3. CASE UNCHANGED <<journal, next, durable>>
    <2>1. /\ call' \in [Calls -> Call] /\ CallInv(c)' /\ call'[c].at # "reduce"
          /\ \A d \in Calls \ {c} : call'[d] = call[d]
      BY <1>1, <1>3, MoveOn
    <2>2. QED
      BY <1>1, <1>3, <2>1, LocalStep
  <1>4. QED
    BY <1>2, <1>3 DEF RestoreBackup

(* A synchronization leaves newer rows alone and replaces older ones.      *)
LEMMA SyncStep == ASSUME IInv, NEW c \in Calls, Sync(c) PROVE Core'
  <1> DEFINE incoming == HashesOf(call[c].got)
  <1>1. /\ TypeOK /\ CallInv(c) /\ Len(journal) \in Nat /\ plock = NoCall
        /\ UNCHANGED <<journal, durable, next, sealed, cache, mutex, wlock, up, losses>>
    BY Types DEF Sync
  <1>2. incoming \in Seq(Hashes)
    BY Types, HashesOfFacts
  <1>3. CASE call' = Synced(c) /\ UNCHANGED <<rows, plock>>
    BY <1>1, <1>3, SyncedFacts, LocalStep
  <1>4. CASE call' = Return(c) /\ UNCHANGED <<rows, plock>>
    BY <1>1, <1>4, ReturnFacts, LocalStep
  <1>5. CASE /\ rows' = (IF Len(rows) = Len(incoming) THEN rows ELSE incoming)
             /\ plock' = c /\ call' = Goto(c, "seal")
    <2>1. rows' \in Seq(Hashes)
      BY <1>1, <1>2, <1>5 DEF TypeOK
    <2>2. "seal" \in Steps
      BY DEF Steps
    <2>3. /\ call' \in [Calls -> Call] /\ call'[c].at = "seal" /\ call'[c].since = call[c].since
          /\ \A d \in Calls \ {c} : call'[d] = call[d]
      BY <1>1, <1>5, <2>2, GotoFacts
    <2>4. CallInv(c)' /\ call'[c].at # "reduce"
      BY <1>1, <1>5, <2>3 DEF CallInv, At, Uncached, Loading
    <2>5. QED
      BY <1>1, <1>5, <2>1, <2>3, <2>4, Types, OneCallStep DEF TypeOK
  <1>6. QED
    BY <1>3, <1>4, <1>5 DEF Sync

(* The checkpoint is sealed and the locks are given back.                  *)
LEMMA SealCheckpointStep == ASSUME IInv, NEW c \in Calls, SealCheckpoint(c) PROVE Core'
  <1>1. /\ TypeOK /\ At(c, "seal") /\ sealed' = HashesOf(call[c].got)
        /\ plock' = NoCall /\ wlock' \in {NoCall, wlock} /\ call' = Synced(c)
        /\ UNCHANGED <<journal, durable, next, rows, cache, mutex, up, losses>>
    BY Types DEF SealCheckpoint
  <1>2. sealed' \in Seq(Hashes) /\ plock = c
    BY <1>1, Types, HashesOfFacts DEF CallInv, At
  <1>3. QED
    BY <1>1, <1>2, Types, SyncedFacts, OneCallStep DEF TypeOK

(* A rebuild takes the writer lock and replays the journal.                *)
LEMMA RebuildProjectionStep == ASSUME IInv, NEW c \in Calls, RebuildProjection(c) PROVE Core'
  <1> DEFINE segs == Read(journal)
             r == [call[c] EXCEPT !.at = "rebuilding", !.got = segs, !.load = 3]
  <1>1. /\ TypeOK /\ CallInv(c) /\ call[c] \in Call /\ wlock' = c
        /\ UNCHANGED <<journal, durable, next, rows, sealed, cache, mutex, plock, up, losses>>
    BY Types DEF RebuildProjection
  <1>2. segs \in Seq(Segment)
    BY Types, ReadFacts
  <1>3. call' = [call EXCEPT ![c] = r]
    BY <1>1 DEF RebuildProjection, TypeOK
  <1> HIDE DEF segs
  <1>4. r \in Call /\ r.at = "rebuilding" /\ r.since = call[c].since
    <2>1. "rebuilding" \in Steps /\ 3 \in 1..3
      BY DEF Steps
    <2>2. QED
      BY <1>1, <1>2, <2>1 DEF Call
  <1> HIDE DEF r
  <1>5. /\ call' \in [Calls -> Call] /\ call'[c] = r
        /\ \A d \in Calls \ {c} : call'[d] = call[d]
    BY <1>1, <1>3, <1>4 DEF TypeOK
  <1>6. CallInv(c)' /\ call'[c].at # "reduce"
    BY <1>1, <1>4, <1>5 DEF CallInv, At, Uncached, Loading
  <1>7. QED
    BY <1>1, <1>5, <1>6, Types, OneCallStep DEF TypeOK

(* It empties the rows under the projection lock.                          *)
LEMMA RebuildDropsStep == ASSUME IInv, NEW c \in Calls, RebuildDrops(c) PROVE Core'
  <1>1. /\ TypeOK /\ CallInv(c) /\ plock = NoCall /\ plock' = c /\ rows' = <<>>
        /\ call' = Goto(c, "refill") /\ "refill" \in Steps
        /\ UNCHANGED <<journal, durable, next, sealed, cache, mutex, wlock, up, losses>>
    BY Types DEF RebuildDrops, Steps
  <1>2. /\ call' \in [Calls -> Call] /\ call'[c].at = "refill" /\ call'[c].since = call[c].since
        /\ \A d \in Calls \ {c} : call'[d] = call[d]
    BY <1>1, GotoFacts
  <1>3. CallInv(c)' /\ call'[c].at # "reduce"
    BY <1>1, <1>2 DEF CallInv, At, Uncached, Loading
  <1>4. rows' \in Seq(Hashes)
    BY <1>1, EmptySeq
  <1>5. QED
    BY <1>1, <1>2, <1>3, <1>4, Types, OneCallStep DEF TypeOK

(* And fills them again before it lets go.                                 *)
LEMMA RebuildFillsStep == ASSUME IInv, NEW c \in Calls, RebuildFills(c) PROVE Core'
  <1>1. /\ TypeOK /\ CallInv(c) /\ At(c, "refill") /\ rows' = HashesOf(call[c].got)
        /\ call' = Goto(c, "seal") /\ "seal" \in Steps
        /\ UNCHANGED <<journal, durable, next, sealed, cache, mutex, plock, wlock, up, losses>>
    BY Types DEF RebuildFills, Steps
  <1>2. /\ call' \in [Calls -> Call] /\ call'[c].at = "seal" /\ call'[c].since = call[c].since
        /\ \A d \in Calls \ {c} : call'[d] = call[d]
    BY <1>1, GotoFacts
  <1>3. rows' \in Seq(Hashes) /\ plock = c
    BY <1>1, Types, HashesOfFacts DEF CallInv, At
  <1>4. CallInv(c)' /\ call'[c].at # "reduce"
    BY <1>1, <1>2, <1>3 DEF CallInv, At, Uncached, Loading
  <1>5. QED
    BY <1>1, <1>2, <1>3, <1>4, Types, OneCallStep DEF TypeOK

-----------------------------------------------------------------------------
(* The daemon and failures.                                                *)

(* The daemon starts.                                                      *)
LEMMA StartDaemonStep == ASSUME IInv, StartDaemon PROVE Core'
  BY DEF IInv, Core, StartDaemon, TypeOK, CacheInv, CallInv, At

(* The calls of dead processes are idle, the locks of the others stay.     *)
LEMMA GoneFacts ==
    ASSUME TypeOK, NEW dead \in SUBSET Calls, Gone(dead)
    PROVE  /\ call' \in [Calls -> Call] /\ {mutex', plock', wlock'} \subseteq Calls \cup {NoCall}
           /\ \A d \in dead : call'[d] = Idle
           /\ \A d \in Calls \ dead :
                /\ call'[d] = call[d]
                /\ mutex = d => mutex' = d
                /\ plock = d => plock' = d
  <1>1. /\ call' \in [Calls -> Call] /\ \A d \in dead : call'[d] = Idle
        /\ \A d \in Calls \ dead : call'[d] = call[d]
    BY IdleFacts DEF Gone, TypeOK
  <1>2. {mutex', plock', wlock'} \subseteq Calls \cup {NoCall}
    BY DEF Gone, TypeOK
  <1>3. \A d \in Calls \ dead : (mutex = d => mutex' = d) /\ (plock = d => plock' = d)
    BY DEF Gone
  <1>4. QED
    BY <1>1, <1>2, <1>3

(* The daemon stops, and its cache with it.                                *)
LEMMA StopDaemonStep == ASSUME IInv, StopDaemon PROVE Core'
  <1>1. /\ TypeOK /\ Requests \in SUBSET Calls /\ Gone(Requests) /\ cache' = NoCache /\ up' = FALSE
        /\ UNCHANGED <<journal, durable, next, rows, sealed, losses>> /\ Len(journal) \in Nat
    BY Types DEF StopDaemon, Calls
  <1>2. cache'.valid = FALSE /\ cache'.segs = <<>> /\ <<>> \in Seq(Segment)
    BY <1>1, EmptySeq DEF NoCache
  <1>3. TypeOK'
    BY <1>1, <1>2, GoneFacts DEF TypeOK
  <1>4. CacheInv'
    BY <1>2 DEF CacheInv
  <1>5. ASSUME NEW d \in Calls PROVE CallInv(d)'
    <2>1. CASE d \in Requests
      BY <1>1, <2>1, GoneFacts, IdleCall
    <2>2. CASE d \notin Requests
      <3>1. /\ call'[d] = call[d] /\ (plock = d => plock' = d) /\ CallInv(d)
        BY <1>1, <2>2, GoneFacts, Types
      <3>2. QED
        BY <1>1, <2>2, <3>1 DEF CallInv, At, Uncached, Loading
    <2>3. QED
      BY <2>1, <2>2
  <1>6. QED
    BY <1>3, <1>4, <1>5 DEF IInv, Core

(* An offline process is killed.                                           *)
LEMMA KillOfflineStep == ASSUME IInv, NEW c \in Calls, KillOffline(c) PROVE Core'
  <1>1. /\ TypeOK /\ {c} \in SUBSET Calls /\ Gone({c})
        /\ UNCHANGED <<journal, durable, next, rows, sealed, cache, up, losses>>
        /\ Len(journal) \in Nat /\ Prefix(journal, journal)
    BY Types DEF KillOffline
  <1>2. TypeOK' /\ CacheInv'
    BY <1>1, GoneFacts DEF IInv, Core, TypeOK, CacheInv
  <1>3. ASSUME NEW d \in Calls PROVE CallInv(d)'
    <2>1. CASE d = c
      BY <1>1, <2>1, GoneFacts, IdleCall
    <2>2. CASE d # c
      <3>1. /\ call'[d] = call[d] /\ (mutex = d => mutex' = d) /\ (plock = d => plock' = d)
            /\ CallInv(d)
        BY <1>1, <2>2, GoneFacts, Types
      <3>2. \A e \in Calls : call'[e].at = "reduce" => call'[e] = call[e]
        <4>1. call'[c].at # "reduce"
          BY <1>1, GoneFacts, IdleFacts
        <4>2. QED
          BY <1>1, <4>1, GoneFacts
      <3>3. At(d, "wait") => \A e \in Calls : call'[e].at = "reduce" => call[d].since <= Len(call'[e].got)
        BY <3>1, <3>2 DEF CallInv, At
      <3>4. QED
        BY <1>1, <3>1, <3>3 DEF CallInv, At, Uncached, Loading
    <2>3. QED
      BY <2>1, <2>2
  <1>4. QED
    BY <1>2, <1>3 DEF IInv, Core

(* A power loss takes what was not synced, and every process.              *)
LEMMA PowerLossStep == ASSUME IInv, PowerLoss PROVE Core'
  <1>1. /\ TypeOK /\ Calls \in SUBSET Calls /\ Gone(Calls) /\ cache' = NoCache /\ up' = FALSE
        /\ losses' = losses + 1 /\ losses < MaxLosses /\ UNCHANGED <<next, rows, sealed>>
        /\ Len(journal) \in Nat /\ journal \in Seq(Hashes) /\ durable \in 1..Len(journal)
    BY Types DEF PowerLoss, TypeOK
  <1>2. PICK k \in durable..Len(journal) : journal' = SubSeq(journal, 1, k) /\ durable' = k
    BY DEF PowerLoss
  <1>3. k \in 1..Len(journal) /\ k \in Nat
    BY <1>1
  <1>4. journal' \in Seq(Hashes) /\ Len(journal') = k
    BY <1>1, <1>2, <1>3
  <1>5. cache'.valid = FALSE /\ cache'.segs = <<>> /\ <<>> \in Seq(Segment)
    BY <1>1, EmptySeq DEF NoCache
  <1>6. losses' \in 0..MaxLosses /\ durable' \in 1..Len(journal')
    BY <1>1, <1>2, <1>3, <1>4, ProjectionConstants DEF TypeOK
  <1>7. TypeOK'
    BY <1>1, <1>4, <1>5, <1>6, GoneFacts DEF TypeOK
  <1>8. CacheInv'
    BY <1>5 DEF CacheInv
  <1>9. \A d \in Calls : CallInv(d)'
    BY <1>1, <1>3, <1>4, GoneFacts, IdleCall
  <1>10. QED
    BY <1>7, <1>8, <1>9 DEF IInv, Core

-----------------------------------------------------------------------------
(* The actor lock: a command begins alone, and nothing begins beside it.   *)

(* A step of c leaves the command of every call as it is, or ends it, and  *)
(* starts none.                                                            *)
Keeps(c) ==
    \A d \in Calls :
        /\ call'[d].kind \in {call[d].kind, "read"}
        /\ d # c => call'[d].at = call[d].at
        /\ d = c /\ call'[d].at = "idle" => call'[d].kind = "read"

(* A call that goes on, returns or loads again.                            *)
LEMMA MovesKeep ==
    ASSUME TypeOK, NEW c \in Calls, NEW s \in Steps \ {"idle"}, NEW n \in 1..3, NEW length \in Nat,
           call' \in {Goto(c, s), Return(c), StartLoad(c, n, length)}
    PROVE  Keeps(c)
  <1>1. call \in [Calls -> Call] /\ call[c] \in Call
    BY DEF TypeOK
  <1>2. CASE call' = Goto(c, s)
    BY <1>1, <1>2 DEF Goto, Keeps, Call
  <1>3. CASE call' = Return(c)
    BY <1>1, <1>3 DEF Return, Idle, Keeps, Call
  <1>4. CASE call' = StartLoad(c, n, length)
    BY <1>1, <1>4 DEF StartLoad, Keeps, Call
  <1>5. QED
    BY <1>2, <1>3, <1>4

(* Every step of a call does.                                              *)
LEMMA StepKeeps == ASSUME IInv, NEW c \in Calls, Step(c) PROVE Keeps(c) /\ ~At(c, "idle")
  <1>1. /\ TypeOK /\ call \in [Calls -> Call] /\ call[c] \in Call /\ Len(journal) \in Nat
        /\ Sharable \in Nat /\ 2 \in 1..3 /\ 3 \in 1..3
    BY Types, SharableFacts DEF TypeOK
  <1>2. ~At(c, "idle")
    BY DEF Step, LoadShared, LoadLocks, ReadCheckpoint, VerifyCheckpoint, RestoreCheckpoint,
       ReadSnapshot, ReduceSnapshot, LoadAuthority, Continue, AppendOnce, RestoreBackup, Sync,
       SealCheckpoint, RebuildProjection, RebuildDrops, RebuildFills, At
  <1> SUFFICES Keeps(c)
    BY <1>2
  <1>3. ASSUME call' = Synced(c) PROVE Keeps(c)
    BY <1>1, <1>3, MovesKeep DEF Synced, Steps
  <1>4. CASE LoadShared(c) \/ LoadAuthority(c) \/ RebuildProjection(c) \/ ReadSnapshot(c)
    <2>1. CASE LoadShared(c)
      BY <1>1, <2>1 DEF LoadShared, Keeps, Call
    <2>2. CASE LoadAuthority(c)
      BY <1>1, <2>2 DEF LoadAuthority, Keeps, Call
    <2>3. CASE RebuildProjection(c)
      BY <1>1, <2>3 DEF RebuildProjection, Keeps, Call
    <2>4. CASE ReadSnapshot(c)
      <3>1. PICK segs : call' = Return(c) \/ call' = [call EXCEPT ![c].at = "reduce", ![c].got = segs]
        BY <2>4 DEF ReadSnapshot
      <3>2. CASE call' = Return(c)
        BY <1>1, <3>2 DEF Return, Idle, Keeps, Call
      <3>3. CASE call' = [call EXCEPT ![c].at = "reduce", ![c].got = segs]
        BY <1>1, <3>3 DEF Keeps, Call
      <3>4. QED
        BY <3>1, <3>2, <3>3
    <2>5. QED
      BY <1>4, <2>1, <2>2, <2>3, <2>4
  <1>5. CASE ReduceSnapshot(c)
    <2>1. CASE call' = Return(c)
      BY <1>1, <2>1 DEF Return, Idle, Keeps, Call
    <2>2. CASE call' = [d \in Calls |->
                  IF d = c THEN [call[c] EXCEPT !.at = "loaded"]
                  ELSE IF At(d, "wait") THEN [call[d] EXCEPT !.checked = TRUE]
                  ELSE call[d]]
      <3>1. ASSUME NEW d \in Calls
            PROVE  /\ call'[d].kind = call[d].kind /\ (d # c => call'[d].at = call[d].at)
                   /\ d = c => call'[d].at = "loaded"
        <4>1. call[d] \in Call
          BY <1>1
        <4>2. CASE d = c
          BY <2>2, <4>1, <4>2 DEF Call
        <4>3. CASE d # c /\ At(d, "wait")
          BY <2>2, <4>1, <4>3 DEF Call
        <4>4. CASE d # c /\ ~At(d, "wait")
          BY <2>2, <4>4
        <4>5. QED
          BY <4>2, <4>3, <4>4
      <3>2. QED
        BY <3>1 DEF Keeps
    <2>3. QED
      BY <1>5, <2>1, <2>2 DEF ReduceSnapshot
  <1>6. CASE LoadLocks(c) \/ VerifyCheckpoint(c) \/ RestoreCheckpoint(c)
    BY <1>1, <1>6, MovesKeep DEF LoadLocks, VerifyCheckpoint, RestoreCheckpoint, Steps
  <1>7. CASE ReadCheckpoint(c)
    <2>1. CASE call' = [call EXCEPT ![c].doc = sealed, ![c].at = "rows"]
      BY <1>1, <2>1 DEF Keeps, Call
    <2>2. CASE call' = Goto(c, "read")
      BY <1>1, <2>2, MovesKeep DEF Steps
    <2>3. QED
      BY <1>7, <2>1, <2>2 DEF ReadCheckpoint
  <1>8. CASE Continue(c)
    BY <1>1, <1>8, MovesKeep DEF Continue, Steps
  <1>9. CASE AppendOnce(c)
    <2>1. CASE Publish /\ call' = StartLoad(c, 3, Len(journal'))
      <3>1. PICK n \in Nat : n = Len(journal')
        BY <1>1, <2>1, PublishFacts
      <3>2. call' = StartLoad(c, 3, n)
        BY <2>1, <3>1
      <3>3. QED
        BY <1>1, <3>2, MovesKeep DEF Steps
    <2>2. CASE call' = Return(c)
      BY <1>1, <2>2, MovesKeep DEF Steps
    <2>3. QED
      BY <1>9, <2>1, <2>2 DEF AppendOnce
  <1>10. CASE RestoreBackup(c) \/ RebuildDrops(c) \/ RebuildFills(c)
    BY <1>1, <1>10, MovesKeep DEF RestoreBackup, RebuildDrops, RebuildFills, Steps
  <1>11. CASE Sync(c)
    <2>1. call' = Synced(c) \/ call' = Return(c) \/ call' = Goto(c, "seal")
      BY <1>11 DEF Sync
    <2>2. QED
      BY <1>1, <1>3, <2>1, MovesKeep DEF Steps
  <1>12. CASE SealCheckpoint(c)
    BY <1>3, <1>12 DEF SealCheckpoint
  <1>13. QED
    BY <1>4, <1>5, <1>6, <1>7, <1>8, <1>9, <1>10, <1>11, <1>12 DEF Step

(* The actor lock's rule is kept.                                          *)
LEMMA NextActor == ASSUME IInv, [Next]_vars PROVE ActorInv'
  <1>1. /\ TypeOK /\ call \in [Calls -> Call] /\ Requests \subseteq Calls /\ ActorInv
    BY Types DEF IInv, TypeOK, Calls
  <1>2. ASSUME NEW c \in Calls, NEW k \in {"read", "write", "rebuild", "restore"}, Begin(c, k)
        PROVE  ActorInv'
    <2>1. \A d \in Calls \ {c} : call'[d] = call[d]
      BY <1>1, <1>2 DEF Begin, StartLoad
    <2>2. call'[c].kind = k
      <3> DEFINE f == StartLoad(c, 1, IF k = "read" THEN Sharable ELSE Len(journal))
      <3>1. f \in [Calls -> Call]
        <4>1. (IF k = "read" THEN Sharable ELSE Len(journal)) \in Nat /\ 1 \in 1..3
          BY Types, SharableFacts
        <4>2. QED
          BY <1>1, <4>1, StartLoadFacts
      <3>2. call' = [f EXCEPT ![c].kind = k]
        BY <1>2 DEF Begin
      <3> HIDE DEF f
      <3>3. QED
        BY <3>1, <3>2 DEF Call
    <2>5. call'[c].at # "idle"
      BY <1>1, <1>2 DEF Begin, StartLoad, Call
    <2>3. At(c, "idle") /\ (c \in Requests => \A d \in Requests \ {c} :
             At(d, "idle") \/ (k = "read" /\ call[d].kind = "read"))
      BY <1>2 DEF Begin
    <2>4. QED
      <3>1. ASSUME NEW a \in Requests, NEW b \in Requests, a # b, call'[a].kind # "read"
            PROVE  call'[b].at = "idle"
        <4>1. CASE a = c
          BY <1>1, <2>1, <2>2, <2>3, <3>1, <4>1 DEF At
        <4>2. CASE b = c
          <5>1. call[a].kind # "read" /\ ~At(a, "idle")
            BY <1>1, <2>1, <3>1, <4>2 DEF ActorInv
          <5>2. QED
            BY <2>3, <3>1, <4>2, <5>1
        <4>3. CASE a # c /\ b # c
          BY <1>1, <2>1, <3>1, <4>3 DEF ActorInv, At
        <4>4. QED
          BY <4>1, <4>2, <4>3
      <3>2. ASSUME NEW a \in Calls, call'[a].at = "idle" PROVE call'[a].kind = "read"
        BY <1>1, <2>1, <2>5, <3>2 DEF ActorInv, At
      <3>3. QED
        BY <3>1, <3>2 DEF ActorInv, At
  <1>3. ASSUME NEW c \in Calls, Step(c) PROVE ActorInv'
    <2>1. Keeps(c) /\ ~At(c, "idle")
      BY <1>3, StepKeeps
    <2>2. QED
      BY <1>1, <2>1 DEF Keeps, ActorInv, At
  <1>4. ASSUME NEW dead \in SUBSET Calls, Gone(dead) PROVE ActorInv'
    <2>1. \A d \in Calls : call'[d] \in {call[d], Idle}
      BY <1>1, <1>4, GoneFacts
    <2>2. QED
      BY <1>1, <2>1 DEF ActorInv, At, Idle
  <1>5. CASE StopDaemon \/ PowerLoss \/ \E c \in Calls : KillOffline(c)
    BY <1>1, <1>4, <1>5 DEF StopDaemon, PowerLoss, KillOffline
  <1>6. CASE StartDaemon \/ UNCHANGED vars
    BY <1>1, <1>6 DEF StartDaemon, vars, ActorInv, At
  <1>7. QED
    BY <1>2, <1>3, <1>5, <1>6 DEF Next

-----------------------------------------------------------------------------
(* Every step keeps the invariant.                                         *)
LEMMA NextIInv == IInv /\ [Next]_vars => IInv'
  <1> SUFFICES ASSUME IInv, [Next]_vars PROVE Core'
    BY NextActor DEF IInv
  <1>1. ASSUME NEW c \in Calls, NEW k \in {"read", "write", "rebuild", "restore"}, Begin(c, k)
        PROVE  Core'
    BY <1>1, BeginStep
  <1>2. ASSUME NEW c \in Calls, Step(c)
        PROVE  Core'
    BY <1>2, LoadSharedStep, LoadLocksStep, ReadCheckpointStep, VerifyCheckpointStep,
       RestoreCheckpointStep, ReadSnapshotStep, ReduceSnapshotStep, LoadAuthorityStep,
       ContinueStep, AppendOnceStep, RestoreBackupStep, SyncStep, SealCheckpointStep,
       RebuildProjectionStep, RebuildDropsStep, RebuildFillsStep DEF Step
  <1>3. ASSUME NEW c \in Calls, KillOffline(c)
        PROVE  Core'
    BY <1>3, KillOfflineStep
  <1>4. CASE StartDaemon \/ StopDaemon \/ PowerLoss
    BY <1>4, StartDaemonStep, StopDaemonStep, PowerLossStep
  <1>5. CASE UNCHANGED vars
    BY <1>5 DEF IInv, Core, TypeOK, CacheInv, CallInv, At, vars
  <1>6. QED
    BY <1>1, <1>2, <1>3, <1>4, <1>5 DEF Next

(* The inductive invariant of the derived state: who holds the cache mutex *)
(* and the projection lock, and what each call knows of the journal.       *)
THEOREM DerivedInvariant == Spec => []IInv
  BY InitIInv, NextIInv, PTL DEF Spec

(* Every variable keeps its type.                                          *)
THEOREM DerivedTypeOK == Spec => []TypeOK
  <1>1. IInv => TypeOK
    BY DEF IInv, Core
  <1>2. QED
    BY <1>1, DerivedInvariant, PTL

(* load() answers with a state of the present journal. A command's has all *)
(* the journal had when the load began, a query's at least what the check  *)
(* had read that was then reducing. And the cache never holds a segment    *)
(* the journal lacks (service.go).                                         *)
THEOREM LoadsAreJournal == Spec => []LoadIsJournal
  <1>1. IInv => LoadIsJournal
    BY DEF IInv, Core, LoadIsJournal, CacheInv, CallInv
  <1>2. QED
    BY <1>1, DerivedInvariant, PTL

(* Only a rebuild takes rows away: a synchronization that ends late leaves *)
(* newer rows alone, and the rebuild fills the rows it has emptied before  *)
(* anybody else writes them (projection/store.go).                         *)
THEOREM CursorNeverGoesBack == Spec => CursorIsMonotone
  <1> DEFINE A == Len(rows') < Len(rows) => \E c \in Calls : At(c, "rebuilding")
  <1>1. IInv /\ [Next]_vars => A
    <2> SUFFICES ASSUME IInv, [Next]_vars, Len(rows') < Len(rows)
                 PROVE  \E c \in Calls : At(c, "rebuilding")
      OBVIOUS
    <2>1. Len(rows) \in Nat
      BY Types
    <2>2. CASE UNCHANGED rows
      BY <2>1, <2>2
    <2>3. ASSUME NEW c \in Calls, Sync(c) PROVE UNCHANGED rows
      <3> DEFINE incoming == HashesOf(call[c].got)
      <3>1. incoming \in Seq(Hashes) /\ Len(incoming) \in Nat
        BY Types, HashesOfFacts, LenProperties
      <3>2. \/ UNCHANGED rows
            \/ /\ Len(rows) <= Len(incoming)
               /\ rows' = IF Len(rows) = Len(incoming) THEN rows ELSE incoming
        BY <2>3 DEF Sync
      <3> HIDE DEF incoming
      <3>3. QED
        BY <2>1, <3>1, <3>2
    <2>4. ASSUME NEW c \in Calls, RebuildDrops(c) PROVE At(c, "rebuilding")
      BY <2>4 DEF RebuildDrops
    <2>5. ASSUME NEW c \in Calls, RebuildFills(c) PROVE FALSE
      <3>1. rows = <<>>
        BY <2>5, Types DEF RebuildFills, CallInv
      <3>2. rows' \in Seq(Hashes) /\ Len(rows') \in Nat
        BY <2>5, Types, HashesOfFacts, LenProperties DEF RebuildFills
      <3>3. QED
        BY <3>1, <3>2
    <2>6. ASSUME NEW c \in Calls, Step(c),
                 ~Sync(c), ~RebuildDrops(c), ~RebuildFills(c)
          PROVE  UNCHANGED rows
      BY <2>6 DEF Step, LoadShared, LoadLocks, ReadCheckpoint, VerifyCheckpoint, RestoreCheckpoint,
         ReadSnapshot, ReduceSnapshot, LoadAuthority, Continue, AppendOnce, RestoreBackup, SealCheckpoint,
         RebuildProjection
    <2>7. ASSUME NEW c \in Calls,
                 KillOffline(c) \/ \E k \in {"read", "write", "rebuild", "restore"} : Begin(c, k)
          PROVE  UNCHANGED rows
      BY <2>7 DEF KillOffline, Begin
    <2>8. CASE StartDaemon \/ StopDaemon \/ PowerLoss \/ UNCHANGED vars
      BY <2>2, <2>8 DEF StartDaemon, StopDaemon, PowerLoss, vars
    <2>9. QED
      BY <2>2, <2>3, <2>4, <2>5, <2>6, <2>7, <2>8 DEF Next
  <1>2. A => [A]_vars
    OBVIOUS
  <1>3. QED
    BY <1>1, DerivedInvariant, PTL DEF Spec, CursorIsMonotone

-----------------------------------------------------------------------------
(* The locks. Who holds one is at a step that needs it, so the chain of    *)
(* calls that wait for one another ends at a call that waits for nobody.   *)

(* A rebuild and a restore never decide on a second load, so only the two  *)
(* commands that write ever come to the append.                            *)
Shape(r) ==
    /\ r.kind \in {"rebuild", "restore"} => r.load # 2
    /\ r.at = "append" => r.kind \in {"write", "restore"}

HoldInv(c) ==
    /\ mutex = c => c \in Requests /\ call[c].at \in Loading
    /\ plock = c => call[c].at \in {"seal", "refill"}
    /\ wlock = c => call[c].at \in {"rebuilding", "refill", "seal"}
    /\ Shape(call[c])

LockInv == \A c \in Calls : HoldInv(c)

(* A call moves on: its command and its load stay.                         *)
LEMMA GotoKeeps ==
    ASSUME TypeOK, NEW c \in Calls, NEW s \in Steps, call' = Goto(c, s)
    PROVE  /\ call'[c].at = s /\ call'[c].kind = call[c].kind /\ call'[c].load = call[c].load
           /\ \A d \in Calls \ {c} : call'[d] = call[d]
  <1> DEFINE r == [call[c] EXCEPT !.at = s]
  <1>1. call[c] \in Call /\ call' = [call EXCEPT ![c] = r]
    BY DEF TypeOK, Goto
  <1>2. r.at = s /\ r.kind = call[c].kind /\ r.load = call[c].load
    BY <1>1 DEF Call
  <1> HIDE DEF r
  <1>3. QED
    BY <1>1, <1>2 DEF TypeOK

(* A call that moves on, and not to the append, keeps its shape.           *)
LEMMA GotoShape ==
    ASSUME TypeOK, NEW c \in Calls, HoldInv(c), NEW s \in Steps \ {"append"}, call' = Goto(c, s)
    PROVE  /\ call'[c].at = s /\ Shape(call[c])'
           /\ \A d \in Calls \ {c} : call'[d] = call[d]
  BY GotoKeeps DEF HoldInv, Shape

(* A load begins: the first one, or a later one of a command that may.     *)
LEMMA StartShape ==
    ASSUME TypeOK, NEW c \in Calls, NEW n \in 1..3, NEW length \in Nat,
           call' = StartLoad(c, n, length),
           n = 2 => call[c].kind \in {"read", "write"}
    PROVE  /\ call'[c].at = First(c) /\ Shape(call[c])'
           /\ \A d \in Calls \ {c} : call'[d] = call[d]
  <1> DEFINE s == First(c)
             r == [call[c] EXCEPT !.load = n, !.since = length, !.checked = FALSE, !.at = s]
  <1>1. call[c] \in Call /\ s \in {"wait", "read"}
    BY DEF TypeOK, First
  <1>2. StartLoad(c, n, length) = [call EXCEPT ![c] = r]
    BY DEF TypeOK, StartLoad, First
  <1> HIDE DEF s
  <1>3. r.at = s /\ r.load = n /\ r.kind = call[c].kind
    BY <1>1 DEF Call
  <1> HIDE DEF r
  <1>4. QED
    BY <1>1, <1>2, <1>3 DEF s, TypeOK, Shape

(* A call that ends, or was killed, is idle.                               *)
LEMMA IdleShape ==
    ASSUME NEW r, r = Idle
    PROVE  r.at = "idle" /\ Shape(r)
  BY DEF Idle, Shape

(* A call that returns leaves the others alone.                            *)
LEMMA ReturnShape ==
    ASSUME TypeOK, NEW c \in Calls, call' = Return(c)
    PROVE  /\ call'[c].at = "idle" /\ Shape(call[c])'
           /\ \A d \in Calls \ {c} : call'[d] = call[d]
  <1>1. call'[c] = Idle /\ \A d \in Calls \ {c} : call'[d] = call[d]
    BY DEF TypeOK, Return
  <1>2. QED
    BY <1>1, IdleShape

(* A call has loaded some segments.                                        *)
LEMMA LoadedShape ==
    ASSUME TypeOK, NEW c \in Calls, HoldInv(c), NEW segs, NEW s \in {"reduce", "loaded"},
           NEW r, r = [call[c] EXCEPT !.at = s, !.got = segs]
    PROVE  r.at = s /\ Shape(r)
  <1>1. call[c] \in Call /\ Shape(call[c])
    BY DEF TypeOK, HoldInv
  <1>2. r.at = s /\ r.kind = call[c].kind /\ r.load = call[c].load
    BY <1>1 DEF Call
  <1>3. QED
    BY <1>1, <1>2 DEF Shape

(* Where a synchronization goes on, no lock is held.                       *)
LEMMA SyncedShape ==
    ASSUME TypeOK, NEW c \in Calls, HoldInv(c), call' = Synced(c)
    PROVE  /\ call'[c].at \in {"idle", "wait", "read", "append", "rebuild"} /\ Shape(call[c])'
           /\ \A d \in Calls \ {c} : call'[d] = call[d]
  <1> DEFINE r == call[c]
  <1>1. Len(journal) \in Nat /\ 2 \in 1..3 /\ {"append", "rebuild"} \subseteq Steps
    BY LenProperties DEF TypeOK, Steps
  <1>2. CASE r.load = 3
    BY <1>2, ReturnShape DEF Synced
  <1>3. CASE r.load # 3 /\ r.kind = "write"
    BY <1>1, <1>3, StartShape DEF Synced, First
  <1>4. CASE r.load # 3 /\ r.kind = "restore"
    BY <1>1, <1>4, GotoKeeps DEF Synced, HoldInv, Shape
  <1>5. CASE r.load # 3 /\ r.kind \notin {"write", "restore"}
    BY <1>1, <1>5, GotoShape DEF Synced
  <1>6. QED
    BY <1>2, <1>3, <1>4, <1>5

(* A step of one call takes locks for that call only, or gives them back.  *)
LEMMA OneHolds ==
    ASSUME LockInv, NEW c \in Calls,
           \A d \in Calls \ {c} : call'[d] = call[d],
           mutex' \in {mutex, c, NoCall}, plock' \in {plock, c, NoCall},
           wlock' \in {wlock, c, NoCall}, HoldInv(c)'
    PROVE  LockInv'
  <1>1. ASSUME NEW d \in Calls \ {c} PROVE HoldInv(d)'
    <2>1. d # NoCall /\ d # c /\ HoldInv(d) /\ call'[d] = call[d]
      BY ProjectionConstants DEF Calls, LockInv
    <2>2. QED
      BY <2>1 DEF HoldInv
  <1>2. QED
    BY <1>1 DEF LockInv

(* The steps that move a call under the locks it has, or release them.     *)
LEMMA MovesHold ==
    ASSUME IInv, LockInv, NEW c \in Calls,
           ReadCheckpoint(c) \/ VerifyCheckpoint(c) \/ RestoreCheckpoint(c)
    PROVE  LockInv'
  <1>1. /\ TypeOK /\ HoldInv(c) /\ UNCHANGED <<mutex, plock, wlock>>
        /\ call[c].at \in {"verify", "rows", "restore"}
    BY Types DEF LockInv, ReadCheckpoint, VerifyCheckpoint, RestoreCheckpoint, At
  <1>2. /\ call'[c].at \in Loading /\ Shape(call[c])'
        /\ \A d \in Calls \ {c} : call'[d] = call[d]
    <2>1. CASE call' = [call EXCEPT ![c].doc = sealed, ![c].at = "rows"]
      <3> DEFINE r == [call[c] EXCEPT !.doc = sealed, !.at = "rows"]
      <3>1. call[c] \in Call /\ call' = [call EXCEPT ![c] = r] /\ Shape(call[c])
        BY <1>1, <2>1 DEF TypeOK, HoldInv
      <3>2. r.at = "rows" /\ r.kind = call[c].kind /\ r.load = call[c].load
        BY <3>1 DEF Call
      <3> HIDE DEF r
      <3>3. QED
        BY <1>1, <3>1, <3>2 DEF TypeOK, Shape, Loading
    <2>2. ASSUME NEW s \in {"restore", "read"}, call' = Goto(c, s)
          PROVE  /\ call'[c].at \in Loading /\ Shape(call[c])'
                 /\ \A d \in Calls \ {c} : call'[d] = call[d]
      <3>1. s \in Steps \ {"append"} /\ s \in Loading
        BY <2>2 DEF Steps, Loading
      <3>2. QED
        BY <1>1, <2>2, <3>1, GotoShape
    <2>3. QED
      BY <2>1, <2>2 DEF ReadCheckpoint, VerifyCheckpoint, RestoreCheckpoint
  <1>3. HoldInv(c)'
    BY <1>1, <1>2 DEF HoldInv
  <1>4. QED
    BY <1>1, <1>2, <1>3, OneHolds

(* A load takes a result or the cache mutex.                               *)
LEMMA WaitHolds ==
    ASSUME IInv, LockInv, NEW c \in Calls, LoadShared(c) \/ LoadLocks(c)
    PROVE  LockInv'
  <1>1. /\ TypeOK /\ HoldInv(c) /\ CallInv(c) /\ At(c, "wait") /\ UNCHANGED <<plock, wlock>>
        /\ mutex = NoCall /\ c # NoCall /\ mutex' \in {mutex, c} /\ (mutex' = c => LoadLocks(c))
    BY Types, ProjectionConstants DEF LockInv, LoadShared, LoadLocks, Calls
  <1>2. /\ call'[c].at \in {"loaded"} \cup Loading /\ (LoadLocks(c) => call'[c].at \in Loading)
        /\ Shape(call[c])' /\ \A d \in Calls \ {c} : call'[d] = call[d]
    <2>1. CASE LoadLocks(c)
      <3> DEFINE s == IF cache.valid THEN "read" ELSE "verify"
      <3>1. s \in Steps \ {"append"} /\ s \in Loading /\ call' = Goto(c, s)
        BY <2>1 DEF LoadLocks, Steps, Loading
      <3> HIDE DEF s
      <3>2. QED
        BY <1>1, <3>1, GotoShape
    <2>2. CASE LoadShared(c) /\ ~LoadLocks(c)
      <3> DEFINE r == [call[c] EXCEPT !.at = "loaded", !.got = cache.segs]
      <3>1. call' = [call EXCEPT ![c] = r]
        BY <1>1, <2>2 DEF LoadShared, TypeOK
      <3>2. r.at = "loaded" /\ Shape(r)
        <4>1. call[c] \in Call /\ Shape(call[c])
          BY <1>1 DEF TypeOK, HoldInv
        <4>2. r.at = "loaded" /\ r.kind = call[c].kind /\ r.load = call[c].load
          BY <4>1 DEF Call
        <4> HIDE DEF r
        <4>3. QED
          BY <4>1, <4>2 DEF Shape
      <3> HIDE DEF r
      <3>3. QED
        BY <1>1, <2>2, <3>1, <3>2 DEF TypeOK
    <2>3. QED
      BY <2>1, <2>2
  <1>3. c \in Requests
    BY <1>1 DEF CallInv, At
  <1>4. HoldInv(c)'
    BY <1>1, <1>2, <1>3 DEF HoldInv, At
  <1>5. QED
    BY <1>1, <1>2, <1>4, OneHolds

(* A read of the journal keeps the mutex, if it has it, or ends the call.  *)
LEMMA ReplayHolds ==
    ASSUME IInv, LockInv, NEW c \in Calls, ReadSnapshot(c) \/ LoadAuthority(c)
    PROVE  LockInv'
  <1>1. /\ TypeOK /\ HoldInv(c) /\ CallInv(c) /\ At(c, "read") /\ UNCHANGED <<plock, wlock>>
        /\ c # NoCall
    BY Types, ProjectionConstants DEF LockInv, ReadSnapshot, LoadAuthority, Calls
  <1>2. plock' # c /\ wlock' # c
    BY <1>1 DEF HoldInv, At
  <1>3. CASE call' = Return(c) /\ mutex' = NoCall
    <2>1. call'[c].at = "idle" /\ Shape(call[c])' /\ \A d \in Calls \ {c} : call'[d] = call[d]
      BY <1>1, <1>3, ReturnShape
    <2>2. HoldInv(c)'
      BY <1>1, <1>2, <1>3, <2>1 DEF HoldInv
    <2>3. QED
      BY <1>1, <1>3, <2>1, <2>2, OneHolds
  <1>4. ASSUME NEW segs, NEW s \in {"reduce", "loaded"},
               call' = [call EXCEPT ![c].at = s, ![c].got = segs],
               mutex' = mutex, mutex = c => c \in Requests /\ s = "reduce"
        PROVE  LockInv'
    <2> DEFINE r == [call[c] EXCEPT !.at = s, !.got = segs]
    <2>1. r.at = s /\ Shape(r)
      BY <1>1, LoadedShape
    <2>2. call' = [call EXCEPT ![c] = r]
      BY <1>1, <1>4 DEF TypeOK
    <2> HIDE DEF r
    <2>3. call'[c] = r /\ \A d \in Calls \ {c} : call'[d] = call[d]
      BY <1>1, <2>2 DEF TypeOK
    <2>4. HoldInv(c)'
      BY <1>1, <1>2, <1>4, <2>1, <2>3 DEF HoldInv, Loading
    <2>5. QED
      BY <1>1, <1>4, <2>3, <2>4, OneHolds
  <1>5. CASE LoadAuthority(c)
    <2>1. call' = [call EXCEPT ![c].at = "loaded", ![c].got = Read(journal)] /\ mutex' = mutex
      BY <1>5 DEF LoadAuthority
    <2>2. c \notin Requests /\ mutex # c
      BY <1>1, <1>5, ProjectionConstants DEF LoadAuthority, HoldInv
    <2>3. QED
      BY <1>4, <2>1, <2>2
  <1>6. CASE ReadSnapshot(c)
    <2>1. PICK segs : \/ call' = Return(c) /\ mutex' = NoCall
                      \/ /\ call' = [call EXCEPT ![c].at = "reduce", ![c].got = segs]
                         /\ mutex' = mutex
      BY <1>6 DEF ReadSnapshot
    <2>2. c \in Requests
      BY <1>6 DEF ReadSnapshot
    <2>3. QED
      BY <1>3, <1>4, <2>1, <2>2
  <1>7. QED
    BY <1>5, <1>6

(* The end of a check gives the mutex back.                                *)
LEMMA ReduceHolds ==
    ASSUME IInv, LockInv, NEW c \in Calls, ReduceSnapshot(c)
    PROVE  LockInv'
  <1>1. /\ TypeOK /\ HoldInv(c) /\ At(c, "reduce") /\ UNCHANGED <<plock, wlock>>
        /\ c # NoCall /\ mutex' = NoCall
    BY Types, ProjectionConstants DEF LockInv, ReduceSnapshot, Calls
  <1>2. plock' # c /\ wlock' # c
    BY <1>1 DEF HoldInv, At
  <1>3. CASE call' = Return(c)
    <2>1. call'[c].at = "idle" /\ Shape(call[c])' /\ \A d \in Calls \ {c} : call'[d] = call[d]
      BY <1>1, <1>3, ReturnShape
    <2>2. HoldInv(c)'
      BY <1>1, <1>2, <2>1 DEF HoldInv
    <2>3. QED
      BY <1>1, <2>1, <2>2, OneHolds
  <1>4. CASE call' = [d \in Calls |->
                IF d = c THEN [call[c] EXCEPT !.at = "loaded"]
                ELSE IF At(d, "wait") THEN [call[d] EXCEPT !.checked = TRUE]
                ELSE call[d]]
    <2>1. Shape(call[c])'
      <3> DEFINE r == [call[c] EXCEPT !.at = "loaded"]
      <3>1. r.at = "loaded" /\ r.kind = call[c].kind /\ r.load = call[c].load
        BY <1>1 DEF TypeOK, Call
      <3>2. call'[c] = r
        BY <1>4
      <3> HIDE DEF r
      <3>3. QED
        BY <1>1, <3>1, <3>2 DEF HoldInv, Shape
    <2>2. HoldInv(c)'
      BY <1>1, <1>2, <2>1 DEF HoldInv
    <2>3. ASSUME NEW d \in Calls \ {c} PROVE HoldInv(d)'
      <3>1. /\ call'[d].at = call[d].at /\ call'[d].kind = call[d].kind /\ call'[d].load = call[d].load
        <4>1. call[d] \in Call /\ (call'[d] = call[d] \/ call'[d] = [call[d] EXCEPT !.checked = TRUE])
          BY <1>1, <1>4 DEF TypeOK
        <4>2. QED
          BY <4>1 DEF Call
      <3>2. HoldInv(d) /\ d # NoCall
        BY <1>1, ProjectionConstants DEF LockInv, Calls
      <3>3. QED
        BY <1>1, <3>1, <3>2 DEF HoldInv, Shape
    <2>4. QED
      BY <2>2, <2>3 DEF LockInv
  <1>5. QED
    BY <1>3, <1>4 DEF ReduceSnapshot

(* A call that holds no lock goes on without one: a command begins or is   *)
(* continued, appends or restores.                                         *)
LEMMA UnlockedHolds ==
    ASSUME IInv, LockInv, NEW c \in Calls,
           \/ \E k \in {"read", "write", "rebuild", "restore"} : Begin(c, k)
           \/ Continue(c) \/ AppendOnce(c) \/ RestoreBackup(c)
    PROVE  LockInv'
  <1>1. /\ TypeOK /\ HoldInv(c) /\ Len(journal) \in Nat /\ UNCHANGED <<mutex, plock, wlock>>
        /\ call[c].at \in {"idle", "loaded", "append"} /\ c # NoCall
    BY Types, ProjectionConstants
       DEF LockInv, Begin, Continue, AppendOnce, RestoreBackup, At, Calls
  <1>2. mutex # c /\ plock # c /\ wlock # c
    BY <1>1 DEF HoldInv, Loading
  <1>3. Shape(call[c])' /\ \A d \in Calls \ {c} : call'[d] = call[d]
    <2>1. ASSUME NEW k \in {"read", "write", "rebuild", "restore"}, Begin(c, k)
          PROVE  Shape(call[c])' /\ \A d \in Calls \ {c} : call'[d] = call[d]
      <3> DEFINE n == IF k = "read" THEN Sharable ELSE Len(journal)
                 f == StartLoad(c, 1, n)
                 r == [f[c] EXCEPT !.kind = k]
      <3>6. n \in Nat /\ call' = [f EXCEPT ![c].kind = k]
        BY <1>1, <2>1, SharableFacts DEF Begin
      <3> HIDE DEF n
      <3>1. f \in [Calls -> Call] /\ f[c].at = First(c) /\ \A d \in Calls \ {c} : f[d] = call[d]
        BY <1>1, <3>6, StartLoadFacts
      <3>2. f[c].load = 1
        BY <1>1 DEF StartLoad, TypeOK, Call
      <3>3. call' = [f EXCEPT ![c] = r]
        BY <3>1, <3>6
      <3> HIDE DEF f
      <3>4. r.load = 1 /\ r.at = First(c)
        BY <3>1, <3>2 DEF Call
      <3> HIDE DEF r
      <3>5. QED
        BY <3>1, <3>3, <3>4 DEF Shape, First
    <2>2. CASE Continue(c)
      <3>1. CASE call[c].kind = "read"
        BY <1>1, <2>2, <3>1, SharableFacts, StartShape, ReturnShape DEF Continue
      <3>2. CASE call[c].kind # "read" /\ call[c].load = 2
        <4>1. "append" \in Steps /\ call[c] \in Call
          BY <1>1 DEF Steps, TypeOK
        <4>2. call[c].kind = "write"
          BY <1>1, <3>2, <4>1 DEF HoldInv, Shape, Call
        <4>3. QED
          BY <1>1, <2>2, <3>2, <4>1, <4>2, GotoKeeps DEF Continue, Shape
      <3>3. CASE call[c].kind # "read" /\ call[c].load # 2
        <4>1. "sync" \in Steps \ {"append"}
          BY DEF Steps
        <4>2. QED
          BY <1>1, <2>2, <3>3, <4>1, GotoShape DEF Continue
      <3>4. QED
        BY <3>1, <3>2, <3>3
    <2>3. CASE AppendOnce(c)
      <3>1. CASE call' = Return(c)
        BY <1>1, <3>1, ReturnShape
      <3>2. CASE call' # Return(c)
        <4>1. call' = StartLoad(c, 3, Len(journal')) /\ Publish
          BY <2>3, <3>2 DEF AppendOnce
        <4>2. Len(journal') \in Nat
          BY <1>1, <2>3, AppendOnceStep, Types DEF IInv, TypeOK
        <4>3. QED
          BY <1>1, <4>1, <4>2, StartShape
      <3>3. QED
        BY <3>1, <3>2
    <2>4. CASE RestoreBackup(c)
      <3>1. "rebuild" \in Steps \ {"append"}
        BY DEF Steps
      <3>2. QED
        BY <1>1, <2>4, <3>1, GotoShape DEF RestoreBackup
    <2>5. QED
      BY <2>1, <2>2, <2>3, <2>4
  <1>4. HoldInv(c)'
    BY <1>1, <1>2, <1>3 DEF HoldInv
  <1>5. QED
    BY <1>1, <1>3, <1>4, OneHolds

(* Sync keeps the projection lock only on its way to the seal.             *)
LEMMA SyncHolds == ASSUME IInv, LockInv, NEW c \in Calls, Sync(c) PROVE LockInv'
  <1>1. /\ TypeOK /\ HoldInv(c) /\ At(c, "sync") /\ UNCHANGED <<mutex, wlock>>
        /\ plock = NoCall /\ c # NoCall /\ "seal" \in Steps \ {"append"}
    BY Types, ProjectionConstants DEF LockInv, Sync, Calls, Steps
  <1>2. mutex # c /\ wlock # c
    BY <1>1 DEF HoldInv, Loading, At
  <1>3. \/ (call' = Synced(c) \/ call' = Return(c)) /\ UNCHANGED plock
        \/ call' = Goto(c, "seal") /\ plock' = c
    BY DEF Sync
  <1>4. /\ Shape(call[c])' /\ \A d \in Calls \ {c} : call'[d] = call[d]
        /\ plock' = c => call'[c].at = "seal"
    BY <1>1, <1>3, SyncedShape, ReturnShape, GotoShape
  <1>5. HoldInv(c)' /\ plock' \in {plock, c}
    BY <1>1, <1>2, <1>3, <1>4 DEF HoldInv
  <1>6. QED
    BY <1>1, <1>4, <1>5, OneHolds

(* The seal gives the projection lock and the writer lock back.            *)
LEMMA SealHolds == ASSUME IInv, LockInv, NEW c \in Calls, SealCheckpoint(c) PROVE LockInv'
  <1>1. /\ TypeOK /\ HoldInv(c) /\ At(c, "seal") /\ mutex' = mutex /\ plock' = NoCall
        /\ c # NoCall /\ wlock' = (IF wlock = c THEN NoCall ELSE wlock) /\ call' = Synced(c)
    BY Types, ProjectionConstants DEF LockInv, SealCheckpoint, Calls
  <1>2. mutex # c /\ wlock' # c /\ wlock' \in {wlock, NoCall}
    BY <1>1 DEF HoldInv, Loading, At
  <1>3. Shape(call[c])' /\ \A d \in Calls \ {c} : call'[d] = call[d]
    BY <1>1, SyncedShape
  <1>4. HoldInv(c)'
    BY <1>1, <1>2, <1>3 DEF HoldInv
  <1>5. QED
    BY <1>1, <1>2, <1>3, <1>4, OneHolds

(* A rebuild takes the writer lock, then the projection lock.              *)
LEMMA RebuildHolds ==
    ASSUME IInv, LockInv, NEW c \in Calls,
           RebuildProjection(c) \/ RebuildDrops(c) \/ RebuildFills(c)
    PROVE  LockInv'
  <1>1. /\ TypeOK /\ HoldInv(c) /\ mutex' = mutex /\ c # NoCall
        /\ call[c].at \in {"rebuild", "rebuilding", "refill"}
    BY Types, ProjectionConstants
       DEF LockInv, RebuildProjection, RebuildDrops, RebuildFills, At, Calls
  <1>2. mutex # c
    BY <1>1 DEF HoldInv, Loading
  <1>3. CASE RebuildProjection(c)
    <2> DEFINE r == [call[c] EXCEPT !.at = "rebuilding", !.got = Read(journal), !.load = 3]
    <2>1. /\ At(c, "rebuild") /\ wlock' = c /\ plock' = plock
          /\ call' = [call EXCEPT ![c] = r] /\ call[c] \in Call
      BY <1>1, <1>3 DEF RebuildProjection, TypeOK
    <2>2. r.at = "rebuilding" /\ r.load = 3
      BY <2>1 DEF Call
    <2> HIDE DEF r
    <2>3. call'[c] = r /\ \A d \in Calls \ {c} : call'[d] = call[d]
      BY <1>1, <2>1 DEF TypeOK
    <2>4. plock # c
      BY <1>1, <2>1 DEF HoldInv, At
    <2>5. HoldInv(c)'
      BY <1>1, <1>2, <2>1, <2>2, <2>3, <2>4 DEF HoldInv, Shape
    <2>6. QED
      BY <1>1, <2>1, <2>3, <2>5, OneHolds
  <1>4. CASE RebuildDrops(c)
    <2>1. /\ "refill" \in Steps \ {"append"} /\ call' = Goto(c, "refill") /\ plock' = c /\ wlock' = wlock
      BY <1>4 DEF RebuildDrops, Steps
    <2>2. /\ call'[c].at = "refill" /\ Shape(call[c])'
          /\ \A d \in Calls \ {c} : call'[d] = call[d]
      BY <1>1, <2>1, GotoShape
    <2>3. HoldInv(c)'
      BY <1>1, <1>2, <2>1, <2>2 DEF HoldInv
    <2>4. QED
      BY <1>1, <2>1, <2>2, <2>3, OneHolds
  <1>5. CASE RebuildFills(c)
    <2>1. /\ "seal" \in Steps \ {"append"} /\ call' = Goto(c, "seal") /\ UNCHANGED <<plock, wlock>>
      BY <1>5 DEF RebuildFills, Steps
    <2>2. /\ call'[c].at = "seal" /\ Shape(call[c])'
          /\ \A d \in Calls \ {c} : call'[d] = call[d]
      BY <1>1, <2>1, GotoShape
    <2>3. HoldInv(c)'
      BY <1>1, <1>2, <2>1, <2>2 DEF HoldInv
    <2>4. QED
      BY <1>1, <2>1, <2>2, <2>3, OneHolds
  <1>6. QED
    BY <1>3, <1>4, <1>5

(* A process that ends takes its locks with it.                            *)
LEMMA GoneHolds == ASSUME TypeOK, LockInv, NEW dead \in SUBSET Calls, Gone(dead) PROVE LockInv'
  <1>1. ASSUME NEW d \in Calls PROVE HoldInv(d)'
    <2>1. HoldInv(d) /\ d # NoCall
      BY ProjectionConstants DEF LockInv, Calls
    <2>2. CASE d \in dead
      <3>1. mutex' # d /\ plock' # d /\ wlock' # d /\ call'[d] = Idle
        BY <2>1, <2>2 DEF Gone
      <3>2. QED
        BY <3>1, IdleShape DEF HoldInv
    <2>3. CASE d \notin dead
      <3>1. call'[d] = call[d] /\ (mutex' = d => mutex = d) /\ (plock' = d => plock = d)
            /\ (wlock' = d => wlock = d)
        BY <2>1, <2>3 DEF Gone
      <3>2. QED
        BY <2>1, <3>1 DEF HoldInv
    <2>4. QED
      BY <2>2, <2>3
  <1>2. QED
    BY <1>1 DEF LockInv

(* Nobody holds a lock when a project begins.                              *)
LEMMA InitLocks == Init => LockInv
  <1> SUFFICES ASSUME Init, NEW c \in Calls PROVE HoldInv(c)
    BY DEF LockInv
  <1>1. c # NoCall /\ call[c] = Idle /\ mutex = NoCall /\ plock = NoCall /\ wlock = NoCall
    BY ProjectionConstants DEF Init, Calls
  <1>2. QED
    BY <1>1, IdleShape DEF HoldInv

(* Every step keeps the locks with the calls that need them.               *)
LEMMA NextLocks == IInv /\ LockInv /\ [Next]_vars => LockInv'
  <1> SUFFICES ASSUME IInv, LockInv, [Next]_vars PROVE LockInv'
    OBVIOUS
  <1>1. ASSUME NEW c \in Calls, NEW k \in {"read", "write", "rebuild", "restore"}, Begin(c, k)
        PROVE  LockInv'
    BY <1>1, UnlockedHolds
  <1>2. ASSUME NEW c \in Calls, Step(c)
        PROVE  LockInv'
    BY <1>2, MovesHold, WaitHolds, ReplayHolds, ReduceHolds, UnlockedHolds,
       SyncHolds, SealHolds, RebuildHolds
       DEF Step
  <1>3. ASSUME NEW c \in Calls, KillOffline(c)
        PROVE  LockInv'
    BY <1>3, Types, GoneHolds DEF KillOffline
  <1>4. CASE StopDaemon \/ PowerLoss
    <2>1. Requests \in SUBSET Calls /\ Calls \in SUBSET Calls /\ TypeOK
      BY Types DEF Calls
    <2>2. QED
      BY <1>4, <2>1, GoneHolds DEF StopDaemon, PowerLoss
  <1>5. CASE StartDaemon \/ UNCHANGED vars
    BY <1>5 DEF StartDaemon, vars, LockInv, HoldInv
  <1>6. QED
    BY <1>1, <1>2, <1>3, <1>4, <1>5 DEF Next

(* Every lock that is held is held by a call at a step that needs it.      *)
THEOREM LockInvariant == Spec => []LockInv
  BY InitLocks, NextLocks, DerivedInvariant, PTL DEF Spec

(* A call that waits for a lock has no step.                               *)
LEMMA StepIsFree ==
    ASSUME NEW c \in Calls, Step(c)
    PROVE  Free(c)
  BY DEF Step, LoadShared, LoadLocks, ReadCheckpoint, VerifyCheckpoint, RestoreCheckpoint,
     ReadSnapshot, ReduceSnapshot, LoadAuthority, Continue, AppendOnce, RestoreBackup, Publish, Sync,
     SealCheckpoint, RebuildProjection, RebuildDrops, RebuildFills, Free, At

(* However many requests and offline commands run, the cache mutex, the    *)
(* projection lock and the writer lock never make all of them wait: the    *)
(* holder of the projection lock waits for nobody, that of the writer lock *)
(* at most for the projection lock, that of the mutex at most for either   *)
(* (service.go, projection/store.go).                                      *)
THEOREM LocksNeverCycle == Spec => []NoWaitCycle
  <1>1. TypeOK /\ LockInv => NoWaitCycle
    <2> SUFFICES ASSUME TypeOK, LockInv, NEW c \in Calls, ~At(c, "idle")
                 PROVE  \E d \in Calls : Free(d)
      BY DEF NoWaitCycle
    <2>1. CASE plock # NoCall
      <3>1. plock \in Calls /\ HoldInv(plock)
        BY <2>1 DEF TypeOK, LockInv
      <3>2. QED
        BY <3>1 DEF HoldInv, Free
    <2>2. CASE plock = NoCall /\ wlock # NoCall
      <3>1. wlock \in Calls /\ HoldInv(wlock)
        BY <2>2 DEF TypeOK, LockInv
      <3>2. QED
        BY <2>2, <3>1 DEF HoldInv, Free
    <2>3. CASE plock = NoCall /\ wlock = NoCall /\ mutex # NoCall
      <3>1. mutex \in Calls /\ HoldInv(mutex)
        BY <2>3 DEF TypeOK, LockInv
      <3>2. QED
        BY <2>3, <3>1 DEF HoldInv, Free, Loading
    <2>4. CASE plock = NoCall /\ wlock = NoCall /\ mutex = NoCall
      <3>1. call[c].at \in Steps
        BY DEF TypeOK, Call
      <3>2. QED
        BY <2>4, <3>1 DEF Free, At, Steps
    <2>5. QED
      BY <2>1, <2>2, <2>3, <2>4
  <1>2. QED
    BY <1>1, LockInvariant, DerivedTypeOK, PTL
=============================================================================
