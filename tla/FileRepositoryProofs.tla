------------------------ MODULE FileRepositoryProofs ------------------------
(***************************************************************************)
(* Proofs about FileRepository.  Under a lock that keeps its promise the   *)
(* file always holds a legal log, it only grows, and what a call reports   *)
(* is on it.  The inductive invariant says that a call inside the critical *)
(* section then works on the file as it still is.  The types do not depend *)
(* on the lock.                                                            *)
(***************************************************************************)
EXTENDS FileRepository, KernelProofs

-----------------------------------------------------------------------------
(* Sequences *)

\* Appending to a log keeps what it begins with.
LEMMA PrefixThenAppend ==
    ASSUME NEW d \in Seq(Event), NEW w \in Seq(Event), NEW e \in Event, IsPrefixOf(d, w)
    PROVE  IsPrefixOf(d, Append(w, e))
<1>1. Len(d) \in 0..Len(w) /\ Prefix(w, Len(d)) = d
  BY DEF IsPrefixOf
<1>. QED
  BY <1>1, PrefixOfAppend, AppendFacts DEF IsPrefixOf

\* A log begins with itself.
LEMMA PrefixOfSelf ==
    ASSUME NEW d \in Seq(Event)
    PROVE  IsPrefixOf(d, d)
<1>1. Prefix(d, Len(d)) = d
  BY SubSeqFull DEF Prefix
<1>. QED
  BY <1>1 DEF IsPrefixOf

\* The old log followed by what was accepted is the working log.
LEMMA OldThenAccepted ==
    ASSUME NEW d \in Seq(Event), NEW w \in Seq(Event), IsPrefixOf(d, w)
    PROVE  d \o SubSeq(w, Len(d) + 1, Len(w)) = w
<1> DEFINE s == SubSeq(w, Len(d) + 1, Len(w))
<1>1. Len(d) \in 0..Len(w) /\ Prefix(w, Len(d)) = d
  BY DEF IsPrefixOf
<1>2. s \in Seq(Event) /\ Len(s) = Len(w) - Len(d)
  BY <1>1, SubSeqProperties
<1>3. ASSUME NEW i \in 1..(Len(w) - Len(d))
      PROVE  s[i] = w[Len(d) + i]
  BY <1>1, <1>2, <1>3, SubSeqProperties
<1>4. ASSUME NEW i \in 1..Len(d)
      PROVE  d[i] = w[i]
  BY <1>1, PrefixFacts
<1>5. /\ d \o s \in Seq(Event)
      /\ Len(d \o s) = Len(w)
      /\ \A i \in 1..Len(w) : (d \o s)[i] = IF i <= Len(d) THEN d[i] ELSE s[i - Len(d)]
  BY <1>1, <1>2, ConcatProperties
<1>6. ASSUME NEW i \in 1..Len(w)
      PROVE  (d \o s)[i] = w[i]
  <2>1. CASE i <= Len(d)
    BY <1>4, <1>5, <2>1
  <2>2. CASE ~(i <= Len(d))
    <3>1. i - Len(d) \in 1..(Len(w) - Len(d)) /\ Len(d) + (i - Len(d)) = i
      BY <1>1, <2>2
    <3>. QED
      BY <1>3, <1>5, <2>2, <3>1
  <2>. QED
    BY <2>1, <2>2
<1>. QED
  BY <1>5, <1>6, SeqEqual

-----------------------------------------------------------------------------
(* The inductive invariant *)

\* `alone' says that calls have been let in one at a time so far: it is Exclusive
\* here, and follows from the state of the lock where the lock is modelled.

\* The guard is owned exactly while a call is past acquire, and by one task.
Guarded(alone) ==
    /\ \A t \in Tasks : t \in holders <=> call[t].pc \notin {"idle", "waiting"}
    /\ alone => \A t, u \in holders : t = u

\* A call that has loaded the log works on the file as it still is.
UpToDate(alone, t) ==
    /\ call[t].pc # "idle" => call[t].batch \in Batches
    /\ alone =>
          /\ call[t].pc \in {"scanning", "renaming"} =>
                /\ call[t].seen = disk
                /\ Legal(call[t].work)
                /\ IsPrefixOf(disk.log, call[t].work)
          /\ call[t].pc = "renaming" => call[t].base = disk
          /\ call[t].pc \in {"committed", "publishing"} => call[t].work = disk.log

\* With a lock that excludes, or with any.
Inv(alone) ==
    /\ TypeOK
    /\ Guarded(alone)
    /\ alone => LegalDisk
    /\ \A t \in Tasks : UpToDate(alone, t)

\* The inductive invariant.
IInv == Inv(Exclusive)

\* Only the acting task's call changes, and the file does not.
Touches(t, c) ==
    /\ call' = [call EXCEPT ![t] = c]
    /\ disk' = disk

\* Nothing has been asked of an idle task.
LEMMA IdleIsCall == IdleCall \in Call
<1>1. NoFile \in File
  BY DEF NoFile, File
<1>. QED
  BY <1>1, RepositoryAssumption DEF IdleCall, Call, AppendMode

\* The files of a new unit satisfy the invariant.
LEMMA InitInv ==
    ASSUME NEW alone \in BOOLEAN, Init
    PROVE  Inv(alone)
<1>1. NoFile \in File /\ Legal(<<>>)
  BY DEF NoFile, File, Legal
<1>2. IdleCall \in Call
  BY IdleIsCall
<1>3. TypeOK
  BY <1>1, <1>2 DEF Init, TypeOK
<1>4. Guarded(alone) /\ LegalDisk /\ \A t \in Tasks : UpToDate(alone, t)
  BY <1>1 DEF Init, IdleCall, Guarded, LegalDisk, UpToDate, NoFile
<1>. QED
  BY <1>3, <1>4 DEF Inv

\* A step that changes one call and leaves the file alone keeps the
\* invariant if it keeps it for that call.
LEMMA LocalStep ==
    ASSUME NEW alone \in BOOLEAN, Inv(alone), NEW t \in Tasks, NEW c \in Call,
           Touches(t, c), UpToDate(alone, t)',
           holders' \in SUBSET Tasks, cache' \in SUBSET Mark, Guarded(alone)'
    PROVE  Inv(alone)'
<1>1. TypeOK'
  BY DEF Inv, TypeOK, Touches
<1>2. alone => LegalDisk'
  BY DEF Inv, LegalDisk, Touches
<1>3. ASSUME NEW u \in Tasks
      PROVE  UpToDate(alone, u)'
  <2>1. CASE u = t
    BY <2>1
  <2>2. CASE u # t
    <3>1. call'[u] = call[u] /\ disk' = disk
      BY <2>2 DEF Touches, Inv, TypeOK
    <3>2. UpToDate(alone, u)
      BY DEF Inv
    <3>. QED
      BY <3>1, <3>2 DEF UpToDate
  <2>. QED
    BY <2>1, <2>2
<1>. QED
  BY <1>1, <1>2, <1>3 DEF Inv

\* A call that returns gives up its guard.
LEMMA ReturnStep ==
    ASSUME NEW alone \in BOOLEAN, Inv(alone), NEW t \in Tasks, Return(t),
           disk' = disk, cache' \in SUBSET Mark
    PROVE  Inv(alone)'
<1>1. IdleCall \in Call
  BY IdleIsCall
<1>2. Touches(t, IdleCall)
  BY DEF Touches, Return
<1>3. call'[t] = IdleCall /\ \A u \in Tasks : u # t => call'[u] = call[u]
  BY DEF Return, Inv, TypeOK
<1>4. UpToDate(alone, t)'
  BY <1>3 DEF UpToDate, IdleCall
<1>5. Guarded(alone)' /\ holders' \in SUBSET Tasks
  BY <1>3 DEF Guarded, Return, Inv, TypeOK, IdleCall
<1>. QED
  BY <1>1, <1>2, <1>4, <1>5, LocalStep

\* A step inside the critical section, or before it, that keeps the guard
\* where it is.
LEMMA KeepStep ==
    ASSUME NEW alone \in BOOLEAN, Inv(alone), NEW t \in Tasks, NEW c \in Call,
           Touches(t, c), UpToDate(alone, t)',
           cache' \in SUBSET Mark, holders' = holders,
           c.pc \in {"idle", "waiting"} <=> call[t].pc \in {"idle", "waiting"}
    PROVE  Inv(alone)'
<1>1. call'[t] = c /\ \A u \in Tasks : u # t => call'[u] = call[u]
  BY DEF Touches, Inv, TypeOK
<1>2. Guarded(alone)' /\ holders' \in SUBSET Tasks
  BY <1>1 DEF Guarded, Inv, TypeOK
<1>. QED
  BY <1>2, LocalStep

\* The proposal under consideration is a body.
LEMMA ProposalIsBody ==
    ASSUME NEW alone \in BOOLEAN, Inv(alone), NEW t \in Tasks, Scanning(t)
    PROVE  Proposal(t) \in EventBody
<1>1. call[t].batch \in Seq(EventBody) /\ call[t].next \in 1..Len(call[t].batch)
  BY RepositoryAssumption DEF Inv, TypeOK, Call, Scanning
<1>. QED
  BY <1>1 DEF Proposal

\* What a rename leaves is a file.
LEMMA CombinedIsFile ==
    ASSUME NEW alone \in BOOLEAN, Inv(alone), NEW t \in Tasks
    PROVE  Combined(t) \in File
<1>1. /\ call[t].seen \in File /\ call[t].base \in File
      /\ call[t].work \in Seq(Event) /\ call[t].seen.log \in Seq(Event)
      /\ call[t].base.log \in Seq(Event)
  BY DEF Inv, TypeOK, File, Call
<1>2. Accepted(call[t]) \in Seq(Event)
  BY <1>1 DEF Accepted
<1>. QED
  BY <1>1, <1>2 DEF Combined, File, Salts

\* Under the lock it is the working log of the call.
LEMMA CombinedIsWork ==
    ASSUME NEW alone \in BOOLEAN, alone, Inv(alone), NEW t \in Tasks, At(t, "renaming")
    PROVE  /\ Combined(t).log = call[t].work
           /\ IsPrefixOf(disk.log, Combined(t).log)
           /\ disk.salt \in {None, Combined(t).salt}
<1>1. /\ call[t].seen = disk
      /\ call[t].base = disk
      /\ IsPrefixOf(disk.log, call[t].work)
  BY DEF Inv, UpToDate, At
<1>2. disk.log \in Seq(Event) /\ call[t].work \in Seq(Event)
  BY DEF Inv, TypeOK, File, Call
<1>3. Combined(t).log = call[t].work
  BY <1>1, <1>2, OldThenAccepted DEF Combined, Accepted
<1>. QED
  BY <1>1, <1>3 DEF Combined

\* A rename is made by the only holder; the invariant of the others is empty.
LEMMA RenameStep ==
    ASSUME NEW alone \in BOOLEAN, Inv(alone), NEW t \in Tasks,
           At(t, "renaming"), disk' = Combined(t),
           \A u \in Tasks : u # t => call'[u] = call[u],
           TypeOK', Guarded(alone)', UpToDate(alone, t)'
    PROVE  Inv(alone)'
<1>1. alone => LegalDisk'
  BY CombinedIsWork DEF Inv, UpToDate, At, LegalDisk
<1>2. ASSUME NEW u \in Tasks, u # t
      PROVE  UpToDate(alone, u)'
  <2>1. call'[u] = call[u] /\ UpToDate(alone, u)
    BY <1>2 DEF Inv
  <2>2. CASE ~alone
    BY <2>1, <2>2 DEF UpToDate
  <2>3. CASE alone
    <3>1. t \in holders
      BY <2>3 DEF Inv, Guarded, At
    <3>2. u \notin holders
      BY <1>2, <2>3, <3>1 DEF Inv, Guarded
    <3>3. call[u].pc \in {"idle", "waiting"}
      BY <2>3, <3>2 DEF Inv, Guarded
    <3>. QED
      BY <2>1, <3>3 DEF UpToDate
  <2>. QED
    BY <2>2, <2>3
<1>. QED
  BY <1>1, <1>2 DEF Inv

\* A call starts: it owns nothing yet.
LEMMA StartInv ==
    ASSUME NEW alone \in BOOLEAN, Inv(alone), NEW t \in Tasks, Start(t)
    PROVE  Inv(alone)'
<1>1. PICK batch \in Batches, mode \in Modes, cached \in CacheUse :
         call' = [call EXCEPT ![t].pc = "waiting", ![t].batch = batch, ![t].mode = mode,
                              ![t].cached = cached]
  BY DEF Start
<1> DEFINE c == [call[t] EXCEPT !.pc = "waiting", !.batch = batch, !.mode = mode,
                                !.cached = cached]
<1>2. call[t] \in Call /\ call \in [Tasks -> Call] /\ cache \in SUBSET Mark
  BY DEF Inv, TypeOK
<1>3. c \in Call
  BY <1>2, RepositoryAssumption DEF Call
<1>4. call' = [call EXCEPT ![t] = c]
  BY <1>1, <1>2
<1>5. c.pc = "waiting" /\ call[t].pc = "idle"
  BY <1>2 DEF Start, At, Call
<1>6. call'[t].pc = "waiting" /\ call'[t].batch = batch
  BY <1>2, <1>4 DEF Call
<1>7. UpToDate(alone, t)'
  BY <1>6 DEF UpToDate
<1> HIDE DEF c
<1>8. Touches(t, c) /\ cache' \in SUBSET Mark /\ holders' = holders
  BY <1>2, <1>4 DEF Touches, Start
<1>. QED
  BY <1>3, <1>5, <1>7, <1>8, KeepStep

\* A call is let in; when calls work one at a time, nobody else is inside.
LEMMA AcquireInv ==
    ASSUME NEW alone \in BOOLEAN, Inv(alone), NEW t \in Tasks, Acquire(t),
           alone => holders = {}
    PROVE  Inv(alone)'
<1> DEFINE c == [call[t] EXCEPT !.pc = IF call[t].cached THEN "caching" ELSE "loading"]
<1>2. call[t] \in Call /\ call \in [Tasks -> Call] /\ cache \in SUBSET Mark
  BY DEF Inv, TypeOK
<1>3. c \in Call
  BY <1>2 DEF Call
<1>4. call' = [call EXCEPT ![t] = c]
  BY <1>2 DEF Acquire
<1>5. c.pc \in {"caching", "loading"} /\ call[t].pc = "waiting"
  BY <1>2 DEF Acquire, At, Call
<1>6. /\ call'[t].pc \in {"caching", "loading"}
      /\ call'[t].batch = call[t].batch
      /\ \A u \in Tasks : u # t => call'[u] = call[u]
  BY <1>2, <1>4 DEF Call
<1>7. UpToDate(alone, t)'
  BY <1>5, <1>6 DEF UpToDate, Inv
<1>8. Guarded(alone)' /\ holders' \in SUBSET Tasks
  BY <1>5, <1>6 DEF Guarded, Inv, Acquire, TypeOK
<1> HIDE DEF c
<1>9. Touches(t, c) /\ cache' \in SUBSET Mark
  BY <1>2, <1>4 DEF Touches, Acquire
<1>. QED
  BY <1>3, <1>7, <1>8, <1>9, LocalStep

\* The cache is read, whatever is found in it.
LEMMA ReadCacheInv ==
    ASSUME NEW alone \in BOOLEAN, Inv(alone), NEW t \in Tasks, ReadCache(t)
    PROVE  Inv(alone)'
<1>1. PICK found \in {cache, {}} :
         call' = [call EXCEPT ![t].pc = "loading", ![t].intent = found \cup {MarkOf(call[t])}]
  BY DEF ReadCache
<1> DEFINE c == [call[t] EXCEPT !.pc = "loading", !.intent = found \cup {MarkOf(call[t])}]
<1>2. /\ call[t] \in Call /\ call \in [Tasks -> Call]
      /\ cache \in SUBSET Mark /\ disk \in File
  BY DEF Inv, TypeOK
<1>3. call[t].pc = "caching" /\ call[t].batch \in Batches /\ UpToDate(alone, t)
  BY DEF ReadCache, At, Inv, UpToDate
<1>4. c \in Call
  <2>1. call[t].mode \in AppendMode
    BY <1>2 DEF Call
  <2>2. MarkOf(call[t]) \in Mark
    BY <1>3, <2>1 DEF Mark, MarkOf
  <2>3. found \cup {MarkOf(call[t])} \in SUBSET Mark
    BY <1>1, <1>2, <2>2
  <2>. QED
    BY <1>2, <2>3 DEF Call
<1>5. call' = [call EXCEPT ![t] = c] /\ disk' = disk
  BY <1>1, <1>2 DEF ReadCache
<1>6. c.pc = "loading" /\ c.batch = call[t].batch /\ call'[t] = c
  BY <1>2, <1>3, <1>5 DEF Call
<1>7. UpToDate(alone, t)'
  BY <1>3, <1>6 DEF UpToDate
<1> HIDE DEF c
<1>8. Touches(t, c) /\ cache' \in SUBSET Mark /\ holders' = holders
  BY <1>2, <1>5 DEF Touches, ReadCache
<1>. QED
  BY <1>3, <1>4, <1>6, <1>7, <1>8, KeepStep

\* The log is loaded: the working log is the file.
LEMMA LoadInv ==
    ASSUME NEW alone \in BOOLEAN, Inv(alone), NEW t \in Tasks, Load(t)
    PROVE  Inv(alone)'
<1> DEFINE c == [call[t] EXCEPT !.pc = "scanning", !.seen = disk, !.work = disk.log,
                                !.next = 1, !.refused = FALSE]
<1>2. /\ call[t] \in Call /\ call \in [Tasks -> Call]
      /\ cache \in SUBSET Mark /\ disk \in File
  BY DEF Inv, TypeOK
<1>3. call[t].pc = "loading" /\ call[t].batch \in Batches /\ UpToDate(alone, t)
  BY DEF Load, At, Inv, UpToDate
<1>4. c \in Call
  <2>1. disk.log \in Seq(Event)
    BY <1>2 DEF File
  <2> DEFINE d == [call[t] EXCEPT !.pc = "scanning", !.seen = disk, !.work = disk.log]
  <2>2. d \in Call
    BY <1>2, <2>1 DEF Call
  <2>3. c = [d EXCEPT !.next = 1, !.refused = FALSE]
    OBVIOUS
  <2> HIDE DEF d
  <2>4. ASSUME NEW n \in Nat \ {0}, NEW b \in BOOLEAN
        PROVE  [d EXCEPT !.next = n, !.refused = b] \in Call
    BY <2>2 DEF Call
  <2>5. [d EXCEPT !.next = 1, !.refused = FALSE] \in Call
    <3>1. 1 \in Nat \ {0} /\ FALSE \in BOOLEAN
      OBVIOUS
    <3>. QED
      BY <2>4, <3>1, Zenon
  <2> HIDE DEF c
  <2>. QED
    BY <2>3, <2>5, Zenon
<1>5. call' = [call EXCEPT ![t] = c] /\ disk' = disk
  BY <1>2 DEF Load
<1>6. c.pc = "scanning" /\ c.batch = call[t].batch /\ call'[t] = c
  BY <1>2, <1>3, <1>5 DEF Call
<1>7. UpToDate(alone, t)'
  <2>1. c.seen = disk /\ c.work = disk.log
    BY <1>2 DEF Call
  <2>2. IsPrefixOf(disk.log, disk.log) /\ (alone => Legal(disk.log))
    BY <1>2, PrefixOfSelf DEF File, Inv, LegalDisk
  <2>. QED
    BY <1>3, <1>5, <1>6, <2>1, <2>2 DEF UpToDate
<1> HIDE DEF c
<1>8. Touches(t, c) /\ cache' \in SUBSET Mark /\ holders' = holders
  BY <1>2, <1>5 DEF Touches, Load
<1>. QED
  BY <1>3, <1>4, <1>6, <1>7, <1>8, KeepStep

\* An accepted proposal extends a legal working log to a legal one.
LEMMA AcceptInv ==
    ASSUME NEW alone \in BOOLEAN, Inv(alone), NEW t \in Tasks, Accept(t)
    PROVE  Inv(alone)'
<1>1. PICK now \in Readings :
         call' = [call EXCEPT ![t].next = @ + 1,
                              ![t].work = Append(@, Stamped(@, Proposal(t), now))]
  BY DEF Accept
<1> DEFINE w == Append(call[t].work, Stamped(call[t].work, Proposal(t), now))
<1> DEFINE c == [call[t] EXCEPT !.next = @ + 1, !.work = w]
<1>2. /\ call[t] \in Call /\ call \in [Tasks -> Call]
      /\ cache \in SUBSET Mark /\ disk \in File
  BY DEF Inv, TypeOK
<1>3. call[t].pc = "scanning" /\ call[t].batch \in Batches /\ UpToDate(alone, t)
  BY DEF Accept, At, Scanning, Inv, UpToDate
<1>9. /\ call[t].work \in Seq(Event) /\ Proposal(t) \in EventBody /\ now \in 0..MaxTime
      /\ Stamped(call[t].work, Proposal(t), now) \in Event
      /\ w \in Seq(Event)
  <2>1. call[t].work \in Seq(Event)
    BY <1>2 DEF Call
  <2>2. now \in 0..MaxTime
    BY RepositoryAssumption
  <2>3. Proposal(t) \in EventBody
    BY ProposalIsBody DEF Accept
  <2>. QED
    BY <2>1, <2>2, <2>3, StampedIsEvent, AppendFacts
<1>4. c \in Call
  <2> HIDE DEF w
  <2>1. call[t].next + 1 \in Nat \ {0}
    BY <1>2 DEF Call
  <2>. QED
    BY <1>2, <1>9, <2>1 DEF Call
<1>5. call' = [call EXCEPT ![t] = c] /\ disk' = disk
  BY <1>1, <1>2 DEF Accept
<1>6. c.pc = "scanning" /\ c.batch = call[t].batch /\ call'[t] = c
  BY <1>2, <1>3, <1>5 DEF Call
<1>7. UpToDate(alone, t)'
  <2>1. c.seen = call[t].seen /\ c.work = w
    BY <1>2 DEF Call
  <2>2. alone => Legal(c.work)
    BY <1>3, <2>1, <1>9, LegalAppend DEF UpToDate, Accept, AdmissibleNow
  <2>3. alone => IsPrefixOf(disk.log, c.work)
    BY <1>2, <1>3, <1>9, <2>1, PrefixThenAppend DEF UpToDate, File
  <2>. QED
    BY <1>3, <1>5, <1>6, <2>1, <2>2, <2>3 DEF UpToDate
<1> HIDE DEF c
<1>8. Touches(t, c) /\ cache' \in SUBSET Mark /\ holders' = holders
  BY <1>2, <1>5 DEF Touches, Accept
<1>. QED
  BY <1>3, <1>4, <1>6, <1>7, <1>8, KeepStep

\* A rejected proposal leaves the working log as it is.
LEMMA RejectInv ==
    ASSUME NEW alone \in BOOLEAN, Inv(alone), NEW t \in Tasks, Reject(t)
    PROVE  Inv(alone)'
<1> DEFINE c == [call[t] EXCEPT !.next = @ + 1, !.refused = TRUE]
<1>2. /\ call[t] \in Call /\ call \in [Tasks -> Call]
      /\ cache \in SUBSET Mark /\ disk \in File
  BY DEF Inv, TypeOK
<1>3. call[t].pc = "scanning" /\ call[t].batch \in Batches /\ UpToDate(alone, t)
  BY DEF Reject, At, Scanning, Inv, UpToDate
<1>4. c \in Call
  <2>1. call[t].next + 1 \in Nat \ {0}
    BY <1>2 DEF Call
  <2>. QED
    BY <1>2, <2>1 DEF Call
<1>5. call' = [call EXCEPT ![t] = c] /\ disk' = disk
  BY <1>2 DEF Reject
<1>6. c.pc = "scanning" /\ c.batch = call[t].batch /\ call'[t] = c
  BY <1>2, <1>3, <1>5 DEF Call
<1>7. UpToDate(alone, t)'
  <2>1. c.seen = call[t].seen /\ c.work = call[t].work
    BY <1>2 DEF Call
  <2>. QED
    BY <1>3, <1>5, <1>6, <2>1 DEF UpToDate
<1> HIDE DEF c
<1>8. Touches(t, c) /\ cache' \in SUBSET Mark /\ holders' = holders
  BY <1>2, <1>5 DEF Touches, Reject
<1>. QED
  BY <1>3, <1>4, <1>6, <1>7, <1>8, KeepStep

\* The file read back is the file that was loaded.
LEMMA CompareInv ==
    ASSUME NEW alone \in BOOLEAN, Inv(alone), NEW t \in Tasks, Compare(t)
    PROVE  Inv(alone)'
<1> DEFINE c == [call[t] EXCEPT !.pc = "renaming", !.base = disk]
<1>2. /\ call[t] \in Call /\ call \in [Tasks -> Call]
      /\ cache \in SUBSET Mark /\ disk \in File
  BY DEF Inv, TypeOK
<1>3. call[t].pc = "scanning" /\ call[t].batch \in Batches /\ UpToDate(alone, t)
  BY DEF Compare, At, Scanned, Inv, UpToDate
<1>4. c \in Call
  BY <1>2 DEF Call
<1>5. call' = [call EXCEPT ![t] = c] /\ disk' = disk
  BY <1>2 DEF Compare
<1>6. c.pc = "renaming" /\ c.batch = call[t].batch /\ call'[t] = c
  BY <1>2, <1>3, <1>5 DEF Call
<1>7. UpToDate(alone, t)'
  <2>1. c.seen = call[t].seen /\ c.work = call[t].work /\ c.base = disk
    BY <1>2 DEF Call
  <2>. QED
    BY <1>3, <1>5, <1>6, <2>1 DEF UpToDate
<1> HIDE DEF c
<1>8. Touches(t, c) /\ cache' \in SUBSET Mark /\ holders' = holders
  BY <1>2, <1>5 DEF Touches, Compare
<1>. QED
  BY <1>3, <1>4, <1>6, <1>7, <1>8, KeepStep

\* The call loads the log again.
LEMMA RetryInv ==
    ASSUME NEW alone \in BOOLEAN, Inv(alone), NEW t \in Tasks, Retry(t)
    PROVE  Inv(alone)'
<1> DEFINE c == [call[t] EXCEPT !.pc = "loading", !.attempt = @ + 1]
<1>2. /\ call[t] \in Call /\ call \in [Tasks -> Call]
      /\ cache \in SUBSET Mark /\ disk \in File
  BY DEF Inv, TypeOK
<1>3. call[t].pc = "scanning" /\ call[t].batch \in Batches /\ UpToDate(alone, t)
  BY DEF Retry, At, Mismatch, Scanned, Inv, UpToDate
<1>4. c \in Call
  <2>1. call[t].attempt + 1 \in 0..(MaxRetries - 1)
    BY <1>2, RepositoryAssumption DEF Retry, Call
  <2>. QED
    BY <1>2, <2>1 DEF Call
<1>5. call' = [call EXCEPT ![t] = c] /\ disk' = disk
  BY <1>2 DEF Retry
<1>6. c.pc = "loading" /\ c.batch = call[t].batch /\ call'[t] = c
  BY <1>2, <1>3, <1>5 DEF Call
<1>7. UpToDate(alone, t)'
  BY <1>3, <1>6 DEF UpToDate
<1> HIDE DEF c
<1>8. Touches(t, c) /\ cache' \in SUBSET Mark /\ holders' = holders
  BY <1>2, <1>5 DEF Touches, Retry
<1>. QED
  BY <1>3, <1>4, <1>6, <1>7, <1>8, KeepStep

\* The cache is written, or the failure to write it logged.
LEMMA WriteCacheInv ==
    ASSUME NEW alone \in BOOLEAN, Inv(alone), NEW t \in Tasks, WriteCache(t)
    PROVE  Inv(alone)'
<1> DEFINE c == [call[t] EXCEPT !.pc = "publishing"]
<1>2. /\ call[t] \in Call /\ call \in [Tasks -> Call]
      /\ cache \in SUBSET Mark /\ disk \in File
  BY DEF Inv, TypeOK
<1>3. call[t].pc = "committed" /\ call[t].batch \in Batches /\ UpToDate(alone, t)
  BY DEF WriteCache, At, Inv, UpToDate
<1>4. c \in Call
  BY <1>2 DEF Call
<1>5. call' = [call EXCEPT ![t] = c] /\ disk' = disk
  BY <1>2 DEF WriteCache
<1>6. c.pc = "publishing" /\ c.batch = call[t].batch /\ call'[t] = c
  BY <1>2, <1>3, <1>5 DEF Call
<1>7. UpToDate(alone, t)'
  <2>1. c.work = call[t].work
    BY <1>2 DEF Call
  <2>. QED
    BY <1>3, <1>5, <1>6, <2>1 DEF UpToDate
<1> HIDE DEF c
<1>9. call[t].intent \in SUBSET Mark
  BY <1>2 DEF Call
<1>8. Touches(t, c) /\ cache' \in SUBSET Mark /\ holders' = holders
  BY <1>2, <1>5, <1>9 DEF Touches, WriteCache
<1>. QED
  BY <1>3, <1>4, <1>6, <1>7, <1>8, KeepStep

\* The rename: the working log becomes the file.
LEMMA RenameInv ==
    ASSUME NEW alone \in BOOLEAN, Inv(alone), NEW t \in Tasks, Rename(t)
    PROVE  Inv(alone)'
<1> DEFINE c == [call[t] EXCEPT !.pc = "committed"]
<1>1. /\ call[t] \in Call /\ call \in [Tasks -> Call]
      /\ cache \in SUBSET Mark /\ holders \in SUBSET Tasks
  BY DEF Inv, TypeOK
<1>2. /\ At(t, "renaming") /\ call[t].pc = "renaming"
      /\ call[t].batch \in Batches
      /\ disk' = Combined(t) /\ cache' = cache /\ holders' = holders
  BY DEF Rename, At, Inv, UpToDate
<1>3. c \in Call /\ call' = [call EXCEPT ![t] = c]
  BY <1>1 DEF Call, Rename
<1>4. c.pc = "committed" /\ c.batch = call[t].batch /\ c.work = call[t].work
  BY <1>1 DEF Call
<1>5. call'[t] = c /\ \A u \in Tasks : u # t => call'[u] = call[u]
  BY <1>1, <1>3
<1> HIDE DEF c
<1>6. UpToDate(alone, t)'
  BY <1>2, <1>4, <1>5, CombinedIsWork DEF UpToDate
<1>7. TypeOK'
  BY <1>1, <1>2, <1>3, CombinedIsFile DEF TypeOK
<1>8. Guarded(alone)'
  BY <1>2, <1>4, <1>5 DEF Guarded, Inv
<1>. QED
  BY <1>2, <1>5, <1>6, <1>7, <1>8, RenameStep

\* The rename whose directory sync fails: the file is replaced all the same.
LEMMA RenameUnsyncedInv ==
    ASSUME NEW alone \in BOOLEAN, Inv(alone), NEW t \in Tasks, RenameUnsynced(t)
    PROVE  Inv(alone)'
<1>1. /\ call \in [Tasks -> Call] /\ cache \in SUBSET Mark /\ holders \in SUBSET Tasks
  BY DEF Inv, TypeOK
<1>2. /\ At(t, "renaming") /\ call[t].pc = "renaming"
      /\ disk' = Combined(t) /\ cache' = cache
      /\ holders' = holders \ {t} /\ call' = [call EXCEPT ![t] = IdleCall]
  BY DEF RenameUnsynced, Return, At
<1>3. call'[t] = IdleCall /\ \A u \in Tasks : u # t => call'[u] = call[u]
  BY <1>1, <1>2
<1>4. IdleCall.pc = "idle"
  BY DEF IdleCall
<1>5. UpToDate(alone, t)'
  BY <1>3, <1>4 DEF UpToDate
<1>6. TypeOK'
  <2>1. IdleCall \in Call
    BY IdleIsCall
  <2>. QED
    BY <1>1, <1>2, <2>1, CombinedIsFile DEF TypeOK
<1>7. Guarded(alone)'
  BY <1>1, <1>2, <1>3, <1>4 DEF Guarded, Inv
<1>. QED
  BY <1>2, <1>3, <1>5, <1>6, <1>7, RenameStep

\* A step of one call.
CallStep(t) == Start(t) \/ Acquire(t) \/ LockFails(t) \/ Proceed(t) \/ Crash(t)

\* The steps of the repository are the steps of its calls.
LEMMA NextIsCallStep ==
    ASSUME [Next]_vars
    PROVE  UNCHANGED vars \/ \E t \in Tasks : CallStep(t)
  BY DEF Next, CallStep

\* Nothing changes: the invariant stays.
LEMMA StutterInv ==
    ASSUME NEW alone \in BOOLEAN, Inv(alone), UNCHANGED vars
    PROVE  Inv(alone)'
  BY DEF vars, Inv, TypeOK, Guarded, LegalDisk, UpToDate

\* Every step of a call keeps the invariant, if the lock lets calls in as
\* `alone' says.
LEMMA CallStepInv ==
    ASSUME NEW alone \in BOOLEAN, Inv(alone), NEW t \in Tasks, CallStep(t),
           Acquire(t) /\ alone => holders = {}
    PROVE  Inv(alone)'
<1>2. cache \in SUBSET Mark
  BY DEF Inv, TypeOK
<1>3. CASE Start(t)
  BY <1>3, StartInv
<1>4. CASE Acquire(t)
  BY <1>4, AcquireInv
<1>5. CASE LockFails(t)
  BY <1>2, <1>5, ReturnStep DEF LockFails
<1>6. CASE Proceed(t)
  <2>1. CASE ReadCache(t)
    BY <2>1, ReadCacheInv
  <2>2. CASE Load(t)
    BY <2>2, LoadInv
  <2>3. CASE SaltMismatch(t)
    BY <1>2, <2>3, ReturnStep DEF SaltMismatch
  <2>4. CASE Accept(t)
    BY <2>4, AcceptInv
  <2>5. CASE Reject(t)
    BY <2>5, RejectInv
  <2>6. CASE PreconditionFails(t)
    BY <1>2, <2>6, ReturnStep DEF PreconditionFails
  <2>7. CASE Roll(t)
    BY <1>2, <2>7, ReturnStep DEF Roll
  <2>8. CASE Compare(t)
    BY <2>8, CompareInv
  <2>9. CASE Retry(t)
    BY <2>9, RetryInv
  <2>10. CASE GiveUp(t)
    BY <1>2, <2>10, ReturnStep DEF GiveUp
  <2>11. CASE Rename(t)
    BY <2>11, RenameInv
  <2>12. CASE RenameUnsynced(t)
    BY <2>12, RenameUnsyncedInv
  <2>13. CASE WriteFails(t)
    BY <1>2, <2>13, ReturnStep DEF WriteFails
  <2>14. CASE WriteCache(t)
    BY <2>14, WriteCacheInv
  <2>15. CASE Publish(t)
    BY <1>2, <2>15, ReturnStep DEF Publishing, Publish
  <2>16. CASE ReadFails(t)
    BY <1>2, <2>16, ReturnStep DEF ReadFails
  <2>. QED
    BY <1>6, <2>1, <2>2, <2>3, <2>4, <2>5, <2>6, <2>7, <2>8, <2>9, <2>10, <2>11,
       <2>12, <2>13, <2>14, <2>15, <2>16 DEF Proceed
<1>7. CASE Crash(t)
  BY <1>2, <1>7, ReturnStep DEF Crash
<1>. QED
  BY <1>3, <1>4, <1>5, <1>6, <1>7 DEF CallStep

\* So does every step of the repository.
LEMMA StepInv ==
    ASSUME NEW alone \in BOOLEAN, Inv(alone), [Next]_vars,
           \A t \in Tasks : Acquire(t) /\ alone => holders = {}
    PROVE  Inv(alone)'
  BY NextIsCallStep, StutterInv, CallStepInv

\* The guarded repository lets calls in one at a time when it is Exclusive.
LEMMA IInvStep ==
    ASSUME IInv, [Next]_vars
    PROVE  IInv'
  BY RepositoryAssumption, StepInv DEF IInv, Acquire

\* The calls of a process that dies end together, and their guards go.
CallsEnd(T) ==
    /\ call' = [t \in Tasks |-> IF t \in T THEN IdleCall ELSE call[t]]
    /\ holders' = holders \ T
    /\ UNCHANGED <<disk, cache>>

\* The invariant does not mind.
LEMMA DeathInv ==
    ASSUME NEW alone \in BOOLEAN, Inv(alone), NEW T \in SUBSET Tasks, CallsEnd(T)
    PROVE  Inv(alone)'
<1>1. /\ \A u \in Tasks : call'[u] = IF u \in T THEN IdleCall ELSE call[u]
      /\ call' \in [Tasks -> Call]
      /\ holders' = holders \ T /\ disk' = disk /\ cache' = cache
  BY IdleIsCall DEF CallsEnd, Inv, TypeOK
<1>2. IdleCall.pc = "idle"
  BY DEF IdleCall
<1>3. TypeOK'
  BY <1>1 DEF Inv, TypeOK
<1>4. Guarded(alone)'
  <2>1. Guarded(alone) /\ holders \subseteq Tasks
    BY DEF Inv, TypeOK
  <2>. QED
    BY <1>1, <1>2, <2>1 DEF Guarded
<1>5. alone => LegalDisk'
  BY <1>1 DEF Inv, LegalDisk
<1>6. ASSUME NEW u \in Tasks
      PROVE  UpToDate(alone, u)'
  <2>1. CASE u \in T
    BY <1>1, <1>2, <2>1 DEF UpToDate
  <2>2. CASE u \notin T
    BY <1>1, <2>2 DEF UpToDate, Inv
  <2>. QED
    BY <2>1, <2>2
<1>. QED
  BY <1>3, <1>4, <1>5, <1>6 DEF Inv

\* Only a rename changes the file.
LEMMA OnlyRenamesWrite ==
    ASSUME NEW t \in Tasks, CallStep(t)
    PROVE  disk' = disk \/ (At(t, "renaming") /\ disk' = Combined(t))
  BY Zenon DEF CallStep, Start, Acquire, LockFails, Proceed, ReadCache, Load, SaltMismatch,
     Accept, Reject, PreconditionFails, Roll, Compare, ReadFails, Retry, GiveUp, Rename,
     RenameUnsynced, WriteFails, WriteCache, Publishing, Publish, Crash

\* What a call is about to report is on the file.
LEMMA InvReported ==
    ASSUME NEW alone \in BOOLEAN, alone, Inv(alone)
    PROVE  ReportedIsOnDisk
<1> SUFFICES ASSUME NEW t \in Tasks, call[t].pc \in {"committed", "publishing"}
             PROVE  IsPrefixOf(call[t].work, disk.log)
  BY DEF ReportedIsOnDisk
<1>1. disk.log \in Seq(Event) /\ call[t].work = disk.log
  BY DEF Inv, TypeOK, File, UpToDate
<1>. QED
  BY <1>1, PrefixOfSelf

-----------------------------------------------------------------------------
(* How far a call has got: this depends on the call alone, not on the lock *)

\* Where scanning stands.  What the working log adds to the loaded one comes
\* from the proposals looked at so far; if none was refused they are all
\* there, in order; and it is what in-memory append would have made of them.
Considered(c) ==
    /\ c.next \in 1..(Len(c.batch) + 1)
    /\ IsPrefixOf(c.seen.log, c.work)
    /\ \A i \in (Len(c.seen.log) + 1)..Len(c.work) :
          \E k \in 1..(c.next - 1) : c.work[i].body = c.batch[k]
    /\ ~c.refused =>
          /\ Len(c.work) = Len(c.seen.log) + c.next - 1
          /\ \A k \in 1..(c.next - 1) : c.work[Len(c.seen.log) + k].body = c.batch[k]
    /\ [log |-> c.work, refused |-> c.refused]
          \in Memory!After(c.seen.log, c.batch)[c.next - 1]

\* A batch that is about to be renamed, or has been, was considered to its end
\* and not rolled back.
Progress(c) ==
    /\ c.pc # "idle" => c.batch \in Batches /\ c.mode \in Modes
    /\ c.pc \in {"scanning", "renaming", "committed", "publishing"} => Considered(c)
    /\ c.pc \in {"renaming", "committed", "publishing"} =>
          c.next = Len(c.batch) + 1 /\ ~RollsBack(c)

\* Of every call.
AllProgress == \A t \in Tasks : Progress(call[t])

\* What in-memory append makes of a batch, one proposal at a time.  (The
\* recursive definition has a value because each of its finite beginnings has.)
LEMMA AfterIs ==
    ASSUME NEW log, NEW batch \in Seq(EventBody)
    PROVE  /\ Memory!After(log, batch)[0] = {[log |-> log, refused |-> FALSE]}
           /\ \A n \in 1..Len(batch) :
                 Memory!After(log, batch)[n] =
                    UNION {Memory!Judge(w, batch[n]) : w \in Memory!After(log, batch)[n - 1]}
<1> DEFINE N == Len(batch)
           G(f, n) == IF n = 0 THEN {[log |-> log, refused |-> FALSE]}
                      ELSE UNION {Memory!Judge(w, batch[n]) : w \in f[n - 1]}
           Is(f, m) == f = [n \in 0..m |-> G(f, n)]
<1>0. N \in Nat
  OBVIOUS
<1>1. Is([n \in 0..0 |-> G(<<>>, 0)], 0)
  BY DEF Is
<1>2. ASSUME NEW m \in Nat, \E f : Is(f, m)
      PROVE  \E f : Is(f, m + 1)
  <2>1. PICK f : Is(f, m)
    BY <1>2
  <2> DEFINE g == [n \in 0..(m + 1) |-> IF n = m + 1 THEN G(f, n) ELSE f[n]]
  <2>2. ASSUME NEW n \in 0..(m + 1)
        PROVE  g[n] = G(g, n)
    <3>1. CASE n = 0
      BY <2>1, <3>1
    <3>2. CASE n # 0
      <4>1. n - 1 \in 0..m /\ g[n - 1] = f[n - 1]
        BY <3>2
      <4>2. G(g, n) = G(f, n)
        BY <3>2, <4>1
      <4>3. n # m + 1 => f[n] = G(f, n)
        <5>1. n # m + 1 => n \in 0..m
          OBVIOUS
        <5> HIDE DEF G
        <5>. QED
          BY <2>1, <5>1
      <4>. QED
        BY <4>2, <4>3
    <3>. QED
      BY <3>1, <3>2
  <2>3. Is(g, m + 1)
    BY <2>2
  <2>. QED
    BY <2>3
<1> DEFINE Bad == {m \in Nat : ~ \E f : Is(f, m)}
<1>3. Bad = {}
  <2> SUFFICES ASSUME Bad # {} PROVE FALSE
    OBVIOUS
  <2>1. PICK m \in Bad : \A k \in Bad : m <= k
    <3> HIDE DEF Is
    <3>. QED
      BY EarliestExists
  <2>2. m # 0
    <3> HIDE DEF Is
    <3>. QED
      BY <1>1
  <2>3. m - 1 \in Nat /\ m - 1 \notin Bad
    BY <2>1, <2>2
  <2> HIDE DEF Is
  <2>4. \E f : Is(f, (m - 1) + 1)
    BY <2>3, <1>2
  <2>. QED
    BY <2>4, <2>1
<1>4. \E f : Is(f, N)
  <2> HIDE DEF Is
  <2>. QED
    BY <1>3, <1>0
<1>5. Memory!After(log, batch) = CHOOSE f : Is(f, N)
  BY DEF Memory!After
<1>6. Is(Memory!After(log, batch), N)
  <2> HIDE DEF Is
  <2>. QED
    BY <1>4, <1>5
<1> DEFINE A == Memory!After(log, batch)
<1>7. A = [n \in 0..N |-> G(A, n)]
  BY <1>6
<1>8. ASSUME NEW n \in 0..N
      PROVE  A[n] = G(A, n)
  <2> HIDE DEF G, A
  <2>. QED
    BY <1>7
<1>9. A[0] = {[log |-> log, refused |-> FALSE]}
  <2>1. A[0] = G(A, 0)
    <3> HIDE DEF G, A
    <3>. QED
      BY <1>8, <1>0
  <2> HIDE DEF A
  <2>2. G(A, 0) = {[log |-> log, refused |-> FALSE]}
    OBVIOUS
  <2> HIDE DEF G
  <2>. QED
    BY <2>1, <2>2
<1>10. ASSUME NEW n \in 1..N
       PROVE  A[n] = UNION {Memory!Judge(w, batch[n]) : w \in A[n - 1]}
  <2>1. A[n] = G(A, n)
    <3> HIDE DEF G, A
    <3>. QED
      BY <1>8, <1>0
  <2> HIDE DEF A
  <2>2. G(A, n) = UNION {Memory!Judge(w, batch[n]) : w \in A[n - 1]}
    OBVIOUS
  <2> HIDE DEF G
  <2>. QED
    BY <2>1, <2>2
<1>. QED
  BY <1>9, <1>10

\* In-memory append judges and stamps by the same rules.
LEMMA SameRules ==
    ASSUME NEW l, NEW b
    PROVE  /\ Memory!Admissible(l, b) <=> Admissible(l, b)
           /\ \A now : Memory!Stamped(l, b, now) = Stamped(l, b, now)
<1>1. Memory!Admissible(l, b) <=> Admissible(l, b)
  BY DEF OfKind, Superseded, Effective, EffectiveOf, Latest, Earliest,
     CurrentStatus, Resolutions, PhasesResolved, ScopeOfLog, ShippedMilestones,
     Implementation, CanCreateUnit, CanCompletePhase, CanSkipPhase, CanShip,
     CanRevert, CanVerify, CanRecordGate, RequiredPhasesResolved, CanTransition,
     CanFailReconcile, CanRecover, CanSupersede, CanCompleteSubagent,
     CanFailToolCall, CanSwitchModel, CanApprove, AcceptsKind, Precondition,
     Fingerprint, Fingerprints, IsDuplicate, Admissible, Memory!OfKind,
     Memory!Superseded, Memory!Effective, Memory!EffectiveOf, Memory!Latest,
     Memory!Earliest, Memory!CurrentStatus, Memory!Resolutions,
     Memory!PhasesResolved, Memory!ScopeOfLog, Memory!ShippedMilestones,
     Memory!Implementation, Memory!CanCreateUnit, Memory!CanCompletePhase,
     Memory!CanSkipPhase, Memory!CanShip, Memory!CanRevert, Memory!CanVerify,
     Memory!CanRecordGate, Memory!RequiredPhasesResolved, Memory!CanTransition,
     Memory!CanFailReconcile, Memory!CanRecover, Memory!CanSupersede,
     Memory!CanCompleteSubagent, Memory!CanFailToolCall, Memory!CanSwitchModel,
     Memory!CanApprove, Memory!AcceptsKind, Memory!Precondition, Memory!Fingerprint,
     Memory!Fingerprints, Memory!IsDuplicate, Memory!Admissible
<1>2. \A now : Memory!Stamped(l, b, now) = Stamped(l, b, now)
  BY DEF StampMonotonic, Stamped, Memory!StampMonotonic, Memory!Stamped
<1>. QED
  BY <1>1, <1>2

\* One proposal against a working log.
LEMMA JudgeFacts ==
    ASSUME NEW l, NEW r, NEW b
    PROVE  /\ Admissible(l, b) =>
                \A now \in Readings :
                   [log |-> Append(l, Stamped(l, b, now)), refused |-> r]
                      \in Memory!Judge([log |-> l, refused |-> r], b)
           /\ ~Admissible(l, b) =>
                [log |-> l, refused |-> TRUE] \in Memory!Judge([log |-> l, refused |-> r], b)
<1> DEFINE w == [log |-> l, refused |-> r]
<1>1. w.log = l
  OBVIOUS
<1>2. ASSUME NEW x
      PROVE  [w EXCEPT !.log = x] = [log |-> x, refused |-> r]
  OBVIOUS
<1>3. ASSUME NEW x
      PROVE  [w EXCEPT !.refused = x] = [log |-> l, refused |-> x]
  OBVIOUS
<1> HIDE DEF w
<1>4. ASSUME Admissible(l, b), NEW now \in Readings
      PROVE  [log |-> Append(l, Stamped(l, b, now)), refused |-> r] \in Memory!Judge(w, b)
  <2>1. [w EXCEPT !.log = Append(w.log, Memory!Stamped(w.log, b, now))] \in Memory!Judge(w, b)
    BY <1>1, <1>4, SameRules DEF Memory!Judge
  <2>2. Memory!Stamped(w.log, b, now) = Stamped(l, b, now)
    BY <1>1, SameRules
  <2>3. [w EXCEPT !.log = Append(w.log, Memory!Stamped(w.log, b, now))]
           = [log |-> Append(l, Stamped(l, b, now)), refused |-> r]
    BY <1>1, <1>2, <2>2
  <2>. QED
    BY <2>1, <2>3
<1>5. ASSUME ~Admissible(l, b)
      PROVE  [log |-> l, refused |-> TRUE] \in Memory!Judge(w, b)
  <2>1. [w EXCEPT !.refused = TRUE] \in Memory!Judge(w, b)
    BY <1>1, <1>5, SameRules DEF Memory!Judge
  <2>. QED
    BY <1>3, <2>1, Zenon
<1>. QED
  BY <1>4, <1>5 DEF w

\* An event is added for the next proposal.
LEMMA ConsiderAccepted ==
    ASSUME NEW c \in Call, NEW d, c.batch \in Seq(EventBody), Considered(c),
           c.next <= Len(c.batch), Admissible(c.work, c.batch[c.next]),
           NEW now \in Readings,
           d.seen = c.seen, d.batch = c.batch, d.refused = c.refused, d.next = c.next + 1,
           d.work = Append(c.work, Stamped(c.work, c.batch[c.next], now))
    PROVE  Considered(d)
<1> DEFINE b == c.batch[c.next]
           e == Stamped(c.work, b, now)
           L == Len(c.seen.log)
           n == c.next
<1>1. /\ c.seen \in File /\ c.seen.log \in Seq(Event) /\ c.work \in Seq(Event)
      /\ n \in 1..Len(c.batch) /\ L \in Nat
      /\ Len(c.work) \in Nat /\ Len(c.batch) \in Nat
  BY DEF Call, File, Considered
<1>2. b \in EventBody /\ e \in Event /\ e.body = b
  BY <1>1, RepositoryAssumption, StampedIsEvent DEF Stamped
<1>3. /\ d.work \in Seq(Event)
      /\ Len(d.work) = Len(c.work) + 1
      /\ \A i \in 1..Len(c.work) : d.work[i] = c.work[i]
      /\ d.work[Len(c.work) + 1] = e
  BY <1>1, <1>2, AppendFacts
<1>4. IsPrefixOf(d.seen.log, d.work) /\ L <= Len(c.work)
  BY <1>1, <1>2, PrefixThenAppend DEF Considered, IsPrefixOf
<1>5. ASSUME NEW i \in (L + 1)..Len(d.work)
      PROVE  \E k \in 1..n : d.work[i].body = c.batch[k]
  <2>1. CASE i = Len(c.work) + 1
    <3>1. n \in 1..n /\ d.work[i].body = c.batch[n]
      BY <1>1, <1>2, <1>3, <2>1
    <3>. QED
      BY <3>1
  <2>2. CASE i # Len(c.work) + 1
    <3>1. i \in (L + 1)..Len(c.work) /\ i \in 1..Len(c.work)
      BY <1>1, <1>3, <2>2
    <3>2. PICK k \in 1..(n - 1) : c.work[i].body = c.batch[k]
      BY <3>1 DEF Considered
    <3>. QED
      BY <1>1, <1>3, <3>1, <3>2
  <2>. QED
    BY <2>1, <2>2
<1>6. ASSUME ~d.refused
      PROVE  /\ Len(d.work) = L + n
             /\ \A k \in 1..n : d.work[L + k].body = c.batch[k]
  <2>1. /\ Len(c.work) = L + n - 1
        /\ \A k \in 1..(n - 1) : c.work[L + k].body = c.batch[k]
    BY <1>6 DEF Considered
  <2>3. n \in Nat /\ n >= 1 /\ c.batch[n] = b
    BY <1>1
  <2> HIDE DEF n, L, b, e
  <2>2. ASSUME NEW k \in 1..n
        PROVE  d.work[L + k].body = c.batch[k]
    <3>1. CASE k = n
      BY <1>1, <1>2, <1>3, <2>1, <2>3, <3>1
    <3>2. CASE k # n
      <4>1. k \in 1..(n - 1) /\ L + k \in 1..Len(c.work)
        BY <1>1, <2>1, <2>3, <3>2
      <4>. QED
        BY <1>3, <2>1, <4>1
    <3>. QED
      BY <3>1, <3>2
  <2>. QED
    <3>1. Len(d.work) = L + n
      BY <1>1, <1>3, <2>1, <2>3
    <3>. QED
      BY <2>2, <3>1
<1>7. [log |-> d.work, refused |-> d.refused] \in Memory!After(c.seen.log, c.batch)[n]
  <2> DEFINE w == [log |-> c.work, refused |-> c.refused]
  <2>1. w \in Memory!After(c.seen.log, c.batch)[n - 1]
    BY DEF Considered
  <2>2. Memory!After(c.seen.log, c.batch)[n] =
          UNION {Memory!Judge(v, c.batch[n]) : v \in Memory!After(c.seen.log, c.batch)[n - 1]}
    BY <1>1, AfterIs
  <2>4. [log |-> d.work, refused |-> d.refused] \in Memory!Judge(w, c.batch[n])
    BY JudgeFacts, Zenon
  <2> HIDE DEF w
  <2>. QED
    BY <2>1, <2>2, <2>4
<1>8. d.next \in 1..(Len(d.batch) + 1) /\ d.next - 1 = n
  BY <1>1
<1>. QED
  <2> HIDE DEF b, e
  <2>1. Len(d.work) = L + n => Len(d.work) = L + d.next - 1
    BY <1>1
  <2>2. ~d.refused =>
          /\ Len(d.work) = Len(d.seen.log) + d.next - 1
          /\ \A k \in 1..(d.next - 1) : d.work[Len(d.seen.log) + k].body = d.batch[k]
    BY <1>6, <1>8, <2>1
  <2>3. \A i \in (Len(d.seen.log) + 1)..Len(d.work) :
           \E k \in 1..(d.next - 1) : d.work[i].body = d.batch[k]
    BY <1>5, <1>8
  <2>4. [log |-> d.work, refused |-> d.refused]
           \in Memory!After(d.seen.log, d.batch)[d.next - 1]
    BY <1>7, <1>8
  <2>. QED
    BY <1>4, <1>8, <2>2, <2>3, <2>4, Zenon DEF Considered

\* The next proposal is passed over.
LEMMA ConsiderRejected ==
    ASSUME NEW c \in Call, NEW d, c.batch \in Seq(EventBody), Considered(c),
           c.next <= Len(c.batch), ~Admissible(c.work, c.batch[c.next]),
           d.seen = c.seen, d.batch = c.batch, d.refused = TRUE, d.next = c.next + 1,
           d.work = c.work
    PROVE  Considered(d)
<1> DEFINE n == c.next
           w == [log |-> c.work, refused |-> c.refused]
<1>1. n \in 1..Len(c.batch) /\ d.next \in 1..(Len(d.batch) + 1) /\ d.next - 1 = n
  BY DEF Call, Considered
<1>2. ASSUME NEW i \in (Len(d.seen.log) + 1)..Len(d.work)
      PROVE  \E k \in 1..n : d.work[i].body = c.batch[k]
  <2>1. PICK k \in 1..(n - 1) : c.work[i].body = c.batch[k]
    BY <1>2 DEF Considered
  <2>2. k \in 1..n
    BY <1>1, <2>1
  <2>. QED
    BY <2>1, <2>2
<1>3. [log |-> d.work, refused |-> d.refused] \in Memory!After(c.seen.log, c.batch)[n]
  <2>1. w \in Memory!After(c.seen.log, c.batch)[n - 1]
    BY DEF Considered
  <2>2. Memory!After(c.seen.log, c.batch)[n] =
          UNION {Memory!Judge(v, c.batch[n]) : v \in Memory!After(c.seen.log, c.batch)[n - 1]}
    BY <1>1, AfterIs
  <2>5. [log |-> d.work, refused |-> d.refused] \in Memory!Judge(w, c.batch[n])
    BY JudgeFacts, Zenon
  <2> HIDE DEF w
  <2>. QED
    BY <2>1, <2>2, <2>5
<1>. QED
  BY <1>1, <1>2, <1>3 DEF Considered

\* A step of one call that leaves it where Progress says.
LEMMA ProgressLocal ==
    ASSUME TypeOK, AllProgress, NEW t \in Tasks, NEW c, call' = [call EXCEPT ![t] = c],
           Progress(c)
    PROVE  AllProgress'
  BY DEF AllProgress, TypeOK

\* A call that returns is idle.
LEMMA ProgressReturn ==
    ASSUME TypeOK, AllProgress, NEW t \in Tasks, Return(t)
    PROVE  AllProgress'
<1>1. Progress(IdleCall)
  BY DEF Progress, IdleCall
<1>. QED
  BY <1>1, ProgressLocal DEF Return

\* What scanning has established holds of a call whose other fields change.
LEMMA ConsideredKept ==
    ASSUME NEW c, NEW d, Considered(c), d.next = c.next, d.batch = c.batch, d.work = c.work,
           d.seen = c.seen, d.refused = c.refused
    PROVE  Considered(d)
  BY Zenon DEF Considered

\* An attempt starts from the log as loaded.
LEMMA ProgressLoad ==
    ASSUME TypeOK, AllProgress, NEW t \in Tasks, Load(t)
    PROVE  AllProgress'
<1> DEFINE c == [call[t] EXCEPT !.pc = "scanning", !.seen = disk, !.work = disk.log,
                                !.next = 1, !.refused = FALSE]
<1>1. call[t] \in Call /\ call \in [Tasks -> Call] /\ disk.log \in Seq(Event)
  BY DEF TypeOK, File
<1>2. call' = [call EXCEPT ![t] = c]
  BY <1>1 DEF Load
<1>3. /\ c.pc = "scanning" /\ c.batch = call[t].batch /\ c.mode = call[t].mode
      /\ c.seen = disk /\ c.work = disk.log /\ c.next = 1
  BY <1>1 DEF Call
<1>4. c.refused = FALSE
  BY <1>1, Zenon DEF Call
<1> HIDE DEF c
<1>5. c.batch \in Batches /\ c.mode \in Modes
  BY <1>3 DEF AllProgress, Progress, Load, At
<1>6. c.batch \in Seq(EventBody) /\ Len(c.batch) \in Nat
  BY <1>5, RepositoryAssumption
<1>7. [log |-> c.work, refused |-> c.refused] \in Memory!After(c.seen.log, c.batch)[c.next - 1]
  <2>1. c.next - 1 = 0
    BY <1>3
  <2>2. [log |-> c.work, refused |-> c.refused] = [log |-> disk.log, refused |-> FALSE]
    BY <1>3, <1>4, Zenon
  <2>3. Memory!After(c.seen.log, c.batch)[0] = {[log |-> disk.log, refused |-> FALSE]}
    BY <1>3, <1>6, AfterIs
  <2>. QED
    BY <2>1, <2>2, <2>3, Zenon
<1>8. Considered(c)
  BY <1>1, <1>3, <1>6, <1>7, PrefixOfSelf DEF Considered
<1>. QED
  BY <1>2, <1>3, <1>5, <1>8, ProgressLocal DEF Progress

\* One more proposal is accepted.
LEMMA ProgressAccept ==
    ASSUME TypeOK, AllProgress, NEW t \in Tasks, Accept(t)
    PROVE  AllProgress'
<1>1. PICK now \in Readings :
         call' = [call EXCEPT ![t].next = @ + 1,
                              ![t].work = Append(@, Stamped(@, Proposal(t), now))]
  BY DEF Accept
<1> DEFINE w == Append(call[t].work, Stamped(call[t].work, Proposal(t), now))
           c == [call[t] EXCEPT !.next = @ + 1, !.work = w]
<1>2. call[t] \in Call /\ call \in [Tasks -> Call]
  BY DEF TypeOK
<1>3. call' = [call EXCEPT ![t] = c]
  BY <1>1, <1>2
<1>4. /\ c.pc = call[t].pc /\ c.batch = call[t].batch /\ c.mode = call[t].mode
      /\ c.seen = call[t].seen /\ c.next = call[t].next + 1 /\ c.work = w
  BY <1>2 DEF Call
<1>5. c.refused = call[t].refused
  BY <1>2, Zenon DEF Call
<1> HIDE DEF c
<1>6. /\ call[t].pc = "scanning" /\ Considered(call[t])
      /\ call[t].batch \in Batches /\ call[t].mode \in Modes
      /\ call[t].next <= Len(call[t].batch)
      /\ Admissible(call[t].work, call[t].batch[call[t].next])
  BY DEF Accept, Scanning, At, AllProgress, Progress, AdmissibleNow, Proposal
<1>7. call[t].batch \in Seq(EventBody)
  BY <1>6, RepositoryAssumption
<1>8. Considered(c)
  BY <1>2, <1>4, <1>5, <1>6, <1>7, ConsiderAccepted DEF Proposal
<1>. QED
  BY <1>3, <1>4, <1>6, <1>8, ProgressLocal DEF Progress

\* One more proposal is passed over.
LEMMA ProgressReject ==
    ASSUME TypeOK, AllProgress, NEW t \in Tasks, Reject(t)
    PROVE  AllProgress'
<1> DEFINE c == [call[t] EXCEPT !.next = @ + 1, !.refused = TRUE]
<1>2. call[t] \in Call /\ call \in [Tasks -> Call]
  BY DEF TypeOK
<1>3. call' = [call EXCEPT ![t] = c]
  BY <1>2 DEF Reject
<1>4. /\ c.pc = call[t].pc /\ c.batch = call[t].batch /\ c.mode = call[t].mode
      /\ c.seen = call[t].seen /\ c.next = call[t].next + 1 /\ c.work = call[t].work
  BY <1>2 DEF Call
<1>5. c.refused = TRUE
  BY <1>2, Zenon DEF Call
<1> HIDE DEF c
<1>6. /\ call[t].pc = "scanning" /\ Considered(call[t])
      /\ call[t].batch \in Batches /\ call[t].mode \in Modes
      /\ call[t].next <= Len(call[t].batch)
      /\ ~Admissible(call[t].work, call[t].batch[call[t].next])
  BY DEF Reject, Scanning, At, AllProgress, Progress, AdmissibleNow, Proposal
<1>7. call[t].batch \in Seq(EventBody)
  BY <1>6, RepositoryAssumption
<1>8. Considered(c)
  BY <1>2, <1>4, <1>5, <1>6, <1>7, ConsiderRejected
<1>. QED
  BY <1>3, <1>4, <1>6, <1>8, ProgressLocal DEF Progress

\* A batch that was considered to its end and not rolled back is renamed.
LEMMA ProgressCompare ==
    ASSUME TypeOK, AllProgress, NEW t \in Tasks, Compare(t)
    PROVE  AllProgress'
<1> DEFINE c == [call[t] EXCEPT !.pc = "renaming", !.base = disk]
<1>2. call[t] \in Call /\ call \in [Tasks -> Call]
  BY DEF TypeOK
<1>3. call' = [call EXCEPT ![t] = c]
  BY <1>2 DEF Compare
<1>4. /\ c.pc = "renaming" /\ c.batch = call[t].batch /\ c.mode = call[t].mode
      /\ c.seen = call[t].seen /\ c.next = call[t].next /\ c.work = call[t].work
  BY <1>2 DEF Call
<1>5. c.refused = call[t].refused
  BY <1>2, Zenon DEF Call
<1> HIDE DEF c
<1>6. /\ call[t].pc = "scanning" /\ Considered(call[t])
      /\ call[t].batch \in Batches /\ call[t].mode \in Modes
      /\ call[t].next > Len(call[t].batch) /\ ~RollsBack(call[t])
  BY DEF Compare, Scanned, At, AllProgress, Progress
<1>7. c.next = Len(c.batch) + 1
  <2>1. call[t].next \in 1..(Len(call[t].batch) + 1)
    BY <1>6 DEF Considered
  <2>2. Len(call[t].batch) \in Nat
    BY <1>6, RepositoryAssumption
  <2>. QED
    BY <1>4, <1>6, <2>1, <2>2
<1>8. Considered(c)
  BY <1>4, <1>5, <1>6, ConsideredKept
<1>9. ~RollsBack(c)
  BY <1>4, <1>5, <1>6, Zenon DEF RollsBack
<1>. QED
  BY <1>3, <1>4, <1>6, <1>7, <1>8, <1>9, ProgressLocal DEF Progress

\* A call that goes from one point past the rename to the next.
LEMMA ProgressMove ==
    ASSUME TypeOK, AllProgress, NEW t \in Tasks, NEW pc \in {"committed", "publishing"},
           call[t].pc \in {"renaming", "committed"},
           call' = [call EXCEPT ![t].pc = pc]
    PROVE  AllProgress'
<1> DEFINE c == [call[t] EXCEPT !.pc = pc]
<1>2. call[t] \in Call /\ call \in [Tasks -> Call]
  BY DEF TypeOK
<1>3. call' = [call EXCEPT ![t] = c]
  BY <1>2
<1>4. /\ c.pc = pc /\ c.batch = call[t].batch /\ c.mode = call[t].mode
      /\ c.seen = call[t].seen /\ c.next = call[t].next /\ c.work = call[t].work
  BY <1>2 DEF Call
<1>5. c.refused = call[t].refused
  BY <1>2, Zenon DEF Call
<1> HIDE DEF c
<1>6. /\ Considered(call[t]) /\ call[t].batch \in Batches /\ call[t].mode \in Modes
      /\ call[t].next = Len(call[t].batch) + 1 /\ ~RollsBack(call[t])
  BY DEF AllProgress, Progress
<1>8. Considered(c)
  BY <1>4, <1>5, <1>6, ConsideredKept
<1>9. ~RollsBack(c)
  BY <1>4, <1>5, <1>6, Zenon DEF RollsBack
<1>10. Progress(c)
  BY <1>4, <1>6, <1>8, <1>9 DEF Progress
<1>. QED
  BY <1>3, <1>10, ProgressLocal

\* A call that has loaded nothing yet, or loads again.
LEMMA ProgressBefore ==
    ASSUME TypeOK, AllProgress, NEW t \in Tasks,
           Start(t) \/ Acquire(t) \/ ReadCache(t) \/ Retry(t)
    PROVE  AllProgress'
<1>1. call \in [Tasks -> Call] /\ call[t] \in Call
  BY DEF TypeOK
<1>2. \A u \in Tasks : u # t => call'[u] = call[u]
  BY <1>1 DEF Start, Acquire, ReadCache, Retry
<1>3. call'[t].pc \in {"waiting", "caching", "loading"}
  <2>1. CASE Start(t)
    <3>1. PICK batch \in Batches, mode \in Modes, cached \in CacheUse :
             call' = [call EXCEPT ![t].pc = "waiting", ![t].batch = batch, ![t].mode = mode,
                                  ![t].cached = cached]
      BY <2>1 DEF Start
    <3>. QED
      BY <1>1, <3>1 DEF Call
  <2>2. CASE Acquire(t)
    BY <1>1, <2>2 DEF Acquire, Call
  <2>3. CASE ReadCache(t) \/ Retry(t)
    BY <1>1, <2>3 DEF ReadCache, Retry, Call
  <2>. QED
    BY <2>1, <2>2, <2>3
<1>4. call'[t].batch \in Batches /\ call'[t].mode \in Modes
  <2>1. CASE Start(t)
    <3>1. PICK batch \in Batches, mode \in Modes, cached \in CacheUse :
             call' = [call EXCEPT ![t].pc = "waiting", ![t].batch = batch, ![t].mode = mode,
                                  ![t].cached = cached]
      BY <2>1 DEF Start
    <3>. QED
      BY <1>1, <3>1 DEF Call
  <2>2. CASE ~Start(t)
    <3>1. call'[t].batch = call[t].batch /\ call'[t].mode = call[t].mode
      BY <1>1, <2>2 DEF Acquire, ReadCache, Retry, Call
    <3>2. call[t].pc # "idle"
      BY <2>2 DEF Acquire, ReadCache, Retry, Mismatch, Scanned, At
    <3>. QED
      BY <3>1, <3>2 DEF AllProgress, Progress
  <2>. QED
    BY <2>1, <2>2
<1>. QED
  BY <1>2, <1>3, <1>4 DEF AllProgress, Progress

\* Every step of a call keeps Progress, whatever the lock admits.
LEMMA ProgressStep ==
    ASSUME TypeOK, AllProgress, NEW t \in Tasks, CallStep(t)
    PROVE  AllProgress'
<1>1. CASE Start(t) \/ Acquire(t) \/ ReadCache(t) \/ Retry(t)
  BY <1>1, ProgressBefore
<1>2. CASE Return(t)
  BY <1>2, ProgressReturn
<1>3. CASE Load(t)
  BY <1>3, ProgressLoad
<1>4. CASE Accept(t)
  BY <1>4, ProgressAccept
<1>5. CASE Reject(t)
  BY <1>5, ProgressReject
<1>6. CASE Compare(t)
  BY <1>6, ProgressCompare
<1>7. CASE Rename(t)
  BY <1>7, ProgressMove DEF Rename, At
<1>8. CASE WriteCache(t)
  BY <1>8, ProgressMove DEF WriteCache, At
<1>. QED
  BY <1>1, <1>2, <1>3, <1>4, <1>5, <1>6, <1>7, <1>8 DEF CallStep, Proceed, LockFails,
     SaltMismatch, PreconditionFails, Roll, ReadFails, GiveUp, RenameUnsynced, WriteFails,
     Publish, Crash

-----------------------------------------------------------------------------
(* What a commit adds *)

\* A batch that is committed leaves a subset of its proposals, and all of them,
\* one event each, if the mode is AllOrNothing.
LEMMA AddedByRename ==
    ASSUME TypeOK, AllProgress, NEW t \in Tasks,
           call[t].pc \in {"renaming", "committed", "publishing"}
    PROVE  LET c == call[t]
               l == Len(c.seen.log)
           IN  /\ \A i \in (l + 1)..Len(c.work) :
                     \E k \in DOMAIN c.batch : c.work[i].body = c.batch[k]
               /\ c.mode = "AllOrNothing" =>
                     /\ Len(c.work) = l + Len(c.batch)
                     /\ \A k \in DOMAIN c.batch : c.work[l + k].body = c.batch[k]
<1> DEFINE c == call[t]
           l == Len(c.seen.log)
<1>1. /\ Considered(c) /\ c.next = Len(c.batch) + 1 /\ ~RollsBack(c)
      /\ c.batch \in Batches
  BY DEF AllProgress, Progress
<1>2. c.batch \in Seq(EventBody) /\ Len(c.batch) \in Nat /\ DOMAIN c.batch = 1..Len(c.batch)
  BY <1>1, RepositoryAssumption
<1>3. c.seen \in File /\ c.seen.log \in Seq(Event) /\ l \in Nat
  BY DEF TypeOK, Call, File
<1>4. c.next - 1 = Len(c.batch) /\ l + c.next - 1 = l + Len(c.batch)
  BY <1>1, <1>2, <1>3
<1>5. c.mode = "AllOrNothing" => ~c.refused
  BY <1>1, Zenon DEF RollsBack
<1> HIDE DEF c
<1>6. /\ \A i \in (l + 1)..Len(c.work) :
            \E k \in 1..Len(c.batch) : c.work[i].body = c.batch[k]
      /\ ~c.refused =>
            /\ Len(c.work) = l + Len(c.batch)
            /\ \A k \in 1..Len(c.batch) : c.work[l + k].body = c.batch[k]
  BY <1>1, <1>4 DEF Considered
<1>. QED
  BY <1>2, <1>5, <1>6 DEF c

\* The fingerprints of a log and of what follows it.
LEMMA FingerprintsOfConcat ==
    ASSUME NEW l \in Seq(Event), NEW m \in Seq(Event)
    PROVE  Fingerprints(l \o m) = Fingerprints(l) \cup Fingerprints(m)
<1>1. /\ Len(l) \in Nat /\ Len(m) \in Nat /\ DOMAIN l = 1..Len(l) /\ DOMAIN m = 1..Len(m)
      /\ DOMAIN (l \o m) = 1..(Len(l) + Len(m))
      /\ \A i \in 1..(Len(l) + Len(m)) :
            (l \o m)[i] = IF i <= Len(l) THEN l[i] ELSE m[i - Len(l)]
  BY ConcatProperties
<1>2. ASSUME NEW i \in 1..(Len(l) + Len(m))
      PROVE  (l \o m)[i].body \in Fingerprints(l) \cup Fingerprints(m)
  <2>1. CASE i <= Len(l)
    <3>1. i \in DOMAIN l /\ (l \o m)[i] = l[i]
      BY <1>1, <2>1
    <3>. QED
      BY <3>1 DEF Fingerprints, Fingerprint
  <2>2. CASE ~(i <= Len(l))
    <3>1. i - Len(l) \in DOMAIN m /\ (l \o m)[i] = m[i - Len(l)]
      BY <1>1, <2>2
    <3>. QED
      BY <3>1 DEF Fingerprints, Fingerprint
  <2>. QED
    BY <2>1, <2>2
<1>3. ASSUME NEW i \in DOMAIN l
      PROVE  l[i].body \in Fingerprints(l \o m)
  <2>1. i \in DOMAIN (l \o m) /\ (l \o m)[i] = l[i]
    BY <1>1
  <2>. QED
    BY <2>1 DEF Fingerprints, Fingerprint
<1>4. ASSUME NEW i \in DOMAIN m
      PROVE  m[i].body \in Fingerprints(l \o m)
  <2>1. Len(l) + i \in DOMAIN (l \o m) /\ (l \o m)[Len(l) + i] = m[i]
    BY <1>1
  <2>. QED
    BY <2>1 DEF Fingerprints, Fingerprint
<1>. QED
  BY <1>1, <1>2, <1>3, <1>4 DEF Fingerprints, Fingerprint

\* Once the whole of an AllOrNothing batch is in the working log, so are its
\* fingerprints.
LEMMA BatchInWork ==
    ASSUME TypeOK, AllProgress, NEW t \in Tasks,
           call[t].pc \in {"renaming", "committed", "publishing"},
           call[t].mode = "AllOrNothing", NEW k \in DOMAIN call[t].batch
    PROVE  call[t].batch[k] \in Fingerprints(call[t].work)
<1> DEFINE c == call[t]
           l == Len(c.seen.log)
<1>1. Len(c.work) = l + Len(c.batch) /\ c.work[l + k].body = c.batch[k]
  BY AddedByRename
<1>2. l \in Nat /\ DOMAIN c.work = 1..Len(c.work)
  <2>1. c.seen \in File /\ c.seen.log \in Seq(Event) /\ c.work \in Seq(Event)
    BY DEF TypeOK, Call, File
  <2>. QED
    BY <2>1
<1>3. c.batch \in Seq(EventBody) /\ k \in 1..Len(c.batch) /\ Len(c.batch) \in Nat
  BY RepositoryAssumption DEF AllProgress, Progress
<1> HIDE DEF c, l
<1>4. l + k \in DOMAIN c.work
  BY <1>1, <1>2, <1>3
<1>. QED
  BY <1>1, <1>4 DEF c, l, Fingerprints, Fingerprint

-----------------------------------------------------------------------------
(* The cache *)

\* An AllOrNothing batch that a mark stands for is on the log.
Covered(log, mark) ==
    mark[2] = "AllOrNothing" => \A i \in DOMAIN mark[1] : mark[1][i] \in Fingerprints(log)

\* What the file and the calls say of the cache: a mark that is written, or is
\* going to be, is covered by the log or is that of the call's own batch.
CacheInv ==
    /\ \A mark \in cache : Covered(disk.log, mark)
    /\ \A t \in Tasks :
          /\ \A mark \in call[t].intent :
                mark = MarkOf(call[t]) \/ Covered(disk.log, mark)
          /\ call[t].pc \in {"idle", "waiting", "caching"} => call[t].intent = {}

\* A log that grows covers what it covered.
LEMMA CoveredGrows ==
    ASSUME NEW d \in Seq(Event), NEW w \in Seq(Event), IsPrefixOf(d, w), NEW mark,
           Covered(d, mark)
    PROVE  Covered(w, mark)
<1>1. Fingerprints(d) \subseteq Fingerprints(w)
  <2>1. Len(d) \in 0..Len(w) /\ Prefix(w, Len(d)) = d
    BY DEF IsPrefixOf
  <2>2. \A i \in 1..Len(d) : Prefix(w, Len(d))[i] = w[i]
    BY <2>1, PrefixFacts
  <2>3. /\ Len(d) \in Nat /\ Len(w) \in Nat /\ Len(d) <= Len(w)
        /\ DOMAIN d = 1..Len(d) /\ DOMAIN w = 1..Len(w)
    BY <2>1
  <2>4. \A i \in DOMAIN d : i \in DOMAIN w /\ d[i] = w[i]
    BY <2>1, <2>2, <2>3
  <2>. QED
    BY <2>4 DEF Fingerprints, Fingerprint
<1>. QED
  BY <1>1 DEF Covered

\* Steps of one call that keep the log or add to it, and leave the marks the
\* call is going to write where the invariant wants them.
LEMMA CacheLocal ==
    ASSUME TypeOK, CacheInv, NEW t \in Tasks,
           disk.log \in Seq(Event), disk'.log \in Seq(Event), IsPrefixOf(disk.log, disk'.log),
           \A u \in Tasks : u # t => call'[u] = call[u],
           \A mark \in cache' : mark \in cache \/ Covered(disk'.log, mark),
           \A mark \in call'[t].intent :
              mark = MarkOf(call'[t]) \/ Covered(disk'.log, mark),
           call'[t].pc \in {"idle", "waiting", "caching"} => call'[t].intent = {}
    PROVE  CacheInv'
<1>1. \A mark : Covered(disk.log, mark) => Covered(disk'.log, mark)
  BY CoveredGrows
<1>2. ASSUME NEW u \in Tasks, u # t
      PROVE  /\ \A mark \in call'[u].intent :
                   mark = MarkOf(call'[u]) \/ Covered(disk'.log, mark)
             /\ call'[u].pc \in {"idle", "waiting", "caching"} => call'[u].intent = {}
  BY <1>1, <1>2 DEF CacheInv
<1>. QED
  BY <1>1, <1>2 DEF CacheInv

\* Every step of a call keeps the cache behind the log, when calls work one at
\* a time.
LEMMA CacheStep ==
    ASSUME Inv(TRUE), AllProgress, CacheInv, NEW t \in Tasks, CallStep(t), TypeOK'
    PROVE  CacheInv'
<1>1. /\ TypeOK /\ call[t] \in Call /\ call \in [Tasks -> Call]
      /\ disk.log \in Seq(Event) /\ disk'.log \in Seq(Event)
  BY DEF Inv, TypeOK, File
<1>2. IsPrefixOf(disk.log, disk'.log)
  BY <1>1, OnlyRenamesWrite, CombinedIsWork, PrefixOfSelf
<1>3. \A mark : Covered(disk.log, mark) => Covered(disk'.log, mark)
  BY <1>1, <1>2, CoveredGrows
<1>4. \A mark \in call[t].intent : mark = MarkOf(call[t]) \/ Covered(disk'.log, mark)
  BY <1>3 DEF CacheInv
<1>5. CASE Return(t) /\ cache' = cache
  <2>1. /\ call'[t] = IdleCall /\ IdleCall.intent = {}
        /\ \A u \in Tasks : u # t => call'[u] = call[u]
    BY <1>1, <1>5 DEF Return, IdleCall
  <2>. QED
    BY <1>1, <1>2, <1>5, <2>1, CacheLocal
<1>6. CASE ReadCache(t)
  <2>1. PICK found \in {cache, {}} :
           call' = [call EXCEPT ![t].pc = "loading", ![t].intent = found \cup {MarkOf(call[t])}]
    BY <1>6 DEF ReadCache
  <2>2. /\ call'[t].pc = "loading" /\ call'[t].intent = found \cup {MarkOf(call[t])}
        /\ call'[t].batch = call[t].batch /\ call'[t].mode = call[t].mode
        /\ \A u \in Tasks : u # t => call'[u] = call[u]
    BY <1>1, <2>1 DEF Call
  <2>3. MarkOf(call'[t]) = MarkOf(call[t])
    BY <2>2 DEF MarkOf
  <2>4. \A mark \in found : Covered(disk'.log, mark)
    BY <1>3, <2>1 DEF CacheInv
  <2>. QED
    BY <1>1, <1>2, <1>6, <2>2, <2>3, <2>4, CacheLocal DEF ReadCache
<1>7. CASE WriteCache(t)
  <2>1. /\ call'[t].pc = "publishing" /\ call'[t].intent = call[t].intent
        /\ call'[t].batch = call[t].batch /\ call'[t].mode = call[t].mode
        /\ \A u \in Tasks : u # t => call'[u] = call[u]
    BY <1>1, <1>7 DEF WriteCache, Call
  <2>2. MarkOf(call'[t]) = MarkOf(call[t])
    BY <2>1 DEF MarkOf
  <2>3. call[t].pc = "committed" /\ call[t].work = disk.log /\ disk' = disk
    BY <1>7 DEF WriteCache, At, Inv, UpToDate
  <2>4. Covered(disk'.log, MarkOf(call[t]))
    BY <1>1, <2>3, BatchInWork DEF Covered, MarkOf
  <2>5. \A mark \in call[t].intent : Covered(disk'.log, mark)
    BY <1>4, <2>4
  <2>6. \A mark \in cache' : mark \in cache \/ mark \in call[t].intent
    BY <1>7 DEF WriteCache
  <2>. QED
    BY <1>1, <1>2, <1>4, <2>1, <2>2, <2>5, <2>6, CacheLocal
<1>8. CASE Start(t)
  <2>1. PICK batch \in Batches, mode \in Modes, cached \in CacheUse :
           call' = [call EXCEPT ![t].pc = "waiting", ![t].batch = batch, ![t].mode = mode,
                                ![t].cached = cached]
    BY <1>8 DEF Start
  <2>2. /\ call'[t].intent = call[t].intent
        /\ \A u \in Tasks : u # t => call'[u] = call[u]
    BY <1>1, <2>1 DEF Call
  <2>3. call[t].intent = {} /\ cache' = cache
    BY <1>8 DEF Start, At, CacheInv
  <2>. QED
    BY <1>1, <1>2, <2>2, <2>3, CacheLocal
<1>9. CASE Acquire(t)
  <2>1. /\ call'[t].intent = call[t].intent
        /\ \A u \in Tasks : u # t => call'[u] = call[u]
    BY <1>1, <1>9 DEF Acquire, Call
  <2>2. call[t].intent = {} /\ cache' = cache
    BY <1>9 DEF Acquire, At, CacheInv
  <2>. QED
    BY <1>1, <1>2, <2>1, <2>2, CacheLocal
<1>10. CASE \/ Load(t) \/ Accept(t) \/ Reject(t) \/ Compare(t) \/ Retry(t) \/ Rename(t)
  <2>1. /\ cache' = cache
        /\ call'[t].intent = call[t].intent
        /\ call'[t].batch = call[t].batch /\ call'[t].mode = call[t].mode
        /\ call'[t].pc \in {"loading", "scanning", "renaming", "committed"}
        /\ \A u \in Tasks : u # t => call'[u] = call[u]
    <3>1. CASE Load(t)
      BY <1>1, <3>1 DEF Load, Call
    <3>2. CASE Accept(t)
      BY <1>1, <3>2 DEF Accept, Call, Scanning, At
    <3>3. CASE Reject(t)
      BY <1>1, <3>3 DEF Reject, Call, Scanning, At
    <3>4. CASE Compare(t)
      BY <1>1, <3>4 DEF Compare, Call
    <3>5. CASE Retry(t)
      BY <1>1, <3>5 DEF Retry, Call
    <3>6. CASE Rename(t)
      BY <1>1, <3>6 DEF Rename, Call
    <3>. QED
      BY <1>10, <3>1, <3>2, <3>3, <3>4, <3>5, <3>6
  <2>2. MarkOf(call'[t]) = MarkOf(call[t])
    BY <2>1 DEF MarkOf
  <2>. QED
    BY <1>1, <1>2, <1>4, <2>1, <2>2, CacheLocal
<1>. QED
  BY <1>5, <1>6, <1>7, <1>8, <1>9, <1>10 DEF CallStep, Proceed, LockFails,
     SaltMismatch, PreconditionFails, Roll, ReadFails, GiveUp, RenameUnsynced, WriteFails,
     Publish, Crash

-----------------------------------------------------------------------------
(* Torn batches *)

\* No batch is on the log in part.
Untorn(log) ==
    \A batch \in Batches :
        \/ \A i \in DOMAIN batch : batch[i] \in Fingerprints(log)
        \/ \A i \in DOMAIN batch : batch[i] \notin Fingerprints(log)

\* Callers that propose every body in one batch only, and whole.
WholeBatchesOnly ==
    /\ Modes \subseteq {"AllOrNothing"}
    /\ \A one, two \in Batches :
          \/ one = two
          \/ \A i \in DOMAIN one, j \in DOMAIN two : one[i] # two[j]

\* Neither the file nor what a call read back to append to is torn.
AllUntorn ==
    /\ Untorn(disk.log)
    /\ \A t \in Tasks : call[t].pc = "renaming" => Untorn(call[t].base.log)

\* What is appended is a batch, whole, whatever it is appended to.
LEMMA CombinedUntorn ==
    ASSUME TypeOK, AllProgress, WholeBatchesOnly, NEW t \in Tasks, At(t, "renaming"),
           Untorn(call[t].base.log)
    PROVE  Untorn(Combined(t).log)
<1> DEFINE c == call[t]
           l == Len(c.seen.log)
           a == Accepted(c)
           bodies == {c.batch[k] : k \in DOMAIN c.batch}
<1>1. /\ c.seen.log \in Seq(Event) /\ c.base.log \in Seq(Event) /\ c.work \in Seq(Event)
      /\ l \in Nat
  BY DEF TypeOK, Call, File
<1>2. /\ Len(c.work) = l + Len(c.batch)
      /\ \A k \in DOMAIN c.batch : c.work[l + k].body = c.batch[k]
  <2>1. c.mode = "AllOrNothing"
    BY DEF At, AllProgress, Progress, WholeBatchesOnly
  <2>. QED
    BY <2>1, AddedByRename DEF At
<1>3. c.batch \in Batches /\ Len(c.batch) \in Nat /\ DOMAIN c.batch = 1..Len(c.batch)
  <2>1. c.batch \in Batches
    BY DEF At, AllProgress, Progress
  <2>2. c.batch \in Seq(EventBody)
    BY <2>1, RepositoryAssumption
  <2>. QED
    BY <2>1, <2>2
<1>4. Combined(t).log = c.base.log \o a
  BY DEF Combined
<1>5. a \in Seq(Event) /\ Len(a) = Len(c.batch)
      /\ \A k \in 1..Len(c.batch) : a[k] = c.work[l + k]
  <2>1. a = SubSeq(c.work, l + 1, Len(c.work))
    BY DEF Accepted
  <2> HIDE DEF c, l, a
  <2>2. l + 1 \in 1..(Len(c.work) + 1)
    BY <1>1, <1>2, <1>3
  <2>. QED
    BY <1>1, <1>2, <1>3, <2>1, <2>2, SubSeqProperties
<1> HIDE DEF c, l, a
<1>6. Fingerprints(a) = bodies
  <2>1. DOMAIN a = DOMAIN c.batch
    BY <1>3, <1>5
  <2>2. \A k \in DOMAIN c.batch : a[k].body = c.batch[k]
    BY <1>2, <1>3, <1>5
  <2>. QED
    BY <2>1, <2>2 DEF Fingerprints, Fingerprint
<1>7. Fingerprints(Combined(t).log) = Fingerprints(c.base.log) \cup bodies
  BY <1>1, <1>4, <1>5, <1>6, FingerprintsOfConcat
<1>8. SUFFICES ASSUME NEW batch \in Batches
               PROVE  \/ \A i \in DOMAIN batch : batch[i] \in Fingerprints(Combined(t).log)
                      \/ \A i \in DOMAIN batch : batch[i] \notin Fingerprints(Combined(t).log)
  BY DEF Untorn
<1>9. CASE batch = c.batch
  BY <1>7, <1>9
<1>10. CASE batch # c.batch
  <2>1. \A i \in DOMAIN batch : batch[i] \notin bodies
    BY <1>3, <1>10 DEF WholeBatchesOnly
  <2>2. \/ \A i \in DOMAIN batch : batch[i] \in Fingerprints(c.base.log)
        \/ \A i \in DOMAIN batch : batch[i] \notin Fingerprints(c.base.log)
    BY DEF Untorn, c
  <2> HIDE DEF bodies
  <2>. QED
    BY <1>7, <2>1, <2>2
<1>. QED
  BY <1>9, <1>10

\* Every step of a call leaves the batches whole, even when the lock admits
\* several calls at once and one of them overwrites what another appended.
LEMMA UntornStep ==
    ASSUME TypeOK, AllProgress, WholeBatchesOnly, AllUntorn, NEW t \in Tasks, CallStep(t)
    PROVE  AllUntorn'
<1>1. call \in [Tasks -> Call] /\ call[t] \in Call
  BY DEF TypeOK
<1>2. Untorn(disk'.log)
  <2>1. CASE disk' = disk
    BY <2>1 DEF AllUntorn
  <2>2. CASE At(t, "renaming") /\ disk' = Combined(t)
    BY <2>2, CombinedUntorn DEF AllUntorn, At
  <2>. QED
    BY <2>1, <2>2, OnlyRenamesWrite
<1>3. /\ \A u \in Tasks : u # t => call'[u] = call[u]
      /\ call'[t].pc = "renaming" => call'[t].base = disk
  <2>1. CASE Return(t)
    BY <1>1, <2>1 DEF Return, IdleCall
  <2>2. CASE Start(t) \/ Acquire(t)
    <3>1. CASE Start(t)
      BY <1>1, <3>1 DEF Start, Call
    <3>2. CASE Acquire(t)
      BY <1>1, <3>2 DEF Acquire, Call
    <3>. QED
      BY <2>2, <3>1, <3>2
  <2>3. CASE ReadCache(t)
    BY <1>1, <2>3 DEF ReadCache, Call
  <2>4. CASE Load(t)
    BY <1>1, <2>4 DEF Load, Call
  <2>5. CASE Accept(t)
    BY <1>1, <2>5 DEF Accept, Call, Scanning, At
  <2>6. CASE Reject(t)
    BY <1>1, <2>6 DEF Reject, Call, Scanning, At
  <2>7. CASE Compare(t)
    BY <1>1, <2>7 DEF Compare, Call
  <2>8. CASE Retry(t)
    BY <1>1, <2>8 DEF Retry, Call
  <2>9. CASE Rename(t) \/ WriteCache(t)
    BY <1>1, <2>9 DEF Rename, WriteCache, Call
  <2>. QED
    BY <2>1, <2>2, <2>3, <2>4, <2>5, <2>6, <2>7, <2>8, <2>9 DEF CallStep, Proceed, LockFails,
       SaltMismatch, PreconditionFails, Roll, ReadFails, GiveUp, RenameUnsynced, WriteFails,
       Publish, Crash
<1>. QED
  BY <1>2, <1>3 DEF AllUntorn

\* The call stays as Progress says through every step of the repository.
LEMMA ProgressHolds ==
    /\ Init => AllProgress
    /\ TypeOK /\ AllProgress /\ [Next]_vars => AllProgress'
<1>1. Init => AllProgress
  <2>1. Progress(IdleCall)
    BY DEF Progress, IdleCall
  <2>. QED
    BY <2>1 DEF Init, AllProgress
<1>2. ASSUME TypeOK, AllProgress, UNCHANGED vars
      PROVE  AllProgress'
  BY <1>2 DEF vars, AllProgress
<1>. QED
  BY <1>1, <1>2, NextIsCallStep, ProgressStep

-----------------------------------------------------------------------------
(* Theorems *)

\* The inductive invariant holds of every reachable state.
THEOREM Inductive == Spec => []IInv
<1>1. Init => IInv
  BY RepositoryAssumption, InitInv DEF IInv
<1>2. IInv /\ [Next]_vars => IInv'
  BY IInvStep
<1>. QED
  BY <1>1, <1>2, PTL DEF Spec

\* Files, caches, guards and calls keep their types through retries and
\* crashes, even when the lock admits several calls at once.
THEOREM RepositoryTypes == Spec => []TypeOK
<1>1. IInv => TypeOK
  BY DEF IInv, Inv
<1>. QED
  BY <1>1, Inductive, PTL

\* FileRepository::append: whatever the calls, clocks, retries and crashes,
\* every event on the file was admissible where it stands.
THEOREM FileStaysLegal ==
    ASSUME Exclusive
    PROVE  Spec => []LegalDisk
<1>1. IInv => LegalDisk
  BY DEF IInv, Inv
<1>. QED
  BY <1>1, Inductive, PTL

\* CommitOutcome::Committed: the events a call reports as accepted are on the
\* file when it reports them.
THEOREM ReportsAreTrue ==
    ASSUME Exclusive
    PROVE  Spec => []ReportedIsOnDisk
<1>1. IInv => ReportedIsOnDisk
  BY RepositoryAssumption, InvReported DEF IInv
<1>. QED
  BY <1>1, Inductive, PTL

\* Storage::append: no step rewrites or drops a line of the file.
THEOREM FileOnlyGrows ==
    ASSUME Exclusive
    PROVE  Spec => AppendOnly
<1>1. IInv /\ [Next]_vars => [/\ IsPrefixOf(disk.log, disk'.log)
                              /\ disk.salt \in {None, disk'.salt}]_disk
  <2> SUFFICES ASSUME IInv, [Next]_vars, disk' # disk
               PROVE  IsPrefixOf(disk.log, disk'.log) /\ disk.salt \in {None, disk'.salt}
    OBVIOUS
  <2>1. PICK t \in Tasks : CallStep(t)
    BY NextIsCallStep DEF vars
  <2>2. At(t, "renaming") /\ disk' = Combined(t)
    BY <2>1, OnlyRenamesWrite
  <2>. QED
    BY <2>2, RepositoryAssumption, CombinedIsWork DEF IInv
<1>. QED
  BY <1>1, Inductive, PTL DEF Spec, AppendOnly

\* append: what the calls know of their batches is invariant.
THEOREM ProgressInductive == Spec => [](TypeOK /\ AllProgress)
<1>. QED
  BY ProgressHolds, RepositoryTypes, PTL DEF Spec

\* with_cache: an AllOrNothing batch that the cache covers is on the log,
\* although the cache is mutated before the commit is decided.
THEOREM CacheStaysBehind ==
    ASSUME Exclusive
    PROVE  Spec => []CacheFollowsLog
<1>1. Init => CacheInv
  BY DEF Init, CacheInv, IdleCall
<1>2. IInv /\ TypeOK' /\ AllProgress /\ CacheInv /\ [Next]_vars => CacheInv'
  <2> SUFFICES ASSUME IInv, TypeOK', AllProgress, CacheInv, [Next]_vars
               PROVE  CacheInv'
    OBVIOUS
  <2>1. Inv(TRUE)
    BY RepositoryAssumption DEF IInv
  <2>2. CASE UNCHANGED vars
    BY <2>2 DEF vars, CacheInv, MarkOf
  <2>3. CASE \E t \in Tasks : CallStep(t)
    BY <2>1, <2>3, CacheStep
  <2>. QED
    BY <2>2, <2>3, NextIsCallStep
<1>3. CacheInv => CacheFollowsLog
  BY DEF CacheInv, CacheFollowsLog, Covered
<1>. QED
  BY <1>1, <1>2, <1>3, Inductive, RepositoryTypes, ProgressInductive, PTL DEF Spec

\* AppendMode: a commit adds a whole AllOrNothing batch, or a subset of the
\* proposals of a BestEffort one, and nothing that was not proposed.
THEOREM BatchesLandWhole ==
    ASSUME Exclusive
    PROVE  Spec => WholeBatches
<1>1. IInv /\ AllProgress /\ [Next]_vars =>
         [\E t \in Tasks :
             LET added == {disk'.log[i].body : i \in (Len(disk.log) + 1)..Len(disk'.log)}
                 proposed == {call[t].batch[i] : i \in DOMAIN call[t].batch}
             IN  /\ At(t, "renaming")
                 /\ added \subseteq proposed
                 /\ call[t].mode = "AllOrNothing" =>
                       /\ added = proposed
                       /\ Len(disk'.log) = Len(disk.log) + Len(call[t].batch)]_disk
  <2> SUFFICES ASSUME IInv, AllProgress, [Next]_vars, disk' # disk
               PROVE  \E t \in Tasks :
             LET added == {disk'.log[i].body : i \in (Len(disk.log) + 1)..Len(disk'.log)}
                 proposed == {call[t].batch[i] : i \in DOMAIN call[t].batch}
             IN  /\ At(t, "renaming")
                 /\ added \subseteq proposed
                 /\ call[t].mode = "AllOrNothing" =>
                       /\ added = proposed
                       /\ Len(disk'.log) = Len(disk.log) + Len(call[t].batch)
    OBVIOUS
  <2>1. Inv(TRUE) /\ TypeOK
    BY RepositoryAssumption DEF IInv, Inv
  <2>2. PICK t \in Tasks : CallStep(t)
    BY NextIsCallStep DEF vars
  <2>3. At(t, "renaming") /\ disk' = Combined(t)
    BY <2>2, OnlyRenamesWrite
  <2> DEFINE c == call[t]
             l == Len(disk.log)
             added == {disk'.log[i].body : i \in (l + 1)..Len(disk'.log)}
             proposed == {c.batch[i] : i \in DOMAIN c.batch}
  <2>4. disk'.log = c.work /\ c.seen = disk
    BY <2>1, <2>3, CombinedIsWork DEF Inv, UpToDate, At
  <2>5. /\ \A i \in (l + 1)..Len(c.work) : \E k \in DOMAIN c.batch : c.work[i].body = c.batch[k]
        /\ c.mode = "AllOrNothing" =>
              /\ Len(c.work) = l + Len(c.batch)
              /\ \A k \in DOMAIN c.batch : c.work[l + k].body = c.batch[k]
    BY <2>1, <2>3, <2>4, AddedByRename DEF At
  <2>6. /\ l \in Nat /\ Len(c.batch) \in Nat /\ DOMAIN c.batch = 1..Len(c.batch)
    <3>1. disk.log \in Seq(Event)
      BY <2>1 DEF TypeOK, File
    <3>2. c.batch \in Seq(EventBody)
      BY <2>3, RepositoryAssumption DEF AllProgress, Progress, At
    <3>. QED
      BY <3>1, <3>2
  <2>7. added \subseteq proposed
    BY <2>4, <2>5
  <2>8. ASSUME c.mode = "AllOrNothing", NEW k \in DOMAIN c.batch
        PROVE  c.batch[k] \in added
    <3>1. l + k \in (l + 1)..Len(disk'.log) /\ disk'.log[l + k].body = c.batch[k]
      <4> HIDE DEF l, c
      <4>. QED
        BY <2>4, <2>5, <2>6, <2>8
    <3>. QED
      BY <3>1
  <2>9. c.mode = "AllOrNothing" => added = proposed /\ Len(disk'.log) = l + Len(c.batch)
    BY <2>4, <2>5, <2>7, <2>8
  <2> HIDE DEF added, proposed
  <2>10. /\ At(t, "renaming") /\ added \subseteq proposed
         /\ c.mode = "AllOrNothing" => added = proposed /\ Len(disk'.log) = l + Len(c.batch)
    BY <2>3, <2>7, <2>9
  <2>. QED
    BY <2>10 DEF added, proposed
<1>. QED
  BY <1>1, Inductive, ProgressInductive, PTL DEF Spec, WholeBatches

\* AppendMode::AllOrNothing across failures of the lock: whoever wins and
\* whatever crashes, no part of a batch is on the file without the rest.
THEOREM BatchesNeverTear ==
    ASSUME WholeBatchesOnly
    PROVE  Spec => []NoTornBatch
<1>1. Init => AllUntorn
  BY DEF Init, AllUntorn, Untorn, NoFile, Fingerprints, IdleCall
<1>2. TypeOK /\ AllProgress /\ AllUntorn /\ [Next]_vars => AllUntorn'
  <2>1. ASSUME AllUntorn, UNCHANGED vars
        PROVE  AllUntorn'
    BY <2>1 DEF vars, AllUntorn
  <2>. QED
    BY <2>1, NextIsCallStep, UntornStep
<1>3. AllUntorn => NoTornBatch
  BY DEF AllUntorn, Untorn, NoTornBatch
<1>. QED
  BY <1>1, <1>2, <1>3, ProgressInductive, PTL DEF Spec

\* To its callers the file repository is the in-memory one: each step that
\* shows is one call, whole, with what in-memory append would have accepted.
THEOREM FileImplementsMemory ==
    ASSUME Exclusive
    PROVE  Spec => ImplementsMemory
<1>1. Init => Memory!InitMemory
  BY DEF Init, NoFile, Memory!InitMemory
<1>2. IInv /\ AllProgress /\ [Next]_vars => [Memory!NextMemory]_(disk.log)
  <2> SUFFICES ASSUME IInv, AllProgress, [Next]_vars, disk'.log # disk.log
               PROVE  Memory!NextMemory
    OBVIOUS
  <2>1. Inv(TRUE) /\ TypeOK
    BY RepositoryAssumption DEF IInv, Inv
  <2>2. PICK t \in Tasks : CallStep(t)
    BY NextIsCallStep DEF vars
  <2>3. At(t, "renaming") /\ disk' = Combined(t)
    BY <2>2, OnlyRenamesWrite
  <2> DEFINE c == call[t]
             w == [log |-> c.work, refused |-> c.refused]
  <2>4. disk'.log = c.work /\ c.seen.log = disk.log
    BY <2>1, <2>3, CombinedIsWork DEF Inv, UpToDate, At
  <2>5. /\ Considered(c) /\ c.batch \in Batches /\ c.mode \in Modes
        /\ c.next = Len(c.batch) + 1 /\ ~RollsBack(c)
    BY <2>3 DEF AllProgress, Progress, At
  <2>6. c.next - 1 = Len(c.batch)
    BY <2>5, RepositoryAssumption
  <2>7. w \in Memory!After(disk.log, c.batch)[Len(c.batch)]
    BY <2>4, <2>5, <2>6 DEF Considered
  <2>8. w.log = disk'.log
    BY <2>4
  <2>9. c.mode = "AllOrNothing" => ~w.refused
    BY <2>5, Zenon DEF RollsBack
  <2> HIDE DEF w
  <2>10. Memory!AppendBatch(c.batch, c.mode)
    BY <2>7, <2>8, <2>9 DEF Memory!AppendBatch
  <2>. QED
    BY <2>5, <2>10 DEF Memory!NextMemory
<1>. QED
  BY <1>1, <1>2, Inductive, ProgressInductive, PTL
  DEF Spec, ImplementsMemory, Memory!SpecMemory
=============================================================================
