--------------------------- MODULE FileRepository ---------------------------
(***************************************************************************)
(* knotch-storage: FileRepository::append and ::with_cache over the files  *)
(* of one unit.  A call takes the unit's lock, loads the log, considers    *)
(* each proposal against a working copy, and replaces the file by a rename *)
(* after comparing its line count with the one it loaded.  Between any two *)
(* awaits another task may run and the process may crash; the file         *)
(* survives a crash, the call does not.                                    *)
(*                                                                         *)
(* The lock is abstract here: `holders' are the tasks that own a guard.    *)
(* Exclusive says whether the lock keeps its promise; LockedRepository     *)
(* puts FileLock in its place.                                             *)
(***************************************************************************)
EXTENDS Callers, Kernel

CONSTANTS
    Batches,    \* the proposals of a call: non-empty sequences of bodies
    Modes,      \* the AppendModes used
    CacheUse,   \* {FALSE}: append only; {TRUE, FALSE}: with_cache as well
    SaltOf,     \* the fingerprint_salt of each task's workflow
    Readings,   \* what the wall clock may read
    MaxRetries, \* CAS_MAX_RETRIES
    MaxEvents,  \* no call starts on a log this long
    Exclusive   \* TRUE when the lock admits one holder at a time

AppendMode == {"AllOrNothing", "BestEffort"}

ASSUME RepositoryAssumption ==
    /\ Batches \subseteq Seq(EventBody)
    /\ Modes \subseteq AppendMode
    /\ CacheUse \subseteq BOOLEAN
    /\ None \notin {SaltOf[t] : t \in Tasks}
    /\ Readings \subseteq 0..MaxTime
    /\ MaxRetries \in Nat \ {0}
    /\ MaxEvents \in Nat
    /\ Exclusive \in BOOLEAN

VARIABLES
    disk,       \* log.jsonl: the salt of its header line, then the events
    cache,      \* .resume-cache.json: the calls its watermark has covered
    holders,    \* tasks that own a LockGuard
    call        \* what each task is doing

vars == <<disk, cache, holders, call>>

Salts == {SaltOf[t] : t \in Tasks}

\* A missing file has no header line and no events.
File == [salt: Salts \cup {None}, log: Seq(Event)]
NoFile == [salt |-> None, log |-> <<>>]

\* What the mutator of a with_cache call leaves in the cache.
Mark == Batches \X AppendMode
MarkOf(c) == <<c.batch, c.mode>>

LineCount(f) == Len(f.log) + (IF f.salt = None THEN 0 ELSE 1)

Call ==
    [pc: {"idle", "waiting", "caching", "loading", "scanning", "renaming",
          "committed", "publishing"},
     batch: Batches \cup {<<>>}, mode: AppendMode, cached: BOOLEAN,
     attempt: 0..(MaxRetries - 1),
     seen: File,                \* what load returned
     next: Nat \ {0},           \* the next proposal to consider
     work: Seq(Event),          \* working_events
     refused: BOOLEAN,          \* some proposal was rejected
     base: File,                \* what storage.append read back
     intent: SUBSET Mark]       \* the mutated cache, not yet written

IdleCall ==
    [pc |-> "idle", batch |-> <<>>, mode |-> "BestEffort", cached |-> FALSE, attempt |-> 0,
     seen |-> NoFile, next |-> 1, work |-> <<>>, refused |-> FALSE, base |-> NoFile,
     intent |-> {}]

At(t, pc) == call[t].pc = pc

Init ==
    /\ disk = NoFile
    /\ cache = {}
    /\ holders = {}
    /\ call = [t \in Tasks |-> IdleCall]

\* The call returns, with Ok or Err, and its guard is dropped.
Return(t) ==
    /\ call' = [call EXCEPT ![t] = IdleCall]
    /\ holders' = holders \ {t}

Start(t) ==
    /\ At(t, "idle")
    /\ Len(disk.log) < MaxEvents
    /\ \E batch \in Batches, mode \in Modes, cached \in CacheUse :
          call' = [call EXCEPT ![t].pc = "waiting", ![t].batch = batch, ![t].mode = mode,
                               ![t].cached = cached]
    /\ UNCHANGED <<disk, cache, holders>>

\* Mutant: the lock admits everyone.
AcquireShared(t) ==
    /\ At(t, "waiting")
    /\ holders' = holders \cup {t}
    /\ call' = [call EXCEPT ![t].pc = IF call[t].cached THEN "caching" ELSE "loading"]
    /\ UNCHANGED <<disk, cache>>

Acquire(t) ==
    /\ At(t, "waiting")
    /\ Exclusive => holders = {}
    /\ holders' = holders \cup {t}
    /\ call' = [call EXCEPT ![t].pc = IF call[t].cached THEN "caching" ELSE "loading"]
    /\ UNCHANGED <<disk, cache>>

\* The lock timed out.
LockFails(t) ==
    /\ At(t, "waiting")
    /\ Return(t)
    /\ UNCHANGED <<disk, cache>>

\* Mutant: the cache is written as soon as it is mutated.
ReadAndWriteCache(t) ==
    /\ At(t, "caching")
    /\ cache' = cache \cup {MarkOf(call[t])}
    /\ call' = [call EXCEPT ![t].pc = "loading", ![t].intent = cache \cup {MarkOf(call[t])}]
    /\ UNCHANGED <<disk, holders>>

\* with_cache reads and mutates the cache before anything is decided; an
\* unreadable or malformed cache counts as empty.
ReadCache(t) ==
    /\ At(t, "caching")
    /\ \E found \in {cache, {}} :
          call' = [call EXCEPT ![t].pc = "loading",
                               ![t].intent = found \cup {MarkOf(call[t])}]
    /\ UNCHANGED <<disk, cache, holders>>

Load(t) ==
    /\ At(t, "loading")
    /\ disk.salt \in {None, SaltOf[t]}
    /\ call' = [call EXCEPT ![t].pc = "scanning", ![t].seen = disk, ![t].work = disk.log,
                            ![t].next = 1, ![t].refused = FALSE]
    /\ UNCHANGED <<disk, cache, holders>>

SaltMismatch(t) ==
    /\ At(t, "loading")
    /\ disk.salt \notin {None, SaltOf[t]}
    /\ Return(t)
    /\ UNCHANGED <<disk, cache>>

Scanning(t) == At(t, "scanning") /\ call[t].next <= Len(call[t].batch)
Scanned(t) == At(t, "scanning") /\ call[t].next > Len(call[t].batch)
Proposal(t) == call[t].batch[call[t].next]

\* Mutant: proposals are judged by the log as loaded, without the earlier
\* accepts of the batch.
AdmissibleAlone(t) == Admissible(call[t].seen.log, Proposal(t))

\* A proposal is judged by the working log: what was loaded and what this
\* batch has added to it so far.
AdmissibleNow(t) == Admissible(call[t].work, Proposal(t))

Accept(t) ==
    /\ Scanning(t)
    /\ AdmissibleNow(t)
    /\ \E now \in Readings :
          call' = [call EXCEPT ![t].next = @ + 1,
                               ![t].work = Append(@, Stamped(@, Proposal(t), now))]
    /\ UNCHANGED <<disk, cache, holders>>

\* A duplicate is passed over in either mode, a failed precondition in
\* BestEffort mode only.
Reject(t) ==
    /\ Scanning(t)
    /\ ~AdmissibleNow(t)
    /\ IsDuplicate(call[t].work, Proposal(t)) \/ call[t].mode = "BestEffort"
    /\ call' = [call EXCEPT ![t].next = @ + 1, ![t].refused = TRUE]
    /\ UNCHANGED <<disk, cache, holders>>

PreconditionFails(t) ==
    /\ Scanning(t)
    /\ ~AdmissibleNow(t)
    /\ ~IsDuplicate(call[t].work, Proposal(t))
    /\ call[t].mode = "AllOrNothing"
    /\ Return(t)
    /\ UNCHANGED <<disk, cache>>

\* Mutant: a batch with duplicates in it is committed without them.
NeverRolls(c) == FALSE

\* An AllOrNothing batch with a rejection is rolled back as a whole.
RollsBack(c) == c.mode = "AllOrNothing" /\ c.refused

Roll(t) ==
    /\ Scanned(t)
    /\ RollsBack(call[t])
    /\ Return(t)
    /\ UNCHANGED <<disk, cache>>

\* storage.append: read the file back and compare its length with what the
\* call loaded.  The comparison and the rename are separate file operations.
Compare(t) ==
    /\ Scanned(t)
    /\ ~RollsBack(call[t])
    /\ LineCount(disk) = LineCount(call[t].seen)
    /\ call' = [call EXCEPT ![t].pc = "renaming", ![t].base = disk]
    /\ UNCHANGED <<disk, cache, holders>>

Mismatch(t) ==
    /\ Scanned(t)
    /\ ~RollsBack(call[t])
    /\ LineCount(disk) # LineCount(call[t].seen)

\* load, or the read inside storage.append, fails.
ReadFails(t) ==
    /\ At(t, "loading") \/ (Scanned(t) /\ ~RollsBack(call[t]))
    /\ Return(t)
    /\ UNCHANGED <<disk, cache>>

\* Mutant: one attempt more than the constant says.
RetryOnceMore(t) ==
    /\ Mismatch(t)
    /\ call[t].attempt + 1 <= MaxRetries
    /\ call' = [call EXCEPT ![t].pc = "loading", ![t].attempt = @ + 1]
    /\ UNCHANGED <<disk, cache, holders>>

Retry(t) ==
    /\ Mismatch(t)
    /\ call[t].attempt + 1 < MaxRetries
    /\ call' = [call EXCEPT ![t].pc = "loading", ![t].attempt = @ + 1]
    /\ UNCHANGED <<disk, cache, holders>>

GiveUp(t) ==
    /\ Mismatch(t)
    /\ call[t].attempt + 1 >= MaxRetries
    /\ Return(t)
    /\ UNCHANGED <<disk, cache>>

\* The events accepted by this attempt.
Accepted(c) == SubSeq(c.work, Len(c.seen.log) + 1, Len(c.work))

\* The file after the rename: what append read back, behind a header line if
\* load saw an empty file, then the accepted events.
Combined(t) ==
    [salt |-> IF call[t].seen.salt = None THEN SaltOf[t] ELSE call[t].base.salt,
     log |-> call[t].base.log \o Accepted(call[t])]

Rename(t) ==
    /\ At(t, "renaming")
    /\ disk' = Combined(t)
    /\ call' = [call EXCEPT ![t].pc = "committed"]
    /\ UNCHANGED <<cache, holders>>

\* The directory cannot be synced: the caller gets an error although the
\* file has been replaced.
RenameUnsynced(t) ==
    /\ At(t, "renaming")
    /\ disk' = Combined(t)
    /\ Return(t)
    /\ UNCHANGED cache

\* Mutant: the file is written in place, and a failure leaves a part of it.
WriteTorn(t) ==
    /\ At(t, "renaming")
    /\ disk' = [Combined(t) EXCEPT !.log = Prefix(@, Len(call[t].base.log) + 1)]
    /\ Return(t)
    /\ UNCHANGED cache

\* The temporary file cannot be written or renamed.
WriteFails(t) ==
    /\ At(t, "renaming")
    /\ Return(t)
    /\ UNCHANGED <<disk, cache>>

\* with_cache: a failure to write the cache is only logged.
WriteCache(t) ==
    /\ At(t, "committed")
    /\ call[t].cached
    /\ cache' \in {cache, call[t].intent}
    /\ call' = [call EXCEPT ![t].pc = "publishing"]
    /\ UNCHANGED <<disk, holders>>

\* The batch is on the file, and so is what with_cache had to write.
Publishing(t) == At(t, "publishing") \/ (At(t, "committed") /\ ~call[t].cached)

\* Send the accepted events to the subscribers, drop the guard and return.
Publish(t) ==
    /\ Publishing(t)
    /\ Return(t)
    /\ UNCHANGED <<disk, cache>>

\* The process of t dies; the system releases its lock and it starts again.
Crash(t) ==
    /\ ~At(t, "idle")
    /\ Return(t)
    /\ UNCHANGED <<disk, cache>>

\* What a task does once it owns the guard, one await at a time.
Proceed(t) ==
    \/ ReadCache(t)
    \/ Load(t)
    \/ SaltMismatch(t)
    \/ Accept(t)
    \/ Reject(t)
    \/ PreconditionFails(t)
    \/ Roll(t)
    \/ Compare(t)
    \/ ReadFails(t)
    \/ Retry(t)
    \/ GiveUp(t)
    \/ Rename(t)
    \/ RenameUnsynced(t)
    \/ WriteFails(t)
    \/ WriteCache(t)
    \/ Publish(t)

Next ==
    \E t \in Tasks :
        \/ Start(t)
        \/ Acquire(t)
        \/ LockFails(t)
        \/ t \in holders /\ Proceed(t)
        \/ Crash(t)

Spec == Init /\ [][Next]_vars

-----------------------------------------------------------------------------
(* Properties *)

TypeOK ==
    /\ disk \in File
    /\ cache \in SUBSET Mark
    /\ holders \in SUBSET Tasks
    /\ call \in [Tasks -> Call]

IsPrefixOf(short, long) == Len(short) <= Len(long) /\ Prefix(long, Len(short)) = short

\* The file always replays: whatever the interleaving of calls, crashes and
\* half-failed writes, each event on it was admissible where it stands.
LegalDisk == Legal(disk.log)

\* Kernel event ledger, "append-only": a step never rewrites or drops a line,
\* the header included.
AppendOnly ==
    [][/\ IsPrefixOf(disk.log, disk'.log)
       /\ disk.salt \in {None, disk'.salt}]_disk

\* AppendMode::AllOrNothing: events land as the whole batch or not at all; a
\* BestEffort batch lands as a subset of its proposals.
WholeBatches ==
    [][\E t \in Tasks :
          LET added == {disk'.log[i].body : i \in (Len(disk.log) + 1)..Len(disk'.log)}
              proposed == {call[t].batch[i] : i \in DOMAIN call[t].batch}
          IN  /\ At(t, "renaming")
              /\ added \subseteq proposed
              /\ call[t].mode = "AllOrNothing" =>
                    /\ added = proposed
                    /\ Len(disk'.log) = Len(disk.log) + Len(call[t].batch)]_disk

\* The rename is atomic: whoever wins, and whatever crashes, no part of an
\* AllOrNothing batch is ever on the file without the rest.  (For callers that
\* propose every body in one batch only.)
NoTornBatch ==
    \A batch \in Batches :
        \/ \A i \in DOMAIN batch : batch[i] \in Fingerprints(disk.log)
        \/ \A i \in DOMAIN batch : batch[i] \notin Fingerprints(disk.log)

\* What a call is about to report as accepted is on the file.
ReportedIsOnDisk ==
    \A t \in Tasks :
        call[t].pc \in {"committed", "publishing"} => IsPrefixOf(call[t].work, disk.log)

\* with_cache: an AllOrNothing batch that the cache on disk has moved past is on
\* the log; the cache does not run ahead of the log.  The other direction does
\* not hold, and is not claimed: a batch on the log may be missing in the cache
\* for ever, because the caller died between the two writes or the second one
\* failed, of which the caller of with_cache is not told.  The mutator has run
\* on the cache in memory also for a batch that is then refused.
CacheFollowsLog ==
    \A mark \in cache :
        mark[2] = "AllOrNothing" =>
            \A i \in DOMAIN mark[1] : mark[1][i] \in Fingerprints(disk.log)

\* To its callers the file is the in-memory repository that tests use instead:
\* each step of it that shows is one whole call on the log of that moment, with
\* what in-memory append would have accepted.
Memory == INSTANCE MemoryRepository WITH events <- disk.log
ImplementsMemory == Memory!SpecMemory

\* No call hangs: the retries are bounded and every error path drops the guard.
CallsReturn == \A t \in Tasks : At(t, "waiting") ~> At(t, "idle")
=============================================================================
