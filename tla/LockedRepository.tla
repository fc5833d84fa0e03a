-------------------------- MODULE LockedRepository --------------------------
(***************************************************************************)
(* FileRepository over FileLock: the guard a call works under is the one   *)
(* FileLock grants, and a process that dies takes its calls with it.       *)
(* FileRepository is used with Exclusive = FALSE here, so that mutual      *)
(* exclusion is whatever FileLock delivers.                                *)
(***************************************************************************)
EXTENDS FileRepository, FileLock

ASSUME ExclusionIsTheLocks == Exclusive = FALSE

\* The repository as its callers understand it: one call at a time.
Serial == INSTANCE FileRepository WITH Exclusive <- TRUE

InitAll == Init /\ InitLock

\* append and with_cache begin with lock.acquire.
Begin(t) == Start(t) /\ Request(t)

Contend(t) ==
    /\ \/ TakeMutex(t)
       \/ Open(t)
       \/ TryLock(t)
       \/ WouldBlock(t)
       \/ CheckMarker(t)
       \/ Truncate(t)
       \/ Probe(t)
       \/ Unlink(t)
       \/ MarkReclaim(t)
       \/ Nap(t)
    /\ UNCHANGED vars

Granted(t) == WriteMetadata(t) /\ Acquire(t)

\* lock_err: the call ends with the error of acquire.
Refused(t) ==
    /\ MutexTimeout(t) \/ Timeout(t) \/ IoFails(t)
    /\ LockFails(t)

\* The guard lives as long as the call.
Work(t) ==
    /\ Proceed(t)
    /\ IF t \in holders' THEN UNCHANGED lockVars ELSE Release(t)

ProcessDies(p) ==
    LET T == {t \in Tasks : ProcOf[t] = p}
    IN  /\ Die(p)
        /\ call' = [t \in Tasks |-> IF t \in T THEN IdleCall ELSE call[t]]
        /\ holders' = holders \ T
        /\ UNCHANGED <<disk, cache>>

Time == LeaseRunsOut /\ UNCHANGED vars

NextAll ==
    \/ \E t \in Tasks : Begin(t) \/ Contend(t) \/ Granted(t) \/ Refused(t) \/ Work(t)
    \/ \E p \in Procs : ProcessDies(p)
    \/ Time

SpecAll == InitAll /\ [][NextAll]_<<vars, lockVars>>

\* A call that can take a step takes one, whichever layer it is in; that the
\* lock lets it through is not assumed.
FairnessAll ==
    \A t \in Tasks :
        WF_<<vars, lockVars>>(Contend(t) \/ Granted(t) \/ Refused(t) \/ Work(t))

FairSpecAll == SpecAll /\ FairnessAll

-----------------------------------------------------------------------------
(* Properties *)

\* "the single-writer invariant under the lock serializes appends" (storage
\* tests): the calls behave as if the lock were perfect, until a process dies
\* or a lease runs out, among processes that may signal each other.
SerialAppends ==
    /\ Serial!Init
    /\ [][Undisturbed' => [Serial!Next]_vars]_<<vars, lockVars>>

\* README: "Two concurrent writers race and lose an update | Optimistic CAS
\* on line count - second writer retries".  What a call is about to report as
\* accepted is on the file.
NoLostUpdate == ReportedIsOnDisk
=============================================================================
