------------------------------ MODULE FileLock ------------------------------
(***************************************************************************)
(* knotch-lock: FileLock::acquire for one unit.  Two layers: a mutex per   *)
(* process, and an advisory lock (flock) on the inode behind the name      *)
(* `.lock', with a sidecar `.lock.meta' that names the holder.  A          *)
(* contender that finds the sidecar stale unlinks `.lock', so that the     *)
(* name leads to a new inode, and tries again.  Every system call is a     *)
(* step: other tasks, and deaths of processes, come in between.            *)
(***************************************************************************)
EXTENDS Callers, Integers, FiniteSets

CONSTANTS
    Procs, ProcOf,          \* tasks of the same process share a FileLock
    Inodes,                 \* enough for the lock file and every open handle
    MaxPolls,               \* timeout / poll_interval
    Sees,                   \* Sees[p]: the processes p may signal
    PidsRecur,              \* TRUE if the pid of a dead process may name another
    MayDie,                 \* processes that may exit or crash
    LeasesExpire,           \* TRUE if a lease may run out while it is held
    MarkerFails,            \* TRUE if the reclaim marker may fail to be written
    Nil                     \* no inode, no task, no process

ASSUME LockAssumption ==
    /\ ProcOf \in [Tasks -> Procs]
    /\ MaxPolls \in Nat
    /\ Sees \in [Procs -> SUBSET Procs] /\ \A p \in Procs : p \in Sees[p]
    /\ PidsRecur \in BOOLEAN
    /\ MayDie \subseteq Procs
    /\ LeasesExpire \in BOOLEAN
    /\ MarkerFails \in BOOLEAN
    /\ Nil \notin Inodes \cup Tasks \cup Procs

\* A file descriptor per task, and one inode behind the name.
ASSUME InodeAssumption == IsFiniteSet(Tasks) => Cardinality(Inodes) > Cardinality(Tasks)

VARIABLES
    lockFile,   \* the inode `.lock' names, or Nil
    owner,      \* owner[i]: the task whose handle holds the flock of inode i
    meta,       \* `.lock.meta'
    mutex,      \* mutex[p]: the task with the permit of process p
    alive,      \* processes that run
    task        \* where each task is in acquire, and its handle

lockVars == <<lockFile, owner, meta, mutex, alive, task>>

\* The sidecar: missing, empty while it is being rewritten, the reclaim
\* marker, or the metadata of a holder.
Metadata ==
    [kind: {"missing", "empty", "marker", "owner"}, pid: Procs \cup {Nil}, expired: BOOLEAN]
NoMetadata(kind) == [kind |-> kind, pid |-> Nil, expired |-> FALSE]

Steps ==
    {"idle", "queued", "opening", "locking", "checking", "stamping", "writing", "held",
     "probing", "waiting", "reclaiming", "marking", "dead"}

TaskState ==
    [pc: Steps, fd: Inodes \cup {Nil}, polls: 0..MaxPolls, reclaimed: BOOLEAN]
Idle == [pc |-> "idle", fd |-> Nil, polls |-> 0, reclaimed |-> FALSE]

InitLock ==
    /\ lockFile = Nil
    /\ owner = [i \in Inodes |-> Nil]
    /\ meta = NoMetadata("missing")
    /\ mutex = [p \in Procs |-> Nil]
    /\ alive = Procs
    /\ task = [t \in Tasks |-> Idle]

On(t, pc) == task[t].pc = pc
Goto(t, pc) == task' = [task EXCEPT ![t].pc = pc]

\* Closing a handle gives up the flock it holds.
Unlocked(T) == [i \in Inodes |-> IF owner[i] \in T THEN Nil ELSE owner[i]]

\* acquire returns an error, or the guard is dropped: handle, then permit.
Leave(t) ==
    /\ owner' = Unlocked({t})
    /\ mutex' = [mutex EXCEPT ![ProcOf[t]] = Nil]
    /\ task' = [task EXCEPT ![t] = Idle]

Request(t) ==
    /\ On(t, "idle")
    /\ Goto(t, "queued")
    /\ UNCHANGED <<lockFile, owner, meta, mutex, alive>>

\* Mutant: no serialisation inside the process.
PassMutex(t) ==
    /\ On(t, "queued")
    /\ Goto(t, "opening")
    /\ UNCHANGED <<lockFile, owner, meta, mutex, alive>>

TakeMutex(t) ==
    /\ On(t, "queued")
    /\ mutex[ProcOf[t]] = Nil
    /\ mutex' = [mutex EXCEPT ![ProcOf[t]] = t]
    /\ Goto(t, "opening")
    /\ UNCHANGED <<lockFile, owner, meta, alive>>

MutexTimeout(t) ==
    /\ On(t, "queued")
    /\ mutex[ProcOf[t]] # Nil
    /\ Goto(t, "idle")
    /\ UNCHANGED <<lockFile, owner, meta, mutex, alive>>

Unused == {i \in Inodes : i # lockFile /\ \A t \in Tasks : task[t].fd # i}

\* open(O_CREAT): the name's inode, or a new one.
Open(t) ==
    /\ On(t, "opening")
    /\ lockFile' = IF lockFile # Nil THEN lockFile ELSE CHOOSE i \in Unused : TRUE
    /\ task' = [task EXCEPT ![t].pc = "locking", ![t].fd = lockFile']
    /\ UNCHANGED <<owner, meta, mutex, alive>>

\* try_lock_exclusive: on the inode that was opened, linked or not.
TryLock(t) ==
    /\ On(t, "locking")
    /\ owner[task[t].fd] = Nil
    /\ owner' = [owner EXCEPT ![task[t].fd] = t]
    /\ Goto(t, "checking")
    /\ UNCHANGED <<lockFile, meta, mutex, alive>>

WouldBlock(t) ==
    /\ On(t, "locking")
    /\ owner[task[t].fd] # Nil
    /\ Goto(t, "probing")
    /\ UNCHANGED <<lockFile, owner, meta, mutex, alive>>

CheckMarker(t) ==
    /\ On(t, "checking")
    /\ task' = [task EXCEPT ![t].pc = "stamping", ![t].reclaimed = (meta.kind = "marker")]
    /\ UNCHANGED <<lockFile, owner, meta, mutex, alive>>

\* File::create empties the sidecar before the metadata is written.
Truncate(t) ==
    /\ On(t, "stamping")
    /\ meta' = NoMetadata("empty")
    /\ Goto(t, "writing")
    /\ UNCHANGED <<lockFile, owner, mutex, alive>>

WriteMetadata(t) ==
    /\ On(t, "writing")
    /\ meta' = [kind |-> "owner", pid |-> ProcOf[t], expired |-> FALSE]
    /\ Goto(t, "held")
    /\ UNCHANGED <<lockFile, owner, mutex, alive>>

\* open, try_lock, or reading or writing the sidecar fails: acquire returns the
\* error and its handle is closed.
IoFails(t) ==
    /\ task[t].pc \in {"opening", "locking", "probing", "stamping", "writing"}
    /\ Leave(t)
    /\ UNCHANGED <<lockFile, meta, alive>>

\* pid_alive, as a set of answers: signal 0 gets through to a process of the
\* same user and the same pid namespace.  One of another user gives EPERM,
\* which is taken for its death; in another namespace the number is nobody's or
\* somebody else's, as it may be after a death.  (Off Unix nobody is dead.)
PidAlive(p, pid) ==
    IF pid \in alive
    THEN IF pid \in Sees[p] THEN {TRUE} ELSE BOOLEAN
    ELSE IF PidsRecur THEN BOOLEAN ELSE {FALSE}

\* Mutant: a sidecar that says nothing counts as stale.
ShouldReclaimUnknown(looksAlive) ==
    meta.kind # "owner" \/ meta.expired \/ ~looksAlive

\* Missing, empty and malformed metadata say nothing: no reclaim.
ShouldReclaim(looksAlive) == meta.kind = "owner" /\ (meta.expired \/ ~looksAlive)

\* read_metadata and should_reclaim; a stale sidecar makes the contender
\* close its handle.
Probe(t) ==
    /\ On(t, "probing")
    /\ \E looksAlive \in PidAlive(ProcOf[t], meta.pid) :
          IF ShouldReclaim(looksAlive)
          THEN task' = [task EXCEPT ![t].pc = "reclaiming", ![t].fd = Nil]
          ELSE Goto(t, "waiting")
    /\ UNCHANGED <<lockFile, owner, meta, mutex, alive>>

\* remove_file: whatever inode the name leads to by now, if any.
Unlink(t) ==
    /\ On(t, "reclaiming")
    /\ lockFile' = Nil
    /\ Goto(t, "marking")
    /\ UNCHANGED <<owner, meta, mutex, alive>>

\* A failure to write the marker is ignored.
MarkReclaim(t) ==
    /\ On(t, "marking")
    /\ \/ meta' = NoMetadata("marker")
       \/ MarkerFails /\ meta' \in {meta, NoMetadata("empty")}
    /\ Goto(t, "opening")
    /\ UNCHANGED <<lockFile, owner, mutex, alive>>

\* Mutant: the timeout is not looked at between polls.
NapAgain(t) ==
    /\ On(t, "waiting")
    /\ task' = [task EXCEPT ![t].pc = "opening", ![t].fd = Nil]
    /\ UNCHANGED <<lockFile, owner, meta, mutex, alive>>

\* Mutant: one poll past the timeout.
NapOnceMore(t) ==
    /\ On(t, "waiting")
    /\ task[t].polls <= MaxPolls
    /\ task' = [task EXCEPT ![t].pc = "opening", ![t].fd = Nil, ![t].polls = @ + 1]
    /\ UNCHANGED <<lockFile, owner, meta, mutex, alive>>

Nap(t) ==
    /\ On(t, "waiting")
    /\ task[t].polls < MaxPolls
    /\ task' = [task EXCEPT ![t].pc = "opening", ![t].fd = Nil, ![t].polls = @ + 1]
    /\ UNCHANGED <<lockFile, owner, meta, mutex, alive>>

Timeout(t) ==
    /\ On(t, "waiting")
    /\ Leave(t)
    /\ UNCHANGED <<lockFile, meta, alive>>

Release(t) ==
    /\ On(t, "held")
    /\ Leave(t)
    /\ UNCHANGED <<lockFile, meta, alive>>

\* A process exits or crashes: the system closes its handles; the name and
\* the sidecar stay.
Die(p) ==
    /\ p \in alive \cap MayDie
    /\ alive' = alive \ {p}
    /\ LET T == {t \in Tasks : ProcOf[t] = p}
       IN  /\ owner' = Unlocked(T)
           /\ task' = [t \in Tasks |-> IF t \in T THEN [Idle EXCEPT !.pc = "dead"] ELSE task[t]]
    /\ mutex' = [mutex EXCEPT ![p] = Nil]
    /\ UNCHANGED <<lockFile, meta>>

\* Time passes beyond acquired_at + lease.
LeaseRunsOut ==
    /\ LeasesExpire
    /\ meta.kind = "owner"
    /\ meta' = [meta EXCEPT !.expired = TRUE]
    /\ UNCHANGED <<lockFile, owner, mutex, alive, task>>

\* The steps of acquire after the call was made.
Advance(t) ==
    \/ TakeMutex(t)
    \/ MutexTimeout(t)
    \/ Open(t)
    \/ TryLock(t)
    \/ WouldBlock(t)
    \/ CheckMarker(t)
    \/ Truncate(t)
    \/ WriteMetadata(t)
    \/ IoFails(t)
    \/ Probe(t)
    \/ Unlink(t)
    \/ MarkReclaim(t)
    \/ Nap(t)
    \/ Timeout(t)

NextLock ==
    \/ \E t \in Tasks : Request(t) \/ Advance(t) \/ Release(t)
    \/ \E p \in Procs : Die(p)
    \/ LeaseRunsOut

SpecLock == InitLock /\ [][NextLock]_lockVars

-----------------------------------------------------------------------------
(* Properties *)

Holders == {t \in Tasks : On(t, "held")}

TypeOKLock ==
    /\ lockFile \in Inodes \cup {Nil}
    /\ owner \in [Inodes -> Tasks \cup {Nil}]
    /\ meta \in Metadata
    /\ mutex \in [Procs -> Tasks \cup {Nil}]
    /\ alive \in SUBSET Procs
    /\ task \in [Tasks -> TaskState]

\* One guard at a time.
MutualExclusion == \A t, u \in Holders : t = u

\* What a contender reads while the lock is held is the holder's own metadata.
SidecarNamesHolder ==
    \A t \in Holders : meta = [kind |-> "owner", pid |-> ProcOf[t], expired |-> FALSE]

\* Nobody has died, no lease runs out, and every process may signal every other.
Undisturbed == alive = Procs /\ ~LeasesExpire /\ \A p \in Procs : Sees[p] = Procs

\* "single-writer invariant under the lock" (storage tests): until a process
\* dies or a lease runs out there is one guard at a time, across processes, and
\* the sidecar contenders judge it by is its own, if they all run as one user
\* and see each other's pids.  Otherwise a live holder is taken for dead.
SoleHolder == Undisturbed => MutualExclusion /\ SidecarNamesHolder

\* The first layer: tasks of one process never hold the lock together, even
\* when leases run out or a holder is taken for dead, and the file lock is
\* reclaimed under it.
InProcessExclusion == \A t, u \in Holders : ProcOf[t] = ProcOf[u] => t = u
=============================================================================
