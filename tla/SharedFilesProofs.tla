------------------------- MODULE SharedFilesProofs -------------------------
(***************************************************************************)
(* Proofs about what processes share through the file system with nothing  *)
(* above it to order them: the lock files of FileLock, with FileRepository *)
(* over them, and the entries of HookQueue's directory.  The two parts do  *)
(* not depend on each other.                                               *)
(*                                                                         *)
(* Locks.  The in-process layer of the lock is sound whatever happens to   *)
(* the file lock; the file lock is sound as long as no process dies and no *)
(* lease runs out, because then nobody ever finds a stale sidecar, and so  *)
(* `.lock' names one inode for ever.  The layers agree on who holds the    *)
(* guard at all times, so that what FileRepositoryProofs says of an        *)
(* exclusive lock holds of this one for just as long.                      *)
(*                                                                         *)
(* The queue, for any number of hooks, drains, bodies and entries: the     *)
(* types, the queueing promise, and how far the queue may outgrow its cap. *)
(***************************************************************************)
EXTENDS LockedRepository, HookQueue, FileRepositoryProofs

-----------------------------------------------------------------------------
(* Locks: types *)

\* There is an inode left for O_CREAT: fewer are open than there are tasks.
LEMMA UnusedInode ==
    ASSUME IsFiniteSet(Tasks), TypeOKLock, lockFile = Nil
    PROVE  Unused # {}
<1> SUFFICES ASSUME Unused = {} PROVE FALSE
  OBVIOUS
<1> DEFINE f == [t \in Tasks |-> task[t].fd]
           Open_ == {f[t] : t \in Tasks}
<1>1. f \in Surjection(Tasks, Open_)
  BY DEF Surjection
<1>2. IsFiniteSet(Open_) /\ Cardinality(Open_) <= Cardinality(Tasks)
  <2> HIDE DEF f, Open_
  <2>. QED
    BY <1>1, FS_Surjection
<1>3. Inodes \subseteq Open_
  <2> SUFFICES ASSUME NEW i \in Inodes PROVE i \in Open_
    OBVIOUS
  <2>1. i # lockFile
    BY LockAssumption
  <2>2. PICK t \in Tasks : task[t].fd = i
    BY <2>1 DEF Unused
  <2>. QED
    BY <2>2
<1> HIDE DEF Open_
<1>4. IsFiniteSet(Inodes) /\ Cardinality(Inodes) <= Cardinality(Open_)
  BY <1>2, <1>3, FS_Subset
<1>5. /\ Cardinality(Inodes) \in Nat /\ Cardinality(Open_) \in Nat
      /\ Cardinality(Tasks) \in Nat
  BY <1>2, <1>4, FS_CardinalityType
<1>. QED
  BY <1>2, <1>4, <1>5, InodeAssumption

\* open(O_CREAT) leaves a file behind the name.
LEMMA OpenFinds ==
    ASSUME IsFiniteSet(Tasks), TypeOKLock, NEW t \in Tasks, Open(t)
    PROVE  lockFile' \in Inodes
<1>1. CASE lockFile = Nil
  <2>1. (CHOOSE i \in Unused : TRUE) \in Unused
    BY <1>1, UnusedInode
  <2>. QED
    BY <1>1, <2>1 DEF Open, Unused
<1>2. CASE lockFile # Nil
  BY <1>2 DEF Open, TypeOKLock
<1>. QED
  BY <1>1, <1>2

\* Closing handles leaves a map from inodes to tasks.
LEMMA UnlockedType ==
    ASSUME TypeOKLock, NEW T
    PROVE  Unlocked(T) \in [Inodes -> Tasks \cup {Nil}]
  BY DEF TypeOKLock, Unlocked

\* A call that leaves acquire keeps nothing.
LEMMA LeaveType ==
    ASSUME TypeOKLock, NEW t \in Tasks, Leave(t), UNCHANGED <<lockFile, meta, alive>>
    PROVE  TypeOKLock'
<1>1. Unlocked({t}) \in [Inodes -> Tasks \cup {Nil}]
  BY UnlockedType
<1>2. Idle \in TaskState
  BY LockAssumption DEF Idle, TaskState, Steps
<1>. QED
  BY <1>1, <1>2 DEF TypeOKLock, Leave

\* A step that only moves the program counter.
LEMMA GotoType ==
    ASSUME TypeOKLock, NEW t \in Tasks, NEW pc \in Steps, Goto(t, pc)
    PROVE  task' \in [Tasks -> TaskState]
  BY DEF TypeOKLock, Goto, TaskState

\* Steps that move a task and set one more field of its state.
LEMMA TaskTypes ==
    ASSUME TypeOKLock, NEW t \in Tasks, NEW pc \in Steps
    PROVE  /\ \A i \in Inodes : [task EXCEPT ![t].pc = pc, ![t].fd = i] \in [Tasks -> TaskState]
           /\ \A r \in BOOLEAN :
                [task EXCEPT ![t].pc = pc, ![t].reclaimed = r] \in [Tasks -> TaskState]
<1>1. ASSUME NEW i \in Inodes
      PROVE  [task EXCEPT ![t].pc = pc, ![t].fd = i] \in [Tasks -> TaskState]
  BY DEF TypeOKLock, TaskState
<1>2. ASSUME NEW r \in BOOLEAN
      PROVE  [task EXCEPT ![t].pc = pc, ![t].reclaimed = r] \in [Tasks -> TaskState]
  BY DEF TypeOKLock, TaskState
<1>. QED
  BY <1>1, <1>2

\* Every step of the lock keeps the types.
LEMMA TypeStep ==
    ASSUME IsFiniteSet(Tasks), TypeOKLock, [NextLock]_lockVars
    PROVE  TypeOKLock'
<1>1. CASE UNCHANGED lockVars
  BY <1>1 DEF lockVars, TypeOKLock
<1>2. ASSUME NEW t \in Tasks, Request(t)
      PROVE  TypeOKLock'
  BY <1>2, GotoType DEF Request, TypeOKLock, Steps
<1>3. ASSUME NEW t \in Tasks, Release(t)
      PROVE  TypeOKLock'
  BY <1>3, LeaveType DEF Release
<1>4. ASSUME NEW t \in Tasks, Advance(t)
      PROVE  TypeOKLock'
  <2>1. CASE TakeMutex(t)
    BY <2>1, GotoType, LockAssumption DEF TakeMutex, TypeOKLock, Steps
  <2>2. CASE MutexTimeout(t)
    BY <2>2, GotoType DEF MutexTimeout, TypeOKLock, Steps
  <2>3. CASE Open(t)
    <3>1. lockFile' \in Inodes
      BY <2>3, OpenFinds
    <3>2. task' \in [Tasks -> TaskState]
      <4>1. task' = [task EXCEPT ![t].pc = "locking", ![t].fd = lockFile']
        BY <2>3 DEF Open
      <4>2. "locking" \in Steps
        BY DEF Steps
      <4>. QED
        BY <3>1, <4>1, <4>2, TaskTypes
    <3>. QED
      BY <2>3, <3>1, <3>2 DEF Open, TypeOKLock
  <2>4. CASE TryLock(t)
    BY <2>4, GotoType DEF TryLock, TypeOKLock, Steps
  <2>5. CASE WouldBlock(t)
    BY <2>5, GotoType DEF WouldBlock, TypeOKLock, Steps
  <2>6. CASE CheckMarker(t)
    <3>1. (meta.kind = "marker") \in BOOLEAN /\ "stamping" \in Steps
      BY DEF Steps
    <3>2. task' = [task EXCEPT ![t].pc = "stamping", ![t].reclaimed = (meta.kind = "marker")]
      BY <2>6 DEF CheckMarker
    <3>3. task' \in [Tasks -> TaskState]
      BY <3>1, <3>2, TaskTypes
    <3>. QED
      BY <2>6, <3>3 DEF CheckMarker, TypeOKLock
  <2>7. CASE Truncate(t)
    BY <2>7, GotoType DEF Truncate, TypeOKLock, Steps, NoMetadata, Metadata
  <2>8. CASE WriteMetadata(t)
    BY <2>8, GotoType, LockAssumption DEF WriteMetadata, TypeOKLock, Steps, Metadata
  <2>9. CASE IoFails(t)
    BY <2>9, LeaveType DEF IoFails
  <2>10. CASE Probe(t)
    <3>1. task' \in [Tasks -> TaskState]
      BY <2>10, GotoType DEF Probe, TypeOKLock, TaskState, Steps
    <3>. QED
      BY <2>10, <3>1 DEF Probe, TypeOKLock
  <2>11. CASE Unlink(t)
    BY <2>11, GotoType DEF Unlink, TypeOKLock, Steps
  <2>12. CASE MarkReclaim(t)
    <3>1. task' \in [Tasks -> TaskState]
      BY <2>12, GotoType DEF MarkReclaim, Steps
    <3>2. NoMetadata("marker") \in Metadata /\ NoMetadata("empty") \in Metadata
      BY DEF NoMetadata, Metadata
    <3>. QED
      BY <2>12, <3>1, <3>2 DEF MarkReclaim, TypeOKLock
  <2>13. CASE Nap(t)
    BY <2>13, LockAssumption DEF Nap, TypeOKLock, TaskState, Steps
  <2>14. CASE Timeout(t)
    BY <2>14, LeaveType DEF Timeout
  <2>. QED
    BY <1>4, <2>1, <2>2, <2>3, <2>4, <2>5, <2>6, <2>7, <2>8, <2>9, <2>10, <2>11, <2>12,
       <2>13, <2>14 DEF Advance
<1>5. ASSUME NEW p \in Procs, Die(p)
      PROVE  TypeOKLock'
  <2> DEFINE T == {t \in Tasks : ProcOf[t] = p}
  <2>1. Unlocked(T) \in [Inodes -> Tasks \cup {Nil}]
    BY UnlockedType
  <2>2. [Idle EXCEPT !.pc = "dead"] \in TaskState
    <3>1. Idle \in TaskState /\ "dead" \in Steps
      BY LockAssumption DEF Idle, TaskState, Steps
    <3>. QED
      BY <3>1 DEF TaskState
  <2>. QED
    BY <1>5, <2>1, <2>2 DEF Die, TypeOKLock
<1>6. CASE LeaseRunsOut
  BY <1>6 DEF LeaseRunsOut, TypeOKLock, Metadata
<1>. QED
  BY <1>1, <1>2, <1>3, <1>4, <1>5, <1>6 DEF NextLock

-----------------------------------------------------------------------------
(* Locks: the first layer: the mutex of a process *)

\* A call past the mutex owns the permit of its process.
Permits ==
    \A t \in Tasks : task[t].pc \notin {"idle", "queued", "dead"} => mutex[ProcOf[t]] = t

\* A step of one task that leaves the mutexes alone and does not get past the
\* mutex without the permit.
LEMMA PermitKept ==
    ASSUME TypeOKLock, Permits, NEW t \in Tasks, mutex' = mutex,
           \A u \in Tasks : u # t => task'[u] = task[u],
           \/ task[t].pc \notin {"idle", "queued", "dead"}
           \/ task'[t].pc \in {"idle", "queued", "dead"}
    PROVE  Permits'
  BY DEF Permits

\* A call that leaves hands the permit back; it was its own.
LEMMA PermitReturned ==
    ASSUME TypeOKLock, Permits, NEW t \in Tasks, Leave(t),
           task[t].pc \notin {"idle", "queued", "dead"}
    PROVE  Permits'
<1>1. /\ mutex' = [mutex EXCEPT ![ProcOf[t]] = Nil]
      /\ task'[t] = Idle /\ \A u \in Tasks : u # t => task'[u] = task[u]
  BY DEF Leave, TypeOKLock
<1>2. Idle.pc = "idle"
  BY DEF Idle
<1>. QED
  BY <1>1, <1>2, LockAssumption DEF Permits, TypeOKLock

\* Every step keeps permits with the calls that took them.
LEMMA PermitStep ==
    ASSUME TypeOKLock, Permits, [NextLock]_lockVars
    PROVE  Permits'
<1>1. CASE UNCHANGED lockVars
  BY <1>1 DEF lockVars, Permits
<1>2. ASSUME NEW t \in Tasks, Request(t)
      PROVE  Permits'
  BY <1>2, PermitKept DEF Request, Goto, TypeOKLock, TaskState
<1>3. ASSUME NEW t \in Tasks, Release(t)
      PROVE  Permits'
  BY <1>3, PermitReturned DEF Release, On
<1>4. ASSUME NEW t \in Tasks, Advance(t)
      PROVE  Permits'
  <2>1. CASE TakeMutex(t)
    BY <2>1, LockAssumption DEF TakeMutex, Goto, Permits, TypeOKLock, TaskState
  <2>2. CASE MutexTimeout(t)
    BY <2>2, PermitKept DEF MutexTimeout, Goto, TypeOKLock, TaskState
  <2>3. CASE Open(t)
    BY <2>3, PermitKept DEF Open, On, TypeOKLock
  <2>4. CASE TryLock(t)
    BY <2>4, PermitKept DEF TryLock, On, Goto, TypeOKLock
  <2>5. CASE WouldBlock(t)
    BY <2>5, PermitKept DEF WouldBlock, On, Goto, TypeOKLock
  <2>6. CASE CheckMarker(t)
    BY <2>6, PermitKept DEF CheckMarker, On, TypeOKLock
  <2>7. CASE Truncate(t)
    BY <2>7, PermitKept DEF Truncate, On, Goto, TypeOKLock
  <2>8. CASE WriteMetadata(t)
    BY <2>8, PermitKept DEF WriteMetadata, On, Goto, TypeOKLock
  <2>9. CASE IoFails(t)
    BY <2>9, PermitReturned DEF IoFails
  <2>10. CASE Probe(t)
    BY <2>10, PermitKept DEF Probe, On, Goto, TypeOKLock
  <2>11. CASE Unlink(t)
    BY <2>11, PermitKept DEF Unlink, On, Goto, TypeOKLock
  <2>12. CASE MarkReclaim(t)
    BY <2>12, PermitKept DEF MarkReclaim, On, Goto, TypeOKLock
  <2>13. CASE Nap(t)
    BY <2>13, PermitKept DEF Nap, On, TypeOKLock
  <2>14. CASE Timeout(t)
    BY <2>14, PermitReturned DEF Timeout, On
  <2>. QED
    BY <1>4, <2>1, <2>2, <2>3, <2>4, <2>5, <2>6, <2>7, <2>8, <2>9, <2>10, <2>11, <2>12,
       <2>13, <2>14 DEF Advance
<1>5. ASSUME NEW p \in Procs, Die(p)
      PROVE  Permits'
  <2>1. ASSUME NEW u \in Tasks, ProcOf[u] = p
        PROVE  task'[u].pc = "dead"
    BY <1>5, <2>1 DEF Die, Idle
  <2>2. ASSUME NEW u \in Tasks, ProcOf[u] # p
        PROVE  task'[u] = task[u] /\ mutex'[ProcOf[u]] = mutex[ProcOf[u]]
    BY <1>5, <2>2, LockAssumption DEF Die, TypeOKLock
  <2>. QED
    BY <2>1, <2>2 DEF Permits
<1>6. CASE LeaseRunsOut
  BY <1>6 DEF LeaseRunsOut, Permits
<1>. QED
  BY <1>1, <1>2, <1>3, <1>4, <1>5, <1>6 DEF NextLock

-----------------------------------------------------------------------------
(* Locks: the second layer: one inode behind the name *)

\* Tasks whose handle has the flock.
Owning(t) == task[t].pc \in {"checking", "stamping", "writing", "held"}

\* Without deaths and expiries no sidecar is ever stale: nobody reclaims,
\* every open handle is a handle of the inode `.lock' names, and the sidecar
\* of a holder is its own.
LongLived ==
    /\ alive = Procs
    /\ meta.kind = "owner" => ~meta.expired /\ meta.pid \in Procs
    /\ \A t \in Tasks : task[t].pc \notin {"reclaiming", "marking"}
    /\ \A t \in Tasks : task[t].fd # Nil => task[t].fd = lockFile
    /\ \A t \in Tasks : task[t].pc = "locking" => task[t].fd # Nil
    /\ \A t \in Tasks : Owning(t) => task[t].fd # Nil /\ owner[task[t].fd] = t
    /\ \A t \in Tasks :
          On(t, "held") => meta = [kind |-> "owner", pid |-> ProcOf[t], expired |-> FALSE]

\* Two tasks cannot both have the flock: they have it of the same inode.
LEMMA OneOwner ==
    ASSUME LongLived, NEW t \in Tasks, NEW u \in Tasks, Owning(t), Owning(u)
    PROVE  t = u
  BY DEF LongLived

\* A call that leaves closes only its own handle.
LEMMA LeaveLongLived ==
    ASSUME TypeOKLock, LongLived, NEW t \in Tasks, Leave(t), UNCHANGED <<lockFile, meta, alive>>
    PROVE  LongLived'
<1>1. task'[t] = Idle /\ \A u \in Tasks : u # t => task'[u] = task[u]
  BY DEF Leave, TypeOKLock
<1>2. Idle.pc = "idle" /\ Idle.fd = Nil
  BY DEF Idle
<1>3. ASSUME NEW u \in Tasks, u # t, Owning(u)
      PROVE  owner'[task[u].fd] = u
  <2>1. task[u].fd \in Inodes /\ owner[task[u].fd] = u
    BY <1>3 DEF LongLived, TypeOKLock, TaskState
  <2>. QED
    BY <1>3, <2>1 DEF Leave, Unlocked
<1>. QED
  BY <1>1, <1>2, <1>3 DEF LongLived, Owning, On

\* A step of one task that keeps its handle, the files and the locks.
LEMMA MoveLongLived ==
    ASSUME TypeOKLock, LongLived, NEW t \in Tasks, NEW pc \in Steps,
           UNCHANGED <<lockFile, owner, meta, alive>>,
           task'[t].pc = pc, task'[t].fd = task[t].fd,
           \A u \in Tasks : u # t => task'[u] = task[u],
           pc \notin {"locking", "reclaiming", "marking", "held"},
           pc \in {"checking", "stamping", "writing"} => Owning(t)
    PROVE  LongLived'
  BY DEF LongLived, Owning, On

\* As long as no process dies or is taken for dead and no lease runs out, every
\* step keeps it so.
LEMMA LongLivedStep ==
    ASSUME IsFiniteSet(Tasks), Undisturbed', TypeOKLock, LongLived, [NextLock]_lockVars
    PROVE  LongLived'
<1>1. CASE UNCHANGED lockVars
  BY <1>1 DEF lockVars, LongLived, Owning, On
<1>2. ASSUME NEW t \in Tasks, Request(t)
      PROVE  LongLived'
  BY <1>2, MoveLongLived DEF Request, Goto, TypeOKLock, TaskState, Steps
<1>3. ASSUME NEW t \in Tasks, Release(t)
      PROVE  LongLived'
  BY <1>3, LeaveLongLived DEF Release
<1>4. ASSUME NEW t \in Tasks, Advance(t)
      PROVE  LongLived'
  <2>1. CASE TakeMutex(t)
    BY <2>1, MoveLongLived DEF TakeMutex, Goto, TypeOKLock, TaskState, Steps
  <2>2. CASE MutexTimeout(t)
    BY <2>2, MoveLongLived DEF MutexTimeout, Goto, TypeOKLock, TaskState, Steps
  <2>3. CASE Open(t)
    <3>1. /\ task'[t].pc = "locking" /\ task'[t].fd = lockFile'
          /\ \A u \in Tasks : u # t => task'[u] = task[u]
      BY <2>3 DEF Open, TypeOKLock, TaskState
    <3>2. ASSUME NEW u \in Tasks, u # t, task[u].fd # Nil
          PROVE  task[u].fd = lockFile'
      <4>1. task[u].fd = lockFile
        BY <3>2 DEF LongLived
      <4>. QED
        BY <2>3, <3>2, <4>1 DEF Open
    <3>3. UNCHANGED <<owner, meta, mutex, alive>> /\ lockFile' # Nil
      BY <2>3, OpenFinds, LockAssumption DEF Open
    <3>. QED
      BY <3>1, <3>2, <3>3 DEF LongLived, Owning, On
  <2>4. CASE TryLock(t)
    <3>1. /\ task'[t].pc = "checking" /\ task'[t].fd = task[t].fd
          /\ \A u \in Tasks : u # t => task'[u] = task[u]
          /\ owner[task[t].fd] = Nil
          /\ owner' = [owner EXCEPT ![task[t].fd] = t]
          /\ UNCHANGED <<lockFile, meta, mutex, alive>>
      BY <2>4 DEF TryLock, Goto, TypeOKLock, TaskState
    <3>2. task[t].fd \in Inodes /\ task[t].fd # Nil
      BY <2>4 DEF TryLock, On, LongLived, TypeOKLock, TaskState
    <3>3. ASSUME NEW u \in Tasks, u # t, Owning(u)
          PROVE  owner'[task[u].fd] = u
      <4>1. task[u].fd # task[t].fd
        BY <3>1, <3>3, LockAssumption DEF LongLived
      <4>. QED
        BY <3>1, <3>3, <4>1 DEF LongLived
    <3>4. owner'[task[t].fd] = t
      BY <3>1, <3>2 DEF TypeOKLock
    <3>. QED
      BY <3>1, <3>2, <3>3, <3>4 DEF LongLived, Owning, On
  <2>5. CASE WouldBlock(t)
    BY <2>5, MoveLongLived DEF WouldBlock, Goto, TypeOKLock, TaskState, Steps
  <2>6. CASE CheckMarker(t)
    BY <2>6, MoveLongLived DEF CheckMarker, On, Owning, TypeOKLock, TaskState, Steps
  <2>7. CASE Truncate(t)
    <3>1. /\ task'[t].pc = "writing" /\ task'[t].fd = task[t].fd
          /\ \A u \in Tasks : u # t => task'[u] = task[u]
          /\ meta'.kind = "empty" /\ Owning(t)
          /\ UNCHANGED <<lockFile, owner, mutex, alive>>
      BY <2>7 DEF Truncate, Goto, TypeOKLock, TaskState, NoMetadata, On, Owning
    <3>. QED
      BY <3>1, OneOwner DEF LongLived, Owning, On
  <2>8. CASE WriteMetadata(t)
    <3>1. /\ task'[t].pc = "held" /\ task'[t].fd = task[t].fd
          /\ \A u \in Tasks : u # t => task'[u] = task[u]
          /\ meta' = [kind |-> "owner", pid |-> ProcOf[t], expired |-> FALSE] /\ Owning(t)
          /\ UNCHANGED <<lockFile, owner, mutex, alive>>
      BY <2>8 DEF WriteMetadata, Goto, TypeOKLock, TaskState, On, Owning
    <3>2. \A u \in Tasks : Owning(u) => u = t
      BY <3>1, OneOwner
    <3>3. meta'.kind = "owner" /\ ~meta'.expired /\ meta'.pid \in Procs
      BY <3>1, LockAssumption
    <3>4. ASSUME NEW u \in Tasks, task'[u].pc = "held"
          PROVE  u = t
      BY <3>1, <3>2, <3>4 DEF Owning
    <3>5. \A u \in Tasks : task'[u].fd = task[u].fd /\ (Owning(u)' => Owning(u))
      BY <3>1 DEF Owning
    <3>6. \A u \in Tasks : task'[u].pc \notin {"reclaiming", "marking"}
      BY <3>1 DEF LongLived
    <3>7. \A u \in Tasks : task'[u].pc = "locking" => task'[u].fd # Nil
      BY <3>1 DEF LongLived
    <3>8. \A u \in Tasks : Owning(u)' => task'[u].fd # Nil /\ owner'[task'[u].fd] = u
      BY <3>1, <3>5 DEF LongLived
    <3>9. \A u \in Tasks : task'[u].fd # Nil => task'[u].fd = lockFile'
      BY <3>1, <3>5 DEF LongLived
    <3>10. ASSUME NEW u \in Tasks, On(u, "held")'
           PROVE  meta' = [kind |-> "owner", pid |-> ProcOf[u], expired |-> FALSE]
      BY <3>1, <3>4, <3>10 DEF On
    <3>. QED
      BY <3>1, <3>3, <3>6, <3>7, <3>8, <3>9, <3>10 DEF LongLived
  <2>9. CASE IoFails(t)
    BY <2>9, LeaveLongLived DEF IoFails
  <2>10. CASE Probe(t)
    <3>1. ASSUME NEW looksAlive \in PidAlive(ProcOf[t], meta.pid)
          PROVE  ~ShouldReclaim(looksAlive)
      <4>1. meta.kind = "owner" => meta.pid \in alive \cap Sees[ProcOf[t]]
        BY LockAssumption DEF LongLived, Undisturbed
      <4>. QED
        BY <4>1, <3>1 DEF ShouldReclaim, PidAlive, LongLived
    <3>. QED
      BY <2>10, <3>1, MoveLongLived DEF Probe, Goto, TypeOKLock, TaskState, Steps
  <2>11. CASE Unlink(t)
    BY <2>11 DEF Unlink, On, LongLived
  <2>12. CASE MarkReclaim(t)
    BY <2>12 DEF MarkReclaim, On, LongLived
  <2>13. CASE Nap(t)
    <3>1. /\ task'[t].pc = "opening" /\ task'[t].fd = Nil
          /\ \A u \in Tasks : u # t => task'[u] = task[u]
      BY <2>13 DEF Nap, TypeOKLock, TaskState
    <3>2. UNCHANGED <<lockFile, owner, meta, alive>>
      BY <2>13 DEF Nap
    <3>. QED
      BY <3>1, <3>2 DEF LongLived, Owning, On
  <2>14. CASE Timeout(t)
    BY <2>14, LeaveLongLived DEF Timeout
  <2>. QED
    BY <1>4, <2>1, <2>2, <2>3, <2>4, <2>5, <2>6, <2>7, <2>8, <2>9, <2>10, <2>11, <2>12,
       <2>13, <2>14 DEF Advance
<1>5. ASSUME NEW p \in Procs, Die(p)
      PROVE  LongLived'
  BY <1>5 DEF Die, TypeOKLock, Undisturbed
<1>6. CASE LeaseRunsOut
  BY <1>6 DEF LeaseRunsOut, Undisturbed
<1>. QED
  BY <1>1, <1>2, <1>3, <1>4, <1>5, <1>6 DEF NextLock

\* Processes die and do not come back.
LEMMA NobodyReturns ==
    ASSUME TypeOKLock, [NextLock]_lockVars, alive' = Procs
    PROVE  alive = Procs
<1>1. alive' \subseteq alive
  BY DEF NextLock, lockVars, Request, Release, Advance, TakeMutex, MutexTimeout, Open, TryLock,
         WouldBlock, CheckMarker, Truncate, WriteMetadata, IoFails, Probe, Unlink, MarkReclaim,
         Nap, Timeout, Die, LeaseRunsOut
<1>. QED
  BY <1>1 DEF TypeOKLock

\* Every condition holds of the initial state.
LEMMA InitLockInv == InitLock => TypeOKLock /\ Permits /\ LongLived
<1> SUFFICES ASSUME InitLock PROVE TypeOKLock /\ Permits /\ LongLived
  OBVIOUS
<1>1. Idle \in TaskState /\ Idle.pc = "idle" /\ Idle.fd = Nil
  BY LockAssumption DEF Idle, TaskState, Steps
<1>2. NoMetadata("missing") \in Metadata /\ NoMetadata("missing").kind = "missing"
  BY DEF NoMetadata, Metadata
<1>. QED
  BY <1>1, <1>2 DEF InitLock, TypeOKLock, Permits, LongLived, Owning, On

\* One permit, one guard.
LEMMA PermitsExclude == Permits => InProcessExclusion
  BY DEF Permits, InProcessExclusion, Holders, On

\* One inode, one guard, and its sidecar.
LEMMA LongLivedIsSole == LongLived => MutualExclusion /\ SidecarNamesHolder
<1>1. LongLived => MutualExclusion
  <2> SUFFICES ASSUME LongLived, NEW t \in Holders, NEW u \in Holders PROVE t = u
    BY DEF MutualExclusion
  <2>1. t \in Tasks /\ u \in Tasks /\ Owning(t) /\ Owning(u)
    BY DEF Holders, On, Owning
  <2>. QED
    BY <2>1, OneOwner
<1>2. LongLived => SidecarNamesHolder
  BY DEF LongLived, SidecarNamesHolder, Holders
<1>. QED
  BY <1>1, <1>2

-----------------------------------------------------------------------------
(* Locks: theorems about the lock by itself *)

\* FileLock: types hold for any number of tasks, deaths and expiries; O_CREAT
\* always finds an inode.
THEOREM LockTypes ==
    ASSUME IsFiniteSet(Tasks)
    PROVE  SpecLock => []TypeOKLock
<1>1. InitLock => TypeOKLock
  BY InitLockInv
<1>2. TypeOKLock /\ [NextLock]_lockVars => TypeOKLock'
  BY TypeStep
<1>. QED
  BY <1>1, <1>2, PTL DEF SpecLock

\* FileLock::mutex_for: two tasks of one process never hold a guard together,
\* whatever leases run out and whichever processes die.
THEOREM NeverTwoInOneProcess ==
    ASSUME IsFiniteSet(Tasks)
    PROVE  SpecLock => []InProcessExclusion
<1>1. InitLock => Permits
  BY InitLockInv
<1>2. TypeOKLock /\ Permits /\ [NextLock]_lockVars => Permits'
  BY PermitStep
<1>. QED
  BY <1>1, <1>2, PermitsExclude, LockTypes, PTL DEF SpecLock

\* Lock::acquire: until a process dies or a lease runs out, among processes that
\* may signal each other, at most one guard exists for a unit, and LockMetadata
\* names its holder.
THEOREM OneNamedHolder ==
    ASSUME IsFiniteSet(Tasks)
    PROVE  SpecLock => []SoleHolder
<1> DEFINE Lasting == Undisturbed => LongLived
<1>1. InitLock => Lasting
  BY InitLockInv
<1>2. TypeOKLock /\ Lasting /\ [NextLock]_lockVars => Lasting'
  <2> SUFFICES ASSUME TypeOKLock, Lasting, [NextLock]_lockVars, Undisturbed'
               PROVE  LongLived'
    OBVIOUS
  <2>1. Undisturbed
    BY NobodyReturns DEF Undisturbed
  <2>. QED
    BY <2>1, LongLivedStep
<1>3. Lasting => SoleHolder
  BY LongLivedIsSole DEF SoleHolder
<1>. QED
  BY <1>1, <1>2, <1>3, LockTypes, PTL DEF SpecLock

-----------------------------------------------------------------------------
(* Locks: the two layers together *)

\* Each step is a step of the lock, or leaves it alone.
LEMMA LockPart ==
    ASSUME [NextAll]_<<vars, lockVars>>
    PROVE  [NextLock]_lockVars
<1>1. ASSUME NEW t \in Tasks, Begin(t) \/ Contend(t) \/ Granted(t) \/ Refused(t)
      PROVE  NextLock
  BY <1>1, Zenon DEF Begin, Contend, Granted, Refused, NextLock, Advance
<1>2. ASSUME NEW t \in Tasks, Work(t)
      PROVE  [NextLock]_lockVars
  BY <1>2, Zenon DEF Work, NextLock
<1>3. ASSUME NEW p \in Procs, ProcessDies(p)
      PROVE  NextLock
  BY <1>3, Zenon DEF ProcessDies, NextLock
<1>4. CASE Time
  BY <1>4 DEF Time, NextLock
<1>5. CASE UNCHANGED <<vars, lockVars>>
  BY <1>5
<1>. QED
  BY <1>1, <1>2, <1>3, <1>4, <1>5 DEF NextAll

\* Each step is a step of one call, ends the calls of a process, or leaves the
\* repository alone.
LEMMA RepositoryPart ==
    ASSUME [NextAll]_<<vars, lockVars>>
    PROVE  \/ UNCHANGED vars
           \/ \E t \in Tasks : CallStep(t)
           \/ \E T \in SUBSET Tasks : CallsEnd(T)
<1>1. ASSUME NEW t \in Tasks, Begin(t) \/ Granted(t) \/ Refused(t) \/ Work(t)
      PROVE  CallStep(t)
  BY <1>1, Zenon DEF Begin, Granted, Refused, Work, CallStep
<1>2. ASSUME NEW t \in Tasks, Contend(t)
      PROVE  UNCHANGED vars
  BY <1>2, Zenon DEF Contend
<1>3. ASSUME NEW p \in Procs, ProcessDies(p)
      PROVE  \E T \in SUBSET Tasks : CallsEnd(T)
  <2>1. CallsEnd({t \in Tasks : ProcOf[t] = p})
    BY <1>3 DEF ProcessDies, CallsEnd
  <2>. QED
    BY <2>1
<1>4. CASE Time \/ UNCHANGED <<vars, lockVars>>
  BY <1>4 DEF Time
<1>. QED
  BY <1>1, <1>2, <1>3, <1>4 DEF NextAll

\* A call is in acquire when its task is, and past it when the task holds the
\* lock.
Layers ==
    \A t \in Tasks :
        /\ task[t].pc \in {"idle", "dead"} <=> call[t].pc = "idle"
        /\ On(t, "held") <=> call[t].pc \notin {"idle", "waiting"}

\* What Layers says of one task does not change with the others.
LEMMA LayersOfOne ==
    ASSUME Layers, NEW t \in Tasks,
           \A u \in Tasks : u # t => task'[u] = task[u] /\ call'[u] = call[u],
           task'[t].pc \in {"idle", "dead"} <=> call'[t].pc = "idle",
           task'[t].pc = "held" <=> call'[t].pc \notin {"idle", "waiting"}
    PROVE  Layers'
  BY DEF Layers, On

\* A step inside acquire does not leave it.
LEMMA ContendStays ==
    ASSUME TypeOKLock, NEW t \in Tasks, Contend(t)
    PROVE  /\ call' = call
           /\ \A u \in Tasks : u # t => task'[u] = task[u]
           /\ task[t].pc \notin {"idle", "dead", "held"}
           /\ task'[t].pc \notin {"idle", "dead", "held"}
<1>1. call' = call
  BY DEF Contend, vars
<1>2. task \in [Tasks -> TaskState]
  BY DEF TypeOKLock
<1>3. CASE TakeMutex(t) \/ TryLock(t) \/ WouldBlock(t) \/ Truncate(t) \/ Unlink(t) \/ MarkReclaim(t)
  BY <1>1, <1>2, <1>3 DEF TakeMutex, TryLock, WouldBlock, Truncate, Unlink, MarkReclaim, Goto,
     On, TaskState
<1>4. CASE Open(t)
  BY <1>1, <1>2, <1>4 DEF Open, On, TaskState
<1>5. CASE CheckMarker(t)
  BY <1>1, <1>2, <1>5 DEF CheckMarker, On, TaskState
<1>6. CASE Probe(t)
  BY <1>1, <1>2, <1>6 DEF Probe, Goto, On, TaskState
<1>7. CASE Nap(t)
  BY <1>1, <1>2, <1>7 DEF Nap, On, TaskState
<1>. QED
  BY <1>3, <1>4, <1>5, <1>6, <1>7 DEF Contend

\* A call that works stays past acquire until it returns.
LEMMA ProceedStays ==
    ASSUME TypeOK, NEW t \in Tasks, Proceed(t)
    PROVE  /\ call[t].pc \notin {"idle", "waiting"}
           /\ \A u \in Tasks : u # t => call'[u] = call[u]
           /\ \/ Return(t)
              \/ holders' = holders /\ call'[t].pc \notin {"idle", "waiting"}
<1>1. call \in [Tasks -> Call] /\ call[t] \in Call
  BY DEF TypeOK
<1>2. call[t].pc \notin {"idle", "waiting"}
  BY DEF Proceed, ReadCache, Load, SaltMismatch, Accept, Reject, PreconditionFails, Roll,
     Compare, ReadFails, Retry, GiveUp, Rename, RenameUnsynced, WriteFails, WriteCache,
     Publish, Publishing, Mismatch, Scanning, Scanned, At
<1>3. CASE Return(t)
  BY <1>1, <1>2, <1>3 DEF Return
<1>4. CASE ReadCache(t)
  BY <1>1, <1>2, <1>4 DEF ReadCache, Call
<1>5. CASE Load(t)
  BY <1>1, <1>2, <1>5 DEF Load, Call
<1>6. CASE Accept(t)
  BY <1>1, <1>2, <1>6 DEF Accept, Call
<1>7. CASE Reject(t)
  BY <1>1, <1>2, <1>7 DEF Reject, Call
<1>8. CASE Compare(t)
  BY <1>1, <1>2, <1>8 DEF Compare, Call
<1>9. CASE Retry(t)
  BY <1>1, <1>2, <1>9 DEF Retry, Call
<1>10. CASE Rename(t) \/ WriteCache(t)
  BY <1>1, <1>2, <1>10 DEF Rename, WriteCache, Call
<1>. QED
  BY <1>3, <1>4, <1>5, <1>6, <1>7, <1>8, <1>9, <1>10 DEF Proceed, SaltMismatch,
     PreconditionFails, Roll, ReadFails, GiveUp, RenameUnsynced, WriteFails, Publish

\* Every step keeps the layers together.
LEMMA LayersStep ==
    ASSUME TypeOKLock, Inv(FALSE), Layers, [NextAll]_<<vars, lockVars>>
    PROVE  Layers'
<1>1. /\ task \in [Tasks -> TaskState] /\ TypeOK /\ call \in [Tasks -> Call]
      /\ Idle.pc = "idle" /\ IdleCall.pc = "idle"
  BY DEF TypeOKLock, Inv, TypeOK, Idle, IdleCall
<1>2. ASSUME NEW t \in Tasks, Begin(t)
      PROVE  Layers'
  <2>1. task'[t].pc = "queued" /\ \A u \in Tasks : u # t => task'[u] = task[u]
    BY <1>1, <1>2 DEF Begin, Request, Goto, TaskState
  <2>2. PICK batch \in Batches, mode \in Modes, cached \in CacheUse :
           call' = [call EXCEPT ![t].pc = "waiting", ![t].batch = batch, ![t].mode = mode,
                                ![t].cached = cached]
    BY <1>2 DEF Begin, Start
  <2>3. call'[t].pc = "waiting" /\ \A u \in Tasks : u # t => call'[u] = call[u]
    BY <1>1, <2>2 DEF Call
  <2>. QED
    BY <2>1, <2>3, LayersOfOne
<1>3. ASSUME NEW t \in Tasks, Contend(t)
      PROVE  Layers'
  BY <1>3, ContendStays, LayersOfOne DEF Layers, On
<1>4. ASSUME NEW t \in Tasks, Granted(t)
      PROVE  Layers'
  <2>1. task'[t].pc = "held" /\ \A u \in Tasks : u # t => task'[u] = task[u]
    BY <1>1, <1>4 DEF Granted, WriteMetadata, Goto, TaskState
  <2>2. /\ call'[t].pc \in {"caching", "loading"}
        /\ \A u \in Tasks : u # t => call'[u] = call[u]
    BY <1>1, <1>4 DEF Granted, Acquire, Call
  <2>. QED
    BY <2>1, <2>2, LayersOfOne
<1>5. ASSUME NEW t \in Tasks, Refused(t)
      PROVE  Layers'
  <2>1. task'[t].pc = "idle" /\ \A u \in Tasks : u # t => task'[u] = task[u]
    BY <1>1, <1>5 DEF Refused, MutexTimeout, Timeout, IoFails, Leave, Goto, TaskState
  <2>2. call'[t].pc = "idle" /\ \A u \in Tasks : u # t => call'[u] = call[u]
    BY <1>1, <1>5 DEF Refused, LockFails, Return
  <2>. QED
    BY <2>1, <2>2, LayersOfOne
<1>6. ASSUME NEW t \in Tasks, Work(t)
      PROVE  Layers'
  <2>1. /\ call[t].pc \notin {"idle", "waiting"} /\ t \in holders /\ On(t, "held")
        /\ \A u \in Tasks : u # t => call'[u] = call[u]
    BY <1>1, <1>6, ProceedStays DEF Work, Inv, Guarded, Layers
  <2>2. CASE Return(t)
    <3>1. Release(t)
      BY <1>6, <2>2 DEF Work, Return
    <3>2. task'[t].pc = "idle" /\ \A u \in Tasks : u # t => task'[u] = task[u]
      BY <1>1, <3>1 DEF Release, Leave
    <3>3. call'[t].pc = "idle"
      BY <1>1, <2>2 DEF Return
    <3>. QED
      BY <2>1, <3>2, <3>3, LayersOfOne
  <2>3. CASE holders' = holders /\ call'[t].pc \notin {"idle", "waiting"}
    <3>1. task' = task
      BY <1>6, <2>1, <2>3 DEF Work, lockVars
    <3>. QED
      BY <2>1, <2>3, <3>1, LayersOfOne DEF On
  <2>. QED
    BY <1>1, <1>6, <2>2, <2>3, ProceedStays DEF Work
<1>7. ASSUME NEW p \in Procs, ProcessDies(p)
      PROVE  Layers'
  <2> DEFINE T == {t \in Tasks : ProcOf[t] = p}
  <2>1. ASSUME NEW t \in Tasks, t \in T
        PROVE  task'[t].pc = "dead" /\ call'[t].pc = "idle"
    BY <1>1, <1>7, <2>1 DEF ProcessDies, Die, Idle
  <2>2. ASSUME NEW t \in Tasks, t \notin T
        PROVE  task'[t] = task[t] /\ call'[t] = call[t]
    BY <1>7, <2>2 DEF ProcessDies, Die
  <2>. QED
    BY <2>1, <2>2 DEF Layers, On
<1>8. CASE Time \/ UNCHANGED <<vars, lockVars>>
  BY <1>8 DEF Time, LeaseRunsOut, vars, lockVars, Layers, On
<1>. QED
  BY <1>2, <1>3, <1>4, <1>5, <1>6, <1>7, <1>8 DEF NextAll

\* While the lock has lived long, it lets nobody in beside a holder.
LEMMA GrantedAlone ==
    ASSUME Inv(FALSE), Layers, LongLived, NEW t \in Tasks, Granted(t)
    PROVE  holders = {}
<1> SUFFICES ASSUME NEW u \in holders PROVE FALSE
  OBVIOUS
<1>1. u \in Tasks /\ On(u, "held")
  BY DEF Inv, TypeOK, Guarded, Layers
<1>2. On(t, "writing")
  BY DEF Granted, WriteMetadata
<1>3. u = t
  BY <1>1, <1>2, OneOwner DEF Owning, On
<1>. QED
  BY <1>1, <1>2, <1>3 DEF On

\* A step that is not Acquire is not mistaken for it.
LEMMA NotAcquired ==
    ASSUME TypeOK, NEW t \in Tasks, Start(t) \/ LockFails(t) \/ Proceed(t)
    PROVE  ~Acquire(t)
<1> SUFFICES ASSUME Acquire(t) PROVE FALSE
  OBVIOUS
<1>1. call \in [Tasks -> Call] /\ call[t].pc = "waiting"
  BY DEF TypeOK, Acquire, At
<1>2. CASE Start(t)
  BY <1>1, <1>2 DEF Start, At
<1>3. CASE LockFails(t)
  <2>1. call'[t].pc = "idle"
    BY <1>1, <1>3 DEF LockFails, Return, IdleCall
  <2>2. call'[t].pc # "idle"
    BY <1>1 DEF Acquire, Call
  <2>. QED
    BY <2>1, <2>2
<1>4. CASE Proceed(t)
  BY <1>1, <1>4, ProceedStays
<1>. QED
  BY <1>2, <1>3, <1>4

\* The invariant of the repository survives the steps of both layers; that calls
\* are let in one at a time is the lock's doing.
LEMMA RepositoryStep ==
    ASSUME NEW alone \in BOOLEAN, Inv(alone), Inv(FALSE), Layers, alone => LongLived,
           [NextAll]_<<vars, lockVars>>
    PROVE  Inv(alone)'
<1>1. TypeOK
  BY DEF Inv
<1>2. ASSUME NEW t \in Tasks, Begin(t) \/ Refused(t) \/ Work(t)
      PROVE  Inv(alone)'
  <2>1. Start(t) \/ LockFails(t) \/ Proceed(t)
    BY <1>2, Zenon DEF Begin, Refused, Work
  <2>. QED
    BY <1>1, <2>1, NotAcquired, CallStepInv DEF CallStep
<1>3. ASSUME NEW t \in Tasks, Granted(t)
      PROVE  Inv(alone)'
  <2>1. Acquire(t) /\ (alone => holders = {})
    BY <1>3, GrantedAlone DEF Granted
  <2>. QED
    BY <2>1, CallStepInv DEF CallStep
<1>4. ASSUME NEW t \in Tasks, Contend(t)
      PROVE  Inv(alone)'
  BY <1>4, StutterInv DEF Contend
<1>5. ASSUME NEW p \in Procs, ProcessDies(p)
      PROVE  Inv(alone)'
  <2>1. CallsEnd({t \in Tasks : ProcOf[t] = p})
    BY <1>5 DEF ProcessDies, CallsEnd
  <2>. QED
    BY <2>1, DeathInv
<1>6. CASE Time \/ UNCHANGED <<vars, lockVars>>
  BY <1>6, StutterInv DEF Time
<1>. QED
  BY <1>2, <1>3, <1>4, <1>5, <1>6 DEF NextAll

\* A death ends calls and leaves the file and the other calls as they are.
LEMMA DeathProgress ==
    ASSUME TypeOK, NEW T \in SUBSET Tasks, CallsEnd(T)
    PROVE  AllProgress => AllProgress' /\ (AllUntorn => AllUntorn')
<1>1. /\ \A t \in Tasks : call'[t] = IF t \in T THEN IdleCall ELSE call[t]
      /\ disk' = disk /\ IdleCall.pc = "idle"
  BY DEF CallsEnd, IdleCall
<1>2. AllProgress => AllProgress'
  BY <1>1 DEF AllProgress, Progress
<1>3. AllUntorn => AllUntorn'
  BY <1>1 DEF AllUntorn
<1>. QED
  BY <1>2, <1>3

-----------------------------------------------------------------------------
(* Locks: the invariant of the whole *)

\* The part that no death and no expiry disturbs.
Shared == TypeOKLock /\ Permits /\ Inv(FALSE) /\ Layers /\ AllProgress

\* The part that holds until a process dies or is taken for dead, or a lease
\* runs out.
Lone == Undisturbed => LongLived /\ Inv(TRUE)

\* The inductive invariant of repository and lock.
IInvAll == Shared /\ Lone

\* A unit nobody has worked on satisfies it.
LEMMA InitAllInv == InitAll => IInvAll
<1> SUFFICES ASSUME InitAll PROVE IInvAll
  OBVIOUS
<1>1. TypeOKLock /\ Permits /\ LongLived
  BY InitLockInv DEF InitAll
<1>2. Inv(TRUE) /\ Inv(FALSE) /\ AllProgress
  BY InitInv, ProgressHolds DEF InitAll
<1>3. Layers
  BY DEF InitAll, Init, InitLock, Idle, IdleCall, Layers, On
<1>. QED
  BY <1>1, <1>2, <1>3 DEF IInvAll, Shared, Lone

\* Every step of the whole keeps it.
LEMMA StepAllInv ==
    ASSUME IsFiniteSet(Tasks), IInvAll, [NextAll]_<<vars, lockVars>>
    PROVE  IInvAll'
<1>1. TypeOKLock /\ Permits /\ Inv(FALSE) /\ Layers /\ AllProgress /\ TypeOK
  BY DEF IInvAll, Shared, Inv
<1>2. [NextLock]_lockVars
  BY LockPart
<1>3. TypeOKLock' /\ Permits'
  BY <1>1, <1>2, TypeStep, PermitStep
<1>4. Layers'
  BY <1>1, LayersStep
<1>5. Inv(FALSE)'
  BY <1>1, RepositoryStep
<1>6. AllProgress'
  <2>1. CASE UNCHANGED vars
    BY <1>1, <2>1 DEF vars, AllProgress
  <2>. QED
    BY <1>1, <2>1, RepositoryPart, ProgressStep, DeathProgress
<1>7. Lone'
  <2> SUFFICES ASSUME Undisturbed' PROVE LongLived' /\ Inv(TRUE)'
    BY DEF Lone
  <2>1. Undisturbed
    BY <1>1, <1>2, NobodyReturns DEF Undisturbed
  <2>2. LongLived /\ Inv(TRUE)
    BY <2>1 DEF IInvAll, Lone
  <2>. QED
    BY <1>1, <1>2, <2>2, LongLivedStep, RepositoryStep
<1>. QED
  BY <1>3, <1>4, <1>5, <1>6, <1>7 DEF IInvAll, Shared

-----------------------------------------------------------------------------
(* Locks: the repository over a perfect lock *)

\* The serial repository takes the same steps, but for the guard it waits for.
LEMMA SameSteps ==
    ASSUME NEW t
    PROVE  /\ Serial!Start(t) <=> Start(t)
           /\ Serial!LockFails(t) <=> LockFails(t)
           /\ Serial!Proceed(t) <=> Proceed(t)
           /\ Serial!Crash(t) <=> Crash(t)
           /\ Serial!Acquire(t) <=> Acquire(t) /\ holders = {}
<1>1. Serial!Proceed(t) <=> Proceed(t)
  BY DEF Proceed, ReadCache, Load, SaltMismatch, Accept, Reject, PreconditionFails,
     Roll, Compare, ReadFails, Retry, GiveUp, Rename, RenameUnsynced, WriteFails,
     WriteCache, Publish, Return, IdleCall, NoFile, At, Scanning, Scanned, Proposal,
     AdmissibleNow, RollsBack, Mismatch, LineCount, Combined, Accepted, Publishing,
     MarkOf, StampMonotonic, Stamped, OfKind, Superseded, Effective, EffectiveOf,
     Latest, Earliest, CurrentStatus, Resolutions, PhasesResolved, ScopeOfLog,
     ShippedMilestones, Implementation, CanCreateUnit, CanCompletePhase,
     CanSkipPhase, CanShip, CanRevert, CanVerify, CanRecordGate,
     RequiredPhasesResolved, CanTransition, CanFailReconcile, CanRecover,
     CanSupersede, CanCompleteSubagent, CanFailToolCall, CanSwitchModel, CanApprove,
     AcceptsKind, Precondition, Fingerprint, Fingerprints, IsDuplicate, Admissible,
     Serial!Proceed, Serial!ReadCache, Serial!Load, Serial!SaltMismatch,
     Serial!Accept, Serial!Reject, Serial!PreconditionFails, Serial!Roll,
     Serial!Compare, Serial!ReadFails, Serial!Retry, Serial!GiveUp, Serial!Rename,
     Serial!RenameUnsynced, Serial!WriteFails, Serial!WriteCache, Serial!Publish,
     Serial!Return, Serial!IdleCall, Serial!NoFile, Serial!At, Serial!Scanning,
     Serial!Scanned, Serial!Proposal, Serial!AdmissibleNow, Serial!RollsBack,
     Serial!Mismatch, Serial!LineCount, Serial!Combined, Serial!Accepted,
     Serial!Publishing, Serial!MarkOf, Serial!StampMonotonic, Serial!Stamped,
     Serial!OfKind, Serial!Superseded, Serial!Effective, Serial!EffectiveOf,
     Serial!Latest, Serial!Earliest, Serial!CurrentStatus, Serial!Resolutions,
     Serial!PhasesResolved, Serial!ScopeOfLog, Serial!ShippedMilestones,
     Serial!Implementation, Serial!CanCreateUnit, Serial!CanCompletePhase,
     Serial!CanSkipPhase, Serial!CanShip, Serial!CanRevert, Serial!CanVerify,
     Serial!CanRecordGate, Serial!RequiredPhasesResolved, Serial!CanTransition,
     Serial!CanFailReconcile, Serial!CanRecover, Serial!CanSupersede,
     Serial!CanCompleteSubagent, Serial!CanFailToolCall, Serial!CanSwitchModel,
     Serial!CanApprove, Serial!AcceptsKind, Serial!Precondition, Serial!Fingerprint,
     Serial!Fingerprints, Serial!IsDuplicate, Serial!Admissible
<1>2. /\ Serial!Start(t) <=> Start(t)
      /\ Serial!LockFails(t) <=> LockFails(t)
      /\ Serial!Crash(t) <=> Crash(t)
  BY DEF Start, LockFails, Crash, Return, IdleCall, NoFile, At, Serial!Start,
     Serial!LockFails, Serial!Crash, Serial!Return, Serial!IdleCall, Serial!NoFile,
     Serial!At
<1>3. Serial!Acquire(t) <=> Acquire(t) /\ holders = {}
  BY ExclusionIsTheLocks DEF Serial!Acquire, Acquire, Serial!At, At
<1>. QED
  BY <1>1, <1>2, <1>3

\* It begins the same.
LEMMA SameInit == Serial!Init <=> Init
  BY DEF Serial!Init, Init, Serial!NoFile, NoFile, Serial!IdleCall, IdleCall

-----------------------------------------------------------------------------
(* Locks: theorems about the whole *)

\* append and with_cache over FileLock: the inductive invariant, for any number
\* of tasks and processes, deaths and expiries.
THEOREM WholeInductive ==
    ASSUME IsFiniteSet(Tasks)
    PROVE  SpecAll => []IInvAll
<1>1. InitAll => IInvAll
  BY InitAllInv
<1>2. IInvAll /\ [NextAll]_<<vars, lockVars>> => IInvAll'
  BY StepAllInv
<1>. QED
  BY <1>1, <1>2, PTL DEF SpecAll

\* The types of both layers, and the promises of the lock, hold of the whole.
THEOREM WholeKeepsTheLock ==
    ASSUME IsFiniteSet(Tasks)
    PROVE  SpecAll => [](TypeOK /\ TypeOKLock /\ InProcessExclusion /\ SoleHolder)
<1>1. IInvAll => TypeOK /\ TypeOKLock /\ InProcessExclusion /\ SoleHolder
  <2> SUFFICES ASSUME IInvAll PROVE TypeOK /\ TypeOKLock /\ InProcessExclusion /\ SoleHolder
    OBVIOUS
  <2>1. TypeOK /\ TypeOKLock /\ Permits
    BY DEF IInvAll, Shared, Inv
  <2>2. SoleHolder
    BY LongLivedIsSole DEF IInvAll, Lone, SoleHolder
  <2>. QED
    BY <2>1, <2>2, PermitsExclude
<1>. QED
  BY <1>1, WholeInductive, PTL

\* Two concurrent writers do not lose an update: until a process dies or a
\* lease runs out, among processes that may signal each other, the file is legal
\* and what a call reports is on it.
THEOREM UpdatesSurvive ==
    ASSUME IsFiniteSet(Tasks)
    PROVE  SpecAll => [](Undisturbed => LegalDisk /\ NoLostUpdate)
<1>1. IInvAll => (Undisturbed => LegalDisk /\ NoLostUpdate)
  <2>1. Inv(TRUE) => LegalDisk /\ ReportedIsOnDisk
    BY InvReported DEF Inv
  <2>. QED
    BY <2>1 DEF IInvAll, Lone, NoLostUpdate
<1>. QED
  BY <1>1, WholeInductive, PTL

\* The single-writer invariant under the lock: until a process dies or a lease
\* runs out, among processes that may signal each other, the calls behave as if the lock admitted one at a time.
THEOREM AppendsAreSerial ==
    ASSUME IsFiniteSet(Tasks)
    PROVE  SpecAll => SerialAppends
<1>1. InitAll => Serial!Init
  BY SameInit DEF InitAll
<1>2. IInvAll /\ [NextAll]_<<vars, lockVars>>
         => [Undisturbed' => [Serial!Next]_vars]_<<vars, lockVars>>
  <2> SUFFICES ASSUME IInvAll, [NextAll]_<<vars, lockVars>>, Undisturbed'
               PROVE  [Serial!Next]_vars
    OBVIOUS
  <2>1. /\ Inv(FALSE) /\ Inv(TRUE) /\ Layers /\ LongLived /\ TypeOK
    <3>1. Undisturbed
      BY LockPart, NobodyReturns DEF IInvAll, Shared, Undisturbed
    <3>. QED
      BY <3>1 DEF IInvAll, Shared, Lone, Inv
  <2>2. ASSUME NEW t \in Tasks, Begin(t)
        PROVE  Serial!Next
    BY <2>2, SameSteps DEF Begin, Serial!Next
  <2>3. ASSUME NEW t \in Tasks, Granted(t)
        PROVE  Serial!Next
    <3>1. Acquire(t) /\ holders = {}
      BY <2>1, <2>3, GrantedAlone DEF Granted
    <3>. QED
      BY <3>1, SameSteps DEF Serial!Next
  <2>4. ASSUME NEW t \in Tasks, Refused(t)
        PROVE  Serial!Next
    BY <2>4, SameSteps DEF Refused, Serial!Next
  <2>5. ASSUME NEW t \in Tasks, Work(t)
        PROVE  Serial!Next
    <3>1. Proceed(t) /\ t \in holders
      BY <2>1, <2>5, ProceedStays DEF Work, Inv, Guarded
    <3>. QED
      BY <3>1, SameSteps DEF Serial!Next
  <2>6. ASSUME NEW p \in Procs, ProcessDies(p)
        PROVE  FALSE
    BY <2>6 DEF ProcessDies, Die, Undisturbed
  <2>7. ASSUME NEW t \in Tasks, Contend(t)
        PROVE  UNCHANGED vars
    BY <2>7 DEF Contend
  <2>8. CASE Time \/ UNCHANGED <<vars, lockVars>>
    BY <2>8 DEF Time
  <2>. QED
    BY <2>2, <2>3, <2>4, <2>5, <2>6, <2>7, <2>8 DEF NextAll
<1>. QED
  BY <1>1, <1>2, WholeInductive, PTL DEF SpecAll, SerialAppends

\* AppendMode::AllOrNothing over a lock that deaths and expiries split: whoever
\* wins, no part of a batch is on the file without the rest.
THEOREM BatchesNeverTearAnyway ==
    ASSUME IsFiniteSet(Tasks), WholeBatchesOnly
    PROVE  SpecAll => []NoTornBatch
<1>1. InitAll => AllUntorn
  BY DEF InitAll, Init, AllUntorn, Untorn, NoFile, Fingerprints, IdleCall
<1>2. IInvAll /\ AllUntorn /\ [NextAll]_<<vars, lockVars>> => AllUntorn'
  <2> SUFFICES ASSUME TypeOK, AllProgress, AllUntorn, [NextAll]_<<vars, lockVars>>
               PROVE  AllUntorn'
    BY DEF IInvAll, Shared, Inv
  <2>1. CASE UNCHANGED vars
    BY <2>1 DEF vars, AllUntorn
  <2>. QED
    BY <2>1, RepositoryPart, UntornStep, DeathProgress
<1>3. AllUntorn => NoTornBatch
  BY DEF AllUntorn, Untorn, NoTornBatch
<1>. QED
  BY <1>1, <1>2, <1>3, WholeInductive, PTL DEF SpecAll

-----------------------------------------------------------------------------
(* The queue: the log *)

\* A shipped milestone is a milestone of the workflow.
LEMMA ShipNamesMilestone ==
    ASSUME NEW b \in EventBody, b.kind = "MilestoneShipped"
    PROVE  b.milestone \in Milestones
BY DEF EventBody, UnitCreated, PhaseCompleted, PhaseSkipped, MilestoneShipped,
       MilestoneReverted, MilestoneVerified, GateRecorded, StatusTransitioned, ReconcileFailed,
       ReconcileRecovered, EventSuperseded, SubagentCompleted, ToolCallFailed, ModelSwitched,
       ApprovalRecorded

\* A revert that is given another milestone is a revert still.
LEMMA RevertTakesMilestone ==
    ASSUME NEW b \in EventBody, b.kind = "MilestoneReverted", NEW m \in Milestones
    PROVE  [b EXCEPT !.milestone = m] \in EventBody
<1>1. b \in MilestoneReverted
  BY DEF EventBody, UnitCreated, PhaseCompleted, PhaseSkipped, MilestoneShipped,
         MilestoneReverted, MilestoneVerified, GateRecorded, StatusTransitioned,
         ReconcileFailed, ReconcileRecovered, EventSuperseded, SubagentCompleted,
         ToolCallFailed, ModelSwitched, ApprovalRecorded
<1>2. [b EXCEPT !.milestone = m] \in MilestoneReverted
  BY <1>1 DEF MilestoneReverted
<1>. QED
  BY <1>2 DEF EventBody

\* What a hook offers is an event body.
LEMMA ResolvedType ==
    ASSUME log \in Seq(Event), NEW b \in Tools,
           b.kind = "MilestoneReverted" => ShipsOf(b.original) # {}
    PROVE  Resolved(b) \in EventBody
<1>1. b \in EventBody
  BY QueueAssumption
<1>2. CASE b.kind # "MilestoneReverted"
  BY <1>1, <1>2 DEF Resolved
<1>3. CASE b.kind = "MilestoneReverted"
  <2> DEFINE S == ShipsOf(b.original)
             i == Latest(S)
  <2>1. S \in SUBSET (1..Len(log)) /\ S # {}
    BY <1>3 DEF ShipsOf, OfKind
  <2>2. i \in S
    <3>1. Len(log) \in Nat
      OBVIOUS
    <3>. HIDE DEF S
    <3>. QED
      BY <2>1, <3>1, LatestExists
  <2>3. log[i] \in Event /\ log[i].body.kind = "MilestoneShipped"
    BY <2>1, <2>2 DEF ShipsOf, OfKind
  <2>4. log[i].body \in EventBody
    BY <2>3, Zenon DEF Event
  <2>5. log[i].body.milestone \in Milestones
    BY <2>3, <2>4, ShipNamesMilestone
  <2>. QED
    BY <1>1, <1>3, <2>5, RevertTakesMilestone DEF Resolved
<1>. QED
  BY <1>2, <1>3

\* The log after an append, and what an append settles.
LEMMA AppendSettles ==
    ASSUME log \in Seq(Event), NEW b \in EventBody
    PROVE  /\ AfterAppend(b) \in Seq(Event)
           /\ Fingerprints(log) \subseteq Fingerprints(AfterAppend(b))
           /\ Refuses(b) \/ b \in Fingerprints(AfterAppend(b))
<1> DEFINE e == Stamped(log, b, 0)
<1>1. e \in Event /\ e.body = b
  BY StampedIsEvent, ClockAssumption DEF Stamped
<1>. HIDE DEF e
<1>2. /\ Append(log, e) \in Seq(Event)
      /\ DOMAIN Append(log, e) = 1..(Len(log) + 1)
      /\ \A i \in 1..Len(log) : Append(log, e)[i] = log[i]
      /\ Append(log, e)[Len(log) + 1] = e
  BY <1>1, AppendFacts
<1>3. /\ Fingerprints(log) \subseteq Fingerprints(Append(log, e))
      /\ b \in Fingerprints(Append(log, e))
  BY <1>1, <1>2 DEF Fingerprints, Fingerprint
<1>4. AfterAppend(b) = IF Admissible(log, b) THEN Append(log, e) ELSE log
  BY DEF AfterAppend, e
<1>5. CASE Admissible(log, b)
  BY <1>2, <1>3, <1>4, <1>5
<1>6. CASE ~Admissible(log, b)
  BY <1>4, <1>6 DEF Admissible, Refuses, IsDuplicate
<1>. QED
  BY <1>5, <1>6

\* Whether it returns Ok or Err, an append keeps the types and forgets nothing.
LEMMA AppendKeeps ==
    ASSUME log \in Seq(Event), refused \in SUBSET EventBody, NEW b \in EventBody,
           AppendReturnsOk(b) \/ AppendReturnsErr(b)
    PROVE  /\ log' \in Seq(Event)
           /\ refused' \in SUBSET EventBody
           /\ Fingerprints(log) \subseteq Fingerprints(log')
           /\ refused \subseteq refused'
           /\ AppendReturnsOk(b) => b \in Fingerprints(log') \cup refused'
BY AppendSettles DEF AppendReturnsOk, AppendReturnsErr

-----------------------------------------------------------------------------
(* The queue: types *)

\* A hook that runs has an event, and one that has queued it is done.
HooksSound ==
    /\ hook \in [Hooks -> Hook]
    /\ \A h \in Hooks :
          /\ ~HookAt(h, "idle") => hook[h].body \in EventBody
          /\ hook[h].fate = "queued" => HookAt(h, "over")

\* A drain that replays or removes has an entry.
DrainersSound ==
    /\ drainer \in [Drainers -> Drainer]
    /\ \A d \in Drainers :
          drainer[d].pc \in {"replaying", "removing"} => drainer[d].entry \in Entry

\* The records hooks that run may leave.
Records == {Record(h) : h \in {g \in Hooks : ~HookAt(g, "idle")}}

\* The types, and what the program counters say about the rest of the state.
Sound ==
    /\ HooksSound
    /\ DrainersSound
    /\ log \in Seq(Event) /\ refused \in SUBSET EventBody
    /\ queue \in SUBSET Entry /\ IsFiniteSet(queue) /\ discarded \in SUBSET Entry
    /\ minted \in Nat
    /\ orphans \subseteq Records

\* The steps of a hook.
HookSteps ==
    {"idle", "appending", "measuring", "spilling", "removing", "minting", "writing",
     "orphaning", "over"}

Fates ==
    {"none", "skipped", "recorded", "refused", "queued", "orphaned", "failed", "killed"}

LEMMA HookFields ==
    ASSUME NEW r \in Hook, NEW pc \in HookSteps
    PROVE  /\ r.pc \in HookSteps
           /\ [r EXCEPT !.pc = pc] \in Hook
           /\ \A f \in Fates : [r EXCEPT !.pc = pc, !.fate = f] \in Hook
           /\ \A b \in EventBody : [r EXCEPT !.pc = pc, !.body = b] \in Hook
           /\ \A b \in EventBody, f \in Fates :
                 [r EXCEPT !.pc = pc, !.body = b, !.fate = f] \in Hook
           /\ \A n \in Nat : [r EXCEPT !.pc = pc, !.surplus = n] \in Hook
           /\ \A n \in Nat : [r EXCEPT !.pc = pc, !.id = n] \in Hook
           /\ \A V \in SUBSET Entry : [r EXCEPT !.pc = pc, !.victims = V] \in Hook
           /\ \A V \in SUBSET Entry : [r EXCEPT !.victims = V] \in Hook
           /\ \A n \in 0..(MaxAttempts - 1) : [r EXCEPT !.attempt = n] \in Hook
<1>. USE DEF Hook, HookSteps, Fates
<1>1. r.pc \in HookSteps /\ [r EXCEPT !.pc = pc] \in Hook
  OBVIOUS
<1>2. ASSUME NEW f \in Fates
      PROVE  [r EXCEPT !.pc = pc, !.fate = f] \in Hook
  OBVIOUS
<1>3. ASSUME NEW b \in EventBody
      PROVE  /\ [r EXCEPT !.pc = pc, !.body = b] \in Hook
             /\ \A f \in Fates : [r EXCEPT !.pc = pc, !.body = b, !.fate = f] \in Hook
  OBVIOUS
<1>4. ASSUME NEW n \in Nat
      PROVE  /\ [r EXCEPT !.pc = pc, !.surplus = n] \in Hook
             /\ [r EXCEPT !.pc = pc, !.id = n] \in Hook
  OBVIOUS
<1>5. ASSUME NEW V \in SUBSET Entry
      PROVE  /\ [r EXCEPT !.pc = pc, !.victims = V] \in Hook
             /\ [r EXCEPT !.victims = V] \in Hook
  OBVIOUS
<1>6. ASSUME NEW n \in 0..(MaxAttempts - 1)
      PROVE  [r EXCEPT !.attempt = n] \in Hook
  OBVIOUS
<1>. HIDE DEF Hook, HookSteps, Fates
<1>. QED
  BY <1>1, <1>2, <1>3, <1>4, <1>5, <1>6

\* A hook that runs keeps its event.
LEMMA HookMoves ==
    ASSUME HooksSound, NEW h \in Hooks, NEW r \in Hook, hook' = [hook EXCEPT ![h] = r],
           r.pc # "idle", r.body \in EventBody, HookAt(h, "idle") \/ r.body = hook[h].body,
           r.fate = "queued" => r.pc = "over"
    PROVE  HooksSound' /\ Records \subseteq Records'
<1>1. hook \in [Hooks -> Hook] /\ hook' \in [Hooks -> Hook]
  BY DEF HooksSound
<1>2. \A g \in Hooks :
          /\ hook[g].pc # "idle" => hook'[g].pc # "idle" /\ hook'[g].body = hook[g].body
          /\ g # h => hook'[g] = hook[g]
          /\ g = h => hook'[g] = r
  BY <1>1 DEF HookAt
<1>3. \A g \in Hooks :
          /\ ~HookAt(g, "idle")' => hook'[g].body \in EventBody
          /\ hook'[g].fate = "queued" => HookAt(g, "over")'
  BY <1>1, <1>2 DEF HooksSound, HookAt
<1>4. \A g \in Hooks : ~HookAt(g, "idle") => ~HookAt(g, "idle")' /\ Record(g)' = Record(g)
  BY <1>2 DEF HookAt, Record
<1>5. Records \subseteq Records'
  BY <1>4 DEF Records
<1>. QED
  BY <1>1, <1>3, <1>5 DEF HooksSound

\* The same, for a hook that only moves to another step.
LEMMA HookGoes ==
    ASSUME HooksSound, NEW h \in Hooks, ~HookAt(h, "idle"),
           NEW pc \in HookSteps \ {"idle"}, hook[h].fate # "queued",
           hook' = [hook EXCEPT ![h].pc = pc]
    PROVE  HooksSound' /\ Records \subseteq Records'
<1> DEFINE r == [hook[h] EXCEPT !.pc = pc]
<1>1. hook[h] \in Hook
  BY DEF HooksSound
<1>2. r \in Hook /\ r.pc = pc /\ r.body = hook[h].body /\ r.fate = hook[h].fate
  <2>1. r \in Hook
    BY <1>1, HookFields
  <2>. QED
    BY <1>1, <2>1 DEF Hook
<1>3. hook' = [hook EXCEPT ![h] = r]
  BY DEF HooksSound
<1>4. hook[h].body \in EventBody
  BY DEF HooksSound
<1>. HIDE DEF r
<1>. QED
  BY <1>2, <1>3, <1>4, HookMoves

\* The same, for a hook that ends.
LEMMA HookEnds ==
    ASSUME HooksSound, NEW h \in Hooks, ~HookAt(h, "idle"), NEW f \in Fates, End(h, f)
    PROVE  HooksSound' /\ Records \subseteq Records'
<1> DEFINE r == [hook[h] EXCEPT !.pc = "over", !.fate = f]
<1>1. hook[h] \in Hook
  BY DEF HooksSound
<1>2. r \in Hook /\ r.pc = "over" /\ r.body = hook[h].body
  <2>1. "over" \in HookSteps
    BY DEF HookSteps
  <2>2. r \in Hook
    BY <1>1, <2>1, HookFields
  <2>. QED
    BY <1>1, <2>2 DEF Hook
<1>3. hook' = [hook EXCEPT ![h] = r]
  BY DEF HooksSound, End
<1>4. hook[h].body \in EventBody
  BY DEF HooksSound
<1>. HIDE DEF r
<1>. QED
  BY <1>2, <1>3, <1>4, HookMoves

\* What is in the queue or in a hook's hands is an entry.
LEMMA EntryType ==
    ASSUME HooksSound, NEW h \in Hooks, ~HookAt(h, "idle")
    PROVE  EntryOf(h) \in Entry
BY DEF HooksSound, Hook, EntryOf, Entry

\* A step of a hook keeps the state sound if it keeps the hooks and what it
\* writes.
LEMMA HookWrites ==
    ASSUME Sound, HooksSound', Records \subseteq Records', UNCHANGED drainer,
           log' \in Seq(Event), refused' \in SUBSET EventBody,
           queue' \in SUBSET Entry, IsFiniteSet(queue)', discarded' \in SUBSET Entry,
           minted' \in Nat, orphans' \subseteq Records'
    PROVE  Sound'
BY DEF Sound, DrainersSound

\* Every step of a hook keeps the state sound.
LEMMA HookStepSound ==
    ASSUME Sound, NEW h \in Hooks, HookStep(h)
    PROVE  Sound'
<1>. USE DEF Sound
<1>1. hook[h] \in Hook /\ (~HookAt(h, "idle") => hook[h].body \in EventBody)
  BY DEF HooksSound
<1>2. ASSUME Fire(h)
      PROVE  Sound'
  <2>1. PICK b \in Tools :
           /\ b.kind = "MilestoneReverted" => ShipsOf(b.original) # {}
           /\ hook' = [hook EXCEPT ![h].pc = "appending", ![h].body = Resolved(b)]
    BY <1>2 DEF Fire
  <2>2. Resolved(b) \in EventBody
    BY <2>1, ResolvedType
  <2> DEFINE r == [hook[h] EXCEPT !.pc = "appending", !.body = Resolved(b)]
  <2>3. r \in Hook
    BY <1>1, <2>2, HookFields DEF HookSteps
  <2>4. r.pc = "appending" /\ r.body = Resolved(b) /\ r.fate = hook[h].fate
    BY <1>1 DEF Hook
  <2>5. hook' = [hook EXCEPT ![h] = r]
    BY <2>1, Zenon
  <2>6. hook[h].fate # "queued" /\ HookAt(h, "idle")
    BY <1>2 DEF Fire, HooksSound, HookAt
  <2>. HIDE DEF r
  <2>7. HooksSound' /\ Records \subseteq Records'
    BY <2>2, <2>3, <2>4, <2>5, <2>6, HookMoves
  <2>. QED
    BY <1>2, <2>7, HookWrites DEF Fire
<1>3. ASSUME SkipRevert(h)
      PROVE  Sound'
  <2>1. PICK b \in Tools :
           hook' = [hook EXCEPT ![h].pc = "over", ![h].body = b, ![h].fate = "skipped"]
    BY <1>3 DEF SkipRevert
  <2>2. b \in EventBody
    BY QueueAssumption
  <2> DEFINE r == [hook[h] EXCEPT !.pc = "over", !.body = b, !.fate = "skipped"]
  <2>3. r \in Hook
    BY <1>1, <2>2, HookFields DEF HookSteps, Fates
  <2>4. r.pc = "over" /\ r.body = b /\ r.fate = "skipped"
    BY <1>1 DEF Hook
  <2>5. hook' = [hook EXCEPT ![h] = r]
    BY <2>1, Zenon
  <2>6. HookAt(h, "idle")
    BY <1>3 DEF SkipRevert
  <2>. HIDE DEF r
  <2>7. HooksSound' /\ Records \subseteq Records'
    BY <2>2, <2>3, <2>4, <2>5, <2>6, HookMoves
  <2>. QED
    BY <1>3, <2>7, HookWrites DEF SkipRevert
<1>4. ASSUME ~HookAt(h, "idle"), NEW f \in Fates, End(h, f),
             UNCHANGED <<log, minted, drainer, refused, discarded>>,
             queue' \in {queue, queue \cup {EntryOf(h)}}, orphans' \in {orphans, orphans \cup {Record(h)}}
      PROVE  Sound'
  <2>1. HooksSound' /\ Records \subseteq Records'
    BY <1>4, HookEnds
  <2>2. queue' \in SUBSET Entry /\ IsFiniteSet(queue)'
    BY <1>4, EntryType, FS_AddElement
  <2>3. orphans' \subseteq Records'
    <3>1. Record(h) \in Records
      BY <1>4 DEF Records
    <3>. QED
      BY <1>4, <2>1, <3>1
  <2>. QED
    BY <1>4, <2>1, <2>2, <2>3, HookWrites
<1>5. CASE Offer(h)
  <2>1. AppendReturnsOk(hook[h].body) /\ ~HookAt(h, "idle")
    BY <1>5 DEF Offer, HookAt
  <2>2. PICK f \in Fates : End(h, f)
    BY <1>5, Zenon DEF Offer, Fates
  <2>3. HooksSound' /\ Records \subseteq Records'
    BY <2>1, <2>2, HookEnds
  <2>4. log' \in Seq(Event) /\ refused' \in SUBSET EventBody
    BY <1>1, <2>1, AppendKeeps
  <2>. QED
    BY <1>5, <2>3, <2>4, HookWrites DEF Offer
<1>6. CASE OfferFails(h)
  <2>1. AppendReturnsErr(hook[h].body) /\ ~HookAt(h, "idle") /\ hook[h].fate # "queued"
    BY <1>6 DEF OfferFails, HookAt, HooksSound
  <2>2. HooksSound' /\ Records \subseteq Records'
    <3>1. CASE hook[h].attempt + 1 < MaxAttempts
      <4> DEFINE r == [hook[h] EXCEPT !.attempt = hook[h].attempt + 1]
      <4>1. hook[h].attempt + 1 \in 0..(MaxAttempts - 1)
        BY <1>1, <3>1, QueueAssumption DEF Hook
      <4>2. r \in Hook
        BY <1>1, <4>1, HookFields DEF HookSteps
      <4>3. r.pc = hook[h].pc /\ r.body = hook[h].body /\ r.fate = hook[h].fate
        BY <1>1 DEF Hook
      <4>4. hook' = [hook EXCEPT ![h] = r]
        BY <1>6, <3>1 DEF OfferFails
      <4>. HIDE DEF r
      <4>. QED
        BY <1>1, <2>1, <4>2, <4>3, <4>4, HookMoves DEF HookAt
    <3>2. CASE ~(hook[h].attempt + 1 < MaxAttempts)
      BY <1>6, <2>1, <3>2, HookGoes DEF OfferFails, HookSteps
    <3>. QED
      BY <3>1, <3>2
  <2>3. log' \in Seq(Event) /\ refused' \in SUBSET EventBody
    BY <1>1, <2>1, AppendKeeps
  <2>. QED
    BY <1>6, <2>2, <2>3, HookWrites DEF OfferFails
<1>7. CASE Measure(h)
  <2>1. ~HookAt(h, "idle") /\ hook[h].fate # "queued"
    BY <1>7 DEF Measure, HookAt, HooksSound
  <2>2. Cardinality(queue) \in Nat
    BY FS_CardinalityType
  <2>3. HooksSound' /\ Records \subseteq Records'
    <3>1. CASE hook' = [hook EXCEPT ![h].pc = "minting"]
      BY <2>1, <3>1, HookGoes DEF HookSteps
    <3>2. CASE hook' = [hook EXCEPT ![h].pc = "orphaning"]
      BY <2>1, <3>2, HookGoes DEF HookSteps
    <3>3. ASSUME NEW n \in Nat, hook' = [hook EXCEPT ![h].pc = "spilling", ![h].surplus = n]
          PROVE  HooksSound' /\ Records \subseteq Records'
      <4> DEFINE r == [hook[h] EXCEPT !.pc = "spilling", !.surplus = n]
      <4>1. r \in Hook
        BY <1>1, HookFields DEF HookSteps
      <4>2. r.pc = "spilling" /\ r.body = hook[h].body /\ r.fate = hook[h].fate
        BY <1>1 DEF Hook
      <4>3. hook' = [hook EXCEPT ![h] = r]
        BY <3>3, Zenon
      <4>. HIDE DEF r
      <4>. QED
        BY <1>1, <2>1, <4>1, <4>2, <4>3, HookMoves
    <3>4. (IF Cardinality(queue) >= Cap THEN Cardinality(queue) - Cap ELSE 0) + 1 \in Nat
      BY <2>2, QueueAssumption
    <3>. QED
      BY <1>7, <3>1, <3>2, <3>3, <3>4 DEF Measure
  <2>. QED
    BY <1>7, <2>3, HookWrites DEF Measure
<1>8. ASSUME NEW V \in SUBSET Entry, ~HookAt(h, "idle"), NEW pc \in HookSteps \ {"idle"},
             hook' = [hook EXCEPT ![h].pc = pc, ![h].victims = V], hook[h].fate # "queued"
      PROVE  HooksSound' /\ Records \subseteq Records'
  <2> DEFINE r == [hook[h] EXCEPT !.pc = pc, !.victims = V]
  <2>1. r \in Hook
    BY <1>1, HookFields
  <2>2. r.pc = pc /\ r.body = hook[h].body /\ r.fate = hook[h].fate
    BY <1>1 DEF Hook
  <2>3. hook' = [hook EXCEPT ![h] = r]
    BY <1>8, Zenon
  <2>. HIDE DEF r
  <2>. QED
    BY <1>1, <1>8, <2>1, <2>2, <2>3, HookMoves
<1>9. CASE ListOldest(h)
  <2>1. /\ ~HookAt(h, "idle") /\ hook[h].fate # "queued"
        /\ Oldest(queue, hook[h].surplus) \in SUBSET Entry
    BY <1>9 DEF ListOldest, HookAt, HooksSound, Oldest
  <2>2. PICK V \in SUBSET Entry : hook' = [hook EXCEPT ![h].pc = "removing", ![h].victims = V]
    BY <1>9, <2>1, Zenon DEF ListOldest
  <2>3. "removing" \in HookSteps \ {"idle"}
    BY DEF HookSteps
  <2>4. HooksSound' /\ Records \subseteq Records'
    BY <1>8, <2>1, <2>2, <2>3, Zenon
  <2>. QED
    BY <1>9, <2>4, HookWrites DEF ListOldest
<1>10. CASE Spill(h)
  <2>1. PICK e \in hook[h].victims :
           /\ queue' \in {queue \ {e}} \cup When(Faults, queue)
           /\ discarded' = discarded \cup (queue \ queue')
           /\ hook' = [hook EXCEPT ![h].victims = @ \ {e}]
    BY <1>10 DEF Spill
  <2>2. HooksSound' /\ Records \subseteq Records'
    <3> DEFINE r == [hook[h] EXCEPT !.victims = hook[h].victims \ {e}]
    <3>1. hook[h].victims \ {e} \in SUBSET Entry
      BY <1>1 DEF Hook
    <3>2. r \in Hook
      BY <1>1, <3>1, HookFields DEF HookSteps
    <3>3. r.pc = "removing" /\ r.body = hook[h].body /\ r.fate = hook[h].fate
      BY <1>1, <1>10 DEF Hook, Spill, HookAt
    <3>4. hook' = [hook EXCEPT ![h] = r]
      BY <2>1, Zenon
    <3>5. hook[h].fate # "queued" /\ hook[h].body \in EventBody
      BY <1>1, <1>10 DEF Spill, HookAt, HooksSound
    <3>. HIDE DEF r
    <3>. QED
      BY <3>2, <3>3, <3>4, <3>5, HookMoves
  <2>3. queue' \in SUBSET Entry /\ IsFiniteSet(queue)' /\ discarded' \in SUBSET Entry
    BY <2>1, FS_RemoveElement DEF When
  <2>. QED
    BY <1>10, <2>2, <2>3, HookWrites DEF Spill
<1>11. CASE Mint(h)
  <2> DEFINE r == [hook[h] EXCEPT !.pc = "writing", !.id = minted + 1]
  <2>1. r \in Hook
    <3>1. minted + 1 \in Nat /\ "writing" \in HookSteps
      BY DEF HookSteps
    <3>. QED
      BY <1>1, <3>1, HookFields
  <2>2. r.pc = "writing" /\ r.body = hook[h].body /\ r.fate = hook[h].fate
    BY <1>1 DEF Hook
  <2>3. hook' = [hook EXCEPT ![h] = r]
    BY <1>11, Zenon DEF Mint
  <2>4. hook[h].fate # "queued" /\ hook[h].body \in EventBody
    BY <1>1, <1>11 DEF Mint, HookAt, HooksSound
  <2>. HIDE DEF r
  <2>5. HooksSound' /\ Records \subseteq Records'
    BY <2>1, <2>2, <2>3, <2>4, HookMoves
  <2>. QED
    BY <1>11, <2>5, HookWrites DEF Mint
<1>12. CASE Enqueue(h)
  BY <1>4, <1>12 DEF Enqueue, HookAt, Fates
<1>13. CASE Orphan(h)
  BY <1>4, <1>13 DEF Orphan, HookAt, Fates, When
<1>14. CASE EnqueueFails(h)
  BY <1>4, <1>14 DEF EnqueueFails, HookAt, Fates, When
<1>15. CASE Kill(h)
  BY <1>4, <1>15 DEF Kill, HookAt, Fates
<1>. QED
  BY <1>2, <1>3, <1>5, <1>6, <1>7, <1>9, <1>10, <1>11, <1>12, <1>13, <1>14, <1>15 DEF HookStep

\* What a drain may be doing.
LEMMA DrainerFields ==
    ASSUME DrainersSound, NEW d \in Drainers, NEW r \in Drainer,
           drainer' = [drainer EXCEPT ![d] = r],
           r.pc \in {"replaying", "removing"} => r.entry \in Entry
    PROVE  DrainersSound'
<1>1. drainer' \in [Drainers -> Drainer] /\ \A c \in Drainers : c # d => drainer'[c] = drainer[c]
  BY DEF DrainersSound
<1>2. drainer'[d] = r
  BY DEF DrainersSound
<1>. QED
  BY <1>1, <1>2 DEF DrainersSound

\* A step of a drain keeps the state sound if it keeps the drains and what it
\* writes.
LEMMA DrainWrites ==
    ASSUME Sound, DrainersSound', UNCHANGED <<minted, orphans, hook>>,
           log' \in Seq(Event), refused' \in SUBSET EventBody,
           \E e : queue' \in {queue, queue \ {e}}, discarded' \in SUBSET Entry
    PROVE  Sound'
<1>1. queue' \in SUBSET Entry /\ IsFiniteSet(queue)'
  BY FS_RemoveElement DEF Sound
<1>2. HooksSound' /\ Records' = Records
  BY DEF Sound, HooksSound, Records, Record, HookAt
<1>. QED
  BY <1>1, <1>2 DEF Sound

\* Every step of a drain keeps the state sound.
LEMMA DrainStepSound ==
    ASSUME Sound, NEW d \in Drainers, DrainStep(d) \/ KillDrainer(d)
    PROVE  Sound'
<1>. USE DEF Sound
<1>1. drainer[d] \in Drainer /\ IdleDrainer \in Drainer /\ drainer \in [Drainers -> Drainer]
  BY DEF DrainersSound, Drainer, IdleDrainer
<1>2. ASSUME NEW r \in Drainer, drainer' = [drainer EXCEPT ![d] = r],
             r.pc \notin {"replaying", "removing"} \/ r.entry \in Entry,
             UNCHANGED <<log, minted, orphans, hook, refused>>,
             \E e : queue' \in {queue, queue \ {e}}, discarded' \in SUBSET Entry
      PROVE  Sound'
  BY <1>2, DrainerFields, DrainWrites
<1>3. CASE List(d)
  <2> DEFINE r == [drainer[d] EXCEPT !.pc = "reading", !.todo = queue, !.listed = queue]
  <2>1. r \in Drainer /\ r.pc = "reading"
    BY <1>1 DEF Drainer
  <2>2. drainer' = [drainer EXCEPT ![d] = r]
    BY <1>3, Zenon DEF List
  <2>. HIDE DEF r
  <2>. QED
    BY <1>2, <1>3, <2>1, <2>2 DEF List
<1>4. CASE Read(d)
  <2>1. PICK e \in First(drainer[d].todo) :
           /\ Readable(e)
           /\ drainer' = [drainer EXCEPT ![d].pc = "replaying", ![d].todo = @ \ {e},
                                         ![d].entry = e]
    BY <1>4 DEF Read
  <2> DEFINE r == [drainer[d] EXCEPT !.pc = "replaying", !.todo = drainer[d].todo \ {e},
                                     !.entry = e]
  <2>2. e \in Entry
    BY <1>1 DEF Drainer, First
  <2>3. r \in Drainer /\ r.entry = e
    BY <1>1, <2>2 DEF Drainer
  <2>4. drainer' = [drainer EXCEPT ![d] = r]
    BY <2>1, Zenon
  <2>. HIDE DEF r
  <2>. QED
    BY <1>2, <1>4, <2>2, <2>3, <2>4 DEF Read
<1>5. CASE PassOver(d)
  <2>1. PICK e \in First(drainer[d].todo) : drainer' = [drainer EXCEPT ![d].todo = @ \ {e}]
    BY <1>5 DEF PassOver
  <2> DEFINE r == [drainer[d] EXCEPT !.todo = drainer[d].todo \ {e}]
  <2>2. r \in Drainer /\ r.pc = "reading"
    BY <1>1, <1>5 DEF Drainer, PassOver, DrainerAt
  <2>3. drainer' = [drainer EXCEPT ![d] = r]
    BY <2>1, Zenon
  <2>. HIDE DEF r
  <2>. QED
    BY <1>2, <1>5, <2>2, <2>3 DEF PassOver
<1>6. CASE Replay(d)
  <2> DEFINE r == [drainer[d] EXCEPT !.pc = "removing"]
  <2>1. drainer[d].entry \in Entry /\ drainer[d].entry.body \in EventBody
    BY <1>6 DEF Replay, DrainerAt, DrainersSound, Entry
  <2>2. r \in Drainer /\ r.entry = drainer[d].entry
    BY <1>1 DEF Drainer
  <2>3. drainer' = [drainer EXCEPT ![d] = r]
    BY <1>6, Zenon DEF Replay
  <2>. HIDE DEF r
  <2>4. DrainersSound'
    BY <2>1, <2>2, <2>3, DrainerFields
  <2>5. log' \in Seq(Event) /\ refused' \in SUBSET EventBody
    BY <1>6, <2>1, AppendKeeps DEF Replay
  <2>. QED
    BY <1>6, <2>4, <2>5, DrainWrites DEF Replay
<1>7. CASE ReplayFails(d)
  <2> DEFINE r == [drainer[d] EXCEPT !.pc = "reading", !.entry = Nothing]
  <2>1. drainer[d].entry.body \in EventBody
    BY <1>7 DEF ReplayFails, DrainerAt, DrainersSound, Entry
  <2>2. r \in Drainer /\ r.pc = "reading"
    BY <1>1 DEF Drainer
  <2>3. drainer' = [drainer EXCEPT ![d] = r]
    BY <1>7, Zenon DEF ReplayFails
  <2>. HIDE DEF r
  <2>4. DrainersSound'
    BY <2>2, <2>3, DrainerFields
  <2>5. log' \in Seq(Event) /\ refused' \in SUBSET EventBody
    BY <1>7, <2>1, AppendKeeps DEF ReplayFails
  <2>. QED
    BY <1>7, <2>4, <2>5, DrainWrites DEF ReplayFails
<1>8. CASE Remove(d)
  <2> DEFINE r == [drainer[d] EXCEPT !.pc = "reading", !.entry = Nothing]
  <2>1. r \in Drainer /\ r.pc = "reading"
    BY <1>1 DEF Drainer
  <2>2. drainer' = [drainer EXCEPT ![d] = r]
    BY <1>8, Zenon DEF Remove
  <2>. HIDE DEF r
  <2>. QED
    BY <1>2, <1>8, <2>1, <2>2 DEF Remove, When
<1>9. CASE Drained(d) \/ Pruned(d) \/ KillDrainer(d)
  <2>1. IdleDrainer.pc = "idle"
    BY DEF IdleDrainer
  <2>. QED
    BY <1>1, <1>2, <1>9, <2>1 DEF Drained, Pruned, KillDrainer
<1>10. CASE ListForPrune(d)
  <2>1. PICK cutoff \in 0..minted :
           drainer' = [drainer EXCEPT ![d].pc = "pruning",
                                      ![d].todo = {e \in queue : e.id <= cutoff}]
    BY <1>10 DEF ListForPrune
  <2> DEFINE V == {e \in queue : e.id <= cutoff}
             r == [drainer[d] EXCEPT !.pc = "pruning", !.todo = V]
  <2>2. r \in Drainer /\ r.pc = "pruning"
    <3>1. V \in SUBSET Entry
      OBVIOUS
    <3>. HIDE DEF V
    <3>. QED
      BY <1>1, <3>1 DEF Drainer
  <2>3. drainer' = [drainer EXCEPT ![d] = r]
    BY <2>1, Zenon
  <2>. HIDE DEF r
  <2>. QED
    BY <1>2, <1>10, <2>2, <2>3 DEF ListForPrune
<1>11. CASE Prune(d)
  <2>1. PICK e \in drainer[d].todo :
          /\ queue' = queue \ {e}
          /\ discarded' = discarded \cup ({e} \cap queue)
          /\ drainer' = IF e \in queue THEN [drainer EXCEPT ![d].todo = @ \ {e}]
                        ELSE [drainer EXCEPT ![d] = IdleDrainer]
    BY <1>11 DEF Prune
  <2> DEFINE r == IF e \in queue THEN [drainer[d] EXCEPT !.todo = drainer[d].todo \ {e}]
                  ELSE IdleDrainer
  <2>2. r \in Drainer /\ r.pc \in {"pruning", "idle"}
    BY <1>1, <1>11 DEF Drainer, Prune, DrainerAt, IdleDrainer
  <2>3. drainer' = [drainer EXCEPT ![d] = r]
    BY <2>1, Zenon
  <2>. HIDE DEF r
  <2>. QED
    BY <1>2, <1>11, <2>1, <2>2, <2>3 DEF Prune
<1>. QED
  BY <1>3, <1>4, <1>5, <1>6, <1>7, <1>8, <1>9, <1>10, <1>11 DEF DrainStep

\* Sound is an inductive invariant: for any hooks, drains and tool calls the
\* program counters of hooks and drains agree with what they hold.
THEOREM SoundAlways == QueueSpec => []Sound
<1>1. InitQueue => Sound
  <2>. SUFFICES ASSUME InitQueue
                PROVE  Sound
    OBVIOUS
  <2>1. HooksSound
    <3>1. FreshHook \in Hook /\ FreshHook.fate = "none" /\ FreshHook.pc = "idle"
      BY QueueAssumption DEF FreshHook, Hook, Nothing
    <3>. QED
      BY <3>1, Zenon DEF InitQueue, HooksSound, HookAt
  <2>2. DrainersSound
    <3>1. IdleDrainer \in Drainer /\ IdleDrainer.pc = "idle"
      BY DEF IdleDrainer, Drainer
    <3>. QED
      BY <3>1 DEF InitQueue, DrainersSound
  <2>3. queue \in SUBSET Entry /\ IsFiniteSet(queue) /\ minted \in Nat
    BY QueueAssumption, FS_Subset, FS_CardinalityType DEF InitQueue
  <2>. QED
    BY <2>1, <2>2, <2>3 DEF InitQueue, Sound
<1>2. Sound /\ [QueueNext]_queueVars => Sound'
  <2>1. ASSUME Sound, UNCHANGED queueVars
        PROVE  Sound'
    BY <2>1 DEF Sound, HooksSound, DrainersSound, Records, Record, HookAt, queueVars
  <2>. QED
    BY <2>1, HookStepSound, DrainStepSound DEF QueueNext
<1>. QED
  BY <1>1, <1>2, PTL DEF QueueSpec

\* The types of the queue, for any number of hooks and drains: a hook gives up
\* after MaxAttempts, and every orphan record comes from a hook that ran.
THEOREM QueueTypes == QueueSpec => []TypeOKQueue
<1>1. Sound => TypeOKQueue
  <2>1. Records \subseteq {Record(h) : h \in Hooks}
    BY DEF Records
  <2>. QED
    BY <2>1 DEF Sound, HooksSound, DrainersSound, TypeOKQueue
<1>. QED
  BY <1>1, SoundAlways, PTL

-----------------------------------------------------------------------------
(* The queue: the queueing promise *)

\* Where an event may be once a hook has queued it.
Safe(b) == b \in Fingerprints(log) \/ Queued(b) \/ b \in refused \/ Discarded(b)

\* A drain removes what the log has taken or refused.
Settled ==
    \A d \in Drainers :
        DrainerAt(d, "removing") => drainer[d].entry.body \in Fingerprints(log) \cup refused

\* What settles an event: log and refusals only grow, entries leave the queue
\* settled or discarded.
LEMMA StaysSafe ==
    ASSUME NEW b, Safe(b),
           Fingerprints(log) \subseteq Fingerprints(log'), refused \subseteq refused',
           discarded \subseteq discarded',
           \A e \in queue \ queue' :
              e \in discarded' \/ e.body \in Fingerprints(log') \cup refused'
    PROVE  Safe(b)'
BY DEF Safe, Queued, Discarded

\* The log and the refusals only grow.
LEMMA HistoryGrows ==
    ASSUME Sound, QueueNext
    PROVE  /\ Fingerprints(log) \subseteq Fingerprints(log') /\ refused \subseteq refused'
           /\ discarded \subseteq discarded'
<1>. USE DEF Sound
<1>1. ASSUME NEW h \in Hooks, Offer(h) \/ OfferFails(h)
      PROVE  Fingerprints(log) \subseteq Fingerprints(log') /\ refused \subseteq refused'
  <2>1. hook[h].body \in EventBody
    BY <1>1 DEF Offer, OfferFails, HookAt, HooksSound
  <2>. QED
    BY <1>1, <2>1, AppendKeeps DEF Offer, OfferFails
<1>2. ASSUME NEW d \in Drainers, Replay(d) \/ ReplayFails(d)
      PROVE  Fingerprints(log) \subseteq Fingerprints(log') /\ refused \subseteq refused'
  <2>1. drainer[d].entry.body \in EventBody
    BY <1>2 DEF Replay, ReplayFails, DrainerAt, DrainersSound, Entry
  <2>. QED
    BY <1>2, <2>1, AppendKeeps DEF Replay, ReplayFails
<1>3. ASSUME UNCHANGED log
      PROVE  Fingerprints(log) \subseteq Fingerprints(log')
  BY <1>3
<1>4. ASSUME NEW h \in Hooks, HookStep(h)
      PROVE  /\ Fingerprints(log) \subseteq Fingerprints(log') /\ refused \subseteq refused'
             /\ discarded \subseteq discarded'
  BY <1>1, <1>3, <1>4
  DEF HookStep, Fire, SkipRevert, Offer, OfferFails, Measure, ListOldest, Spill, Mint, Enqueue,
      Orphan, EnqueueFails, Kill
<1>5. ASSUME NEW d \in Drainers, DrainStep(d) \/ KillDrainer(d)
      PROVE  /\ Fingerprints(log) \subseteq Fingerprints(log') /\ refused \subseteq refused'
             /\ discarded \subseteq discarded'
  BY <1>2, <1>3, <1>5
  DEF DrainStep, List, Read, PassOver, Replay, ReplayFails, Remove, Drained, ListForPrune,
      Prune, Pruned, KillDrainer
<1>. QED
  BY <1>4, <1>5 DEF QueueNext

\* An entry leaves the queue settled or discarded.
LEMMA EntriesLeaveSettled ==
    ASSUME Sound, Settled, QueueNext
    PROVE  \A e \in queue \ queue' :
              e \in discarded' \/ e.body \in Fingerprints(log') \cup refused'
<1>1. ASSUME NEW h \in Hooks, HookStep(h)
      PROVE  queue \subseteq queue' \/ Spill(h)
  BY <1>1
  DEF HookStep, Fire, SkipRevert, Offer, OfferFails, Measure, ListOldest, Mint, Enqueue,
      Orphan, EnqueueFails, Kill, When
<1>2. ASSUME NEW h \in Hooks, Spill(h)
      PROVE  queue \ queue' \subseteq discarded'
  BY <1>2 DEF Spill
<1>3. ASSUME NEW d \in Drainers, DrainStep(d) \/ KillDrainer(d)
      PROVE  queue' = queue \/ Remove(d) \/ Prune(d)
  BY <1>3
  DEF DrainStep, List, Read, PassOver, Replay, ReplayFails, Drained, ListForPrune, Pruned,
      KillDrainer
<1>4. ASSUME NEW d \in Drainers, Remove(d)
      PROVE  \A e \in queue \ queue' : e.body \in Fingerprints(log') \cup refused'
  BY <1>4 DEF Remove, When, Settled
<1>5. ASSUME NEW d \in Drainers, Prune(d)
      PROVE  queue \ queue' \subseteq discarded'
  BY <1>5 DEF Prune
<1>. QED
  BY <1>1, <1>2, <1>3, <1>4, <1>5 DEF QueueNext

\* The drains keep to the settled.
LEMMA SettledStep ==
    ASSUME Sound, Settled, [QueueNext]_queueVars
    PROVE  Settled'
<1>1. CASE UNCHANGED queueVars
  BY <1>1 DEF Settled, DrainerAt, queueVars
<1>2. CASE QueueNext
  <2>1. Fingerprints(log) \subseteq Fingerprints(log') /\ refused \subseteq refused'
    BY <1>2, HistoryGrows
  <2>2. ASSUME NEW h \in Hooks, HookStep(h)
        PROVE  drainer' = drainer
    BY <2>2
    DEF HookStep, Fire, SkipRevert, Offer, OfferFails, Measure, ListOldest, Spill, Mint,
        Enqueue, Orphan, EnqueueFails, Kill
  <2>3. ASSUME NEW d \in Drainers, DrainStep(d) \/ KillDrainer(d), NEW c \in Drainers,
               DrainerAt(c, "removing")'
        PROVE  \/ DrainerAt(c, "removing") /\ drainer'[c] = drainer[c]
               \/ c = d /\ Replay(d) /\ drainer'[c].entry = drainer[c].entry
    <3>1. drainer \in [Drainers -> Drainer]
      BY DEF Sound, DrainersSound
    <3>2. CASE c # d
      <4>1. drainer'[c] = drainer[c]
        BY <2>3, <3>1, <3>2
        DEF DrainStep, List, Read, PassOver, Replay, ReplayFails, Remove, Drained, ListForPrune,
            Prune, Pruned, KillDrainer
      <4>. QED
        BY <2>3, <4>1 DEF DrainerAt
    <3>3. CASE c = d
      <4>1. CASE Replay(d)
        BY <3>1, <3>3, <4>1 DEF Replay
      <4>2. CASE ~Replay(d)
        <5>1. drainer'[d].pc = "removing"
          BY <2>3, <3>3 DEF DrainerAt
        <5>2. ~List(d) /\ ~Read(d) /\ ~ReplayFails(d) /\ ~Remove(d) /\ ~ListForPrune(d)
          <6>1. drainer[d] \in Drainer
            BY <3>1
          <6>2. ASSUME NEW r, drainer' = [drainer EXCEPT ![d] = r]
                PROVE  r.pc = "removing"
            BY <3>1, <5>1, <6>2
          <6>3. ~List(d)
            <7> DEFINE r == [drainer[d] EXCEPT !.pc = "reading", !.todo = queue,
                                               !.listed = queue]
            <7>1. r.pc = "reading"
              BY <6>1 DEF Drainer
            <7>2. List(d) => drainer' = [drainer EXCEPT ![d] = r]
              BY Zenon DEF List
            <7>. HIDE DEF r
            <7>. QED
              BY <6>2, <7>1, <7>2
          <6>4. ~Read(d)
            <7>1. ASSUME NEW e, NEW V, drainer' = [drainer EXCEPT ![d] =
                           [drainer[d] EXCEPT !.pc = "replaying", !.todo = V, !.entry = e]]
                  PROVE  FALSE
              <8> DEFINE r == [drainer[d] EXCEPT !.pc = "replaying", !.todo = V, !.entry = e]
              <8>1. r.pc = "replaying"
                BY <6>1 DEF Drainer
              <8>. HIDE DEF r
              <8>. QED
                BY <6>2, <7>1, <8>1 DEF r
            <7>2. Read(d) => \E e, V : drainer' = [drainer EXCEPT ![d] =
                           [drainer[d] EXCEPT !.pc = "replaying", !.todo = V, !.entry = e]]
              BY Zenon DEF Read
            <7>. QED
              BY <7>1, <7>2
          <6>5. ~ReplayFails(d) /\ ~Remove(d)
            BY <3>1, <5>1, <6>1 DEF ReplayFails, Remove, Drainer
          <6>6. ~ListForPrune(d)
            BY <3>1, <5>1, <6>1 DEF ListForPrune, Drainer
          <6>. QED
            BY <6>3, <6>4, <6>5, <6>6
        <5>3. ~Drained(d) /\ ~Pruned(d) /\ ~KillDrainer(d)
          BY <3>1, <5>1 DEF Drained, Pruned, KillDrainer, IdleDrainer
        <5>4. ~PassOver(d) /\ ~Prune(d)
          BY <3>1, <5>1 DEF PassOver, Prune, DrainerAt, IdleDrainer, Drainer
        <5>. QED
          BY <2>3, <4>2, <5>2, <5>3, <5>4 DEF DrainStep
      <4>. QED
        BY <4>1, <4>2
    <3>. QED
      BY <3>2, <3>3
  <2>4. ASSUME NEW d \in Drainers, Replay(d)
        PROVE  drainer[d].entry.body \in Fingerprints(log') \cup refused'
    <3>1. drainer[d].entry.body \in EventBody
      BY <2>4 DEF Sound, Replay, DrainerAt, DrainersSound, Entry
    <3>. QED
      BY <2>4, <3>1, AppendKeeps DEF Replay, Sound
  <2>. QED
    BY <1>2, <2>1, <2>2, <2>3, <2>4 DEF QueueNext, Settled, DrainerAt
<1>. QED
  BY <1>1, <1>2

\* A hook ends queued only where its entry is in the queue.
LEMMA QueuedByEnqueue ==
    ASSUME Sound, NEW h \in Hooks, QueueNext, hook'[h].fate = "queued"
    PROVE  \/ hook[h].fate = "queued" /\ hook'[h].body = hook[h].body
           \/ Enqueue(h) /\ hook'[h].body = hook[h].body
<1>1. hook \in [Hooks -> Hook] /\ (hook[h].fate = "queued" => HookAt(h, "over"))
  BY DEF Sound, HooksSound
<1>2. ASSUME NEW d \in Drainers, DrainStep(d) \/ KillDrainer(d)
      PROVE  hook' = hook
  BY <1>2
  DEF DrainStep, List, Read, PassOver, Replay, ReplayFails, Remove, Drained, ListForPrune,
      Prune, Pruned, KillDrainer
<1>3. ASSUME NEW g \in Hooks, HookStep(g), g # h
      PROVE  hook'[h] = hook[h]
  BY <1>1, <1>3
  DEF HookStep, Fire, SkipRevert, Offer, OfferFails, Measure, ListOldest, Spill, Mint, Enqueue,
      Orphan, EnqueueFails, Kill, End
<1>4. CASE HookStep(h) /\ ~Enqueue(h)
  <2>1. ~HookAt(h, "over")
    BY <1>4
    DEF HookStep, Fire, SkipRevert, Offer, OfferFails, Measure, ListOldest, Spill, Mint,
        Orphan, EnqueueFails, Kill, HookAt
  <2>2. hook[h].fate # "queued" /\ hook[h] \in Hook
    BY <1>1, <2>1
  <2>3. CASE Fire(h) \/ OfferFails(h) \/ Measure(h) \/ ListOldest(h) \/ Spill(h) \/ Mint(h)
    <3>1. hook'[h].fate = hook[h].fate
      BY <1>1, <2>2, <2>3 DEF Fire, OfferFails, Measure, ListOldest, Spill, Mint, Hook
    <3>. QED
      BY <2>2, <3>1
  <2>4. ASSUME NEW f, f # "queued", End(h, f)
        PROVE  hook'[h].fate # "queued"
    BY <1>1, <2>2, <2>4 DEF End, Hook
  <2>5. CASE SkipRevert(h)
    BY <1>1, <2>2, <2>5 DEF SkipRevert, Hook
  <2>. QED
    BY <1>4, <2>3, <2>4, <2>5 DEF HookStep, Offer, Orphan, EnqueueFails, Kill
<1>5. CASE Enqueue(h)
  <2>1. hook'[h].body = hook[h].body
    BY <1>1, <1>5 DEF Enqueue, End, Hook
  <2>. QED
    BY <1>5, <2>1
<1>. QED
  BY <1>2, <1>3, <1>4, <1>5 DEF QueueNext

\* The PostToolUse contract, whatever dies, for any cap and overflow policy:
\* a queued event is queued still, recorded, refused by the log, or dropped by
\* a spill or a prune.
THEOREM QueuedEventsAreKept == QueueSpec => []NothingIsLost
<1> DEFINE KInv == Settled /\ NothingIsLost
<1>1. InitQueue => KInv
  BY DEF InitQueue, Settled, NothingIsLost, DrainerAt, IdleDrainer, FreshHook
<1>2. Sound /\ KInv /\ [QueueNext]_queueVars => KInv'
  <2>1. ASSUME Sound, KInv, UNCHANGED queueVars
        PROVE  KInv'
    BY <2>1 DEF Settled, NothingIsLost, DrainerAt, Queued, Discarded, queueVars
  <2>2. ASSUME Sound, KInv, QueueNext
        PROVE  KInv'
    <3>1. Settled'
      BY <2>2, SettledStep
    <3>2. ASSUME NEW h \in Hooks, hook'[h].fate = "queued", NEW b, b = hook'[h].body
          PROVE  Safe(b)'
      <4>1. CASE hook[h].fate = "queued" /\ hook'[h].body = hook[h].body
        <5>1. Safe(b)
          BY <2>2, <3>2, <4>1 DEF NothingIsLost, Safe
        <5>. QED
          BY <2>2, <5>1, StaysSafe, HistoryGrows, EntriesLeaveSettled
      <4>2. CASE Enqueue(h) /\ hook'[h].body = hook[h].body
        <5>1. EntryOf(h) \in queue' /\ EntryOf(h).body = b
          BY <3>2, <4>2 DEF Enqueue, EntryOf
        <5>. QED
          BY <5>1 DEF Safe, Queued
      <4>. QED
        BY <2>2, <3>2, <4>1, <4>2, QueuedByEnqueue
    <3>. QED
      BY <3>1, <3>2 DEF NothingIsLost, Safe
  <2>. QED
    BY <2>1, <2>2
<1>3. KInv => NothingIsLost
  OBVIOUS
<1>. QED
  BY <1>1, <1>2, <1>3, SoundAlways, PTL DEF QueueSpec

-----------------------------------------------------------------------------
(* The queue: the cap *)

\* Hooks that have found room and will write.
Committed == {h \in Hooks : hook[h].pc \in {"minting", "writing"}}

\* What is queued and what will be: a hook commits itself only while the queue
\* is below the cap, and then every hook may have done so.
Room == Cardinality(queue) + Cardinality(Committed) < Cap + Cardinality(Hooks)

NobodySpills == \A h \in Hooks : hook[h].pc \notin {"spilling", "removing"}

\* What a step of a hook does to its program counter and to the queue when the
\* policy is Reject.
LEMMA HookCounters ==
    ASSUME Policies = {"Reject"}, Sound, NobodySpills, NEW h \in Hooks, HookStep(h)
    PROVE  /\ \A g \in Hooks \ {h} : hook'[g] = hook[g]
           /\ \/ /\ hook'[h].pc \in {"appending", "measuring", "orphaning", "over"}
                 /\ queue' = queue
              \/ hook'[h].pc = "minting" /\ Cardinality(queue) < Cap /\ queue' = queue
              \/ hook[h].pc = "minting" /\ hook'[h].pc = "writing" /\ queue' = queue
              \/ /\ hook[h].pc = "writing" /\ hook'[h].pc = "over"
                 /\ queue' \in {queue, queue \cup {EntryOf(h)}}
<1>1. hook \in [Hooks -> Hook] /\ hook[h] \in Hook
  BY DEF Sound, HooksSound
<1>2. \A g \in Hooks \ {h} : hook'[g] = hook[g]
  BY <1>1
  DEF HookStep, Fire, SkipRevert, Offer, OfferFails, Measure, ListOldest, Spill, Mint, Enqueue,
      Orphan, EnqueueFails, Kill, End
<1>3. ASSUME NEW f, End(h, f)
      PROVE  hook'[h].pc = "over"
  BY <1>1, <1>3 DEF End, Hook
<1>4. ASSUME Offer(h) \/ Orphan(h) \/ Kill(h)
      PROVE  hook'[h].pc = "over" /\ queue' = queue
  BY <1>3, <1>4 DEF Offer, Orphan, Kill
<1>5. ASSUME Fire(h)
      PROVE  hook'[h].pc = "appending" /\ queue' = queue
  BY <1>1, <1>5 DEF Fire, Hook
<1>6. ASSUME SkipRevert(h)
      PROVE  hook'[h].pc = "over" /\ queue' = queue
  BY <1>1, <1>6 DEF SkipRevert, Hook
<1>7. ASSUME OfferFails(h)
      PROVE  hook'[h].pc \in {"appending", "measuring"} /\ queue' = queue
  BY <1>1, <1>7 DEF OfferFails, Hook, HookAt
<1>8. ASSUME Measure(h)
      PROVE  /\ queue' = queue
             /\ \/ hook'[h].pc = "minting" /\ Cardinality(queue) < Cap
                \/ hook'[h].pc = "orphaning"
  <2>1. Cardinality(queue) \in Nat /\ Cap \in Nat
    BY FS_CardinalityType, QueueAssumption DEF Sound
  <2>. QED
    BY <1>1, <1>8, <2>1 DEF Measure, Full, Hook
<1>9. ~ListOldest(h) /\ ~Spill(h)
  BY DEF NobodySpills, ListOldest, Spill, HookAt
<1>10. ASSUME Mint(h)
       PROVE  hook[h].pc = "minting" /\ hook'[h].pc = "writing" /\ queue' = queue
  <2>1. hook[h].pc = "minting"
    BY <1>10 DEF Mint, NobodySpills, HookAt
  <2>. QED
    BY <1>1, <1>10, <2>1 DEF Mint, Hook
<1>11. ASSUME Enqueue(h) \/ EnqueueFails(h)
       PROVE  \/ hook'[h].pc = "over" /\ queue' = queue
              \/ /\ hook[h].pc = "writing" /\ hook'[h].pc = "over"
                 /\ queue' \in {queue, queue \cup {EntryOf(h)}}
  BY <1>3, <1>11 DEF Enqueue, EnqueueFails, HookAt, When
<1>. QED
  BY <1>2, <1>4, <1>5, <1>6, <1>7, <1>8, <1>9, <1>10, <1>11 DEF HookStep

\* Every step leaves room.
LEMMA RoomStep ==
    ASSUME IsFiniteSet(Hooks), Policies = {"Reject"}, Sound, NobodySpills, Room, [QueueNext]_queueVars
    PROVE  NobodySpills' /\ Room'
<1>1. /\ IsFiniteSet(queue) /\ Cardinality(queue) \in Nat
      /\ IsFiniteSet(Committed) /\ Cardinality(Committed) \in Nat
      /\ Cardinality(Hooks) \in Nat /\ Cap \in Nat
  BY FS_Subset, FS_CardinalityType, QueueAssumption DEF Sound, Committed
<1>2. ASSUME queue' \subseteq queue, Committed' \subseteq Committed
      PROVE  Room'
  <2>1. /\ Cardinality(queue') \in Nat /\ Cardinality(queue') <= Cardinality(queue)
        /\ Cardinality(Committed') \in Nat /\ Cardinality(Committed') <= Cardinality(Committed)
    BY <1>1, <1>2, FS_Subset, FS_CardinalityType
  <2>2. Cardinality(Hooks)' = Cardinality(Hooks) /\ Cap' = Cap
    OBVIOUS
  <2>. QED
    BY <1>1, <2>1, <2>2 DEF Room
<1>3. CASE UNCHANGED queueVars
  <2>1. Committed' = Committed
    BY <1>3 DEF Committed, queueVars
  <2>. QED
    BY <1>2, <1>3, <2>1 DEF NobodySpills, queueVars
<1>4. ASSUME NEW d \in Drainers, DrainStep(d) \/ KillDrainer(d)
      PROVE  NobodySpills' /\ Room'
  <2>1. hook' = hook /\ queue' \subseteq queue
    BY <1>4
    DEF DrainStep, List, Read, PassOver, Replay, ReplayFails, Remove, Drained, ListForPrune,
        Prune, Pruned, KillDrainer, When
  <2>2. Committed' = Committed
    BY <2>1 DEF Committed
  <2>. QED
    BY <1>2, <2>1, <2>2 DEF NobodySpills
<1>5. ASSUME NEW h \in Hooks, HookStep(h)
      PROVE  NobodySpills' /\ Room'
  <2>1. \A g \in Hooks \ {h} : hook'[g] = hook[g]
    BY <1>5, HookCounters
  <2>2. CASE /\ hook'[h].pc \in {"appending", "measuring", "orphaning", "over"}
             /\ queue' = queue
    <3>1. Committed' \subseteq Committed
      BY <2>1, <2>2 DEF Committed
    <3>. QED
      BY <1>2, <2>1, <2>2, <3>1 DEF NobodySpills
  <2>3. CASE hook'[h].pc = "minting" /\ Cardinality(queue) < Cap /\ queue' = queue
    <3>1. Committed' \subseteq Hooks
      BY DEF Committed
    <3>2. Cardinality(Committed') \in Nat /\ Cardinality(Committed') <= Cardinality(Hooks)
      BY <3>1, FS_Subset, FS_CardinalityType
    <3>. QED
      BY <1>1, <2>1, <2>3, <3>2 DEF NobodySpills, Room
  <2>4. CASE hook[h].pc = "minting" /\ hook'[h].pc = "writing" /\ queue' = queue
    <3>1. Committed' \subseteq Committed
      BY <2>1, <2>4 DEF Committed
    <3>. QED
      BY <1>2, <2>1, <2>4, <3>1 DEF NobodySpills
  <2>5. CASE /\ hook[h].pc = "writing" /\ hook'[h].pc = "over"
             /\ queue' \in {queue, queue \cup {EntryOf(h)}}
    <3>1. h \in Committed /\ Committed' = Committed \ {h}
      BY <2>1, <2>5 DEF Committed
    <3>2. Cardinality(Committed') = Cardinality(Committed) - 1
      BY <1>1, <3>1, FS_RemoveElement
    <3>3. Cardinality(queue') \in Nat /\ Cardinality(queue') <= Cardinality(queue) + 1
      <4>1. Cardinality(queue \cup {EntryOf(h)}) \in {Cardinality(queue), Cardinality(queue) + 1}
        BY <1>1, FS_AddElement
      <4>2. queue' = queue \/ queue' = queue \cup {EntryOf(h)}
        BY <2>5
      <4>. QED
        BY <1>1, <4>1, <4>2
    <3>. QED
      BY <1>1, <2>1, <2>5, <3>2, <3>3 DEF NobodySpills, Room
  <2>. QED
    BY <1>5, <2>2, <2>3, <2>4, <2>5, HookCounters
<1>. QED
  BY <1>3, <1>4, <1>5 DEF QueueNext

\* Reject bounds the queue for any number of hooks: it outgrows the cap by at
\* most one entry per concurrent hook but the first, unless it did so already.
THEOREM CapIsSoft ==
    ASSUME IsFiniteSet(Hooks), Policies = {"Reject"},
           Cardinality(Leftovers) < Cap + Cardinality(Hooks)
    PROVE  QueueSpec => []OverrunIsBounded
<1>1. InitQueue => NobodySpills /\ Room
  <2>. SUFFICES ASSUME InitQueue
                PROVE  NobodySpills /\ Room
    OBVIOUS
  <2>1. NobodySpills /\ Committed = {}
    BY DEF InitQueue, NobodySpills, Committed, FreshHook
  <2>2. Cardinality(queue) \in Nat /\ Cardinality(queue) <= Cardinality(Leftovers)
    BY QueueAssumption, FS_Subset, FS_CardinalityType DEF InitQueue
  <2>3. Cardinality(Leftovers) \in Nat /\ Cardinality(Hooks) \in Nat /\ Cap \in Nat
    BY QueueAssumption, FS_CardinalityType
  <2>. QED
    BY <2>1, <2>2, <2>3, FS_EmptySet DEF Room
<1>2. Sound /\ (NobodySpills /\ Room) /\ [QueueNext]_queueVars => (NobodySpills /\ Room)'
  BY RoomStep
<1>3. Sound /\ Room => OverrunIsBounded
  <2>. SUFFICES ASSUME Sound, Room
                PROVE  OverrunIsBounded
    OBVIOUS
  <2>1. Cardinality(queue) \in Nat /\ Cardinality(Committed) \in Nat
    BY FS_Subset, FS_CardinalityType DEF Sound, Committed
  <2>2. Cardinality(Hooks) \in Nat /\ Cap \in Nat
    BY FS_CardinalityType, QueueAssumption
  <2>. QED
    BY <2>1, <2>2 DEF Room, OverrunIsBounded
<1>. QED
  BY <1>1, <1>2, <1>3, SoundAlways, PTL DEF QueueSpec
=============================================================================
