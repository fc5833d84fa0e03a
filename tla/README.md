# knotch in TLA+

knotch is a git-correlated, append-only event ledger for work units: hooks of a
coding agent, command-line calls and a reconciler propose events, a kernel
decides which of them a unit's log admits, and a file repository writes them
under a lock. This directory holds a model of that system, the instances that
TLC explores, and proofs that TLAPS checks for every value of the constants.
Paths below are relative to the repository (`src/`); `PROJECT.json` maps every
definition that models code to the lines it models.

1. [Inventory](#inventory)
2. [Modules and the code they model](#modules-and-the-code-they-model)
3. [Runs, bounds, and what they show](#runs-bounds-and-what-they-show)
4. [Fairness](#fairness)
5. [Proofs](#proofs)
6. [Where code and documents disagree](#where-code-and-documents-disagree)
7. [What is not modelled](#what-is-not-modelled)
8. [Plan](#plan)

## Inventory

| Part | State | Operations | Interacts with | Hard about it |
|---|---|---|---|---|
| Event ledger rules (`knotch-kernel`) | none: pure functions of a log | fifteen event kinds, each with a precondition; projections (effective events, current phase, current status, shipped milestones); fingerprint; monotonic stamp | called by every append path | rules look at *effective* events (what has not been superseded) or at the *whole* log, and it matters which; long sequences of legal calls |
| File repository (`knotch-storage`) | `log.jsonl`, `.resume-cache.json`, broadcasters in memory | `append`, `with_cache`, `load`, `subscribe`, `list_units` | takes `FileLock`, runs the kernel rules, sends to subscribers | concurrent callers in one process and in several; crash between two file operations; a batch that is refused half way; failed directory sync |
| File lock (`knotch-lock`) | a mutex per process, `.lock` (flock), `.lock.meta` | `acquire`, release by drop, stale-lock reclaim | taken by the repository | the sidecar lags behind the flock; unlinking a lock file others have open; leases; timeouts |
| Hook contract and queue (`knotch-agent`, `knotch-cli` hooks) | `.knotch/queue/*.json`, `~/.knotch/orphan.log` | `post_tool_append`, `enqueue_raw`, `spill_oldest`, `drain`, prune | appends through the repository; drained at SessionStart and by `knotch reconcile` | every hook is a process of its own and there is no lock on the queue; append and removal are two steps |
| Active unit and sessions (`knotch-agent`) | `.knotch/active.toml`, `.knotch/sessions/*.toml` | resolve, `unit use`, snapshot at SessionStart and UserPromptSubmit, clear at SessionEnd | read by every hook | test, read and write are separate steps; one temporary name per pointer |
| Agent hooks (`knotch-agent`, `knotch-cli` hooks) | none of their own | check before a commit and record after it, record a revert, guard a rewrite, model switch, subagent report, tool failure | load, decide, let git run, append | what was loaded is stale at the append; git's output is all the second hook knows |
| Reconciler and observers (`knotch-reconciler`, `knotch-observer`) | none of their own | snapshot, run observers concurrently under a timeout, join, sort, append once | reads git, artifacts, subprocess output; appends | join order, timeouts, panics, budgets |
| Git access (`knotch-vcs`) | none | `verify_commit`, `log_since`, `current_head`, message parsing | observers, hooks | commits leave the branch and stay objects; two parsers of one message |
| Command line (`knotch-cli`) | `knotch.toml`, `.claude/settings.json`, `.gitignore` | one command per event kind; `init`, `doctor`, `migrate`, reports | all of the above | `init` is a run of plain writes that can be cut short; people edit the same files |
| Workflow configuration (`knotch-workflow`) | none: read from `knotch.toml` by every command | validation, the kernel's questions (required phases, prerequisites, skips, terminal statuses) | gives the kernel its workflow | it changes under a log; validation gaps (cycles of gates) |
| Schema lifecycle and migrations (`knotch-schema`, `knotch-proto`) | a registry of migrators | `LifecycleFsm::evaluate`, `register`, `migrate` | adopters call them in front of the ledger | a rule stated twice; a walk that overshoots or does not move |
| In-memory repository (`knotch-testing`) | a log behind one mutex | as the file repository | tests | - |
| Query (`knotch-query`) | none | predicates over projections, limit | reads logs | - |
| Linter, derive macros, tracing, ADR, frontmatter | none | build-time checks, generated code, constants, text formats | - | - |

What makes each part correct:

* **Ledger rules.** A terminal unit stays shut but can always be reopened;
  ships and reverts of a milestone alternate; gates climb their ladder; a
  subject has one outcome; attempts and stamps rise; supersedes are
  well-founded and never undone.
* **Repository.** The file is always a log the rules could have produced. It
  only grows, by whole batches; what is reported is on it; the cache never
  runs ahead of it; every call returns.
* **Lock.** One guard at a time, named by the sidecar; at least one per
  process whatever happens to the file lock.
* **Queue.** An event a hook has queued is queued still, recorded, refused by
  the ledger, or was dropped by an explicit policy; the cap is exceeded by a
  bounded number; what can be drained leaves in the end.
* **Sessions.** A session keeps the unit it was bound to, its hooks work on that
  unit, and no kill leaves half a pointer.
* **Hooks, observers.** What is recorded about git is true of git; a hook that
  nobody came between does what it decided on; a pass leaves the same log
  whichever observer was first.
* **Project.** An `init` that nobody disturbs leaves a project `doctor` finds
  nothing wrong with, from whatever state; a log obeys the workflows it was
  written under; the two statements of the lifecycle rule agree.

## Modules and the code they model

```
Kernel ---- Ledger ---------------- MCLedger
   |           \-- LedgerProofs (Kernel lemmas: KernelProofs)
   |
   +--- FileRepository ------------ MCFileRepository
   |     |   |  \   \-- FileRepositoryProofs
   |     |   |   \-- Subscription - MCSubscription
   |     |   |        \-- SubscriptionProofs
   |     |   \--- (implements MemoryRepository)
   |  Callers  \
   |     |      LockedRepository -- MCLockedRepository
   |     |     /        \
   |    FileLock         \-- SharedFilesProofs (and FileRepositoryProofs)
   |                     /
   +--- HookQueue ------+---------- MCHookQueue
   |
   +--- CommitText --- Git ---+---- AgentHooks ---+
   |                          |                   +-- Workbench - MCWorkbench
   |                          +---- Observers --- Reconciler     \-- WorkbenchProofs
   |                                                  |
   +--- CommandLine -------- (both) ------------------+
             |
             | (instantiated once per workflow)
             |
   WorkflowConfig --- Scaffold ---+
                                  +-- Project ------- MCProject
   Migration ---------------------+      \-- ProjectProofs

   Sessions ------------------------- MCSessions
        \-- SessionsProofs
```

**Kernel** (`knotch-kernel/src/{event,project,fingerprint,time}.rs`). Operators
on a log, a sequence of `[body, at]`. The id of an event is its position: an id
is minted fresh for every accepted event, so the position names it for ever,
and position 0 stands for an id that is not in the log. `Effective` is
`effective_events`, single-shot as in the code: superseding a supersede brings
nothing back. `Can...` are the arms of `check_precondition`, one each;
`AcceptsKind` is the terminal-status gate in front of them. `IsDuplicate` is
the dedup step, which searches the *whole* log and comes before any
precondition; the fingerprint is a salted hash, modelled as collision-free and
therefore as the body. `StampMonotonic` bumps the last stamp by one unit when
the clock has not advanced and saturates at `MaxTime`. `InOrder` sorts a finite
set by an order on it; `Ascending`, positions in the order of the log.

**Ledger.** The abstract specification of one unit: a log that grows by one
admissible event at a time, one action per event kind. A refused proposal
leaves the log alone, and is a stuttering step.

**FileRepository** (`knotch-storage/src/{file_repository,fs_storage,atomic}.rs`).
`append` and `with_cache`, one action per await: take the guard, read and
mutate the cache, load, consider one proposal after another against a working
log, compare line counts, rename, write the cache, publish and return. Error
paths are actions of their own (`LockFails`, `SaltMismatch`, `ReadFails`,
`PreconditionFails`, `Roll`, `GiveUp`, `WriteFails`, `RenameUnsynced`), and so
is the crash of the caller's process between any two awaits. The comparison
and the rename are separate steps because they are separate file operations.
A file is its header's salt and its events; a header line is added by the
first append. The lock is abstract: `holders` are the owners of a guard, and
`Exclusive` says whether the lock keeps its promise.

**MemoryRepository** (`knotch-testing/src/repo.rs`). `InMemoryRepository`, which
tests put in the place of the file: a whole call runs under one mutex without
an await, so a batch is one step. It is the abstract specification of
FileRepository (`ImplementsMemory`, with the file's log as its events): what
tests learn on the in-memory repository holds of the file. `with_cache` appends
in the same way; its cache has no counterpart, because the file's may lag.

**Subscription** (`knotch-storage/src/file_repository.rs`, `subscribe`). The
broadcast channel of one process: `sent` is what its calls have sent (as
positions on the log), event by event (`Send`) and under the guard; `Write` is
any other step of a call. A subscriber attaches its receiver (`Subscribe`),
then reads the history (`LoadHistory`), replays it and goes on to what its
cursor meets. An overtaken cursor is moved to the oldest event the channel
still has (`Lag`), as tokio's does; the recv that follows either finds an event
(`ReceiveAfterLag`) or is overtaken again (`LagAgain`). A crash of the process
takes calls, channel and streams together. `stream` is what the consumer has
been given; `lost` and `since` are history.

**FileLock** (`knotch-lock/src/{file_lock,metadata}.rs`). Both layers of
`acquire`. `.lock` is a name that leads to an inode; a flock belongs to the
inode that was opened, and unlinking the name does not disturb it. `meta` is
the sidecar, in the states a reader can find it in: missing, empty (truncated
and not yet written), the reclaim marker, or a holder's metadata. Every system
call is a step. `Die` is the exit or crash of a process: the system closes its
handles, the name and the sidecar stay. `LeaseRunsOut` lets time pass beyond
`acquired_at + lease`. Time is otherwise counted in polls. Whether a holder is
alive is asked with signal 0 (`PidAlive`), and the answer is only right among
processes that may signal each other (`Sees`): one of another user answers EPERM,
which the code takes for its death, and the number of one in another pid
namespace means nobody or somebody else. `PidsRecur` says whether the pid of a
dead process may be in use again.

**LockedRepository.** The two together: `Granted` is the last step of `acquire`
and the `Acquire` of the repository, `Work` keeps the guard as long as the call
lasts, `ProcessDies` takes calls and locks. `Exclusive` is FALSE here, so
exclusion is what FileLock delivers, and `Serial` is the same repository over
a perfect lock, as the abstract specification.

**HookQueue** (`knotch-agent/src/queue.rs`,
`knotch-cli/src/cmd/{reconcile,hook/*}.rs`). Hook processes that offer one
event each, retry, and turn to the queue or the orphan log; drains of
SessionStart and of `knotch reconcile`, and its prunes. Each directory listing,
write and removal is a step. `Repository::append` is one step; it may fail
before its effect or after it (`RenameUnsynced` above is why). Ids of entries
are UUIDv7, so minting order is name order. A revert whose commit the log does
not know is skipped (`SkipRevert`). `refused`, `discarded`, `fate` and `listed`
are history.

**Callers** declares the constant `Tasks`, shared by repository and lock.

**Sessions** (`knotch-agent/src/{active,atomic,session_start,session_end}.rs`,
`knotch-cli/src/cmd/unit.rs`). Processes that resolve a pointer, snapshot it,
clear it or switch it. `Test`, `Probe` and `Read` are the existence tests and the
read of `resolve_active_for_hook`; a SessionStart whose payload names a model
resolves twice (`Detected`). `atomic::write` is `Create`, `Write` and `Rename`
on one temporary name per path: a rename moves the inode, and with it what
other writers have open (`fd`). Bytes of two writers over each other are
`Garbled`. `begun` in a process's record, `bound` and `crossed` are history.

**CommitText** says what the programs around git tell apart in a message, a
command line and git's output: a message is a record with a field for each
distinction, and the parsers of knotch-agent and of knotch-vcs are separate
operators because they disagree. **Git** is the repository itself, which is
external: commits that exist, and the branch, which a rewrite shortens; and
what GixVcs reads of it.

**CommandLine** (`knotch-cli/src/cmd/*.rs`). A command is one AllOrNothing
proposal: `Offer` appends it if the kernel admits it and otherwise leaves the
log. The projections that `show` and the hooks read are here too.

**AgentHooks** (`knotch-agent/src/{commit,guard,model,subagent,tool_call}.rs`,
`knotch-cli/src/cmd/hook/*.rs`). A tool call of a session goes from its
PreToolUse hook (`CheckCommit`, `StartRewrite`) over git (`RunCommit`,
`RunRevert`, `RunRewrite`) to its PostToolUse hook (`RecordCommit`,
`LookUpRevert`, `RecordRevert`); between them other sessions take their steps.
An append that keeps failing goes to a queue that a later session drains
(HookQueue has the queue in detail), or is lost with a warning (`Loses`): the
queue is full and refuses, or cannot be written either, and a model switch is
never queued (`record_switch` hands the error on, and the hook ends before its
drain). A command line of git commit is the sequence of the messages on it. A
message is `own` where it was the one argument of -m on its line, `shared` where
the line holds several (`git tag -m x && git commit -m y`), and `indirect` where it
came from the file of -F or was put together by the shell. `ExtractMessage` joins
what is on a line, whatever separates it, and is asked twice, before and after git:
an indirect text may have changed in between, and a `$(cat <<'EOF' ...)` is heard
as typed. `PartDone` keeps the first header of the output, whichever part of the
line printed it. After `git revert --no-commit` the header `RunRevert` finds is
that of a commit with a message of somebody's own, and is recorded as a revert all
the same. `UnheardCommit` is a commit no hook hears.

**Observers** and **Reconciler** (`knotch-observer/src/*.rs`,
`knotch-reconciler/src/lib.rs`). A pass loads once (`StartPass`), its observers
end in any order (`Join`), fail, time out (`TimeOut`) or panic (`Panic`), and
`Finish` sorts and appends. An observer reads the log from the snapshot and git
when it runs. `Batch` is the stable sort of the code, by name and kind, of the
proposals in the order of the join; `Owed(Said(...))` is what it should amount
to, said of the *set* of what each observer proposed, which knows no join.

**Workbench** composes AgentHooks, Reconciler and CommandLine on one log and
one git repository.

**WorkflowConfig** (`knotch-workflow/src/config.rs`, `canonical.toml`,
`knotch-schema/src/lifecycle.rs`). A workflow is a record like the `[workflow]`
table; `Valid` is `from_spec`, the other operators are `impl WorkflowKind`, and
`Evaluate` is the lifecycle FSM.

**Scaffold** (`knotch-cli/src/cmd/{init,doctor}.rs`, `config.rs`). `knotch.toml`,
the settings and `.gitignore`, and `init` as the steps that write them. `Killed`
is every way an init ends early; a plain write that is cut short leaves the file
truncated. People edit the files between the steps. `found` is what an init came
upon, `alone` says that nobody has edited since: both are history. The hooks of an
event are entries, an entry is the sequence of its commands. What the two `retain`s
of `strip_knotch_managed` do is `Kept`: the elements of a sequence at a set of
positions, in turn. A hook of another tool is a command that is not knotch's, so
the commands in knotch's blocks are not among `Tools` (`ToolsAssumption`).

**Project** puts the unit `demo` under these files: `C(w)` is CommandLine under
the workflow w, and `Work` any command under whatever workflow `knotch.toml`
holds when it runs, also between the three steps of a demonstration
(`CreateDemo`, `SpecifyDemo`, `UseDemo`). `header` is the first line of the log,
`under` (history) the workflow of each event.

**Migration** (`knotch-proto/src/migration.rs`). The registry and the walk of
`migrate`, one migrator a step. The value itself is left out.


## Runs, bounds, and what they show

Twelve runs, ten that pass and two that show a disagreement between the code
and what it says of itself. `PROJECT.json` lists for each property of a passing
run a plausible bug of the code (a *mutant*, an operator next to the one it
would replace) that violates the property under the same configuration.

**`ledger_rules`** asks whether the preconditions, each of which looks at one
proposal, add up to properties of whole logs. The exploration (`Explored` in
MCLedger) takes all pairs of event kinds and then extends each log within one
family of kinds that constrain each other: lifecycle to six events, gates with
approvals and subagents, deliveries, attempts and model switches to five.
`EventSuperseded` belongs to every family and may name any position and one
that does not exist. Families are enough because the preconditions of one
family do not read events of another, except for the terminal gate, which
length two shows for every kind, and the approvals, whose target may be any
event. Six events let a phase be completed, superseded, completed again and
the unit be closed and reopened; five let a milestone be shipped, reverted,
shipped again and one of these be superseded. Two wall clock readings and
`MaxTime` = 4 reach a clock that stands still, goes back, and saturates; they
are combined with the family whose numbers matter. `CountersRise` is exact about
what rises: attempts of a tool call in the effective log, attempts of an anchor in
the whole log, and stamps until the maximum, which is given out again. Details, commits and models
are interchangeable: no definition names one of them.

**`repo_append`**: three callers, one with a foreign salt, every batch of a
small set that can be accepted, deduplicated, refused half way or contradict
itself, both modes, with and without cache, two attempts, under an exclusive
lock. No call starts on a log of two events or more, so logs reach four. Three
callers allow one to work, one to wait and one to have crashed. The lock being
exclusive, this is what the repository promises when its lock is right:
`LegalDisk`, `WholeBatches`, `ReportedIsOnDisk`, `CacheFollowsLog`, and that it
implements the in-memory repository (`ImplementsMemory`). `CacheFollowsLog` is one
direction, the one the code keeps: the cache is never ahead of the log. It may be
behind it for good, see the disagreements.

**`locked_live`**: repository over FileLock, three processes of one user, one of
which may die and leave its sidecar, with a pid that another process may get.
Every call is granted, refused or ends with its process (`CallsReturn`). Until
that death one guard exists, named by the sidecar (`SoleHolder`), and every
behaviour is one of the repository over a perfect lock (`SerialAppends`, a
refinement). Both are stated for `Undisturbed` locks: nobody has died, no lease
runs out, and every process may signal every other. Four inodes are one for the
name and one per open handle.

**`locked_faults`**: two callers in one process and one in another, of two users:
each takes the other for dead. Leases run out, a process dies, markers cannot be
written, so two calls may hold the lock together, the comparison of line counts
fails, is retried, and gives up. Updates may be lost then. What survives: no
AllOrNothing batch is ever on the file in part (`NoTornBatch`), and tasks of one
process still exclude each other (`InProcessExclusion`).

**`locked_lost`** (violation of `NoLostUpdate`): see the disagreements.

**`sub_stream`**: two callers of the process that subscribes and one of another,
one subscriber in any mode, which may leave and come back. The channel holds
two events and the log reaches four, so a stream falls behind, catches up, is
overtaken once and twice. One batch has a refused proposal in the middle, so
that positions and proposals differ. A stream shows nothing that is not on the
file, and its live part has every event once and in the order of the log
(`StreamFollowsFile`); and between history and live part there is no hole,
although one is read from the file and the other from the channel (`NoHole`).
One subscriber is enough, because subscribers do not affect anything.

**`queue_contract`**: two hooks at a cap of one, two drains, deaths and failing
file operations anywhere, both overflow policies, prunes, and a leftover entry
of another preset: `NothingIsLost`. Two hooks are what it takes for one count
to be stale; two drains, for one to remove what the other replays.

**`queue_drain`**: the queue starts full with an entry at its head that nobody
can read; every other entry leaves in the end (`QueueDrains`), and the overrun
of the cap stays below the number of hooks (`OverrunIsBounded`).

**`sessions`**: a session that starts and ends again and again, `unit use`
beside it, three processes at a time, each of which may be killed anywhere, two
units. Whoever is killed, a pointer is whole unless two writers of it have met
(`LoneWritersLeaveWholePointers`); a hook works on the unit its session was
bound to (`HooksFollowTheSession`); and a session keeps that unit
(`SessionKeepsItsUnit`). Three processes are two that meet on a path and one
that reads. One session is enough, because two meet only if their names do, and
the properties leave that out.

**`workbench`**: two sessions that commit, revert, rewrite and switch models, a
reconciler with any two of its four observers, the command line, and commits
nobody hears of, on one milestone, two commits and one log. At most two of
calls, queued proposals and passes are under way at a time (`MaxUnderWay`): any
two can interleave. Logs of ships, reverts and verifications reach four events,
which is ship, revert, ship again and one more; logs that mix in other kinds
reach two, and three for switches (`Explored`). Every message is met in a commit
of its own; two commits are features, reverts, a documentation commit beside one of
these, or commits of a line with other commands (`Paired`), which is what it takes
to mistake one for the other. Sessions are interchangeable, and so are the two
commits: the subprocess may announce either. What is recorded as shipped is a
commit that ships it, however late it is recorded and by whom
(`LogNamesRealCommits`), where its message was on a command line of its own or an
observer names it in full; on other lines the hooks may take one text for another,
and the property keeps what is left: a commit that git has. Of the command lines
here one is plain, one plain documentation, one indirect, and one makes a commit
whose message is silent before one whose message ships. The subprocess observer
passes on whatever a program of the project prints; the property is about one that
vouches for nothing (`Modest`): here it announces a ship, unverified, of a commit
git may not have yet. A pass leaves the log its observers' words determine,
not the order of the join (`MergeIsDeterministic`). A hook between whose look
and whose record nothing came does what it decided on: a commit that was checked
is recorded as the ship its line announces, a guarded rewrite spares shipped
commits, a detector leaves the timeline at its model (`HooksActOnWhatTheySaw`).
The excuse is an append that fails: then the ship is queued, or it and the switch
are lost, and the session passes through a state that says so (`Loses`, `Warn`).

**`project`**: one directory over its years. Four regimes (`Explored` in
MCProject) are followed one at a time: the files, with hooks of other tools
before, beside and inside knotch's entries, settings that are spoilt or gone,
and `.gitignore` lines that spell `.knotch` in another way; a demonstration
among other work, under workflows that lack its phase or its name; a log under
`knotch.toml`s that are edited between any two events, up to four events by
kind; and migrators between three versions. What people write into a file stays
short (`Few`): at most one other hook per event and two lines of `.gitignore`,
which leaves room for one before an init and one between its steps. Every init is
with and without each flag, and may be killed in any step. An init that nobody
edits under, whatever came before, leaves a project with which `doctor` is
content, everyone else's hooks and lines where they were, knotch's hooks once
each (`InitLeavesASoundProject`; that a list of hooks is another in the same
order is that their places correspond, the earlier ones to the earlier ones,
`SameInOrder`). The workflows here have one schema version (`OneVersion`, which
TLC evaluates): a log that was begun under another version of a workflow of the
same name keeps that version, and `migrate`, not `init`, is what finds it. Each
event of a log was recorded under the name in its header, and gates are reached
by the rules the log was written under, so that a gate on a cycle never is
(`LogObeysItsWorkflows`). The FSM and the ledger agree but for terminal statuses
(`LifecycleAgrees`). A walk of migrators ends where it should if they climb
(`MigrationLands`). Here a person's edit does not fall within a step of `init`,
that is between its read of a file and its write.

**`init_hooks`** (violation of `MandatoryHooksAlwaysMerged`): see the
disagreements.

All bounds are constants: `Explored` (which states Ledger, Workbench and Project
go on from), `MaxEvents`, `MaxAttempt`, `MaxTime`, `MaxRetries`, `MaxPolls`,
`Inodes`, `Cap`, `MaxAttempts`, `Capacity`, `MaxProposals`, `MaxQueued`,
`MaxUnderWay` and `MaxSteps`. Of these, the code has `MaxTime`
(`Timestamp::MAX`), `MaxRetries` (`CAS_MAX_RETRIES`), `MaxPolls` (timeout over
poll interval), `Cap`, `MaxAttempts`, `Capacity` (`BROADCAST_CAPACITY`) and
`MaxProposals` (`ObserveBudget`); the others only bound the exploration.
Deadlock is not checked where callers stop at `MaxEvents` or each hook handles
one tool call, so that the model ends; in `sessions`, `workbench` and `project`
somebody can always take a step.

## Fairness

`FairSpecAll` (LockedRepository) has weak fairness on every task, for the steps
of acquire and of the call together: Tokio polls a task that is ready, and a
system call returns. It does not assume that the lock is ever free, that a
particular outcome of a race comes about, that a holder releases, or that a
call starts. Steps that fail are among the fair ones. `CallsReturn` follows
from the timeouts and the bounded retries alone, which is the point. It is
checked where the marker can be written and leases outlast their hold: without
that the reclaim branch may go round for ever (see the disagreements).

`FairSpec` (HookQueue) says that sessions keep starting and that a drain that
has started keeps running (weak fairness of `DrainStep`), and that an append
that is tried again and again succeeds at last (strong fairness of `Replay`).
The second is needed because a drain that meets an error passes over the entry
and a later session tries again; without it an append that always fails would
keep the entry, as it should. Nothing is assumed of hooks.

Sessions, Workbench and Project state no fairness: processes, people and tools
there may stop for good, and the properties are about what has happened. That a
pass ends rests on timeouts per observer alone, and that a walk of migrators
ends is the bound on its steps in `MigrationLands`.

## Proofs

Eight modules hold the proofs, for every value of the constants that satisfies
the named assumptions. TLC has checked each property before.

**KernelProofs**: lemmas on positions, prefixes and stamps. Two carry the
weight. `EffectiveInPrefix`: an event that stands in a log stood in each prefix
that contains it. `LegalAppend`: a legal log with an admissible event stamped
onto it is legal. And what `InOrder` makes of a finite set under a strict total
order (`InOrderFacts`): every element once, in order; and that two sets with an
order-preserving bijection between them are sorted alike (`InOrderTransport`).

**LedgerProofs.** One invariant is inductive: `LegalLog`, each event was
admissible against the events before it. Almost everything else follows from the
legality of a single log, with no further induction, because what a precondition
said when an event was appended it said of a prefix, and `EffectiveInPrefix`
carries that to the whole log. Proved are all the properties of `ledger_rules`,
for every workflow, clock and length of log: `TypeCorrect`, `TerminalGuardHolds`,
`Alternation`, `CountersNeverFall`, `GatesClimbTheLadder`,
`SupersedesAreWellFounded`, `OneOutcome`, `PhaseViewsCoincide` and
`SupersedeIsForEver`. `CyclesAreNeverEntered` is the one with an induction of
its own: the gates on a log lie in every set the prerequisites cannot be left
from, so that a gate on a cycle, which `from_spec` accepts, is never recorded.

**FileRepositoryProofs.** The inductive invariant `IInv` adds two things to the
types, both under `Exclusive`, a lock that keeps its promise. `Guarded`:
whoever is past `Acquire` is the only holder. `UpToDate`: what a call inside the
critical section has loaded *is* the file, its working log extends the file
legally, and what it read back in the comparison is the file still. Without
them a rename could write anything. From `IInv`: `LegalDisk`,
`ReportedIsOnDisk` and that the file only grows (`FileOnlyGrows`) under an
exclusive lock, and `TypeOK` under any.

What a batch does to the file needs to know how far a call has got, which does
not depend on the lock (`AllProgress`): what its working log adds to the log it
loaded are proposals it has reached, all of them if none was refused, and a call
that is about to rename has reached the end and was not rolled back. With
`IInv`: `WholeBatches`; `CacheFollowsLog`, where `CacheInv` follows the marks
that a call has put into its own copy of the cache and not yet written; and the
refinement `ImplementsMemory`, step by step: a rename is the in-memory append of
the whole batch, all other steps change nothing the in-memory repository knows
of. The in-memory append is a recursive function of the batch (`After`), and
what it yields at each length is proved (`AfterIs`) from the least length where
the definition could fail, without the library's induction theorems.
`BatchesNeverTear` is `NoTornBatch` with no assumption on the lock, but for
callers whose batches are all-or-nothing and share no proposal
(`WholeBatchesOnly`, as in `locked_faults`): neither the file nor what a call
read back from it is torn.

**SubscriptionProofs.** `SInv` extends `IInv` by `Channel`, what the writers
keep, and `Right`, what is right of each subscriber. `Channel`: what has been
sent is an excerpt of the log in its order, and a call that sends is behind
everything sent before; this is where the guard is needed, since two calls past
the rename (`Alone`) could send in turns. `Right`: the stream repeats the
history and then part of the channel; what was sent before the receiver was
attached is in the history, what was sent since has been met by the cursor.
`StreamsFollowTheFile` and `StreamsHaveNoHole` follow for any number of writers,
processes, subscribers and crashes and any capacity, under an exclusive lock.

**SharedFilesProofs** has two parts, on the lock and on the queue. The first
begins with the lock alone. `NeverTwoInOneProcess`
holds whatever dies or expires and whoever is taken for dead: a task past the
mutex has its process's permit (`Permits`). `OneNamedHolder` speaks of processes
that may all signal each other, of the time before the first death, where leases
outlast their hold (`Undisturbed`): then nobody ever finds a stale sidecar, so the
name leads to one inode for ever (the invariant `LongLived`), and its flock
decides. The conditions are needed: `locked_lost` is the counterexample after a
death, and `locked_faults` has two holders at once with nobody dead. All assume
finitely many tasks, so that `open` finds an inode (`UnusedInode`).

Repository and lock together have the inductive invariant `IInvAll`. `Shared`
holds always: the types, `Permits`, what FileRepositoryProofs says of any lock,
and `Layers`, which ties the step a call is at to the step its `acquire` is at.
`Lone` holds while the lock is `Undisturbed`: `LongLived`, and all that
FileRepositoryProofs says under an exclusive lock, which is therefore stated
there for any condition under which calls have been let in one at a time
(`Inv(alone)`). From it: the refinement `SerialAppends`, so that every property of
the repository over a perfect lock is one of this repository for as long;
`UpdatesSurvive`, which is `NoLostUpdate` for as long, so that losing one takes a
death, an expired lease or a holder that may not be signalled; and `NoTornBatch`
at all times (`BatchesNeverTearAnyway`).

The second part is on the queue. `Sound` types the state and ties ids to what was minted.
`QueuedEventsAreKept` needs one more thing, `Settled`: an entry that a drain is
about to remove, and every queued entry a hook has written, is safe in the sense
of the property even while its removal is under way. `CapIsSoft` proves
`OverrunIsBounded` for the policy `Reject`, from `Room`: the queue and the
hooks that have counted and not yet written are together fewer than the cap and
the hooks.

**SessionsProofs.** `IInv` says for each path whose writers have not met
(`Orderly`) that it has one writer at most and that the temporary file holds
what that one has got to, and for each session (`OneHook`) that the hooks that
load its context come one after the other. `LoneWritersLeaveWholePointers`
follows at once. What a session is bound to needs `Stable`, for a session that
nobody has disturbed: its pointer holds the unit it was bound to, and every
process on its way to a unit (`Follows`), including a tool's hook that was
launched before the session's last snapshot, is on its way to that one. This gives
`SessionKeepsItsUnit` and `HooksFollowTheSession`, for any number of sessions,
processes and units and whoever is killed.

**WorkbenchProofs.** `BatchIsOwed`: sorting the join by name and kind, ties as
they were joined, is sorting what was said by observer, kind and place, since the
place of a proposal among those of its observer grows with the join
(`SameOrder`) and the two sets are sorted alike. With the types
(`WorkbenchTypes`) this is `MergeIsDeterministic`, for any number of observers'
proposals. What offering a batch one by one leaves (`AppendedFacts`) is a fact
about a recursive function, proved from the least length where it could fail.
So is, for every step, what it may record (`StepRecords`): what does not speak
of commits, what is queued or joined, and what a hook is about to say (`Voiced`);
the log only grows by it, and stays legal (`WorkbenchLogIsLegal`).

`LogNamesRealCommits` says something of the log and the objects of git, but what
is on its way to the log has to be true already: the inductive invariant `IInv`
says it of the queue and of the pass as well, and of each call that the header it
read is that of a commit git made, and of the message on its line where that was
the only one (`Backed`; `LineFacts` says what the parsers make of a line). It adds
that no ship is spelled `HEAD`: the observer of pending commits would vouch for whatever
is checked out, and a revert of `HEAD` would be taken for one of that ship. The
hypothesis is `Modest`, which TLC evaluates on its instance; without it the
subprocess may say of git what it likes, and the ledger believes it.

No value stands for a message or a spelling and for the lack of one
(`MessageAssumption`, `SpellingAssumption`). `HooksActOnWhatTheySaw` needs the same
invariant and `Fresh`: as long as the log
has the length it had when the hook looked, the milestone of the checked commit
is not shipped, nothing is shipped under a checked rewrite, and a commit that has
just been made is in no event, because every event names a commit that was there
before. That a recorded switch ends the timeline is `SwitchEndsTimeline`: in a
legal log nothing supersedes what comes after it (`SupersedesThePast`).

**ProjectProofs.** `MigrationsLand`, for every set of versions and migrators: the
invariant says of every walk, ended or not, what the property says of those that
arrive. The two conditional parts (every registered migrator climbs, or climbs
by one) survive a registration because a walk that was right under the larger
registry was right under the smaller: the registry only grows.
`LogsObeyTheirWorkflows`, for every set of workflows people may write: each event
is `Governed` by a workflow of the name in the header, and the gates of the log
lie `Within` every set that none of those workflows leads into, which is
`CyclesAreNeverEntered` for a ladder that changes under the log. A header line
has to be something (`HeaderAssumption`). `TheLifecycleAgrees` holds of any log
whatever, by comparing the two rules. `InitsSatisfyDoctor` needs no assumption:
an init nobody interfered with satisfies doctor, leaves the settings alone
unless told otherwise, and has its demonstration on the log.
`InitsLeaveSoundProjects` is all of `InitLeavesASoundProject`, under
`OneVersion`: `RunInv` and `KeptInv` say stage by stage what a run that is still
alone has done and has kept. What is kept of a list rests on `SameInOrder` being
an equivalence (`SameBack`, `SameThrough`) and on three lemmas, one for each
thing a merge does to a list of entries: taking knotch's commands out of every
entry keeps the others (`StripKeepsOthers`), dropping empty entries drops no
command (`DropKeepsCommands`), and putting entries behind others keeps both
(`InjectKeepsCommands`). `MergeMerges` puts them together, and `InstallMerges`
does so twice, for the second merge of `--include-optional`. That the positions
kept can be gone through in turn (`TurnsExist`) is by the least length of which
that would fail.

What stays with TLC. Liveness, which is beyond the prover: `CallsReturn`,
`QueueDrains`. Every invariant and every action property that a passing run checks
is a theorem. The overrun of the queue's cap under
`SpillOldest` is neither checked nor proved.

## Where code and documents disagree

Shown by a run:

* `locked_lost`: `should_reclaim` judges a sidecar that still names the
  previous holder while a new one has the flock and has not stamped it. If the
  previous holder's process has exited, a contender unlinks the live holder's
  lock file and locks a new one (`knotch-lock/src/file_lock.rs:141` against
  11-12). Both calls then pass the line count comparison before either
  renames, and one of two reported batches is lost
  (`knotch-storage/src/fs_storage.rs:114` against `README.md:119`). Hooks are
  short-lived processes, so that the last holder has exited is the normal case.
* `init_hooks`: `init --with-hooks --include-optional` merges the optional block
  into the result of merging the mandatory one, and a merge first strips all of
  knotch's commands: the settings end with the two optional hooks only
  (`knotch-cli/src/cmd/init.rs:316-318` against 450-451 and 52-54,
  `plugins/knotch/README.md:44-46`).

Met while modelling, with no run of their own. The ledger and the repository:

* Ship, revert, ship again, then supersede the revert: two ships of one milestone
  stand in the effective log (`knotch-kernel/src/event.rs:408` against 417-418).
* Dedup looks at superseded events too (`knotch-kernel/src/project.rs:78`), so
  a retracted event cannot be issued again, and a switch back to a model used
  before is refused as a duplicate (compare `README.md:66-67`).
* `current_phase` is None once `UnitCreated` is superseded, although the phase
  rule still knows the scope (`project.rs:21-23`); `PhaseViewsAgree` is stated
  for units whose creation stands.
* Stamps are promised to be strictly greater than the one before, and unique
  (`knotch-kernel/src/time.rs:29-33`); at the last timestamp there is, the code
  hands out that one again (43, `saturating_add`). Until then `StampsIncrease`
  says strictly greater, from then on only not smaller.
* Attempts of a tool call are compared with the effective log only
  (`event.rs:220-222`): superseding a failure hands its number out again.
* `with_cache` promises to append and to mutate the cache atomically, the mutator
  running after preconditions succeed and both sides committing together
  (`knotch-kernel/src/repository.rs:199-203`, `file_repository.rs:3`). The
  mutator runs before the batch is judged (`file_repository.rs:500`), and a cache
  that could not be written after the append is a warning beside an Ok (514): the
  log may be ahead of the cache for good. `CacheFollowsLog` states what is left: an
  all-or-nothing batch that the cache on disk has moved past is on the log.
* `pid_alive` takes any error of the signal for a death (`file_lock.rs:191-195`),
  also the refusal to signal a process of another user, and a pid of another
  namespace names nobody or somebody else. Then a live holder whose lease has not
  run out is reclaimed, against 11-12, and two calls hold guards with nobody dead
  (`looksAlive` in `ShouldReclaim`). The properties about two holders
  are stated for processes that see each other (`Undisturbed`).
* A stream that is told `Lagged` calls recv again, and when it has been overtaken
  once more drops both counts and goes on without a notice
  (`file_repository.rs:449` against 35-36, "instead of silent drops"). The
  in-memory repository has the same loop (`knotch-testing/src/repo.rs:229`).
* `subscribe` attaches before it loads the history, so an event committed in
  between may be delivered twice (`file_repository.rs:417`), and a `LiveOnly`
  stream may begin with an event appended before the subscription was created
  (`knotch-kernel/src/event.rs:917`); events committed by a rename whose
  directory sync failed are never sent.
* The reclaim branch of `acquire` starts over without looking at the timeout
  (`file_lock.rs:145` against `knotch-lock/src/lib.rs:27-28`); when neither the
  marker nor a new sidecar can be written it may outlast it.
* `was_reclaimed` is not looked at by the repository
  (`file_repository.rs:383` against `knotch-lock/src/lib.rs:31-34`).
* `count_lines` counts blank lines that `split_lines` drops
  (`fs_storage.rs:216-237`): a log edited by hand may fail every comparison.

The queue, the sessions and the hooks:

* The queue cap is checked before the write (`knotch-agent/src/queue.rs:72,
  118, 122`), so concurrent hooks exceed it; `spill_oldest` may remove more
  than needed (129-134).
* A drain removes an entry for any Ok, a refusal included (`queue.rs:234-237,
  307`); an orphan record does not contain the event (438-441).
* `knotch reconcile --prune` removes entries queued after its drain, which
  nobody has tried (`knotch-cli/src/cmd/reconcile.rs:233`).
* A revert that arrives while the ship it reverts waits in the queue is skipped
  without a trace, and the ship recorded later
  (`knotch-cli/src/cmd/hook/record_revert.rs:75` against 5-6). The hook compares
  the text of the command line with the recorded commit, so `git revert HEAD`
  finds nothing; it walks the whole log, not the effective one (4-5); and on a
  detached HEAD it records the word `HEAD` as the commit of the revert.
* `verify_commit` records the abbreviated sha of git's output, the git-log
  observer the whole one: to the ledger they are two commits. A ship that a hook
  has recorded and reverted is shipped again by the next pass. The same pass,
  run twice over a branch with a feature, its revert and the feature again, can
  end with the milestone reverted and then shipped
  (`knotch-observer/src/lib.rs:9-12`).
* `extract_message` reads the whole command line (`knotch-agent/src/commit.rs:244`):
  behind `git commit` it collects every `-m` up to the end, past `&&` and `;`, and
  joins them, and `verify_commit` pairs the result with the first header that git
  printed (`knotch-cli/src/cmd/hook/verify_commit.rs:62`). Of two commits chained
  on a line the first is recorded with the text of both, against `verify_commit`'s
  `MilestoneShipped { Verified }` (1). A `-F` file is read when the hook runs, after
  git has, and may hold another text by then (273); a message given as
  `$(cat <<'EOF' ...)` is judged as typed, not as the shell expands it.
* `record_revert` does not ask whether the commit of the header is a revert
  (`record_revert.rs:107-123`): after `git revert --no-commit X && git commit -m ...`
  X's milestone is recorded as reverted by a commit with any message.
  `LogNamesRealCommits` asks of such lines only that the commits exist.
* `post_tool_append` promises nothing once the queue is full under Reject or the
  entry cannot be written: the first leaves an orphan record without the event,
  the second an error (`queue.rs:437-459`). The append of a model switch is not
  queued at all: its failure ends `load-context` before the drain of the queue
  (`model.rs:63, 112`, `load_context.rs:23-30`), and the switch is tried again by
  the next session start only. `HooksActOnWhatTheySaw` says nothing of these exits.
* knotch-agent's parser does not take `feat!:` for a feature nor a subject
  without a description, knotch-vcs's takes both.
* Two writers of one pointer share a temporary file
  (`knotch-agent/src/atomic.rs:40` against 1-28).
* The text `init` writes beside the optional hooks says that a prompt picks up
  `unit use` elsewhere (`init.rs:350-352`), which the session's pointer is there
  to prevent (`HooksFollowTheSession`).
* The tie between proposals of one observer and one kind is said to be
  settled by their fingerprint (`knotch-reconciler/src/lib.rs:119-123`); two
  such proposals may differ. `MergeIsDeterministic` holds because each observer
  returns a list; two observers of one name, which `knotch.toml` may declare,
  keep the order of the join.
* `max_proposals` is what an observer *may* return
  (`knotch-observer/src/context.rs:60`); three of the four observers fail when
  they reach it, and a branch with that many ships and reverts makes the git-log
  observer fail in every pass.

The project:

* Prerequisites of a gate are said to name earlier gates
  (`knotch-workflow/src/config.rs:72-73`); `from_spec` accepts later ones and
  cycles, whose gates can never be recorded (`CyclesAreNeverEntered`).
* `LifecycleFsm` lets a unit leave a terminal status, the ledger does not:
  `LifecycleAgrees` leaves this case out.
* `migrate` is said to advance one version a step
  (`knotch-proto/src/migration.rs:55-57`); a migrator may jump past the target,
  which is reported as success, or stay where it is, which never ends. The
  command `knotch migrate` compares the version of the *workflow* in a log's
  header with the version of the wire format.
* A failed or killed `init` leaves `knotch.toml` behind and has to be repeated
  with `--force`. A `knotch.toml` that does not parse stops every command
  before it starts, `init --force` and `doctor` included, so that doctor's
  verdict on such a file (`doctor.rs:195-199`) is never printed. A `.gitignore`
  that is not UTF-8 is taken for empty and overwritten (`init.rs:384`).
* `init --force` writes the workflow name `knotch` again, and with it the salt:
  every unit of a workflow of another name is refused from then on, while
  `doctor` calls it healthy.
* `doctor` and `unit init` promise to repair a log without `UnitCreated`
  (`doctor.rs:274-279`, `unit.rs:59-65`); the kernel accepts the event on an
  empty log only.
* Query: `limit(0)` returns one unit, because the limit is looked at after a
  match (`knotch-query/src/lib.rs:143-148`); `since` and `until` are tested
  against different events, so that a unit active before and after a window
  matches it.

## What is not modelled

* `list_units` and the tolerant load of a damaged log.
* Damage the program does not cause: a log edited by hand, a disk that loses
  synced data, a clock that jumps by more than the two readings tell apart. A
  cut-short `knotch.toml` is empty or does not parse; a prefix of it that parses
  as some other workflow is one of the hand edits.
* The hash behind the fingerprint and the formats of files: bodies stand for
  themselves, a line is an event.
* Text: rationale is its length, artifact lists and reasons are `Details`, a
  commit message is what its parsers tell apart, a command line likewise.
* The streams and the cache of the in-memory repository, which has the loops of
  the file repository under one mutex and no file to lose, and its simulated
  version control.
* Of git: its own hooks, which may rewrite a message after it was checked or print
  a bracketed hex word before the header, and branches named like a sha, which
  `extract_sha_from_stdout` would take for one; merges, and the filter and limit
  of `log_since`, which no observer uses. Of subprocess observers: the pipes, whose
  deadlock ends in the timeout.
* Of the command line: doctor's checks of directories, units, observers, queue
  age and secret scanners, and the wording of reports.
* Query filters projections that other modules model and keeps no state.
  `PhaseOrdering` and `SkipPolicy` are helpers without a caller. Linter rules,
  derive macros, log attributes, ADR constants and frontmatter have no behaviour
  over time; nothing in the repository calls the file synchronisation of
  frontmatter.

## Plan

Most important first.

| Modules | Question | State |
|---|---|---|
| Kernel, Ledger, KernelProofs, LedgerProofs | do the preconditions add up | done |
| Callers, FileRepository, FileRepositoryProofs | append and with_cache under crashes | done |
| FileLock, LockedRepository, SharedFilesProofs | what the lock delivers, and what survives when it does not | done |
| HookQueue, SharedFilesProofs | is an event ever lost between hook and log | done |
| MemoryRepository, Subscription (over FileRepository) | is the file what tests take it for; gaps and order of what a subscriber gets | done |
| Sessions, SessionsProofs | which unit a hook works on while sessions start, end and switch; the shared temporary file | done |
| CommitText, Git, AgentHooks, CommandLine, Observers, Reconciler, Workbench, WorkbenchProofs | is what the log says of git true; does a merge depend on who was first | done |
| WorkflowConfig, Scaffold, Migration, Project, ProjectProofs | does a project survive its init, its editors and its workflows | done |
