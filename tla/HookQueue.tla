------------------------------ MODULE HookQueue ------------------------------
(***************************************************************************)
(* knotch-agent: the PostToolUse contract.  A hook process offers one      *)
(* event to the ledger, retries, then leaves it in .knotch/queue, or in    *)
(* the orphan log when the queue is full.  Sessions that start, and        *)
(* `knotch reconcile', drain the queue.  Hooks, drains and prunes run in   *)
(* processes of their own with no lock between them: every directory       *)
(* listing, file write and file removal is a step.                         *)
(*                                                                         *)
(* Repository::append is one step here (LockedRepository: SerialAppends).  *)
(* It may fail before its effect (lock timeout, unreadable file) and after *)
(* it (FileRepository: RenameUnsynced).                                    *)
(***************************************************************************)
EXTENDS Kernel

CONSTANTS
    Hooks,        \* hook processes: each one handles one tool call
    Drainers,     \* processes that drain, one pass after another
    Tools,        \* the bodies tool calls give rise to; reverts without milestone
    Leftovers,    \* entries an earlier session may have left in the queue
    Foreign,      \* bodies the running workflow cannot deserialize
    Cap,          \* QueueConfig::max_entries
    Policies,     \* what a hook may find as QueueConfig::overflow in knotch.toml
    MaxAttempts,  \* POST_TOOL_MAX_ATTEMPTS
    Faults,       \* TRUE when processes die and file operations fail
    Prunes        \* TRUE when `knotch reconcile --prune[-older]' is used

OverflowPolicy == {"Reject", "SpillOldest"}

Entry == [id: Nat, body: EventBody]

ASSUME QueueAssumption ==
    /\ Tools \subseteq EventBody
    /\ Foreign \subseteq EventBody
    /\ Leftovers \in SUBSET Entry /\ IsFiniteSet(Leftovers)
    /\ \A e \in Leftovers : e.id \in 1..Cardinality(Leftovers)
    /\ \A e, f \in Leftovers : e.id = f.id => e = f
    /\ Cap \in Nat
    /\ Policies \subseteq OverflowPolicy
    /\ MaxAttempts \in Nat \ {0}
    /\ Faults \in BOOLEAN
    /\ Prunes \in BOOLEAN

VARIABLES
    log,        \* the unit's ledger
    queue,      \* .knotch/queue: the entries, named by the UUIDv7 id
    minted,     \* UUIDv7 ids minted so far
    orphans,    \* ~/.knotch/orphan.log: its records
    hook,       \* what each hook process is doing
    drainer,    \* what each draining process is doing
    refused,    \* history: bodies an append has refused with Ok
    discarded   \* history: entries removed by a spill or a prune

queueVars == <<log, queue, minted, orphans, hook, drainer, refused, discarded>>

Nothing == [kind |-> "None"]

Hook ==
    [pc: {"idle", "appending", "measuring", "spilling", "removing", "minting", "writing",
          "orphaning", "over"},
     body: EventBody \cup {Nothing}, attempt: 0..(MaxAttempts - 1),
     surplus: Nat, victims: SUBSET Entry, id: Nat,
     \* History: how the hook ended.
     fate: {"none", "skipped", "recorded", "refused", "queued", "orphaned", "failed", "killed"}]

Drainer ==
    [pc: {"idle", "reading", "replaying", "removing", "pruning"},
     todo: SUBSET Entry, entry: Entry \cup {Nothing},
     \* History: what the drain of this pass found in the queue.
     listed: SUBSET Entry]

FreshHook ==
    [pc |-> "idle", body |-> Nothing, attempt |-> 0, surplus |-> 0, victims |-> {}, id |-> 0,
     fate |-> "none"]

IdleDrainer == [pc |-> "idle", todo |-> {}, entry |-> Nothing, listed |-> {}]

InitQueue ==
    /\ log = <<>>
    /\ queue \in SUBSET Leftovers
    /\ minted = Cardinality(Leftovers)
    /\ orphans = {}
    /\ hook = [h \in Hooks |-> FreshHook]
    /\ drainer = [d \in Drainers |-> IdleDrainer]
    /\ refused = {}
    /\ discarded = {}

HookAt(h, pc) == hook[h].pc = pc
DrainerAt(d, pc) == drainer[d].pc = pc

\* The outcome x, only where the condition lets it happen.
When(condition, x) == IF condition THEN {x} ELSE {}

End(h, fate) == hook' = [hook EXCEPT ![h].pc = "over", ![h].fate = fate]

-----------------------------------------------------------------------------
(* Repository::append of one proposal, BestEffort *)

AfterAppend(b) == IF Admissible(log, b) THEN Append(log, Stamped(log, b, 0)) ELSE log

\* A duplicate is rejected with Ok like a failed precondition, but what it
\* says is in the log.
Refuses(b) == ~IsDuplicate(log, b) /\ ~Precondition(log, b)

AppendReturnsOk(b) ==
    /\ log' = AfterAppend(b)
    /\ refused' = IF Refuses(b) THEN refused \cup {b} ELSE refused

AppendReturnsErr(b) == log' \in {log, AfterAppend(b)} /\ UNCHANGED refused

-----------------------------------------------------------------------------
(* A hook process *)

\* record-revert looks the reverted commit up in the whole log, newest first,
\* to learn the milestone.
ShipsOf(commit) == {i \in OfKind(log, "MilestoneShipped") : log[i].body.commit = commit}

Resolved(b) ==
    IF b.kind = "MilestoneReverted"
    THEN [b EXCEPT !.milestone = log[Latest(ShipsOf(b.original))].body.milestone]
    ELSE b

Fire(h) ==
    /\ HookAt(h, "idle")
    /\ \E b \in Tools :
          /\ b.kind = "MilestoneReverted" => ShipsOf(b.original) # {}
          /\ hook' = [hook EXCEPT ![h].pc = "appending", ![h].body = Resolved(b)]
    /\ UNCHANGED <<log, queue, minted, orphans, drainer, refused, discarded>>

\* A revert of a commit the log does not know is skipped.
SkipRevert(h) ==
    /\ HookAt(h, "idle")
    /\ \E b \in Tools :
          /\ b.kind = "MilestoneReverted"
          /\ ShipsOf(b.original) = {}
          /\ hook' = [hook EXCEPT ![h].pc = "over", ![h].body = b, ![h].fate = "skipped"]
    /\ UNCHANGED <<log, queue, minted, orphans, drainer, refused, discarded>>

\* Any Ok ends the hook with Continue, whatever the report says was rejected.
Offer(h) ==
    /\ HookAt(h, "appending")
    /\ AppendReturnsOk(hook[h].body)
    /\ End(h, IF Refuses(hook[h].body) THEN "refused" ELSE "recorded")
    /\ UNCHANGED <<queue, minted, orphans, drainer, discarded>>

\* Mutant: one attempt too many.
OfferFailsOnceMore(h) ==
    /\ HookAt(h, "appending")
    /\ AppendReturnsErr(hook[h].body)
    /\ hook' = IF hook[h].attempt < MaxAttempts
               THEN [hook EXCEPT ![h].attempt = @ + 1]
               ELSE [hook EXCEPT ![h].pc = "measuring"]
    /\ UNCHANGED <<queue, minted, orphans, drainer, discarded>>

\* The append fails: try again after a pause, or turn to the queue.
OfferFails(h) ==
    /\ HookAt(h, "appending")
    /\ AppendReturnsErr(hook[h].body)
    /\ hook' = IF hook[h].attempt + 1 < MaxAttempts
               THEN [hook EXCEPT ![h].attempt = @ + 1]
               ELSE [hook EXCEPT ![h].pc = "measuring"]
    /\ UNCHANGED <<queue, minted, orphans, drainer, discarded>>

\* Mutant: the queue is full only once it is over the cap.
FullBeyondCap(size) == size > Cap

Full(size) == size >= Cap

\* enqueue_raw counts the entries once and acts on the count.  Every hook
\* process loads the policy from the configuration file.
Measure(h) ==
    /\ HookAt(h, "measuring")
    /\ LET size == Cardinality(queue)
       IN  \/ /\ ~Full(size)
              /\ hook' = [hook EXCEPT ![h].pc = "minting"]
           \/ /\ Full(size) /\ "Reject" \in Policies
              /\ hook' = [hook EXCEPT ![h].pc = "orphaning"]
           \/ /\ Full(size) /\ "SpillOldest" \in Policies
              /\ hook' = [hook EXCEPT ![h].pc = "spilling",
                                      ![h].surplus = (IF size >= Cap THEN size - Cap ELSE 0) + 1]
    /\ UNCHANGED <<log, queue, minted, orphans, drainer, refused, discarded>>

Oldest(S, n) == {e \in S : Cardinality({f \in S : f.id < e.id}) < n}

\* spill_oldest lists the directory again and takes as many entries off the
\* front as the earlier count asked for.
ListOldest(h) ==
    /\ HookAt(h, "spilling")
    /\ hook' = [hook EXCEPT ![h].pc = "removing", ![h].victims = Oldest(queue, hook[h].surplus)]
    /\ UNCHANGED <<log, queue, minted, orphans, drainer, refused, discarded>>

\* An entry that is gone, or cannot be removed, is passed over.
Spill(h) ==
    /\ HookAt(h, "removing")
    /\ \E e \in hook[h].victims :
          /\ queue' \in {queue \ {e}} \cup When(Faults, queue)
          /\ discarded' = discarded \cup (queue \ queue')
          /\ hook' = [hook EXCEPT ![h].victims = @ \ {e}]
    /\ UNCHANGED <<log, minted, orphans, drainer, refused>>

\* Uuid::now_v7: ids are minted in the order of time.
Mint(h) ==
    /\ HookAt(h, "minting") \/ (HookAt(h, "removing") /\ hook[h].victims = {})
    /\ minted' = minted + 1
    /\ hook' = [hook EXCEPT ![h].pc = "writing", ![h].id = minted + 1]
    /\ UNCHANGED <<log, queue, orphans, drainer, refused, discarded>>

EntryOf(h) == [id |-> hook[h].id, body |-> hook[h].body]

\* The entry appears under its name by a rename; the temporary file next to
\* it does not count as an entry.
Enqueue(h) ==
    /\ HookAt(h, "writing")
    /\ queue' = queue \cup {EntryOf(h)}
    /\ End(h, "queued")
    /\ UNCHANGED <<log, minted, orphans, drainer, refused, discarded>>

\* An orphan record carries the hook's name, the queue's size and the append
\* error, and nothing of the event.
Record(h) == [hook |-> hook[h].body.kind, reason |-> "queue-full"]

\* log_orphan swallows its errors.
Orphan(h) ==
    /\ HookAt(h, "orphaning")
    /\ orphans' \in {orphans \cup {Record(h)}} \cup When(Faults, orphans)
    /\ End(h, "orphaned")
    /\ UNCHANGED <<log, queue, minted, drainer, refused, discarded>>

\* Counting, listing or writing fails: the hook ends with an error, which the
\* command line logs.  A write may fail after its rename, on the directory sync.
EnqueueFails(h) ==
    /\ Faults
    /\ hook[h].pc \in {"measuring", "spilling", "writing"}
    /\ queue' \in {queue} \cup When(HookAt(h, "writing"), queue \cup {EntryOf(h)})
    /\ End(h, "failed")
    /\ UNCHANGED <<log, minted, orphans, drainer, refused, discarded>>

Kill(h) ==
    /\ Faults
    /\ hook[h].pc \notin {"idle", "over"}
    /\ End(h, "killed")
    /\ UNCHANGED <<log, queue, minted, orphans, drainer, refused, discarded>>

-----------------------------------------------------------------------------
(* A draining process: SessionStart, or `knotch reconcile' *)

\* drain lists the directory once; later entries wait for the next pass.
List(d) ==
    /\ DrainerAt(d, "idle")
    /\ drainer' = [drainer EXCEPT ![d].pc = "reading", ![d].todo = queue, ![d].listed = queue]
    /\ UNCHANGED <<log, queue, minted, orphans, hook, refused, discarded>>

First(S) == {e \in S : \A f \in S : e.id <= f.id}

Readable(e) == e \in queue /\ e.body \notin Foreign

\* Entries are taken in name order.
Read(d) ==
    /\ DrainerAt(d, "reading")
    /\ \E e \in First(drainer[d].todo) :
          /\ Readable(e)
          /\ drainer' = [drainer EXCEPT ![d].pc = "replaying", ![d].todo = @ \ {e},
                                        ![d].entry = e]
    /\ UNCHANGED <<log, queue, minted, orphans, hook, refused, discarded>>

\* Mutant: the first entry that cannot be read ends the pass.
StopAtUnreadable(d) ==
    /\ DrainerAt(d, "reading")
    /\ \E e \in First(drainer[d].todo) :
          /\ Readable(e) => Faults
          /\ drainer' = [drainer EXCEPT ![d].todo = {}]
    /\ UNCHANGED <<log, queue, minted, orphans, hook, refused, discarded>>

\* One that is gone, or cannot be read or deserialized, is passed over and
\* stays where it is.
PassOver(d) ==
    /\ DrainerAt(d, "reading")
    /\ \E e \in First(drainer[d].todo) :
          /\ Readable(e) => Faults
          /\ drainer' = [drainer EXCEPT ![d].todo = @ \ {e}]
    /\ UNCHANGED <<log, queue, minted, orphans, hook, refused, discarded>>

Replay(d) ==
    /\ DrainerAt(d, "replaying")
    /\ AppendReturnsOk(drainer[d].entry.body)
    /\ drainer' = [drainer EXCEPT ![d].pc = "removing"]
    /\ UNCHANGED <<queue, minted, orphans, hook, discarded>>

\* Mutant: an entry is removed although its append failed.
ReplayFailsAndRemoves(d) ==
    /\ DrainerAt(d, "replaying")
    /\ AppendReturnsErr(drainer[d].entry.body)
    /\ drainer' = [drainer EXCEPT ![d].pc = "removing"]
    /\ UNCHANGED <<queue, minted, orphans, hook, discarded>>

ReplayFails(d) ==
    /\ DrainerAt(d, "replaying")
    /\ AppendReturnsErr(drainer[d].entry.body)
    /\ drainer' = [drainer EXCEPT ![d].pc = "reading", ![d].entry = Nothing]
    /\ UNCHANGED <<queue, minted, orphans, hook, discarded>>

\* Any Ok removes the entry; a failure to remove it is ignored.
Remove(d) ==
    /\ DrainerAt(d, "removing")
    /\ queue' \in {queue \ {drainer[d].entry}} \cup When(Faults, queue)
    /\ drainer' = [drainer EXCEPT ![d].pc = "reading", ![d].entry = Nothing]
    /\ UNCHANGED <<log, minted, orphans, hook, refused, discarded>>

Drained(d) ==
    /\ DrainerAt(d, "reading")
    /\ drainer[d].todo = {}
    /\ drainer' = [drainer EXCEPT ![d] = IdleDrainer]
    /\ UNCHANGED <<log, queue, minted, orphans, hook, refused, discarded>>

\* reconcile --prune lists the directory anew; --prune-older spares the
\* entries younger than a cutoff.
ListForPrune(d) ==
    /\ Prunes
    /\ DrainerAt(d, "reading")
    /\ drainer[d].todo = {}
    /\ \E cutoff \in 0..minted :
          drainer' = [drainer EXCEPT ![d].pc = "pruning",
                                     ![d].todo = {e \in queue : e.id <= cutoff}]
    /\ UNCHANGED <<log, queue, minted, orphans, hook, refused, discarded>>

\* Here an entry that is gone is an error, and ends the command.
Prune(d) ==
    /\ DrainerAt(d, "pruning")
    /\ \E e \in drainer[d].todo :
          /\ queue' = queue \ {e}
          /\ discarded' = discarded \cup ({e} \cap queue)
          /\ drainer' = IF e \in queue THEN [drainer EXCEPT ![d].todo = @ \ {e}]
                        ELSE [drainer EXCEPT ![d] = IdleDrainer]
    /\ UNCHANGED <<log, minted, orphans, hook, refused>>

Pruned(d) ==
    /\ DrainerAt(d, "pruning")
    /\ drainer[d].todo = {}
    /\ drainer' = [drainer EXCEPT ![d] = IdleDrainer]
    /\ UNCHANGED <<log, queue, minted, orphans, hook, refused, discarded>>

KillDrainer(d) ==
    /\ Faults
    /\ ~DrainerAt(d, "idle")
    /\ drainer' = [drainer EXCEPT ![d] = IdleDrainer]
    /\ UNCHANGED <<log, queue, minted, orphans, hook, refused, discarded>>

-----------------------------------------------------------------------------

HookStep(h) ==
    \/ Fire(h)
    \/ SkipRevert(h)
    \/ Offer(h)
    \/ OfferFails(h)
    \/ Measure(h)
    \/ ListOldest(h)
    \/ Spill(h)
    \/ Mint(h)
    \/ Enqueue(h)
    \/ Orphan(h)
    \/ EnqueueFails(h)
    \/ Kill(h)

DrainStep(d) ==
    \/ List(d)
    \/ Read(d)
    \/ PassOver(d)
    \/ Replay(d)
    \/ ReplayFails(d)
    \/ Remove(d)
    \/ Drained(d)
    \/ ListForPrune(d)
    \/ Prune(d)
    \/ Pruned(d)

QueueNext ==
    \/ \E h \in Hooks : HookStep(h)
    \/ \E d \in Drainers : DrainStep(d) \/ KillDrainer(d)

QueueSpec == InitQueue /\ [][QueueNext]_queueVars

\* Sessions keep starting and a started drain keeps running; an append that
\* is tried again and again succeeds at last.
Fairness ==
    \A d \in Drainers :
        /\ WF_queueVars(DrainStep(d))
        /\ SF_queueVars(Replay(d))

FairSpec == QueueSpec /\ Fairness

-----------------------------------------------------------------------------
(* Properties *)

TypeOKQueue ==
    /\ log \in Seq(Event)
    /\ queue \in SUBSET Entry
    /\ minted \in Nat
    /\ orphans \subseteq {Record(h) : h \in Hooks}
    /\ hook \in [Hooks -> Hook]
    /\ drainer \in [Drainers -> Drainer]
    /\ refused \in SUBSET EventBody
    /\ discarded \in SUBSET Entry

Queued(b) == \E e \in queue : e.body = b
Discarded(b) == \E e \in discarded : e.body = b

\* The PostToolUse contract: an event a hook has put in the queue is there,
\* in the log, or has been refused by it; it leaves the queue unrecorded only
\* by a spill or a prune.  Whatever dies between an append and a removal.
NothingIsLost ==
    \A h \in Hooks :
        hook[h].fate = "queued" =>
            LET b == hook[h].body
            IN  b \in Fingerprints(log) \/ Queued(b) \/ b \in refused \/ Discarded(b)

\* The cap is checked before the write by every hook on its own: the queue
\* outgrows it by one entry per concurrent hook but the first, no more.
OverrunIsBounded == Cap > 0 => Cardinality(queue) < Cap + Cardinality(Hooks)

\* SessionStart drains: an entry the workflow can read, left by an earlier
\* session or by a hook of this one, does not stay for ever, and one it cannot
\* read "must not stall the rest".
QueueDrains ==
    /\ \A e \in Leftovers : e \in queue /\ e.body \notin Foreign ~> e \notin queue
    /\ \A h \in Hooks : hook[h].fate = "queued" ~> EntryOf(h) \notin queue
=============================================================================
