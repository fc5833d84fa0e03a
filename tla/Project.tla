------------------------------ MODULE Project ------------------------------
(***************************************************************************)
(* A project over time: its files are set up and edited, its workflow with *)
(* them, while the command line records events on a unit under whatever    *)
(* workflow knotch.toml holds when a command runs; and its schema          *)
(* migrators carry values from version to version.                         *)
(***************************************************************************)
EXTENDS Scaffold, Migration

CONSTANTS
    Scopes, Statuses, SkipReasons, RationaleLengths, Details,
    Explored(_, _, _, _)        \* bound: the projects that are followed

VARIABLES
    events,         \* the log of the unit `demo'
    header,         \* its header: what workflow it was begun under
    under,          \* history: the workflow each event was recorded under
    active          \* the pointer names the unit

unit == <<events, header, under, active>>

\* The commands as they run under a workflow.
C(w) == INSTANCE CommandLine WITH
    log <- events,
    Phases <- DeclaredPhases(w),
    RequiredPhases <- [s \in Scopes |-> RequiredOf(w, s)],
    AcceptsSkip <- {a \in DeclaredPhases(w) \X SkipReasons : AcceptsSkipFor(w, a[1], a[2])},
    Gates <- DeclaredGates(w),
    Prerequisites <- [g \in DeclaredGates(w) |-> PrerequisitesFor(w, g)],
    TerminalStatuses <- w.terminal_statuses,
    MinRationale <- MinRationaleChars(w),
    Milestones <- {}, Commits <- {}, CommitKinds <- {}, Anchors <- {}, Agents <- {},
    Calls <- {}, Models <- {}, Approvers <- {}, MaxAttempt <- 1, MaxTime <- 0

HeaderLine(w) == [fingerprint_salt |-> FingerprintSalt(w), schema_version |-> w.schema_version]

\* A header is not the absence of one.
ASSUME HeaderAssumption == \A w \in Workflows : HeaderLine(w) # None

\* Mutant: the salt of the log is not looked at.
CheckNoSalt(w) == TRUE

\* check_header_salt: on every load.  A log without events has no header.
CheckHeaderSalt(w) == header # None => header.fingerprint_salt = FingerprintSalt(w)

Opens(w) == Loads(w) /\ CheckHeaderSalt(w)

\* What an append leaves beside the events.
Follow(w) ==
    /\ under' = under \o [i \in 1..(Len(events') - Len(events)) |-> w]
    /\ header' = IF header = None /\ events' # <<>> THEN HeaderLine(w) ELSE header

\* A command is refused, or leaves the log as it was, or adds to it.
Work ==
    /\ \E w \in Workflows : Opens(w) /\ C(w)!Command /\ Follow(w)
    /\ UNCHANGED <<files, init, active>>

-----------------------------------------------------------------------------
(* `knotch init --demo': its demonstration is recorded in two appends under *)
(* one workflow, and commands of others may run in between.  Where one is  *)
(* refused, init ends (Killed), and leaves what it has recorded.           *)

DemoCreated == [kind |-> "UnitCreated", scope |-> "standard"]
DemoSpecified == [kind |-> "PhaseCompleted", phase |-> "specify", artifacts |-> "none"]

\* A duplicate is no error, a refused precondition is.
Takes(w, l, b) == C(w)!IsDuplicate(l, b) \/ C(w)!Precondition(l, b)

CreateDemo ==
    /\ init.stage = "demo"
    /\ \E w \in Workflows :
          /\ Opens(w) /\ Takes(w, events, DemoCreated)
          /\ events' = C(w)!Offered(events, DemoCreated)
          /\ Follow(w)
          /\ init' = [init EXCEPT !.stage = "created", !.workflow = w]
    /\ UNCHANGED <<files, active>>

SpecifyDemo ==
    /\ init.stage = "created"
    /\ \E w \in Workflows :
          /\ w = init.workflow /\ CheckHeaderSalt(w)
          /\ "specify" \in DeclaredPhases(w) /\ Takes(w, events, DemoSpecified)
          /\ events' = C(w)!Offered(events, DemoSpecified)
          /\ Follow(w)
    /\ Reach("specified") /\ UNCHANGED <<files, active>>

UseDemo ==
    /\ init.stage = "specified"
    /\ active' = TRUE
    /\ Reach("done") /\ UNCHANGED <<files, events, header, under>>

-----------------------------------------------------------------------------

vars == <<files, init, unit, migrationVars>>

Init ==
    /\ InitScaffold
    /\ InitMigration
    /\ events = <<>> /\ header = None /\ under = <<>> /\ active = FALSE

Bounded == Explored(files', init', unit', migrationVars')

Next ==
    \/ (InitStep \/ Edit) /\ UNCHANGED <<unit, migrationVars>> /\ Bounded
    \/ (CreateDemo \/ SpecifyDemo \/ UseDemo \/ Work) /\ UNCHANGED migrationVars /\ Bounded
    \/ MigrationStep /\ UNCHANGED <<files, init, unit>> /\ Bounded

Spec == Init /\ [][Next]_vars

-----------------------------------------------------------------------------
(* `knotch doctor' and `knotch migrate' on the unit *)

CheckUnitCreatedAnchors ==
    IF events # <<>> /\ \A i \in DOMAIN events : events[i].body.kind # "UnitCreated" THEN "warn"
    ELSE "ok"

\* The anchors are the business of `unit init' and of the demonstration.
Doctor ==
    {CheckConfigFile, CheckWorkflow, CheckGitignore}
        \cup (IF init.demo THEN {CheckUnitCreatedAnchors} ELSE {})

\* What `knotch migrate' finds: the version of the header is not the target.
Mismatch(target) == header # None /\ header.schema_version # target

-----------------------------------------------------------------------------
(* Properties *)

\* Where the commands of an event's entries are that are knotch's, or are not.
Places(entries, managed) ==
    {p \in UNION {{i} \X DOMAIN entries[i] : i \in DOMAIN entries} :
        IsKnotchManaged(entries[p[1]][p[2]]) <=> managed}

Earlier(p, q) == p[1] < q[1] \/ (p[1] = q[1] /\ p[2] < q[2])

\* Of the commands that are knotch's, or of those that are not, these entries
\* have the same ones in the same order.
SameInOrder(before, after, managed) ==
    \E f \in [Places(before, managed) -> Places(after, managed)] :
        /\ \A q \in Places(after, managed) : \E p \in DOMAIN f : f[p] = q
        /\ \A p, q \in DOMAIN f : Earlier(p, q) => Earlier(f[p], f[q])
        /\ \A p \in DOMAIN f : after[f[p][1]][f[p][2]] = before[p[1]][p[2]]

\* Everyone's hooks are where they were, in the order they were in; knotch's
\* are those of one block, once each.
HooksMerged(before, after, block) ==
    \A e \in HookEvents :
        /\ SameInOrder(before[e], after[e], FALSE)
        /\ SameInOrder(block[e], after[e], TRUE)

\* The lines that could be read are kept, and .knotch is ignored, by no more
\* lines than it was.
IgnoredOnce(before, after) ==
    LET mine(l) == {i \in DOMAIN l : l[i] \in Ignoring}
    IN  /\ IsPrefix(before, after)
        /\ Cardinality(mine(after)) = IF mine(before) = {} THEN 1 ELSE Cardinality(mine(before))

\* init.rs: an init that nobody interfered with, whatever edits, failures and
\* kills the files have seen before it, leaves a project that doctor finds
\* nothing wrong with, and what others wrote where it was.
InitLeavesASoundProject ==
    init.stage = "done" /\ init.alone =>
        /\ Doctor = {"ok"}
        /\ IF init.with_hooks
           THEN HooksMerged(init.found[1].hooks, settings.hooks,
                            IF init.include_optional THEN Optional ELSE Mandatory)
           ELSE settings = init.found[1]
        /\ IgnoredOnce(Readable(init.found[2]), ignore.lines)
        /\ init.demo => active /\ events # <<>> /\ ~Mismatch(1)

\* The workflows of the name of the one init writes are of its schema version:
\* a log may be older than this init, and keeps the version it was begun with.
OneVersion ==
    \A w \in Specs :
        FingerprintSalt(w) = FingerprintSalt(Canonical) => w.schema_version = Canonical.schema_version

\* No gate can be reached from within a set of gates that the rules of w do
\* not lead into from outside.
Closed(S, w) ==
    \A i \in DOMAIN w.gates : w.gates[i].prerequisites \subseteq S => w.gates[i].id \in S

\* knotch.toml is edited between commands, and a log outlives its edits.
\* Still every event of it was recorded under a workflow of the name its header
\* gives; and a gate is on it only if it can be reached, prerequisite after
\* prerequisite, by the rules the log was written under.  A gate on a cycle
\* never is, unless an earlier workflow let it pass.
LogObeysItsWorkflows ==
    LET reached == {events[i].body.gate : i \in {k \in DOMAIN events :
                        events[k].body.kind = "GateRecorded"}}
        governing == {under[i] : i \in DOMAIN under}
    IN  /\ \A w \in governing : header.fingerprint_salt = FingerprintSalt(w)
        /\ \A S \in SUBSET UNION {DeclaredGates(w) : w \in governing} :
              (\A w \in governing : Closed(S, w)) => reached \subseteq S

\* The FSM an adopter asks first, about the status that `knotch show' prints,
\* says of every transition what the ledger will say, but for a unit in a
\* terminal status, which only the ledger holds.
LifecycleAgrees ==
    \A w \in Workflows : Opens(w) =>
        LET current == C(w)!Summary(events).current_status
        IN  \A target \in Statuses, forced \in BOOLEAN, reason \in Details \cup {None} :
                C(w)!Precondition(events,
                    [kind |-> "StatusTransitioned", target |-> target, forced |-> forced,
                     rationale |-> reason])
                <=> /\ current \notin w.terminal_statuses
                    /\ Evaluate(w.terminal_statuses,
                          [current |-> current, target |-> target, forced |-> forced,
                           rationale |-> reason,
                           all_phases_resolved |-> C(w)!RequiredPhasesResolved(events)])

\* init.rs:450-451: "Mandatory knotch hook block.  Always merged into settings
\* when `--with-hooks` is set."
MandatoryHooksAlwaysMerged ==
    init.stage = "done" /\ init.alone /\ init.with_hooks =>
        \A e \in HookEvents :
            ToSet(FlattenSeq(Mandatory[e])) \subseteq ToSet(FlattenSeq(settings.hooks[e]))
=============================================================================
