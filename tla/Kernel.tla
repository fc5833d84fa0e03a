------------------------------- MODULE Kernel -------------------------------
(***************************************************************************)
(* knotch-kernel: the taxonomy of ledger events, the supersede-aware       *)
(* projections over a log, the fingerprint used for deduplication, the     *)
(* monotonic stamp and the per-kind append preconditions.  Everything here *)
(* is a pure operator on a log; the state machines that append to logs are *)
(* Ledger (one unit, one event at a time) and FileRepository (batches,     *)
(* concurrent writers, files).                                             *)
(*                                                                         *)
(* A log is a sequence of events [body, at].  An EventId is modelled by    *)
(* the position the event gets in its log: ids are minted fresh for every  *)
(* accepted event, so an id names one position for ever.  Position 0       *)
(* stands for an id that is not in the log.                                *)
(***************************************************************************)
EXTENDS Integers, FiniteSets, Sequences

CONSTANTS
    \* The workflow W: what a project configures.
    Scopes, Phases, RequiredPhases,     \* RequiredPhases[scope]: a sequence of phases
    SkipReasons, AcceptsSkip,           \* pairs <<phase, reason>> the workflow admits
    Milestones, Gates, Prerequisites,   \* Prerequisites[gate]: a set of gates
    Statuses, TerminalStatuses,
    MinRationale,                       \* W::min_rationale_chars()
    \* Values that appear in proposals.
    Commits, CommitKinds, RationaleLengths, Anchors, Agents, Calls, Models,
    Approvers, MaxAttempt,              \* attempts proposed are 1..MaxAttempt
    Details,                            \* payloads no precondition looks at
    MaxTime,                            \* Timestamp::MAX
    None                                \* Option::None

Implementation == {"feat", "fix", "refactor", "perf"}
CommitStatus == {"Verified", "Pending", "Missing"}

ASSUME WorkflowAssumption ==
    /\ RequiredPhases \in [Scopes -> Seq(Phases)]
    /\ AcceptsSkip \subseteq Phases \X SkipReasons
    /\ Prerequisites \in [Gates -> SUBSET Gates]
    /\ TerminalStatuses \subseteq Statuses
    /\ None \notin Statuses \cup Phases \cup Scopes
    /\ RationaleLengths \subseteq Nat

ASSUME ClockAssumption == MaxTime \in Nat

-----------------------------------------------------------------------------
(* Event bodies *)

UnitCreated == [kind: {"UnitCreated"}, scope: Scopes]
PhaseCompleted == [kind: {"PhaseCompleted"}, phase: Phases, artifacts: Details]
PhaseSkipped == [kind: {"PhaseSkipped"}, phase: Phases, reason: SkipReasons]
MilestoneShipped ==
    [kind: {"MilestoneShipped"}, milestone: Milestones, commit: Commits,
     commit_kind: CommitKinds, status: CommitStatus]
MilestoneReverted ==
    [kind: {"MilestoneReverted"}, milestone: Milestones, original: Commits, revert: Commits]
MilestoneVerified == [kind: {"MilestoneVerified"}, milestone: Milestones, commit: Commits]
GateRecorded ==
    [kind: {"GateRecorded"}, gate: Gates, decision: Details, rationale: RationaleLengths]
StatusTransitioned ==
    [kind: {"StatusTransitioned"}, target: Statuses, forced: BOOLEAN,
     rationale: Details \cup {None}]
ReconcileFailed ==
    [kind: {"ReconcileFailed"}, anchor: Anchors, failure: Details, attempt: Nat \ {0}]
ReconcileRecovered ==
    [kind: {"ReconcileRecovered"}, anchor: Anchors, attempts_total: Nat \ {0}]
EventSuperseded == [kind: {"EventSuperseded"}, target: Nat, reason: Details]
SubagentCompleted == [kind: {"SubagentCompleted"}, agent_id: Agents, report: Details]
ToolCallFailed ==
    [kind: {"ToolCallFailed"}, call: Calls, attempt: Nat \ {0}, reason: Details]
ModelSwitched == [kind: {"ModelSwitched"}, from: Models, to: Models]
ApprovalRecorded ==
    [kind: {"ApprovalRecorded"}, target: Nat, approver: Approvers, decision: Details]

EventBody ==
    UnitCreated \cup PhaseCompleted \cup PhaseSkipped \cup MilestoneShipped
    \cup MilestoneReverted \cup MilestoneVerified \cup GateRecorded \cup StatusTransitioned
    \cup ReconcileFailed \cup ReconcileRecovered \cup EventSuperseded
    \cup SubagentCompleted \cup ToolCallFailed \cup ModelSwitched \cup ApprovalRecorded

Event == [body: EventBody, at: 0..MaxTime]

-----------------------------------------------------------------------------
(* Logs and projections *)

Prefix(l, n) == SubSeq(l, 1, n)

OfKind(l, kind) == {i \in DOMAIN l : l[i].body.kind = kind}

\* Mutant: a supersede that was itself superseded stops counting.
SupersededTransitively(l) ==
    LET S == OfKind(l, "EventSuperseded")
    IN  {l[i].body.target : i \in {k \in S : \A j \in S : l[j].body.target # k}}

\* Every id some EventSuperseded points at, whether or not that event is
\* itself superseded: the relation is single-shot.
Superseded(l) == {l[i].body.target : i \in OfKind(l, "EventSuperseded")}

\* effective_events: positions of the events that still stand, in log order.
Effective(l) == {i \in DOMAIN l : i \notin Superseded(l)}

EffectiveOf(l, kind) == OfKind(l, kind) \cap Effective(l)

Latest(S) == CHOOSE i \in S : \A j \in S : j <= i
Earliest(S) == CHOOSE i \in S : \A j \in S : i <= j

\* The elements of S, sorted by an order on them: a set of pairs <<x, y>> with
\* x before y.  An element's place is the number of those before it.
InOrder(S, before) ==
    [k \in 1..Cardinality(S) |->
        CHOOSE x \in S : Cardinality({y \in S : <<y, x>> \in before}) = k - 1]

\* Positions in the order of the log.
Ascending(S) == InOrder(S, {pair \in S \X S : pair[1] < pair[2]})

CurrentStatus(l) ==
    LET S == EffectiveOf(l, "StatusTransitioned")
    IN  IF S = {} THEN None ELSE l[Latest(S)].body.target

Resolutions(l) == EffectiveOf(l, "PhaseCompleted") \cup EffectiveOf(l, "PhaseSkipped")

PhasesResolved(l) == {l[i].body.phase : i \in Resolutions(l)}

\* scope_of_log: the first UnitCreated, superseded or not.
ScopeOfLog(l) ==
    LET S == OfKind(l, "UnitCreated")
    IN  IF S = {} THEN None ELSE l[Earliest(S)].body.scope

\* current_phase: its scope comes from the effective events.
CurrentPhase(l) ==
    LET created == EffectiveOf(l, "UnitCreated")
        required == RequiredPhases[l[Earliest(created)].body.scope]
        open == {k \in DOMAIN required : required[k] \notin PhasesResolved(l)}
    IN  IF created = {} \/ open = {} THEN None ELSE required[Earliest(open)]

\* A milestone is shipped when no effective revert follows an effective ship.
ShippedMilestones(l) ==
    {m \in Milestones :
        \E i \in EffectiveOf(l, "MilestoneShipped") :
            /\ l[i].body.milestone = m
            /\ \A j \in EffectiveOf(l, "MilestoneReverted") :
                  l[j].body.milestone = m => j < i}

-----------------------------------------------------------------------------
(* Preconditions, one per kind.  Repositories evaluate them without a VCS or
   file-system probe (AppendContext::new leaves both None). *)

CanCreateUnit(l) == l = <<>>

CanCompletePhase(l, b) ==
    \A i \in EffectiveOf(l, "PhaseCompleted") : l[i].body.phase # b.phase

CanSkipPhase(l, b) ==
    /\ <<b.phase, b.reason>> \in AcceptsSkip
    /\ b.phase \notin PhasesResolved(l)

\* Mutant: only the same commit is refused, the milestone is not looked up.
CanShipEveryCommit(l, b) ==
    /\ b.commit_kind \in Implementation
    /\ b.status # "Missing"

CanShip(l, b) ==
    /\ b.commit_kind \in Implementation
    /\ b.status # "Missing"
    /\ b.milestone \notin ShippedMilestones(l)

\* Mutant: any past ship will do, even one reverted since.
CanRevertTwice(l, b) ==
    \E i \in EffectiveOf(l, "MilestoneShipped") : l[i].body.milestone = b.milestone

CanRevert(l, b) == b.milestone \in ShippedMilestones(l)

CanVerify(l, b) ==
    \E i \in EffectiveOf(l, "MilestoneShipped") :
        /\ l[i].body.milestone = b.milestone
        /\ l[i].body.commit = b.commit
        /\ l[i].body.status = "Pending"

\* Mutant: one recorded prerequisite opens the gate.
CanRecordGateEarly(l, b) ==
    /\ b.rationale >= MinRationale
    /\ Prerequisites[b.gate] # {} =>
          \E i \in EffectiveOf(l, "GateRecorded") : l[i].body.gate \in Prerequisites[b.gate]

CanRecordGate(l, b) ==
    /\ b.rationale >= MinRationale
    /\ \A g \in Prerequisites[b.gate] :
          \E i \in EffectiveOf(l, "GateRecorded") : l[i].body.gate = g

\* Mutant: phases resolved by retracted events still count.
RequiredPhasesEverResolved(l) ==
    LET scope == ScopeOfLog(l)
        resolved == {l[i].body.phase :
                        i \in OfKind(l, "PhaseCompleted") \cup OfKind(l, "PhaseSkipped")}
    IN  scope # None =>
            \A k \in DOMAIN RequiredPhases[scope] : RequiredPhases[scope][k] \in resolved

\* Phase x Status: every phase the unit's scope requires is resolved.  A log
\* without UnitCreated has no scope and nothing to require.
RequiredPhasesResolved(l) ==
    LET scope == ScopeOfLog(l)
    IN  scope # None =>
            \A k \in DOMAIN RequiredPhases[scope] : RequiredPhases[scope][k] \in PhasesResolved(l)

CanTransition(l, b) ==
    /\ b.target # CurrentStatus(l)
    /\ b.forced => b.rationale # None
    /\ ~b.forced /\ b.target \in TerminalStatuses => RequiredPhasesResolved(l)

\* Mutant: retracted failures hand their attempt number out again.
CanFailReconcileAgain(l, b) ==
    \A i \in EffectiveOf(l, "ReconcileFailed") :
        l[i].body.anchor = b.anchor => l[i].body.attempt < b.attempt

\* max_attempt_for_anchor looks at every event, superseded ones included.
CanFailReconcile(l, b) ==
    \A i \in OfKind(l, "ReconcileFailed") :
        l[i].body.anchor = b.anchor => l[i].body.attempt < b.attempt

CanRecover(l, b) ==
    \E i \in EffectiveOf(l, "ReconcileFailed") : l[i].body.anchor = b.anchor

\* Mutant: the earlier supersede of the same target is not looked for.
CanSupersedeTwice(l, b) == b.target \in DOMAIN l

CanSupersede(l, b) ==
    /\ b.target \in DOMAIN l
    /\ b.target \notin Superseded(l)

CanCompleteSubagent(l, b) ==
    \A i \in EffectiveOf(l, "SubagentCompleted") : l[i].body.agent_id # b.agent_id

\* Mutant: an equal attempt passes.
CanRepeatToolAttempt(l, b) ==
    \A i \in EffectiveOf(l, "ToolCallFailed") :
        l[i].body.call = b.call => l[i].body.attempt <= b.attempt

CanFailToolCall(l, b) ==
    \A i \in EffectiveOf(l, "ToolCallFailed") :
        l[i].body.call = b.call => l[i].body.attempt < b.attempt

CanSwitchModel(b) == b.from # b.to

\* Mutant: only the target is checked, not who signed before.
CanApproveTwice(l, b) == b.target \in Effective(l)

CanApprove(l, b) ==
    /\ b.target \in Effective(l)
    /\ \A i \in EffectiveOf(l, "ApprovalRecorded") :
          ~(l[i].body.target = b.target /\ l[i].body.approver = b.approver)

\* Mutant: only a further transition is refused on a terminal unit.
RefusesOnlyTransitions(l, kind) ==
    kind = "StatusTransitioned" => CurrentStatus(l) \notin TerminalStatuses

\* Mutant: the EventSuperseded exemption is missing.
RefusesEveryKind(l, kind) == CurrentStatus(l) \notin TerminalStatuses

\* A unit in a terminal status takes nothing but EventSuperseded.
AcceptsKind(l, kind) == kind # "EventSuperseded" => CurrentStatus(l) \notin TerminalStatuses

Precondition(l, b) ==
    /\ AcceptsKind(l, b.kind)
    /\ b.kind = "UnitCreated" => CanCreateUnit(l)
    /\ b.kind = "PhaseCompleted" => CanCompletePhase(l, b)
    /\ b.kind = "PhaseSkipped" => CanSkipPhase(l, b)
    /\ b.kind = "MilestoneShipped" => CanShip(l, b)
    /\ b.kind = "MilestoneReverted" => CanRevert(l, b)
    /\ b.kind = "MilestoneVerified" => CanVerify(l, b)
    /\ b.kind = "GateRecorded" => CanRecordGate(l, b)
    /\ b.kind = "StatusTransitioned" => CanTransition(l, b)
    /\ b.kind = "ReconcileFailed" => CanFailReconcile(l, b)
    /\ b.kind = "ReconcileRecovered" => CanRecover(l, b)
    /\ b.kind = "EventSuperseded" => CanSupersede(l, b)
    /\ b.kind = "SubagentCompleted" => CanCompleteSubagent(l, b)
    /\ b.kind = "ToolCallFailed" => CanFailToolCall(l, b)
    /\ b.kind = "ModelSwitched" => CanSwitchModel(b)
    /\ b.kind = "ApprovalRecorded" => CanApprove(l, b)

-----------------------------------------------------------------------------
(* Deduplication and stamping *)

\* The salted hash of {workflow, body, supersedes}: collision-free, blind to
\* the timestamp, the causation and the extension of the event.
Fingerprint(e) == e.body

Fingerprints(l) == {Fingerprint(l[i]) : i \in DOMAIN l}

\* Dedup runs first and looks at the whole log, superseded events included.
IsDuplicate(l, b) == b \in Fingerprints(l)

Admissible(l, b) == ~IsDuplicate(l, b) /\ Precondition(l, b)

\* Mutant: a clock that has not moved since the last event passes through.
StampNotBefore(now, l) ==
    IF l = <<>> \/ now >= l[Len(l)].at THEN now
    ELSE IF l[Len(l)].at < MaxTime THEN l[Len(l)].at + 1 ELSE l[Len(l)].at

\* Mutant: the addition does not saturate.
StampUnsaturated(now, l) ==
    IF l = <<>> \/ now > l[Len(l)].at THEN now ELSE l[Len(l)].at + 1

StampMonotonic(now, l) ==
    IF l = <<>> \/ now > l[Len(l)].at THEN now
    ELSE IF l[Len(l)].at < MaxTime THEN l[Len(l)].at + 1 ELSE l[Len(l)].at

Stamped(l, b, now) == [body |-> b, at |-> StampMonotonic(now, l)]

\* A stamp follows another: strictly, unless time has run out.
Follows(later, earlier) == earlier < later \/ (earlier = MaxTime /\ later = MaxTime)

\* The logs an append path may produce: each event was admissible when it
\* was appended to the events before it, and stamped after them.
Legal(l) ==
    \A i \in DOMAIN l :
        /\ Admissible(Prefix(l, i - 1), l[i].body)
        /\ i > 1 => Follows(l[i].at, l[i - 1].at)
=============================================================================
