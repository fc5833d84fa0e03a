------------------------------- MODULE Ledger -------------------------------
(***************************************************************************)
(* The abstract ledger of one unit: a log that grows by one admissible     *)
(* event at a time, stamped monotonically.  There is one action per event  *)
(* kind; a refused proposal leaves the log as it is and is therefore a     *)
(* stuttering step.  FileRepository shows how a batch of proposals reaches *)
(* this log through locks, files and crashes.                              *)
(***************************************************************************)
EXTENDS Kernel

CONSTANTS
    Readings,       \* what the wall clock may read; it may go back between appends
    Explored(_)     \* bound of the exploration: the logs that are recorded

ASSUME LedgerAssumption ==
    /\ Readings \subseteq 0..MaxTime
    /\ MaxAttempt \in Nat

VARIABLE log

Init == log = <<>>

\* One pass of the append loop for one proposal: dedup, precondition, stamp.
Record(b) ==
    \E now \in Readings :
        LET longer == Append(log, Stamped(log, b, now))
        IN  /\ Explored(longer)
            /\ Admissible(log, b)
            /\ log' = longer

\* Ids a proposal may name: those of the log, and one that is not in it.
Ids == 0..Len(log)

RecordUnitCreated == \E b \in UnitCreated : Record(b)
RecordPhaseCompleted == \E b \in PhaseCompleted : Record(b)
RecordPhaseSkipped == \E b \in PhaseSkipped : Record(b)
RecordMilestoneShipped == \E b \in MilestoneShipped : Record(b)
RecordMilestoneReverted == \E b \in MilestoneReverted : Record(b)
RecordMilestoneVerified == \E b \in MilestoneVerified : Record(b)
RecordGate == \E b \in GateRecorded : Record(b)
RecordStatusTransitioned == \E b \in StatusTransitioned : Record(b)
RecordReconcileFailed ==
    \E anchor \in Anchors, failure \in Details, attempt \in 1..MaxAttempt :
        Record([kind |-> "ReconcileFailed", anchor |-> anchor, failure |-> failure,
                attempt |-> attempt])
RecordReconcileRecovered ==
    \E anchor \in Anchors, total \in 1..MaxAttempt :
        Record([kind |-> "ReconcileRecovered", anchor |-> anchor, attempts_total |-> total])
RecordEventSuperseded ==
    \E target \in Ids, reason \in Details :
        Record([kind |-> "EventSuperseded", target |-> target, reason |-> reason])
RecordSubagentCompleted == \E b \in SubagentCompleted : Record(b)
RecordToolCallFailed ==
    \E call \in Calls, attempt \in 1..MaxAttempt, reason \in Details :
        Record([kind |-> "ToolCallFailed", call |-> call, attempt |-> attempt,
                reason |-> reason])
RecordModelSwitched == \E b \in ModelSwitched : Record(b)
RecordApproval ==
    \E target \in Ids, approver \in Approvers, decision \in Details :
        Record([kind |-> "ApprovalRecorded", target |-> target, approver |-> approver,
                decision |-> decision])

Next ==
    \/ RecordUnitCreated
    \/ RecordPhaseCompleted
    \/ RecordPhaseSkipped
    \/ RecordMilestoneShipped
    \/ RecordMilestoneReverted
    \/ RecordMilestoneVerified
    \/ RecordGate
    \/ RecordStatusTransitioned
    \/ RecordReconcileFailed
    \/ RecordReconcileRecovered
    \/ RecordEventSuperseded
    \/ RecordSubagentCompleted
    \/ RecordToolCallFailed
    \/ RecordModelSwitched
    \/ RecordApproval

Spec == Init /\ [][Next]_log

-----------------------------------------------------------------------------
(* What the preconditions promise about a whole log *)

TypeOK == log \in Seq(Event)

\* Inductive core of every property below: any log can be replayed from its
\* first event, each one admissible against the ones before it.
LegalLog == Legal(log)

\* The effective log names one outcome per subject: a phase completes at most
\* once and is never skipped after it was resolved, a subagent completes at
\* most once, and an approver signs an event at most once, after it exists.
OneOutcomePerSubject ==
    /\ \A i, j \in Resolutions(log) :
          i < j /\ log[i].body.phase = log[j].body.phase =>
              log[i].body.kind = "PhaseSkipped" /\ log[j].body.kind = "PhaseCompleted"
    /\ \A i, j \in EffectiveOf(log, "SubagentCompleted") :
          log[i].body.agent_id = log[j].body.agent_id => i = j
    /\ \A i, j \in EffectiveOf(log, "ApprovalRecorded") :
          /\ log[i].body.target \in 1..(i - 1)
          /\ /\ log[i].body.target = log[j].body.target
             /\ log[i].body.approver = log[j].body.approver
             => i = j

\* MilestoneShipped precondition: between two ships of a milestone that both
\* still stand, a revert of it was recorded.
ReshipNeedsRevert ==
    \A i, j \in EffectiveOf(log, "MilestoneShipped") :
        i < j /\ log[i].body.milestone = log[j].body.milestone =>
            \E k \in OfKind(log, "MilestoneReverted") :
                i < k /\ k < j /\ log[k].body.milestone = log[i].body.milestone

\* MilestoneReverted precondition: two reverts of a milestone are separated
\* by a ship of it, so ships and reverts alternate.
RevertNeedsShip ==
    \A i, j \in EffectiveOf(log, "MilestoneReverted") :
        i < j /\ log[i].body.milestone = log[j].body.milestone =>
            \E k \in OfKind(log, "MilestoneShipped") :
                i < k /\ k < j /\ log[k].body.milestone = log[i].body.milestone

\* Both: a milestone is shipped and reverted in turns.
ShipsAndRevertsAlternate == ReshipNeedsRevert /\ RevertNeedsShip

\* GateRecorded precondition: no gate is on the log before its whole ladder,
\* prerequisites of prerequisites included.
GateLadder ==
    \A i \in OfKind(log, "GateRecorded") :
        \A g \in Prerequisites[log[i].body.gate] :
            \E j \in OfKind(log, "GateRecorded") : j < i /\ log[j].body.gate = g

\* Terminal immutability: while a terminal transition stands, everything
\* after it is an EventSuperseded.
TerminalIsFinal ==
    \A i \in EffectiveOf(log, "StatusTransitioned") :
        log[i].body.target \in TerminalStatuses =>
            \A j \in DOMAIN log : i < j => log[j].body.kind = "EventSuperseded"

\* The escape hatch: the transition that made a unit terminal can always be
\* rolled back, whatever was superseded before.
TerminalCanBeLifted ==
    CurrentStatus(log) \in TerminalStatuses =>
        \A reason \in Details :
            Admissible(log, [kind |-> "EventSuperseded", reason |-> reason,
                             target |-> Latest(EffectiveOf(log, "StatusTransitioned"))])

\* A terminal unit is shut to everything but the escape hatch, and never to
\* that: a guard that is too lax breaks it, and so does one too strict.
TerminalGuard == TerminalIsFinal /\ TerminalCanBeLifted

\* Supersede links point strictly back and never share a target, so the
\* relation is acyclic and each event dies at most once.
SupersedeIsWellFounded ==
    \A i \in OfKind(log, "EventSuperseded") :
        /\ log[i].body.target \in 1..(i - 1)
        /\ \A j \in OfKind(log, "EventSuperseded") :
              log[i].body.target = log[j].body.target => i = j

\* The effective log carries strictly increasing attempts of a tool call in log
\* order, so tool_call_timeline's sort never meets a tie.  The whole log need
\* not: superseding a failure gives its number back.
ToolAttemptsIncrease ==
    \A i, j \in EffectiveOf(log, "ToolCallFailed") :
        i < j /\ log[i].body.call = log[j].body.call =>
            log[i].body.attempt < log[j].body.attempt

\* Reconcile attempts of an anchor increase over the whole log: superseding a
\* failure does not hand its attempt number out again.
ReconcileAttemptsIncrease ==
    \A i, j \in OfKind(log, "ReconcileFailed") :
        i < j /\ log[i].body.anchor = log[j].body.anchor =>
            log[i].body.attempt < log[j].body.attempt

\* A stamp is greater than every stamp before it although the wall clock may
\* stand still or go back.  At the representable maximum that ends: there
\* saturating_add gives the last stamp again, and all later stamps are equal.
StampsIncrease ==
    \A i, j \in DOMAIN log : i < j => Follows(log[j].at, log[i].at)

\* What counts upwards along a log.  No number or stamp is ever below an
\* earlier one of its kind, and none is met twice: among attempts of a tool call
\* in the effective log, attempts of an anchor in the whole log, and stamps
\* other than the maximum.
CountersRise == ToolAttemptsIncrease /\ ReconcileAttemptsIncrease /\ StampsIncrease

\* current_phase and the Phase x Status rule are computed separately; while
\* the unit's creation stands they agree on whether phases remain open.
PhaseViewsAgree ==
    EffectiveOf(log, "UnitCreated") # {} =>
        (CurrentPhase(log) = None <=> RequiredPhasesResolved(log))

\* effective_events is single-shot: an event that was superseded stays so.
NoResurrection ==
    [][Effective(log') \cap DOMAIN log \subseteq Effective(log)]_log
=============================================================================
