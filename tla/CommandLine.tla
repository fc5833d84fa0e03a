----------------------------- MODULE CommandLine -----------------------------
(***************************************************************************)
(* knotch-cli: the commands that record an event on a unit, and the        *)
(* projections that `knotch show' and the hooks read back.  A command is   *)
(* one AllOrNothing append of one proposal: a refused precondition is an   *)
(* error, a duplicate a report of a rejection, and the log stays as it is. *)
(***************************************************************************)
EXTENDS Kernel

VARIABLE log        \* the unit's log, as the repository serialises appends

\* A log with the proposal appended, if the repository admits it.  The clock
\* stands still: Ledger has one that moves.
Offered(l, b) == IF Admissible(l, b) THEN Append(l, Stamped(l, b, 0)) ELSE l

Offer(b) == log' = Offered(log, b)

\* Rationale::with_min, for the text of a command line.
LongEnough(length) == length >= MinRationale

-----------------------------------------------------------------------------
(* Commands *)

\* `knotch unit init' refuses a log with a UnitCreated, and the precondition
\* any log that is not empty.
UnitInit(scope) ==
    /\ OfKind(log, "UnitCreated") = {}
    /\ Offer([kind |-> "UnitCreated", scope |-> scope])

\* `knotch mark completed <phase> --artifact ...'.
MarkCompleted(phase, artifacts) ==
    Offer([kind |-> "PhaseCompleted", phase |-> phase, artifacts |-> artifacts])

\* `knotch mark skipped <phase> --reason ...'.
MarkSkipped(phase, reason) ==
    Offer([kind |-> "PhaseSkipped", phase |-> phase, reason |-> reason])

\* `knotch gate <gate> <decision> <rationale>'.
RecordGateDecision(gate, decision, length) ==
    /\ LongEnough(length)
    /\ Offer([kind |-> "GateRecorded", gate |-> gate, decision |-> decision,
              rationale |-> length])

\* `knotch transition <status> [--forced] [--reason ...]'.  A status the
\* workflow does not know draws a warning and goes through.
Transition(target, forced, reason, length) ==
    /\ forced => reason # None
    /\ reason # None => LongEnough(length)
    /\ Offer([kind |-> "StatusTransitioned", target |-> target, forced |-> forced,
              rationale |-> reason])

\* `knotch approve <unit> <event> <decision> <rationale> --as <person>'.
Approve(target, approver, decision, length) ==
    /\ LongEnough(length)
    /\ Offer([kind |-> "ApprovalRecorded", target |-> target, approver |-> approver,
              decision |-> decision])

\* `knotch supersede <unit> <event> <rationale>'.
Supersede(target, reason, length) ==
    /\ LongEnough(length)
    /\ Offer([kind |-> "EventSuperseded", target |-> target, reason |-> reason])

Command ==
    \/ \E s \in Scopes : UnitInit(s)
    \/ \E p \in Phases :
          \/ \E d \in Details : MarkCompleted(p, d)
          \/ \E r \in SkipReasons : MarkSkipped(p, r)
    \/ \E n \in RationaleLengths, d \in Details :
          \/ \E g \in Gates : RecordGateDecision(g, d, n)
          \/ \E i \in DOMAIN log, a \in Approvers : Approve(i, a, d, n)
          \/ \E i \in DOMAIN log : Supersede(i, d, n)
          \/ \E s \in Statuses, f \in BOOLEAN, r \in {d, None} : Transition(s, f, r, n)

-----------------------------------------------------------------------------
(* Projections *)

\* The effective events of a kind, in log order.
Standing(l, kind) == Ascending(EffectiveOf(l, kind))

LastCompletedPhase(l) ==
    LET S == EffectiveOf(l, "PhaseCompleted")
    IN  IF S = {} THEN None ELSE l[Latest(S)].body.phase

ModelTimeline(l) ==
    LET S == Standing(l, "ModelSwitched")
    IN  [k \in DOMAIN S |-> l[S[k]].body.to]

\* What `knotch show' prints, and what load_context tells an agent.
Summary(l) ==
    [current_phase |-> CurrentPhase(l), last_completed_phase |-> LastCompletedPhase(l),
     current_status |-> CurrentStatus(l), shipped |-> ShippedMilestones(l),
     events |-> Len(l)]
=============================================================================
