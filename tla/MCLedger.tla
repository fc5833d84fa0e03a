------------------------------ MODULE MCLedger ------------------------------
(***************************************************************************)
(* Instances of Ledger for TLC.  A kind of event is switched off by        *)
(* leaving its sets of values empty; EventSuperseded is always on.         *)
(***************************************************************************)
EXTENDS Ledger, TLC

CONSTANTS p1, p2, amnesty, standard, tiny, g1, g2, g3

\* The standard scope requires both phases, in order; the tiny one only p1.
MCRequiredPhases == [s \in Scopes |-> IF s = standard THEN <<p1, p2>> ELSE <<p1>>]

\* Only the second phase may be skipped.
MCAcceptsSkip == {<<p2, amnesty>>} \cap (Phases \X SkipReasons)

\* A ladder with a gate that needs two others.
MCPrerequisites ==
    [g \in Gates |-> IF g = g3 THEN {g1, g2} ELSE IF g = g2 THEN {g1} ELSE {}]

\* Values that only stand for themselves.
Interchangeable == Permutations(Details) \cup Permutations(Commits) \cup Permutations(Models)

\* Kinds that constrain each other.
Lifecycle == {"UnitCreated", "PhaseCompleted", "PhaseSkipped", "StatusTransitioned"}
Review == {"GateRecorded", "ApprovalRecorded", "SubagentCompleted"}
Delivery == {"MilestoneShipped", "MilestoneReverted", "MilestoneVerified"}
Attempts == {"ReconcileFailed", "ReconcileRecovered", "ToolCallFailed"}
Switches == {"ModelSwitched"}

Kinds(l) == {l[i].body.kind : i \in DOMAIN l} \ {"EventSuperseded"}

\* The clock of an append reads zero throughout.
ClockStandsStill(l) == \A i \in DOMAIN l : l[i].at <= i - 1

DetailsUsed(l) ==
    {d \in Details : \E i \in DOMAIN l : \E f \in DOMAIN l[i].body : l[i].body[f] = d}

\* The logs that are recorded: pairs mix every kind, longer logs keep to one
\* family; the clock moves with the attempts.
Within(l, kinds, length) == Len(l) <= length /\ Kinds(l) \subseteq kinds

MCExplored(l) ==
    \/ Len(l) <= 2
    \/ Within(l, Attempts, 5)
    \/ /\ ClockStandsStill(l)
       /\ \/ Within(l, Lifecycle, 6) /\ Cardinality(DetailsUsed(l)) <= 1
          \/ Within(l, Review, 5)
          \/ Within(l, Delivery, 5)
          \/ Within(l, Switches, 5)
=============================================================================
