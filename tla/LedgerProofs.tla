---------------------------- MODULE LedgerProofs ----------------------------
(***************************************************************************)
(* Proofs about Ledger.  One invariant is inductive, LegalLog: every event *)
(* was admissible against the events before it.  All the other safety      *)
(* properties follow from the legality of a single log, without another    *)
(* induction, because an event that still stands in a log stood in each of *)
(* its prefixes that contains it (EffectiveInPrefix).                      *)
(***************************************************************************)
EXTENDS Ledger, KernelProofs

-----------------------------------------------------------------------------
(* Types and legality *)

\* Whatever the kind, a step records one well-typed, admissible body.
LEMMA NextRecords ==
    Next => \E b \in EventBody : Record(b)
<1> SUFFICES ASSUME Next PROVE \E b \in EventBody : Record(b)
  OBVIOUS
<1>1. CASE RecordUnitCreated
  BY <1>1 DEF RecordUnitCreated, EventBody
<1>2. CASE RecordPhaseCompleted
  BY <1>2 DEF RecordPhaseCompleted, EventBody
<1>3. CASE RecordPhaseSkipped
  BY <1>3 DEF RecordPhaseSkipped, EventBody
<1>4. CASE RecordMilestoneShipped
  BY <1>4 DEF RecordMilestoneShipped, EventBody
<1>5. CASE RecordMilestoneReverted
  BY <1>5 DEF RecordMilestoneReverted, EventBody
<1>6. CASE RecordMilestoneVerified
  BY <1>6 DEF RecordMilestoneVerified, EventBody
<1>7. CASE RecordGate
  BY <1>7 DEF RecordGate, EventBody
<1>8. CASE RecordStatusTransitioned
  BY <1>8 DEF RecordStatusTransitioned, EventBody
<1>9. CASE RecordReconcileFailed
  BY <1>9, LedgerAssumption DEF RecordReconcileFailed, EventBody, ReconcileFailed
<1>10. CASE RecordReconcileRecovered
  BY <1>10, LedgerAssumption DEF RecordReconcileRecovered, EventBody, ReconcileRecovered
<1>11. CASE RecordEventSuperseded
  BY <1>11 DEF RecordEventSuperseded, EventBody, EventSuperseded, Ids
<1>12. CASE RecordSubagentCompleted
  BY <1>12 DEF RecordSubagentCompleted, EventBody
<1>13. CASE RecordToolCallFailed
  BY <1>13, LedgerAssumption DEF RecordToolCallFailed, EventBody, ToolCallFailed
<1>14. CASE RecordModelSwitched
  BY <1>14 DEF RecordModelSwitched, EventBody
<1>15. CASE RecordApproval
  BY <1>15 DEF RecordApproval, EventBody, ApprovalRecorded, Ids
<1>. QED
  BY <1>1, <1>2, <1>3, <1>4, <1>5, <1>6, <1>7, <1>8, <1>9, <1>10, <1>11, <1>12, <1>13,
     <1>14, <1>15 DEF Next

\* Type correctness of the ledger.
THEOREM TypeCorrect == Spec => []TypeOK
<1>1. Init => TypeOK
  BY DEF Init, TypeOK
<1>2. TypeOK /\ [Next]_log => TypeOK'
  <2> SUFFICES ASSUME TypeOK, Next PROVE TypeOK'
    BY DEF TypeOK
  <2>1. PICK b \in EventBody, now \in Readings : log' = Append(log, Stamped(log, b, now))
    BY NextRecords DEF Record
  <2>. QED
    BY <2>1, StampedIsEvent, AppendFacts, LedgerAssumption DEF TypeOK
<1>. QED
  BY <1>1, <1>2, PTL DEF Spec

\* Every reachable log replays: each event was admissible when it was appended.
THEOREM Legality == Spec => []LegalLog
<1>1. Init => LegalLog
  BY DEF Init, LegalLog, Legal
<1>2. TypeOK /\ LegalLog /\ [Next]_log => LegalLog'
  <2> SUFFICES ASSUME TypeOK, LegalLog, Next PROVE LegalLog'
    BY DEF LegalLog, Legal
  <2>1. PICK b \in EventBody, now \in Readings :
            Admissible(log, b) /\ log' = Append(log, Stamped(log, b, now))
    BY NextRecords DEF Record
  <2>. QED
    BY <2>1, LegalAppend, LedgerAssumption DEF TypeOK, LegalLog
<1>. QED
  BY <1>1, <1>2, TypeCorrect, PTL DEF Spec

-----------------------------------------------------------------------------
(* Consequences of legality *)

\* The prefix an event was appended to, and what the append checked there.
LEMMA Admitted ==
    ASSUME TypeOK, LegalLog, NEW j \in DOMAIN log
    PROVE  /\ j \in 1..Len(log)
           /\ j - 1 \in 0..Len(log)
           /\ DOMAIN Prefix(log, j - 1) = 1..(j - 1)
           /\ \A i \in 1..(j - 1) : Prefix(log, j - 1)[i] = log[i]
           /\ Precondition(Prefix(log, j - 1), log[j].body)
           /\ ~IsDuplicate(Prefix(log, j - 1), log[j].body)
<1>1. j \in 1..Len(log) /\ j - 1 \in 0..Len(log)
  BY DEF TypeOK
<1>2. Admissible(Prefix(log, j - 1), log[j].body)
  BY Zenon DEF LegalLog, Legal
<1>. QED
  BY <1>1, <1>2, PrefixFacts DEF TypeOK, Admissible

\* What stands in the log also stood, unchanged, in an earlier prefix of it.
LEMMA StoodThen ==
    ASSUME TypeOK, LegalLog, NEW j \in DOMAIN log, NEW kind,
           NEW i \in EffectiveOf(log, kind), i < j
    PROVE  i \in EffectiveOf(Prefix(log, j - 1), kind) /\ Prefix(log, j - 1)[i] = log[i]
<1>1. i \in 1..(j - 1) /\ j - 1 \in 0..Len(log)
  BY DEF TypeOK, EffectiveOf, OfKind
<1>. QED
  BY <1>1, Admitted, EffectiveInPrefix DEF TypeOK

\* Only the first event can be a creation.
LEMMA CreatedByFirst ==
    ASSUME TypeOK, LegalLog, NEW i \in OfKind(log, "UnitCreated")
    PROVE  i = 1
<1>1. i \in DOMAIN log /\ log[i].body.kind = "UnitCreated"
  BY DEF OfKind
<1>2. Prefix(log, i - 1) = <<>>
  BY <1>1, Admitted DEF Precondition, CanCreateUnit
<1>3. Len(Prefix(log, i - 1)) = i - 1
  BY <1>1, Admitted, PrefixFacts DEF TypeOK
<1>. QED
  BY <1>1, <1>2, <1>3 DEF TypeOK

\* While a terminal transition stands only EventSuperseded follows it.
THEOREM TerminalStaysFinal == Spec => []TerminalIsFinal
<1>1. ASSUME TypeOK, LegalLog
      PROVE  TerminalIsFinal
  <2> SUFFICES ASSUME NEW i \in EffectiveOf(log, "StatusTransitioned"),
                      log[i].body.target \in TerminalStatuses,
                      NEW x \in DOMAIN log, i < x, log[x].body.kind # "EventSuperseded"
               PROVE  FALSE
    BY DEF TerminalIsFinal
  <2> DEFINE B == {j \in DOMAIN log : i < j /\ log[j].body.kind # "EventSuperseded"}
  <2>1. PICK j \in B : \A k \in B : j <= k
    <3>1. B \in SUBSET Nat /\ B # {}
      BY <1>1 DEF TypeOK
    <3>. QED
      BY <3>1, EarliestExists
  <2> DEFINE p == Prefix(log, j - 1)
             S == EffectiveOf(p, "StatusTransitioned")
  <2>2. i \in S /\ p[i] = log[i]
    BY <1>1, <2>1, StoodThen
  <2>3. \A k \in S : k <= i
    <3> SUFFICES ASSUME NEW k \in S, ~(k <= i) PROVE FALSE
      OBVIOUS
    <3>1. k \in 1..(j - 1) /\ p[k].body.kind = "StatusTransitioned" /\ p[k] = log[k]
      BY <1>1, <2>1, Admitted DEF EffectiveOf, OfKind
    <3>2. i \in Int /\ j \in 1..Len(log)
      BY <1>1, <2>1 DEF TypeOK, EffectiveOf, OfKind
    <3>3. k \in B /\ k < j
      BY <1>1, <3>1, <3>2 DEF TypeOK
    <3>. QED
      BY <2>1, <3>1, <3>2, <3>3
  <2>4. Latest(S) = i
    <3>1. Latest(S) \in S /\ \A k \in S : k <= Latest(S)
      BY <2>2, <2>3 DEF Latest
    <3>2. Latest(S) \in Int /\ i \in Int
      BY <1>1, <2>1, <3>1, Admitted DEF EffectiveOf, OfKind, TypeOK
    <3>. QED
      BY <2>2, <2>3, <3>1, <3>2
  <2>5. CurrentStatus(p) \in TerminalStatuses
    BY <2>2, <2>4 DEF CurrentStatus
  <2>. QED
    BY <1>1, <2>1, <2>5, Admitted DEF Precondition, AcceptsKind
<1>. QED
  BY <1>1, TypeCorrect, Legality, PTL

\* The escape hatch of a terminal unit is always open.
THEOREM TerminalLiftable == Spec => []TerminalCanBeLifted
<1>1. ASSUME TypeOK, LegalLog
      PROVE  TerminalCanBeLifted
  <2> DEFINE S == EffectiveOf(log, "StatusTransitioned")
  <2> SUFFICES ASSUME CurrentStatus(log) \in TerminalStatuses, NEW reason \in Details
               PROVE  Admissible(log, [kind |-> "EventSuperseded", reason |-> reason,
                                       target |-> Latest(S)])
    BY DEF TerminalCanBeLifted
  <2> DEFINE b == [kind |-> "EventSuperseded", reason |-> reason, target |-> Latest(S)]
  <2>1. S # {} /\ S \in SUBSET (1..Len(log)) /\ Len(log) \in Nat
    BY <1>1, WorkflowAssumption DEF CurrentStatus, EffectiveOf, OfKind, TypeOK
  <2>2. Latest(S) \in S
    BY <2>1, LatestExists
  <2>3. Latest(S) \in DOMAIN log /\ Latest(S) \notin Superseded(log)
    BY <2>2 DEF EffectiveOf, Effective
  <2>4. b.kind = "EventSuperseded" /\ b.target = Latest(S)
    OBVIOUS
  <2>5. Precondition(log, b)
    BY <2>3, <2>4 DEF Precondition, AcceptsKind, CanSupersede
  <2>6. ~IsDuplicate(log, b)
    <3> SUFFICES ASSUME NEW i \in DOMAIN log, log[i].body = b PROVE FALSE
      BY DEF IsDuplicate, Fingerprints, Fingerprint
    <3>1. log[i].body.kind = "EventSuperseded" /\ log[i].body.target = Latest(S)
      BY <2>4
    <3>. QED
      BY <2>3, <3>1 DEF Superseded, OfKind
  <2>. QED
    BY <2>5, <2>6 DEF Admissible
<1>. QED
  BY <1>1, TypeCorrect, Legality, PTL

\* Two ships of a milestone that both stand have a revert between them.
THEOREM ReshipsFollowReverts == Spec => []ReshipNeedsRevert
<1>1. ASSUME TypeOK, LegalLog
      PROVE  ReshipNeedsRevert
  <2> SUFFICES ASSUME NEW i \in EffectiveOf(log, "MilestoneShipped"),
                      NEW j \in EffectiveOf(log, "MilestoneShipped"),
                      i < j, log[i].body.milestone = log[j].body.milestone
               PROVE  \E k \in OfKind(log, "MilestoneReverted") :
                          i < k /\ k < j /\ log[k].body.milestone = log[i].body.milestone
    BY DEF ReshipNeedsRevert
  <2> DEFINE p == Prefix(log, j - 1)
             m == log[j].body.milestone
  <2>1. j \in DOMAIN log /\ log[j].body.kind = "MilestoneShipped"
    BY DEF EffectiveOf, OfKind
  <2>2. i \in EffectiveOf(p, "MilestoneShipped") /\ p[i] = log[i]
    BY <1>1, <2>1, StoodThen
  <2>3. m \in Milestones
    <3>1. log[j].body \in EventBody
      <4>1. log[j] \in Event
        BY <1>1, <2>1 DEF TypeOK
      <4>. QED
        BY <4>1, Zenon DEF Event
    <3>. QED
      BY <2>1, <3>1 DEF EventBody, UnitCreated, PhaseCompleted, PhaseSkipped,
         MilestoneShipped, MilestoneReverted, MilestoneVerified, GateRecorded,
         StatusTransitioned, ReconcileFailed, ReconcileRecovered, EventSuperseded,
         SubagentCompleted, ToolCallFailed, ModelSwitched, ApprovalRecorded
  <2>4. m \notin ShippedMilestones(p)
    BY <1>1, <2>1, Admitted DEF Precondition, CanShip
  <2>5. PICK k \in EffectiveOf(p, "MilestoneReverted") : p[k].body.milestone = m /\ ~(k < i)
    BY <2>2, <2>3, <2>4 DEF ShippedMilestones
  <2>6. k \in 1..(j - 1) /\ p[k] = log[k] /\ log[k].body.kind = "MilestoneReverted"
    BY <1>1, <2>1, <2>5, Admitted DEF EffectiveOf, OfKind
  <2>7. k # i
    BY <2>2, <2>6 DEF EffectiveOf, OfKind
  <2>. QED
    BY <1>1, <2>1, <2>5, <2>6, <2>7 DEF EffectiveOf, OfKind, TypeOK
<1>. QED
  BY <1>1, TypeCorrect, Legality, PTL

\* Two reverts of a milestone that both stand have a ship between them.
THEOREM RevertsFollowShips == Spec => []RevertNeedsShip
<1>1. ASSUME TypeOK, LegalLog
      PROVE  RevertNeedsShip
  <2> SUFFICES ASSUME NEW i \in EffectiveOf(log, "MilestoneReverted"),
                      NEW j \in EffectiveOf(log, "MilestoneReverted"),
                      i < j, log[i].body.milestone = log[j].body.milestone
               PROVE  \E k \in OfKind(log, "MilestoneShipped") :
                          i < k /\ k < j /\ log[k].body.milestone = log[i].body.milestone
    BY DEF RevertNeedsShip
  <2> DEFINE p == Prefix(log, j - 1)
             m == log[j].body.milestone
  <2>1. j \in DOMAIN log /\ log[j].body.kind = "MilestoneReverted"
    BY DEF EffectiveOf, OfKind
  <2>2. i \in EffectiveOf(p, "MilestoneReverted") /\ p[i] = log[i]
    BY <1>1, <2>1, StoodThen
  <2>3. m \in ShippedMilestones(p)
    BY <1>1, <2>1, Admitted DEF Precondition, CanRevert
  <2>4. PICK k \in EffectiveOf(p, "MilestoneShipped") :
            /\ p[k].body.milestone = m
            /\ \A r \in EffectiveOf(p, "MilestoneReverted") : p[r].body.milestone = m => r < k
    BY <2>3 DEF ShippedMilestones
  <2>5. k \in 1..(j - 1) /\ p[k] = log[k] /\ log[k].body.kind = "MilestoneShipped"
    BY <1>1, <2>1, <2>4, Admitted DEF EffectiveOf, OfKind
  <2>6. i < k
    BY <2>2, <2>4
  <2>. QED
    BY <1>1, <2>1, <2>4, <2>5, <2>6 DEF OfKind, TypeOK
<1>. QED
  BY <1>1, TypeCorrect, Legality, PTL

\* Together: ships and reverts of a milestone alternate, for any workflow.
THEOREM Alternation == Spec => []ShipsAndRevertsAlternate
<1>1. ReshipNeedsRevert /\ RevertNeedsShip => ShipsAndRevertsAlternate
  BY DEF ShipsAndRevertsAlternate
<1>. QED
  BY <1>1, ReshipsFollowReverts, RevertsFollowShips, PTL

\* Attempt numbers of a tool call rise along the events that stand.
THEOREM ToolAttemptsRise == Spec => []ToolAttemptsIncrease
<1>1. ASSUME TypeOK, LegalLog
      PROVE  ToolAttemptsIncrease
  <2> SUFFICES ASSUME NEW i \in EffectiveOf(log, "ToolCallFailed"),
                      NEW j \in EffectiveOf(log, "ToolCallFailed"),
                      i < j, log[i].body.call = log[j].body.call
               PROVE  log[i].body.attempt < log[j].body.attempt
    BY DEF ToolAttemptsIncrease
  <2>1. j \in DOMAIN log /\ log[j].body.kind = "ToolCallFailed"
    BY DEF EffectiveOf, OfKind
  <2>2. /\ i \in EffectiveOf(Prefix(log, j - 1), "ToolCallFailed")
        /\ Prefix(log, j - 1)[i] = log[i]
    BY <1>1, <2>1, StoodThen
  <2>3. CanFailToolCall(Prefix(log, j - 1), log[j].body)
    BY <1>1, <2>1, Admitted DEF Precondition
  <2>. QED
    BY <2>2, <2>3 DEF CanFailToolCall
<1>. QED
  BY <1>1, TypeCorrect, Legality, PTL

\* Reconcile attempts of an anchor rise along the whole log.
THEOREM ReconcileAttemptsRise == Spec => []ReconcileAttemptsIncrease
<1>1. ASSUME TypeOK, LegalLog
      PROVE  ReconcileAttemptsIncrease
  <2> SUFFICES ASSUME NEW i \in OfKind(log, "ReconcileFailed"),
                      NEW j \in OfKind(log, "ReconcileFailed"),
                      i < j, log[i].body.anchor = log[j].body.anchor
               PROVE  log[i].body.attempt < log[j].body.attempt
    BY DEF ReconcileAttemptsIncrease
  <2>1. /\ i \in 1..(j - 1)
        /\ j \in DOMAIN log
        /\ log[i].body.kind = "ReconcileFailed"
        /\ log[j].body.kind = "ReconcileFailed"
    BY <1>1 DEF OfKind, TypeOK
  <2>2. /\ i \in OfKind(Prefix(log, j - 1), "ReconcileFailed")
        /\ Prefix(log, j - 1)[i] = log[i]
    BY <1>1, <2>1, Admitted DEF OfKind
  <2>3. CanFailReconcile(Prefix(log, j - 1), log[j].body)
    BY <1>1, <2>1, Admitted DEF Precondition
  <2>. QED
    BY <2>2, <2>3 DEF CanFailReconcile
<1>. QED
  BY <1>1, TypeCorrect, Legality, PTL

\* The terminal guard as a whole: shut to all but the escape hatch, open to it.
THEOREM TerminalGuardHolds == Spec => []TerminalGuard
<1>1. TerminalIsFinal /\ TerminalCanBeLifted => TerminalGuard
  BY DEF TerminalGuard
<1>. QED
  BY <1>1, TerminalStaysFinal, TerminalLiftable, PTL

\* No gate precedes a gate it depends on.
THEOREM GatesClimbTheLadder == Spec => []GateLadder
<1>1. ASSUME TypeOK, LegalLog
      PROVE  GateLadder
  <2> SUFFICES ASSUME NEW i \in OfKind(log, "GateRecorded"),
                      NEW g \in Prerequisites[log[i].body.gate]
               PROVE  \E j \in OfKind(log, "GateRecorded") :
                          j < i /\ log[j].body.gate = g
    BY DEF GateLadder
  <2> DEFINE p == Prefix(log, i - 1)
  <2>1. i \in DOMAIN log /\ log[i].body.kind = "GateRecorded"
    BY DEF OfKind
  <2>2. CanRecordGate(p, log[i].body)
    BY <1>1, <2>1, Admitted DEF Precondition
  <2>3. PICK j \in EffectiveOf(p, "GateRecorded") : p[j].body.gate = g
    BY <2>2 DEF CanRecordGate
  <2>4. j \in 1..(i - 1) /\ p[j] = log[j] /\ log[j].body.kind = "GateRecorded"
    BY <1>1, <2>1, <2>3, Admitted DEF EffectiveOf, OfKind
  <2>. QED
    BY <1>1, <2>1, <2>3, <2>4 DEF OfKind, TypeOK
<1>. QED
  BY <1>1, TypeCorrect, Legality, PTL

\* config.rs accepts gates that wait for each other.  Such a gate is never
\* recorded, nor is one behind it: the gates on a log lie in every set that the
\* ladder cannot be left from.
GatesAreReached ==
    \A S \in SUBSET Gates :
        (\A g \in Gates : Prerequisites[g] \subseteq S => g \in S)
        => \A i \in OfKind(log, "GateRecorded") : log[i].body.gate \in S

\* Gates on a cycle of prerequisites stay off the log for ever.
THEOREM CyclesAreNeverEntered == Spec => []GatesAreReached
<1>1. Init => GatesAreReached
  BY DEF Init, GatesAreReached, OfKind
<1>2. TypeOK /\ GatesAreReached /\ [Next]_log => GatesAreReached'
  <2> SUFFICES ASSUME TypeOK, GatesAreReached, [Next]_log,
                      NEW S \in SUBSET Gates,
                      \A g \in Gates : Prerequisites[g] \subseteq S => g \in S,
                      NEW i \in OfKind(log', "GateRecorded")
               PROVE  log'[i].body.gate \in S
    BY DEF GatesAreReached
  <2>1. \A j \in OfKind(log, "GateRecorded") : log[j].body.gate \in S
    BY DEF GatesAreReached
  <2>2. CASE UNCHANGED log
    BY <2>1, <2>2 DEF OfKind
  <2>3. CASE Next
    <3>1. PICK b \in EventBody, now \in Readings :
              log' = Append(log, Stamped(log, b, now)) /\ Admissible(log, b)
      BY <2>3, NextRecords DEF Record
    <3>2. /\ log'[Len(log) + 1].body = b
          /\ \A j \in 1..Len(log) : log'[j] = log[j]
          /\ DOMAIN log' = 1..(Len(log) + 1) /\ DOMAIN log = 1..Len(log)
          /\ Len(log) \in Nat
      <4>1. log \in Seq(Event) /\ Stamped(log, b, now) \in Event
        BY <3>1, StampedIsEvent, LedgerAssumption DEF TypeOK
      <4>2. log'[Len(log) + 1] = Stamped(log, b, now)
        BY <3>1, <4>1, AppendFacts
      <4>3. Stamped(log, b, now).body = b
        BY DEF Stamped
      <4> QED  BY <3>1, <4>1, <4>2, <4>3, AppendFacts
    <3>3. CASE i \in DOMAIN log
      BY <2>1, <3>2, <3>3 DEF OfKind
    <3>4. CASE i = Len(log) + 1
      <4>1. b.kind = "GateRecorded" /\ log'[i].body = b
        BY <3>2, <3>4 DEF OfKind
      <4>2. CanRecordGate(log, b)
        BY <3>1, <4>1 DEF Admissible, Precondition
      <4>3. Prerequisites[b.gate] \subseteq S
        <5> SUFFICES ASSUME NEW g \in Prerequisites[b.gate] PROVE g \in S
          OBVIOUS
        <5>1. PICK j \in EffectiveOf(log, "GateRecorded") : log[j].body.gate = g
          BY <4>2 DEF CanRecordGate
        <5> QED  BY <2>1, <5>1 DEF EffectiveOf, OfKind
      <4>4. b.gate \in Gates
        BY <3>1, <4>1 DEF EventBody, UnitCreated, PhaseCompleted, PhaseSkipped,
           MilestoneShipped, MilestoneReverted, MilestoneVerified, GateRecorded,
           StatusTransitioned, ReconcileFailed, ReconcileRecovered, EventSuperseded,
           SubagentCompleted, ToolCallFailed, ModelSwitched, ApprovalRecorded
      <4> QED  BY <4>1, <4>3, <4>4
    <3> QED  BY <3>2, <3>3, <3>4 DEF OfKind
  <2> QED  BY <2>2, <2>3
<1> QED  BY <1>1, <1>2, TypeCorrect, PTL DEF Spec

\* Supersedes point back, and no two share a target.
THEOREM SupersedesAreWellFounded == Spec => []SupersedeIsWellFounded
<1>1. ASSUME TypeOK, LegalLog, NEW i \in OfKind(log, "EventSuperseded")
      PROVE  /\ log[i].body.target \in 1..(i - 1)
             /\ \A j \in OfKind(log, "EventSuperseded") :
                    j < i => log[j].body.target # log[i].body.target
  <2> DEFINE p == Prefix(log, i - 1)
  <2>1. i \in DOMAIN log /\ log[i].body.kind = "EventSuperseded"
    BY DEF OfKind
  <2>2. log[i].body.target \in DOMAIN p /\ log[i].body.target \notin Superseded(p)
    BY <1>1, <2>1, Admitted DEF Precondition, CanSupersede
  <2>3. ASSUME NEW j \in OfKind(log, "EventSuperseded"), j < i
        PROVE  log[j].body.target # log[i].body.target
    <3>1. j \in 1..(i - 1) /\ log[j].body.kind = "EventSuperseded"
      BY <1>1, <2>1, <2>3 DEF OfKind, TypeOK
    <3>2. j \in OfKind(p, "EventSuperseded") /\ p[j] = log[j]
      BY <1>1, <2>1, <3>1, Admitted DEF OfKind
    <3>. QED
      BY <2>2, <3>2 DEF Superseded
  <2>. QED
    BY <1>1, <2>1, <2>2, <2>3, Admitted
<1>2. ASSUME TypeOK, LegalLog
      PROVE  SupersedeIsWellFounded
  <2>1. ASSUME NEW i \in OfKind(log, "EventSuperseded"),
               NEW j \in OfKind(log, "EventSuperseded"),
               log[i].body.target = log[j].body.target
        PROVE  i = j
    <3>1. i \in Int /\ j \in Int
      BY <1>2 DEF OfKind, TypeOK
    <3>2. ~(j < i) /\ ~(i < j)
      BY <1>1, <1>2, <2>1
    <3>. QED
      BY <3>1, <3>2
  <2>. QED
    BY <1>1, <1>2, <2>1 DEF SupersedeIsWellFounded
<1>. QED
  BY <1>2, TypeCorrect, Legality, PTL

\* The effective log holds one outcome per phase, subagent and approver.
THEOREM OneOutcome == Spec => []OneOutcomePerSubject
<1> DEFINE p(j) == Prefix(log, j - 1)
<1>1. ASSUME TypeOK, LegalLog, NEW i \in Resolutions(log), NEW j \in Resolutions(log),
             i < j, log[i].body.phase = log[j].body.phase
      PROVE  log[i].body.kind = "PhaseSkipped" /\ log[j].body.kind = "PhaseCompleted"
  <2>1. j \in DOMAIN log /\ log[j].body.kind \in {"PhaseCompleted", "PhaseSkipped"}
    BY <1>1 DEF Resolutions, EffectiveOf, OfKind
  <2>2. log[i].body.kind \in {"PhaseCompleted", "PhaseSkipped"}
    BY <1>1 DEF Resolutions, EffectiveOf, OfKind
  <2>3. i \in Resolutions(p(j)) /\ p(j)[i] = log[i]
    BY <1>1, <2>1, StoodThen DEF Resolutions
  <2>4. log[i].body.phase \in PhasesResolved(p(j))
    BY <2>3 DEF PhasesResolved
  <2>5. log[j].body.kind # "PhaseSkipped"
    BY <1>1, <2>1, <2>4, Admitted DEF Precondition, CanSkipPhase
  <2>6. log[j].body.kind = "PhaseCompleted"
    BY <2>1, <2>5
  <2>7. i \notin EffectiveOf(p(j), "PhaseCompleted")
    BY <1>1, <2>1, <2>3, <2>6, Admitted DEF Precondition, CanCompletePhase
  <2>8. i \in EffectiveOf(p(j), "PhaseSkipped")
    BY <2>3, <2>7 DEF Resolutions
  <2>. QED
    BY <2>3, <2>6, <2>8 DEF EffectiveOf, OfKind
<1>2. ASSUME TypeOK, LegalLog, NEW i \in EffectiveOf(log, "SubagentCompleted"),
             NEW j \in EffectiveOf(log, "SubagentCompleted"), i < j
      PROVE  log[i].body.agent_id # log[j].body.agent_id
  <2>1. j \in DOMAIN log /\ log[j].body.kind = "SubagentCompleted"
    BY <1>2 DEF EffectiveOf, OfKind
  <2>2. i \in EffectiveOf(p(j), "SubagentCompleted") /\ p(j)[i] = log[i]
    BY <1>2, <2>1, StoodThen
  <2>. QED
    BY <1>2, <2>1, <2>2, Admitted DEF Precondition, CanCompleteSubagent
<1>3. ASSUME TypeOK, LegalLog, NEW i \in EffectiveOf(log, "ApprovalRecorded"),
             NEW j \in EffectiveOf(log, "ApprovalRecorded"), i < j
      PROVE  ~(/\ log[i].body.target = log[j].body.target
               /\ log[i].body.approver = log[j].body.approver)
  <2>1. j \in DOMAIN log /\ log[j].body.kind = "ApprovalRecorded"
    BY <1>3 DEF EffectiveOf, OfKind
  <2>2. i \in EffectiveOf(p(j), "ApprovalRecorded") /\ p(j)[i] = log[i]
    BY <1>3, <2>1, StoodThen
  <2>3. CanApprove(p(j), log[j].body)
    BY <1>3, <2>1, Admitted DEF Precondition
  <2>. QED
    BY <2>2, <2>3 DEF CanApprove
<1>4. ASSUME TypeOK, LegalLog, NEW i \in EffectiveOf(log, "ApprovalRecorded")
      PROVE  log[i].body.target \in 1..(i - 1)
  <2>1. i \in DOMAIN log /\ log[i].body.kind = "ApprovalRecorded"
    BY <1>4 DEF EffectiveOf, OfKind
  <2>2. log[i].body.target \in Effective(p(i))
    BY <1>4, <2>1, Admitted DEF Precondition, CanApprove
  <2>. QED
    BY <1>4, <2>1, <2>2, Admitted DEF Effective
<1>5. ASSUME TypeOK, LegalLog
      PROVE  OneOutcomePerSubject
  <2>1. \A kind : EffectiveOf(log, kind) \subseteq Int
    BY <1>5 DEF EffectiveOf, OfKind, TypeOK
  <2>2. \A i, j \in EffectiveOf(log, "SubagentCompleted") :
            log[i].body.agent_id = log[j].body.agent_id => i = j
    BY <1>2, <1>5, <2>1
  <2>3. \A i, j \in EffectiveOf(log, "ApprovalRecorded") :
            /\ log[i].body.target = log[j].body.target
            /\ log[i].body.approver = log[j].body.approver
            => i = j
    BY <1>3, <1>5, <2>1
  <2>. QED
    BY <1>1, <1>4, <1>5, <2>2, <2>3, Zenon DEF OneOutcomePerSubject
<1>. QED
  BY <1>5, TypeCorrect, Legality, PTL

\* Stamps rise along the whole log, not only from one event to the next, up to
\* the maximum, which repeats.
THEOREM StampsRise == Spec => []StampsIncrease
<1>1. ASSUME TypeOK, NEW i \in DOMAIN log
      PROVE  log[i].at \in 0..MaxTime
  <2>1. log[i] \in Event
    BY <1>1 DEF TypeOK
  <2>. QED
    BY <2>1, Zenon DEF Event
<1>2. ASSUME TypeOK, LegalLog
      PROVE  StampsIncrease
  <2> SUFFICES ASSUME NEW i \in DOMAIN log, NEW x \in DOMAIN log, i < x,
                      ~Follows(log[x].at, log[i].at)
               PROVE  FALSE
    BY DEF StampsIncrease
  <2> DEFINE B == {j \in DOMAIN log : i < j /\ ~Follows(log[j].at, log[i].at)}
  <2>1. PICK j \in B : \A k \in B : j <= k
    <3>1. B \in SUBSET Nat /\ B # {}
      BY <1>2 DEF TypeOK
    <3>. QED
      BY <3>1, EarliestExists
  <2>2. j \in 1..Len(log) /\ j > 1 /\ i \in 1..Len(log) /\ j - 1 \in DOMAIN log
    BY <1>2, <2>1 DEF TypeOK
  <2>3. Follows(log[j].at, log[j - 1].at)
    BY <1>2, <2>1, <2>2 DEF LegalLog, Legal
  <2>4. j - 1 = i \/ Follows(log[j - 1].at, log[i].at)
    BY <2>1, <2>2
  <2>5. log[i].at \in 0..MaxTime /\ log[j].at \in 0..MaxTime /\ log[j - 1].at \in 0..MaxTime
    BY <1>1, <1>2, <2>1, <2>2
  <2>6. Follows(log[j].at, log[i].at)
    BY <2>3, <2>4, <2>5, ClockAssumption DEF Follows
  <2>. QED
    BY <2>1, <2>6
<1>. QED
  BY <1>2, TypeCorrect, Legality, PTL

\* Attempts and stamps together: no counter falls back, and none repeats but
\* for the stamp at its maximum and what a superseded tool failure gave back.
THEOREM CountersNeverFall == Spec => []CountersRise
<1>1. ToolAttemptsIncrease /\ ReconcileAttemptsIncrease /\ StampsIncrease => CountersRise
  BY DEF CountersRise
<1>. QED
  BY <1>1, ToolAttemptsRise, ReconcileAttemptsRise, StampsRise, PTL

\* While the creation stands, current_phase is empty exactly when the
\* Phase x Status rule is satisfied.
THEOREM PhaseViewsCoincide == Spec => []PhaseViewsAgree
<1>1. ASSUME TypeOK, LegalLog, EffectiveOf(log, "UnitCreated") # {}
      PROVE  /\ Earliest(EffectiveOf(log, "UnitCreated")) = 1
             /\ Earliest(OfKind(log, "UnitCreated")) = 1
             /\ log[1].body.scope \in Scopes
  <2>2. EffectiveOf(log, "UnitCreated") = {1} /\ OfKind(log, "UnitCreated") = {1}
    BY <1>1, CreatedByFirst DEF EffectiveOf
  <2>3. 1 \in DOMAIN log /\ log[1].body.kind = "UnitCreated"
    BY <2>2 DEF OfKind
  <2>4. log[1].body \in EventBody
    <3>1. log[1] \in Event
      BY <1>1, <2>3 DEF TypeOK
    <3>. QED
      BY <3>1, Zenon DEF Event
  <2>5. log[1].body.scope \in Scopes
    BY <2>3, <2>4 DEF EventBody, UnitCreated, PhaseCompleted, PhaseSkipped,
       MilestoneShipped, MilestoneReverted, MilestoneVerified, GateRecorded,
       StatusTransitioned, ReconcileFailed, ReconcileRecovered, EventSuperseded,
       SubagentCompleted, ToolCallFailed, ModelSwitched, ApprovalRecorded
  <2>6. Earliest({1}) = 1
    BY DEF Earliest
  <2>. QED
    BY <2>2, <2>5, <2>6
<1>2. ASSUME TypeOK, LegalLog
      PROVE  PhaseViewsAgree
  <2> SUFFICES ASSUME EffectiveOf(log, "UnitCreated") # {}
               PROVE  CurrentPhase(log) = None <=> RequiredPhasesResolved(log)
    BY DEF PhaseViewsAgree
  <2> DEFINE scope == log[1].body.scope
             required == RequiredPhases[scope]
             open == {k \in DOMAIN required : required[k] \notin PhasesResolved(log)}
  <2>1. ScopeOfLog(log) = scope /\ scope # None
    <3>1. OfKind(log, "UnitCreated") # {}
      BY DEF EffectiveOf
    <3>. QED
      BY <1>1, <1>2, <3>1, WorkflowAssumption DEF ScopeOfLog
  <2>2. RequiredPhasesResolved(log) <=> open = {}
    BY <2>1 DEF RequiredPhasesResolved
  <2>3. CurrentPhase(log) = IF open = {} THEN None ELSE required[Earliest(open)]
    BY <1>1, <1>2 DEF CurrentPhase
  <2>4. ASSUME open # {} PROVE required[Earliest(open)] # None
    <3>1. required \in Seq(Phases)
      BY <1>1, <1>2, WorkflowAssumption
    <3>2. open \in SUBSET Nat
      BY <3>1
    <3>3. Earliest(open) \in open
      <4>1. PICK k \in open : \A j \in open : k <= j
        BY <2>4, <3>2, EarliestExists
      <4>. QED
        BY <4>1 DEF Earliest
    <3>4. required[Earliest(open)] \in Phases
      <4> HIDE DEF required
      <4>1. Earliest(open) \in DOMAIN required
        BY <3>3
      <4>. QED
        BY <3>1, <4>1, ElementOfSeq
    <3>. QED
      BY <3>4, WorkflowAssumption
  <2>. QED
    BY <2>2, <2>3, <2>4
<1>. QED
  BY <1>2, TypeCorrect, Legality, PTL

\* A step never brings a superseded event back.
THEOREM SupersedeIsForEver == Spec => NoResurrection
<1>1. ASSUME TypeOK, [Next]_log
      PROVE  [Effective(log') \cap DOMAIN log \subseteq Effective(log)]_log
  <2>1. CASE UNCHANGED log
    BY <2>1
  <2>2. CASE Next
    <3>1. PICK b \in EventBody, now \in Readings : log' = Append(log, Stamped(log, b, now))
      BY <2>2, NextRecords DEF Record
    <3>2. /\ DOMAIN log' = 1..(Len(log) + 1)
          /\ \A i \in DOMAIN log : log'[i] = log[i] /\ i \in DOMAIN log'
      BY <1>1, <3>1, StampedIsEvent, AppendFacts, LedgerAssumption DEF TypeOK
    <3>3. Superseded(log) \subseteq Superseded(log')
      BY <3>2 DEF Superseded, OfKind
    <3>. QED
      BY <3>2, <3>3 DEF Effective
  <2>. QED
    BY <1>1, <2>1, <2>2
<1>. QED
  BY <1>1, TypeCorrect, PTL DEF Spec, NoResurrection
=============================================================================
