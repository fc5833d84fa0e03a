----------------------------- MODULE Reconciler -----------------------------
(***************************************************************************)
(* knotch-reconciler: a pass loads the log once, runs every observer on    *)
(* that snapshot in a task of its own, joins them as they finish, sorts    *)
(* what they propose and appends it in one BestEffort batch.               *)
(*                                                                         *)
(* The log and git move on while a pass runs: an observer reads git at a   *)
(* time of its own, and the batch meets whatever the log has become.       *)
(***************************************************************************)
EXTENDS CommandLine, Observers

CONSTANTS
    Configured,         \* the sets of observers a pass may be built with
    PresentFiles,       \* what the artifact scanner may find: sequences of phases
    ScanProposals       \* what the subprocess may propose

\* The observers of a pass, by their names.
Observers == {"artifact", "git-log", "pending-commit", "scan"}

\* String order of the names.
Rank(name) == CASE name = "artifact" -> 1 [] name = "git-log" -> 2
                [] name = "pending-commit" -> 3 [] name = "scan" -> 4

ASSUME ReconcilerAssumption ==
    /\ Configured \subseteq SUBSET Observers
    /\ PresentFiles \subseteq Seq(Phases)
    /\ ScanProposals \subseteq Seq(EventBody)

VARIABLE pass

\* snapshot: how much of the log the pass has loaded.  joined: the proposals
\* of the observers that are done, as pairs, in the order they finished.
IdlePass == [running |-> {}, snapshot |-> 0, joined |-> <<>>, open |-> FALSE]

InitReconciler == pass = IdlePass

Snapshot == Prefix(log, pass.snapshot)

-----------------------------------------------------------------------------

\* Load, and spawn an observer each.
StartPass ==
    /\ ~pass.open
    /\ \E names \in Configured :
          pass' = [IdlePass EXCEPT !.open = TRUE, !.running = names, !.snapshot = Len(log)]
    /\ UNCHANGED log

\* What an observer may return when it looks around now.
Results(name) ==
    CASE name = "artifact" -> {ArtifactProposals(Snapshot, found) : found \in PresentFiles}
      [] name = "git-log" -> {GitLogProposals}
      [] name = "pending-commit" -> {PendingProposals(Snapshot)}
      [] name = "scan" -> {SubprocessProposals(run, said) :
                              run \in Subprocess, said \in ScanProposals}

\* join_next: an observer is done.  One that failed proposes nothing; its error
\* goes to the report.
Join(name) ==
    /\ name \in pass.running
    /\ \E result \in Results(name) :
          pass' = [pass EXCEPT
              !.running = @ \ {name},
              !.joined = IF result = Failed THEN @
                         ELSE @ \o [i \in DOMAIN result |-> <<name, result[i]>>]]
    /\ UNCHANGED log

\* tokio::time::timeout: an observer that hangs fails for itself only.
TimeOut(name) ==
    /\ name \in pass.running
    /\ pass' = [pass EXCEPT !.running = @ \ {name}]
    /\ UNCHANGED log

\* A panic comes out of join_next as an error and ends the pass for all.
Panic(name) ==
    /\ name \in pass.running
    /\ pass' = IdlePass
    /\ UNCHANGED log

\* kind_ordinal of the kinds observers propose.
KindOrdinal(kind) ==
    CASE kind = "UnitCreated" -> 1 [] kind = "PhaseCompleted" -> 2
      [] kind = "PhaseSkipped" -> 3 [] kind = "MilestoneShipped" -> 4
      [] kind = "MilestoneReverted" -> 5 [] kind = "MilestoneVerified" -> 6
      [] kind = "GateRecorded" -> 7 [] kind = "StatusTransitioned" -> 8
      [] kind = "ReconcileFailed" -> 9 [] kind = "ReconcileRecovered" -> 10
      [] kind = "EventSuperseded" -> 11 [] kind = "SubagentCompleted" -> 12
      [] kind = "ToolCallFailed" -> 13 [] kind = "ModelSwitched" -> 14
      [] kind = "ApprovalRecorded" -> 15

\* A stable sort of pairs by a key: ties keep the order of the join.
SortedBy(key, pairs) ==
    LET before == {p \in (DOMAIN pairs) \X (DOMAIN pairs) :
                      key[p[1]] < key[p[2]] \/ (key[p[1]] = key[p[2]] /\ p[1] < p[2])}
        order == InOrder(DOMAIN pairs, before)
    IN  [k \in DOMAIN order |-> pairs[order[k]][2]]

\* Mutant: the name of the observer is left out of the key.
BatchByKind(pairs) ==
    SortedBy([i \in DOMAIN pairs |-> KindOrdinal(pairs[i][2].kind)], pairs)

\* all_proposals.sort_by: by name, then by kind.
Batch(pairs) ==
    SortedBy([i \in DOMAIN pairs |-> 16 * Rank(pairs[i][1]) + KindOrdinal(pairs[i][2].kind)],
             pairs)

\* BestEffort: each proposal against the log its predecessors have left.
Appended(l, batch) ==
    LET after[n \in 0..Len(batch)] ==
            IF n = 0 THEN l ELSE Offered(after[n - 1], batch[n])
    IN  after[Len(batch)]

\* An append that fails leaves what a panic leaves.
Finish ==
    /\ pass.open /\ pass.running = {}
    /\ log' = Appended(log, Batch(pass.joined))
    /\ pass' = IdlePass

Reconcile ==
    \/ StartPass
    \/ \E name \in Observers : Join(name) \/ TimeOut(name) \/ Panic(name)
    \/ Finish

-----------------------------------------------------------------------------

\* Each proposal of a pass, with the observer it is from and its place among
\* that observer's own.  The set does not know who was done first.
Said(pairs) ==
    {[by |-> pairs[i][1], body |-> pairs[i][2],
      nth |-> Cardinality({j \in 1..i : pairs[j][1] = pairs[i][1]})] : i \in DOMAIN pairs}

\* By observer, a kind at a time, as the observer returned them.
Precedes(x, y) ==
    \/ Rank(x.by) < Rank(y.by)
    \/ /\ x.by = y.by
       /\ \/ KindOrdinal(x.body.kind) < KindOrdinal(y.body.kind)
          \/ x.body.kind = y.body.kind /\ x.nth < y.nth

\* The batch a pass owes its observers.
Owed(said) ==
    LET order == InOrder(said, {p \in said \X said : Precedes(p[1], p[2])})
    IN  [k \in DOMAIN order |-> order[k].body]
=============================================================================
