-------------------------- MODULE MCFileRepository --------------------------
(***************************************************************************)
(* Instances of FileRepository for TLC: a milestone that is created,       *)
(* shipped, reverted and shipped again by concurrent callers.              *)
(***************************************************************************)
EXTENDS FileRepository, TLC

CONSTANTS standard, m1, c1, c2, a, b, c, s1, s2

MCRequiredPhases == [s \in Scopes |-> <<>>]
MCPrerequisites == [g \in Gates |-> {}]

Created == [kind |-> "UnitCreated", scope |-> standard]
Ship(commit) ==
    [kind |-> "MilestoneShipped", milestone |-> m1, commit |-> commit,
     commit_kind |-> "feat", status |-> "Verified"]
Revert(commit) ==
    [kind |-> "MilestoneReverted", milestone |-> m1, original |-> commit, revert |-> commit]

\* The third batch contradicts itself: its second ship is refused.
MCBatches ==
    {<<Created>>, <<Ship(c1), Revert(c1)>>, <<Ship(c2), Ship(c1)>>, <<Revert(c2)>>}

\* Each body in one batch only.
DisjointBatches == {<<Created>>, <<Ship(c1), Revert(c1)>>}

OneSalt == [t \in Tasks |-> s1]

\* The workflow of one task carries another salt.
TwoSalts == [t \in Tasks |-> IF t = b THEN s2 ELSE s1]

\* Callers of the same workflow.
Interchangeable == Permutations({a, c})
=============================================================================
