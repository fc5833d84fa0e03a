--------------------------- MODULE MCSubscription ---------------------------
(***************************************************************************)
(* Instances of Subscription for TLC: two callers of the process that      *)
(* subscribes and one of another.                                          *)
(***************************************************************************)
EXTENDS Subscription, TLC

CONSTANTS standard, m1, c1, c2, a, b, c, s1

MCRequiredPhases == [s \in Scopes |-> <<>>]
MCPrerequisites == [g \in Gates |-> {}]

Created == [kind |-> "UnitCreated", scope |-> standard]
Ship(commit) ==
    [kind |-> "MilestoneShipped", milestone |-> m1, commit |-> commit,
     commit_kind |-> "feat", status |-> "Verified"]
Revert(commit) ==
    [kind |-> "MilestoneReverted", milestone |-> m1, original |-> commit, revert |-> commit]

\* The second ship of the long batch is refused and the rest of it accepted;
\* proposed again, only the second ship is.
MCBatches == {<<Created>>, <<Ship(c1), Ship(c2), Revert(c1)>>}

MCSalt == [t \in Tasks |-> s1]

Interchangeable == Permutations(Local)
=============================================================================
