------------------------- MODULE MCLockedRepository -------------------------
(***************************************************************************)
(* Instances of LockedRepository for TLC: callers in processes of their    *)
(* own, or two callers of one process against one of another.              *)
(***************************************************************************)
EXTENDS LockedRepository, TLC

CONSTANTS standard, m1, c1, a, b, c, p, q, r, s1

MCRequiredPhases == [s \in Scopes |-> <<>>]
MCPrerequisites == [g \in Gates |-> {}]

Created == [kind |-> "UnitCreated", scope |-> standard]
Shipped ==
    [kind |-> "MilestoneShipped", milestone |-> m1, commit |-> c1, commit_kind |-> "feat",
     status |-> "Verified"]
Reverted ==
    [kind |-> "MilestoneReverted", milestone |-> m1, original |-> c1, revert |-> c1]

\* Each body in one batch only.
OneBatch == {<<Created>>}
TwoBatches == {<<Created>>, <<Shipped, Reverted>>}
SingleBodies == {<<Created>>, <<Shipped>>}

MCSalt == [t \in Tasks |-> s1]
Apart == [t \in Tasks |-> IF t = a THEN p ELSE IF t = b THEN q ELSE r]
Together == [t \in Tasks |-> IF t = c THEN q ELSE p]

\* One user, or processes of two users: p gets EPERM for q.
OneUser == [x \in Procs |-> Procs]
TwoUsers == [x \in Procs |-> IF x = p THEN Procs \ {q} ELSE Procs]
=============================================================================
