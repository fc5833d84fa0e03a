---------------------------- MODULE MCHookQueue ----------------------------
(***************************************************************************)
(* Instances of HookQueue for TLC.  Hooks report ships and a revert of one *)
(* milestone or two.                                                       *)
(***************************************************************************)
EXTENDS HookQueue, TLC

CONSTANTS m1, m2, c1, c2, c3

MCRequiredPhases == [s \in Scopes |-> <<>>]
MCPrerequisites == [g \in Gates |-> {}]

Ship(m, c) ==
    [kind |-> "MilestoneShipped", milestone |-> m, commit |-> c, commit_kind |-> "feat",
     status |-> "Verified"]

\* The hook fills the milestone in when it finds the commit in the log.
RevertOf(c, by) ==
    [kind |-> "MilestoneReverted", milestone |-> m1, original |-> c, revert |-> by]

LateShip == {Ship(m2, c2)}
ShipAndRevert == {Ship(m1, c1), RevertOf(c1, c3)}

Interchangeable == Permutations(Hooks) \cup Permutations(Drainers)

\* An entry of another preset, one of the running workflow.
OneLeftover == {[id |-> 1, body |-> Ship(m2, c3)]}
OldLeftovers == {[id |-> 1, body |-> Ship(m2, c3)], [id |-> 2, body |-> Ship(m1, c1)]}
OtherPreset == {Ship(m2, c3)}
=============================================================================
