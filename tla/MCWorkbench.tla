----------------------------- MODULE MCWorkbench -----------------------------
(***************************************************************************)
(* Instance of Workbench for TLC.                                          *)
(***************************************************************************)
EXTENDS Workbench, TLC

CONSTANTS m1, p1, c1, c2, r1, d1, done, s1, s2

MCRequiredPhases == [s \in Scopes |-> <<p1>>]
MCAcceptsSkip == {}
MCPrerequisites == [g \in Gates |-> {}]

Plain ==
    [kind |-> "feat", bang |-> "none", described |-> TRUE, quoted |-> FALSE,
     trailer |-> m1, about |-> m1, cites |-> None, typed |-> "own"]

\* Two messages of one line, and an indirect one.
Silent == [Plain EXCEPT !.trailer = None, !.about = None, !.typed = "shared"]
Telling == [Plain EXCEPT !.kind = "docs", !.typed = "shared"]
Indirect == [Plain EXCEPT !.typed = "indirect"]

\* A feature, a documentation commit with a trailer, a feature that only
\* knotch-vcs recognises, and a trailer the workflow does not know.
MCMessages ==
    {Plain,
     [Plain EXCEPT !.kind = "docs"],
     [Plain EXCEPT !.bang = "bare"],
     [Plain EXCEPT !.trailer = "unknown", !.about = None],
     Silent, Telling, Indirect, [Indirect EXCEPT !.trailer = None]}

\* On a line of its own, indirect, and two on one line: what the second says
\* is said of the first.
MCLines == {<<Plain>>, <<[Plain EXCEPT !.kind = "docs"]>>, <<Indirect>>, <<Silent, Telling>>}

MCCommands ==
    {{[git |-> TRUE, sub |-> "reset", flags |-> {"--hard"}]},
     {[git |-> TRUE, sub |-> "reset", flags |-> {"--soft"}]}}

MCConfigured == {names \in SUBSET Observers : Cardinality(names) = 2}

MCPresentFiles == {<<p1>>}

\* The subprocess knows of a commit, whichever it is, before git does.
Announced(sha) ==
    [kind |-> "MilestoneShipped", milestone |-> m1, commit |-> Full(sha),
     commit_kind |-> "feat", status |-> "Pending"]
MCScanProposals ==
    {<<Announced(sha), [kind |-> "PhaseCompleted", phase |-> p1, artifacts |-> d1]>> :
        sha \in Shas}

ASSUME MCModestAssumption == Modest

Interchangeable == Permutations(Sessions) \cup Permutations(Shas)

Kinds(l) == {l[i].body.kind : i \in DOMAIN l}

Delivery == {"MilestoneShipped", "MilestoneReverted", "MilestoneVerified"}
Work == {"PhaseCompleted", "StatusTransitioned", "EventSuperseded"}
Switches == {"ModelSwitched", "StatusTransitioned"}

Within(l, kinds, length) == Len(l) <= length /\ Kinds(l) \subseteq kinds

\* A transition gives a reason if it needs one.
Terse(l) ==
    \A i \in OfKind(l, "StatusTransitioned") : ~l[i].body.forced => l[i].body.rationale = None

\* Of two commits one is a plain feature or a revert; the other may be so, too, or
\* documentation, or come from a line with other commands.  Or the two are on one
\* line.  Every other message is met in a commit of its own.
Companions == {[Plain EXCEPT !.kind = "docs"], Telling}
Paired(commits) ==
    LET odd == {sha \in DOMAIN commits : commits[sha] # Plain /\ ~commits[sha].quoted}
    IN  \/ Cardinality(DOMAIN commits) <= 1
        \/ Cardinality(odd) <= 1 /\ \A sha \in odd : commits[sha] \in Companions
        \/ {commits[sha] : sha \in DOMAIN commits} = {Silent, Telling}

MCExplored(l, commits) ==
    LET made == DOMAIN commits
    IN  /\ Terse(l) /\ Paired(commits)
        /\ \/ Within(l, Delivery, 4)
           \/ /\ Cardinality(made) <= 1 /\ Within(l, Delivery \cup Work, 2)
              /\ \A sha \in made : commits[sha] = Plain
           \/ made = {} /\ Within(l, Switches, 3)
           \/ made = {} /\ Len(l) <= 1
=============================================================================
