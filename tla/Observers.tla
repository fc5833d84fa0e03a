------------------------------ MODULE Observers ------------------------------
(***************************************************************************)
(* knotch-observer: what each observer proposes for a snapshot of the log. *)
(* Proposals are bodies, in the order the observer returns them.           *)
(***************************************************************************)
EXTENDS Git

CONSTANTS
    MaxProposals,       \* ObserveBudget::max_proposals
    Artifacts           \* the payload of a phase the scanner has found

ASSUME ObserversAssumption == MaxProposals \in Nat /\ Artifacts \in Details

Failed == <<[kind |-> "failed"]>>

\* The observers of this crate stop with BudgetExceeded when the list reaches
\* the budget, SubprocessObserver when it goes beyond.
Budgeted(proposals) == IF Len(proposals) >= MaxProposals THEN Failed ELSE proposals

\* ArtifactObserver: phases whose files are there and that are not resolved.
ArtifactProposals(snapshot, present) ==
    LET open == Ascending({i \in DOMAIN present : present[i] \notin PhasesResolved(snapshot)})
    IN  Budgeted([k \in DOMAIN open |->
            [kind |-> "PhaseCompleted", phase |-> present[open[k]], artifacts |-> Artifacts]])

\* PendingCommitObserver: pending ships that stand, whose pair is not yet
\* verified and whose commit git knows by now, in the order of the log.
PendingProposals(snapshot) ==
    LET verified == {<<snapshot[i].body.milestone, snapshot[i].body.commit>> :
                         i \in EffectiveOf(snapshot, "MilestoneVerified")}
        ripe == {i \in EffectiveOf(snapshot, "MilestoneShipped") :
                    /\ snapshot[i].body.status = "Pending"
                    /\ <<snapshot[i].body.milestone, snapshot[i].body.commit>> \notin verified
                    /\ VerifyCommit(snapshot[i].body.commit) = "Verified"}
        order == Ascending(ripe)
    IN  Budgeted([k \in DOMAIN order |->
            [kind |-> "MilestoneVerified", milestone |-> snapshot[order[k]].body.milestone,
             commit |-> snapshot[order[k]].body.commit]])

\* What GitLogObserver makes of one commit: a proposal or none.  The resolver
\* is the adopter's; here it reads the subject.
ShipsOrReverts(sha) ==
    LET msg == object[sha]
    IN  IF msg.about = None THEN {}
        ELSE IF ParsedKind(msg) \in Implementation
        THEN {[kind |-> "MilestoneShipped", milestone |-> msg.about, commit |-> Full(sha),
               commit_kind |-> ParsedKind(msg), status |-> "Verified"]}
        ELSE IF ParsedKind(msg) = "revert" /\ RevertTarget(msg) # None
        THEN {RevertProposal(Full(sha), RevertTarget(msg), msg.about)}
        ELSE {}

\* The cache the reconciler hands out is new in every pass, so that there is
\* no watermark and the walk takes the whole branch.  An unborn branch has no
\* HEAD to walk from.
GitLogProposals ==
    IF CurrentHead = None THEN Failed
    ELSE LET commits == LogSince(None)
             telling == Ascending({i \in DOMAIN commits : ShipsOrReverts(commits[i]) # {}})
         IN  Budgeted([k \in DOMAIN telling |->
                 CHOOSE b \in ShipsOrReverts(commits[telling[k]]) : TRUE])

\* SubprocessObserver: an exit status, output that does not parse and a list
\* beyond the budget are errors; no output at all is no proposal.
Subprocess == [exit: BOOLEAN, output: {"none", "garbage", "proposals"}]

SubprocessProposals(run, proposals) ==
    IF ~run.exit THEN Failed
    ELSE IF run.output = "none" THEN <<>>
    ELSE IF run.output = "garbage" \/ Len(proposals) > MaxProposals THEN Failed
    ELSE proposals
=============================================================================
