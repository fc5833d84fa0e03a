------------------------------ MODULE Workbench ------------------------------
(***************************************************************************)
(* A unit at work: sessions whose hooks record what git did, a reconciler  *)
(* that proposes what they missed, a subprocess with ideas of its own, and *)
(* the command line, all of them clients of one log.                       *)
(***************************************************************************)
EXTENDS AgentHooks, Reconciler

\* Bound: the logs that are recorded and the commits that are made, and how many of
\* calls, queued proposals and passes are under way at a time.
CONSTANTS Explored(_, _), MaxUnderWay

vars == <<log, queue, call, pass, object, branch>>

Init ==
    /\ log = <<>>
    /\ InitGit
    /\ InitHooks
    /\ InitReconciler

UnderWay ==
    Cardinality({s \in Sessions : ~Idle(s)}) + Len(queue) + (IF pass.open THEN 1 ELSE 0)

Bounded == Explored(log', object') /\ UnderWay' <= MaxUnderWay

Next ==
    \/ (\E s \in Sessions : HookStep(s)) /\ UNCHANGED pass /\ Bounded
    \/ Harness /\ UNCHANGED pass /\ Bounded
    \/ Reconcile /\ UNCHANGED <<queue, call, gitVars>> /\ Bounded
    \/ Command /\ UNCHANGED <<queue, call, pass, gitVars>> /\ Bounded

Spec == Init /\ [][Next]_vars

-----------------------------------------------------------------------------
(* Properties *)

\* reconciler lib.rs: "Deterministic order".  The log a pass leaves depends
\* on what each observer said, not on which of them was done first; a pass
\* that a panic cuts short leaves nothing.
MergeIsDeterministic ==
    [][pass.open /\ ~pass'.open
          => log' = IF pass.running = {} THEN Appended(log, Owed(Said(pass.joined))) ELSE log]_vars

\* A commit whose message ships a milestone as one of the two readers has it.
Ships(sha, milestone, kind) ==
    \/ object[sha].trailer = milestone /\ ParseConventional(object[sha]) = kind
    \/ object[sha].about = milestone /\ ParsedKind(object[sha]) = kind

\* What a body says of git is so: a ship that is said to be verified names a
\* commit that git has, and so do a verification and, unless a detached HEAD has
\* made a name of it, a revert.  Where that commit was written by a command line
\* of its own with its message on it, it ships this very milestone, or is the
\* revert of this very commit.  On a line that makes several commits, or names a
\* file of the message, the hooks may take another text for the commit's.
TrueOfGit(b) ==
    /\ b.kind = "MilestoneShipped" /\ b.status = "Verified" =>
          \E sha \in Made :
              /\ Names(b.commit, sha)
              /\ b.commit.form = "full" \/ object[sha].typed = "own" =>
                     Ships(sha, b.milestone, b.commit_kind)
    /\ b.kind = "MilestoneVerified" => \E sha \in Made : Names(b.commit, sha)
    /\ b.kind = "MilestoneReverted" /\ b.revert # RefName =>
          \E sha \in Made :
              /\ Names(b.revert, sha)
              /\ b.revert.form = "full" \/ object[sha].typed = "own" =>
                     /\ ParsedKind(object[sha]) = "revert"
                     /\ Names(b.original, object[sha].cites)

\* The subprocess is the project's own program, and the ledger takes its word.
\* This one vouches for nothing: its ships are not verified and name a commit,
\* and it leaves reverts and verifications to the other observers.
Modest ==
    \A said \in ScanProposals : \A i \in DOMAIN said :
        /\ said[i].kind \notin {"MilestoneReverted", "MilestoneVerified"}
        /\ said[i].kind = "MilestoneShipped" =>
              said[i].status # "Verified" /\ said[i].commit # RefName

\* The log says nothing of git that is not so, whoever recorded it and however
\* late, if the subprocess is modest.
LogNamesRealCommits == \A i \in DOMAIN log : TrueOfGit(log[i].body)

\* The log is what a hook of the session saw when it looked.
Unmoved(s) == call[s].looked = Len(log)

\* A commit that check-commit let pass is recorded as the ship its command line
\* announces, if its kind ships anything, the unit is not terminal and git
\* printed a header: unless append fails, which makes it queued or lost.
CheckedCommitsShip(s) ==
    \A b \in VerifyProposal(Joined(call[s].line), call[s].header) :
        /\ call[s].line[1].typed # "indirect" /\ Unmoved(s)
        /\ b.commit_kind \in Implementation
        /\ CurrentStatus(log) \notin TerminalStatuses
        /\ call'[s] = NoCall /\ \A i \in DOMAIN queue' : queue'[i] # b
        => log' = Append(log, Stamped(log, b, 0))

\* A rewrite under the policy `block' takes no commit of a shipped milestone
\* off the branch.
GuardedRewritesSpareShips(s) ==
    Running(s, "rewrite", "checked") /\ call'[s] = NoCall /\ Unmoved(s) =>
        \A i \in EffectiveOf(log, "MilestoneShipped"), k \in DOMAIN branch :
            /\ log[i].body.milestone \in ShippedMilestones(log)
            /\ Names(log[i].body.commit, branch[k])
            => k \in DOMAIN branch'

\* A detected model ends the timeline of the unit, unless the very same
\* switch has been recorded before, the unit is terminal, or append fails and
\* the hook has nothing but a warning to show for it.
DetectorsCatchUp(s) ==
    /\ Running(s, "detect", "loaded") /\ call'[s] = NoCall /\ Unmoved(s)
    /\ ~IsDuplicate(log, Switch(call[s].prior, call[s].current))
    /\ CurrentStatus(log) \notin TerminalStatuses
    => ModelTimeline(log')[Len(ModelTimeline(log'))] = call[s].current

\* hooks decide on one log and record on another; where nothing came between
\* and append works, the record is the one the decision was about.
HooksActOnWhatTheySaw ==
    [][\A s \in Sessions :
          /\ call[s].tool = "commit" /\ call[s].pc = "ran" => CheckedCommitsShip(s)
          /\ GuardedRewritesSpareShips(s)
          /\ DetectorsCatchUp(s)]_vars
=============================================================================
