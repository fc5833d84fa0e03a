----------------------------- MODULE CommitText -----------------------------
(***************************************************************************)
(* What the programs around git read out of text: knotch-agent out of a    *)
(* commit message, a command line and the output of git, knotch-vcs out of *)
(* a commit it walked over.  The two read messages by rules of their own.  *)
(*                                                                         *)
(* A message is a record of what the readers tell apart; a command line is *)
(* one too.                                                                *)
(***************************************************************************)
EXTENDS Kernel

CONSTANT Shas       \* the commits git may make

ASSUME ShasAssumption == None \notin Shas \cup Milestones

\* CommitRef is a free string: git prints seven digits of a sha, a commit
\* walked over has forty, and `git revert HEAD' names none.
Full(sha) == [sha |-> sha, form |-> "full"]
Short(sha) == [sha |-> sha, form |-> "short"]
RefName == [sha |-> None, form |-> "name"]
Spelling == {Full(sha) : sha \in Shas} \cup {Short(sha) : sha \in Shas} \cup {RefName}

\* rev_parse_single: a prefix and the whole name resolve to the same commit.
Names(spelling, sha) == spelling.sha = sha

ConventionalKinds ==
    Implementation \cup {"docs", "chore", "test", "ci", "build", "style", "revert"}

ASSUME SpellingAssumption ==
    Spelling \subseteq Commits /\ None \notin Spelling /\ ConventionalKinds \subseteq CommitKinds

Message ==
    [kind: ConventionalKinds \cup {"other"},
     bang: {"none", "bare", "scoped"},     \* feat: / feat!: / feat(x)!:
     described: BOOLEAN,                   \* anything after the colon
     quoted: BOOLEAN,                      \* Revert "...": git's own header
     trailer: Milestones \cup {None, "unknown"},
     about: Milestones \cup {None},        \* what a resolver makes of the subject
     cites: Shas \cup {None},              \* This reverts commit <sha>.
     typed: {"own", "shared", "indirect"}] \* how it came to git, see below

ASSUME MessageAssumption == None \notin Message

-----------------------------------------------------------------------------
(* knotch-agent *)

\* parse_conventional cuts the first line at the colon and at a parenthesis:
\* `feat!' is not a kind, and an empty description is none.
ParseConventional(msg) ==
    IF ~msg.quoted /\ msg.kind \in ConventionalKinds /\ msg.bang # "bare" /\ msg.described
    THEN msg.kind ELSE None

\* extract_milestone_id.
HasTrailer(msg) == msg.trailer # None

\* parse_milestone: the workflow knows the id.
Accepted(msg) == msg.trailer \in Milestones

\* Mutant: any message with a trailer ships a feature.
VerifyProposalOfAnyKind(msg, commit) ==
    IF Accepted(msg)
    THEN {[kind |-> "MilestoneShipped", milestone |-> msg.trailer, commit |-> commit,
           commit_kind |-> "feat", status |-> "Verified"]}
    ELSE {}

\* verify_proposal: the event, if the message gives rise to one.
VerifyProposal(msg, commit) ==
    IF Accepted(msg) /\ ParseConventional(msg) # None
    THEN {[kind |-> "MilestoneShipped", milestone |-> msg.trailer, commit |-> commit,
           commit_kind |-> ParseConventional(msg), status |-> "Verified"]}
    ELSE {}

RevertProposal(revert, original, milestone) ==
    [kind |-> "MilestoneReverted", milestone |-> milestone, original |-> original,
     revert |-> revert]

\* A message is typed as the argument of -m, on a command line of its own or on
\* one with others; or indirectly, as the file of -F or something the shell puts
\* together: "$(cat <<'EOF' ...)", "fix: $TITLE".
\*
\* A command line that begins with `git commit', as the messages on it.  The
\* loop over the tokens does not stop at `&&' or `;': all messages are joined,
\* the first gives the first line, and the first trailer found counts.
Joined(line) ==
    LET told == {k \in DOMAIN line : HasTrailer(line[k])}
    IN  [line[1] EXCEPT !.trailer =
            IF told = {} THEN None ELSE line[Earliest(told)].trailer]

\* What extract_message may return for a line, where texts are the indirect ones.
\* It reads the file each time it is called: by then the file may hold another
\* text, or be gone.  What the shell would put together it takes as it stands.
ExtractMessage(line, texts) ==
    IF line[1].typed = "indirect" THEN texts \cup {None} ELSE {Joined(line)}

\* extract_sha_from_stdout of verify-commit: the first token between brackets
\* that looks like a sha.  --quiet prints no brackets.
CommitHeader(sha, quiet) == IF quiet THEN None ELSE Short(sha)

\* That of record-revert takes the second token: [main abc1234], but also
\* [detached HEAD abc1234].
RevertHeader(sha, quiet, detached) ==
    IF quiet THEN None ELSE IF detached THEN RefName ELSE Short(sha)

-----------------------------------------------------------------------------
(* guard-rewrite *)

\* A fragment of a command line between shell separators, as far as the guard
\* looks at it.
Fragment == [git: BOOLEAN, sub: STRING, flags: SUBSET STRING]

IsDestructiveSingle(f) ==
    /\ f.git
    /\ \/ f.sub = "push" /\ "--force-with-lease" \notin f.flags
          /\ f.flags \cap {"--force", "-f"} # {}
       \/ f.sub = "reset" /\ "--hard" \in f.flags
       \/ f.sub = "branch" /\ f.flags \cap {"-D", "--delete-force"} # {}
       \/ f.sub = "checkout" /\ "--" \in f.flags
       \/ f.sub = "clean" /\ f.flags \cap {"--force", "-f", "-fd"} # {}
       \/ f.sub = "rebase" /\ f.flags \cap {"--root", "-i", "--interactive"} # {}

IsDestructive(fragments) == \E f \in fragments : IsDestructiveSingle(f)

-----------------------------------------------------------------------------
(* knotch-vcs *)

\* parse_commit_message: git's own revert header first, then the grammar,
\* which takes the bare bang and an empty description.
ParsedKind(msg) ==
    IF msg.quoted THEN "revert"
    ELSE IF msg.kind \in ConventionalKinds THEN msg.kind ELSE None

\* extract_revert_target: git cites the whole sha.
RevertTarget(msg) == IF msg.cites = None THEN None ELSE Full(msg.cites)
=============================================================================
