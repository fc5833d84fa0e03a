--------------------------------- MODULE Git ---------------------------------
(***************************************************************************)
(* The git repository a unit is worked on in, as far as knotch sees it:    *)
(* the commits there are, and those the branch holds.  A rewrite takes     *)
(* commits off the branch and leaves the objects.  GixVcs reads it.        *)
(***************************************************************************)
EXTENDS CommitText, SequencesExt

VARIABLES
    object,     \* the message of each commit made so far
    branch      \* the commits HEAD reaches, oldest first

gitVars == <<object, branch>>

InitGit ==
    /\ object = [sha \in {} |-> None]
    /\ branch = <<>>

Made == DOMAIN object

\* A new commit on top of the branch.
CommitAs(sha, msg) ==
    /\ sha \notin Made
    /\ object' = [x \in Made \cup {sha} |-> IF x = sha THEN msg ELSE object[x]]
    /\ branch' = Append(branch, sha)

\* git revert writes the subject of the original into its own, cites the
\* whole sha, and copies no trailer.
RevertMessage(original) ==
    [kind |-> "other", bang |-> "none", described |-> TRUE, quoted |-> TRUE,
     trailer |-> None, about |-> object[original].about, cites |-> original,
     typed |-> "own"]

Rewrite(length) ==
    /\ branch' = SubSeq(branch, 1, length)
    /\ UNCHANGED object

-----------------------------------------------------------------------------
(* GixVcs *)

\* verify_commit looks an object up, on the branch or not.
VerifyCommit(spelling) ==
    IF (\E sha \in Made : Names(spelling, sha)) \/ (spelling = RefName /\ branch # <<>>)
    THEN "Verified" ELSE "Missing"

\* log_since with no kinds to filter and no limit: newest first, down to the
\* commit the caller has seen.
LogSince(since) ==
    LET seen == {i \in DOMAIN branch : since # None /\ Names(since, branch[i])}
        from == IF seen = {} THEN 1 ELSE Latest(seen) + 1
    IN  Reverse(SubSeq(branch, from, Len(branch)))

\* current_head: an unborn branch has none.
CurrentHead == IF branch = <<>> THEN None ELSE Full(branch[Len(branch)])
=============================================================================
