------------------------------ MODULE AgentHooks ------------------------------
(***************************************************************************)
(* knotch-agent and `knotch hook': what Claude Code's hooks do to a unit   *)
(* around the git commands of its sessions.  A PreToolUse hook reads the   *)
(* log and decides, git runs, a PostToolUse hook reads git's output and    *)
(* appends: three steps, between which other sessions take theirs.         *)
(*                                                                         *)
(* All sessions here work on one unit; Sessions says which one that is.    *)
(***************************************************************************)
EXTENDS CommandLine, Git

CONSTANTS
    Sessions,
    Messages,       \* commit messages an agent may write
    Lines,          \* command lines of git commit: the messages on them
    Commands,       \* sets of fragments: command lines that rewrite history
    MaxQueued       \* max_entries of the queue

ASSUME HooksAssumption ==
    /\ Messages \subseteq Message
    /\ Lines \subseteq Seq(Messages)
    /\ \A line \in Lines :
          /\ line # <<>>
          /\ Len(line) > 1 => \A k \in DOMAIN line : line[k].typed = "shared"
    /\ Commands \subseteq SUBSET Fragment
    /\ MaxQueued \in Nat

GuardPolicy == {"block", "warn", "off"}

VARIABLES
    call,       \* what each session's tool call has come to
    queue       \* proposals whose append failed for longer than its retries

\* The call of a session that runs none.
NoCall == [tool |-> "none"]

InitHooks ==
    /\ call = [s \in Sessions |-> NoCall]
    /\ queue = <<>>

Idle(s) == call[s] = NoCall
Running(s, tool, pc) == call[s].tool = tool /\ call[s].pc = pc
Done(s) == call' = [call EXCEPT ![s] = NoCall]

\* A hook whose event neither the log nor the queue has taken: a line of
\* orphan.log or a warning tells of it, and the hook exits with 0 all the same.
Loses(s) == call' = [call EXCEPT ![s] = [tool |-> "lost"]]

Warn(s) ==
    /\ call[s].tool = "lost"
    /\ Done(s)
    /\ UNCHANGED <<log, queue, gitVars>>

\* HookOutput and emit: 2 stops the tool, 0 lets it run.  An error stops it
\* where there is something to stop.
Blocking == {"check-commit", "guard-rewrite"}
Exit(hook, output) ==
    IF output = "Block" \/ (output = "Error" /\ hook \in Blocking) THEN 2 ELSE 0

\* spill_oldest, where the policy is SpillOldest and the queue is full.
Spilled == IF Len(queue) < MaxQueued \/ queue = <<>> THEN queue ELSE Tail(queue)

\* post_tool_append: the repository takes or refuses the proposal, or has
\* failed three times and the proposal goes to the queue, or the queue is full
\* under Reject or cannot be written either.
PostToolAppend(s, b) ==
    \/ Offer(b) /\ Done(s) /\ UNCHANGED queue
    \/ queue' = Append(Spilled, b) /\ Done(s) /\ UNCHANGED log
    \/ Loses(s) /\ queue' \in {queue, Spilled} /\ UNCHANGED log

\* load_context of the next session drains the queue.
Drain ==
    /\ queue # <<>>
    /\ Offer(Head(queue))
    /\ queue' = Tail(queue)
    /\ UNCHANGED <<call, gitVars>>

-----------------------------------------------------------------------------
(* git commit *)

\* Mutant: any id the workflow knows passes.
CheckOnlyTheId(msg) ==
    IF msg # None /\ HasTrailer(msg) /\ ~Accepted(msg) THEN "Block" ELSE "Continue"

\* check: a trailer names a milestone the workflow knows and that is not
\* shipped.  Neither the kind of the commit nor the status of the unit counts.
Check(msg) ==
    IF msg = None \/ ~HasTrailer(msg) THEN "Continue"
    ELSE IF ~Accepted(msg) \/ msg.trailer \in ShippedMilestones(log) THEN "Block"
    ELSE "Continue"

\* What a message file may hold, or the shell put together.
Texts == {msg \in Messages : msg.typed = "indirect"}

\* PreToolUse: check-commit has heard what the line says.
CheckCommit(s) ==
    /\ Idle(s)
    /\ \E line \in Lines : \E heard \in ExtractMessage(line, Texts) :
          /\ Exit("check-commit", Check(heard)) = 0
          /\ call' = [call EXCEPT ![s] =
                 [tool |-> "commit", pc |-> "checked", line |-> line, ran |-> 0,
                  header |-> None, looked |-> Len(log)]]
    /\ UNCHANGED <<log, queue, gitVars>>

\* The next part of the line is done.  verify-commit takes the first header in
\* the output of all of them; without one it has no sha.
PartDone(s, header) ==
    LET c == call[s]
        first == IF c.header = None THEN header ELSE c.header
        pc == IF c.ran + 1 < Len(c.line) THEN "checked" ELSE "ran"
    IN  call' = [call EXCEPT ![s] =
            IF pc = "ran" /\ first = None THEN NoCall
            ELSE [c EXCEPT !.pc = pc, !.ran = c.ran + 1, !.header = first]]

\* What git is given: the argument of -m, or whatever it is by then.
Written(msg) == IF msg.typed = "indirect" THEN Texts ELSE {msg}

RunCommit(s) ==
    /\ Running(s, "commit", "checked")
    /\ \E sha \in Shas \ Made, quiet \in BOOLEAN :
       \E msg \in Written(call[s].line[call[s].ran + 1]) :
          /\ CommitAs(sha, msg)
          /\ PartDone(s, CommitHeader(sha, quiet))
    /\ UNCHANGED <<log, queue>>

\* A part of the line commits nothing: it is another command with a message, as
\* `git tag', or has failed before `;'.
SkipPart(s) ==
    /\ Running(s, "commit", "checked")
    /\ call[s].line[call[s].ran + 1].typed = "shared"
    /\ PartDone(s, None)
    /\ UNCHANGED <<log, queue, gitVars>>

\* A commit whose message no hook can see, from stdin or an editor or a command
\* that does not begin with `git commit', or by somebody who works without the
\* agent.
UnheardCommit ==
    /\ \E msg \in Messages, sha \in Shas \ Made :
          msg.typed = "own" /\ CommitAs(sha, msg)
    /\ UNCHANGED <<log, queue, call>>

\* The line fails, at whichever part.  PostToolUse does not fire.
CommitFails(s) ==
    /\ Running(s, "commit", "checked")
    /\ Done(s)
    /\ UNCHANGED <<log, queue, gitVars>>

\* What verify-commit has to say about a call that ran: the message is extracted
\* anew, and paired with the first header.
Proposals(heard, header) == IF heard = None THEN {} ELSE VerifyProposal(heard, header)

\* PostToolUse: verify-commit.
RecordCommit(s) ==
    /\ Running(s, "commit", "ran")
    /\ \E heard \in ExtractMessage(call[s].line, Texts) :
          \/ \E b \in Proposals(heard, call[s].header) : PostToolAppend(s, b)
          \/ Proposals(heard, call[s].header) = {} /\ Done(s) /\ UNCHANGED <<log, queue>>
    /\ UNCHANGED gitVars

-----------------------------------------------------------------------------
(* git revert *)

\* What an agent writes on a line with other commands.
Shared == {msg \in Messages : msg.typed = "shared"}

\* The agent names a commit of the branch as it likes, on a branch or on a
\* detached HEAD.  The line may go on: after `git revert --no-commit' the commit
\* git prints a header of has a message from further down the line.
RunRevert(s) ==
    /\ Idle(s)
    /\ \E i \in DOMAIN branch, sha \in Shas \ Made, quiet \in BOOLEAN :
       \E token \in {Full(branch[i]), Short(branch[i]), RefName}, detached \in BOOLEAN :
          /\ token = RefName => i = Len(branch)
          /\ \E msg \in {RevertMessage(branch[i])} \cup Shared : CommitAs(sha, msg)
          /\ LET header == RevertHeader(sha, quiet, detached)
             IN  IF header = None THEN UNCHANGED call
                 ELSE call' = [call EXCEPT ![s] =
                          [tool |-> "revert", pc |-> "ran", original |-> token,
                           header |-> header]]
    /\ UNCHANGED <<log, queue>>

\* record-revert walks the whole log backwards, superseded events included,
\* for a ship spelled as the command line spells it.
ShipsSpelled(spelling) ==
    {i \in OfKind(log, "MilestoneShipped") : log[i].body.commit = spelling}

LookUpRevert(s) ==
    /\ Running(s, "revert", "ran")
    /\ LET S == ShipsSpelled(call[s].original)
       IN  call' = [call EXCEPT ![s] =
               IF S = {} THEN NoCall
               ELSE [tool |-> "revert", pc |-> "found", original |-> @.original,
                     header |-> @.header, milestone |-> log[Latest(S)].body.milestone]]
    /\ UNCHANGED <<log, queue, gitVars>>

RecordRevert(s) ==
    /\ Running(s, "revert", "found")
    /\ PostToolAppend(s, RevertProposal(call[s].header, call[s].original, call[s].milestone))
    /\ UNCHANGED gitVars

-----------------------------------------------------------------------------
(* Commands that rewrite history *)

\* Mutant: only a terminal status is worth guarding.
GuardTerminal == IF CurrentStatus(log) \in TerminalStatuses THEN "Block" ELSE "Continue"

\* guard::rewrite.
Guard ==
    IF CurrentStatus(log) \in TerminalStatuses \/ ShippedMilestones(log) # {}
    THEN "Block" ELSE "Continue"

\* The policy of knotch.toml, as it stands when the hook runs.
GuardOutput(policy, fragments) ==
    IF policy = "off" \/ ~IsDestructive(fragments) THEN "Continue"
    ELSE IF policy = "warn" /\ Guard = "Block" THEN "Context"
    ELSE Guard

\* PreToolUse: guard-rewrite lets a command go that it would have blocked.
StartRewrite(s) ==
    /\ Idle(s)
    /\ \E fragments \in Commands :
          /\ IsDestructive(fragments)
          /\ Exit("guard-rewrite", GuardOutput("block", fragments)) = 0
          /\ call' = [call EXCEPT ![s] =
                 [tool |-> "rewrite", pc |-> "checked", looked |-> Len(log)]]
    /\ UNCHANGED <<log, queue, gitVars>>

\* What goes through whatever the log says: a command that is only warned
\* about, or not looked at, as a soft reset, a rebase, an amend.
Loose ==
    {p \in GuardPolicy \X Commands :      \* a policy and a command line
        /\ p[1] # "block" \/ ~IsDestructive(p[2])
        /\ Exit("guard-rewrite", GuardOutput(p[1], p[2])) = 0}

LooseRewrite ==
    /\ Loose # {}
    /\ \E n \in 0..Len(branch) : Rewrite(n)
    /\ UNCHANGED <<log, queue, call>>

\* The command drops the newest commits of the branch.
RunRewrite(s) ==
    /\ Running(s, "rewrite", "checked")
    /\ \E n \in 0..Len(branch) : Rewrite(n)
    /\ Done(s)
    /\ UNCHANGED <<log, queue>>

-----------------------------------------------------------------------------
(* Models, subagents and failed tools *)

\* record_switch_if_changed: the last model the unit has seen, if any.
PriorModel == IF ModelTimeline(log) = <<>> THEN None
              ELSE ModelTimeline(log)[Len(ModelTimeline(log))]

\* SessionStart with a model in its payload.
Detect(s) ==
    /\ Idle(s)
    /\ \E current \in Models :
          /\ PriorModel \notin {None, current}
          /\ call' = [call EXCEPT ![s] =
                 [tool |-> "detect", pc |-> "loaded", prior |-> PriorModel,
                  current |-> current, looked |-> Len(log)]]
    /\ UNCHANGED <<log, queue, gitVars>>

Switch(from, to) == [kind |-> "ModelSwitched", from |-> from, to |-> to]

\* Mutant: the switch is recorded the wrong way round.
RecordSwitchBackwards(s) ==
    /\ Running(s, "detect", "loaded")
    /\ \/ Offer(Switch(call[s].current, call[s].prior)) /\ Done(s)
       \/ Loses(s) /\ UNCHANGED log
    /\ UNCHANGED <<queue, gitVars>>

\* record_switch appends once.  An append that fails is the end of the hook,
\* before its drain; nothing is queued.
RecordSwitch(s) ==
    /\ Running(s, "detect", "loaded")
    /\ \/ Offer(Switch(call[s].prior, call[s].current)) /\ Done(s)
       \/ Loses(s) /\ UNCHANGED log
    /\ UNCHANGED <<queue, gitVars>>

\* A harness that knows of a switch calls record_switch.  Here and below an
\* append that fails changes nothing: the event is lost.
HarnessSwitch ==
    /\ \E from, to \in Models : Offer(Switch(from, to))
    /\ UNCHANGED <<call, queue, gitVars>>

\* SubagentStop: the report is cut to eight kilobytes.
Subagent ==
    /\ \E a \in Agents, d \in Details :
          Offer([kind |-> "SubagentCompleted", agent_id |-> a, report |-> d])
    /\ UNCHANGED <<call, queue, gitVars>>

\* PostToolUseFailure: an interrupt or a payload without an id is dropped, and
\* every id is fresh, so that the attempt is always the first.
ToolFailure ==
    /\ \E c \in Calls, d \in Details :
          Offer([kind |-> "ToolCallFailed", call |-> c, attempt |-> 1, reason |-> d])
    /\ UNCHANGED <<call, queue, gitVars>>

-----------------------------------------------------------------------------

HookStep(s) ==
    \/ CheckCommit(s) \/ RunCommit(s) \/ SkipPart(s) \/ CommitFails(s) \/ RecordCommit(s)
    \/ RunRevert(s) \/ LookUpRevert(s) \/ RecordRevert(s)
    \/ StartRewrite(s) \/ RunRewrite(s)
    \/ Detect(s) \/ RecordSwitch(s)
    \/ Warn(s)

Harness ==
    \/ UnheardCommit \/ LooseRewrite \/ HarnessSwitch \/ Subagent \/ ToolFailure \/ Drain
=============================================================================
