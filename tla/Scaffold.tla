------------------------------ MODULE Scaffold ------------------------------
(***************************************************************************)
(* knotch-cli: the files of a project outside its ledger - knotch.toml,    *)
(* the settings file with the agent's hooks, .gitignore - as `knotch init' *)
(* writes them, people edit them and `knotch doctor' judges them.  init is *)
(* a run of writes with no transaction around them: it can fail or be      *)
(* killed between any two, and a write that is cut short leaves the file   *)
(* truncated.  Someone may edit a file while init runs, though not within  *)
(* one of its steps.                                                       *)
(***************************************************************************)
EXTENDS WorkflowConfig, SequencesExt

CONSTANTS
    Specs,                      \* the workflows people write
    Tools,                      \* hook commands that are not knotch's
    EditedEvents,               \* the events people hook
    Lines                       \* lines people write into .gitignore

VARIABLES toml, settings, ignore,       \* files: [state, ...]
          init                          \* the `knotch init' that ran last

files == <<toml, settings, ignore>>

Workflows == Specs \cup {Canonical}

-----------------------------------------------------------------------------
(* The hook blocks; an entry is the sequence of its commands *)

HookEvents ==
    {"SessionStart", "UserPromptSubmit", "PreToolUse", "PostToolUse", "PostToolUseFailure",
     "SubagentStop", "SessionEnd"}

ASSUME EditedEventsAssumption == EditedEvents \subseteq HookEvents

NoHooks == [e \in HookEvents |-> <<>>]

Mandatory ==
    [NoHooks EXCEPT
        !.SessionStart = <<<<"load-context">>>>,
        !.PreToolUse =
            <<<<"check-commit", "guard-rewrite", "guard-rewrite", "guard-rewrite", "guard-rewrite">>>>,
        !.PostToolUse = <<<<"verify-commit", "record-revert">>>>,
        !.PostToolUseFailure = <<<<"record-tool-failure">>>>,
        !.SubagentStop = <<<<"record-subagent">>>>]

Optional ==
    [NoHooks EXCEPT
        !.UserPromptSubmit = <<<<"refresh-context">>>>,
        !.SessionEnd = <<<<"finalize-session">>>>]

IsKnotchManaged(command) == command \notin Tools

\* Knotch's own commands are nobody else's.
ASSUME ToolsAssumption ==
    \A block \in {Mandatory, Optional} : \A e \in HookEvents :
        \A i \in DOMAIN block[e] : \A k \in DOMAIN block[e][i] : IsKnotchManaged(block[e][i][k])

\* Positions from the first to the last, and what a sequence has there.
InTurn(K) ==
    CHOOSE f \in [1..Cardinality(K) -> K] : \A i, j \in DOMAIN f : i < j => f[i] < f[j]

Kept(s, K) == [n \in 1..Cardinality(K) |-> s[InTurn(K)[n]]]

\* Mutant: an entry with one of knotch's commands goes as a whole.
StripEntries(hooks) ==
    [e \in HookEvents |->
        Kept(hooks[e], {i \in DOMAIN hooks[e] :
                            \A k \in DOMAIN hooks[e][i] : ~IsKnotchManaged(hooks[e][i][k])})]

OtherCommands(entry) == Kept(entry, {k \in DOMAIN entry : ~IsKnotchManaged(entry[k])})

StripEach(entries) == [i \in DOMAIN entries |-> OtherCommands(entries[i])]

DropEmpty(entries) == Kept(entries, {i \in DOMAIN entries : entries[i] # <<>>})

StripKnotchManaged(hooks) == [e \in HookEvents |-> DropEmpty(StripEach(hooks[e]))]

InjectBlock(hooks, block) == [e \in HookEvents |-> hooks[e] \o block[e]]

MergeHooks(hooks, block) == InjectBlock(StripKnotchManaged(hooks), block)

\* The second merge strips what the first has put in.
Installed(hooks, include_optional) ==
    LET merged == MergeHooks(hooks, Mandatory)
    IN  IF include_optional THEN MergeHooks(merged, Optional) ELSE merged

-----------------------------------------------------------------------------
(* .gitignore *)

Ignoring == {".knotch", ".knotch/", "/.knotch", "/.knotch/"}

WithKnotch(l) == IF ToSet(l) \cap Ignoring # {} THEN l ELSE Append(l, ".knotch/")

\* A file that cannot be read is taken for an empty one, and overwritten.
Readable(f) == IF f.state = "whole" THEN f.lines ELSE <<>>

-----------------------------------------------------------------------------
(* knotch.toml *)

Holding(w) == [state |-> "whole", workflow |-> w]

\* Config::resolve runs before every command, init and doctor included.
Resolves == toml.state # "torn"

\* load_workflow: without a [workflow] table the canonical one holds.
Configured == IF toml.state = "whole" /\ toml.workflow # None THEN toml.workflow ELSE Canonical

Loads(w) == Resolves /\ Configured = w /\ Valid(w)

-----------------------------------------------------------------------------
(* knotch init *)

NoInit ==
    [stage |-> "none", with_hooks |-> FALSE, include_optional |-> FALSE, demo |-> FALSE,
     found |-> <<>>, alone |-> TRUE, workflow |-> None]

Running == init.stage \notin {"none", "done"}

InitScaffold ==
    /\ toml = [state |-> "absent", workflow |-> None]
    /\ settings = [state |-> "absent", hooks |-> NoHooks]
    /\ ignore = [state |-> "absent", lines |-> <<>>]
    /\ init = NoInit

\* found is what this init comes upon; alone, that nobody has edited since.
Begin(force, with_hooks, include_optional, demo) ==
    /\ ~Running /\ Resolves
    /\ toml.state = "whole" => force
    /\ init' = [stage |-> "config", with_hooks |-> with_hooks,
                include_optional |-> with_hooks /\ include_optional, demo |-> demo,
                found |-> <<settings, ignore>>, alone |-> TRUE, workflow |-> None]
    /\ UNCHANGED files

Reach(stage) == init' = [init EXCEPT !.stage = stage]
GiveUp == init' = NoInit

WriteConfig ==
    /\ init.stage = "config"
    /\ toml' = Holding(Canonical)
    /\ Reach(IF init.with_hooks THEN "hooks" ELSE "ignore")
    /\ UNCHANGED <<settings, ignore>>

\* Settings that do not parse are left alone, and init ends here: knotch.toml
\* is written, .gitignore is not.
InstallHooks ==
    /\ init.stage = "hooks"
    /\ IF settings.state = "torn" THEN GiveUp /\ UNCHANGED settings
       ELSE /\ settings' = [state |-> "whole",
                            hooks |-> Installed(settings.hooks, init.include_optional)]
            /\ Reach("ignore")
    /\ UNCHANGED <<toml, ignore>>

EnsureGitignored ==
    /\ init.stage = "ignore"
    /\ ignore' = [state |-> "whole", lines |-> WithKnotch(Readable(ignore))]
    /\ Reach(IF init.demo THEN "demo" ELSE "done")
    /\ UNCHANGED <<toml, settings>>

\* Killed, between two steps or within the write of one; or the step fails.
Killed ==
    /\ Running /\ GiveUp
    /\ \/ UNCHANGED files
       \/ /\ init.stage = "config" /\ UNCHANGED <<settings, ignore>>
          /\ toml' \in {[state |-> "torn", workflow |-> None], Holding(None)}
       \/ /\ init.stage = "hooks" /\ settings.state # "torn" /\ UNCHANGED <<toml, ignore>>
          /\ settings' = [state |-> "torn", hooks |-> NoHooks]
       \/ /\ init.stage = "ignore" /\ UNCHANGED <<toml, settings>>
          /\ ToSet(Readable(ignore)) \cap Ignoring = {}
          /\ \E n \in 0..Len(Readable(ignore)) :
                ignore' = [state |-> "whole", lines |-> SubSeq(Readable(ignore), 1, n)]

InitStep ==
    \/ \E force, with_hooks, include_optional, demo \in BOOLEAN :
          Begin(force, with_hooks, include_optional, demo)
    \/ WriteConfig \/ InstallHooks \/ EnsureGitignored \/ Killed

-----------------------------------------------------------------------------
(* People *)

Noticed == init' = IF Running THEN [init EXCEPT !.alone = FALSE] ELSE NoInit

EditConfig ==
    /\ toml' \in {Holding(w) : w \in Specs} \cup {[state |-> "absent", workflow |-> None]}
    /\ Noticed /\ UNCHANGED <<settings, ignore>>

\* A hook of one's own, in an entry of its own or in one that is there.
EditSettings ==
    /\ settings.state # "torn"
    /\ \E e \in EditedEvents, tool \in Tools :
          \/ settings' = [state |-> "whole",
                          hooks |-> [settings.hooks EXCEPT ![e] = Append(@, <<tool>>)]]
          \/ \E i \in DOMAIN settings.hooks[e] :
                settings' = [settings EXCEPT !.hooks[e][i] = Append(@, tool)]
    /\ Noticed /\ UNCHANGED <<toml, ignore>>

\* The file is removed, or an edit leaves something that does not parse.
SpoilSettings ==
    /\ settings' \in {[state |-> "torn", hooks |-> NoHooks], [state |-> "absent", hooks |-> NoHooks]}
    /\ Noticed /\ UNCHANGED <<toml, ignore>>

EditIgnore ==
    /\ \/ \E line \in Lines : ignore' = [state |-> "whole", lines |-> Append(Readable(ignore), line)]
       \/ ignore' = [state |-> "unreadable", lines |-> <<>>]
    /\ Noticed /\ UNCHANGED <<toml, settings>>

Edit == EditConfig \/ EditSettings \/ SpoilSettings \/ EditIgnore

-----------------------------------------------------------------------------
(* knotch doctor, as far as these files go *)

CheckConfigFile ==
    CASE toml.state = "whole" -> "ok" [] toml.state = "absent" -> "warn" [] toml.state = "torn" -> "fail"

CheckWorkflow == IF Resolves /\ Valid(Configured) THEN "ok" ELSE "fail"

CheckGitignore == IF ToSet(Readable(ignore)) \cap Ignoring # {} THEN "ok" ELSE "warn"
=============================================================================
