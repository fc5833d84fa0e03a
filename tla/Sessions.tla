------------------------------ MODULE Sessions ------------------------------
(***************************************************************************)
(* knotch-agent: which unit a hook works on.  .knotch/active.toml names    *)
(* the unit of the project, .knotch/sessions/<id>.toml the unit a session  *)
(* has been bound to when it started.  Hooks and `knotch unit use' are     *)
(* processes of their own without a lock: every existence test, read,      *)
(* create, write and rename is a step.  atomic::write gives all writers of *)
(* one path the same temporary name, so their steps mix there.             *)
(*                                                                         *)
(* The project has a knotch.toml: without one no command touches a         *)
(* pointer.                                                                *)
(***************************************************************************)
EXTENDS FiniteSets, Naturals

CONSTANTS
    None,
    Units,      \* unit slugs with a directory
    Sessions,   \* session ids
    Names,      \* names of pointer files
    NameOf,     \* sanitize_session_id: two ids may share a name
    Tasks,      \* processes: one command or hook each, again and again
    Envs        \* what KNOTCH_UNIT may hold: units, or None (unset or malformed)

ASSUME SessionsAssumption ==
    /\ None \notin Units \cup Sessions
    /\ NameOf \in [Sessions -> Names]
    /\ Envs \subseteq Units \cup {None}

\* A name apart from those of the sessions.
Global == "active.toml"

ASSUME GlobalIsNoSession == Global \notin Names

Paths == {Global} \cup Names

\* What a reader finds in a pointer file.  A file created and not yet written
\* has no bytes, which parses as a pointer to no unit; bytes of two writers
\* over each other do not parse.
Empty == "empty"
Garbled == "garbled"
Content == Units \cup {Empty, Garbled}
Absent == "absent"

ASSUME ContentsDiffer == {Empty, Garbled, Absent} \cap (Units \cup {None}) = {}

VARIABLES
    file,       \* the pointer files
    tmp,        \* the temporary file next to each of them
    env,        \* KNOTCH_UNIT as the session's processes see it
    live,       \* sessions that run
    task,       \* what each process is doing
    bound,      \* history: the unit of the session's last snapshot
    crossed     \* history: paths two writers had open at once

vars == <<file, tmp, env, live, task, bound, crossed>>

Task ==
    [cmd: {"none", "start", "refresh", "tool", "use"},
     pc: {"idle", "detecting", "testing", "probing", "reading", "resolved", "creating",
          "writing", "renaming"},
     session: Sessions \cup {None}, path: Paths, unit: Units \cup {None},
     detected: BOOLEAN,
     \* Where the process's open file is by now.
     fd: {"closed", "tmp", "file", "lost"},
     \* History: the unit the session was bound to when the hook was launched.
     begun: Units \cup {None}]

Idle ==
    [cmd |-> "none", pc |-> "idle", session |-> None, path |-> Global, unit |-> None,
     detected |-> FALSE, fd |-> "closed", begun |-> None]

Init ==
    /\ file = [x \in Paths |-> Absent]
    /\ tmp = [x \in Paths |-> Absent]
    /\ env = [s \in Sessions |-> None]
    /\ live = {}
    /\ task = [t \in Tasks |-> Idle]
    /\ bound = [s \in Sessions |-> None]
    /\ crossed = {}

At(t, pc) == task[t].pc = pc

\* Claude Code waits for the hooks of SessionStart and UserPromptSubmit.
Busy(s) == \E t \in Tasks : task[t].session = s /\ task[t].cmd \in {"start", "refresh"}

-----------------------------------------------------------------------------
(* What starts a process *)

\* SessionStart: the hook runs load-context, which looks for a model switch
\* first when the payload names a model.  A resumed session has kept its file.
SessionStart(t, s) ==
    /\ At(t, "idle") /\ s \notin live
    /\ \E e \in Envs, model \in BOOLEAN :
          /\ env' = [env EXCEPT ![s] = e]
          /\ task' = [task EXCEPT ![t] =
                 [Idle EXCEPT !.cmd = "start", !.session = s, !.detected = ~model,
                              !.pc = IF model THEN "detecting" ELSE "testing"]]
    /\ live' = live \cup {s}
    /\ UNCHANGED <<file, tmp, bound, crossed>>

\* UserPromptSubmit runs the same load_context.
Prompt(t, s) ==
    /\ At(t, "idle") /\ s \in live /\ ~Busy(s)
    /\ task' = [task EXCEPT ![t] =
           [Idle EXCEPT !.cmd = "refresh", !.session = s, !.detected = TRUE, !.pc = "testing"]]
    /\ UNCHANGED <<file, tmp, env, live, bound, crossed>>

\* PostToolUse, PostToolUseFailure, SubagentStop: several may run at once.
ToolUse(t, s) ==
    /\ At(t, "idle") /\ s \in live
    /\ \A u \in Tasks : task[u].session = s => task[u].cmd # "start"
    /\ task' = [task EXCEPT ![t] =
           [Idle EXCEPT !.cmd = "tool", !.session = s, !.pc = "testing", !.begun = bound[s]]]
    /\ UNCHANGED <<file, tmp, env, live, bound, crossed>>

\* SessionEnd clears the pointer, unless the session is about to resume.  A
\* pointer that is not there is no error.
SessionEnd(s) ==
    /\ s \in live /\ ~Busy(s)
    /\ live' = live \ {s}
    /\ file' \in {file, [file EXCEPT ![NameOf[s]] = Absent]}
    /\ task' = [t \in Tasks |->
           IF task[t].session = s THEN [task[t] EXCEPT !.begun = None] ELSE task[t]]
    /\ bound' = [bound EXCEPT ![s] = None]
    /\ UNCHANGED <<tmp, env, crossed>>

UnitUse(t, u) ==
    /\ At(t, "idle")
    /\ task' = [task EXCEPT ![t] = [Idle EXCEPT !.cmd = "use", !.unit = u, !.pc = "creating"]]
    /\ UNCHANGED <<file, tmp, env, live, bound, crossed>>

-----------------------------------------------------------------------------
(* resolve_active_for_hook *)

\* Mutant: hooks ask for the project's unit.
TestGlobal(t) ==
    /\ task[t].pc \in {"detecting", "testing"}
    /\ task' = [task EXCEPT ![t].path = Global, ![t].pc = "probing"]
    /\ UNCHANGED <<file, tmp, env, live, bound, crossed>>

\* The environment wins over both files; the session's file over the global
\* one, if it is there.
Test(t) ==
    /\ task[t].pc \in {"detecting", "testing"}
    /\ LET s == task[t].session
       IN  task' = [task EXCEPT ![t] =
               IF env[s] # None THEN [@ EXCEPT !.unit = env[s], !.pc = "resolved"]
               ELSE [@ EXCEPT !.pc = "probing",
                              !.path = IF file[NameOf[s]] # Absent THEN NameOf[s] ELSE Global]]
    /\ UNCHANGED <<file, tmp, env, live, bound, crossed>>

\* read_pointer tests once more: a file that has gone names no unit.
Probe(t) ==
    /\ At(t, "probing")
    /\ task' = [task EXCEPT ![t] =
           IF file[@.path] = Absent THEN [@ EXCEPT !.path = Global, !.pc = "resolved"]
           ELSE [@ EXCEPT !.pc = "reading"]]
    /\ UNCHANGED <<file, tmp, env, live, bound, crossed>>

\* Mutant: "no active unit" is taken for a unit.
ReadEmptyAsUnit(t) ==
    /\ At(t, "reading")
    /\ file[task[t].path] \in Units \cup {Empty}
    /\ task' = [task EXCEPT ![t].unit = file[task[t].path], ![t].path = Global, ![t].pc = "resolved"]
    /\ UNCHANGED <<file, tmp, env, live, bound, crossed>>

Read(t) ==
    /\ At(t, "reading")
    /\ file[task[t].path] \in Units \cup {Empty}
    /\ LET c == file[task[t].path]
       IN  task' = [task EXCEPT ![t].unit = IF c = Empty THEN None ELSE c,
                                ![t].path = Global, ![t].pc = "resolved"]
    /\ UNCHANGED <<file, tmp, env, live, bound, crossed>>

\* A file that has gone since, or does not parse, is an error, and ends the
\* hook.
ReadFails(t) ==
    /\ At(t, "reading")
    /\ file[task[t].path] \in {Absent, Garbled}
    /\ task' = [task EXCEPT ![t] = Idle]
    /\ UNCHANGED <<file, tmp, env, live, bound, crossed>>

-----------------------------------------------------------------------------
(* What a hook does with the unit *)

\* record_switch_if_changed is done with its own unit; load_context resolves
\* again.
Detected(t) ==
    /\ At(t, "resolved") /\ ~task[t].detected /\ task[t].cmd = "start"
    /\ task' = [task EXCEPT ![t].detected = TRUE, ![t].unit = None,
                            ![t].pc = "testing"]
    /\ UNCHANGED <<file, tmp, env, live, bound, crossed>>

\* Mutant: the snapshot goes to the project's pointer.
SnapshotToGlobal(t) ==
    /\ At(t, "resolved") /\ task[t].detected /\ task[t].unit # None
    /\ task' = [task EXCEPT ![t].path = Global, ![t].pc = "creating"]
    /\ UNCHANGED <<file, tmp, env, live, bound, crossed>>

\* load_context snapshots a unit, and nothing else.
Snapshot(t) ==
    /\ At(t, "resolved") /\ task[t].detected /\ task[t].unit # None
    /\ task' = [task EXCEPT ![t].path = NameOf[task[t].session], ![t].pc = "creating"]
    /\ UNCHANGED <<file, tmp, env, live, bound, crossed>>

\* A hook without a unit continues without a word; a tool's hook has recorded
\* its event on the unit it resolved.
Over(t) ==
    /\ At(t, "resolved")
    /\ task[t].cmd = "tool" \/ (task[t].detected /\ task[t].unit = None)
    /\ task' = [task EXCEPT ![t] = Idle]
    /\ UNCHANGED <<file, tmp, env, live, bound, crossed>>

-----------------------------------------------------------------------------
(* atomic::write *)

Writing(t) == task[t].pc \in {"writing", "renaming"}

\* Mutant: what a killed writer has left in the temporary file stays.
CreateWithoutTruncating(t) ==
    /\ At(t, "creating")
    /\ LET x == task[t].path
       IN  /\ tmp' = [tmp EXCEPT ![x] = IF @ = Absent THEN Empty ELSE @]
           /\ crossed' = IF \E u \in Tasks \ {t} : task[u].path = x /\ Writing(u)
                         THEN crossed \cup {x} ELSE crossed
    /\ task' = [task EXCEPT ![t].fd = "tmp", ![t].pc = "writing"]
    /\ UNCHANGED <<file, env, live, bound>>

\* File::create opens the temporary file, or truncates the one that is there.
Create(t) ==
    /\ At(t, "creating")
    /\ LET x == task[t].path
       IN  /\ tmp' = [tmp EXCEPT ![x] = Empty]
           /\ crossed' = IF \E u \in Tasks \ {t} : task[u].path = x /\ Writing(u)
                         THEN crossed \cup {x} ELSE crossed
    /\ task' = [task EXCEPT ![t].fd = "tmp", ![t].pc = "writing"]
    /\ UNCHANGED <<file, env, live, bound>>

\* write_all from offset 0: what an earlier writer has put there may be
\* longer.
Overlaid(old, u) == IF old = Empty THEN {u} ELSE {u, Garbled}

Write(t) ==
    /\ At(t, "writing")
    /\ LET x == task[t].path
           u == task[t].unit
       IN  \/ /\ task[t].fd = "tmp"
              /\ \E c \in Overlaid(tmp[x], u) : tmp' = [tmp EXCEPT ![x] = c]
              /\ UNCHANGED file
           \/ /\ task[t].fd = "file"
              /\ \E c \in Overlaid(file[x], u) : file' = [file EXCEPT ![x] = c]
              /\ UNCHANGED tmp
           \/ /\ task[t].fd = "lost"
              /\ UNCHANGED <<file, tmp>>
    /\ task' = [task EXCEPT ![t].pc = "renaming", ![t].fd = "closed"]
    /\ UNCHANGED <<env, live, bound, crossed>>

\* A rename moves the inode, and with it the files other writers have open.
Moved(fd) == CASE fd = "tmp" -> "file" [] fd = "file" -> "lost" [] OTHER -> fd

Rename(t) ==
    /\ At(t, "renaming")
    /\ LET x == task[t].path
           s == task[t].session
       IN  /\ tmp[x] # Absent
           /\ file' = [file EXCEPT ![x] = tmp[x]]
           /\ tmp' = [tmp EXCEPT ![x] = Absent]
           /\ task' = [u \in Tasks |->
                  IF u = t THEN Idle
                  ELSE IF task[u].path = x THEN [task[u] EXCEPT !.fd = Moved(@)]
                  ELSE task[u]]
           /\ bound' = IF s = None THEN bound ELSE [bound EXCEPT ![s] = task[t].unit]
    /\ UNCHANGED <<env, live, crossed>>

\* Another writer has renamed the temporary file away.
RenameFails(t) ==
    /\ At(t, "renaming")
    /\ tmp[task[t].path] = Absent
    /\ task' = [task EXCEPT ![t] = Idle]
    /\ UNCHANGED <<file, tmp, env, live, bound, crossed>>

\* A process that is killed, by a hook timeout say, leaves its temporary file.
Kill(t) ==
    /\ ~At(t, "idle")
    /\ task' = [task EXCEPT ![t] = Idle]
    /\ UNCHANGED <<file, tmp, env, live, bound, crossed>>

-----------------------------------------------------------------------------

Step(t) ==
    \/ \E s \in Sessions : SessionStart(t, s) \/ Prompt(t, s) \/ ToolUse(t, s)
    \/ \E u \in Units : UnitUse(t, u)
    \/ Test(t)
    \/ Probe(t)
    \/ Read(t)
    \/ ReadFails(t)
    \/ Detected(t)
    \/ Snapshot(t)
    \/ Over(t)
    \/ Create(t)
    \/ Write(t)
    \/ Rename(t)
    \/ RenameFails(t)
    \/ Kill(t)

Next ==
    \/ \E t \in Tasks : Step(t)
    \/ \E s \in Sessions : SessionEnd(s)

Spec == Init /\ [][Next]_vars

-----------------------------------------------------------------------------
(* Properties *)

TypeOKSessions ==
    /\ file \in [Paths -> Content \cup {Absent}]
    /\ tmp \in [Paths -> Content \cup {Absent}]
    /\ env \in [Sessions -> Envs \cup {None}]
    /\ live \in SUBSET Sessions
    /\ task \in [Tasks -> Task]
    /\ bound \in [Sessions -> Units \cup {None}]
    /\ crossed \in SUBSET Paths

\* atomic.rs: "either the prior file content or the full new content is on
\* disk - never a partial write".  It holds on every path whose writers have
\* not met, whoever is killed when; two that meet share the temporary file.
LoneWritersLeaveWholePointers ==
    \A x \in Paths \ crossed : file[x] \in Units \cup {Absent}

\* A session whose name is its own and whose writers have not met.
Undisturbed(s) ==
    /\ NameOf[s] \notin crossed
    /\ \A r \in Sessions \ {s} : NameOf[r] # NameOf[s]

\* active.rs: "subsequent `knotch unit use' CLI calls elsewhere do not
\* disturb it": later snapshots of a session bind it to the unit of the
\* first, whatever happens to the project's pointer.
SessionKeepsItsUnit ==
    [][\A s \in Sessions :
          bound[s] # None /\ bound'[s] # None /\ Undisturbed(s)' => bound'[s] = bound[s]]_vars

\* session_start.rs: "subsequent hooks in the same session are stable against
\* project-global reassignments".  A hook launched in a bound session works on
\* that unit, unless the session ends before the hook does.
HooksFollowTheSession ==
    \A t \in Tasks :
        /\ task[t].cmd = "tool" /\ task[t].begun # None /\ At(t, "resolved")
        /\ Undisturbed(task[t].session)
        => task[t].unit = task[t].begun
=============================================================================
