--------------------------- MODULE SessionsProofs ---------------------------
(***************************************************************************)
(* Proofs about Sessions.  A path whose writers have not met has one       *)
(* writer at a time, whose temporary file nobody else touches; a session   *)
(* whose pointer is such a path keeps the unit it was bound to, because    *)
(* the hooks that write the pointer come one after the other and find in   *)
(* it what the first of them has left.                                     *)
(***************************************************************************)
EXTENDS Sessions, TLAPS

-----------------------------------------------------------------------------
(* The inductive invariant *)

\* The hooks that load the context, and the two halves of their way.
Hooks == {"start", "refresh"}
Resolving == {"testing", "detecting", "probing", "reading", "resolved"}
Saving == {"creating", "writing", "renaming"}

\* What each kind of process may be doing: `unit use' only saves to the
\* project's pointer, a tool's hook only resolves, the hooks that load the
\* context resolve, then save to the pointer of their session.
Shape(c) ==
    /\ c.cmd = "none" => c.pc = "idle"
    /\ c.cmd = "use" =>
          /\ c.pc \in Saving /\ c.session = None
          /\ c.path = Global /\ c.unit \in Units
    /\ c.cmd = "tool" => c.pc \in Resolving /\ c.session \in Sessions /\ ~c.detected
    /\ c.cmd \in Hooks =>
          /\ c.pc \in Resolving \cup Saving /\ c.session \in Sessions
          /\ c.pc \in Saving => c.path = NameOf[c.session] /\ c.unit \in Units

\* A path whose writers have not met has one of them at most, and the temporary
\* file holds what that one has got to.
Orderly(x) ==
    /\ file[x] \in Units \cup {Absent}
    /\ \A t, u \in Tasks :
          Writing(t) /\ task[t].path = x /\ Writing(u) /\ task[u].path = x => t = u
    /\ \A t \in Tasks :
          task[t].path = x =>
             /\ At(t, "writing") => task[t].fd = "tmp" /\ tmp[x] = Empty
             /\ At(t, "renaming") => tmp[x] = task[t].unit

\* The hooks that load the context of a session follow each other.
OneHook(s) ==
    /\ bound[s] # None => s \in live
    /\ \A t \in Tasks :
          task[t].session = s /\ task[t].cmd \in Hooks =>
             /\ s \in live
             /\ task[t].cmd = "start" => bound[s] = None
             /\ \A u \in Tasks : task[u].session = s /\ task[u].cmd \in Hooks => t = u

\* The unit the hooks of a session must find: of the environment, or of the
\* pointer the first of them has left.
Target(s) == IF env[s] # None THEN env[s] ELSE bound[s]

\* A bound session is bound to its target, and its pointer says so.
Anchored(s) ==
    bound[s] # None =>
        /\ bound[s] = Target(s)
        /\ env[s] = None => file[NameOf[s]] = bound[s]

\* A hook that is on its way from the target to a unit.
Follows(c) ==
    Target(c.session) # None =>
        /\ c.pc \in {"probing", "reading"} =>
              env[c.session] = None /\ c.path = NameOf[c.session]
        /\ c.pc \in {"resolved"} \cup Saving => c.unit = Target(c.session)

\* A tool's hook that was launched in a session that was bound, and is not over.
Launched(c) == c.cmd = "tool" /\ c.begun # None

\* A session with its pointer, and all its processes on their way to its unit.
Stable(s) ==
    /\ Anchored(s)
    /\ \A t \in Tasks :
          task[t].session = s =>
             /\ Launched(task[t]) => bound[s] = task[t].begun
             /\ task[t].cmd \in Hooks \/ Launched(task[t]) => Follows(task[t])

\* The inductive invariant.
IInv ==
    /\ TypeOKSessions
    /\ \A t \in Tasks : Shape(task[t])
    /\ \A x \in Paths \ crossed : Orderly(x)
    /\ \A s \in Sessions : OneHook(s)
    /\ \A t \in Tasks : Launched(task[t]) => task[t].session \in live
    /\ \A s \in Sessions : Undisturbed(s) => Stable(s)

-----------------------------------------------------------------------------
(* One task at a time *)

\* An idle task is one.
LEMMA IdleTask ==
    /\ Idle \in Task
    /\ Idle.pc = "idle" /\ Idle.cmd = "none" /\ Shape(Idle)
  BY DEF Idle, Task, Paths, Shape, Hooks

\* What Orderly says of a path does not change with a task that is not writing
\* there.
LEMMA OrderlyKept ==
    ASSUME NEW t \in Tasks, NEW x \in Paths, Orderly(x),
           file'[x] = file[x], tmp'[x] = tmp[x],
           \A u \in Tasks : u # t => task'[u] = task[u],
           ~Writing(t)' \/ task'[t].path # x
    PROVE  Orderly(x)'
  BY DEF Orderly, Writing, At

\* A step of one process that touches no file: it goes on with what it does, on
\* the way to its unit, or is over.
LEMMA LocalStep ==
    ASSUME IInv, NEW t \in Tasks, NEW c \in Task,
           task' = [task EXCEPT ![t] = c],
           UNCHANGED <<file, tmp, env, live, bound, crossed>>,
           Shape(c), c.pc \notin {"writing", "renaming"},
           \/ c.cmd = "none"
           \/ /\ c.cmd = task[t].cmd /\ c.session = task[t].session
              /\ c.begun = task[t].begun
              /\ Anchored(c.session) /\ Follows(task[t]) => Follows(c)
    PROVE  IInv'
<1>1. task'[t] = c /\ \A u \in Tasks : u # t => task'[u] = task[u]
  BY DEF IInv, TypeOKSessions
<1>2. TypeOKSessions'
  BY DEF IInv, TypeOKSessions
<1>3. \A u \in Tasks : Shape(task'[u])
  BY <1>1 DEF IInv
<1>4. ASSUME NEW x \in Paths \ crossed
      PROVE  Orderly(x)'
  <2>1. Orderly(x) /\ ~Writing(t)'
    BY <1>1 DEF IInv, Writing
  <2>. QED
    BY <1>1, <2>1, OrderlyKept
<1>5. ASSUME NEW s \in Sessions
      PROVE  OneHook(s)'
  <2>1. OneHook(s)
    BY DEF IInv
  <2>. QED
    BY <1>1, <2>1 DEF OneHook, Hooks
<1>6. \A u \in Tasks : Launched(task'[u]) => task'[u].session \in live'
  BY <1>1 DEF IInv, Launched
<1>7. ASSUME NEW s \in Sessions, Undisturbed(s)'
      PROVE  Stable(s)'
  <2>1. Stable(s)
    BY <1>7 DEF IInv, Undisturbed
  <2>2. Anchored(s)' /\ Anchored(s)
    BY <2>1 DEF Stable, Anchored, Target
  <2>3. UNCHANGED <<env, bound>>
    OBVIOUS
  <2>4. ASSUME NEW u \in Tasks, task'[u].session = s, Launched(task'[u])
        PROVE  bound'[s] = task'[u].begun
    BY <1>1, <2>1, <2>4 DEF Stable, Launched
  <2>5. ASSUME NEW u \in Tasks, task'[u].session = s,
               task'[u].cmd \in Hooks \/ Launched(task'[u])
        PROVE  Follows(task[u])'
    <3>1. CASE u # t
      <4>1. Follows(task[u])
        BY <1>1, <2>1, <2>5, <3>1 DEF Stable, Launched
      <4>. QED
        BY <1>1, <2>3, <3>1, <4>1 DEF Follows, Target
    <3>2. CASE u = t
      <4>1. /\ c.cmd = task[t].cmd /\ c.session = task[t].session
            /\ c.begun = task[t].begun /\ c.session = s
            /\ Anchored(s) /\ Follows(task[t]) => Follows(c)
        BY <1>1, <2>5, <3>2 DEF Hooks, Launched
      <4>2. Follows(task[t])
        BY <1>1, <2>1, <2>5, <3>2, <4>1 DEF Stable, Launched
      <4>. QED
        BY <1>1, <2>2, <2>3, <3>2, <4>1, <4>2 DEF Follows, Target
    <3>. QED
      BY <3>1, <3>2
  <2>. QED
    BY <2>2, <2>4, <2>5 DEF Stable, Launched
<1>. QED
  BY <1>2, <1>3, <1>4, <1>5, <1>6, <1>7 DEF IInv

\* A process that is over.
LEMMA OverStep ==
    ASSUME IInv, NEW t \in Tasks, task' = [task EXCEPT ![t] = Idle],
           UNCHANGED <<file, tmp, env, live, bound, crossed>>
    PROVE  IInv'
  BY IdleTask, LocalStep

-----------------------------------------------------------------------------
(* Resolving a unit *)

\* The environment, the session's file, the global one.
LEMMA TestStep ==
    ASSUME IInv, NEW t \in Tasks, Test(t)
    PROVE  IInv'
<1> DEFINE s == task[t].session
           c == IF env[s] # None THEN [task[t] EXCEPT !.unit = env[s], !.pc = "resolved"]
                ELSE [task[t] EXCEPT !.pc = "probing",
                          !.path = IF file[NameOf[s]] # Absent THEN NameOf[s] ELSE Global]
<1>1. task[t] \in Task /\ Shape(task[t]) /\ task[t].pc \in {"detecting", "testing"}
  BY DEF IInv, TypeOKSessions, Test
<1>2. s \in Sessions /\ task[t].cmd \in Hooks \cup {"tool"}
  BY <1>1 DEF Shape, Saving, Task, Hooks
<1>3. NameOf[s] \in Paths /\ Global \in Paths /\ env[s] \in Units \cup {None}
  BY <1>2, SessionsAssumption DEF Paths, IInv, TypeOKSessions
<1>4. c \in Task
  BY <1>1, <1>3 DEF Task
<1>5. /\ c.cmd = task[t].cmd /\ c.session = s /\ c.begun = task[t].begun
      /\ c.pc = IF env[s] # None THEN "resolved" ELSE "probing"
      /\ env[s] # None => c.unit = env[s]
      /\ env[s] = None => c.path = IF file[NameOf[s]] # Absent THEN NameOf[s] ELSE Global
  BY <1>1 DEF Task
<1>6. c.detected = task[t].detected
  BY <1>1, Zenon DEF Task
<1>7. task' = [task EXCEPT ![t] = c] /\ UNCHANGED <<file, tmp, env, live, bound, crossed>>
  BY DEF Test
<1> HIDE DEF c
<1>8. Shape(c)
  BY <1>1, <1>2, <1>5, <1>6 DEF Shape, Resolving, Saving, Hooks
<1>9. ASSUME Anchored(s)
      PROVE  Follows(c)
  <2>1. bound[s] \in Units \cup {None}
    BY <1>2 DEF IInv, TypeOKSessions
  <2>. QED
    BY <1>5, <1>9, <2>1, ContentsDiffer DEF Follows, Anchored, Target, Saving
<1>. QED
  BY <1>4, <1>5, <1>7, <1>8, <1>9, LocalStep

\* read_pointer's own test.
LEMMA ProbeStep ==
    ASSUME IInv, NEW t \in Tasks, Probe(t)
    PROVE  IInv'
<1> DEFINE s == task[t].session
           c == IF file[task[t].path] = Absent
                THEN [task[t] EXCEPT !.path = Global, !.pc = "resolved"]
                ELSE [task[t] EXCEPT !.pc = "reading"]
<1>1. task[t] \in Task /\ Shape(task[t]) /\ task[t].pc = "probing"
  BY DEF IInv, TypeOKSessions, Probe, At
<1>2. s \in Sessions /\ task[t].cmd \in Hooks \cup {"tool"}
  BY <1>1 DEF Shape, Saving, Task, Hooks
<1>3. c \in Task
  BY <1>1 DEF Task, Paths
<1>4. /\ c.cmd = task[t].cmd /\ c.session = s /\ c.begun = task[t].begun
      /\ c.pc = IF file[task[t].path] = Absent THEN "resolved" ELSE "reading"
      /\ file[task[t].path] # Absent => c.path = task[t].path
  BY <1>1 DEF Task
<1>5. c.detected = task[t].detected
  BY <1>1, Zenon DEF Task
<1>6. task' = [task EXCEPT ![t] = c] /\ UNCHANGED <<file, tmp, env, live, bound, crossed>>
  BY DEF Probe
<1> HIDE DEF c
<1>7. Shape(c)
  BY <1>1, <1>2, <1>4, <1>5 DEF Shape, Resolving, Saving, Hooks
<1>8. ASSUME Anchored(s), Follows(task[t])
      PROVE  Follows(c)
  <2>1. bound[s] \in Units \cup {None}
    BY <1>2 DEF IInv, TypeOKSessions
  <2>. QED
    BY <1>1, <1>4, <1>8, <2>1, ContentsDiffer DEF Follows, Anchored, Target, Saving
<1>. QED
  BY <1>3, <1>4, <1>6, <1>7, <1>8, LocalStep

\* What the pointer says.
LEMMA ReadStep ==
    ASSUME IInv, NEW t \in Tasks, Read(t)
    PROVE  IInv'
<1> DEFINE s == task[t].session
           f == file[task[t].path]
           c == [task[t] EXCEPT !.unit = IF f = Empty THEN None ELSE f,
                                !.path = Global, !.pc = "resolved"]
<1>1. /\ task[t] \in Task /\ Shape(task[t]) /\ task[t].pc = "reading"
      /\ f \in Units \cup {Empty}
  BY DEF IInv, TypeOKSessions, Read, At
<1>2. s \in Sessions /\ task[t].cmd \in Hooks \cup {"tool"}
  BY <1>1 DEF Shape, Saving, Task, Hooks
<1>3. c \in Task
  BY <1>1 DEF Task, Paths
<1>4. /\ c.cmd = task[t].cmd /\ c.session = s /\ c.begun = task[t].begun
      /\ c.pc = "resolved" /\ c.unit = IF f = Empty THEN None ELSE f
  BY <1>1 DEF Task
<1>5. c.detected = task[t].detected
  BY <1>1, Zenon DEF Task
<1>6. task' = [task EXCEPT ![t] = c] /\ UNCHANGED <<file, tmp, env, live, bound, crossed>>
  <2>1. task \in [Tasks -> Task]
    BY DEF IInv, TypeOKSessions
  <2>. QED
    BY <2>1 DEF Read
<1> HIDE DEF c
<1>7. Shape(c)
  BY <1>1, <1>2, <1>4, <1>5 DEF Shape, Resolving, Saving, Hooks
<1>8. ASSUME Anchored(s), Follows(task[t])
      PROVE  Follows(c)
  <2>1. bound[s] \in Units \cup {None}
    BY <1>2 DEF IInv, TypeOKSessions
  <2>. QED
    BY <1>1, <1>4, <1>8, <2>1, ContentsDiffer DEF Follows, Anchored, Target, Saving
<1>. QED
  BY <1>3, <1>4, <1>6, <1>7, <1>8, LocalStep

\* load_context resolves again after record_switch_if_changed.
LEMMA DetectedStep ==
    ASSUME IInv, NEW t \in Tasks, Detected(t)
    PROVE  IInv'
<1> DEFINE c == [task[t] EXCEPT !.detected = TRUE, !.unit = None, !.pc = "testing"]
<1>1. /\ task \in [Tasks -> Task] /\ task[t] \in Task /\ Shape(task[t])
      /\ task[t].pc = "resolved" /\ task[t].cmd = "start"
  BY DEF IInv, TypeOKSessions, Detected, At
<1>2. c \in Task
  BY <1>1 DEF Task
<1>3. /\ c.cmd = "start" /\ c.session = task[t].session /\ c.begun = task[t].begun
      /\ c.pc = "testing"
  BY <1>1 DEF Task
<1>4. task' = [task EXCEPT ![t] = c] /\ UNCHANGED <<file, tmp, env, live, bound, crossed>>
  BY <1>1 DEF Detected
<1> HIDE DEF c
<1>5. Shape(c) /\ Follows(c)
  BY <1>1, <1>3 DEF Shape, Resolving, Saving, Hooks, Follows
<1>. QED
  BY <1>1, <1>2, <1>3, <1>4, <1>5, LocalStep

\* load_context snapshots the unit it has resolved.
LEMMA SnapshotStep ==
    ASSUME IInv, NEW t \in Tasks, Snapshot(t)
    PROVE  IInv'
<1> DEFINE s == task[t].session
           c == [task[t] EXCEPT !.path = NameOf[s], !.pc = "creating"]
<1>1. /\ task \in [Tasks -> Task] /\ task[t] \in Task /\ Shape(task[t])
      /\ task[t].pc = "resolved" /\ task[t].unit # None
  BY DEF IInv, TypeOKSessions, Snapshot, At
<1>2. task[t].detected
  BY DEF Snapshot
<1>3. s \in Sessions /\ task[t].cmd \in Hooks
  BY <1>1, <1>2 DEF Shape, Saving, Task, Hooks
<1>4. NameOf[s] \in Paths
  BY <1>3, SessionsAssumption DEF Paths
<1>5. c \in Task
  BY <1>1, <1>4 DEF Task
<1>6. /\ c.cmd = task[t].cmd /\ c.session = s /\ c.begun = task[t].begun
      /\ c.pc = "creating" /\ c.path = NameOf[s] /\ c.unit = task[t].unit
  BY <1>1 DEF Task
<1>7. task' = [task EXCEPT ![t] = c] /\ UNCHANGED <<file, tmp, env, live, bound, crossed>>
  BY <1>1 DEF Snapshot
<1> HIDE DEF c
<1>8. c.unit \in Units
  BY <1>1, <1>6 DEF Task
<1>9. Shape(c) /\ (Follows(task[t]) => Follows(c))
  BY <1>1, <1>3, <1>6, <1>8 DEF Shape, Resolving, Saving, Hooks, Follows
<1>. QED
  BY <1>5, <1>6, <1>7, <1>9, LocalStep

-----------------------------------------------------------------------------
(* Starting a process *)

\* A process that is launched while its session, if it has one, runs.
LEMMA LaunchStep ==
    ASSUME IInv, NEW t \in Tasks, NEW c \in Task, At(t, "idle"),
           task' = [task EXCEPT ![t] = c],
           UNCHANGED <<file, tmp, env, live, bound, crossed>>,
           Shape(c), c.cmd \in {"refresh", "tool", "use"},
           c.pc = IF c.cmd = "use" THEN "creating" ELSE "testing",
           c.cmd = "refresh" => c.session \in live /\ ~Busy(c.session),
           c.cmd = "tool" => c.session \in live /\ c.begun = bound[c.session]
    PROVE  IInv'
<1>1. task'[t] = c /\ \A u \in Tasks : u # t => task'[u] = task[u]
  BY DEF IInv, TypeOKSessions
<1>2. TypeOKSessions'
  BY DEF IInv, TypeOKSessions
<1>3. \A u \in Tasks : Shape(task'[u])
  BY <1>1 DEF IInv
<1>4. ASSUME NEW x \in Paths \ crossed
      PROVE  Orderly(x)'
  <2>1. Orderly(x) /\ ~Writing(t)'
    BY <1>1 DEF IInv, Writing
  <2>. QED
    BY <1>1, <2>1, OrderlyKept
<1>5. ASSUME NEW s \in Sessions
      PROVE  OneHook(s)'
  <2>1. OneHook(s)
    BY DEF IInv
  <2>2. CASE c.cmd = "refresh" /\ c.session = s
    BY <1>1, <2>1, <2>2 DEF OneHook, Hooks, Busy
  <2>3. CASE ~(c.cmd = "refresh" /\ c.session = s)
    BY <1>1, <2>1, <2>3 DEF OneHook, Hooks
  <2>. QED
    BY <2>2, <2>3
<1>6. \A u \in Tasks : Launched(task'[u]) => task'[u].session \in live'
  BY <1>1 DEF IInv, Launched
<1>7. ASSUME NEW s \in Sessions, Undisturbed(s)'
      PROVE  Stable(s)'
  <2>1. Stable(s)
    BY <1>7 DEF IInv, Undisturbed
  <2>2. Anchored(s)'
    BY <2>1 DEF Stable, Anchored, Target
  <2>3. ASSUME NEW u \in Tasks, task'[u].session = s, Launched(task'[u])
        PROVE  bound'[s] = task'[u].begun
    BY <1>1, <2>1, <2>3 DEF Stable, Launched
  <2>4. ASSUME NEW u \in Tasks, task'[u].session = s,
               task'[u].cmd \in Hooks \/ Launched(task'[u])
        PROVE  Follows(task[u])'
    <3>1. CASE u # t
      <4>1. Follows(task[u])
        BY <1>1, <2>1, <2>4, <3>1 DEF Stable, Launched
      <4>. QED
        BY <1>1, <3>1, <4>1 DEF Follows, Target
    <3>2. CASE u = t
      <4>1. task'[u].pc = "testing"
        BY <1>1, <2>4, <3>2 DEF Hooks, Launched
      <4>. QED
        BY <4>1 DEF Follows, Saving
    <3>. QED
      BY <3>1, <3>2
  <2>. QED
    BY <2>2, <2>3, <2>4 DEF Stable, Launched
<1>. QED
  BY <1>2, <1>3, <1>4, <1>5, <1>6, <1>7 DEF IInv

\* UserPromptSubmit.
LEMMA PromptStep ==
    ASSUME IInv, NEW t \in Tasks, NEW s \in Sessions, Prompt(t, s)
    PROVE  IInv'
<1> DEFINE c == [Idle EXCEPT !.cmd = "refresh", !.session = s, !.detected = TRUE,
                             !.pc = "testing"]
<1>1. c \in Task /\ c.cmd = "refresh" /\ c.session = s /\ c.pc = "testing"
  BY DEF Idle, Task, Paths
<1>2. task' = [task EXCEPT ![t] = c]
  BY DEF Prompt
<1> HIDE DEF c
<1>3. Shape(c)
  BY <1>1 DEF Shape, Hooks, Resolving, Saving
<1>. QED
  BY <1>1, <1>2, <1>3, LaunchStep DEF Prompt

\* PostToolUse and its like.
LEMMA ToolUseStep ==
    ASSUME IInv, NEW t \in Tasks, NEW s \in Sessions, ToolUse(t, s)
    PROVE  IInv'
<1> DEFINE c == [Idle EXCEPT !.cmd = "tool", !.session = s, !.pc = "testing",
                             !.begun = bound[s]]
<1>1. bound[s] \in Units \cup {None}
  BY DEF IInv, TypeOKSessions
<1>2. /\ c \in Task /\ c.cmd = "tool" /\ c.session = s /\ c.pc = "testing"
      /\ c.begun = bound[s]
  BY <1>1 DEF Idle, Task, Paths
<1>3. ~c.detected
  BY DEF Idle
<1>4. task' = [task EXCEPT ![t] = c]
  BY DEF ToolUse
<1> HIDE DEF c
<1>5. Shape(c)
  BY <1>2, <1>3 DEF Shape, Hooks, Resolving, Saving
<1>. QED
  BY <1>2, <1>4, <1>5, LaunchStep DEF ToolUse

\* knotch unit use.
LEMMA UnitUseStep ==
    ASSUME IInv, NEW t \in Tasks, NEW u \in Units, UnitUse(t, u)
    PROVE  IInv'
<1> DEFINE c == [Idle EXCEPT !.cmd = "use", !.unit = u, !.pc = "creating"]
<1>1. /\ c \in Task /\ c.cmd = "use" /\ c.session = None /\ c.pc = "creating"
      /\ c.unit = u /\ c.path = Global
  BY DEF Idle, Task, Paths
<1>2. task' = [task EXCEPT ![t] = c]
  BY DEF UnitUse
<1> HIDE DEF c
<1>3. Shape(c)
  BY <1>1 DEF Shape, Hooks, Resolving, Saving
<1>. QED
  BY <1>1, <1>2, <1>3, LaunchStep DEF UnitUse

\* SessionStart: nothing of an earlier life of the session is on its way.
LEMMA SessionStartStep ==
    ASSUME IInv, NEW t \in Tasks, NEW s \in Sessions, SessionStart(t, s)
    PROVE  IInv'
<1>1. PICK e \in Envs, model \in BOOLEAN :
         /\ env' = [env EXCEPT ![s] = e]
         /\ task' = [task EXCEPT ![t] =
                [Idle EXCEPT !.cmd = "start", !.session = s, !.detected = ~model,
                             !.pc = IF model THEN "detecting" ELSE "testing"]]
  BY DEF SessionStart
<1> DEFINE c == [Idle EXCEPT !.cmd = "start", !.session = s, !.detected = ~model,
                             !.pc = IF model THEN "detecting" ELSE "testing"]
<1>2. c \in Task /\ c.cmd = "start" /\ c.session = s /\ c.pc \in {"detecting", "testing"}
  BY DEF Idle, Task, Paths
<1>3. task' = [task EXCEPT ![t] = c]
  BY <1>1
<1> HIDE DEF c
<1>4. /\ s \notin live /\ live' = live \cup {s}
      /\ UNCHANGED <<file, tmp, bound, crossed>>
  BY DEF SessionStart
<1>5. task'[t] = c /\ \A u \in Tasks : u # t => task'[u] = task[u]
  BY <1>3 DEF IInv, TypeOKSessions
<1>6. \A r \in Sessions : r # s => env'[r] = env[r]
  BY <1>1 DEF IInv, TypeOKSessions
<1>7. Shape(c)
  BY <1>2 DEF Shape, Hooks, Resolving, Saving
<1>8. TypeOKSessions'
  BY <1>1, <1>2, <1>3, <1>4 DEF IInv, TypeOKSessions
<1>9. \A u \in Tasks : Shape(task'[u])
  BY <1>5, <1>7 DEF IInv
<1>10. ASSUME NEW x \in Paths \ crossed
       PROVE  Orderly(x)'
  <2>1. Orderly(x) /\ ~Writing(t)'
    BY <1>2, <1>5 DEF IInv, Writing
  <2>. QED
    BY <1>4, <1>5, <2>1, OrderlyKept
<1>11. bound[s] = None /\ \A u \in Tasks : task[u].session = s => task[u].cmd \notin Hooks
  BY <1>4 DEF IInv, OneHook
<1>12. ASSUME NEW r \in Sessions
       PROVE  OneHook(r)'
  <2>1. OneHook(r)
    BY DEF IInv
  <2>2. CASE r = s
    BY <1>2, <1>4, <1>5, <1>11, <2>2 DEF OneHook, Hooks
  <2>3. CASE r # s
    BY <1>2, <1>4, <1>5, <2>1, <2>3 DEF OneHook, Hooks
  <2>. QED
    BY <2>2, <2>3
<1>13. \A u \in Tasks : Launched(task'[u]) => task'[u].session \in live'
  BY <1>2, <1>4, <1>5 DEF IInv, Launched
<1>14. ASSUME NEW r \in Sessions, Undisturbed(r)'
       PROVE  Stable(r)'
  <2>1. Stable(r)
    BY <1>4, <1>14 DEF IInv, Undisturbed
  <2>2. CASE r = s
    <3>1. ASSUME NEW u \in Tasks, task'[u].session = s
          PROVE  ~Launched(task'[u]) /\ (task'[u].cmd \in Hooks => u = t)
      BY <1>2, <1>4, <1>5, <1>11, <3>1 DEF IInv, Launched
    <3>2. Follows(task[t])'
      BY <1>2, <1>5 DEF Follows, Saving
    <3>3. Anchored(s)'
      BY <1>4, <1>11 DEF Anchored
    <3>. QED
      BY <2>2, <3>1, <3>2, <3>3 DEF Stable, Launched
  <2>3. CASE r # s
    <3>1. Anchored(r)'
      BY <1>4, <1>6, <2>1, <2>3 DEF Stable, Anchored, Target
    <3>2. ASSUME NEW u \in Tasks, task'[u].session = r
          PROVE  task'[u] = task[u] /\ (Follows(task[u]) => Follows(task[u])')
      <4>1. u # t
        BY <1>2, <1>5, <2>3, <3>2
      <4>. QED
        BY <1>4, <1>5, <1>6, <2>3, <3>2, <4>1 DEF Follows, Target
    <3>. QED
      BY <1>4, <2>1, <3>1, <3>2 DEF Stable, Launched
  <2>. QED
    BY <2>2, <2>3
<1>. QED
  BY <1>4, <1>8, <1>9, <1>10, <1>12, <1>13, <1>14 DEF IInv

\* SessionEnd: the pointer goes, or stays for the session to resume.
LEMMA SessionEndStep ==
    ASSUME IInv, NEW s \in Sessions, SessionEnd(s)
    PROVE  IInv'
<1> DEFINE ended(u) == [task[u] EXCEPT !.begun = None]
<1>1. /\ live' = live \ {s} /\ UNCHANGED <<tmp, env, crossed>>
      /\ bound' = [bound EXCEPT ![s] = None]
      /\ file' \in {file, [file EXCEPT ![NameOf[s]] = Absent]}
      /\ \A u \in Tasks : task[u].session = s => task[u].cmd \notin Hooks
      /\ NameOf[s] \in Paths
  BY SessionsAssumption DEF SessionEnd, Busy, Hooks, Paths
<1>2. /\ DOMAIN task' = Tasks
      /\ \A u \in Tasks : task'[u] = IF task[u].session = s THEN ended(u) ELSE task[u]
      /\ task' = [u \in Tasks |-> task'[u]]
  BY DEF SessionEnd
<1>3. ASSUME NEW u \in Tasks
      PROVE  /\ ended(u) \in Task /\ ended(u).pc = task[u].pc /\ ended(u).cmd = task[u].cmd
             /\ ended(u).session = task[u].session /\ ended(u).path = task[u].path
             /\ ended(u).unit = task[u].unit /\ ended(u).fd = task[u].fd
             /\ ended(u).begun = None
  <2>1. task[u] \in Task
    BY DEF IInv, TypeOKSessions
  <2>. QED
    BY <2>1 DEF Task
<1>4. ASSUME NEW u \in Tasks
      PROVE  ended(u).detected = task[u].detected
  <2>1. task[u] \in Task
    BY DEF IInv, TypeOKSessions
  <2>. QED
    BY <2>1, Zenon DEF Task
<1> HIDE DEF ended
<1>5. \A u \in Tasks :
         /\ task'[u].pc = task[u].pc /\ task'[u].cmd = task[u].cmd
         /\ task'[u].session = task[u].session /\ task'[u].path = task[u].path
         /\ task'[u].unit = task[u].unit /\ task'[u].fd = task[u].fd
         /\ task'[u].begun = IF task[u].session = s THEN None ELSE task[u].begun
  BY <1>2, <1>3
<1>6. TypeOKSessions'
  <2>1. task' \in [Tasks -> Task]
    BY <1>2, <1>3 DEF IInv, TypeOKSessions
  <2>. QED
    BY <1>1, <2>1 DEF IInv, TypeOKSessions
<1>7. ASSUME NEW u \in Tasks
      PROVE  Shape(task'[u])
  <2>1. Shape(task[u])
    BY DEF IInv
  <2>2. task'[u].detected = task[u].detected
    BY <1>2, <1>4, Zenon
  <2>. QED
    BY <1>5, <2>1, <2>2 DEF Shape
<1>8. ASSUME NEW x \in Paths \ crossed
      PROVE  Orderly(x)'
  <2>1. Orderly(x) /\ file'[x] \in {file[x], Absent} /\ tmp' = tmp
    BY <1>1 DEF IInv, TypeOKSessions
  <2>. QED
    BY <1>5, <2>1 DEF Orderly, Writing, At
<1>9. \A r \in Sessions : r # s => bound'[r] = bound[r]
  BY <1>1 DEF IInv, TypeOKSessions
<1>10. bound'[s] = None
  BY <1>1 DEF IInv, TypeOKSessions
<1>11. ASSUME NEW r \in Sessions
       PROVE  OneHook(r)'
  <2>1. OneHook(r)
    BY DEF IInv
  <2>2. CASE r = s
    BY <1>1, <1>5, <1>10, <2>2 DEF OneHook
  <2>3. CASE r # s
    BY <1>1, <1>5, <1>9, <2>1, <2>3 DEF OneHook
  <2>. QED
    BY <2>2, <2>3
<1>12. \A u \in Tasks : Launched(task'[u]) => task'[u].session \in live'
  BY <1>1, <1>5 DEF IInv, Launched
<1>13. ASSUME NEW r \in Sessions, Undisturbed(r)'
       PROVE  Stable(r)'
  <2>1. Stable(r)
    BY <1>1, <1>13 DEF IInv, Undisturbed
  <2>2. CASE r = s
    <3>1. Anchored(s)'
      BY <1>10 DEF Anchored
    <3>2. \A u \in Tasks : task'[u].session = s =>
             task'[u].cmd \notin Hooks /\ ~Launched(task'[u])
      BY <1>1, <1>5 DEF Launched
    <3>. QED
      BY <2>2, <3>1, <3>2 DEF Stable, Launched
  <2>3. CASE r # s
    <3>1. file'[NameOf[r]] = file[NameOf[r]]
      <4>1. NameOf[r] # NameOf[s] /\ NameOf[r] \in Paths
        BY <1>13, <2>3, SessionsAssumption DEF Undisturbed, Paths
      <4>. QED
        BY <1>1, <4>1 DEF IInv, TypeOKSessions
    <3>2. Anchored(r)'
      BY <1>1, <1>9, <2>1, <2>3, <3>1 DEF Stable, Anchored, Target
    <3>3. ASSUME NEW u \in Tasks, task'[u].session = r
          PROVE  task'[u] = task[u] /\ (Follows(task[u]) => Follows(task[u])')
      BY <1>1, <1>2, <1>5, <1>9, <2>3, <3>3 DEF Follows, Target
    <3>. QED
      BY <1>9, <2>1, <2>3, <3>2, <3>3 DEF Stable, Launched
  <2>. QED
    BY <2>2, <2>3
<1>. QED
  BY <1>1, <1>6, <1>7, <1>8, <1>11, <1>12, <1>13 DEF IInv

-----------------------------------------------------------------------------
(* Saving a pointer *)

\* A saver is at the pointer its kind of process saves to.
LEMMA SaverFacts ==
    ASSUME IInv, NEW t \in Tasks, task[t].pc \in Saving
    PROVE  /\ task[t] \in Task /\ task[t].path \in Paths /\ task[t].unit \in Units
           /\ \/ task[t].cmd = "use" /\ task[t].session = None /\ task[t].path = Global
              \/ /\ task[t].cmd \in Hooks /\ task[t].session \in Sessions
                 /\ task[t].path = NameOf[task[t].session]
<1>1. task[t] \in Task /\ Shape(task[t])
  BY DEF IInv, TypeOKSessions
<1>2. task[t].cmd \in Hooks \cup {"use"}
  BY <1>1 DEF Shape, Task, Saving, Resolving, Hooks
<1>. QED
  BY <1>1, <1>2 DEF Shape, Task, Hooks

\* A step of a saver on its way, which changes nothing that is not crossed for
\* the sessions' readers.
LEMMA SavingStep ==
    ASSUME IInv, NEW t \in Tasks, NEW c \in Task, task' = [task EXCEPT ![t] = c],
           task[t].pc \in Saving, c.pc \in Saving,
           c.cmd = task[t].cmd, c.session = task[t].session, c.begun = task[t].begun,
           c.path = task[t].path, c.unit = task[t].unit,
           UNCHANGED <<env, live, bound>>, crossed \subseteq crossed',
           \A x \in Paths \ crossed' : file'[x] = file[x]
    PROVE  /\ \A u \in Tasks : Shape(task'[u])
           /\ \A s \in Sessions : OneHook(s)'
           /\ \A u \in Tasks : Launched(task'[u]) => task'[u].session \in live'
           /\ \A s \in Sessions : Undisturbed(s)' => Stable(s)'
<1>1. task'[t] = c /\ \A u \in Tasks : u # t => task'[u] = task[u]
  BY DEF IInv, TypeOKSessions
<1>2. Shape(c)
  <2>1. Shape(task[t]) /\ task[t].cmd \in Hooks \cup {"use"}
    BY SaverFacts DEF IInv
  <2>. QED
    BY <2>1 DEF Shape, Hooks
<1>3. \A u \in Tasks : Shape(task'[u])
  BY <1>1, <1>2 DEF IInv
<1>4. ASSUME NEW s \in Sessions
      PROVE  OneHook(s)'
  <2>1. OneHook(s)
    BY DEF IInv
  <2>. QED
    BY <1>1, <2>1 DEF OneHook, Hooks
<1>5. \A u \in Tasks : Launched(task'[u]) => task'[u].session \in live'
  BY <1>1 DEF IInv, Launched
<1>6. ASSUME NEW s \in Sessions, Undisturbed(s)'
      PROVE  Stable(s)'
  <2>1. Stable(s)
    BY <1>6 DEF IInv, Undisturbed
  <2>2. file'[NameOf[s]] = file[NameOf[s]]
    BY <1>6, SessionsAssumption DEF Undisturbed, Paths
  <2>3. Anchored(s)'
    BY <2>1, <2>2 DEF Stable, Anchored, Target
  <2>4. ASSUME NEW u \in Tasks, task'[u].session = s
        PROVE  /\ task'[u].cmd = task[u].cmd /\ task'[u].begun = task[u].begun
               /\ task[u].session = s /\ (Follows(task[u]) => Follows(task[u])')
    <3>1. CASE u # t
      BY <1>1, <2>4, <3>1 DEF Follows, Target
    <3>2. CASE u = t
      BY <1>1, <2>4, <3>2 DEF Follows, Target, Saving
    <3>. QED
      BY <3>1, <3>2
  <2>. QED
    BY <2>1, <2>3, <2>4 DEF Stable, Launched
<1>. QED
  BY <1>3, <1>4, <1>5, <1>6

\* File::create.
LEMMA CreateStep ==
    ASSUME IInv, NEW t \in Tasks, Create(t)
    PROVE  IInv'
<1> DEFINE x == task[t].path
           c == [task[t] EXCEPT !.fd = "tmp", !.pc = "writing"]
<1>1. task[t].pc = "creating" /\ task \in [Tasks -> Task]
  BY DEF Create, At, IInv, TypeOKSessions
<1>2. /\ task[t] \in Task /\ x \in Paths
  BY <1>1, SaverFacts DEF Saving
<1>3. /\ tmp' = [tmp EXCEPT ![x] = Empty]
      /\ crossed' = IF \E u \in Tasks \ {t} : task[u].path = x /\ Writing(u)
                    THEN crossed \cup {x} ELSE crossed
      /\ UNCHANGED <<file, env, live, bound>>
  BY DEF Create
<1>4. /\ c \in Task /\ c.pc = "writing" /\ c.fd = "tmp"
      /\ c.cmd = task[t].cmd /\ c.session = task[t].session /\ c.begun = task[t].begun
      /\ c.path = x /\ c.unit = task[t].unit
  BY <1>2 DEF Task
<1>5. task' = [task EXCEPT ![t] = c]
  BY <1>1 DEF Create
<1> HIDE DEF c
<1>6. task'[t] = c /\ \A u \in Tasks : u # t => task'[u] = task[u]
  BY <1>1, <1>5
<1>7. crossed \subseteq crossed' /\ crossed' \subseteq Paths
  BY <1>2, <1>3 DEF IInv, TypeOKSessions
<1>8. TypeOKSessions'
  BY <1>2, <1>3, <1>4, <1>5, <1>7 DEF IInv, TypeOKSessions, Content
<1>9. ASSUME NEW y \in Paths \ crossed'
      PROVE  Orderly(y)'
  <2>1. Orderly(y)
    BY <1>7 DEF IInv
  <2>2. CASE y = x
    <3>1. \A u \in Tasks \ {t} : ~(task[u].path = x /\ Writing(u))
      BY <1>3, <2>2
    <3>2. tmp'[x] = Empty
      BY <1>2, <1>3 DEF IInv, TypeOKSessions
    <3>3. \A u \in Tasks : task'[u].path = x /\ Writing(u)' => u = t
      BY <1>6, <3>1 DEF Writing
    <3>. QED
      BY <1>3, <1>4, <1>6, <2>1, <2>2, <3>2, <3>3 DEF Orderly, Writing, At
  <2>3. CASE y # x
    <3>1. tmp'[y] = tmp[y] /\ task'[t].path # y
      BY <1>3, <1>4, <1>6, <2>3 DEF IInv, TypeOKSessions
    <3>. QED
      BY <1>3, <1>6, <2>1, <3>1, OrderlyKept
  <2>. QED
    BY <2>2, <2>3
<1>10. task[t].pc \in Saving /\ c.pc \in Saving
  BY <1>1, <1>4 DEF Saving
<1>. QED
  BY <1>3, <1>4, <1>5, <1>7, <1>8, <1>9, <1>10, SavingStep DEF IInv

\* write_all: where the writers of a path have not met, it goes to the writer's
\* own temporary file.
LEMMA WriteStep ==
    ASSUME IInv, NEW t \in Tasks, Write(t)
    PROVE  IInv'
<1> DEFINE x == task[t].path
           w == task[t].unit
           c == [task[t] EXCEPT !.pc = "renaming", !.fd = "closed"]
<1>1. task[t].pc = "writing" /\ task \in [Tasks -> Task]
  BY DEF Write, At, IInv, TypeOKSessions
<1>2. task[t] \in Task /\ x \in Paths /\ w \in Units
  BY <1>1, SaverFacts DEF Saving
<1>3. UNCHANGED <<env, live, bound, crossed>>
  BY DEF Write
<1>4. \/ /\ task[t].fd = "tmp" /\ file' = file
         /\ \E v \in Overlaid(tmp[x], w) : tmp' = [tmp EXCEPT ![x] = v]
      \/ /\ task[t].fd = "file" /\ tmp' = tmp
         /\ \E v \in Overlaid(file[x], w) : file' = [file EXCEPT ![x] = v]
      \/ task[t].fd = "lost" /\ file' = file /\ tmp' = tmp
  BY DEF Write
<1>5. /\ c \in Task /\ c.pc = "renaming"
      /\ c.cmd = task[t].cmd /\ c.session = task[t].session /\ c.begun = task[t].begun
      /\ c.path = x /\ c.unit = w
  BY <1>2 DEF Task
<1>6. task' = [task EXCEPT ![t] = c]
  BY <1>1 DEF Write
<1> HIDE DEF c
<1>7. task'[t] = c /\ \A u \in Tasks : u # t => task'[u] = task[u]
  BY <1>1, <1>6
<1>8. TypeOKSessions'
  <2>1. \A old : Overlaid(old, w) \subseteq Content \cup {Absent}
    BY <1>2 DEF Overlaid, Content
  <2>2. /\ file' \in [Paths -> Content \cup {Absent}]
        /\ tmp' \in [Paths -> Content \cup {Absent}]
    BY <1>2, <1>4, <2>1 DEF IInv, TypeOKSessions
  <2>. QED
    BY <1>3, <1>5, <1>6, <2>2 DEF IInv, TypeOKSessions
<1>9. ASSUME x \notin crossed
      PROVE  file' = file /\ tmp' = [tmp EXCEPT ![x] = w]
  <2>1. task[t].fd = "tmp" /\ tmp[x] = Empty
    BY <1>1, <1>2, <1>9 DEF IInv, Orderly, At
  <2>2. Overlaid(tmp[x], w) = {w}
    BY <2>1 DEF Overlaid
  <2>. QED
    BY <1>4, <2>1, <2>2
<1>10. /\ \A y \in Paths \ crossed : file'[y] = file[y]
       /\ \A y \in Paths \ crossed : y # x => tmp'[y] = tmp[y]
  BY <1>4, <1>9 DEF IInv, TypeOKSessions
<1>11. ASSUME NEW y \in Paths \ crossed'
       PROVE  Orderly(y)'
  <2>1. Orderly(y) /\ y \notin crossed
    BY <1>3 DEF IInv
  <2>2. CASE y = x
    <3>1. tmp'[x] = w
      BY <1>2, <1>9, <2>1, <2>2 DEF IInv, TypeOKSessions
    <3>2. \A u \in Tasks : u # t => ~(task'[u].path = x /\ Writing(u)')
      BY <1>1, <1>7, <2>1, <2>2 DEF Orderly, Writing
    <3>. QED
      BY <1>5, <1>7, <1>10, <2>1, <2>2, <3>1, <3>2 DEF Orderly, Writing, At
  <2>3. CASE y # x
    BY <1>5, <1>7, <1>10, <2>1, <2>3, OrderlyKept
  <2>. QED
    BY <2>2, <2>3
<1>12. task[t].pc \in Saving /\ c.pc \in Saving
  BY <1>1, <1>5 DEF Saving
<1>. QED
  BY <1>3, <1>5, <1>6, <1>8, <1>10, <1>11, <1>12, SavingStep DEF IInv

\* rename: the pointer is the unit the process has written, unless writers met;
\* a hook's session is bound to its unit.
LEMMA RenameStep ==
    ASSUME IInv, NEW t \in Tasks, Rename(t)
    PROVE  IInv'
<1> DEFINE x == task[t].path
           s == task[t].session
           w == task[t].unit
           moved(u) == [task[u] EXCEPT !.fd = Moved(@)]
<1>1. task[t].pc = "renaming" /\ task \in [Tasks -> Task]
  BY DEF Rename, At, IInv, TypeOKSessions
<1>2. /\ task[t] \in Task /\ x \in Paths /\ w \in Units
      /\ \/ task[t].cmd = "use" /\ s = None /\ x = Global
         \/ task[t].cmd \in Hooks /\ s \in Sessions /\ x = NameOf[s]
  BY <1>1, SaverFacts DEF Saving
<1>3. /\ file' = [file EXCEPT ![x] = tmp[x]]
      /\ tmp' = [tmp EXCEPT ![x] = Absent]
      /\ bound' = IF s = None THEN bound ELSE [bound EXCEPT ![s] = w]
      /\ UNCHANGED <<env, live, crossed>>
  BY DEF Rename
<1>4. /\ task' = [u \in Tasks |-> task'[u]] /\ task'[t] = Idle
      /\ \A u \in Tasks : u # t =>
            task'[u] = IF task[u].path = x THEN moved(u) ELSE task[u]
  BY DEF Rename
<1>5. ASSUME NEW u \in Tasks
      PROVE  /\ moved(u) \in Task /\ moved(u).pc = task[u].pc /\ moved(u).cmd = task[u].cmd
             /\ moved(u).session = task[u].session /\ moved(u).path = task[u].path
             /\ moved(u).unit = task[u].unit /\ moved(u).begun = task[u].begun
  <2>1. task[u] \in Task
    BY <1>1
  <2>2. Moved(task[u].fd) \in {"closed", "tmp", "file", "lost"}
    BY <2>1 DEF Moved, Task
  <2>. QED
    BY <2>1, <2>2 DEF Task
<1>6. ASSUME NEW u \in Tasks
      PROVE  moved(u).detected = task[u].detected
  <2>1. task[u] \in Task
    BY <1>1
  <2>. QED
    BY <2>1, Zenon DEF Task
<1> HIDE DEF moved
<1>7. \A u \in Tasks : u # t =>
         /\ task'[u].pc = task[u].pc /\ task'[u].cmd = task[u].cmd
         /\ task'[u].session = task[u].session /\ task'[u].path = task[u].path
         /\ task'[u].unit = task[u].unit /\ task'[u].begun = task[u].begun
         /\ task[u].path # x => task'[u] = task[u]
  BY <1>4, <1>5
<1>8. task'[t].pc = "idle" /\ task'[t].cmd = "none" /\ Shape(task'[t]) /\ Idle \in Task
  BY <1>4, IdleTask
<1>9. TypeOKSessions'
  <2>1. task' \in [Tasks -> Task]
    BY <1>1, <1>4, <1>5, <1>8
  <2>2. bound' \in [Sessions -> Units \cup {None}]
    BY <1>2, <1>3 DEF IInv, TypeOKSessions
  <2>3. /\ file' \in [Paths -> Content \cup {Absent}]
        /\ tmp' \in [Paths -> Content \cup {Absent}]
    BY <1>2, <1>3 DEF IInv, TypeOKSessions
  <2>. QED
    BY <1>3, <2>1, <2>2, <2>3 DEF IInv, TypeOKSessions
<1>10. ASSUME NEW u \in Tasks
       PROVE  Shape(task'[u])
  <2>1. CASE u = t
    BY <1>8, <2>1
  <2>2. CASE u # t
    <3>1. Shape(task[u])
      BY DEF IInv
    <3>2. task'[u].detected = task[u].detected
      BY <1>4, <1>6, <2>2, Zenon
    <3>. QED
      BY <1>7, <2>2, <3>1, <3>2 DEF Shape
  <2>. QED
    BY <2>1, <2>2
<1>11. ASSUME x \notin crossed
       PROVE  tmp[x] = w /\ file'[x] = w
  <2>1. tmp[x] = w
    BY <1>1, <1>2, <1>11 DEF IInv, Orderly, At
  <2>. QED
    BY <1>2, <1>3, <2>1 DEF IInv, TypeOKSessions
<1>12. \A y \in Paths : y # x => file'[y] = file[y] /\ tmp'[y] = tmp[y]
  BY <1>3 DEF IInv, TypeOKSessions
<1>13. ASSUME NEW y \in Paths \ crossed'
       PROVE  Orderly(y)'
  <2>1. Orderly(y) /\ y \notin crossed
    BY <1>3 DEF IInv
  <2>2. CASE y = x
    <3>1. \A u \in Tasks : task'[u].path = x => ~Writing(u)'
      BY <1>1, <1>7, <1>8, <2>1, <2>2 DEF Orderly, Writing
    <3>. QED
      BY <1>2, <1>11, <2>1, <2>2, <3>1 DEF Orderly, Writing, At
  <2>3. CASE y # x
    <3>1. \A u \in Tasks : task'[u].path = y /\ u # t => task'[u] = task[u]
      BY <1>7, <2>3
    <3>. QED
      BY <1>7, <1>8, <1>12, <2>1, <2>3, <3>1 DEF Orderly, Writing, At
  <2>. QED
    BY <2>2, <2>3
<1>14. \A r \in Sessions : bound'[r] = IF r = s THEN w ELSE bound[r]
  BY <1>2, <1>3, SessionsAssumption DEF IInv, TypeOKSessions
<1>15. ASSUME NEW r \in Sessions
       PROVE  OneHook(r)'
  <2>1. OneHook(r)
    BY DEF IInv
  <2>2. CASE r = s
    <3>1. r \in live /\ \A u \in Tasks : task[u].session = r /\ task[u].cmd \in Hooks => t = u
      BY <1>2, <2>1, <2>2, SessionsAssumption DEF OneHook
    <3>2. \A u \in Tasks : task'[u].session = r => task'[u].cmd \notin Hooks
      BY <1>7, <1>8, <3>1 DEF Hooks
    <3>. QED
      BY <1>3, <3>1, <3>2 DEF OneHook
  <2>3. CASE r # s
    BY <1>3, <1>7, <1>8, <1>14, <2>1, <2>3 DEF OneHook, Hooks
  <2>. QED
    BY <2>2, <2>3
<1>16. \A u \in Tasks : Launched(task'[u]) => task'[u].session \in live'
  BY <1>3, <1>7, <1>8 DEF IInv, Launched
<1>17. ASSUME NEW r \in Sessions, Undisturbed(r)'
       PROVE  Stable(r)'
  <2>1. Stable(r) /\ OneHook(r) /\ Undisturbed(r)
    BY <1>3, <1>17 DEF IInv, Undisturbed
  <2>2. CASE r = s
    <3>1. task[t].cmd \in Hooks /\ x = NameOf[r] /\ x \notin crossed
      BY <1>2, <2>1, <2>2, SessionsAssumption DEF Undisturbed
    <3>2. Follows(task[t])
      BY <2>1, <2>2, <3>1 DEF Stable
    <3>3. Target(r) # None => w = Target(r)
      BY <1>1, <2>2, <3>2 DEF Follows, Saving
    <3>4. Target(r)' = w
      BY <1>3, <1>14, <2>2, <3>3 DEF Target
    <3>5. Anchored(r)'
      BY <1>11, <1>14, <2>2, <3>1, <3>4 DEF Anchored
    <3>6. ASSUME NEW u \in Tasks, task'[u].session = r,
                 task'[u].cmd \in Hooks \/ Launched(task'[u])
          PROVE  Launched(task'[u]) /\ bound'[r] = task'[u].begun /\ Follows(task[u])'
      <4>1. u # t /\ task[u].session = r
        BY <1>7, <1>8, <3>6 DEF Launched, Hooks
      <4>2. task[u].cmd \notin Hooks
        BY <2>1, <2>2, <3>1, <4>1 DEF OneHook
      <4>3. Launched(task[u]) /\ Launched(task'[u])
        BY <1>7, <3>6, <4>1, <4>2 DEF Launched
      <4>4. bound[r] = task[u].begun /\ bound[r] # None /\ Follows(task[u])
        BY <2>1, <4>1, <4>3 DEF Stable, Launched
      <4>5. Target(r) = bound[r]
        BY <2>1, <4>4 DEF Stable, Anchored
      <4>6. w = bound[r] /\ Target(r)' = Target(r)
        BY <3>3, <3>4, <4>4, <4>5
      <4>7. Follows(task[u])'
        BY <1>3, <1>7, <4>1, <4>4, <4>6 DEF Follows
      <4>. QED
        BY <1>7, <1>14, <2>2, <4>1, <4>3, <4>4, <4>6, <4>7
    <3>. QED
      BY <3>5, <3>6 DEF Stable, Launched
  <2>3. CASE r # s
    <3>1. NameOf[r] \in Paths /\ NameOf[r] # x
      BY <1>2, <1>17, <2>3, SessionsAssumption, GlobalIsNoSession DEF Undisturbed, Paths
    <3>2. Anchored(r)'
      BY <1>3, <1>12, <1>14, <2>1, <2>3, <3>1 DEF Stable, Anchored, Target
    <3>3. ASSUME NEW u \in Tasks, task'[u].session = r,
                 task'[u].cmd \in Hooks \/ Launched(task'[u])
          PROVE  /\ Launched(task'[u]) => bound'[r] = task'[u].begun
                 /\ Follows(task[u])'
      <4>1. u # t /\ task[u].session = r
        BY <1>7, <1>8, <3>3 DEF Launched, Hooks
      <4>2. /\ Launched(task[u]) => bound[r] = task[u].begun
            /\ Follows(task[u])
        BY <1>7, <2>1, <3>3, <4>1 DEF Stable, Launched
      <4>3. Target(r)' = Target(r)
        BY <1>3, <1>14, <2>3 DEF Target
      <4>4. Follows(task[u])'
        BY <1>3, <1>7, <4>1, <4>2, <4>3 DEF Follows
      <4>. QED
        BY <1>7, <1>14, <2>3, <4>1, <4>2, <4>4 DEF Launched
    <3>. QED
      BY <3>2, <3>3 DEF Stable, Launched
  <2>. QED
    BY <2>2, <2>3
<1>. QED
  BY <1>3, <1>9, <1>10, <1>13, <1>15, <1>16, <1>17 DEF IInv

-----------------------------------------------------------------------------
(* The invariant holds *)

\* No pointer, no session, no process.
LEMMA InitInv == Init => IInv
<1> SUFFICES ASSUME Init PROVE IInv
  OBVIOUS
<1>1. /\ \A t \in Tasks : task[t].pc = "idle" /\ task[t].cmd = "none" /\ Shape(task[t])
      /\ task \in [Tasks -> Task]
  BY IdleTask DEF Init
<1>2. TypeOKSessions
  BY <1>1 DEF Init, TypeOKSessions
<1>3. \A x \in Paths : Orderly(x)
  BY <1>1 DEF Init, Orderly, Writing, At
<1>4. \A s \in Sessions : OneHook(s) /\ Stable(s)
  BY <1>1 DEF Init, OneHook, Hooks, Stable, Anchored, Launched
<1>5. \A t \in Tasks : ~Launched(task[t])
  BY <1>1 DEF Launched
<1>. QED
  BY <1>1, <1>2, <1>3, <1>4, <1>5 DEF IInv

\* Every step keeps it.
LEMMA NextInv == IInv /\ [Next]_vars => IInv'
<1> SUFFICES ASSUME IInv, [Next]_vars PROVE IInv'
  OBVIOUS
<1>1. CASE UNCHANGED vars
  BY <1>1 DEF vars, IInv, TypeOKSessions, Shape, Orderly, Writing, At, OneHook, Launched,
     Undisturbed, Stable, Anchored, Target, Follows
<1>2. ASSUME NEW t \in Tasks, Step(t)
      PROVE  IInv'
  <2>1. ASSUME NEW s \in Sessions, SessionStart(t, s) \/ Prompt(t, s) \/ ToolUse(t, s)
        PROVE  IInv'
    BY <2>1, SessionStartStep, PromptStep, ToolUseStep
  <2>2. ASSUME NEW u \in Units, UnitUse(t, u)
        PROVE  IInv'
    BY <2>2, UnitUseStep
  <2>3. CASE ReadFails(t) \/ Over(t) \/ RenameFails(t) \/ Kill(t)
    BY <2>3, OverStep DEF ReadFails, Over, RenameFails, Kill
  <2>. QED
    BY <1>2, <2>1, <2>2, <2>3, TestStep, ProbeStep, ReadStep, DetectedStep, SnapshotStep,
       CreateStep, WriteStep, RenameStep DEF Step
<1>3. ASSUME NEW s \in Sessions, SessionEnd(s)
      PROVE  IInv'
  BY <1>3, SessionEndStep
<1>. QED
  BY <1>1, <1>2, <1>3 DEF Next

-----------------------------------------------------------------------------
(* Theorems *)

\* The inductive invariant, for any number of sessions, names and processes.
THEOREM SessionsInductive == Spec => []IInv
  BY InitInv, NextInv, PTL DEF Spec

\* Pointers, processes and bindings keep their types.
THEOREM SessionTypes == Spec => []TypeOKSessions
<1>1. IInv => TypeOKSessions
  BY DEF IInv
<1>. QED
  BY <1>1, SessionsInductive, PTL

\* atomic::write: a pointer whose writers have not met is absent or a whole
\* unit, whoever is killed when.
THEOREM PointersAreWhole == Spec => []LoneWritersLeaveWholePointers
<1>1. IInv => LoneWritersLeaveWholePointers
  BY DEF IInv, Orderly, LoneWritersLeaveWholePointers
<1>. QED
  BY <1>1, SessionsInductive, PTL

\* load_context: later snapshots of a session bind it to the unit of the first.
THEOREM SessionsKeepTheirUnit == Spec => SessionKeepsItsUnit
<1>1. IInv /\ [Next]_vars =>
         [\A s \in Sessions :
             bound[s] # None /\ bound'[s] # None /\ Undisturbed(s)'
                => bound'[s] = bound[s]]_vars
  <2> SUFFICES ASSUME IInv, Next, NEW s \in Sessions, bound[s] # None, bound'[s] # None,
                      Undisturbed(s)'
               PROVE  bound'[s] = bound[s]
    OBVIOUS
  <2>1. CASE bound' = bound
    BY <2>1
  <2>2. ASSUME NEW t \in Tasks, Rename(t)
        PROVE  bound'[s] = bound[s]
    <3>1. CASE s # task[t].session
      BY <2>2, <3>1 DEF Rename, IInv, TypeOKSessions
    <3>2. CASE s = task[t].session
      <4>1. task[t].pc = "renaming"
        BY <2>2 DEF Rename, At
      <4>2. task[t].cmd \in Hooks
        BY <3>2, <4>1, SaverFacts, SessionsAssumption DEF Saving
      <4>3. Stable(s)
        BY <2>2 DEF Rename, IInv, Undisturbed
      <4>4. Follows(task[t]) /\ bound[s] = Target(s)
        BY <3>2, <4>2, <4>3 DEF Stable, Anchored
      <4>5. task[t].unit = bound[s]
        BY <3>2, <4>1, <4>4 DEF Follows, Saving
      <4>. QED
        BY <2>2, <4>5, <3>2 DEF Rename, IInv, TypeOKSessions
    <3>. QED
      BY <3>1, <3>2
  <2>3. ASSUME NEW r \in Sessions, SessionEnd(r)
        PROVE  bound'[s] = bound[s]
    BY <2>3 DEF SessionEnd, IInv, TypeOKSessions
  <2>. QED
    BY <2>1, <2>2, <2>3 DEF Next, Step, SessionStart, Prompt, ToolUse, UnitUse, Test, Probe,
       Read, ReadFails, Detected, Snapshot, Over, Create, Write, RenameFails, Kill
<1>. QED
  BY <1>1, SessionsInductive, PTL DEF Spec, SessionKeepsItsUnit

\* session_start.rs: a hook launched in a bound session works on its unit,
\* whatever becomes of the project's pointer in between.
THEOREM HooksFindTheirUnit == Spec => []HooksFollowTheSession
<1>1. IInv => HooksFollowTheSession
  <2> SUFFICES ASSUME IInv, NEW t \in Tasks, task[t].cmd = "tool", task[t].begun # None,
                      At(t, "resolved"), Undisturbed(task[t].session)
               PROVE  task[t].unit = task[t].begun
    BY DEF HooksFollowTheSession
  <2> DEFINE s == task[t].session
  <2>1. s \in Sessions
    BY DEF IInv, Shape
  <2>2. Stable(s) /\ Launched(task[t])
    BY <2>1 DEF IInv, Launched
  <2>3. bound[s] = task[t].begun /\ Follows(task[t]) /\ Anchored(s)
    BY <2>2 DEF Stable
  <2>4. Target(s) = bound[s]
    BY <2>3 DEF Anchored
  <2>. QED
    BY <2>3, <2>4 DEF Follows, At
<1>. QED
  BY <1>1, SessionsInductive, PTL
=============================================================================
