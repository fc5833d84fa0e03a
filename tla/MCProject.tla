----------------------------- MODULE MCProject -----------------------------
(***************************************************************************)
(* Instance of Project for TLC.                                            *)
(***************************************************************************)
EXTENDS Project, TLC

Phase(id, skips) == [id |-> id, accepts_skips |-> skips]
Gate(id, prerequisites) == [id |-> id, prerequisites |-> prerequisites]

Small(name, gates) ==
    [name |-> name, schema_version |-> 1,
     phases |-> <<Phase("specify", {"scope", "urgent"}), Phase("ship", {})>>,
     required_phases |-> [standard |-> <<"specify", "ship">>],
     default_scope |-> "standard", gates |-> gates,
     terminal_statuses |-> {"archived"}, min_rationale_chars |-> 2]

\* a and b wait for each other, c waits for both.
Cyclic == Small("knotch", <<Gate("a", {"b"}), Gate("b", {"a"}), Gate("c", {"a", "b"})>>)

\* The same gates in a row, under the same name and under another.
InARow == <<Gate("a", {}), Gate("b", {"a"}), Gate("c", {"a", "b"})>>
Straight == Small("knotch", InARow)
Renamed == Small("other", InARow)

\* A gate of a workflow waits for one it does not declare.
Dangling == Small("knotch", <<Gate("a", {"z"})>>)

\* Without the phase a demonstration needs, and without a scope.
Unspecified ==
    [Small("knotch", <<>>) EXCEPT
        !.phases = <<Phase("ship", {"*"})>>, !.required_phases = [tiny |-> <<"ship">>],
        !.default_scope = "tiny"]

MCSpecs == {Cyclic, Straight, Renamed, Dangling, Unspecified}

MCSkipReasons == {[family |-> "scope", code |-> None], [family |-> "custom", code |-> "urgent"]}

MCMigrators == [from : Versions, to : Versions]

ASSUME MCOneVersionAssumption == OneVersion

Pristine(f) == f.state = "absent"

\* What people have written into the files stays short.
Few(fs) ==
    /\ fs[1].workflow \in {None, Canonical, Straight}
    /\ \A e \in EditedEvents : Cardinality(Places(fs[2].hooks[e], FALSE)) <= 1
    /\ Len(fs[3].lines) <= 2
    /\ Pristine(fs[2]) \/ Pristine(fs[3]) \/ fs[3].lines = <<".knotch/">>

Kinds(l) == {l[i].body.kind : i \in DOMAIN l}
OfKind(l, kind) == {i \in DOMAIN l : l[i].body.kind = kind}

Lifecycle == {"UnitCreated", "PhaseCompleted", "PhaseSkipped", "StatusTransitioned"}

\* The kinds a log is made of, by its length.
Brief(l) ==
    \/ Len(l) <= 1
    \/ /\ \A i \in OfKind(l, "GateRecorded") : l[i].body.rationale = 8
       /\ \/ Len(l) <= 2 /\ "StatusTransitioned" \notin Kinds(l)
          \/ Len(l) <= 3 /\ Kinds(l) \subseteq {"GateRecorded", "EventSuperseded"}
          \/ Len(l) <= 4 /\ Kinds(l) \subseteq Lifecycle /\ OfKind(l, "UnitCreated") = {1}

\* The files; a demonstration among other work; the log; the migrators.
MCExplored(fs, run, u, migration) ==
    LET still == migration[2].pc = "Idle" /\ migration[1] = <<>>
        among(ws) == \A i \in DOMAIN u[3] : u[3][i] \in ws
    IN  \/ /\ still /\ Few(fs)
           /\ u[1] = <<>> /\ ~run.demo
        \/ /\ still /\ Pristine(fs[2]) /\ fs[3].lines \in {<<>>, <<".knotch/">>}
           /\ fs[1].workflow \in {None, Canonical, Renamed, Unspecified}
           /\ ~run.with_hooks
           /\ Len(u[1]) <= 2 /\ Kinds(u[1]) \subseteq {"UnitCreated", "PhaseCompleted"}
           /\ among({Canonical, Renamed, Unspecified})
        \/ /\ still /\ Pristine(fs[2]) /\ Pristine(fs[3]) /\ run = NoInit
           /\ Brief(u[1])
           /\ Len(u[1]) > 1 => fs[1].workflow \in {Straight, Cyclic, Renamed, Canonical}
           /\ Len(u[1]) > 2 => fs[1].workflow # Canonical /\ among(Specs)
        \/ \A i \in 1..3 : Pristine(fs[i]) /\ run = NoInit /\ u[1] = <<>>
=============================================================================
