--------------------------- MODULE WorkflowConfig ---------------------------
(***************************************************************************)
(* knotch-workflow: the [workflow] table of knotch.toml, what from_spec    *)
(* accepts of it and how the accepted table answers the questions the      *)
(* kernel asks; and knotch-schema's status FSM, which adopters put in      *)
(* front of the kernel's own rule.                                         *)
(***************************************************************************)
EXTENDS Integers, Sequences, FiniteSets

CONSTANT None                   \* Option::None, and the text that was left out

Ids(items) == {items[i].id : i \in DOMAIN items}

Distinct(items) == Cardinality(Ids(items)) = Len(items)

\* The table `knotch init' writes.
Ladder == <<"g0-scope", "g1-clarify", "g2-plan", "g3-review", "g4-drift">>
Route == <<"specify", "plan", "build", "review", "ship">>

Canonical ==
    [name |-> "knotch", schema_version |-> 1,
     phases |-> [i \in 1..5 |-> [id |-> Route[i], accepts_skips |-> {}]],
     required_phases |-> [tiny |-> <<"specify", "build", "ship">>, standard |-> Route],
     default_scope |-> "standard",
     gates |-> [i \in 1..5 |->
                  [id |-> Ladder[i], prerequisites |-> {Ladder[j] : j \in 1..(i - 1)}]],
     terminal_statuses |-> {"archived", "abandoned", "superseded", "deprecated"},
     min_rationale_chars |-> None]

-----------------------------------------------------------------------------
(* ConfigWorkflow::from_spec *)

DeclaredPhases(w) == Ids(w.phases)
DeclaredGates(w) == Ids(w.gates)

\* The parts that are looked up are there, once.  That the prerequisites of a
\* gate come before it, or that they are free of cycles, is not asked.
Valid(w) ==
    /\ Distinct(w.phases) /\ Distinct(w.gates)
    /\ \A i \in DOMAIN w.gates : w.gates[i].prerequisites \subseteq DeclaredGates(w)
    /\ w.default_scope \in DOMAIN w.required_phases
    /\ \A s \in DOMAIN w.required_phases : \A k \in DOMAIN w.required_phases[s] :
          w.required_phases[s][k] \in DeclaredPhases(w)

-----------------------------------------------------------------------------
(* The answers: impl WorkflowKind for ConfigWorkflow *)

\* A scope the table does not know is read as the default one.
RequiredOf(w, scope) ==
    w.required_phases[IF scope \in DOMAIN w.required_phases THEN scope ELSE w.default_scope]

\* Mutant: only the gate declared last before this one is asked for.
PrerequisitesLast(w, gate) ==
    LET at == CHOOSE i \in DOMAIN w.gates : w.gates[i].id = gate
    IN  {w.gates[i].id : i \in {at - 1} \cap DOMAIN w.gates} \cap w.gates[at].prerequisites

PrerequisitesFor(w, gate) ==
    UNION {w.gates[i].prerequisites : i \in {k \in DOMAIN w.gates : w.gates[k].id = gate}}

\* Reasons are a family and, but for ScopeTooNarrow, a code.
AcceptsSkipFor(w, phase, reason) ==
    \E i \in DOMAIN w.phases :
        /\ w.phases[i].id = phase
        /\ IF reason.family = "scope" THEN "scope" \in w.phases[i].accepts_skips
           ELSE {reason.code, "*"} \cap w.phases[i].accepts_skips # {}

MinRationaleChars(w) == IF w.min_rationale_chars = None THEN 8 ELSE w.min_rationale_chars

\* The salt of every fingerprint, and the workflow a log's header names.
FingerprintSalt(w) == w.name

-----------------------------------------------------------------------------
(* LifecycleFsm::evaluate *)

\* Mutant: the current status is not compared with the target.
EvaluateAnyTarget(fsm, request) ==
    /\ request.forced => request.rationale # None
    /\ request.target \in fsm /\ ~request.forced => request.all_phases_resolved

\* fsm is the set of statuses declared terminal.  Where the unit is now makes
\* a difference only if it is where the request leads.
Evaluate(fsm, request) ==
    /\ request.current # request.target
    /\ request.forced => request.rationale # None
    /\ request.target \in fsm /\ ~request.forced => request.all_phases_resolved
=============================================================================
