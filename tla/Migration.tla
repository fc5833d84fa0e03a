----------------------------- MODULE Migration -----------------------------
(***************************************************************************)
(* knotch-proto: the registry of schema migrators and the walk that        *)
(* carries a value from one schema version to another.  A migrator says    *)
(* where it starts and where it leads; by default that is one version up,  *)
(* but a project may say otherwise.                                        *)
(***************************************************************************)
EXTENDS Integers, Sequences

CONSTANTS
    Versions,
    Migrators,          \* records [from, to]
    MaxSteps            \* bound: the steps of a walk that are followed

ASSUME VersionsAssumption ==
    /\ Versions \subseteq Nat
    /\ Migrators \subseteq [from : Versions, to : Versions]

VARIABLES
    registry,           \* the migrators, in the order they were registered
    walk                \* the migration that was asked for last

migrationVars == <<registry, walk>>

Outcomes == {"Idle", "Walking", "Migrated", "Downgrade", "MissingLink", "Custom"}

InitMigration ==
    /\ registry = <<>>
    /\ walk = [pc |-> "Idle", from |-> 0, to |-> 0, version |-> 0, path |-> <<>>]

Walking == walk.pc = "Walking"

\* Registry::register; Overlap leaves the registry as it is.
Register(m) ==
    /\ ~Walking
    /\ \A i \in DOMAIN registry : registry[i].from # m.from
    /\ registry' = Append(registry, m)
    /\ UNCHANGED walk

\* Registry::migrate, up to its loop.
Migrate(from, to) ==
    /\ ~Walking
    /\ walk' = [pc |-> CASE from = to -> "Migrated"
                         [] from > to -> "Downgrade"
                         [] from < to -> "Walking",
                from |-> from, to |-> to, version |-> from, path |-> <<>>]
    /\ UNCHANGED registry

\* Mutant: a migrator from any earlier version will do.
FromBelow(version) == {i \in DOMAIN registry : registry[i].from <= version}

From(version) == {i \in DOMAIN registry : registry[i].from = version}

Walk(pc) == walk' = [walk EXCEPT !.pc = pc] /\ UNCHANGED registry

NoLink == Walking /\ walk.version < walk.to /\ From(walk.version) = {} /\ Walk("MissingLink")

\* A migrator refuses the value.
Refused == Walking /\ walk.version < walk.to /\ From(walk.version) # {} /\ Walk("Custom")

\* The version the walk believes in is the one the migrator says it leads to.
Step ==
    /\ Walking /\ walk.version < walk.to /\ Len(walk.path) < MaxSteps
    /\ \E i \in From(walk.version) :
          walk' = [walk EXCEPT !.version = registry[i].to, !.path = Append(@, registry[i])]
    /\ UNCHANGED registry

Arrive == Walking /\ walk.version >= walk.to /\ Walk("Migrated")

MigrationStep ==
    \/ \E m \in Migrators : Register(m)
    \/ \E from, to \in Versions : Migrate(from, to)
    \/ NoLink \/ Refused \/ Step \/ Arrive

MigrationSpec == InitMigration /\ [][MigrationStep]_migrationVars

-----------------------------------------------------------------------------
(* Properties *)

\* Each migrator of a path starts where the one before it led.
Linked(path, from, to) ==
    /\ path = <<>> => from = to
    /\ path # <<>> => path[1].from = from /\ path[Len(path)].to = to
    /\ \A k \in DOMAIN path : k > 1 => path[k].from = path[k - 1].to

ByOne == \A i \in DOMAIN registry : registry[i].to = registry[i].from + 1
Climbing == \A i \in DOMAIN registry : registry[i].to > registry[i].from

\* A value that was migrated went from its version, link by link, as far as
\* was asked; exactly as far if every migrator climbs one version, and in no
\* more steps than there are versions between if every one climbs.
MigrationLands ==
    /\ walk.pc \in {"Walking", "Migrated"} =>
          /\ Linked(walk.path, walk.from, walk.version)
          /\ walk.from <= walk.to
    /\ walk.pc = "Migrated" => walk.version >= walk.to
    /\ ByOne => walk.version <= walk.to \/ walk.pc = "Downgrade"
    /\ Climbing => Len(walk.path) <= walk.version - walk.from
=============================================================================
