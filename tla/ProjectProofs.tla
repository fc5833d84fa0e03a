--------------------------- MODULE ProjectProofs ---------------------------
(***************************************************************************)
(* What holds of a project over time, whatever workflows people write,     *)
(* whatever migrators they register and however long they go on: a         *)
(* migration lands, a log obeys the rules it was written under, the FSM    *)
(* that adopters ask agrees with the ledger, and init leaves a project     *)
(* that doctor finds nothing wrong with, and what others wrote where it    *)
(* was.                                                                    *)
(***************************************************************************)
EXTENDS Project, FiniteSetTheorems, WellFoundedInduction, TLAPS

-----------------------------------------------------------------------------
(* Migrations.  The invariant says of every walk, ended or not, what
   MigrationLands says of the ones that arrive; and what holds if every
   registered migrator climbs held of the walk when fewer were registered,
   for the registry only grows. *)

\* A walk, ended or not.
Walks == [pc : Outcomes, from : Nat, to : Nat, version : Nat, path : Seq(Migrators)]

\* The variables have their types.
TypeOKMigration == registry \in Seq(Migrators) /\ walk \in Walks

\* Where a walk is between its version and its target.
Bounds ==
    /\ walk.pc \in {"Walking", "Migrated"} => walk.from <= walk.to
    /\ walk.pc = "Migrated" => walk.version >= walk.to

\* A walk of single steps does not overshoot.
WithinTarget == ByOne => walk.version <= walk.to \/ walk.pc = "Downgrade"

\* A walk that climbs takes no more steps than versions.
Strides == Climbing => Len(walk.path) <= walk.version - walk.from

\* The inductive invariant of registry and walk.
MigrationInv ==
    /\ TypeOKMigration
    /\ Linked(walk.path, walk.from, walk.version)
    /\ Bounds
    /\ WithinTarget
    /\ Strides

-----------------------------------------------------------------------------

\* A migrator leads from a number to a number.
LEMMA MigratorsRange == \A m \in Migrators : m.from \in Nat /\ m.to \in Nat
  BY VersionsAssumption

\* One more link at the end of a path.
LEMMA LinkMore ==
  ASSUME NEW path \in Seq(Migrators), NEW m \in Migrators, NEW from \in Nat, NEW to \in Nat,
         Linked(path, from, to), m.from = to
  PROVE  Linked(Append(path, m), from, m.to)
<1> DEFINE longer == Append(path, m)
<1>1. /\ longer \in Seq(Migrators) /\ Len(longer) = Len(path) + 1 /\ Len(path) \in Nat
      /\ longer[Len(path) + 1] = m /\ DOMAIN longer = 1..(Len(path) + 1)
      /\ DOMAIN path = 1..Len(path)
      /\ \A k \in 1..Len(path) : longer[k] = path[k]
  OBVIOUS
<1>2. longer # <<>>
  BY <1>1
<1>3. longer[1].from = from
  <2>1. CASE path = <<>>
    BY <1>1, <2>1 DEF Linked
  <2>2. CASE path # <<>>
    <3>1. Len(path) >= 1
      BY <2>2, <1>1
    <3> QED  BY <1>1, <2>2, <3>1 DEF Linked
  <2> QED  BY <2>1, <2>2
<1>4. \A k \in DOMAIN longer : k > 1 => longer[k].from = longer[k - 1].to
  <2> SUFFICES ASSUME NEW k \in 1..(Len(path) + 1), k > 1
               PROVE  longer[k].from = longer[k - 1].to
    BY <1>1
  <2>1. CASE k \in 1..Len(path)
    <3>1. k - 1 \in 1..Len(path)
      BY <2>1, <1>1
    <3> QED  BY <1>1, <2>1, <3>1 DEF Linked
  <2>2. CASE k = Len(path) + 1
    <3>1. Len(path) >= 1 /\ path # <<>> /\ k - 1 = Len(path)
      BY <2>2, <1>1
    <3>2. path[Len(path)].to = to
      BY <3>1 DEF Linked
    <3> QED  BY <1>1, <2>2, <3>1, <3>2
  <2> QED  BY <1>1, <2>1, <2>2
<1> QED  BY <1>1, <1>2, <1>3, <1>4 DEF Linked

\* A registry that has grown tells no less of the one it was.
LEMMA GrowingTells ==
  ASSUME registry \in Seq(Migrators), NEW m \in Migrators, registry' = Append(registry, m)
  PROVE  (ByOne' => ByOne) /\ (Climbing' => Climbing)
<1>1. /\ DOMAIN registry \subseteq DOMAIN registry'
      /\ \A i \in DOMAIN registry : registry'[i] = registry[i]
  OBVIOUS
<1> QED  BY <1>1 DEF ByOne, Climbing

-----------------------------------------------------------------------------

\* Before the first walk.
LEMMA MigrationStarts == InitMigration => MigrationInv
<1> SUFFICES ASSUME InitMigration PROVE MigrationInv
  OBVIOUS
<1> USE DEF InitMigration
<1>1. TypeOKMigration
  BY DEF TypeOKMigration, Walks, Outcomes
<1>2. Linked(walk.path, walk.from, walk.version)
  BY DEF Linked
<1>3. Bounds /\ WithinTarget /\ Strides
  BY DEF Bounds, WithinTarget, Strides
<1> QED  BY <1>1, <1>2, <1>3 DEF MigrationInv

\* Registering a migrator.
LEMMA RegisterKeeps ==
  ASSUME MigrationInv, NEW m \in Migrators, Register(m)
  PROVE  MigrationInv'
<1> USE DEF MigrationInv, Register
<1>1. TypeOKMigration'
  BY DEF TypeOKMigration
<1>2. (ByOne' => ByOne) /\ (Climbing' => Climbing)
  BY GrowingTells DEF TypeOKMigration
<1>3. Linked(walk.path, walk.from, walk.version)' /\ Bounds'
  BY DEF Bounds
<1>4. WithinTarget' /\ Strides'
  BY <1>2 DEF WithinTarget, Strides
<1> QED  BY <1>1, <1>3, <1>4

\* A migration is asked for.
LEMMA MigrateKeeps ==
  ASSUME MigrationInv, NEW from \in Versions, NEW to \in Versions, Migrate(from, to)
  PROVE  MigrationInv'
<1>1. from \in Nat /\ to \in Nat
  BY VersionsAssumption
<1>2. PICK pc \in {"Migrated", "Downgrade", "Walking"} :
        /\ walk' = [pc |-> pc, from |-> from, to |-> to, version |-> from, path |-> <<>>]
        /\ pc = "Migrated" => from = to
        /\ pc = "Downgrade" => from > to
        /\ pc = "Walking" => from < to
  <2>1. CASE from = to
    BY <2>1, <1>1 DEF Migrate
  <2>2. CASE from > to
    BY <2>2, <1>1 DEF Migrate
  <2>3. CASE from < to
    BY <2>3, <1>1 DEF Migrate
  <2> QED  BY <1>1, <2>1, <2>2, <2>3
<1>3. TypeOKMigration'
  BY <1>1, <1>2 DEF TypeOKMigration, MigrationInv, Walks, Outcomes, Migrate
<1>4. Linked(walk.path, walk.from, walk.version)'
  BY <1>1, <1>2 DEF Linked
<1>5. Bounds' /\ WithinTarget' /\ Strides'
  BY <1>1, <1>2 DEF Bounds, WithinTarget, Strides
<1> QED  BY <1>3, <1>4, <1>5 DEF MigrationInv

\* A walk ends, one way or another.
LEMMA EndingKeeps ==
  ASSUME MigrationInv, NEW pc \in Outcomes, Walk(pc),
         Walking, pc \in {"MissingLink", "Custom", "Migrated"},
         pc = "Migrated" => walk.version >= walk.to,
         pc # "Migrated" => walk.version < walk.to
  PROVE  MigrationInv'
<1>1. /\ walk'.from = walk.from /\ walk'.to = walk.to /\ walk'.version = walk.version
      /\ walk'.path = walk.path /\ walk'.pc = pc /\ registry' = registry /\ walk' \in Walks
  BY DEF MigrationInv, TypeOKMigration, Walks, Walk
<1>2. walk.from \in Nat /\ walk.to \in Nat /\ walk.version \in Nat
  BY DEF MigrationInv, TypeOKMigration, Walks
<1>3. TypeOKMigration' /\ Linked(walk.path, walk.from, walk.version)'
  BY <1>1 DEF MigrationInv, TypeOKMigration
<1>4. Bounds' /\ WithinTarget' /\ Strides'
  BY <1>1, <1>2 DEF MigrationInv, Bounds, WithinTarget, Strides, Walking, ByOne, Climbing
<1> QED  BY <1>3, <1>4 DEF MigrationInv

\* A link of a walk.
LEMMA StepKeeps == ASSUME MigrationInv, Step PROVE MigrationInv'
<1>1. PICK i \in From(walk.version) :
        walk' = [walk EXCEPT !.version = registry[i].to, !.path = Append(walk.path, registry[i])]
  BY DEF Step
<1>2. i \in DOMAIN registry /\ registry[i] \in Migrators /\ registry[i].from = walk.version
  BY <1>1 DEF From, MigrationInv, TypeOKMigration
<1>3. registry[i].to \in Nat
  BY <1>2, MigratorsRange
<1>4. /\ walk.from \in Nat /\ walk.to \in Nat /\ walk.version \in Nat
      /\ walk.path \in Seq(Migrators) /\ walk.pc = "Walking" /\ walk.version < walk.to
  BY DEF MigrationInv, TypeOKMigration, Walks, Step, Walking
<1>5. /\ walk'.from = walk.from /\ walk'.to = walk.to /\ walk'.version = registry[i].to
      /\ walk'.path = Append(walk.path, registry[i]) /\ walk'.pc = "Walking"
      /\ registry' = registry /\ walk' \in Walks
  <2>1. Append(walk.path, registry[i]) \in Seq(Migrators)
    BY <1>2, <1>4
  <2>2. walk \in Walks /\ registry' = registry
    BY DEF MigrationInv, TypeOKMigration, Step
  <2> QED  BY <1>1, <1>3, <1>4, <2>1, <2>2 DEF Walks
<1>6. TypeOKMigration'
  BY <1>5 DEF MigrationInv, TypeOKMigration
<1>7. Linked(walk.path, walk.from, walk.version)'
  BY <1>2, <1>3, <1>4, <1>5, LinkMore DEF MigrationInv
<1>8. Bounds'
  BY <1>4, <1>5 DEF MigrationInv, Bounds
<1>9. WithinTarget'
  BY <1>2, <1>3, <1>4, <1>5 DEF WithinTarget, ByOne
<1>10. Strides'
  <2> SUFFICES ASSUME Climbing' PROVE Len(walk'.path) <= walk'.version - walk'.from
    BY DEF Strides
  <2>1. Climbing /\ registry[i].to > walk.version
    BY <1>2, <1>5 DEF Climbing
  <2>2. Len(walk.path) <= walk.version - walk.from
    BY <2>1 DEF MigrationInv, Strides
  <2>3. Len(walk'.path) = Len(walk.path) + 1 /\ Len(walk.path) \in Nat
    BY <1>2, <1>4, <1>5
  <2> QED  BY <1>3, <1>4, <1>5, <2>1, <2>2, <2>3
<1> QED  BY <1>6, <1>7, <1>8, <1>9, <1>10 DEF MigrationInv

\* Every step of the registry and the walk.
LEMMA MigrationKeeps ==
  ASSUME MigrationInv, [MigrationStep]_migrationVars
  PROVE  MigrationInv'
<1>1. CASE \E m \in Migrators : Register(m)
  BY <1>1, RegisterKeeps
<1>2. CASE \E from, to \in Versions : Migrate(from, to)
  BY <1>2, MigrateKeeps
<1>3. CASE NoLink
  BY <1>3, EndingKeeps DEF NoLink, Outcomes
<1>4. CASE Refused
  BY <1>4, EndingKeeps DEF Refused, Outcomes
<1>5. CASE Step
  BY <1>5, StepKeeps
<1>6. CASE Arrive
  BY <1>6, EndingKeeps DEF Arrive, Outcomes
<1>7. CASE UNCHANGED migrationVars
  BY <1>7 DEF migrationVars, MigrationInv, TypeOKMigration, Bounds, WithinTarget, Strides,
              ByOne, Climbing, Linked
<1> QED  BY <1>1, <1>2, <1>3, <1>4, <1>5, <1>6, <1>7 DEF MigrationStep

\* migration.rs, Registry::migrate: whatever migrators a project registers, a
\* value that was migrated went link by link from its version as far as was
\* asked, and no further if every migrator climbs one version.
THEOREM MigrationsLand == Spec => []MigrationLands
<1>1. Init => MigrationInv
  BY MigrationStarts DEF Init
<1>2. MigrationInv /\ [Next]_vars => MigrationInv'
  <2> SUFFICES ASSUME MigrationInv, [Next]_vars PROVE [MigrationStep]_migrationVars
    BY MigrationKeeps
  <2> QED  BY DEF Next, vars
<1>3. MigrationInv => MigrationLands
  BY DEF MigrationInv, MigrationLands, Bounds, WithinTarget, Strides
<1> QED  BY <1>1, <1>2, <1>3, PTL DEF Spec

-----------------------------------------------------------------------------
(* The log under workflows that change *)

\* Every gate that some workflow declares.
AllGates == UNION {DeclaredGates(w) : w \in Workflows}

\* A sequence, of whatever.
Sequence(s) == \E S : s \in Seq(S)

\* Each event has its workflow, of the name the header gives; and there is a
\* header as soon as there is an event.
Governed ==
    /\ Sequence(events) /\ under \in Seq(Workflows) /\ Len(under) = Len(events)
    /\ events # <<>> => header # None
    /\ \A i \in DOMAIN under : header.fingerprint_salt = FingerprintSalt(under[i])

\* A set of gates that none of the governing workflows leads into holds every
\* gate of the log.
Within ==
    \A S \in SUBSET AllGates :
        (\A i \in DOMAIN under : Closed(S, under[i]))
        => \A i \in DOMAIN events :
              events[i].body.kind = "GateRecorded" => events[i].body.gate \in S

\* The inductive invariant of the log.
LogInv == Governed /\ Within

\* m is l and perhaps more; a gate among what is more is one that w declares,
\* and the prerequisites that w gives it are on l.
Grown(l, m, w) ==
    /\ Sequence(m) /\ Len(l) <= Len(m)
    /\ \A i \in 1..Len(l) : m[i] = l[i]
    /\ \A i \in (Len(l) + 1)..Len(m) : m[i].body.kind = "GateRecorded" =>
          /\ m[i].body.gate \in DeclaredGates(w)
          /\ \A g \in PrerequisitesFor(w, m[i].body.gate) : \E j \in 1..Len(l) :
                l[j].body.kind = "GateRecorded" /\ l[j].body.gate = g

\* A sequence with one more at its end.
LEMMA OneMore ==
  ASSUME NEW l, Sequence(l), NEW e
  PROVE  /\ Sequence(Append(l, e)) /\ Len(Append(l, e)) = Len(l) + 1 /\ Len(l) \in Nat
         /\ Append(l, e)[Len(l) + 1] = e
         /\ \A i \in 1..Len(l) : Append(l, e)[i] = l[i]
<1>1. PICK S : l \in Seq(S)
  BY DEF Sequence
<1> DEFINE T == S \cup {e}
<1>2. l \in Seq(T)
  BY <1>1
<1>3. Append(l, e) \in Seq(T)
  BY <1>2
<1>4. Sequence(Append(l, e))
  BY <1>3 DEF Sequence
<1> QED  BY <1>2, <1>4

\* The domain of a sequence, and the one that is empty.
LEMMA SequenceFacts ==
  ASSUME NEW l, Sequence(l)
  PROVE  Len(l) \in Nat /\ DOMAIN l = 1..Len(l) /\ (Len(l) = 0 <=> l = <<>>)
<1>1. PICK S : l \in Seq(S)
  BY DEF Sequence
<1> QED  BY <1>1

\* What is offered is left out or put at the end, and then it was admitted.
LEMMA OfferedOnce ==
  ASSUME NEW w, NEW l, NEW b
  PROVE  \/ C(w)!Offered(l, b) = l
         \/ /\ C(w)!Precondition(l, b)
            /\ \E at : C(w)!Offered(l, b) = Append(l, [body |-> b, at |-> at])
<1>1. CASE C(w)!Admissible(l, b)
  BY <1>1 DEF C!Offered, C!Stamped, C!Admissible
<1>2. CASE ~C(w)!Admissible(l, b)
  BY <1>2 DEF C!Offered
<1> QED  BY <1>1, <1>2

\* A log is grown out of itself.
LEMMA GrownFromItself == ASSUME NEW w, NEW l, Sequence(l) PROVE Grown(l, l, w)
  BY SequenceFacts DEF Grown

\* An event that records no gate may be offered at any time.
LEMMA PlainGrows ==
  ASSUME NEW w, NEW l, NEW m, NEW b, Len(l) \in Nat, Grown(l, m, w), b.kind # "GateRecorded"
  PROVE  Grown(l, C(w)!Offered(m, b), w)
<1> DEFINE n == C(w)!Offered(m, b)
<1> SUFFICES Grown(l, n, w)
  OBVIOUS
<1>1. CASE n = m
  BY <1>1
<1>2. CASE \E at : n = Append(m, [body |-> b, at |-> at])
  <2>1. PICK at : n = Append(m, [body |-> b, at |-> at])
    BY <1>2
  <2>2. Sequence(m)
    BY DEF Grown
  <2>3. /\ Sequence(n) /\ Len(n) = Len(m) + 1 /\ Len(m) \in Nat
        /\ n[Len(m) + 1].body = b /\ \A i \in 1..Len(m) : n[i] = m[i]
    BY <2>1, <2>2, OneMore
  <2> HIDE DEF n
  <2>4. Len(l) <= Len(n) /\ \A i \in 1..Len(l) : i \in 1..Len(m) /\ n[i] = l[i]
    BY <2>3 DEF Grown
  <2>5. ASSUME NEW i \in (Len(l) + 1)..Len(n), n[i].body.kind = "GateRecorded"
        PROVE  i \in (Len(l) + 1)..Len(m) /\ n[i] = m[i]
    <3>1. CASE i \in 1..Len(m)
      BY <2>3, <3>1
    <3>2. CASE i = Len(m) + 1
      BY <2>3, <2>5, <3>2
    <3> QED  BY <2>3, <3>1, <3>2
  <2> QED  BY <2>3, <2>4, <2>5 DEF Grown
<1> QED  BY <1>1, <1>2, OfferedOnce

\* A gate that is recorded has its prerequisites on the log.
LEMMA GateGrows ==
  ASSUME NEW w, NEW l, NEW b, Sequence(l),
         b.kind = "GateRecorded" => b.gate \in DeclaredGates(w)
  PROVE  Grown(l, C(w)!Offered(l, b), w)
<1> DEFINE n == C(w)!Offered(l, b)
<1> SUFFICES Grown(l, n, w)
  OBVIOUS
<1>1. CASE n = l
  BY <1>1, GrownFromItself
<1>2. CASE b.kind # "GateRecorded"
  BY <1>2, GrownFromItself, PlainGrows, SequenceFacts
<1>3. CASE /\ b.kind = "GateRecorded" /\ C(w)!Precondition(l, b)
           /\ \E at : n = Append(l, [body |-> b, at |-> at])
  <2>1. PICK at : n = Append(l, [body |-> b, at |-> at])
    BY <1>3
  <2>2. /\ Sequence(n) /\ Len(n) = Len(l) + 1 /\ Len(l) \in Nat
        /\ n[Len(l) + 1].body = b /\ \A i \in 1..Len(l) : n[i] = l[i]
    BY <2>1, OneMore
  <2>3. C(w)!CanRecordGate(l, b)
    BY <1>3 DEF C!Precondition
  <2>4. \A g \in PrerequisitesFor(w, b.gate) : \E j \in 1..Len(l) :
           l[j].body.kind = "GateRecorded" /\ l[j].body.gate = g
    BY <1>3, <2>3, SequenceFacts DEF C!CanRecordGate, C!EffectiveOf, C!OfKind
  <2> HIDE DEF n
  <2> QED  BY <1>3, <2>2, <2>4 DEF Grown
<1> QED  BY <1>1, <1>2, <1>3, OfferedOnce

\* The set of the gates of a workflow that follow from gates of the set.
LEMMA NextGate ==
  ASSUME NEW w, NEW S, Closed(S, w), NEW g \in DeclaredGates(w),
         PrerequisitesFor(w, g) \subseteq S
  PROVE  g \in S
<1>1. PICK i \in DOMAIN w.gates : w.gates[i].id = g
  BY DEF DeclaredGates, Ids
<1>2. w.gates[i].prerequisites \subseteq PrerequisitesFor(w, g)
  BY <1>1 DEF PrerequisitesFor
<1> QED  BY <1>1, <1>2 DEF Closed

\* Whatever grows the log under a workflow that opens it keeps the invariant.
LEMMA GrowingKeeps ==
  ASSUME LogInv, NEW w \in Workflows, CheckHeaderSalt(w), Follow(w), Grown(events, events', w)
  PROVE  LogInv'
<1> DEFINE more == Len(events') - Len(events)
           tail == [i \in 1..more |-> w]
<1>1. /\ Sequence(events) /\ Sequence(events') /\ Len(events) <= Len(events')
      /\ under \in Seq(Workflows) /\ Len(under) = Len(events)
  BY DEF LogInv, Governed, Grown
<1>2. /\ Len(events) \in Nat /\ DOMAIN events = 1..Len(events)
      /\ Len(events') \in Nat /\ DOMAIN events' = 1..Len(events')
      /\ (Len(events) = 0 <=> events = <<>>) /\ (Len(events') = 0 <=> events' = <<>>)
  BY <1>1, SequenceFacts
<1>3. more \in Nat
  BY <1>1, <1>2
<1>4. tail \in Seq(Workflows) /\ Len(tail) = more /\ \A i \in 1..more : tail[i] = w
  <2> HIDE DEF more
  <2> QED  BY <1>3
<1>5. under' = under \o tail
  BY DEF Follow
<1>6. /\ under' \in Seq(Workflows) /\ Len(under') = Len(events') /\ DOMAIN under' = 1..Len(events')
      /\ \A i \in 1..Len(events) : under'[i] = under[i]
      /\ \A i \in (Len(events) + 1)..Len(events') : under'[i] = w
  <2> HIDE DEF tail
  <2>1. under' \in Seq(Workflows) /\ Len(under') = Len(under) + Len(tail)
    BY <1>1, <1>4, <1>5
  <2>2. \A i \in 1..Len(under) : under'[i] = under[i]
    BY <1>1, <1>4, <1>5
  <2>3. \A i \in (Len(under) + 1)..(Len(under) + Len(tail)) :
           under'[i] = tail[i - Len(under)] /\ i - Len(under) \in 1..more
    BY <1>1, <1>2, <1>3, <1>4, <1>5
  <2> QED  BY <1>1, <1>2, <1>4, <2>1, <2>2, <2>3
<1> HIDE DEF tail, more
<1>7. DOMAIN under = 1..Len(events)
  BY <1>1
<1>8. Governed'
  <2>1. events' # <<>> => header' # None
    BY HeaderAssumption DEF Follow
  <2>2. ASSUME NEW i \in 1..Len(events') PROVE header'.fingerprint_salt = FingerprintSalt(under'[i])
    <3>1. CASE header # None
      <4>1. header' = header /\ header.fingerprint_salt = FingerprintSalt(w)
        BY <3>1 DEF Follow, CheckHeaderSalt
      <4>2. CASE i \in 1..Len(events)
        BY <4>1, <4>2, <1>6, <1>7 DEF LogInv, Governed
      <4>3. CASE i \in (Len(events) + 1)..Len(events')
        BY <4>1, <4>3, <1>6
      <4> QED  BY <4>2, <4>3, <1>2
    <3>2. CASE header = None
      <4>1. events = <<>> /\ Len(events) = 0
        BY <3>2, <1>2 DEF LogInv, Governed
      <4>2. events' # <<>>
        BY <1>2
      <4>3. header' = HeaderLine(w)
        BY <3>2, <4>2 DEF Follow
      <4>4. under'[i] = w
        BY <4>1, <1>6
      <4> QED  BY <4>3, <4>4 DEF HeaderLine
    <3> QED  BY <3>1, <3>2
  <2> QED  BY <1>1, <1>6, <2>1, <2>2 DEF Governed
<1>9. Within'
  <2> SUFFICES ASSUME NEW S \in SUBSET AllGates,
                      \A i \in 1..Len(events') : Closed(S, under'[i]),
                      NEW k \in 1..Len(events'), events'[k].body.kind = "GateRecorded"
               PROVE  events'[k].body.gate \in S
    BY <1>2, <1>6 DEF Within
  <2>1. \A i \in 1..Len(events) : i \in 1..Len(events') /\ Closed(S, under[i])
    BY <1>1, <1>2, <1>6
  <2>2. \A i \in 1..Len(events) :
           events[i].body.kind = "GateRecorded" => events[i].body.gate \in S
    BY <1>2, <1>7, <2>1 DEF LogInv, Within
  <2>3. CASE k \in 1..Len(events)
    BY <2>2, <2>3 DEF Grown
  <2>4. CASE k \in (Len(events) + 1)..Len(events')
    <3>1. Closed(S, w)
      BY <1>6, <2>4
    <3>2. /\ events'[k].body.gate \in DeclaredGates(w)
          /\ \A g \in PrerequisitesFor(w, events'[k].body.gate) : \E j \in 1..Len(events) :
                events[j].body.kind = "GateRecorded" /\ events[j].body.gate = g
      BY <2>4 DEF Grown
    <3>3. PrerequisitesFor(w, events'[k].body.gate) \subseteq S
      BY <2>2, <3>2
    <3> QED  BY <3>1, <3>2, <3>3, NextGate
  <2> QED  BY <2>3, <2>4, <1>2
<1> QED  BY <1>8, <1>9 DEF LogInv

\* No command records a gate that its workflow does not declare.
LEMMA CommandGrows ==
  ASSUME NEW w, Sequence(events), C(w)!Command
  PROVE  Grown(events, events', w)
<1> SUFFICES \E b : /\ events' = C(w)!Offered(events, b)
                    /\ b.kind = "GateRecorded" => b.gate \in DeclaredGates(w)
  BY GateGrows
<1>1. CASE \E s \in Scopes : C(w)!UnitInit(s)
  BY <1>1 DEF C!UnitInit, C!Offer
<1>2. CASE \E p \in DeclaredPhases(w), d \in Details : C(w)!MarkCompleted(p, d)
  BY <1>2 DEF C!MarkCompleted, C!Offer
<1>3. CASE \E p \in DeclaredPhases(w), r \in SkipReasons : C(w)!MarkSkipped(p, r)
  BY <1>3 DEF C!MarkSkipped, C!Offer
<1>4. CASE \E n \in RationaleLengths, d \in Details, g \in DeclaredGates(w) :
              C(w)!RecordGateDecision(g, d, n)
  BY <1>4 DEF C!RecordGateDecision, C!Offer
<1>5. CASE \E n \in RationaleLengths, d \in Details, i \in DOMAIN events : C(w)!Supersede(i, d, n)
  BY <1>5 DEF C!Supersede, C!Offer
<1>6. CASE \E n \in RationaleLengths, d \in Details, s \in Statuses, f \in BOOLEAN,
              r \in Details \cup {None} : C(w)!Transition(s, f, r, n)
  BY <1>6 DEF C!Transition, C!Offer
<1> QED  BY <1>1, <1>2, <1>3, <1>4, <1>5, <1>6 DEF C!Command

\* The demonstration records no gate at all.
LEMMA DemoGrows ==
  ASSUME NEW w, Sequence(events)
  PROVE  /\ Grown(events, C(w)!Offered(events, DemoCreated), w)
         /\ Grown(events, C(w)!Offered(events, DemoSpecified), w)
<1>1. DemoCreated.kind # "GateRecorded" /\ DemoSpecified.kind # "GateRecorded"
  BY DEF DemoCreated, DemoSpecified
<1>2. Len(events) \in Nat
  BY SequenceFacts
<1>3. Grown(events, C(w)!Offered(events, DemoCreated), w)
  BY <1>1, <1>2, GrownFromItself, PlainGrows
<1>4. Grown(events, C(w)!Offered(events, DemoSpecified), w)
  BY <1>1, <1>2, GrownFromItself, PlainGrows
<1> QED  BY <1>3, <1>4

\* Every step of the project keeps the log's invariant.
LEMMA LogKeeps == LogInv /\ [Next]_vars => LogInv'
<1> SUFFICES ASSUME LogInv, [Next]_vars PROVE LogInv'
  OBVIOUS
<1>0. Sequence(events)
  BY DEF LogInv, Governed
<1>1. CASE UNCHANGED <<events, header, under>>
  BY <1>1 DEF LogInv, Governed, Within
<1>2. CASE Work
  <2>1. PICK w \in Workflows : Opens(w) /\ C(w)!Command /\ Follow(w)
    BY <1>2 DEF Work
  <2> QED  BY <1>0, <2>1, CommandGrows, GrowingKeeps DEF Opens
<1>3. CASE CreateDemo
  <2>1. PICK w \in Workflows :
           Opens(w) /\ events' = C(w)!Offered(events, DemoCreated) /\ Follow(w)
    BY <1>3 DEF CreateDemo
  <2> QED  BY <1>0, <2>1, DemoGrows, GrowingKeeps DEF Opens
<1>4. CASE SpecifyDemo
  <2>1. PICK w \in Workflows :
           CheckHeaderSalt(w) /\ events' = C(w)!Offered(events, DemoSpecified) /\ Follow(w)
    BY <1>4 DEF SpecifyDemo
  <2> QED  BY <1>0, <2>1, DemoGrows, GrowingKeeps
<1>5. CASE UseDemo
  BY <1>1, <1>5 DEF UseDemo
<1> QED  BY <1>1, <1>2, <1>3, <1>4, <1>5 DEF Next, vars, unit

\* A log without events has nothing to obey.
LEMMA LogStarts == Init => LogInv
<1> SUFFICES ASSUME Init PROVE LogInv
  OBVIOUS
<1>1. events = <<>> /\ under = <<>> /\ Sequence(events)
  BY DEF Init, Sequence
<1> QED  BY <1>1 DEF LogInv, Governed, Within

\* knotch.toml is edited between commands and a log outlives its edits; still
\* all of it was recorded under workflows of one name, and no gate is on it
\* that the rules it was written under do not lead to.
THEOREM LogsObeyTheirWorkflows == Spec => []LogObeysItsWorkflows
<1>1. Init => LogInv
  BY LogStarts
<1>2. LogInv => LogObeysItsWorkflows
  <2> SUFFICES ASSUME LogInv PROVE LogObeysItsWorkflows
    OBVIOUS
  <2> DEFINE governing == {under[i] : i \in DOMAIN under}
             reached == {events[i].body.gate : i \in {k \in DOMAIN events :
                            events[k].body.kind = "GateRecorded"}}
  <2>1. governing \subseteq Workflows
    BY DEF LogInv, Governed
  <2>2. \A w \in governing : header.fingerprint_salt = FingerprintSalt(w)
    BY DEF LogInv, Governed
  <2>3. UNION {DeclaredGates(w) : w \in governing} \subseteq AllGates
    BY <2>1 DEF AllGates
  <2>4. ASSUME NEW S \in SUBSET UNION {DeclaredGates(w) : w \in governing},
               \A w \in governing : Closed(S, w)
        PROVE  reached \subseteq S
    BY <2>3, <2>4 DEF LogInv, Within
  <2> QED  BY <2>2, <2>4 DEF LogObeysItsWorkflows
<1> QED  BY <1>1, <1>2, LogKeeps, PTL DEF Spec

-----------------------------------------------------------------------------
(* The FSM that adopters ask *)

\* Whatever is on the log and whatever the workflow, LifecycleFsm::evaluate on
\* the projections of the log agrees with the precondition of a transition, but
\* for the units in a terminal status.
THEOREM TheLifecycleAgrees == Spec => []LifecycleAgrees
<1>1. LifecycleAgrees
  <2> SUFFICES ASSUME NEW w \in Workflows, NEW target \in Statuses, NEW forced \in BOOLEAN,
                      NEW reason \in Details \cup {None}
        PROVE LET current == C(w)!Summary(events).current_status IN
              C(w)!Precondition(events,
                    [kind |-> "StatusTransitioned", target |-> target, forced |-> forced,
                     rationale |-> reason])
                <=> /\ current \notin w.terminal_statuses
                    /\ Evaluate(w.terminal_statuses,
                          [current |-> current, target |-> target, forced |-> forced,
                           rationale |-> reason,
                           all_phases_resolved |-> C(w)!RequiredPhasesResolved(events)])
    BY Zenon DEF LifecycleAgrees
  <2> DEFINE b == [kind |-> "StatusTransitioned", target |-> target, forced |-> forced,
                   rationale |-> reason]
             current == C(w)!CurrentStatus(events)
             resolved == C(w)!RequiredPhasesResolved(events)
             request == [current |-> current, target |-> target, forced |-> forced,
                         rationale |-> reason, all_phases_resolved |-> resolved]
  <2>1. C(w)!Summary(events).current_status = current
    BY DEF C!Summary
  <2>2. /\ b.kind = "StatusTransitioned" /\ b.target = target /\ b.rationale = reason
        /\ request.current = current /\ request.target = target /\ request.rationale = reason
    OBVIOUS
  <2>3. (b.forced <=> forced) /\ (request.forced <=> forced)
        /\ (request.all_phases_resolved <=> resolved)
    BY Zenon
  <2> HIDE DEF b, request
  <2>4. C(w)!Precondition(events, b) <=> /\ current \notin w.terminal_statuses
                                         /\ C(w)!CanTransition(events, b)
    BY <2>2 DEF C!Precondition, C!AcceptsKind
  <2>5. C(w)!CanTransition(events, b) <=> Evaluate(w.terminal_statuses, request)
    BY <2>2, <2>3 DEF C!CanTransition, Evaluate
  <2> QED  BY <2>1, <2>4, <2>5 DEF b, request
<1> QED  BY <1>1, PTL

-----------------------------------------------------------------------------
(* What init leaves *)

\* A run of init that came upon what found says.
RunOf(found) ==
    [stage : {"none", "config", "hooks", "ignore", "demo", "created", "specified", "done"},
     with_hooks : BOOLEAN, include_optional : BOOLEAN, demo : BOOLEAN, found : {found},
     alone : BOOLEAN, workflow : Workflows \cup {None}]

\* The first append of the demonstration lies behind it.
Demonstrating == init.stage \in {"created", "specified"} \/ (init.stage = "done" /\ init.demo)

\* What a run that nobody has interfered with has done by each stage.
SoFar ==
    /\ init.stage \notin {"none", "config"} => toml = Holding(Canonical)
    /\ init.stage \in {"demo", "created", "specified", "done"} =>
          ToSet(Readable(ignore)) \cap Ignoring # {}
    /\ init.stage # "none" /\ ~init.with_hooks => settings = init.found[1]
    /\ Demonstrating => \E i \in DOMAIN events : events[i].body.kind = "UnitCreated"
    /\ init.stage = "done" /\ init.demo => active

\* The inductive invariant of init and the files it writes.
RunInv ==
    /\ init \in RunOf(init.found)
    /\ Sequence(ignore.lines)
    /\ init.stage = "hooks" => init.with_hooks
    /\ init.alone => SoFar

\* What can be read of .gitignore is a sequence of lines.
LEMMA ReadableLines ==
  ASSUME Sequence(ignore.lines)
  PROVE  Sequence(Readable(ignore))
<1>1. Sequence(<<>>)
  BY DEF Sequence
<1> QED  BY <1>1 DEF Readable

\* The lines init writes ignore .knotch.
LEMMA KnotchIsIgnored ==
  ASSUME NEW l, Sequence(l)
  PROVE  Sequence(WithKnotch(l)) /\ ToSet(WithKnotch(l)) \cap Ignoring # {}
<1>1. CASE ToSet(l) \cap Ignoring # {}
  BY <1>1 DEF WithKnotch
<1>2. CASE ToSet(l) \cap Ignoring = {}
  <2>1. WithKnotch(l) = Append(l, ".knotch/")
    BY <1>2 DEF WithKnotch
  <2> DEFINE m == Append(l, ".knotch/")
  <2>2. Sequence(m) /\ Len(m) = Len(l) + 1 /\ Len(l) \in Nat /\ m[Len(l) + 1] = ".knotch/"
    BY OneMore
  <2>3. DOMAIN m = 1..Len(m)
    BY <2>2, SequenceFacts
  <2> HIDE DEF m
  <2>4. ".knotch/" \in ToSet(m)
    BY <2>2, <2>3 DEF ToSet
  <2>5. ".knotch/" \in Ignoring
    BY DEF Ignoring
  <2> QED  BY <2>1, <2>2, <2>4, <2>5 DEF m
<1> QED  BY <1>1, <1>2

\* A prefix of the lines is a sequence of lines.
LEMMA LinesCutShort ==
  ASSUME NEW l, Sequence(l), NEW n \in 0..Len(l)
  PROVE  Sequence(SubSeq(l, 1, n))
<1>1. PICK S : l \in Seq(S)
  BY DEF Sequence
<1>2. SubSeq(l, 1, n) \in Seq(S)
  BY <1>1
<1> QED  BY <1>2 DEF Sequence

\* A UnitCreated stays on the log.
LEMMA CreatedStays ==
  ASSUME Sequence(events), NEW w, Grown(events, events', w),
         \E i \in DOMAIN events : events[i].body.kind = "UnitCreated"
  PROVE  \E i \in DOMAIN events' : events'[i].body.kind = "UnitCreated"
<1>1. PICK i \in 1..Len(events) : events[i].body.kind = "UnitCreated"
  BY SequenceFacts
<1>2. i \in 1..Len(events') /\ events'[i] = events[i] /\ DOMAIN events' = 1..Len(events')
  <2>1. Sequence(events') /\ Len(events) <= Len(events') /\ events'[i] = events[i]
    BY DEF Grown
  <2>2. Len(events) \in Nat /\ Len(events') \in Nat /\ DOMAIN events' = 1..Len(events')
    BY <2>1, SequenceFacts
  <2> QED  BY <2>1, <2>2
<1> QED  BY <1>1, <1>2

\* A demonstration that was accepted has put a UnitCreated on the log.
LEMMA DemoCreates ==
  ASSUME Sequence(events), NEW w, Takes(w, events, DemoCreated),
         events' = C(w)!Offered(events, DemoCreated)
  PROVE  \E i \in DOMAIN events' : events'[i].body.kind = "UnitCreated"
<1> DEFINE l == C(w)!Offered(events, DemoCreated)
<1>0. DemoCreated.kind = "UnitCreated"
  BY DEF DemoCreated
<1>1. Sequence(l) /\ \E i \in 1..Len(l) : l[i].body.kind = "UnitCreated"
  <2>1. CASE C(w)!IsDuplicate(events, DemoCreated)
    <3>1. l = events
      BY <2>1 DEF C!Offered, C!Admissible
    <3>2. \E i \in DOMAIN events : events[i].body = DemoCreated
      BY <2>1 DEF C!IsDuplicate, C!Fingerprints, C!Fingerprint
    <3> HIDE DEF l
    <3> QED  BY <1>0, <3>1, <3>2, SequenceFacts
  <2>2. CASE ~C(w)!IsDuplicate(events, DemoCreated)
    <3>1. l = Append(events, C(w)!Stamped(events, DemoCreated, 0))
      BY <2>2 DEF C!Offered, C!Admissible, Takes
    <3>2. C(w)!Stamped(events, DemoCreated, 0).body = DemoCreated
      BY DEF C!Stamped
    <3> HIDE DEF l
    <3>3. Sequence(l) /\ Len(l) = Len(events) + 1 /\ Len(events) \in Nat
          /\ l[Len(events) + 1].body = DemoCreated
      BY <3>1, <3>2, OneMore
    <3> QED  BY <1>0, <3>3
  <2> QED  BY <2>1, <2>2
<1> HIDE DEF l
<1>2. events' = l
  BY DEF l
<1>3. DOMAIN l = 1..Len(l)
  BY <1>1, SequenceFacts
<1> QED  BY <1>1, <1>2, <1>3

\* Five things that differ are five.
LEMMA Five ==
  ASSUME NEW a, NEW b, NEW c, NEW d, NEW e,
         b # a, c \notin {a, b}, d \notin {a, b, c}, e \notin {a, b, c, d}
  PROVE  Cardinality({a, b, c, d, e}) = 5
<1>1. Cardinality({a}) = 1 /\ IsFiniteSet({a})
  BY FS_Singleton
<1>2. {a, b} = {a} \cup {b} /\ {a, b, c} = {a, b} \cup {c} /\ {a, b, c, d} = {a, b, c} \cup {d}
      /\ {a, b, c, d, e} = {a, b, c, d} \cup {e}
  OBVIOUS
<1>3. Cardinality({a, b}) = 2 /\ IsFiniteSet({a, b})
  BY <1>1, <1>2, FS_AddElement
<1>4. Cardinality({a, b, c}) = 3 /\ IsFiniteSet({a, b, c})
  BY <1>2, <1>3, FS_AddElement
<1>5. Cardinality({a, b, c, d}) = 4 /\ IsFiniteSet({a, b, c, d})
  BY <1>2, <1>4, FS_AddElement
<1> QED  BY <1>2, <1>5, FS_AddElement

\* The table init writes is one that from_spec accepts.
LEMMA CanonicalIsValid == Valid(Canonical)
<1> USE DEF Canonical
<1>1. /\ DOMAIN Canonical.phases = 1..5 /\ DOMAIN Canonical.gates = 1..5
      /\ Len(Canonical.phases) = 5 /\ Len(Canonical.gates) = 5
  OBVIOUS
<1>2. Ids(Canonical.phases) = {"specify", "plan", "build", "review", "ship"}
  BY DEF Ids, Route
<1>3. Ids(Canonical.gates) = {"g0-scope", "g1-clarify", "g2-plan", "g3-review", "g4-drift"}
  BY DEF Ids, Ladder
<1>4. Cardinality({"specify", "plan", "build", "review", "ship"}) = 5
  BY Five
<1>5. Cardinality({"g0-scope", "g1-clarify", "g2-plan", "g3-review", "g4-drift"}) = 5
  BY Five
<1>6. Distinct(Canonical.phases) /\ Distinct(Canonical.gates)
  BY <1>1, <1>2, <1>3, <1>4, <1>5 DEF Distinct
<1>7. \A i \in DOMAIN Canonical.gates :
          Canonical.gates[i].prerequisites \subseteq DeclaredGates(Canonical)
  BY <1>3 DEF DeclaredGates, Ladder
<1>8. /\ Canonical.default_scope = "standard"
      /\ DOMAIN Canonical.required_phases = {"tiny", "standard"}
      /\ Canonical.required_phases["tiny"] = <<"specify", "build", "ship">>
      /\ Canonical.required_phases["standard"] = Route
  OBVIOUS
<1>9. \A s \in DOMAIN Canonical.required_phases :
         \A k \in DOMAIN Canonical.required_phases[s] :
            Canonical.required_phases[s][k] \in DeclaredPhases(Canonical)
  BY <1>2, <1>8 DEF DeclaredPhases, Route
<1> QED  BY <1>6, <1>7, <1>8, <1>9 DEF Valid

\* A stage is reached, or the run ends, or somebody's edit is noticed: what
\* becomes of init.
LEMMA RunsOn ==
  ASSUME init \in RunOf(init.found)
  PROVE  /\ \A stage \in {"hooks", "ignore", "demo", "specified", "done"} : Reach(stage) =>
               /\ init' \in RunOf(init'.found) /\ init'.stage = stage
               /\ init'.with_hooks = init.with_hooks /\ init'.demo = init.demo
               /\ init'.include_optional = init.include_optional
               /\ init'.alone = init.alone /\ init'.found = init.found
         /\ GiveUp => init' \in RunOf(init'.found) /\ init'.stage = "none"
         /\ Noticed => /\ init' \in RunOf(init'.found)
                       /\ init'.stage = "none" \/ ~init'.alone
                       /\ init'.stage = "none" \/ init'.stage = init.stage
                       /\ init'.stage = "none" \/ init'.with_hooks = init.with_hooks
<1>1. NoInit \in RunOf(NoInit.found) /\ NoInit.stage = "none"
  BY DEF NoInit, RunOf
<1>2. ASSUME NEW stage \in {"hooks", "ignore", "demo", "specified", "done"}, Reach(stage)
      PROVE  /\ init' \in RunOf(init'.found) /\ init'.stage = stage
             /\ init'.with_hooks = init.with_hooks /\ init'.demo = init.demo
             /\ init'.include_optional = init.include_optional
             /\ init'.alone = init.alone /\ init'.found = init.found
  BY <1>2 DEF Reach, RunOf
<1>3. ASSUME Noticed, Running
      PROVE  /\ init' \in RunOf(init'.found) /\ ~init'.alone
             /\ init'.stage = init.stage /\ init'.with_hooks = init.with_hooks
  BY <1>3 DEF Noticed, RunOf
<1>4. ASSUME Noticed, ~Running PROVE init' = NoInit
  BY <1>4 DEF Noticed
<1> QED  BY <1>1, <1>2, <1>3, <1>4 DEF GiveUp

\* A run that ended leaves nothing to keep, but for the lines.
LEMMA NothingToKeep ==
  ASSUME init' \in RunOf(init'.found), init'.stage = "none" \/ ~init'.alone,
         init'.stage = "hooks" => init'.with_hooks, Sequence(ignore'.lines)
  PROVE  RunInv'
  BY DEF RunInv, SoFar, Demonstrating

\* A step of init, or its end by failure or kill.
LEMMA InitStepKeeps ==
  ASSUME RunInv, InitStep, UNCHANGED unit
  PROVE  RunInv'
<1>0. init \in RunOf(init.found) /\ Sequence(ignore.lines)
  BY DEF RunInv
<1>1. ASSUME NEW force \in BOOLEAN, NEW with_hooks \in BOOLEAN,
             NEW include_optional \in BOOLEAN, NEW demo \in BOOLEAN,
             Begin(force, with_hooks, include_optional, demo)
      PROVE  RunInv'
  <2>1. /\ init' \in RunOf(init'.found) /\ init'.stage = "config"
        /\ init'.found = <<settings, ignore>>
    BY <1>1 DEF Begin, RunOf
  <2>2. settings' = settings /\ ignore' = ignore /\ init'.found[1] = settings
    BY <1>1, <2>1 DEF Begin, files
  <2> QED  BY <1>0, <2>1, <2>2 DEF RunInv, SoFar, Demonstrating
<1>2. CASE WriteConfig
  <2>1. \E stage \in {"hooks", "ignore"} : Reach(stage) /\ (stage = "hooks" => init.with_hooks)
    BY <1>2 DEF WriteConfig
  <2>2. /\ init' \in RunOf(init'.found) /\ init'.stage \in {"hooks", "ignore"}
        /\ init'.stage = "hooks" => init'.with_hooks
        /\ init'.with_hooks = init.with_hooks /\ init'.alone = init.alone
        /\ init'.found = init.found
    BY <1>0, <2>1, RunsOn
  <2> QED  BY <1>2, <2>2 DEF WriteConfig, RunInv, SoFar, Demonstrating
<1>3. CASE InstallHooks
  <2>1. ignore' = ignore /\ toml' = toml
    BY <1>3 DEF InstallHooks
  <2>2. CASE GiveUp
    BY <1>0, <2>1, <2>2, RunsOn, NothingToKeep
  <2>3. CASE Reach("ignore")
    <3>1. /\ init' \in RunOf(init'.found) /\ init'.stage = "ignore"
          /\ init'.with_hooks = init.with_hooks /\ init'.alone = init.alone
      BY <1>0, <2>3, RunsOn
    <3>2. init.stage = "hooks" /\ init.with_hooks
      BY <1>3 DEF InstallHooks, RunInv
    <3> QED  BY <1>0, <2>1, <3>1, <3>2 DEF RunInv, SoFar, Demonstrating
  <2> QED  BY <1>3, <2>2, <2>3 DEF InstallHooks
<1>4. CASE EnsureGitignored
  <2>1. \E stage \in {"demo", "done"} : Reach(stage) /\ (stage = "done" => ~init.demo)
    BY <1>0, <1>4 DEF EnsureGitignored, RunOf
  <2>2. /\ init' \in RunOf(init'.found) /\ init'.stage \in {"demo", "done"}
        /\ init'.stage = "done" => ~init'.demo
        /\ init'.with_hooks = init.with_hooks /\ init'.alone = init.alone
        /\ init'.found = init.found
    BY <1>0, <2>1, RunsOn
  <2>3. ignore'.lines = WithKnotch(Readable(ignore)) /\ ignore'.state = "whole"
    BY <1>4 DEF EnsureGitignored
  <2>4. Sequence(ignore'.lines) /\ ToSet(Readable(ignore)') \cap Ignoring # {}
    BY <1>0, <2>3, ReadableLines, KnotchIsIgnored DEF Readable
  <2>5. init.stage = "ignore" /\ toml' = toml /\ settings' = settings
    BY <1>4 DEF EnsureGitignored
  <2> QED  BY <2>2, <2>4, <2>5 DEF RunInv, SoFar, Demonstrating
<1>5. CASE Killed
  <2>1. init' \in RunOf(init'.found) /\ init'.stage = "none"
    BY <1>0, <1>5, RunsOn DEF Killed
  <2>2. Sequence(ignore'.lines)
    <3>1. CASE ignore' = ignore
      BY <1>0, <3>1
    <3>2. CASE \E n \in 0..Len(Readable(ignore)) :
                  ignore' = [state |-> "whole", lines |-> SubSeq(Readable(ignore), 1, n)]
      BY <1>0, <3>2, ReadableLines, LinesCutShort
    <3> QED  BY <1>5, <3>1, <3>2 DEF Killed, files
  <2> QED  BY <2>1, <2>2, NothingToKeep
<1> QED  BY <1>1, <1>2, <1>3, <1>4, <1>5 DEF InitStep

\* An edit leaves a run that is not alone any more, or none.
LEMMA EditKeeps == ASSUME RunInv, Edit PROVE RunInv'
<1>0. init \in RunOf(init.found) /\ Sequence(ignore.lines)
  BY DEF RunInv
<1>1. Noticed
  BY DEF Edit, EditConfig, EditSettings, SpoilSettings, EditIgnore
<1>2. /\ init' \in RunOf(init'.found) /\ (init'.stage = "none" \/ ~init'.alone)
      /\ init'.stage = "hooks" => init'.with_hooks
  BY <1>0, <1>1, RunsOn DEF RunInv
<1>3. Sequence(ignore'.lines)
  <2>1. CASE ignore' = ignore
    BY <1>0, <2>1
  <2>2. CASE \E line \in Lines :
                ignore' = [state |-> "whole", lines |-> Append(Readable(ignore), line)]
    BY <1>0, <2>2, ReadableLines, OneMore
  <2>3. CASE ignore' = [state |-> "unreadable", lines |-> <<>>]
    <3>1. Sequence(<<>>)
      BY DEF Sequence
    <3> QED  BY <2>3, <3>1
  <2> QED  BY <2>1, <2>2, <2>3 DEF Edit, EditConfig, EditSettings, SpoilSettings, EditIgnore
<1> QED  BY <1>2, <1>3, NothingToKeep

\* Every step of the project keeps what is known of its init.
LEMMA RunKeeps == LogInv /\ RunInv /\ [Next]_vars => RunInv'
<1> SUFFICES ASSUME LogInv, RunInv, [Next]_vars PROVE RunInv'
  OBVIOUS
<1>0. Sequence(events) /\ init \in RunOf(init.found) /\ Sequence(ignore.lines)
  BY DEF LogInv, Governed, RunInv
<1>1. CASE UNCHANGED <<files, init, unit>>
  BY <1>1 DEF RunInv, SoFar, Demonstrating, files, unit, Readable
<1>2. CASE InitStep /\ UNCHANGED unit
  BY <1>2, InitStepKeeps
<1>3. CASE Edit
  BY <1>3, EditKeeps
<1>4. CASE CreateDemo
  <2>1. PICK w \in Workflows :
           /\ Takes(w, events, DemoCreated) /\ events' = C(w)!Offered(events, DemoCreated)
           /\ init' = [init EXCEPT !.stage = "created", !.workflow = w]
           /\ UNCHANGED files /\ init.stage = "demo"
    BY <1>4 DEF CreateDemo
  <2>2. \E i \in DOMAIN events' : events'[i].body.kind = "UnitCreated"
    BY <1>0, <2>1, DemoCreates
  <2>3. /\ init' \in RunOf(init'.found) /\ init'.stage = "created"
        /\ init'.with_hooks = init.with_hooks /\ init'.alone = init.alone
        /\ init'.found = init.found
    BY <1>0, <2>1 DEF RunOf
  <2>4. toml' = toml /\ settings' = settings /\ ignore' = ignore
    BY <2>1 DEF files
  <2> QED  BY <1>0, <2>1, <2>2, <2>3, <2>4 DEF RunInv, SoFar, Demonstrating, Readable
<1>5. CASE SpecifyDemo \/ UseDemo
  <2>1. /\ \/ init.stage = "created" /\ Reach("specified")
           \/ init.stage = "specified" /\ Reach("done") /\ active' = TRUE
        /\ toml' = toml /\ settings' = settings /\ ignore' = ignore
    BY <1>5 DEF SpecifyDemo, UseDemo, files
  <2>2. (\E i \in DOMAIN events : events[i].body.kind = "UnitCreated")
        => \E i \in DOMAIN events' : events'[i].body.kind = "UnitCreated"
    <3>1. CASE SpecifyDemo
      <4>1. PICK w : events' = C(w)!Offered(events, DemoSpecified)
        BY <3>1 DEF SpecifyDemo
      <4>2. Grown(events, events', w)
        BY <1>0, <4>1, DemoGrows
      <4> QED  BY <1>0, <4>2, CreatedStays
    <3>2. CASE UseDemo
      BY <3>2 DEF UseDemo
    <3> QED  BY <1>5, <3>1, <3>2
  <2>3. /\ init' \in RunOf(init'.found)
        /\ \/ init.stage = "created" /\ init'.stage = "specified"
           \/ init.stage = "specified" /\ init'.stage = "done" /\ active' = TRUE
        /\ init'.with_hooks = init.with_hooks /\ init'.alone = init.alone
        /\ init'.found = init.found
    BY <1>0, <2>1, RunsOn
  <2> QED  BY <1>0, <2>1, <2>2, <2>3 DEF RunInv, SoFar, Demonstrating, Readable
<1>6. CASE Work
  <2>1. PICK w : C(w)!Command
    BY <1>6 DEF Work
  <2>2. Grown(events, events', w)
    BY <1>0, <2>1, CommandGrows
  <2>3. /\ init' = init /\ active' = active
        /\ toml' = toml /\ settings' = settings /\ ignore' = ignore
    BY <1>6 DEF Work, files
  <2>4. (\E i \in DOMAIN events : events[i].body.kind = "UnitCreated")
        => \E i \in DOMAIN events' : events'[i].body.kind = "UnitCreated"
    BY <1>0, <2>2, CreatedStays
  <2> QED  BY <2>3, <2>4 DEF RunInv, SoFar, Demonstrating, Readable
<1> QED  BY <1>1, <1>2, <1>3, <1>4, <1>5, <1>6 DEF Next, vars

\* What an init that nobody interfered with leaves, as far as it does not turn on
\* how lists of hooks and lines are merged.
InitSatisfiesDoctor ==
    init.stage = "done" /\ init.alone =>
        /\ Doctor = {"ok"}
        /\ ~init.with_hooks => settings = init.found[1]
        /\ init.demo => active /\ events # <<>>

\* Before the first init there is nothing to keep.
LEMMA RunStarts == Init => RunInv
<1> SUFFICES ASSUME Init PROVE RunInv
  OBVIOUS
<1>1. init = NoInit /\ ignore.lines = <<>> /\ Sequence(<<>>)
  BY DEF Init, InitScaffold, Sequence
<1>2. init \in RunOf(init.found) /\ init.stage = "none"
  BY <1>1 DEF NoInit, RunOf
<1> QED  BY <1>1, <1>2 DEF RunInv, SoFar, Demonstrating

\* What the invariants say of a run that is done.
LEMMA RunSatisfiesDoctor == LogInv /\ RunInv => InitSatisfiesDoctor
<1> SUFFICES ASSUME LogInv, RunInv, init.stage = "done", init.alone
             PROVE  /\ Doctor = {"ok"}
                    /\ ~init.with_hooks => settings = init.found[1]
                    /\ init.demo => active /\ events # <<>>
  BY DEF InitSatisfiesDoctor
<1>1. toml = Holding(Canonical) /\ ToSet(Readable(ignore)) \cap Ignoring # {}
  BY DEF RunInv, SoFar
<1>2. toml.state = "whole" /\ toml.workflow = Canonical
  BY <1>1 DEF Holding
<1>3. CheckConfigFile = "ok"
  BY <1>2 DEF CheckConfigFile
<1>4. CheckWorkflow = "ok"
  BY <1>2, CanonicalIsValid DEF CheckWorkflow, Resolves, Configured
<1>5. CheckGitignore = "ok"
  BY <1>1 DEF CheckGitignore
<1>6. init.demo => active /\ \E i \in DOMAIN events : events[i].body.kind = "UnitCreated"
  BY DEF RunInv, SoFar, Demonstrating
<1>7. init.demo => active /\ events # <<>> /\ CheckUnitCreatedAnchors = "ok"
  BY <1>6 DEF CheckUnitCreatedAnchors
<1>8. Doctor = {"ok"}
  BY <1>3, <1>4, <1>5, <1>7 DEF Doctor
<1>9. ~init.with_hooks => settings = init.found[1]
  BY DEF RunInv, SoFar
<1> QED  BY <1>7, <1>8, <1>9

\* init.rs, run: whatever the files were, whatever edits, failures and kills came
\* before, an init that runs to its end with nobody interfering satisfies
\* doctor, touches no settings unasked, and has its demonstration on the log.
THEOREM InitsSatisfyDoctor == Spec => []InitSatisfiesDoctor
  BY LogStarts, RunStarts, LogKeeps, RunKeeps, RunSatisfiesDoctor, PTL DEF Spec

-----------------------------------------------------------------------------
(* Sequences of which some positions are kept *)

\* Positions are finitely many.
LEMMA PositionsFinite ==
  ASSUME NEW n \in Nat, NEW K \in SUBSET (1..n)
  PROVE  IsFiniteSet(K) /\ Cardinality(K) \in Nat
<1>1. IsFiniteSet(1..n)
  BY FS_Interval
<1> QED  BY <1>1, FS_Subset, FS_CardinalityType

\* f goes through K from its first position to its last.
Turns(f, K) ==
    /\ f \in [1..Cardinality(K) -> K]
    /\ \A i, j \in 1..Cardinality(K) : i < j => f[i] < f[j]

\* Positions of a sequence can be gone through in turn, and all of them are:
\* by the least length of which that would fail.
LEMMA TurnsExist ==
  ASSUME NEW n \in Nat, NEW K \in SUBSET (1..n)
  PROVE  \E f : Turns(f, K) /\ \A k \in K : \E i \in 1..Cardinality(K) : f[i] = k
<1> DEFINE Through(f, J) == Turns(f, J) /\ \A k \in J : \E i \in 1..Cardinality(J) : f[i] = k
           T == {m \in Nat : \E J \in SUBSET (1..m) : ~\E f : Through(f, J)}
           R == {ss \in Nat \X Nat : ss[1] < ss[2]}
<1> HIDE DEF Through
<1>1. ASSUME NEW m \in T, \A k \in T : <<k, m>> \notin R
      PROVE  FALSE
  <2>1. PICK J \in SUBSET (1..m) : ~\E f : Through(f, J)
    OBVIOUS
  <2>2. CASE m = 0
    <3>1. J = {} /\ Cardinality({}) = 0
      BY <2>2, FS_EmptySet
    <3>2. Through([i \in {} |-> 0], J)
      BY <3>1 DEF Through, Turns
    <3> QED  BY <2>1, <3>2
  <2>3. CASE m # 0
    <3> DEFINE I == J \ {m}
    <3>1. m - 1 \in Nat /\ I \in SUBSET (1..(m - 1)) /\ m \in Nat
      BY <2>3
    <3>2. m - 1 \notin T
      <4>1. <<m - 1, m>> \in Nat \X Nat /\ <<m - 1, m>>[1] < <<m - 1, m>>[2]
        BY <3>1
      <4> QED  BY <1>1, <4>1
    <3>3. PICK f : Through(f, I)
      BY <3>1, <3>2
    <3>4. CASE m \notin J
      <4>1. I = J
        BY <3>4
      <4> QED  BY <2>1, <3>3, <4>1
    <3>5. CASE m \in J
      <4>1. J = I \cup {m} /\ m \notin I
        BY <3>5
      <4>2. IsFiniteSet(I)
        BY <3>1, PositionsFinite
      <4> DEFINE c == Cardinality(I)
                 g == [i \in 1..(c + 1) |-> IF i = c + 1 THEN m ELSE f[i]]
      <4>3. c \in Nat /\ Cardinality(J) = c + 1
        BY <4>1, <4>2, FS_AddElement, FS_CardinalityType
      <4>4. /\ f \in [1..c -> I] /\ \A i, j \in 1..c : i < j => f[i] < f[j]
            /\ \A k \in I : \E i \in 1..c : f[i] = k
        BY <3>3 DEF Through, Turns
      <4> HIDE DEF I, c
      <4>5. g \in [1..(c + 1) -> J]
        BY <4>1, <4>3, <4>4
      <4>6. \A i, j \in 1..(c + 1) : i < j => g[i] < g[j]
        <5> SUFFICES ASSUME NEW i \in 1..(c + 1), NEW j \in 1..(c + 1), i < j PROVE g[i] < g[j]
          OBVIOUS
        <5>1. i \in 1..c /\ g[i] = f[i]
          BY <4>3
        <5>0. f[i] \in 1..(m - 1)
          BY <3>1, <4>4, <5>1 DEF I
        <5>2. CASE j = c + 1
          BY <5>1, <5>0, <5>2, <3>1, <4>3
        <5>3. CASE j # c + 1
          <6>1. j \in 1..c /\ g[j] = f[j]
            BY <5>3, <4>3
          <6> QED  BY <5>1, <6>1, <4>4
        <5> QED  BY <5>2, <5>3
      <4>7. \A k \in J : \E i \in 1..(c + 1) : g[i] = k
        <5> SUFFICES ASSUME NEW k \in J PROVE \E i \in 1..(c + 1) : g[i] = k
          OBVIOUS
        <5>1. CASE k = m
          <6>1. c + 1 \in 1..(c + 1) /\ g[c + 1] = m
            BY <4>3
          <6> QED  BY <5>1, <6>1
        <5>2. CASE k \in I
          <6>1. PICK i \in 1..c : f[i] = k
            BY <5>2, <4>4
          <6>2. i \in 1..(c + 1) /\ g[i] = f[i]
            BY <4>3, <6>1
          <6> QED  BY <6>1, <6>2
        <5> QED  BY <4>1, <5>1, <5>2
      <4> HIDE DEF g
      <4>8. Through(g, J)
        BY <4>3, <4>5, <4>6, <4>7 DEF Through, Turns
      <4> QED  BY <2>1, <4>8
    <3> QED  BY <3>4, <3>5
  <2> QED  BY <2>2, <2>3
<1>2. IsWellFoundedOn(R, Nat)
  BY NatLessThanWellFounded DEF OpToRel
<1>3. T = {}
  <2>1. T \in SUBSET Nat
    OBVIOUS
  <2> HIDE DEF T, R
  <2> QED  BY <1>1, <1>2, <2>1, WFMin
<1>4. \E f : Through(f, K)
  BY <1>3
<1> QED  BY <1>4 DEF Through

\* InTurn is such a way, and leaves no position out.
LEMMA InTurnTurns ==
  ASSUME NEW n \in Nat, NEW K \in SUBSET (1..n)
  PROVE  /\ Cardinality(K) \in Nat
         /\ Turns(InTurn(K), K)
         /\ \A k \in K : \E i \in 1..Cardinality(K) : InTurn(K)[i] = k
<1>1. IsFiniteSet(K) /\ Cardinality(K) \in Nat
  BY PositionsFinite
<1>0. \A k \in K : k \in Int
  OBVIOUS
<1> DEFINE c == Cardinality(K)
           f == InTurn(K)
<1>2. f \in [1..c -> K] /\ \A i, j \in DOMAIN f : i < j => f[i] < f[j]
  <2>1. PICK g : g \in [1..c -> K] /\ \A i, j \in DOMAIN g : i < j => g[i] < g[j]
    BY TurnsExist DEF Turns
  <2> QED  BY <2>1 DEF InTurn
<1> HIDE DEF f
<1>3. Turns(f, K)
  BY <1>2 DEF Turns
<1>4. \A k \in K : \E i \in 1..c : f[i] = k
  <2>1. IsFiniteSet(1..c) /\ Cardinality(1..c) = c
    BY <1>1, FS_Interval
  <2> HIDE DEF c
  <2>2. \A i, j \in 1..c : f[i] = f[j] => i = j
    <3> SUFFICES ASSUME NEW i \in 1..c, NEW j \in 1..c, i # j PROVE f[i] # f[j]
      OBVIOUS
    <3>1. i < j \/ j < i
      BY <1>1 DEF c
    <3>2. f[i] < f[j] \/ f[j] < f[i]
      BY <1>2, <3>1
    <3>3. f[i] \in Int /\ f[j] \in Int
      <4>1. f[i] \in K /\ f[j] \in K
        BY <1>2 DEF c
      <4> QED  BY <4>1, <1>0
    <3> QED  BY <3>2, <3>3
  <2>3. f \in Injection(1..c, K)
    BY <1>2, <2>2 DEF Injection, IsInjective
  <2>4. f \in Surjection(1..c, K)
    BY <1>1, <2>1, <2>3, FS_Injection DEF c
  <2> QED  BY <2>4 DEF Surjection
<1> QED  BY <1>1, <1>3, <1>4 DEF f

\* What Kept keeps of a sequence: its elements at those positions, each once, in
\* their order.
LEMMA KeptFacts ==
  ASSUME NEW S, NEW s \in Seq(S), NEW K \in SUBSET (1..Len(s))
  PROVE  /\ Kept(s, K) \in Seq(S) /\ Len(Kept(s, K)) = Cardinality(K)
         /\ \A n \in 1..Len(Kept(s, K)) :
               InTurn(K)[n] \in K /\ Kept(s, K)[n] = s[InTurn(K)[n]]
         /\ \A m, n \in 1..Len(Kept(s, K)) : m < n => InTurn(K)[m] < InTurn(K)[n]
         /\ \A k \in K : \E n \in 1..Len(Kept(s, K)) : InTurn(K)[n] = k
<1>0. Len(s) \in Nat /\ \A k \in K : s[k] \in S
  OBVIOUS
<1> DEFINE c == Cardinality(K)
           f == InTurn(K)
           t == Kept(s, K)
<1>1. c \in Nat /\ Turns(f, K) /\ \A k \in K : \E n \in 1..c : f[n] = k
  BY <1>0, InTurnTurns
<1>2. t = [n \in 1..c |-> s[f[n]]]
  BY DEF Kept
<1> HIDE DEF c, f, t
<1>3. f \in [1..c -> K] /\ \A m, n \in 1..c : m < n => f[m] < f[n]
  BY <1>1 DEF Turns, c
<1>4. \A n \in 1..c : f[n] \in K /\ s[f[n]] \in S
  BY <1>0, <1>3
<1>5. t \in Seq(S) /\ Len(t) = c
  BY <1>1, <1>2, <1>4
<1>6. \A n \in 1..c : t[n] = s[f[n]]
  BY <1>2
<1> QED  BY <1>1, <1>3, <1>4, <1>5, <1>6 DEF c, f, t

-----------------------------------------------------------------------------
(* Entries that have the same commands in the same order *)

\* The places of entries.
LEMMA PlacesAre ==
  ASSUME NEW S, NEW x \in Seq(Seq(S)), NEW m
  PROVE  \A p : p \in Places(x, m) <=>
            /\ p = <<p[1], p[2]>> /\ p[1] \in 1..Len(x) /\ p[2] \in 1..Len(x[p[1]])
            /\ IsKnotchManaged(x[p[1]][p[2]]) <=> m
<1>1. DOMAIN x = 1..Len(x) /\ \A i \in 1..Len(x) : DOMAIN x[i] = 1..Len(x[i])
  OBVIOUS
<1>2. \A p : p \in UNION {{i} \X DOMAIN x[i] : i \in DOMAIN x} <=>
                 p = <<p[1], p[2]>> /\ p[1] \in 1..Len(x) /\ p[2] \in 1..Len(x[p[1]])
  BY <1>1
<1> QED  BY <1>2 DEF Places

\* A place is a pair of numbers, so that two of them are the same or one is earlier.
LEMMA PlacesInOrder ==
  ASSUME NEW S, NEW x \in Seq(Seq(S)), NEW m,
         NEW p \in Places(x, m), NEW q \in Places(x, m)
  PROVE  /\ p = q \/ Earlier(p, q) \/ Earlier(q, p)
         /\ Earlier(p, q) => ~Earlier(q, p)
<1>1. /\ p = <<p[1], p[2]>> /\ p[1] \in 1..Len(x) /\ p[2] \in 1..Len(x[p[1]])
      /\ q = <<q[1], q[2]>> /\ q[1] \in 1..Len(x) /\ q[2] \in 1..Len(x[q[1]])
  BY PlacesAre
<1>2. p[1] \in Int /\ p[2] \in Int /\ q[1] \in Int /\ q[2] \in Int
  BY <1>1
<1>3. p[1] = q[1] /\ p[2] = q[2] => p = q
  BY <1>1
<1> QED  BY <1>2, <1>3 DEF Earlier

\* f shows that x and y have the same commands in the same order.
Matches(f, x, y, m) ==
    /\ f \in [Places(x, m) -> Places(y, m)]
    /\ \A q \in Places(y, m) : \E p \in Places(x, m) : f[p] = q
    /\ \A p, q \in Places(x, m) : Earlier(p, q) => Earlier(f[p], f[q])
    /\ \A p \in Places(x, m) : y[f[p][1]][f[p][2]] = x[p[1]][p[2]]

\* SameInOrder is that there is such an f.
LEMMA MatchesShow ==
  ASSUME NEW x, NEW y, NEW m
  PROVE  SameInOrder(x, y, m) <=> \E f : Matches(f, x, y, m)
<1>1. ASSUME NEW f \in [Places(x, m) -> Places(y, m)]
      PROVE  DOMAIN f = Places(x, m)
  OBVIOUS
<1> QED  BY <1>1 DEF SameInOrder, Matches

\* If x is as y then y is as x.
LEMMA SameBack ==
  ASSUME NEW S, NEW x \in Seq(Seq(S)), NEW y \in Seq(Seq(S)), NEW m, SameInOrder(x, y, m)
  PROVE  SameInOrder(y, x, m)
<1> DEFINE P == Places(x, m)
           Q == Places(y, m)
<1>1. PICK f : Matches(f, x, y, m)
  BY MatchesShow
<1> DEFINE g == [q \in Q |-> CHOOSE p \in P : f[p] = q]
<1>2. /\ f \in [P -> Q] /\ \A q \in Q : \E p \in P : f[p] = q
      /\ \A p, q \in P : Earlier(p, q) => Earlier(f[p], f[q])
      /\ \A p \in P : y[f[p][1]][f[p][2]] = x[p[1]][p[2]]
  BY <1>1 DEF Matches
<1>3. \A p, q \in P : /\ p = q \/ Earlier(p, q) \/ Earlier(q, p)
                      /\ Earlier(p, q) => ~Earlier(q, p)
  BY PlacesInOrder
<1>4. \A p, q \in Q : Earlier(p, q) => ~Earlier(q, p)
  BY PlacesInOrder
<1> HIDE DEF P, Q
<1>5. g \in [Q -> P] /\ \A q \in Q : g[q] \in P /\ f[g[q]] = q
  BY <1>2
<1> HIDE DEF g
<1>6. \A p \in P : f[p] \in Q /\ g[f[p]] = p
  <2> SUFFICES ASSUME NEW p \in P PROVE f[p] \in Q /\ g[f[p]] = p
    OBVIOUS
  <2>1. f[p] \in Q
    BY <1>2
  <2>2. g[f[p]] \in P /\ f[g[f[p]]] = f[p]
    BY <1>5, <2>1
  <2>3. ~Earlier(f[p], f[p])
    BY <1>4, <2>1
  <2>4. ~Earlier(p, g[f[p]]) /\ ~Earlier(g[f[p]], p)
    BY <1>2, <2>2, <2>3
  <2> QED  BY <1>3, <2>1, <2>2, <2>4
<1>7. \A q, r \in Q : Earlier(q, r) => Earlier(g[q], g[r])
  <2> SUFFICES ASSUME NEW q \in Q, NEW r \in Q, Earlier(q, r) PROVE Earlier(g[q], g[r])
    OBVIOUS
  <2>1. g[q] \in P /\ g[r] \in P /\ f[g[q]] = q /\ f[g[r]] = r
    BY <1>5
  <2>2. ~Earlier(r, q) /\ q # r
    BY <1>4
  <2>3. ~Earlier(g[r], g[q]) /\ g[q] # g[r]
    BY <1>2, <2>1, <2>2
  <2> QED  BY <1>3, <2>1, <2>3
<1>8. \A q \in Q : x[g[q][1]][g[q][2]] = y[q[1]][q[2]]
  BY <1>2, <1>5
<1>9. Matches(g, y, x, m)
  <2>1. \A p \in P : \E q \in Q : g[q] = p
    BY <1>6
  <2> QED  BY <1>5, <1>7, <1>8, <2>1 DEF Matches, P, Q
<1> QED  BY <1>9, MatchesShow

\* If x is as y and y as z then x is as z.
LEMMA SameThrough ==
  ASSUME NEW x, NEW y, NEW z, NEW m, SameInOrder(x, y, m), SameInOrder(y, z, m)
  PROVE  SameInOrder(x, z, m)
<1>1. PICK f : Matches(f, x, y, m)
  BY MatchesShow
<1>2. PICK g : Matches(g, y, z, m)
  BY MatchesShow
<1> DEFINE P == Places(x, m)
           Q == Places(y, m)
           R == Places(z, m)
           h == [p \in P |-> g[f[p]]]
<1>3. /\ f \in [P -> Q] /\ \A q \in Q : \E p \in P : f[p] = q
      /\ \A p, q \in P : Earlier(p, q) => Earlier(f[p], f[q])
      /\ \A p \in P : y[f[p][1]][f[p][2]] = x[p[1]][p[2]]
  BY <1>1 DEF Matches
<1>4. /\ g \in [Q -> R] /\ \A r \in R : \E q \in Q : g[q] = r
      /\ \A p, q \in Q : Earlier(p, q) => Earlier(g[p], g[q])
      /\ \A q \in Q : z[g[q][1]][g[q][2]] = y[q[1]][q[2]]
  BY <1>2 DEF Matches
<1> HIDE DEF P, Q, R
<1>5. h \in [P -> R] /\ \A p \in P : f[p] \in Q /\ h[p] = g[f[p]]
  BY <1>3, <1>4
<1> HIDE DEF h
<1>6. \A r \in R : \E p \in P : h[p] = r
  BY <1>3, <1>4, <1>5
<1>7. \A p, q \in P : Earlier(p, q) => Earlier(h[p], h[q])
  BY <1>3, <1>4, <1>5
<1>8. \A p \in P : z[h[p][1]][h[p][2]] = x[p[1]][p[2]]
  BY <1>3, <1>4, <1>5
<1>9. Matches(h, x, z, m)
  BY <1>5, <1>6, <1>7, <1>8 DEF Matches, P, R
<1> QED  BY <1>9, MatchesShow

\* Stripping knotch's commands off every entry keeps the others.
LEMMA StripKeepsOthers ==
  ASSUME NEW S, NEW x \in Seq(Seq(S))
  PROVE  /\ StripEach(x) \in Seq(Seq(S)) /\ Places(StripEach(x), TRUE) = {}
         /\ SameInOrder(StripEach(x), x, FALSE)
<1> DEFINE y == StripEach(x)
           K(i) == {k \in DOMAIN x[i] : ~IsKnotchManaged(x[i][k])}
<1>1. ASSUME NEW i \in 1..Len(x)
      PROVE  x[i] \in Seq(S) /\ K(i) \in SUBSET (1..Len(x[i])) /\ DOMAIN x[i] = 1..Len(x[i])
  OBVIOUS
<1>2. y = [i \in 1..Len(x) |-> Kept(x[i], K(i))]
  BY DEF StripEach, OtherCommands
<1> HIDE DEF y
<1>3. ASSUME NEW i \in 1..Len(x)
      PROVE  /\ y[i] = Kept(x[i], K(i)) /\ y[i] \in Seq(S)
             /\ \A n \in 1..Len(y[i]) : InTurn(K(i))[n] \in K(i) /\ y[i][n] = x[i][InTurn(K(i))[n]]
             /\ \A m, n \in 1..Len(y[i]) : m < n => InTurn(K(i))[m] < InTurn(K(i))[n]
             /\ \A k \in K(i) : \E n \in 1..Len(y[i]) : InTurn(K(i))[n] = k
  <2>1. y[i] = Kept(x[i], K(i))
    BY <1>2
  <2>2. PICK s \in Seq(S) : s = x[i]
    BY <1>1
  <2>5. PICK J \in SUBSET (1..Len(s)) : J = K(i)
    BY <1>1, <2>2
  <2>3. /\ Kept(s, J) \in Seq(S)
        /\ \A n \in 1..Len(Kept(s, J)) :
              InTurn(J)[n] \in J /\ Kept(s, J)[n] = s[InTurn(J)[n]]
        /\ \A m, n \in 1..Len(Kept(s, J)) : m < n => InTurn(J)[m] < InTurn(J)[n]
        /\ \A k \in J : \E n \in 1..Len(Kept(s, J)) : InTurn(J)[n] = k
    BY KeptFacts
  <2> HIDE DEF K
  <2>4. y[i] = Kept(s, J)
    BY <2>1, <2>2, <2>5
  <2> QED  BY <2>2, <2>3, <2>4, <2>5
<1>4. y \in Seq(Seq(S)) /\ Len(y) = Len(x)
  <2>1. Len(x) \in Nat /\ DOMAIN y = 1..Len(x) /\ y = [i \in 1..Len(x) |-> y[i]]
    BY <1>2
  <2>2. \A i \in 1..Len(x) : y[i] \in Seq(S)
    BY <1>3
  <2> QED  BY <2>1, <2>2
<1> DEFINE P == Places(y, FALSE)
           Q == Places(x, FALSE)
           f == [p \in P |-> <<p[1], InTurn(K(p[1]))[p[2]]>>]
<1>5. \A p : p \in P <=>
          /\ p = <<p[1], p[2]>> /\ p[1] \in 1..Len(x) /\ p[2] \in 1..Len(y[p[1]])
          /\ ~IsKnotchManaged(y[p[1]][p[2]])
  BY <1>4, PlacesAre
<1>6. \A q : q \in Q <=>
          /\ q = <<q[1], q[2]>> /\ q[1] \in 1..Len(x) /\ q[2] \in 1..Len(x[q[1]])
          /\ ~IsKnotchManaged(x[q[1]][q[2]])
  BY PlacesAre
<1>7. \A i \in 1..Len(x) : \A k : k \in K(i) <=> k \in 1..Len(x[i]) /\ ~IsKnotchManaged(x[i][k])
  BY <1>1
<1> HIDE DEF P, Q, K
<1>8. ASSUME NEW p \in P
      PROVE  f[p] \in Q /\ f[p][1] = p[1] /\ f[p][2] = InTurn(K(p[1]))[p[2]]
             /\ x[f[p][1]][f[p][2]] = y[p[1]][p[2]]
  <2>1. p[1] \in 1..Len(x) /\ p[2] \in 1..Len(y[p[1]])
    BY <1>5
  <2>2. PICK k : k = InTurn(K(p[1]))[p[2]]
    OBVIOUS
  <2>3. k \in K(p[1]) /\ y[p[1]][p[2]] = x[p[1]][k]
    BY <1>3, <2>1, <2>2
  <2>4. k \in 1..Len(x[p[1]]) /\ ~IsKnotchManaged(x[p[1]][k])
    BY <1>7, <2>1, <2>3
  <2>5. f[p] = <<p[1], k>>
    BY <2>2
  <2>6. <<p[1], k>> \in Q
    BY <1>6, <2>1, <2>4
  <2> QED  BY <2>2, <2>3, <2>5, <2>6
<1>9. f \in [P -> Q]
  BY <1>8
<1> HIDE DEF f
<1>10. ASSUME NEW q \in Q PROVE \E p \in P : f[p] = q
  <2>1. q = <<q[1], q[2]>> /\ q[1] \in 1..Len(x) /\ q[2] \in K(q[1]) /\ ~IsKnotchManaged(x[q[1]][q[2]])
    BY <1>6, <1>7
  <2>2. PICK n \in 1..Len(y[q[1]]) : InTurn(K(q[1]))[n] = q[2]
    BY <1>3, <2>1
  <2>3. y[q[1]][n] = x[q[1]][q[2]]
    BY <1>3, <2>1, <2>2
  <2>4. <<q[1], n>> \in P
    BY <1>5, <2>1, <2>2, <2>3
  <2>5. f[<<q[1], n>>] = <<q[1], q[2]>>
    BY <2>2, <2>4 DEF f
  <2> QED  BY <2>1, <2>4, <2>5
<1>11. ASSUME NEW p \in P, NEW q \in P, Earlier(p, q) PROVE Earlier(f[p], f[q])
  <2>1. p[1] \in 1..Len(x) /\ p[2] \in 1..Len(y[p[1]]) /\ q[2] \in 1..Len(y[q[1]])
    BY <1>5
  <2>2. p[1] = q[1] /\ p[2] < q[2] => InTurn(K(p[1]))[p[2]] < InTurn(K(q[1]))[q[2]]
    BY <1>3, <2>1
  <2> QED  BY <1>8, <1>11, <2>2 DEF Earlier
<1>12. Matches(f, y, x, FALSE)
  BY <1>8, <1>9, <1>10, <1>11 DEF Matches, P, Q
<1>13. Places(y, TRUE) = {}
  <2> SUFFICES ASSUME NEW p \in Places(y, TRUE) PROVE FALSE
    OBVIOUS
  <2>1. p[1] \in 1..Len(x) /\ p[2] \in 1..Len(y[p[1]]) /\ IsKnotchManaged(y[p[1]][p[2]])
    BY <1>4, PlacesAre
  <2>2. InTurn(K(p[1]))[p[2]] \in K(p[1]) /\ y[p[1]][p[2]] = x[p[1]][InTurn(K(p[1]))[p[2]]]
    BY <1>3, <2>1
  <2> QED  BY <1>7, <2>1, <2>2
<1>14. SameInOrder(y, x, FALSE)
  BY <1>12, MatchesShow
<1> QED  BY <1>4, <1>13, <1>14 DEF y

\* Dropping the entries that are empty drops no command.
LEMMA DropKeepsCommands ==
  ASSUME NEW S, NEW x \in Seq(Seq(S)), NEW m
  PROVE  /\ DropEmpty(x) \in Seq(Seq(S))
         /\ SameInOrder(DropEmpty(x), x, m)
<1> DEFINE y == DropEmpty(x)
           K == {i \in DOMAIN x : x[i] # <<>>}
           g == InTurn(K)
<1>1. K \in SUBSET (1..Len(x)) /\ \A i \in 1..Len(x) : i \in K <=> x[i] # <<>>
  OBVIOUS
<1>2. y = Kept(x, K)
  BY DEF DropEmpty
<1> HIDE DEF y, K
<1>3. /\ y \in Seq(Seq(S))
      /\ \A n \in 1..Len(y) : g[n] \in K /\ y[n] = x[g[n]]
      /\ \A i, n \in 1..Len(y) : i < n => g[i] < g[n]
      /\ \A i \in K : \E n \in 1..Len(y) : g[n] = i
  BY <1>1, <1>2, KeptFacts
<1> DEFINE P == Places(y, m)
           Q == Places(x, m)
           f == [p \in P |-> <<g[p[1]], p[2]>>]
<1>5. \A p : p \in P <=>
          /\ p = <<p[1], p[2]>> /\ p[1] \in 1..Len(y) /\ p[2] \in 1..Len(y[p[1]])
          /\ IsKnotchManaged(y[p[1]][p[2]]) <=> m
  BY <1>3, PlacesAre
<1>6. \A q : q \in Q <=>
          /\ q = <<q[1], q[2]>> /\ q[1] \in 1..Len(x) /\ q[2] \in 1..Len(x[q[1]])
          /\ IsKnotchManaged(x[q[1]][q[2]]) <=> m
  BY PlacesAre
<1> HIDE DEF P, Q, g
<1>8. ASSUME NEW p \in P
      PROVE  f[p] \in Q /\ f[p][1] = g[p[1]] /\ f[p][2] = p[2]
             /\ x[f[p][1]][f[p][2]] = y[p[1]][p[2]]
  <2>1. /\ p[1] \in 1..Len(y) /\ p[2] \in 1..Len(y[p[1]])
        /\ IsKnotchManaged(y[p[1]][p[2]]) <=> m
    BY <1>5
  <2>2. g[p[1]] \in 1..Len(x) /\ y[p[1]] = x[g[p[1]]]
    BY <1>1, <1>3, <2>1
  <2>3. f[p] = <<g[p[1]], p[2]>>
    OBVIOUS
  <2>4. <<g[p[1]], p[2]>> \in Q
    BY <1>6, <2>1, <2>2
  <2> QED  BY <2>2, <2>3, <2>4
<1>9. f \in [P -> Q]
  BY <1>8
<1> HIDE DEF f
<1>10. ASSUME NEW q \in Q PROVE \E p \in P : f[p] = q
  <2>1. /\ q = <<q[1], q[2]>> /\ q[1] \in 1..Len(x) /\ q[2] \in 1..Len(x[q[1]])
        /\ IsKnotchManaged(x[q[1]][q[2]]) <=> m
    BY <1>6
  <2>2. x[q[1]] # <<>>
    BY <2>1
  <2>3. PICK n \in 1..Len(y) : g[n] = q[1]
    BY <1>1, <1>3, <2>1, <2>2
  <2>4. y[n] = x[q[1]]
    BY <1>3, <2>3
  <2>5. <<n, q[2]>> \in P
    BY <1>5, <2>1, <2>4
  <2>6. f[<<n, q[2]>>] = <<q[1], q[2]>>
    BY <2>3, <2>5 DEF f
  <2> QED  BY <2>1, <2>5, <2>6
<1>11. ASSUME NEW p \in P, NEW q \in P, Earlier(p, q) PROVE Earlier(f[p], f[q])
  <2>1. p[1] \in 1..Len(y) /\ q[1] \in 1..Len(y)
    BY <1>5
  <2>2. p[1] < q[1] => g[p[1]] < g[q[1]]
    BY <1>3, <2>1
  <2> QED  BY <1>8, <1>11, <2>2 DEF Earlier
<1>12. Matches(f, y, x, m)
  BY <1>8, <1>9, <1>10, <1>11 DEF Matches, P, Q
<1>13. SameInOrder(y, x, m)
  BY <1>12, MatchesShow
<1> QED  BY <1>3, <1>13 DEF y

\* Entries put behind others: where only one of the two has commands of the kind,
\* both together have what that one has.
LEMMA InjectKeepsCommands ==
  ASSUME NEW S, NEW x \in Seq(Seq(S)), NEW y \in Seq(Seq(S)), NEW m
  PROVE  /\ x \o y \in Seq(Seq(S))
         /\ Places(y, m) = {} => SameInOrder(x, x \o y, m)
         /\ Places(x, m) = {} => SameInOrder(y, x \o y, m)
<1> DEFINE z == x \o y
           P == Places(x, m)
           Q == Places(y, m)
           R == Places(z, m)
           l == Len(x)
<1>1. /\ z \in Seq(Seq(S)) /\ Len(z) = l + Len(y) /\ l \in Nat /\ Len(y) \in Nat
      /\ \A i \in 1..l : z[i] = x[i]
      /\ \A i \in 1..Len(y) : z[l + i] = y[i]
  OBVIOUS
<1>0. z \in Seq(Seq(S))
  BY <1>1
<1> HIDE DEF z
<1>2. \A p : p \in P <=>
          /\ p = <<p[1], p[2]>> /\ p[1] \in 1..l /\ p[2] \in 1..Len(x[p[1]])
          /\ IsKnotchManaged(x[p[1]][p[2]]) <=> m
  BY PlacesAre
<1>3. \A p : p \in Q <=>
          /\ p = <<p[1], p[2]>> /\ p[1] \in 1..Len(y) /\ p[2] \in 1..Len(y[p[1]])
          /\ IsKnotchManaged(y[p[1]][p[2]]) <=> m
  BY PlacesAre
<1>4. \A p : p \in R <=>
          /\ p = <<p[1], p[2]>> /\ p[1] \in 1..Len(z) /\ p[2] \in 1..Len(z[p[1]])
          /\ IsKnotchManaged(z[p[1]][p[2]]) <=> m
  BY <1>0, PlacesAre
<1> HIDE DEF P, Q, R, l
<1>5. \A p \in P : p \in R /\ z[p[1]][p[2]] = x[p[1]][p[2]]
  <2> SUFFICES ASSUME NEW p \in P PROVE p \in R /\ z[p[1]][p[2]] = x[p[1]][p[2]]
    OBVIOUS
  <2>1. p[1] \in 1..Len(z) /\ z[p[1]] = x[p[1]]
    BY <1>1, <1>2
  <2> QED  BY <1>2, <1>4, <2>1
<1> DEFINE on(q) == <<l + q[1], q[2]>>
<1>6. \A q \in Q : on(q) \in R /\ z[on(q)[1]][on(q)[2]] = y[q[1]][q[2]]
  <2> SUFFICES ASSUME NEW q \in Q PROVE on(q) \in R /\ z[on(q)[1]][on(q)[2]] = y[q[1]][q[2]]
    OBVIOUS
  <2>1. /\ q[1] \in 1..Len(y) /\ q[2] \in 1..Len(y[q[1]])
        /\ IsKnotchManaged(y[q[1]][q[2]]) <=> m
    BY <1>3
  <2>2. l + q[1] \in 1..Len(z) /\ z[l + q[1]] = y[q[1]]
    <3>1. PICK i : i = q[1]
      OBVIOUS
    <3>2. i \in 1..Len(y) /\ z[l + i] = y[i]
      BY <1>1, <2>1, <3>1
    <3>3. l + i \in 1..Len(z)
      BY <1>1, <3>2
    <3> QED  BY <3>1, <3>2, <3>3
  <2>3. on(q)[1] = l + q[1] /\ on(q)[2] = q[2] /\ on(q) = <<on(q)[1], on(q)[2]>>
    OBVIOUS
  <2> HIDE DEF on
  <2> QED  BY <1>4, <2>1, <2>2, <2>3
<1>7. \A r \in R : r \in P \/ \E q \in Q : on(q) = r
  <2> SUFFICES ASSUME NEW r \in R PROVE r \in P \/ \E q \in Q : on(q) = r
    OBVIOUS
  <2>1. /\ r = <<r[1], r[2]>> /\ r[1] \in 1..Len(z) /\ r[2] \in 1..Len(z[r[1]])
        /\ IsKnotchManaged(z[r[1]][r[2]]) <=> m
    BY <1>4
  <2>2. CASE r[1] \in 1..l
    <3>1. z[r[1]] = x[r[1]]
      BY <1>1, <2>2
    <3> QED  BY <1>2, <2>1, <2>2, <3>1
  <2>3. CASE r[1] \notin 1..l
    <3>1. PICK i \in 1..Len(y) : r[1] = l + i
      <4>1. r[1] - l \in 1..Len(y) /\ r[1] = l + (r[1] - l)
        BY <1>1, <2>1, <2>3
      <4> QED  BY <4>1
    <3>2. z[r[1]] = y[i]
      BY <1>1, <3>1
    <3>3. <<i, r[2]>> \in Q
      BY <1>3, <2>1, <3>2
    <3>4. on(<<i, r[2]>>) = r
      BY <2>1, <3>1
    <3> QED  BY <3>3, <3>4
  <2> QED  BY <2>2, <2>3
<1>8. ASSUME Q = {} PROVE SameInOrder(x, z, m)
  <2> DEFINE f == [p \in P |-> p]
  <2>1. R = P
    BY <1>5, <1>7, <1>8
  <2>2. f \in [P -> R] /\ \A p \in P : f[p] = p
    BY <2>1
  <2> HIDE DEF f
  <2>3. \A r \in R : \E p \in P : f[p] = r
    BY <2>1, <2>2
  <2>4. \A p, q \in P : Earlier(p, q) => Earlier(f[p], f[q])
    BY <2>2
  <2>5. \A p \in P : z[f[p][1]][f[p][2]] = x[p[1]][p[2]]
    BY <1>5, <2>2
  <2>6. Matches(f, x, z, m)
    BY <2>2, <2>3, <2>4, <2>5 DEF Matches, P, R
  <2> QED  BY <2>6, MatchesShow
<1>9. ASSUME P = {} PROVE SameInOrder(y, z, m)
  <2> DEFINE f == [q \in Q |-> on(q)]
  <2> HIDE DEF on
  <2>2. f \in [Q -> R] /\ \A q \in Q : f[q] = on(q)
    BY <1>6
  <2> HIDE DEF f
  <2>3. \A r \in R : \E q \in Q : f[q] = r
    BY <1>7, <1>9, <2>2
  <2>4. ASSUME NEW p \in Q, NEW q \in Q, Earlier(p, q) PROVE Earlier(f[p], f[q])
    <3>1. p[1] \in Int /\ q[1] \in Int
      BY <1>3
    <3>2. /\ on(p)[1] = l + p[1] /\ on(p)[2] = p[2]
          /\ on(q)[1] = l + q[1] /\ on(q)[2] = q[2]
      BY DEF on
    <3>3. p[1] < q[1] => l + p[1] < l + q[1]
      BY <1>1, <3>1
    <3>4. Earlier(on(p), on(q))
      BY <2>4, <3>2, <3>3 DEF Earlier
    <3> QED  BY <2>2, <3>4
  <2>5. \A q \in Q : z[f[q][1]][f[q][2]] = y[q[1]][q[2]]
    BY <1>6, <2>2
  <2>6. Matches(f, y, z, m)
    BY <2>2, <2>3, <2>4, <2>5 DEF Matches, Q, R
  <2> QED  BY <2>6, MatchesShow
<1> QED  BY <1>1, <1>8, <1>9 DEF P, Q, z

-----------------------------------------------------------------------------
(* What is installed *)

\* The commands of knotch's blocks.
Own ==
    {"load-context", "check-commit", "guard-rewrite", "verify-commit", "record-revert",
     "record-tool-failure", "record-subagent", "refresh-context", "finalize-session"}

\* The hooks of the settings.
HookTables == [HookEvents -> Seq(Seq(Tools \cup Own))]

\* Entries that have the commands of entries without any have none.
LEMMA SameNone ==
  ASSUME NEW x, NEW y, NEW m, SameInOrder(x, y, m)
  PROVE  Places(x, m) = {} <=> Places(y, m) = {}
<1>1. PICK f : Matches(f, x, y, m)
  BY MatchesShow
<1> QED  BY <1>1 DEF Matches

\* No hooks at all are a table of them.
LEMMA NoHooksAtAll == NoHooks \in HookTables
  BY DEF HookTables, NoHooks

\* Merging a block keeps everyone's hooks and leaves of knotch's those of the block.
LEMMA MergeMerges ==
  ASSUME NEW hooks \in HookTables, NEW block \in HookTables,
         \A e \in HookEvents : Places(block[e], FALSE) = {}
  PROVE  MergeHooks(hooks, block) \in HookTables /\ HooksMerged(hooks, MergeHooks(hooks, block), block)
<1> DEFINE S == Tools \cup Own
           after == MergeHooks(hooks, block)
<1>1. after = [e \in HookEvents |-> DropEmpty(StripEach(hooks[e])) \o block[e]]
  BY DEF MergeHooks, InjectBlock, StripKnotchManaged
<1> HIDE DEF after
<1>2. ASSUME NEW e \in HookEvents
      PROVE  /\ after[e] \in Seq(Seq(S))
             /\ SameInOrder(hooks[e], after[e], FALSE)
             /\ SameInOrder(block[e], after[e], TRUE)
  <2> DEFINE x == hooks[e]
             y == StripEach(x)
             z == DropEmpty(y)
             b == block[e]
  <2>1. x \in Seq(Seq(S)) /\ b \in Seq(Seq(S)) /\ Places(b, FALSE) = {}
    BY DEF HookTables
  <2> HIDE DEF S, x, b
  <2>2. y \in Seq(Seq(S)) /\ Places(y, TRUE) = {} /\ SameInOrder(y, x, FALSE)
    BY <2>1, StripKeepsOthers
  <2> HIDE DEF y
  <2>3. z \in Seq(Seq(S)) /\ SameInOrder(z, y, FALSE) /\ SameInOrder(z, y, TRUE)
    BY <2>2, DropKeepsCommands
  <2> HIDE DEF z
  <2>4. Places(z, TRUE) = {}
    BY <2>2, <2>3, SameNone
  <2>5. /\ z \o b \in Seq(Seq(S)) /\ SameInOrder(z, z \o b, FALSE)
        /\ SameInOrder(b, z \o b, TRUE)
    BY <2>1, <2>3, <2>4, InjectKeepsCommands
  <2>6. SameInOrder(x, y, FALSE) /\ SameInOrder(y, z, FALSE)
    BY <2>1, <2>2, <2>3, SameBack
  <2>7. SameInOrder(x, z \o b, FALSE)
    BY <2>5, <2>6, SameThrough
  <2>8. after[e] = z \o b
    BY <1>1 DEF x, y, z, b
  <2> QED  BY <2>5, <2>7, <2>8 DEF x, b
<1>3. after \in HookTables
  BY <1>1, <1>2 DEF HookTables
<1> QED  BY <1>2, <1>3 DEF HooksMerged, after

\* The blocks are tables of knotch's commands.
LEMMA Blocks ==
  ASSUME NEW block \in {Mandatory, Optional}
  PROVE  block \in HookTables /\ \A e \in HookEvents : Places(block[e], FALSE) = {}
<1> DEFINE S == Tools \cup Own
           One == Seq(S)
           Some == Seq(One)
<1>1. Own \subseteq S
  OBVIOUS
<1> HIDE DEF S
<1>2. \A c, d \in S : <<c>> \in One /\ <<c, d>> \in One /\ <<c, d, d, d, d>> \in One
  OBVIOUS
<1> HIDE DEF One
<1>3. <<>> \in Some /\ \A s \in One : <<s>> \in Some
  OBVIOUS
<1> HIDE DEF Some
<1>4. /\ Mandatory = [e \in HookEvents |->
            CASE e = "SessionStart" -> <<<<"load-context">>>>
              [] e = "PreToolUse" -> <<<<"check-commit", "guard-rewrite", "guard-rewrite",
                                          "guard-rewrite", "guard-rewrite">>>>
              [] e = "PostToolUse" -> <<<<"verify-commit", "record-revert">>>>
              [] e = "PostToolUseFailure" -> <<<<"record-tool-failure">>>>
              [] e = "SubagentStop" -> <<<<"record-subagent">>>>
              [] OTHER -> <<>>]
      /\ Optional = [e \in HookEvents |->
            CASE e = "UserPromptSubmit" -> <<<<"refresh-context">>>>
              [] e = "SessionEnd" -> <<<<"finalize-session">>>>
              [] OTHER -> <<>>]
  BY DEF Mandatory, Optional, NoHooks, HookEvents
<1>5. Mandatory \in [HookEvents -> Some] /\ Optional \in [HookEvents -> Some]
  <2>1. /\ <<<<"load-context">>>> \in Some /\ <<<<"record-tool-failure">>>> \in Some
        /\ <<<<"record-subagent">>>> \in Some /\ <<<<"refresh-context">>>> \in Some
        /\ <<<<"finalize-session">>>> \in Some
        /\ <<<<"verify-commit", "record-revert">>>> \in Some
        /\ <<<<"check-commit", "guard-rewrite", "guard-rewrite", "guard-rewrite",
              "guard-rewrite">>>> \in Some
    <3>1. \A c, d \in S : /\ <<<<c>>>> \in Some /\ <<<<c, d>>>> \in Some
                          /\ <<<<c, d, d, d, d>>>> \in Some
      BY <1>2, <1>3
    <3>2. /\ "load-context" \in S /\ "record-tool-failure" \in S /\ "record-subagent" \in S
          /\ "refresh-context" \in S /\ "finalize-session" \in S /\ "verify-commit" \in S
          /\ "record-revert" \in S /\ "check-commit" \in S /\ "guard-rewrite" \in S
      BY <1>1 DEF Own
    <3> QED  BY <3>1, <3>2
  <2>2. ASSUME NEW e \in HookEvents PROVE Mandatory[e] \in Some /\ Optional[e] \in Some
    BY <1>3, <1>4, <2>1
  <2> QED  BY <1>4, <2>2
<1>6. \A e \in HookEvents : Places(block[e], FALSE) = {}
  BY ToolsAssumption DEF Places
<1> QED  BY <1>5, <1>6 DEF HookTables, S, One, Some

\* What init installs, be it in one merge or two.
LEMMA InstallMerges ==
  ASSUME NEW hooks \in HookTables, NEW include_optional \in BOOLEAN
  PROVE  /\ Installed(hooks, include_optional) \in HookTables
         /\ HooksMerged(hooks, Installed(hooks, include_optional),
                        IF include_optional THEN Optional ELSE Mandatory)
<1> DEFINE once == MergeHooks(hooks, Mandatory)
           twice == MergeHooks(once, Optional)
<1>1. once \in HookTables /\ HooksMerged(hooks, once, Mandatory)
  BY Blocks, MergeMerges
<1> HIDE DEF once
<1>2. twice \in HookTables /\ HooksMerged(once, twice, Optional)
  BY <1>1, Blocks, MergeMerges
<1> HIDE DEF twice
<1>3. HooksMerged(hooks, twice, Optional)
  BY <1>1, <1>2, SameThrough DEF HooksMerged
<1> QED  BY <1>1, <1>2, <1>3 DEF Installed, once, twice

\* The lines init leaves, from the lines it could read.
LEMMA LinesIgnoreOnce ==
  ASSUME NEW l, Sequence(l)
  PROVE  IgnoredOnce(l, WithKnotch(l))
<1> DEFINE mine(k) == {i \in DOMAIN k : k[i] \in Ignoring}
           longer == Append(l, ".knotch/")
           n == Len(l)
<1>1. PICK S : l \in Seq(S)
  BY DEF Sequence
<1>2. /\ n \in Nat /\ DOMAIN l = 1..n /\ DOMAIN longer = 1..(n + 1) /\ Len(longer) = n + 1
      /\ longer[n + 1] = ".knotch/" /\ \A i \in 1..n : longer[i] = l[i]
      /\ SubSeq(longer, 1, n) = l /\ SubSeq(l, 1, n) = l
  <2>1. l \in Seq(S \cup {".knotch/"})
    BY <1>1
  <2> QED  BY <2>1
<1>3. mine(l) = {} <=> ToSet(l) \cap Ignoring = {}
  BY DEF ToSet
<1>4. CASE mine(l) # {}
  <2>1. WithKnotch(l) = l
    BY <1>3, <1>4 DEF WithKnotch
  <2>2. IsPrefix(l, l)
    BY <1>2 DEF IsPrefix
  <2> QED  BY <1>4, <2>1, <2>2 DEF IgnoredOnce
<1>5. CASE mine(l) = {}
  <2>1. WithKnotch(l) = longer
    BY <1>3, <1>5 DEF WithKnotch
  <2>2. IsPrefix(l, longer)
    BY <1>2 DEF IsPrefix
  <2>3. mine(longer) = {n + 1}
    <3>1. n + 1 \in 1..(n + 1) /\ ".knotch/" \in Ignoring
      BY <1>2 DEF Ignoring
    <3>2. \A i \in 1..(n + 1) : i = n + 1 \/ i \in 1..n
      BY <1>2
    <3>3. \A i \in 1..n : l[i] \notin Ignoring
      BY <1>2, <1>5
    <3> HIDE DEF n, longer
    <3> QED  BY <1>2, <3>1, <3>2, <3>3
  <2>4. Cardinality({n + 1}) = 1
    BY FS_Singleton
  <2> HIDE DEF longer
  <2> QED  BY <1>5, <2>1, <2>2, <2>3, <2>4 DEF IgnoredOnce
<1> QED  BY <1>4, <1>5

-----------------------------------------------------------------------------
(* What init keeps *)

SettingsFiles == [state : {"absent", "whole", "torn"}, hooks : HookTables]

\* What a run that nobody has interfered with has kept by each stage of what it
\* came upon.
KeptSoFar ==
    /\ init.stage # "none" =>
          init.found[1].hooks \in HookTables /\ Sequence(Readable(init.found[2]))
    /\ init.stage \in {"config", "hooks"} => settings = init.found[1]
    /\ init.stage \notin {"none", "config", "hooks"} /\ init.with_hooks =>
          settings.hooks = Installed(init.found[1].hooks, init.include_optional)
    /\ init.stage \in {"config", "hooks", "ignore"} => ignore = init.found[2]
    /\ init.stage \in {"demo", "created", "specified", "done"} =>
          ignore.lines = WithKnotch(Readable(init.found[2]))
    /\ Demonstrating =>
          header # None /\ header.fingerprint_salt = FingerprintSalt(Canonical)

\* The inductive invariant of the settings and of what init keeps.
KeptInv ==
    /\ settings \in SettingsFiles
    /\ header = None \/ \E w \in Workflows : header = HeaderLine(w)
    /\ init.alone => KeptSoFar

\* What becomes of the header when a workflow is followed.
LEMMA HeaderFollows ==
  ASSUME NEW w \in Workflows, Follow(w),
         header = None \/ \E v \in Workflows : header = HeaderLine(v)
  PROVE  /\ header' = None \/ \E v \in Workflows : header' = HeaderLine(v)
         /\ header # None => header' = header
         /\ events' # <<>> => header' # None
         /\ CheckHeaderSalt(w) /\ events' # <<>> => header'.fingerprint_salt = FingerprintSalt(w)
<1>1. HeaderLine(w) # None /\ HeaderLine(w).fingerprint_salt = FingerprintSalt(w)
  BY HeaderAssumption DEF HeaderLine
<1> QED  BY <1>1 DEF Follow, CheckHeaderSalt

\* A table with another command in it, in an entry of its own or in one that is
\* there.
LEMMA OneMoreHook ==
  ASSUME NEW hooks \in HookTables, NEW e \in HookEvents, NEW tool \in Tools
  PROVE  /\ [hooks EXCEPT ![e] = Append(@, <<tool>>)] \in HookTables
         /\ \A i \in DOMAIN hooks[e] : [hooks EXCEPT ![e][i] = Append(@, tool)] \in HookTables
<1> DEFINE S == Tools \cup Own
<1>1. hooks[e] \in Seq(Seq(S)) /\ tool \in S /\ hooks \in [HookEvents -> Seq(Seq(S))]
  BY DEF HookTables
<1> HIDE DEF S
<1>2. Append(hooks[e], <<tool>>) \in Seq(Seq(S))
  <2>1. <<tool>> \in Seq(S)
    BY <1>1
  <2> QED  BY <1>1, <2>1
<1>3. ASSUME NEW i \in DOMAIN hooks[e]
      PROVE  [hooks[e] EXCEPT ![i] = Append(@, tool)] \in Seq(Seq(S))
  <2>1. hooks[e][i] \in Seq(S)
    BY <1>1
  <2>2. Append(hooks[e][i], tool) \in Seq(S)
    BY <1>1, <2>1
  <2> QED  BY <1>1, <2>2
<1> QED  BY <1>1, <1>2, <1>3 DEF HookTables, S

\* A step of init keeps what it should.
LEMMA InitStepKeepsAll ==
  ASSUME RunInv, KeptInv, InitStep, UNCHANGED unit
  PROVE  KeptInv'
<1>0. /\ init \in RunOf(init.found) /\ Sequence(ignore.lines) /\ settings \in SettingsFiles
      /\ header' = header
  BY DEF RunInv, KeptInv, unit
<1>1. header' = None \/ \E w \in Workflows : header' = HeaderLine(w)
  BY <1>0 DEF KeptInv
<1>2. ASSUME NEW force \in BOOLEAN, NEW with_hooks \in BOOLEAN,
             NEW include_optional \in BOOLEAN, NEW demo \in BOOLEAN,
             Begin(force, with_hooks, include_optional, demo)
      PROVE  KeptInv'
  <2>1. init'.found = <<settings, ignore>> /\ init'.stage = "config"
    BY <1>2 DEF Begin
  <2>2. settings' = settings /\ ignore' = ignore
    BY <1>2 DEF Begin, files
  <2>3. init'.found[1] = settings /\ init'.found[2] = ignore
    BY <2>1
  <2>4. settings.hooks \in HookTables /\ Sequence(Readable(ignore))
    BY <1>0, ReadableLines DEF SettingsFiles
  <2>5. KeptSoFar'
    BY <2>1, <2>2, <2>3, <2>4 DEF KeptSoFar, Demonstrating, Readable
  <2> QED  BY <1>0, <1>1, <2>2, <2>5 DEF KeptInv
<1>3. CASE WriteConfig
  <2>1. /\ init.stage = "config" /\ settings' = settings /\ ignore' = ignore
        /\ \E stage \in {"hooks", "ignore"} : Reach(stage) /\ (stage = "ignore" => ~init.with_hooks)
    BY <1>3 DEF WriteConfig
  <2>2. /\ init'.stage \in {"hooks", "ignore"} /\ init'.found = init.found
        /\ init'.stage = "ignore" => ~init'.with_hooks
        /\ init'.alone = init.alone
    BY <1>0, <2>1, RunsOn
  <2>3. init.alone => KeptSoFar'
    BY <2>1, <2>2 DEF KeptInv, KeptSoFar, Demonstrating, Readable
  <2> QED  BY <1>0, <1>1, <2>1, <2>2, <2>3 DEF KeptInv
<1>4. CASE InstallHooks
  <2>1. init.stage = "hooks" /\ ignore' = ignore
    BY <1>4 DEF InstallHooks
  <2>2. CASE GiveUp /\ settings' = settings
    <3>1. init'.stage = "none" /\ init'.demo = FALSE
      BY <2>2 DEF GiveUp, NoInit
    <3>2. KeptSoFar'
      BY <3>1 DEF KeptSoFar, Demonstrating
    <3> QED  BY <1>0, <1>1, <2>2, <3>2 DEF KeptInv
  <2>3. CASE /\ Reach("ignore")
             /\ settings' = [state |-> "whole",
                             hooks |-> Installed(settings.hooks, init.include_optional)]
    <3>1. /\ init'.stage = "ignore" /\ init'.found = init.found /\ init'.alone = init.alone
          /\ init'.include_optional = init.include_optional
      BY <1>0, <2>3, RunsOn
    <3>2. settings.hooks \in HookTables /\ init.include_optional \in BOOLEAN
      BY <1>0 DEF SettingsFiles, RunOf
    <3>3. Installed(settings.hooks, init.include_optional) \in HookTables
      BY <3>2, InstallMerges
    <3>4. settings'.hooks = Installed(settings.hooks, init.include_optional)
      BY <2>3
    <3>5. settings' \in SettingsFiles
      BY <2>3, <3>3 DEF SettingsFiles
    <3>6. init.alone => KeptSoFar'
      BY <2>1, <3>1, <3>4 DEF KeptInv, KeptSoFar, Demonstrating, Readable
    <3> QED  BY <1>1, <3>1, <3>5, <3>6 DEF KeptInv
  <2> QED  BY <1>4, <2>2, <2>3 DEF InstallHooks
<1>5. CASE EnsureGitignored
  <2>1. /\ init.stage = "ignore" /\ settings' = settings
        /\ ignore'.lines = WithKnotch(Readable(ignore))
        /\ \E stage \in {"demo", "done"} : Reach(stage) /\ (stage = "done" => ~init.demo)
    BY <1>0, <1>5 DEF EnsureGitignored, RunOf
  <2>2. /\ init'.stage \in {"demo", "done"} /\ init'.found = init.found
        /\ init'.stage = "done" => ~init'.demo
        /\ init'.alone = init.alone /\ init'.with_hooks = init.with_hooks
        /\ init'.include_optional = init.include_optional
    BY <1>0, <2>1, RunsOn
  <2>3. init.alone => KeptSoFar'
    BY <2>1, <2>2 DEF KeptInv, KeptSoFar, Demonstrating, Readable
  <2> QED  BY <1>0, <1>1, <2>1, <2>2, <2>3 DEF KeptInv
<1>6. CASE Killed
  <2>1. init'.stage = "none" /\ init'.demo = FALSE
    BY <1>6 DEF Killed, GiveUp, NoInit
  <2>2. settings' = settings \/ settings' = [state |-> "torn", hooks |-> NoHooks]
    BY <1>6 DEF Killed, files
  <2>3. settings' \in SettingsFiles
    BY <1>0, <2>2, NoHooksAtAll DEF SettingsFiles
  <2>4. KeptSoFar'
    BY <2>1 DEF KeptSoFar, Demonstrating
  <2> QED  BY <1>1, <2>3, <2>4 DEF KeptInv
<1> QED  BY <1>2, <1>3, <1>4, <1>5, <1>6 DEF InitStep

\* An edit keeps the settings what settings are.
LEMMA EditKeepsAll ==
  ASSUME RunInv, KeptInv, Edit, UNCHANGED unit
  PROVE  KeptInv'
<1>1. /\ init \in RunOf(init.found) /\ settings \in SettingsFiles /\ Noticed
      /\ header' = None \/ \E w \in Workflows : header' = HeaderLine(w)
  BY DEF RunInv, KeptInv, Edit, EditConfig, EditSettings, SpoilSettings, EditIgnore, unit
<1>2. init'.alone => init'.stage = "none"
  BY <1>1, RunsOn
<1>3. init'.alone => KeptSoFar'
  BY <1>2 DEF KeptSoFar, Demonstrating
<1>4. settings' \in SettingsFiles
  <2>1. CASE settings' = settings
    BY <1>1, <2>1
  <2>2. CASE EditSettings
    <3>1. PICK e \in HookEvents, tool \in Tools :
            \/ settings' = [state |-> "whole",
                            hooks |-> [settings.hooks EXCEPT ![e] = Append(@, <<tool>>)]]
            \/ \E i \in DOMAIN settings.hooks[e] :
                  settings' = [settings EXCEPT !.hooks[e][i] = Append(@, tool)]
      BY <2>2, EditedEventsAssumption DEF EditSettings
    <3>2. settings.hooks \in HookTables
      BY <1>1 DEF SettingsFiles
    <3>3. CASE settings' = [state |-> "whole",
                            hooks |-> [settings.hooks EXCEPT ![e] = Append(@, <<tool>>)]]
      BY <3>2, <3>3, OneMoreHook DEF SettingsFiles
    <3>4. ASSUME NEW i \in DOMAIN settings.hooks[e],
                 settings' = [settings EXCEPT !.hooks[e][i] = Append(@, tool)]
          PROVE  settings' \in SettingsFiles
      <4>1. [settings.hooks EXCEPT ![e][i] = Append(@, tool)] \in HookTables
        BY <3>2, OneMoreHook
      <4>2. settings' = [settings EXCEPT !.hooks = [settings.hooks EXCEPT ![e][i] = Append(@, tool)]]
        BY <3>4
      <4> QED  BY <1>1, <4>1, <4>2 DEF SettingsFiles
    <3> QED  BY <3>1, <3>3, <3>4
  <2>3. CASE SpoilSettings
    BY <2>3, NoHooksAtAll DEF SpoilSettings, SettingsFiles
  <2> QED  BY <2>1, <2>2, <2>3 DEF Edit, EditConfig, EditIgnore
<1> QED  BY <1>1, <1>3, <1>4 DEF KeptInv

\* Every step of the project keeps what init has kept.
LEMMA KeptKeeps == LogInv /\ RunInv /\ KeptInv /\ [Next]_vars => KeptInv'
<1> SUFFICES ASSUME LogInv, RunInv, KeptInv, [Next]_vars PROVE KeptInv'
  OBVIOUS
<1>0. init \in RunOf(init.found) /\ settings \in SettingsFiles /\ Sequence(events)
  BY DEF LogInv, Governed, RunInv, KeptInv
<1>1. CASE UNCHANGED <<files, init, unit>>
  BY <1>1 DEF KeptInv, KeptSoFar, Demonstrating, files, unit
<1>2. CASE InitStep /\ UNCHANGED unit
  BY <1>2, InitStepKeepsAll
<1>3. CASE Edit /\ UNCHANGED unit
  BY <1>3, EditKeepsAll
<1>4. CASE CreateDemo
  <2>1. PICK w \in Workflows :
           /\ Opens(w) /\ Takes(w, events, DemoCreated) /\ Follow(w)
           /\ events' = C(w)!Offered(events, DemoCreated)
           /\ init' = [init EXCEPT !.stage = "created", !.workflow = w]
           /\ UNCHANGED files /\ init.stage = "demo"
    BY <1>4 DEF CreateDemo
  <2>2. events' # <<>>
    <3>1. \E i \in DOMAIN events' : events'[i].body.kind = "UnitCreated"
      BY <1>0, <2>1, DemoCreates
    <3> QED  BY <3>1
  <2>3. /\ header' = None \/ \E v \in Workflows : header' = HeaderLine(v)
        /\ header' # None /\ header'.fingerprint_salt = FingerprintSalt(w)
    BY <2>1, <2>2, HeaderFollows DEF KeptInv, Opens
  <2>4. /\ init'.stage = "created" /\ init'.found = init.found
        /\ init'.alone = init.alone /\ init'.with_hooks = init.with_hooks
        /\ init'.include_optional = init.include_optional
    BY <1>0, <2>1 DEF RunOf
  <2>5. settings' = settings /\ ignore' = ignore
    BY <2>1 DEF files
  <2>6. init.alone => w = Canonical
    <3> SUFFICES ASSUME init.alone PROVE w = Canonical
      OBVIOUS
    <3>1. toml = Holding(Canonical)
      BY <2>1 DEF RunInv, SoFar
    <3>2. toml.state = "whole" /\ toml.workflow = Canonical /\ Configured = w
      BY <2>1, <3>1 DEF Holding, Opens, Loads
    <3> QED  BY <3>2 DEF Configured
  <2>7. init.alone => KeptSoFar'
    BY <2>1, <2>3, <2>4, <2>5, <2>6 DEF KeptInv, KeptSoFar, Demonstrating, Readable
  <2> QED  BY <1>0, <2>3, <2>4, <2>5, <2>7 DEF KeptInv
<1>5. CASE SpecifyDemo \/ UseDemo
  <2>1. /\ \/ init.stage = "created" /\ Reach("specified")
           \/ init.stage = "specified" /\ Reach("done")
        /\ settings' = settings /\ ignore' = ignore
    BY <1>5 DEF SpecifyDemo, UseDemo, files
  <2>2. /\ header' = None \/ \E v \in Workflows : header' = HeaderLine(v)
        /\ header # None => header' = header
    <3>1. CASE SpecifyDemo
      <4>1. PICK w \in Workflows : Follow(w)
        BY <3>1 DEF SpecifyDemo
      <4> QED  BY <4>1, HeaderFollows DEF KeptInv
    <3>2. CASE UseDemo
      BY <3>2 DEF UseDemo, KeptInv
    <3> QED  BY <1>5, <3>1, <3>2
  <2>3. /\ \/ init.stage = "created" /\ init'.stage = "specified"
           \/ init.stage = "specified" /\ init'.stage = "done"
        /\ init'.found = init.found /\ init'.alone = init.alone
        /\ init'.with_hooks = init.with_hooks
        /\ init'.include_optional = init.include_optional
    BY <1>0, <2>1, RunsOn
  <2>4. init.alone => KeptSoFar'
    BY <2>1, <2>2, <2>3 DEF KeptInv, KeptSoFar, Demonstrating, Readable
  <2> QED  BY <1>0, <2>1, <2>2, <2>3, <2>4 DEF KeptInv
<1>6. CASE Work
  <2>1. PICK w \in Workflows : Follow(w)
    BY <1>6 DEF Work
  <2>2. /\ header' = None \/ \E v \in Workflows : header' = HeaderLine(v)
        /\ header # None => header' = header
    BY <2>1, HeaderFollows DEF KeptInv
  <2>3. init' = init /\ settings' = settings /\ ignore' = ignore
    BY <1>6 DEF Work, files
  <2>4. init.alone => KeptSoFar'
    BY <2>2, <2>3 DEF KeptInv, KeptSoFar, Demonstrating
  <2> QED  BY <1>0, <2>2, <2>3, <2>4 DEF KeptInv
<1> QED  BY <1>1, <1>2, <1>3, <1>4, <1>5, <1>6 DEF Next, vars

\* init.rs, run: whatever the files were, whatever edits, failures and kills came
\* before, an init that runs to its end with nobody interfering leaves a project
\* that doctor finds nothing wrong with, everyone else's hooks and lines where
\* they were, knotch's hooks once each, and .knotch ignored no more often than
\* once or than it was.
THEOREM InitsLeaveSoundProjects ==
  ASSUME OneVersion
  PROVE  Spec => []InitLeavesASoundProject
<1>1. Init => KeptInv
  <2> SUFFICES ASSUME Init PROVE KeptInv
    OBVIOUS
  <2>1. /\ init.stage = "none" /\ init.demo = FALSE /\ header = None
        /\ settings = [state |-> "absent", hooks |-> NoHooks]
    BY DEF Init, InitScaffold, NoInit
  <2>2. settings \in SettingsFiles
    BY <2>1, NoHooksAtAll DEF SettingsFiles
  <2> QED  BY <2>1, <2>2 DEF KeptInv, KeptSoFar, Demonstrating
<1>2. InitSatisfiesDoctor /\ RunInv /\ KeptInv => InitLeavesASoundProject
  <2> SUFFICES ASSUME InitSatisfiesDoctor, RunInv, KeptInv, init.stage = "done", init.alone
               PROVE  InitLeavesASoundProject
    BY DEF InitLeavesASoundProject
  <2>1. /\ Doctor = {"ok"}
        /\ ~init.with_hooks => settings = init.found[1]
        /\ init.demo => active /\ events # <<>>
    BY DEF InitSatisfiesDoctor
  <2>2. /\ init.found[1].hooks \in HookTables /\ Sequence(Readable(init.found[2]))
        /\ init.with_hooks =>
              settings.hooks = Installed(init.found[1].hooks, init.include_optional)
        /\ ignore.lines = WithKnotch(Readable(init.found[2]))
        /\ init.demo => header # None /\ header.fingerprint_salt = FingerprintSalt(Canonical)
    BY DEF KeptInv, KeptSoFar, Demonstrating
  <2>3. init.with_hooks =>
          HooksMerged(init.found[1].hooks, settings.hooks,
                      IF init.include_optional THEN Optional ELSE Mandatory)
    <3>1. init.include_optional \in BOOLEAN
      BY DEF RunInv, RunOf
    <3> QED  BY <2>2, <3>1, InstallMerges
  <2>4. IgnoredOnce(Readable(init.found[2]), ignore.lines)
    BY <2>2, LinesIgnoreOnce
  <2>5. init.demo => ~Mismatch(1)
    <3> SUFFICES ASSUME init.demo PROVE header.schema_version = 1
      BY DEF Mismatch
    <3>1. PICK w \in Workflows : header = HeaderLine(w)
      BY <2>2 DEF KeptInv
    <3>2. header.fingerprint_salt = FingerprintSalt(w) /\ header.schema_version = w.schema_version
      BY <3>1 DEF HeaderLine
    <3>3. Canonical.schema_version = 1
      BY DEF Canonical
    <3>4. w.schema_version = Canonical.schema_version
      BY <2>2, <3>2 DEF OneVersion, Workflows
    <3> QED  BY <3>2, <3>3, <3>4
  <2> QED  BY <2>1, <2>3, <2>4, <2>5 DEF InitLeavesASoundProject
<1>3. Init => LogInv /\ RunInv
  BY LogStarts, RunStarts
<1>4. LogInv /\ RunInv => InitSatisfiesDoctor
  BY RunSatisfiesDoctor
<1> QED  BY <1>1, <1>2, <1>3, <1>4, LogKeeps, RunKeeps, KeptKeeps, PTL DEF Spec
=============================================================================
